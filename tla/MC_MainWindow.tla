--------------------------- MODULE MC_MainWindow ---------------------------
(***************************************************************************)
(* Three GUI state machines of the main window: the recents list of the *)
(* left pane (RecentsNavigation) and files dragged onto it (RecentsDrag), *)
(* and in the contact dialog the read                                     *)
(* heads of a history item (HistoryHeads) and the input's attach popup    *)
(* (AttachFilePopup); the painting and hit-testing of an item's heads    *)
(* (HeadsView).  They share no state.  The two of the contact dialog are interleaved,   *)
(* the Qt event loop running the events of either in any order under one *)
(* budget.  The others share nothing with them either, so interleaving    *)
(* them too would only multiply the states: part chooses, per behaviour,  *)
(* which group moves, the others stay in an initial state, and each      *)
(* machine has exactly the behaviours it has alone.                       *)
(***************************************************************************)
EXTENDS Naturals

CONSTANTS HeadCalls, PopupEvents, DialogEvents, RecentsEvents, DragEvents

VARIABLES isChat, isFavorites, heads, addAnim, removeAnim, lastStatus, requested, calls,
          visible, animState, persistent, hideTimer, mouse, cur, count, events,
          model, recentsRows, unknownsCount, pictureOnly, searchMode, selected, uiEvents,
          dSearchMode, delegate, offset, dragging, pointer, accepted, overTimer, scrollTimer,
          lastPos, clDrag, recentsDrag, unknownsDrag, dropTo, dEvents,
          headCount, itemWidth, outgoing, dialogWidth, multiselect, pointing, tooltip,
          pressed, opened, mentioned, hEvents,
          part

MCHeadSeqs == {<<>>, <<"a">>, <<"b">>, <<"a", "b">>, <<"b", "a">>}

\* Recents with pinned and recents headers, with none on top, and with
\* headers on both ends.
MCRecentsRows == {<<"service", "contact", "contact", "service", "contact">>,
                  <<"contact", "service", "contact">>,
                  <<"service", "service", "contact", "service">>}

Heads == INSTANCE HistoryHeads
    WITH Self <- "peer", HeadSeqs <- MCHeadSeqs, MaxCalls <- HeadCalls

Popup == INSTANCE AttachFilePopup
    WITH ItemCounts <- {4, 5}, MaxEvents <- PopupEvents

Recents == INSTANCE RecentsNavigation
    WITH RecentsRowLists <- MCRecentsRows, UnknownsCounts <- {0, 2},
         MaxEvents <- RecentsEvents

\* Five rows, three in view: a chat, a header, two chats, a read-only chat.
Drag == INSTANCE RecentsDrag
    WITH NRows <- 5, Droppable <- {1, 3, 4}, MaxEvents <- DragEvents,
         searchMode <- dSearchMode

\* Up to seven heads, so that the placeholder stands for one or two heads
\* at every maxHeadsCount; item widths on each side of 480 and 500, and
\* dialogs on each side of 460.
View == INSTANCE HeadsView
    WITH MaxHeads <- 7, Widths <- {470, 490, 510}, DialogWidths <- {400, 600},
         MaxEvents <- 4

headVars == <<isChat, isFavorites, heads, addAnim, removeAnim, lastStatus, requested, calls>>
popupVars == <<visible, animState, persistent, hideTimer, mouse, cur, count, events>>
navVars == <<model, recentsRows, unknownsCount, pictureOnly, searchMode, selected, uiEvents>>
dragVars == <<dSearchMode, delegate, offset, dragging, pointer, accepted, overTimer, scrollTimer,
              lastPos, clDrag, recentsDrag, unknownsDrag, dropTo, dEvents>>
viewVars == <<headCount, itemWidth, outgoing, dialogWidth, multiselect, pointing, tooltip,
              pressed, opened, mentioned, hEvents>>

\* The machines that do not move stay in one of their initial states.
Init == /\ Heads!Init /\ Popup!Init /\ Recents!Init /\ Drag!Init /\ View!Init
        /\ part \in {"dialog", "recents", "drag", "view"}
        /\ part # "view" => itemWidth = 470 /\ ~outgoing /\ dialogWidth = 600
        /\ part # "recents" => recentsRows = <<"contact", "service", "contact">>
                              /\ unknownsCount = 0
        /\ part # "dialog" => ~isChat /\ ~isFavorites /\ mouse = "outside" /\ count = 4

\* One budget for the calls and user events of the dialog's machines.
DialogBound == calls + events <= DialogEvents

Next == /\ \/ part = "dialog" /\ Heads!Next /\ UNCHANGED <<popupVars, navVars, dragVars, viewVars>>
           \/ part = "dialog" /\ Popup!Next /\ UNCHANGED <<headVars, navVars, dragVars, viewVars>>
           \/ part = "recents" /\ Recents!NavNext /\ UNCHANGED <<headVars, popupVars, dragVars, viewVars>>
           \/ part = "drag" /\ Drag!DragNext /\ UNCHANGED <<headVars, popupVars, navVars, viewVars>>
           \/ part = "view" /\ View!HvNext /\ UNCHANGED <<headVars, popupVars, navVars, dragVars>>
        /\ DialogBound'
        /\ UNCHANGED part

allVars == <<headVars, popupVars, navVars, dragVars, viewVars, part>>

Spec == Init /\ [][Next]_allVars
             /\ Heads!Fairness /\ Popup!Fairness

\* The properties of the machines, stated in their modules.
PeerHeadIffRead == Heads!PeerHeadIffRead
HeadsUnique == Heads!HeadsUnique
EveryHeadReachable == View!EveryHeadReachable
KeyNavWraps == Popup!KeyNavWraps
HiddenIsReset == Popup!HiddenIsReset
PointerAwayHides == Popup!PointerAwayHides
NavMatchesReference == Recents!NavMatchesReference
SelectedIsContact == Recents!SelectedIsContact
AutoscrollOnlyWhileDragging == Drag!AutoscrollOnlyWhileDragging
DropOnlyToHighlighted == Drag!DropOnlyToHighlighted
=============================================================================
