----------------------------- MODULE RecentsDrag -----------------------------
(***************************************************************************)
(* Dragging files onto a chat of the left pane (RecentsTab.cpp): the      *)
(* RCLEventFilter on the recents view and on the search results' view     *)
(* receives the drag events; RecentsTab::dragPositionUpdate highlights    *)
(* the chat under the pointer through the view's delegate and runs the    *)
(* autoscroll timer while the pointer is in the top or bottom band of the *)
(* view; dropMimeData sends the files to the chat under the pointer.      *)
(*                                                                         *)
(* A view shows the rows 1..NRows, three at a time: at scroll offset o    *)
(* the top band, the middle and the bottom band show rows o+1, o+2, o+3.  *)
(* Droppable is the set of rows contactForDrop accepts (a chat, not a     *)
(* service item, where the user may write).  The recents view's delegate  *)
(* is recentsDelegate_ or unknownsDelegate_ (switchToRecents,             *)
(* switchToUnknowns); currentTab_ is always RECENTS.  The drag's mime     *)
(* data and whether a modal widget is up are folded into one input of      *)
(* each move: accepted or not.  The file sending, the stats, and the main  *)
(* window's activate / closeGallery of onTimer are left out.  The mode     *)
(* and the model change only between drags: both need the user's input.   *)
(***************************************************************************)
EXTENDS Naturals

CONSTANTS
    NRows,      \* rows of a view
    Droppable,  \* rows that contactForDrop accepts
    MaxEvents   \* bound on the drag events and mode changes

Rows == 1..NRows
NoRow == 0
Zones == {"top", "middle", "bottom"}
ScrollZones == {"top", "bottom"}
\* QPoint(): no position.
Null == "null"
MaxOffset == NRows - 3

ASSUME NRows >= 3 /\ Droppable \subseteq Rows

VARIABLES
    searchMode,     \* isSearchMode()
    delegate,       \* recentsView_->itemDelegate(): "recents" or "unknowns"
    offset,         \* scroll offset of the "search" and the "recents" view
    dragging,       \* a drag is over the view
    pointer,        \* the position of the last drag event
    accepted,       \* the last DragEnter / DragMove was accepted
    overTimer,      \* dragMouseoverTimer_ running
    scrollTimer,    \* scrollTimer_ running
    lastPos,        \* lastDragPos_
    clDrag,         \* the drag index of contactListWidget_'s delegate
    recentsDrag,    \* recentsDelegate_'s drag index
    unknownsDrag,   \* unknownsDelegate_'s drag index
    dropTo,         \* the chat the files of this step's drop go to
    dEvents

dragVars == <<searchMode, delegate, offset, dragging, pointer, accepted, overTimer,
              scrollTimer, lastPos, clDrag, recentsDrag, unknownsDrag, dropTo, dEvents>>

View == IF searchMode THEN "search" ELSE "recents"

\* view->indexAt(pos) at scroll offset o.
IndexAt(p, o) ==
    CASE p = "top" -> o + 1 [] p = "middle" -> o + 2 [] p = "bottom" -> o + 3
      [] OTHER -> NoRow

\* contactForDrop: the row if the files may be dropped on it, else none.
ContactForDrop(r) == IF r \in Droppable THEN r ELSE NoRow

Init ==
    /\ searchMode = FALSE
    /\ delegate = "recents"
    /\ offset = [v \in {"search", "recents"} |-> 0]
    /\ dragging = FALSE
    /\ pointer = Null
    /\ accepted = FALSE
    /\ overTimer = FALSE
    /\ scrollTimer = FALSE
    /\ lastPos = Null
    /\ clDrag = NoRow
    /\ recentsDrag = NoRow
    /\ unknownsDrag = NoRow
    /\ dropTo = NoRow
    /\ dEvents = 0

DragEvent == dEvents < MaxEvents /\ dEvents' = dEvents + 1

(***************************************************************************)
(* dragPositionUpdate(p, fromScroll) at scroll offset o: the search branch *)
(* sets or clears the contact list's drag index; the recents branch sets  *)
(* the drag index of the view's delegate, but clears recentsDelegate_'s    *)
(* only.  Then the autoscroll timer runs exactly when p is in a band.      *)
(***************************************************************************)
DragPositionUpdate(p, fromScroll, o) ==
    LET c == ContactForDrop(IndexAt(p, o))
    IN /\ IF searchMode
          THEN /\ clDrag' = c
               /\ UNCHANGED <<recentsDrag, unknownsDrag>>
          ELSE /\ UNCHANGED clDrag
               /\ IF c # NoRow
                  THEN IF delegate = "recents"
                       THEN recentsDrag' = c /\ UNCHANGED unknownsDrag
                       ELSE unknownsDrag' = c /\ UNCHANGED recentsDrag
                  ELSE recentsDrag' = NoRow /\ UNCHANGED unknownsDrag
       /\ scrollTimer' = (p \in ScrollZones)
       /\ lastPos' = IF fromScroll THEN lastPos ELSE p

\* RCLEventFilter, DragEnter or DragMove at p: the mouse-over timer
\* restarts; an accepted move updates the drag position.
DragMove(p, ok) ==
    /\ DragEvent
    /\ dragging' = TRUE
    /\ pointer' = p
    /\ accepted' = ok
    /\ overTimer' = TRUE
    /\ IF ok THEN DragPositionUpdate(p, FALSE, offset[View])
       ELSE UNCHANGED <<clDrag, recentsDrag, unknownsDrag, scrollTimer, lastPos>>
    /\ dropTo' = NoRow
    /\ UNCHANGED <<searchMode, delegate, offset>>

\* Mutant: DragLeave that does not call dragPositionUpdate(QPoint()).
DragLeaveNoUpdate ==
    /\ dragging
    /\ DragEvent
    /\ dragging' = FALSE /\ pointer' = Null /\ accepted' = FALSE
    /\ overTimer' = FALSE
    /\ dropTo' = NoRow
    /\ UNCHANGED <<searchMode, delegate, offset, clDrag, recentsDrag, unknownsDrag,
                   scrollTimer, lastPos>>

\* RCLEventFilter, DragLeave.
DragLeave ==
    /\ dragging
    /\ DragEvent
    /\ dragging' = FALSE /\ pointer' = Null /\ accepted' = FALSE
    /\ overTimer' = FALSE
    /\ DragPositionUpdate(Null, FALSE, offset[View])
    /\ dropTo' = NoRow
    /\ UNCHANGED <<searchMode, delegate, offset>>

\* dropMimeData(p): the files go to the chat under p, if any, and the
\* drag indexes of the branch are cleared.
DropMimeData(p) ==
    /\ dropTo' = ContactForDrop(IndexAt(p, offset[View]))
    /\ IF searchMode
       THEN clDrag' = NoRow /\ UNCHANGED <<recentsDrag, unknownsDrag>>
       ELSE recentsDrag' = NoRow /\ unknownsDrag' = NoRow /\ UNCHANGED clDrag

\* RCLEventFilter, Drop (delivered only after an accepted move): the timer
\* stops, onTimer runs, dropMimeData, then dragPositionUpdate(QPoint()),
\* which leaves no drag index of dropMimeData's branch to clear.
Drop ==
    /\ dragging /\ accepted
    /\ DragEvent
    /\ dragging' = FALSE /\ pointer' = Null /\ accepted' = FALSE
    /\ overTimer' = FALSE
    /\ DropMimeData(pointer)
    /\ scrollTimer' = FALSE
    /\ lastPos' = Null
    /\ UNCHANGED <<searchMode, delegate, offset>>

\* dragMouseoverTimer_ times out: onTimer activates the main window.
OverTimerFires ==
    /\ overTimer
    /\ overTimer' = FALSE
    /\ dropTo' = NoRow
    /\ UNCHANGED <<searchMode, delegate, offset, dragging, pointer, accepted, scrollTimer,
                   lastPos, clDrag, recentsDrag, unknownsDrag, dEvents>>

\* Mutant: autoScroll that scrolls without dragPositionUpdate.
AutoScrollNoUpdate ==
    /\ scrollTimer
    /\ LET o == offset[View]
           o2 == IF lastPos = "top" THEN IF o > 0 THEN o - 1 ELSE o
                 ELSE IF o < MaxOffset THEN o + 1 ELSE o
       IN offset' = [offset EXCEPT ![View] = o2]
    /\ dropTo' = NoRow
    /\ UNCHANGED <<searchMode, delegate, dragging, pointer, accepted, overTimer, dEvents,
                   clDrag, recentsDrag, unknownsDrag, scrollTimer, lastPos>>

\* scrollTimer_ times out: autoScroll moves the view up in the top band
\* and down in the bottom one (the scroll bar clamps), then calls
\* dragPositionUpdate(lastDragPos_, true).
AutoScroll ==
    /\ scrollTimer
    /\ LET o == offset[View]
           o2 == IF lastPos = "top" THEN IF o > 0 THEN o - 1 ELSE o
                 ELSE IF o < MaxOffset THEN o + 1 ELSE o
       IN /\ offset' = [offset EXCEPT ![View] = o2]
          /\ DragPositionUpdate(lastPos, TRUE, o2)
    /\ dropTo' = NoRow
    /\ UNCHANGED <<searchMode, delegate, dragging, pointer, accepted, overTimer, dEvents>>

\* setSearchMode: the stacked widget shows the search results or recents.
SetSearchMode(s) ==
    /\ ~dragging
    /\ s # searchMode
    /\ DragEvent
    /\ searchMode' = s
    /\ dropTo' = NoRow
    /\ UNCHANGED <<delegate, offset, dragging, pointer, accepted, overTimer, scrollTimer,
                   lastPos, clDrag, recentsDrag, unknownsDrag>>

\* switchToRecents / switchToUnknowns: the view gets the model's delegate
\* and scrolls to the top.
SwitchModel(d) ==
    /\ ~dragging
    /\ d # delegate
    /\ DragEvent
    /\ delegate' = d
    /\ offset' = [offset EXCEPT !["recents"] = 0]
    /\ dropTo' = NoRow
    /\ UNCHANGED <<searchMode, dragging, pointer, accepted, overTimer, scrollTimer,
                   lastPos, clDrag, recentsDrag, unknownsDrag>>

DragNext ==
    \/ \E p \in Zones, ok \in BOOLEAN : DragMove(p, ok)
    \/ DragLeave \/ Drop \/ OverTimerFires \/ AutoScroll
    \/ \E s \in BOOLEAN : SetSearchMode(s)
    \/ \E d \in {"recents", "unknowns"} : SwitchModel(d)

DragSpec == Init /\ [][DragNext]_dragVars

DragTypeOK ==
    /\ searchMode \in BOOLEAN /\ delegate \in {"recents", "unknowns"}
    /\ offset \in [{"search", "recents"} -> 0..MaxOffset]
    /\ {dragging, accepted, overTimer, scrollTimer} \subseteq BOOLEAN
    /\ pointer \in Zones \cup {Null} /\ lastPos \in Zones \cup {Null}
    /\ {clDrag, recentsDrag, unknownsDrag, dropTo} \subseteq Droppable \cup {NoRow}

\* The highlighted chat of the view's delegate.
Highlighted ==
    IF searchMode THEN clDrag
    ELSE IF delegate = "recents" THEN recentsDrag ELSE unknownsDrag

\* The autoscroll timer runs only while a drag is over the view and its
\* last accepted position is in the top or bottom band: DragLeave and Drop
\* stop it, and autoScroll restarts it only for a position in a band.
AutoscrollOnlyWhileDragging ==
    scrollTimer => dragging /\ lastPos \in ScrollZones

\* A drop sends the files only to the chat the view highlighted: the
\* pointer's moves, the autoscroll's re-highlighting after each scroll
\* and the drop at the pointer agree on the chat.
DropOnlyToHighlighted ==
    [][dropTo' # NoRow => dropTo' = Highlighted]_dragVars
=============================================================================
