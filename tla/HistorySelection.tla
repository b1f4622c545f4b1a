--------------------------- MODULE HistorySelection ---------------------------
(***************************************************************************)
(* Multiselect in the history view (HistoryControlPageItem.cpp): each     *)
(* message item keeps its own Selected_ flag and, to draw the selection   *)
(* and hover bands joined to its neighbours, copies of its neighbours'    *)
(* state: selectedTop_ / selectedBottom_ (the previous / next message is  *)
(* selected) and hoveredTop_ / hoveredBottom_ (the previous / next        *)
(* message is the current multiselect message).  The copies are kept up   *)
(* to date only by the InterConnector broadcasts every item listens to:   *)
(* selectionStateChanged, sent by setSelected when the flag changes, and  *)
(* multiSelectCurrentMessageChanged, sent when an item's enterEvent sets  *)
(* the current multiselect message.                                       *)
(*                                                                         *)
(* Items are the messages in view order: item i's prev_ is i - 1 and its  *)
(* next_ is i + 1, and getId() is i.  InterConnector is not in the        *)
(* repository: setCurrentMultiselectMessage is taken to store the id and  *)
(* emit multiSelectCurrentMessageChanged.  Signals are direct calls.      *)
(***************************************************************************)
EXTENDS Integers

CONSTANTS
    N               \* number of message items in view

Items == 1..N

\* currentMultiselectMessage() when no message is current.
NoMessage == -1

VARIABLES
    multiselect,    \* InterConnector::isMultiselect()
    current,        \* InterConnector::currentMultiselectMessage()
    selected,       \* Selected_
    selectedTop,    \* selectedTop_
    selectedBottom, \* selectedBottom_
    hoveredTop,     \* hoveredTop_
    hoveredBottom   \* hoveredBottom_

vars == <<multiselect, current, selected, selectedTop, selectedBottom, hoveredTop, hoveredBottom>>

\* The constructor's initial values.
Init ==
    /\ multiselect = FALSE
    /\ current = NoMessage
    /\ selected = [i \in Items |-> FALSE]
    /\ selectedTop = [i \in Items |-> FALSE]
    /\ selectedBottom = [i \in Items |-> FALSE]
    /\ hoveredTop = [i \in Items |-> FALSE]
    /\ hoveredBottom = [i \in Items |-> FALSE]

\* The selectionStateChanged lambda of every item, for message m now s.
SelectionStateChanged(m, s) ==
    /\ selectedTop' = [i \in Items |-> IF i - 1 = m THEN s ELSE selectedTop[i]]
    /\ selectedBottom' = [i \in Items |->
                            IF i - 1 # m /\ i + 1 = m THEN s ELSE selectedBottom[i]]

\* setSelected(s) on item m: the flag, and the broadcast if it changed.
SetSelected(m, s) ==
    /\ selected' = [selected EXCEPT ![m] = s]
    /\ IF selected[m] # s
       THEN SelectionStateChanged(m, s)
       ELSE UNCHANGED <<selectedTop, selectedBottom>>

\* Every item's multiSelectCurrentMessageChanged lambda, for current
\* message m: a match on prev_ sets hoveredTop_ only, a match on next_
\* sets hoveredBottom_ only, and no match clears both.
CurrentMessageChanged(m) ==
    /\ hoveredTop' = [i \in Items |->
                        IF i - 1 = m THEN TRUE
                        ELSE IF i + 1 = m THEN hoveredTop[i]
                        ELSE FALSE]
    /\ hoveredBottom' = [i \in Items |->
                           IF i - 1 = m THEN hoveredBottom[i]
                           ELSE IF i + 1 = m THEN TRUE
                           ELSE FALSE]

\* enterEvent on item m: setCurrentMultiselectMessage(getId()), which
\* broadcasts multiSelectCurrentMessageChanged.
Enter(m) ==
    /\ current' = m
    /\ CurrentMessageChanged(m)
    /\ UNCHANGED <<multiselect, selected, selectedTop, selectedBottom>>

\* mouseReleaseEvent with a click in multiselect mode: toggle.  The
\* pointer is over m, so m's enterEvent made it the current message.
Click(m) ==
    /\ multiselect
    /\ current = m
    /\ SetSelected(m, ~selected[m])
    /\ UNCHANGED <<multiselect, current, hoveredTop, hoveredBottom>>

\* The multiselectSpaceClicked lambda: the current message toggles.
SpaceClicked ==
    /\ multiselect
    /\ current \in Items
    /\ SetSelected(current, ~selected[current])
    /\ UNCHANGED <<multiselect, current, hoveredTop, hoveredBottom>>

\* clearSelection(bool): Selected_ = false, with selectionChanged and
\* updateSelectedCount but no selectionStateChanged.
ClearSelection(m) ==
    /\ selected' = [selected EXCEPT ![m] = FALSE]
    /\ UNCHANGED <<multiselect, current, selectedTop, selectedBottom, hoveredTop, hoveredBottom>>

\* The page enters or leaves multiselect mode.
ToggleMultiselect ==
    /\ multiselect' = ~multiselect
    /\ UNCHANGED <<current, selected, selectedTop, selectedBottom, hoveredTop, hoveredBottom>>

Next ==
    \/ \E m \in Items : Enter(m) \/ Click(m) \/ ClearSelection(m)
    \/ SpaceClicked
    \/ ToggleMultiselect

Spec == Init /\ [][Next]_vars

TypeOK ==
    /\ multiselect \in BOOLEAN
    /\ current \in Items \cup {NoMessage}
    /\ \A f \in {selected, selectedTop, selectedBottom, hoveredTop, hoveredBottom} :
            f \in [Items -> BOOLEAN]

(***************************************************************************)
(* drawSelection for item i: the item is filled when it is the current     *)
(* multiselect message (hovered) or selected, and the filled rect keeps    *)
(* its top / bottom margin, joining the fill to the neighbour's, when a    *)
(* top / bottom mark is set; without one, the margin is cut off.  (The     *)
(* band rects it computes are empty or inside the fill.)  Every item is    *)
(* taken to have the top margin and bottom offset that are cut, and the    *)
(* current multiselect element to be a message.                            *)
(***************************************************************************)
DrawnSelection(i) ==
    [fill   |-> current = i \/ selected[i],
     top    |-> selectedTop[i] \/ hoveredTop[i],
     bottom |-> selectedBottom[i] \/ hoveredBottom[i]]

\* In multiselect mode, a message's fill joins the fill of a neighbour
\* exactly when that neighbour is filled too (hovered or selected): the
\* marks that decide the join follow the neighbours.  The pointer entering
\* messages in any order (a fast move skips the message between two
\* others) and clearSelection are what this is about.
SelectionJoinsFilled ==
    multiselect =>
        \A i \in Items :
            DrawnSelection(i).fill =>
                /\ DrawnSelection(i).top = (i > 1 /\ DrawnSelection(i - 1).fill)
                /\ DrawnSelection(i).bottom = (i < N /\ DrawnSelection(i + 1).fill)
=============================================================================
