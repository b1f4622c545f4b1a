------------------------- MODULE RecentsNavigation -------------------------
(***************************************************************************)
(* The recents list of the left pane, Ui::RecentsTab (RecentsTab.cpp): the *)
(* view shows the recents model or the unknowns model, a stacked widget   *)
(* shows it or the search results, and the Up, Down and Enter keys of the  *)
(* main window and of the search field move the current row of the list.  *)
(* Rows are contacts or service items (section headers); the keys skip     *)
(* service items.                                                          *)
(*                                                                         *)
(* The models are not in the repository.  A row is abstracted to its kind; *)
(* the recents rows are fixed for a behaviour (a refresh that reorders     *)
(* them is left out), the unknowns model has its contacts behind a header *)
(* that setHeaderVisible(!pictureOnlyView) shows or hides.  isServiceItem *)
(* is taken to be false for an invalid index, and the view's current index *)
(* (a persistent index) to follow its contact when the header comes or     *)
(* goes.  currentTab_ is never anything but RECENTS: changeTab is only     *)
(* called with RECENTS or with prevTab_, which only takes currentTab_'s    *)
(* earlier value.  The contact list with headers that                    *)
(* switchToContactListWithHeaders puts in the view is left out: its model *)
(* is not in the repository, nor whether the keys' qobject_cast accepts it.*)
(***************************************************************************)
EXTENDS Integers, Sequences, FiniteSetsExt

CONSTANTS
    RecentsRowLists,  \* the row kinds the recents model may have
    UnknownsCounts,   \* the numbers of contacts the unknowns model may have
    MaxEvents         \* bound on key presses and other calls

Kinds == {"contact", "service"}

VARIABLES
    model,          \* recentsView_->model(): "recents" or "unknowns"
    recentsRows,    \* the recents model's rows, by kind
    unknownsCount,  \* contacts of the unknowns model
    pictureOnly,    \* pictureOnlyView_
    searchMode,     \* isSearchMode(): the stacked widget shows SEARCH
    selected,       \* the row of the view's current index, -1 if invalid
    uiEvents

navVars == <<model, recentsRows, unknownsCount, pictureOnly, searchMode, selected, uiEvents>>

\* The unknowns model's rows: a header unless in picture-only view.
UnknownsRows(n, pict) ==
    (IF pict THEN <<>> ELSE <<"service">>) \o [k \in 1..n |-> "contact"]

Rows == IF model = "recents" THEN recentsRows ELSE UnknownsRows(unknownsCount, pictureOnly)

Init ==
    /\ model = "recents"
    /\ recentsRows \in RecentsRowLists
    /\ unknownsCount \in UnknownsCounts
    /\ pictureOnly = FALSE
    /\ searchMode = FALSE
    /\ selected = -1
    /\ uiEvents = 0

UiEvent == uiEvents < MaxEvents /\ uiEvents' = uiEvents + 1

(***************************************************************************)
(* The navigation of searchUpOrDownPressed and highlightFirstItem on rows  *)
(* rs, rows numbered from 0 as model->index(row) numbers them.             *)
(***************************************************************************)
Invalid == "invalid"
Kind(rs, r) == IF r \in 0..(Len(rs) - 1) THEN rs[r + 1] ELSE Invalid
IsServiceItem(rs, r) == Kind(rs, r) = "service"

\* The while loop walked off the list: the handler returns.
Out == -2

\* while (model->isServiceItem(i)) { i = model->index(i.row() + inc);
\*                                   if (!i.isValid()) return; }
RECURSIVE SkipService(_, _, _)
SkipService(rs, r, inc) ==
    IF ~IsServiceItem(rs, r) THEN r
    ELSE IF Kind(rs, r + inc) = Invalid THEN Out
    ELSE SkipService(rs, r + inc, inc)

\* highlightFirstItem: the first row that is no service item, if any.
HighlightFirst(rs, c) ==
    IF Len(rs) = 0 THEN c
    ELSE LET i == SkipService(rs, 0, 1) IN IF i = Out THEN c ELSE i

\* A mutant of nextRow: it also wraps above the first row.
NextRowWrapsTop(rs, c, inc) ==
    IF c + inc >= Len(rs) THEN 0
    ELSE IF c + inc < 0 THEN Len(rs) - 1
    ELSE c + inc

\* nextRow: one row on, back to 0 past the last row.
NextRow(rs, c, inc) == IF c + inc >= Len(rs) THEN 0 ELSE c + inc

\* searchUpOrDownPressed(up) from current row c: the new current row and
\* whether topItemUpPressed is emitted.  Row -1 above the first row is an
\* invalid index and no service item: it becomes the (invalid) current one.
Nav(rs, c, up) ==
    LET inc == IF up THEN -1 ELSE 1
        i == SkipService(rs, NextRow(rs, c, inc), inc)
    IN CASE c = -1  -> [row |-> HighlightFirst(rs, c), top |-> FALSE]
         [] i = Out -> [row |-> c, top |-> up]
         [] OTHER   -> [row |-> i, top |-> FALSE]

(***************************************************************************)
(* Actions.                                                                *)
(***************************************************************************)

\* searchUpPressed / searchDownPressed: the keys move the list's current
\* row unless the search results are shown.
SearchUpOrDownPressed ==
    /\ UiEvent /\ ~searchMode
    /\ \E up \in BOOLEAN : selected' = Nav(Rows, selected, up).row
    /\ UNCHANGED <<model, recentsRows, unknownsCount, pictureOnly, searchMode>>

\* A mutant of highlightFirstItem: row 0 is taken even if a service item.
HighlightFirstItemNoSkip ==
    /\ UiEvent
    /\ selected' = IF Len(Rows) = 0 THEN selected ELSE 0
    /\ UNCHANGED <<model, recentsRows, unknownsCount, pictureOnly, searchMode>>

\* highlightFirstItem, on the search field's selectFirstInRecents.
HighlightFirstItem ==
    /\ UiEvent
    /\ selected' = HighlightFirst(Rows, selected)
    /\ UNCHANGED <<model, recentsRows, unknownsCount, pictureOnly, searchMode>>

\* highlightContact(aimId): the contact's index, if the open model has it.
HighlightContact ==
    /\ UiEvent
    /\ \E r \in 0..(Len(Rows) - 1) : Kind(Rows, r) = "contact" /\ selected' = r
    /\ UNCHANGED <<model, recentsRows, unknownsCount, pictureOnly, searchMode>>

\* setSearchMode(s): the stacked widget shows SEARCH or currentTab_.
SetSearchMode(s) == searchMode' = s

\* The search field's search(pattern) signal: search mode iff non-empty.
Search ==
    /\ UiEvent
    /\ \E nonEmpty \in BOOLEAN : SetSearchMode(nonEmpty)
    /\ UNCHANGED <<model, recentsRows, unknownsCount, pictureOnly, selected>>

\* setPictureOnlyView(b): the unknowns header is shown iff not picture-only;
\* entering picture-only view leaves search mode.
SetPictureOnlyView ==
    /\ UiEvent
    /\ pictureOnly' = ~pictureOnly
    /\ IF model = "unknowns" /\ selected # -1
       THEN selected' = selected + (IF pictureOnly THEN 1 ELSE -1)
       ELSE UNCHANGED selected
    /\ IF ~pictureOnly THEN SetSearchMode(FALSE) ELSE UNCHANGED searchMode
    /\ UNCHANGED <<model, recentsRows, unknownsCount>>

\* switchToRecents: unless the recents model is shown, setModel gives the
\* view a new selection model, with no current index; changeTab(RECENTS)
\* then returns at once.
SwitchToRecents ==
    /\ UiEvent /\ model # "recents"
    /\ model' = "recents"
    /\ selected' = -1
    /\ UNCHANGED <<recentsRows, unknownsCount, pictureOnly, searchMode>>

\* switchToUnknowns (unknownsGoSeeThem): the same for the unknowns model.
SwitchToUnknowns ==
    /\ UiEvent /\ model # "unknowns"
    /\ model' = "unknowns"
    /\ selected' = -1
    /\ UNCHANGED <<recentsRows, unknownsCount, pictureOnly, searchMode>>

\* guiSettingsChanged: currentTab_ = 0 and updateTabState shows it.
GuiSettingsChanged ==
    /\ UiEvent
    /\ SetSearchMode(FALSE)
    /\ UNCHANGED <<model, recentsRows, unknownsCount, pictureOnly, selected>>

NavNext ==
    \/ SearchUpOrDownPressed \/ HighlightFirstItem \/ HighlightContact
    \/ Search \/ SetPictureOnlyView \/ SwitchToRecents \/ SwitchToUnknowns
    \/ GuiSettingsChanged

NavSpec == Init /\ [][NavNext]_navVars

-----------------------------------------------------------------------------
\* The reference for the arrow keys, stated on the set of contact rows:
\* from no current row, the first contact; Up goes to the nearest contact
\* above, and from the topmost one either clears the current index (row 0)
\* or, with only headers above it, keeps it and emits topItemUpPressed;
\* Down goes to the nearest contact below, wraps from the last row to the
\* first contact, and does nothing with only headers below.
Contacts(rs) == {r \in 0..(Len(rs) - 1) : rs[r + 1] = "contact"}

RefNav(rs, c, up) ==
    LET C == Contacts(rs)
        above == {r \in C : r < c}
        below == {r \in C : r > c}
    IN CASE c = -1           -> [row |-> IF C = {} THEN -1 ELSE Min(C), top |-> FALSE]
         [] up /\ above # {} -> [row |-> Max(above), top |-> FALSE]
         [] up /\ c = 0      -> [row |-> -1, top |-> FALSE]
         [] up               -> [row |-> c, top |-> TRUE]
         [] below # {}       -> [row |-> Min(below), top |-> FALSE]
         [] c = Len(rs) - 1  -> [row |-> Min(C), top |-> FALSE]
         [] OTHER            -> [row |-> c, top |-> FALSE]

\* searchUpOrDownPressed's loop over model->index agrees with the reference
\* from every possible current row of the rows the view shows now.
NavMatchesReference ==
    \A c \in {-1} \cup Contacts(Rows), up \in BOOLEAN :
        Nav(Rows, c, up) = RefNav(Rows, c, up)

\* The view's current index is never a section header, whatever the keys,
\* model switches, header changes and highlightContact calls did before.
SelectedIsContact == selected = -1 \/ Kind(Rows, selected) = "contact"

=============================================================================
