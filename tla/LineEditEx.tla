------------------------------ MODULE LineEditEx ------------------------------
(***************************************************************************)
(* The line edit of dialogs and search fields, Ui::LineEditEx             *)
(* (LineEditEx.cpp): a QLineEdit whose key handling first emits its own  *)
(* signals (emptyTextBackspace, escapePressed, upArrow, downArrow, enter, *)
(* tab, backtab) and then keeps the keys of options_.noPropagateKeys_     *)
(* from QLineEdit.  Tab and Backtab never reach keyPressEvent: the edit's *)
(* own event filter accepts their ShortcutOverride and handles their      *)
(* KeyPress; unconsumed, QWidget moves the focus.  On macOS Cmd+Backspace *)
(* (Qt's ControlModifier) deletes to the start of the line in             *)
(* keyPressEvent itself.                                                   *)
(*                                                                         *)
(* The text is abstracted to its length, the cursor position and the      *)
(* selected range; QLineEdit (outside the repository) is modelled by what *)
(* its default key handling does to them, the text taken as one word.     *)
(* LineEditEx.h is not in the repository: noPropagateKeys_ is a set of    *)
(* Qt key codes given by the options, looked up by key() alone.  The text *)
(* colour is the style variable's name; painting, the placeholder and    *)
(* render margins are left out.                                           *)
(***************************************************************************)
EXTENDS Integers

CONSTANTS
    MaxLen,       \* the longest text typed
    NoPropSets,   \* the noPropagateKeys_ sets the options may hold
    MaxEvents     \* bound on the events

\* The key events: a character, the keys LineEditEx looks at, Ctrl (Cmd)
\* with Backspace or Enter, Shift+Left (extend the selection), Ctrl+A, and
\* an auto-repeated Escape.
Keys == {"Char", "Backspace", "CtrlBackspace", "Escape", "EscapeRepeat", "Up", "Down",
         "Enter", "ShiftEnter", "Left", "ShiftLeft", "SelectAll", "Tab", "Backtab"}

\* _event->key(), the Qt key code of a key event: the modifiers and
\* auto-repeat are not part of it.
QtKey(k) ==
    CASE k = "CtrlBackspace" -> "Backspace"
      [] k = "EscapeRepeat"  -> "Escape"
      [] k = "ShiftEnter"    -> "Enter"
      [] k = "ShiftLeft"     -> "Left"
      [] OTHER               -> k

\* No selected range.  The cursor of a selection is at one of its ends.
NoSel == [from |-> 0, to |-> 0]

VARIABLES
    apple,      \* platform::is_apple()
    noProp,     \* options_.noPropagateKeys_
    len,        \* text().length()
    cursor,     \* cursorPosition()
    sel,        \* the selected range [from, to), NoSel when none
    focused,    \* the edit has the keyboard focus
    emitted,    \* the signals the last event emitted
    key,        \* the key of the last key event, "none" for other events
    color,      \* the palette's QPalette::Text colour
    step,       \* the step scrolled() gave in the last event, 0 if none
    events

\* options_.noPropagateKeys_.find(_event->key()) finds the event's key.
NoPropagated(k) == QtKey(k) \in noProp

vars == <<apple, noProp, len, cursor, sel, focused, emitted, key, color, step, events>>
editVars == <<len, cursor, sel>>

Init ==
    /\ apple \in BOOLEAN
    /\ noProp \in NoPropSets
    /\ len = 0 /\ cursor = 0 /\ sel = NoSel
    /\ focused = TRUE
    /\ emitted = {}
    /\ key = "none"
    /\ color = "BASE_PRIMARY"
    /\ step = 0
    /\ events = 0

Event == events < MaxEvents /\ events' = events + 1

HasSel == sel.from < sel.to

\* The colour the textChanged slot sets for a text n characters long.
ColorFor(n) == IF n > 0 THEN "TEXT_SOLID" ELSE "BASE_PRIMARY"

\* A mutant of the constructor: the slot connected to textEdited, which
\* QLineEdit emits for the user's edits only, not for setText.
TextEditedSlot(changed, byUser) ==
    IF changed /\ byUser THEN color' = ColorFor(len') ELSE UNCHANGED color

\* The constructor's lambda on textChanged, emitted whenever the text
\* changes (changed), by the user's editing or by setText (~byUser):
\* changeTextColor(TEXT_SOLID or BASE_PRIMARY).
TextChangedSlot(changed, byUser) ==
    IF changed THEN color' = ColorFor(len') ELSE UNCHANGED color

\* QLineEdit changes the text on key k: it removes text, or types a
\* character (which never fails below MaxLen).
TextChanged(k) == len' # len \/ (k = "Char" /\ len - (sel.to - sel.from) < MaxLen)

\* QLineEdit removes the selected text, leaving the cursor where it began.
DelSel == /\ len' = len - (sel.to - sel.from)
          /\ cursor' = sel.from
          /\ sel' = NoSel

(***************************************************************************)
(* QLineEdit::keyPressEvent, the default handling of key k.               *)
(***************************************************************************)
QLineEditKey(k) ==
    CASE k = "Char" /\ len - (sel.to - sel.from) < MaxLen ->
              /\ len' = len - (sel.to - sel.from) + 1
              /\ cursor' = (IF HasSel THEN sel.from ELSE cursor) + 1
              /\ sel' = NoSel
      [] k = "Backspace" /\ HasSel -> DelSel
      [] k = "Backspace" /\ cursor > 0 ->
              len' = len - 1 /\ cursor' = cursor - 1 /\ UNCHANGED sel
      \* DeleteStartOfWord: cursorWordBackward(true) moves the cursor to the
      \* start of the word, the text's start, keeping the selection's anchor
      \* (the end the cursor is not at), then del() removes the selection.
      [] k = "CtrlBackspace" ->
              LET anchor == IF ~HasSel THEN cursor
                            ELSE IF cursor = sel.from THEN sel.to ELSE sel.from
              IN len' = len - anchor /\ cursor' = 0 /\ sel' = NoSel
      [] k = "Left" ->
              /\ cursor' = IF HasSel THEN sel.from ELSE IF cursor > 0 THEN cursor - 1 ELSE 0
              /\ sel' = NoSel /\ UNCHANGED len
      [] k = "ShiftLeft" /\ cursor > 0 ->
              /\ cursor' = cursor - 1
              /\ sel' = IF HasSel /\ sel.from = cursor THEN [sel EXCEPT !.from = cursor - 1]
                        ELSE IF HasSel /\ sel.to = cursor
                             THEN IF sel.from = cursor - 1 THEN NoSel
                                  ELSE [sel EXCEPT !.to = cursor - 1]
                        ELSE [from |-> cursor - 1, to |-> cursor]
              /\ UNCHANGED len
      [] k = "SelectAll" ->
              /\ sel' = IF len > 0 THEN [from |-> 0, to |-> len] ELSE NoSel
              /\ cursor' = len /\ UNCHANGED len
      [] OTHER -> UNCHANGED editVars

\* The signals keyPressEvent emits for k before anything else.
KeySignals(k) ==
    {s \in {"emptyTextBackspace", "escapePressed", "upArrow", "downArrow", "enter"} :
        \/ s = "emptyTextBackspace" /\ k = "Backspace" /\ len = 0
        \/ s = "escapePressed" /\ k = "Escape"
        \/ s = "upArrow" /\ k = "Up"
        \/ s = "downArrow" /\ k = "Down"
        \/ s = "enter" /\ k = "Enter"}

\* macOS Cmd+Backspace: the text up to the cursor, or all of it when it
\* is all selected, is removed by setText, and the cursor goes to 0.
AppleDeleteToStart ==
    LET end == IF HasSel /\ sel.from = 0 /\ sel.to = len THEN len ELSE cursor
    IN len' = len - end /\ cursor' = 0 /\ sel' = NoSel

\* Mutant: the macOS Cmd+Backspace branch before the noPropagateKeys_ check.
KeyPressAppleFirst(k) ==
    /\ focused /\ Event
    /\ k \notin {"Tab", "Backtab"}
    /\ key' = k
    /\ emitted' = KeySignals(k)
    /\ CASE apple /\ k = "CtrlBackspace" -> AppleDeleteToStart
         [] NoPropagated(k) -> UNCHANGED editVars
         [] ~apple /\ k = "CtrlBackspace" /\ HasSel -> QLineEditKey("Backspace")
         [] OTHER -> QLineEditKey(k)
    /\ TextChangedSlot(~NoPropagated(k) /\ TextChanged(k),
                       ~(apple /\ k = "CtrlBackspace"))
    /\ step' = 0
    /\ UNCHANGED <<apple, noProp, focused>>

\* Mutant: DeleteStartOfWord with a selection keeps its modifiers.
KeyPressKeepModifiers(k) ==
    /\ focused /\ Event
    /\ k \notin {"Tab", "Backtab"}
    /\ key' = k
    /\ emitted' = KeySignals(k)
    /\ CASE NoPropagated(k) -> UNCHANGED editVars
         [] apple /\ k = "CtrlBackspace" -> AppleDeleteToStart
         [] OTHER -> QLineEditKey(k)
    /\ TextChangedSlot(~NoPropagated(k) /\ TextChanged(k),
                       ~(apple /\ k = "CtrlBackspace"))
    /\ step' = 0
    /\ UNCHANGED <<apple, noProp, focused>>

(***************************************************************************)
(* keyPressEvent(k): the signals; a key in noPropagateKeys_ goes no       *)
(* further; macOS Cmd+Backspace; DeleteStartOfWord with a selection has   *)
(* its modifiers cleared, so QLineEdit treats it as Backspace; then       *)
(* QLineEdit's own handling.                                              *)
(***************************************************************************)
KeyPress(k) ==
    /\ focused /\ Event
    /\ k \notin {"Tab", "Backtab"}
    /\ key' = k
    /\ emitted' = KeySignals(k)
    /\ CASE NoPropagated(k) -> UNCHANGED editVars
         [] apple /\ k = "CtrlBackspace" -> AppleDeleteToStart
         [] ~apple /\ k = "CtrlBackspace" /\ HasSel -> QLineEditKey("Backspace")
         [] OTHER -> QLineEditKey(k)
    /\ TextChangedSlot(~NoPropagated(k) /\ TextChanged(k),
                       ~(apple /\ k = "CtrlBackspace"))
    /\ step' = 0
    /\ UNCHANGED <<apple, noProp, focused>>

\* The event filter on Tab or Backtab: ShortcutOverride accepted, then on
\* KeyPress tab() or backtab(), and the event consumed if the key is in
\* noPropagateKeys_; otherwise QWidget moves the focus to the next widget.
TabKey(k) ==
    /\ focused /\ Event
    /\ k \in {"Tab", "Backtab"}
    /\ key' = k
    /\ IF NoPropagated(k)
       THEN emitted' = {IF k = "Tab" THEN "tab" ELSE "backtab"} /\ UNCHANGED focused
       ELSE emitted' = {IF k = "Tab" THEN "tab" ELSE "backtab", "focusOut"} /\ focused' = FALSE
    /\ step' = 0
    /\ UNCHANGED <<apple, noProp, editVars, color>>

\* focusInEvent: focusIn().
FocusIn ==
    /\ ~focused /\ Event
    /\ focused' = TRUE /\ emitted' = {"focusIn"} /\ key' = "none"
    /\ step' = 0
    /\ UNCHANGED <<apple, noProp, editVars, color>>

\* focusOutEvent: focusOut() unless the window was deactivated.
FocusOut(windowDeactivated) ==
    /\ focused /\ Event
    /\ focused' = FALSE
    /\ emitted' = IF windowDeactivated THEN {} ELSE {"focusOut"}
    /\ key' = "none"
    /\ step' = 0
    /\ UNCHANGED <<apple, noProp, editVars, color>>

\* mousePressEvent at text position p: clicked(), then QLineEdit's
\* handling, which gives the edit the focus (focusInEvent) and puts the
\* cursor at p, clearing the selection.
MousePress(p) ==
    /\ Event
    /\ p <= len
    /\ emitted' = IF focused THEN {"clicked"} ELSE {"clicked", "focusIn"}
    /\ focused' = TRUE
    /\ cursor' = p /\ sel' = NoSel /\ key' = "none"
    /\ step' = 0
    /\ UNCHANGED <<apple, noProp, len, color>>

\* setOptions: new noPropagateKeys_.
SetOptions ==
    /\ Event
    /\ \E s \in NoPropSets : s # noProp /\ noProp' = s
    /\ emitted' = {} /\ key' = "none"
    /\ step' = 0
    /\ UNCHANGED <<apple, len, cursor, sel, focused, color>>

\* The actions of createStandardContextMenu that change the text or the
\* selection; the others (Undo, Redo and Copy, with the clipboard outside
\* the model) are taken as dismissing the menu.
MenuActions == {"Cut", "Delete", "Paste", "SelectAll", "Dismiss"}

\* contextMenuEvent: contextMenu_ is created, styled and exec'ed, which
\* blocks until the user picks an action or dismisses the menu; then it is
\* deleteLater'ed and contextMenu_ reset.  Cut and Delete (enabled with a
\* selection only) remove the selection; Paste puts one character in
\* place of it; the edits go through QLineEdit and emit textChanged.
ContextMenu(a) ==
    /\ Event
    /\ CASE a \in {"Cut", "Delete"} /\ HasSel -> DelSel
         [] a = "Paste" /\ len - (sel.to - sel.from) < MaxLen ->
              /\ len' = len - (sel.to - sel.from) + 1
              /\ cursor' = (IF HasSel THEN sel.from ELSE cursor) + 1
              /\ sel' = NoSel
         [] a = "SelectAll" ->
              /\ sel' = IF len > 0 THEN [from |-> 0, to |-> len] ELSE NoSel
              /\ cursor' = len /\ UNCHANGED len
         [] OTHER -> UNCHANGED editVars
    /\ TextChangedSlot(len' # len \/ (a = "Paste" /\ len - (sel.to - sel.from) < MaxLen), TRUE)
    /\ emitted' = {} /\ key' = "none"
    /\ step' = 0
    /\ UNCHANGED <<apple, noProp, focused>>

\* C++ integer division, which truncates toward zero.
CDiv(a, b) == IF a >= 0 THEN a \div b ELSE -((-a) \div b)

\* QPoint's division by 8, which rounds with qRound (half up).
QRoundDiv(a, b) == (2 * a + b) \div (2 * b)

\* The wheel events: angleDelta's y (delta()) of a high-resolution wheel's
\* half notch, of a notch either way, and a pixelDelta's y, 0 when null.
Wheels == {[angle |-> 60, pixel |-> 0], [angle |-> 120, pixel |-> 0],
           [angle |-> -120, pixel |-> 0], [angle |-> 120, pixel |-> 7]}

\* wheelEvent(w) on a screen whose scale_bitmap(1) is s: on macOS the
\* pixel delta if any, else the rounded degrees over 15; elsewhere the
\* truncated degrees over 15; divided by s, and emitted by scrolled().
Wheel(w, s) ==
    /\ Event
    /\ LET raw == IF apple
                  THEN IF w.pixel # 0 THEN w.pixel ELSE CDiv(QRoundDiv(w.angle, 8), 15)
                  ELSE CDiv(CDiv(w.angle, 8), 15)
       IN step' = CDiv(raw, s)
    /\ emitted' = {"scrolled"} /\ key' = "none"
    /\ UNCHANGED <<apple, noProp, editVars, focused, color>>

EditNext ==
    \/ \E k \in Keys : KeyPress(k) \/ TabKey(k)
    \/ FocusIn \/ \E w \in BOOLEAN : FocusOut(w)
    \/ \E p \in 0..MaxLen : MousePress(p)
    \/ SetOptions
    \/ \E a \in MenuActions : ContextMenu(a)
    \/ \E w \in Wheels, sc \in {1, 2} : Wheel(w, sc)

EditSpec == Init /\ [][EditNext]_vars

EditTypeOK ==
    /\ apple \in BOOLEAN /\ noProp \in NoPropSets /\ focused \in BOOLEAN
    /\ len \in 0..MaxLen /\ cursor \in 0..len
    /\ sel.from <= sel.to /\ sel.to <= len
    /\ key \in Keys \cup {"none"}
    /\ color \in {"TEXT_SOLID", "BASE_PRIMARY"} /\ step \in -15..15
    /\ (sel # NoSel) => cursor \in {sel.from, sel.to}

\* A key in noPropagateKeys_ still emits its signal but never reaches
\* QLineEdit or QWidget: it neither edits the text, nor moves the cursor,
\* nor the focus.  keyPressEvent's early return must come before the
\* macOS Cmd+Backspace branch, and the event filter must consume Tab.
NoPropagateKeysStay ==
    [][NoPropagated(key') => UNCHANGED <<len, cursor, sel, focused>>]_vars

\* Off macOS, Backspace and Ctrl+Backspace (DeleteStartOfWord) with a
\* selection remove exactly the selected text, leaving the cursor where it
\* began, whichever end of the selection the cursor is at: clearing the
\* modifiers keeps QLineEdit from deleting to the start of the word from
\* the selection's anchor.
SelectionDeletedExactly ==
    [][/\ ~apple /\ HasSel /\ key' \in {"Backspace", "CtrlBackspace"} /\ ~NoPropagated(key')
       => len' = len - (sel.to - sel.from) /\ cursor' = sel.from]_vars

\* The text is drawn in TEXT_SOLID while the edit holds text and in
\* BASE_PRIMARY while it is empty, whichever way the text got there: typed
\* or deleted through QLineEdit, by a context-menu action, or replaced by
\* the macOS Cmd+Backspace branch's setText.  The constructor's slot must
\* follow textChanged, not the user-only textEdited.
TextColorFollowsText == color = ColorFor(len)
=============================================================================
