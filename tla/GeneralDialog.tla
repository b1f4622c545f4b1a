---------------------------- MODULE GeneralDialog ----------------------------
(***************************************************************************)
(* The modal popups of the GUI, Ui::GeneralDialog (GeneralDialog.cpp),     *)
(* with their DialogButtons (DialogButton.cpp).  A caller builds a dialog  *)
(* with addAcceptButton, addCancelButton or addButtonsPair, then           *)
(* showInCenter runs exec(), a nested event loop, and sets the static      *)
(* inExec_ around it.  A button's clicked signal reaches the dialog's      *)
(* slots (accept, reject, leftButtonClick, rightButtonClick) through       *)
(* queued connections; Enter, Escape, a press outside the popup and the    *)
(* InterConnector's broadcasts end the dialog directly.                    *)
(*                                                                         *)
(* A DialogButton keeps its own role_: its isEnabled and setEnabled hide   *)
(* QWidget's, so Qt itself always takes the button for enabled, and only   *)
(* the early returns of its press and release handlers keep a button of  *)
(* role DISABLED from being clicked.  down is QAbstractButton's down      *)
(* state, set by a press and cleared by the release that clicks.          *)
(*                                                                         *)
(* GeneralDialog.h is not in the repository: leftButtonDisableOnClicked_   *)
(* and rightButtonDisableOnClicked_ may be set by it and are chosen       *)
(* initially.  Posted events (the queued slots) are taken to be delivered  *)
(* before the next user input.  Colours, sizes and focus are left out.     *)
(***************************************************************************)
EXTENDS Naturals, Sequences, SequencesExt

CONSTANTS
    Dialogs,      \* the GeneralDialogs the callers create
    MaxEvents     \* bound on user input and callers' calls

Buttons == {"next", "left"}     \* nextButton_ and the pair's "left_button"
Roles == {"CONFIRM", "CANCEL", "DISABLED"}

VARIABLES
    phase,    \* per dialog: "new", "exec", "done" (hidden, exec not returned), "closed"
    opts,     \* per dialog: constructor arguments and the header's flags
    btn,      \* per dialog and button: the DialogButton and its connections
    result,   \* per dialog: the result done() set
    stack,    \* the dialogs whose exec() has not returned, innermost last
    inExec,   \* GeneralDialog::inExec_ (static)
    queue,    \* posted QMetaCallEvents: [dlg, from, slot]
    events

dvars == <<phase, opts, btn, result, stack, inExec, queue, events>>

NoButton == [exists |-> FALSE, initRole |-> "DISABLED", role |-> "DISABLED",
             pressed |-> FALSE, down |-> FALSE, asked |-> FALSE, conn |-> <<>>]

Init ==
    /\ phase = [d \in Dialogs |-> "new"]
    /\ opts \in [Dialogs -> [ignoreKeys: BOOLEAN, rejectable: BOOLEAN,
                             leftOff: BOOLEAN, rightOff: BOOLEAN]]
    /\ btn = [d \in Dialogs |-> [b \in Buttons |-> NoButton]]
    /\ result = [d \in Dialogs |-> "none"]
    /\ stack = <<>>
    /\ inExec = FALSE
    /\ queue = <<>>
    /\ events = 0

Event == events < MaxEvents /\ events' = events + 1
Top == IF stack = <<>> THEN "none" ELSE Last(stack)

\* DialogButton::isEnabled.
IsEnabled(b) == b.exists /\ b.role # "DISABLED"

\* The DialogButton constructor: changeRole(initRole_).
NewButton(role, conn) == [NoButton EXCEPT !.exists = TRUE, !.initRole = role,
                                          !.role = role, !.asked = TRUE, !.conn = conn]

\* DialogButton::setEnabled: back to initRole_, or DISABLED.
SetEnabled(b, en) == [b EXCEPT !.role = IF en THEN b.initRole ELSE "DISABLED", !.asked = en]

\* setButtonActive: nextButton_->setEnabled, if there is a next button.
SetButtonActiveOf(bs, en) ==
    IF bs.next.exists THEN [bs EXCEPT !.next = SetEnabled(@, en)] ELSE bs

Build(d, bs) ==
    /\ Event /\ phase[d] = "new" /\ ~btn[d].next.exists
    /\ btn' = [btn EXCEPT ![d] = bs]
    /\ UNCHANGED <<phase, opts, result, stack, inExec, queue>>

\* addAcceptButton(text, isEnabled): a CONFIRM or DISABLED button, then
\* setButtonActive(isEnabled); clicked is queued to accept.
AddAcceptButton(d) ==
    \E en \in BOOLEAN :
        Build(d, SetButtonActiveOf([btn[d] EXCEPT !.next =
                    NewButton(IF en THEN "CONFIRM" ELSE "DISABLED", <<"accept">>)], en))

\* addCancelButton(text, setActive): a CANCEL button queued to reject.
AddCancelButton(d) ==
    \E en \in BOOLEAN :
        Build(d, SetButtonActiveOf([btn[d] EXCEPT !.next = NewButton("CANCEL", <<"reject">>)], en))

\* addButtonsPair(left, right, isActive, rejectable, acceptable): the left
\* button queued to leftButtonClick (and reject), the right one, made
\* active or not, to rightButtonClick (and accept).
AddButtonsPair(d) ==
    \E en, rej, acc \in BOOLEAN :
        LET left == NewButton("CANCEL", <<"left">> \o (IF rej THEN <<"reject">> ELSE <<>>))
            next == NewButton("CONFIRM", <<"right">> \o (IF acc THEN <<"accept">> ELSE <<>>))
        IN Build(d, SetButtonActiveOf([left |-> left, next |-> next], en))

\* takeAcceptButton: the next button's clicked no longer reaches accept.
TakeAcceptButton(d) ==
    /\ Event /\ phase[d] # "closed" /\ btn[d].next.exists
    /\ btn' = [btn EXCEPT ![d].next.conn = SelectSeq(@, LAMBDA s : s # "accept")]
    /\ UNCHANGED <<phase, opts, result, stack, inExec, queue>>

\* setButtonActive(active), from the caller's code at any time.
SetButtonActive(d) ==
    /\ Event /\ phase[d] # "closed"
    /\ \E en \in BOOLEAN : btn' = [btn EXCEPT ![d] = SetButtonActiveOf(@, en)]
    /\ UNCHANGED <<phase, opts, result, stack, inExec, queue>>

\* showInCenter: show, inExec_ = true, exec().  A caller may show a dialog
\* from any event handler, also while another dialog's exec runs.
ShowInCenter(d) ==
    /\ Event /\ phase[d] = "new"
    /\ phase' = [phase EXCEPT ![d] = "exec"]
    /\ stack' = Append(stack, d)
    /\ inExec' = TRUE
    /\ UNCHANGED <<opts, btn, result, queue>>

\* GeneralDialog::done(r) of a shown dialog: QDialog::done hides it, which
\* ends its event loop, and sets the result.
Done(d, r) ==
    /\ phase' = [phase EXCEPT ![d] = "done"]
    /\ result' = [result EXCEPT ![d] = r]

\* The innermost modal dialog gets the user's input, once the posted
\* events are delivered.
Input(d) == Event /\ Top = d /\ phase[d] = "exec" /\ queue = <<>>

\* DialogButton::mousePressEvent: pressed_, then nothing more when
\* disabled; QPushButton sets down otherwise.
Press(d, b) ==
    /\ Input(d) /\ btn[d][b].exists /\ ~btn[d][b].pressed
    /\ btn' = [btn EXCEPT ![d][b].pressed = TRUE,
                          ![d][b].down = IF IsEnabled(btn[d][b]) THEN TRUE ELSE @]
    /\ UNCHANGED <<phase, opts, result, stack, inExec, queue>>

\* The slots a click of button b posts, in connection order.
Clicked(d, b) == [k \in DOMAIN btn[d][b].conn |-> [dlg |-> d, from |-> b, slot |-> btn[d][b].conn[k]]]

\* DialogButton::mouseReleaseEvent: pressed_ cleared; when enabled,
\* QAbstractButton clears down and, over the button, emits clicked.
Release(d, b) ==
    /\ Input(d) /\ btn[d][b].pressed
    /\ \E over \in BOOLEAN :
        IF ~IsEnabled(btn[d][b])
        THEN /\ btn' = [btn EXCEPT ![d][b].pressed = FALSE]
             /\ UNCHANGED queue
        ELSE /\ btn' = [btn EXCEPT ![d][b].pressed = FALSE, ![d][b].down = FALSE]
             /\ queue' = IF btn[d][b].down /\ over THEN queue \o Clicked(d, b) ELSE queue
    /\ UNCHANGED <<phase, opts, result, stack, inExec>>

\* keyPressEvent, Return or Enter: accept() unless key presses are ignored
\* or the next button is disabled.
KeyEnter(d) ==
    /\ Input(d)
    /\ ~opts[d].ignoreKeys /\ (~btn[d].next.exists \/ IsEnabled(btn[d].next))
    /\ Done(d, "Accepted")
    /\ UNCHANGED <<opts, btn, stack, inExec, queue>>

\* keyPressEvent, Escape, or mousePressEvent outside the popup of a
\* rejectable one: close(), whose QDialog::closeEvent rejects.
KeyEscape(d) ==
    /\ Input(d) /\ Done(d, "Rejected")
    /\ UNCHANGED <<opts, btn, stack, inExec, queue>>

PressOutside(d) ==
    /\ Input(d) /\ opts[d].rejectable /\ Done(d, "Rejected")
    /\ UNCHANGED <<opts, btn, stack, inExec, queue>>

\* The event loop delivers the first posted slot call.  leftButtonClick
\* and rightButtonClick set the button enabled unless it is to be disabled
\* on click; accept and reject end the dialog (QDialog::reject does not
\* look at rejectable_).
Deliver ==
    /\ queue # <<>>
    /\ LET e == Head(queue)
           d == e.dlg
       IN CASE e.slot = "left"  -> btn' = [btn EXCEPT ![d].left = SetEnabled(@, ~opts[d].leftOff)]
                                   /\ UNCHANGED <<phase, result>>
            [] e.slot = "right" -> btn' = [btn EXCEPT ![d] = SetButtonActiveOf(@, ~opts[d].rightOff)]
                                   /\ UNCHANGED <<phase, result>>
            [] e.slot = "accept" -> Done(d, "Accepted") /\ UNCHANGED btn
            [] OTHER             -> Done(d, "Rejected") /\ UNCHANGED btn
    /\ queue' = Tail(queue)
    /\ UNCHANGED <<opts, stack, inExec, events>>

\* Shown dialogs, hidden ones whose exec has not returned included.
Open == {d \in Dialogs : phase[d] \in {"exec", "done"}}

\* InterConnector::acceptGeneralDialog reaches acceptDialog of every
\* dialog (each constructor connects it): QDialog::accept of each open one.
AcceptDialogs ==
    /\ phase' = [d \in Dialogs |-> IF d \in Open THEN "done" ELSE phase[d]]
    /\ result' = [d \in Dialogs |-> IF d \in Open THEN "Accepted" ELSE result[d]]

\* acceptGeneralDialog emitted by code outside the repository.
AcceptGeneralDialog ==
    /\ Event /\ Open # {}
    /\ AcceptDialogs
    /\ UNCHANGED <<opts, btn, stack, inExec, queue>>

\* closeAnySemitransparentWindow / closeAnyPopupWindow: rejectDialog of
\* every dialog; rejectDialogInternal returns unless rejectable_.
RejectDialogs ==
    /\ Event /\ \E d \in Open : opts[d].rejectable
    /\ phase' = [d \in Dialogs |-> IF d \in Open /\ opts[d].rejectable THEN "done" ELSE phase[d]]
    /\ result' = [d \in Dialogs |-> IF d \in Open /\ opts[d].rejectable THEN "Rejected" ELSE result[d]]
    /\ UNCHANGED <<opts, btn, stack, inExec, queue>>

\* InterConnector::applicationLocked: close() of every dialog, rejectable
\* or not; QDialog::closeEvent rejects a visible one.
ApplicationLocked ==
    /\ Event /\ \E d \in Open : phase[d] = "exec"
    /\ phase' = [d \in Dialogs |-> IF phase[d] = "exec" THEN "done" ELSE phase[d]]
    /\ result' = [d \in Dialogs |-> IF phase[d] = "exec" THEN "Rejected" ELSE result[d]]
    /\ UNCHANGED <<opts, btn, stack, inExec, queue>>

\* The innermost exec() returns once its dialog is hidden; showInCenter
\* then sets inExec_ = false and closes the dialog.
ExecReturn ==
    /\ stack # <<>> /\ phase[Top] = "done"
    /\ stack' = Front(stack)
    /\ inExec' = FALSE
    /\ phase' = [phase EXCEPT ![Top] = "closed"]
    /\ UNCHANGED <<opts, btn, result, queue, events>>

Next ==
    \/ \E d \in Dialogs :
        \/ AddAcceptButton(d) \/ AddCancelButton(d) \/ AddButtonsPair(d)
        \/ TakeAcceptButton(d) \/ SetButtonActive(d) \/ ShowInCenter(d)
        \/ KeyEnter(d) \/ KeyEscape(d) \/ PressOutside(d)
        \/ \E b \in Buttons : Press(d, b) \/ Release(d, b)
    \/ Deliver \/ AcceptGeneralDialog \/ RejectDialogs \/ ApplicationLocked \/ ExecReturn

\* Qt delivers posted events, and a hidden dialog's exec returns once the
\* loops inside it have returned.
Fairness == WF_dvars(Deliver) /\ WF_dvars(ExecReturn)

Spec == Init /\ [][Next]_dvars /\ Fairness

-----------------------------------------------------------------------------
\* GeneralDialog::isActive (inExec_) tells whether a dialog's exec runs.
InExecIsActive == inExec = (stack # <<>>)

\* The next button is enabled exactly when the last setEnabled (through
\* the builder, setButtonActive or rightButtonClick) asked for it.
EnabledAsAsked ==
    \A d \in Dialogs : btn[d].next.exists => (IsEnabled(btn[d].next) = btn[d].next.asked)

=============================================================================
