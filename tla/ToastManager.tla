---------------------------- MODULE ToastManager ----------------------------
(***************************************************************************)
(* The toasts of the GUI (gui/previewer/toast.cpp): ToastBase, a widget    *)
(* that deletes itself (deleteLater) when its hide timer fires, stops its  *)
(* timers while the pointer is over it and restarts them when it leaves;   *)
(* and ToastManager, which shows a new toast at the bottom and hides the   *)
(* old ones, except that download toasts keep two rows: the bottom one     *)
(* moves up to topToast_.                                                  *)
(*                                                                         *)
(* toast.h is not in the repository.  topToast_ and bottomToast_ are taken *)
(* to be QPointers (the code tests them for null and never resets them),   *)
(* so they read as NoToast once their toast is deleted; keepRows is taken  *)
(* to hold for DownloadFinishedToast only, the one toast overriding        *)
(* sameSavePath.  The start-hide timer and the opacity and move animations *)
(* only change how a toast is drawn and are left out.                      *)
(***************************************************************************)
EXTENDS Naturals, FiniteSets

CONSTANTS
    Toasts,      \* the toasts the helpers create, each shown once
    Paths,       \* save paths of download results
    NoToast,     \* a null QPointer
    MaxEvents    \* bound on pointer and focus events

Kinds == {"plain", "download"}   \* Toast or SavedPathToast / DownloadFinishedToast

VARIABLES
    life,        \* "unborn", "alive" or "deleted"
    kind, path,  \* the toast's class and getPath()
    visible,     \* isVisible()
    doomed,      \* a DeferredDelete is posted (deleteLater)
    hideTimer,   \* hideTimer_ is running
    hovered,     \* the pointer is over the toast
    top, bottom, \* topToast_, bottomToast_ as stored
    events,
    shown        \* history: the toasts showAt was called for

vars == <<life, kind, path, visible, doomed, hideTimer, hovered, top, bottom, events, shown>>

Init ==
    /\ life = [t \in Toasts |-> "unborn"]
    /\ kind = [t \in Toasts |-> "plain"]
    /\ path = [t \in Toasts |-> CHOOSE p \in Paths : TRUE]
    /\ visible = [t \in Toasts |-> FALSE]
    /\ doomed = [t \in Toasts |-> FALSE]
    /\ hideTimer = [t \in Toasts |-> FALSE]
    /\ hovered = [t \in Toasts |-> FALSE]
    /\ top = NoToast
    /\ bottom = NoToast
    /\ events = 0
    /\ shown = {}

\* A QPointer reads null once its object is deleted.
Ptr(p) == IF p # NoToast /\ life[p] = "alive" THEN p ELSE NoToast

\* ToastBase::keepRows, and DownloadFinishedToast::sameSavePath for a
\* download toast with save path p.
KeepRows(t) == kind[t] = "download"
SameSavePath(p, other) == other # NoToast /\ p = path[other]

(***************************************************************************)
(* Each operator below gives the new values of visible, doomed, hideTimer  *)
(* and hovered after a step on the set S of toasts.                        *)
(***************************************************************************)

\* QWidget::hide(): a hidden toast under the pointer gets a (synthetic)
\* leave event, whose handleMouseLeave restarts its timers.
HideAll(S, st) ==
    [st EXCEPT !.visible = [t \in Toasts |-> IF t \in S THEN FALSE ELSE @[t]],
               !.hideTimer = [t \in Toasts |-> IF t \in S /\ st.hovered[t] THEN TRUE ELSE @[t]],
               !.hovered = [t \in Toasts |-> IF t \in S THEN FALSE ELSE @[t]]]

DeleteLater(S, st) ==
    [st EXCEPT !.doomed = [t \in Toasts |-> IF t \in S THEN TRUE ELSE @[t]]]

\* ToastBase::showAt: show, raise and start both timers.
ShowAt(S, st) ==
    [st EXCEPT !.visible = [t \in Toasts |-> IF t \in S THEN TRUE ELSE @[t]],
               !.hideTimer = [t \in Toasts |-> IF t \in S THEN TRUE ELSE @[t]]]

\* ToastManager::hideToast: hide and delete both rows; the pointers stay.
HideToast(st) ==
    LET S == {Ptr(top), Ptr(bottom)} \ {NoToast}
    IN DeleteLater(S, HideAll(S, st))

\* A mutant of moveToast: the old top row is neither hidden nor deleted.
MoveToastKeepTop(st) ==
    IF Ptr(bottom) # NoToast
    THEN [HideAll({Ptr(bottom)}, st) EXCEPT !.top = Ptr(bottom)]
    ELSE st

\* ToastManager::moveToast: delete the top row, the bottom row moves up.
MoveToast(st) ==
    LET old == {Ptr(top)} \ {NoToast}
        st1 == DeleteLater(old, HideAll(old, st))
    IN IF Ptr(bottom) # NoToast
       THEN [HideAll({Ptr(bottom)}, st1) EXCEPT !.top = Ptr(bottom)]
       ELSE [st1 EXCEPT !.top = top]

Current == [visible |-> visible, doomed |-> doomed, hideTimer |-> hideTimer,
            hovered |-> hovered, top |-> top]

\* ToastManager::showToast(_toast), called by the helpers for a new toast
\* (showToastOverMainWindow, showToastOverContactDialog, showCopiedToast,
\* showDownloadToast): a download toast with the bottom one's path is
\* dropped; two download toasts keep two rows; any other replaces both.
ShowToast(t) ==
    /\ life[t] = "unborn"
    /\ \E k \in Kinds, p \in Paths :
        /\ life' = [life EXCEPT ![t] = "alive"]
        /\ kind' = [kind EXCEPT ![t] = k]
        /\ path' = [path EXCEPT ![t] = p]
        /\ LET keep == k = "download" /\ Ptr(bottom) # NoToast /\ KeepRows(Ptr(bottom))
               same == keep /\ SameSavePath(p, Ptr(bottom))
               st1  == IF keep THEN MoveToast(Current) ELSE HideToast(Current)
               st2  == ShowAt({t}, st1)
               st3  == IF Ptr(st1.top) # NoToast THEN ShowAt({st1.top}, st2) ELSE st2
           IN IF same
              THEN UNCHANGED <<visible, doomed, hideTimer, hovered, top, bottom, shown>>
              ELSE /\ visible' = st3.visible
                   /\ doomed' = st3.doomed
                   /\ hideTimer' = st3.hideTimer
                   /\ hovered' = st3.hovered
                   /\ top' = st1.top
                   /\ bottom' = t
                   /\ shown' = shown \cup {t} \cup ({Ptr(st1.top)} \ {NoToast})
    /\ UNCHANGED events

\* hideTimer_ timeout: deleteLater.
HideTimeout(t) ==
    /\ life[t] = "alive" /\ hideTimer[t]
    /\ hideTimer' = [hideTimer EXCEPT ![t] = FALSE]
    /\ doomed' = [doomed EXCEPT ![t] = TRUE]
    /\ UNCHANGED <<life, kind, path, visible, hovered, top, bottom, events, shown>>

\* The event loop runs a posted DeferredDelete.
DeferredDelete(t) ==
    /\ life[t] = "alive" /\ doomed[t]
    /\ life' = [life EXCEPT ![t] = "deleted"]
    /\ visible' = [visible EXCEPT ![t] = FALSE]
    /\ hideTimer' = [hideTimer EXCEPT ![t] = FALSE]
    /\ hovered' = [hovered EXCEPT ![t] = FALSE]
    /\ UNCHANGED <<kind, path, doomed, top, bottom, events, shown>>

\* enterEvent: the timers stop while the pointer is over the toast.
Enter(t) ==
    /\ events < MaxEvents /\ events' = events + 1
    /\ life[t] = "alive" /\ visible[t] /\ ~hovered[t]
    /\ hovered' = [hovered EXCEPT ![t] = TRUE]
    /\ hideTimer' = [hideTimer EXCEPT ![t] = FALSE]
    /\ UNCHANGED <<life, kind, path, visible, doomed, top, bottom, shown>>

\* A mutant of handleMouseLeave: only the start-hide timer is restarted.
HandleMouseLeaveFadeOnly(t) == UNCHANGED hideTimer

\* handleMouseLeave: restart the timers.
HandleMouseLeave(t) == hideTimer' = [hideTimer EXCEPT ![t] = TRUE]

\* leaveEvent.
Leave(t) ==
    /\ life[t] = "alive" /\ hovered[t]
    /\ hovered' = [hovered EXCEPT ![t] = FALSE]
    /\ HandleMouseLeave(t)
    /\ UNCHANGED <<life, kind, path, visible, doomed, top, bottom, events, shown>>

\* DownloadFinishedToast::mouseReleaseEvent on the file or folder link,
\* pressed and released under the pointer: handleMouseLeave restarts the
\* timers, then the file or folder is opened and the gallery closed.
ClickLink(t) ==
    /\ events < MaxEvents /\ events' = events + 1
    /\ life[t] = "alive" /\ visible[t] /\ hovered[t] /\ kind[t] = "download"
    /\ HandleMouseLeave(t)
    /\ UNCHANGED <<life, kind, path, visible, doomed, hovered, top, bottom, shown>>

\* eventFilter: FocusAboutToChange on the parent window restarts the
\* timers of every toast that watches it.
ParentFocusChange ==
    /\ events < MaxEvents /\ events' = events + 1
    /\ hideTimer' = [t \in Toasts |-> hideTimer[t] \/ life[t] = "alive"]
    /\ UNCHANGED <<life, kind, path, visible, doomed, hovered, top, bottom, shown>>

Next ==
    \/ \E t \in Toasts : ShowToast(t) \/ HideTimeout(t) \/ DeferredDelete(t)
                         \/ Enter(t) \/ Leave(t) \/ ClickLink(t)
    \/ ParentFocusChange

\* Qt fires running timers and runs posted deletions; the pointer does not
\* stay on a toast for ever.
Fairness == \A t \in Toasts : /\ WF_vars(HideTimeout(t)) /\ WF_vars(DeferredDelete(t))
                              /\ WF_vars(Leave(t))

Spec == Init /\ [][Next]_vars /\ Fairness

-----------------------------------------------------------------------------
\* Every toast on screen that is not about to be deleted is one of the two
\* rows showToast manages: hideToast and moveToast hide or delete what
\* they take off, whatever the order of timers, hovering and new toasts.
ManagedVisible ==
    \A t \in Toasts : visible[t] /\ ~doomed[t] => t \in {Ptr(top), Ptr(bottom)}

\* Every toast showAt was called for is deleted in the end: the hide timer
\* stopped by enterEvent is restarted on leave, on hide and on focus change.
ShownDeleted == \A t \in Toasts : t \in shown ~> life[t] = "deleted"

\* Every toast the helpers create (new Toast / DownloadFinishedToast with
\* the main window as parent) is deleted in the end.
CreatedDeleted == \A t \in Toasts : life[t] = "alive" ~> life[t] = "deleted"

=============================================================================
