--------------------------- MODULE AttachFilePopup ---------------------------
(***************************************************************************)
(* The "plus" popup of the message input, Ui::AttachFilePopup             *)
(* (AttachFilePopup.cpp): an opacity animation shows and hides it, a       *)
(* 500 ms single-shot timer hides it once the pointer has left, and in     *)
(* persistent mode (opened from the keyboard) an event filter on the       *)
(* window watches the pointer instead.  Arrow keys move the current item   *)
(* with wrap-around; Enter or a click runs the item and hides the popup.   *)
(*                                                                         *)
(* The pointer is abstracted to the zone it is in: over the item list,     *)
(* over the plus button (both inside the mouse area polygon), over the     *)
(* rest of the popup's geometry, or outside it.  SimpleListWidget is not   *)
(* in the repository: clearSelection and clear are taken to reset the      *)
(* current index to -1.                                                    *)
(***************************************************************************)
EXTENDS Integers

CONSTANTS
    ItemCounts,   \* items_.size() for the feature flags (polls, call link, webinar)
    MaxEvents     \* bound on user and caller events

Zones == {"list", "button", "gap", "outside"}
InArea == {"list", "button"}          \* mouseAreaPoly_
Modes == {"Default", "Persistent"}

VARIABLES
    visible,      \* isVisible()
    animState,    \* animState_: "None", "Showing" or "Hiding"
    persistent,   \* persistent_ (and the window event filter installed)
    hideTimer,    \* hideTimer_ is active
    mouse,        \* the pointer's zone
    cur,          \* listWidget_->getCurrentIndex()
    count,        \* listWidget_->count()
    events

vars == <<visible, animState, persistent, hideTimer, mouse, cur, count, events>>

Init ==
    /\ visible = FALSE
    /\ animState = "None"
    /\ persistent = FALSE
    /\ hideTimer = FALSE
    /\ mouse \in Zones
    /\ cur = -1
    /\ count \in ItemCounts
    /\ events = 0

Event == events < MaxEvents /\ events' = events + 1

\* A mutant of keyPressEvent's index: it wraps only past the end.
NewIndexOffByOne(c, up, n) ==
    LET raw == IF c \in 0..(n - 1) THEN c + (IF up THEN -1 ELSE 1)
               ELSE IF up THEN n - 1 ELSE 0
    IN IF raw > n THEN 0 ELSE IF raw < 0 THEN n - 1 ELSE raw

\* The index keyPressEvent moves to on Up (up) or Down from cur among n.
NewIndex(c, up, n) ==
    LET raw == IF c \in 0..(n - 1) THEN c + (IF up THEN -1 ELSE 1)
               ELSE IF up THEN n - 1 ELSE 0
    IN IF raw >= n THEN 0 ELSE IF raw < 0 THEN n - 1 ELSE raw

\* hideWithDelay.
HideWithDelay == hideTimer' = (hideTimer \/ visible)

\* hideAnimated: start fading out unless hidden or already fading out.
HideAnimated ==
    IF ~visible \/ animState = "Hiding" THEN UNCHANGED animState
    ELSE animState' = "Hiding"

\* setPersistent: the flag, and the window event filter with it.
SetPersistent(b) == persistent' = b

\* showPopup(mode): setPersistent, then showAnimated unless already showing.
ShowPopup ==
    /\ Event
    /\ \E m \in Modes :
        /\ SetPersistent(m = "Persistent")
        /\ IF animState = "Showing"
           THEN UNCHANGED <<visible, animState, cur>>
           ELSE /\ animState' = "Showing" /\ visible' = TRUE /\ cur' = -1
    /\ UNCHANGED <<hideTimer, mouse, count>>

\* hidePopup.
HidePopup ==
    /\ Event /\ HideAnimated
    /\ UNCHANGED <<visible, persistent, hideTimer, mouse, cur, count>>

\* A mutant of hideEvent: setPersistent(false) is left out.
HideEventKeepPersistent == UNCHANGED persistent

\* hideEvent: the window filter is removed.
HideEvent == SetPersistent(FALSE)

\* A mutant of the finished handler: hide() is left out.
AnimationFinishedNoHide ==
    /\ animState # "None"
    /\ animState' = "None"
    /\ UNCHANGED <<visible, persistent, hideTimer, mouse, cur, count, events>>

\* The opacity animation's finished handler: hide() if it was fading out.
AnimationFinished ==
    /\ animState # "None"
    /\ animState' = "None"
    /\ IF animState = "Hiding"
       THEN visible' = FALSE /\ HideEvent
       ELSE UNCHANGED <<visible, persistent>>
    /\ UNCHANGED <<hideTimer, mouse, cur, count, events>>

\* The pointer moves to zone z: mouseMoveEvent and leaveEvent of the popup
\* in normal mode, the window's event filter in persistent mode.
MoveMouse ==
    /\ Event
    /\ \E z \in Zones \ {mouse} :
        /\ mouse' = z
        /\ CASE ~visible                  -> UNCHANGED hideTimer
             [] persistent                -> IF z = "outside" THEN HideWithDelay
                                             ELSE UNCHANGED hideTimer
             [] z \in InArea              -> hideTimer' = FALSE
             [] OTHER                     -> HideWithDelay
    /\ UNCHANGED <<visible, animState, persistent, cur, count>>

\* onHideTimer.
HideTimeout ==
    /\ hideTimer
    /\ hideTimer' = FALSE
    /\ IF visible /\ mouse \notin InArea THEN HideAnimated ELSE UNCHANGED animState
    /\ UNCHANGED <<visible, persistent, mouse, cur, count, events>>

\* keyPressEvent, Up or Down.
KeyUpDown ==
    /\ Event /\ visible
    /\ \E up \in BOOLEAN :
        cur' = IF count > 0 THEN NewIndex(cur, up, count) ELSE cur
    /\ UNCHANGED <<visible, animState, persistent, hideTimer, mouse, count>>

\* onItemClicked(idx): hide, then emit the item's signal.
OnItemClicked == HideAnimated

\* keyPressEvent, Enter: run the current item if there is one.
KeyEnter ==
    /\ Event /\ visible /\ cur \in 0..(count - 1)
    /\ OnItemClicked
    /\ UNCHANGED <<visible, persistent, hideTimer, mouse, cur, count>>

\* An item's hoverChanged makes it current; a click runs it.
HoverItem ==
    /\ Event /\ visible /\ mouse = "list"
    /\ \E i \in 0..(count - 1) : cur' = i
    /\ UNCHANGED <<visible, animState, persistent, hideTimer, mouse, count>>

ClickItem ==
    /\ Event /\ visible /\ mouse = "list"
    /\ OnItemClicked
    /\ UNCHANGED <<visible, persistent, hideTimer, mouse, cur, count>>

\* onBackgroundClicked: a press on the popup outside the item list.
BackgroundClicked ==
    /\ Event /\ visible /\ mouse \in {"button", "gap"}
    /\ HideAnimated
    /\ UNCHANGED <<visible, persistent, hideTimer, mouse, cur, count>>

\* initItems on omicronUpdated / externalUrlConfigUpdated.
InitItems ==
    /\ Event
    /\ \E n \in ItemCounts : count' = n
    /\ cur' = -1
    /\ UNCHANGED <<visible, animState, persistent, hideTimer, mouse>>

Next ==
    \/ ShowPopup \/ HidePopup \/ AnimationFinished \/ MoveMouse \/ HideTimeout
    \/ KeyUpDown \/ KeyEnter \/ HoverItem \/ ClickItem \/ BackgroundClicked
    \/ InitItems

\* Qt runs the animation to its end and fires the active timer.
Fairness == WF_vars(AnimationFinished) /\ WF_vars(HideTimeout)

Spec == Init /\ [][Next]_vars /\ Fairness

-----------------------------------------------------------------------------
\* The reference for the arrow keys: from no valid item, Up goes to the last
\* and Down to the first; otherwise one step, cyclically.
RefIndex(c, up, n) ==
    IF c \in 0..(n - 1) THEN (c + (IF up THEN n - 1 ELSE 1)) % n
    ELSE IF up THEN n - 1 ELSE 0

\* keyPressEvent's Up/Down index equals the cyclic reference for every
\* current index, valid or stale, with the items the popup has now.
KeyNavWraps ==
    \A c \in -1..(count + 1), up \in BOOLEAN :
        NewIndex(c, up, count) = RefIndex(c, up, count)

\* A hidden popup is at rest and not persistent: every way of hiding it
\* (timer, click, Enter, hidePopup, reopen during the fade) ends in the
\* animation's finished handler and hideEvent's setPersistent(false), so
\* the next showPopup starts from a clean state.
HiddenIsReset == ~visible => animState = "None" /\ ~persistent

\* Once the hide timer runs while the pointer is away from the mouse area,
\* the popup is hidden, unless the pointer comes back or the popup is
\* shown again.
PointerAwayHides ==
    (visible /\ hideTimer /\ mouse \notin InArea)
        ~> (~visible \/ mouse \in InArea \/ animState = "Showing")

=============================================================================
