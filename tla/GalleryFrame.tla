---------------------------- MODULE GalleryFrame ----------------------------
(***************************************************************************)
(* The gallery's control strip (GalleryFrame) and its "more" menu         *)
(* (CustomMenu).  The frame paints clickable objects (buttons and the     *)
(* author and date labels) and drives their hovered and pressed states    *)
(* from its own mouse handlers; a release over a pressed, enabled object  *)
(* emits that object's signal, and the menu button opens a CustomMenu: a  *)
(* parentless Qt::Popup with WA_DeleteOnClose, held in a QPointer.        *)
(*                                                                         *)
(* Qt's part: a shown popup takes all input (a press outside it closes    *)
(* it), a close() of a WA_DeleteOnClose widget posts its deletion, and    *)
(* posted events (deferred deletes) are handled before the next input.    *)
(* The owner of the frame (the gallery, not in the repository) may enable *)
(* objects, set the menu's actions, call onNext/onPrev, and hide or show  *)
(* the frame between two inputs.                                          *)
(***************************************************************************)
EXTENDS Naturals, FiniteSets

CONSTANTS
    Objects,      \* clickable objects of objects_
    MenuButton,   \* the object whose click opens the menu
    Actions,      \* menu actions (GoTo, Copy, ...)
    Menus         \* CustomMenu instances the run may create, in order

ASSUME MenuButton \in Objects
ASSUME Menus \subseteq Nat \ {0}

\* Where the pointer is: over an object, over the frame's empty space, or
\* outside the frame.
Nowhere == "none"
Outside == "out"
Positions == Objects \cup {Nowhere, Outside}

\* A null QPointer.
NoMenu == 0

VARIABLES
    frameShown,   \* the frame is visible
    at,           \* the pointer's position
    held,         \* the left button is down (a press the frame received)
    hovered,      \* objects with hovered() set
    pressed,      \* objects with pressed() set
    disabled,     \* objects with disabled() set
    menuActions,  \* menuActions_
    menuPtr,      \* d->menu_, a QPointer<CustomMenu>
    menu,         \* menu[m]: [life, shown, items, pressed] of CustomMenu m
    emitted,      \* the signals the last step emitted
    pressOrigin   \* history: the object under the pointer at the last press

frameVars == <<frameShown, at, held, hovered, pressed, disabled>>
vars == <<frameVars, menuActions, menuPtr, menu, emitted, pressOrigin>>

\* A menu's life: not created, alive, deleteLater posted, deleted.
Unborn == "unborn"
Alive == "alive"
Doomed == "doomed"
Deleted == "deleted"

Unused == [life |-> Unborn, shown |-> FALSE, items |-> {}, pressed |-> Nowhere]

\* What the QPointer reads: null once the menu is deleted.
Current == IF menuPtr # NoMenu /\ menu[menuPtr].life # Deleted THEN menuPtr ELSE NoMenu

\* A shown popup takes the input.
PopupShown == \E m \in Menus : menu[m].shown
\* Posted deletes are handled before the next input.
NoPostedDelete == \A m \in Menus : menu[m].life # Doomed

\* Input reaches the frame.
FrameInput == frameShown /\ ~PopupShown /\ NoPostedDelete

\* Input reaches menu m.
MenuInput(m) == menu[m].shown /\ NoPostedDelete

\* QWidget::close() of a menu: hide it; WA_DeleteOnClose posts deleteLater.
Close(m) == [menu EXCEPT ![m].shown = FALSE, ![m].life = Doomed]

\* The frame's signal for a click on object o; the menu button emits none.
Signal(o) == IF o = MenuButton THEN {} ELSE {o}

\* Mutant: showMenuAt without the deleteLater of the previous menu.
ShowMenuAtNoDeleteLater ==
    \E m \in Menus :
        /\ menu[m].life = Unborn
        /\ \A n \in Menus : n < m => menu[n].life # Unborn
        /\ menuPtr' = m
        /\ menu' = [menu EXCEPT ![m] = [life |-> Alive, shown |-> TRUE,
                                         items |-> menuActions, pressed |-> Nowhere]]

\* GalleryFrame::showMenuAt: deleteLater the current menu, then createMenu
\* (one item per flag of menuActions_) and showAtPos, whose
\* resetLabelsState clears the items' hovered and pressed states.
ShowMenuAt ==
    \E m \in Menus :
        /\ menu[m].life = Unborn
        /\ \A n \in Menus : n < m => menu[n].life # Unborn
        /\ menuPtr' = m
        /\ menu' = [n \in Menus |->
                     IF n = m THEN [life |-> Alive, shown |-> TRUE,
                                    items |-> menuActions, pressed |-> Nowhere]
                     ELSE IF n = Current THEN [menu[n] EXCEPT !.life = Doomed]
                     ELSE menu[n]]

Init ==
    /\ frameShown = TRUE
    /\ at = Outside
    /\ held = FALSE
    /\ hovered = {}
    /\ pressed = {}
    /\ disabled = {}
    /\ menuActions = {}
    /\ menuPtr = NoMenu
    /\ menu = [m \in Menus |-> Unused]
    /\ emitted = {}
    /\ pressOrigin = Nowhere

\* mouseMoveEvent inside the frame: hover follows the pointer only while no
\* button is down.  A move out of the frame with the button down is still
\* delivered to the frame (the implicit grab) and changes nothing else.
MouseMove(p) ==
    /\ FrameInput
    /\ p # at
    /\ p = Outside => held
    /\ at' = p
    /\ hovered' = IF held THEN hovered ELSE {o \in Objects : o = p}
    /\ emitted' = {}
    /\ UNCHANGED <<frameShown, held, pressed, disabled, menuActions, menuPtr, menu, pressOrigin>>

\* leaveEvent: resetObjects.  Without the grab, a move out is a leave.
Leave ==
    /\ FrameInput
    /\ ~held
    /\ at # Outside
    /\ at' = Outside
    /\ hovered' = {}
    /\ pressed' = {}
    /\ emitted' = {}
    /\ UNCHANGED <<frameShown, held, disabled, menuActions, menuPtr, menu, pressOrigin>>

\* mousePressEvent (left button): the clickable object under the pointer
\* becomes pressed, whether or not it is disabled.
MousePress ==
    /\ FrameInput
    /\ ~held
    /\ at # Outside
    /\ held' = TRUE
    /\ pressed' = pressed \cup {o \in Objects : o = at}
    /\ pressOrigin' = at
    /\ emitted' = {}
    /\ UNCHANGED <<frameShown, at, hovered, disabled, menuActions, menuPtr, menu>>

\* Mutant: the release loop without its overObject test.
ClickedNoOverCheck == pressed \ disabled

\* The object mouseReleaseEvent's loop passes to onClick, if any.
Clicked == {o \in pressed \ disabled : o = at}

\* mouseReleaseEvent (left button): every object's hovered follows the
\* pointer, an enabled pressed object under it is clicked (onClick), and
\* every pressed is cleared.  onClick(MenuButton) calls showMenuAt and then
\* resetObjects; the other objects emit their signal.
MouseRelease ==
    /\ FrameInput
    /\ held
    /\ held' = FALSE
    /\ pressed' = {}
    /\ IF MenuButton \in Clicked
       THEN /\ ShowMenuAt
            /\ hovered' = {}
       ELSE /\ hovered' = {o \in Objects : o = at}
            /\ UNCHANGED <<menuPtr, menu>>
    /\ emitted' = UNION {Signal(o) : o \in Clicked}
    /\ UNCHANGED <<frameShown, at, disabled, menuActions, pressOrigin>>

\* CustomMenu::mousePressEvent over item a.
MenuPress(m, a) ==
    /\ MenuInput(m)
    /\ menu[m].pressed = Nowhere
    /\ a \in menu[m].items
    /\ menu' = [menu EXCEPT ![m].pressed = a]
    /\ emitted' = {}
    /\ UNCHANGED <<frameVars, menuActions, menuPtr, pressOrigin>>

\* CustomMenu::mouseReleaseEvent over item a (or over no item): the pressed
\* item under the pointer closes the menu, then triggers its action, whose
\* slot is the frame's signal; every pressed is cleared.
MenuRelease(m, a) ==
    /\ MenuInput(m)
    /\ menu[m].pressed # Nowhere
    /\ a \in menu[m].items \cup {Nowhere}
    /\ IF menu[m].pressed = a
       THEN /\ menu' = [Close(m) EXCEPT ![m].pressed = Nowhere]
            /\ emitted' = {a}
       ELSE /\ menu' = [menu EXCEPT ![m].pressed = Nowhere]
            /\ emitted' = {}
    /\ UNCHANGED <<frameVars, menuActions, menuPtr, pressOrigin>>

\* A press outside the shown popup: Qt closes it.
MenuDismiss(m) ==
    /\ MenuInput(m)
    /\ menu' = Close(m)
    /\ emitted' = {}
    /\ UNCHANGED <<frameVars, menuActions, menuPtr, pressOrigin>>

\* The event loop handles a posted deferred delete.
DeliverDelete(m) ==
    /\ menu[m].life = Doomed
    /\ menu' = [menu EXCEPT ![m].life = Deleted, ![m].shown = FALSE]
    /\ emitted' = {}
    /\ UNCHANGED <<frameVars, menuActions, menuPtr, pressOrigin>>

\* The owner between two inputs: posted events are handled first.
OwnerCall == NoPostedDelete /\ emitted' = {}

\* setNextEnabled, setPrevEnabled, setZoomInEnabled, ..., setMenuEnabled.
SetEnabled(o, e) ==
    /\ OwnerCall
    /\ disabled' = IF e THEN disabled \ {o} ELSE disabled \cup {o}
    /\ UNCHANGED <<frameShown, at, held, hovered, pressed, menuActions, menuPtr, menu, pressOrigin>>

\* setMenuActions.
SetMenuActions(A) ==
    /\ OwnerCall
    /\ menuActions' = A
    /\ UNCHANGED <<frameVars, menuPtr, menu, pressOrigin>>

\* onNext / onPrev: closeMenu closes the menu the QPointer still holds.
CloseMenu ==
    /\ OwnerCall
    /\ Current # NoMenu
    /\ menu' = Close(Current)
    /\ UNCHANGED <<frameVars, menuActions, menuPtr, pressOrigin>>

\* Mutant: a hideEvent that leaves the menu alone.
HideFrameKeepMenu ==
    /\ OwnerCall
    /\ frameShown
    /\ frameShown' = FALSE
    /\ UNCHANGED <<at, held, hovered, pressed, disabled, menuActions, menuPtr, menu, pressOrigin>>

\* hideEvent: hide (not close) the menu the QPointer holds.
HideFrame ==
    /\ OwnerCall
    /\ frameShown
    /\ frameShown' = FALSE
    /\ menu' = IF Current # NoMenu THEN [menu EXCEPT ![Current].shown = FALSE] ELSE menu
    /\ UNCHANGED <<at, held, hovered, pressed, disabled, menuActions, menuPtr, pressOrigin>>

\* The owner shows the frame again.
ShowFrame ==
    /\ OwnerCall
    /\ ~frameShown
    /\ frameShown' = TRUE
    /\ UNCHANGED <<at, held, hovered, pressed, disabled, menuActions, menuPtr, menu, pressOrigin>>

Next ==
    \/ \E p \in Positions : MouseMove(p)
    \/ Leave \/ MousePress \/ MouseRelease
    \/ \E m \in Menus : \/ \E a \in Actions : MenuPress(m, a)
                        \/ \E a \in Actions \cup {Nowhere} : MenuRelease(m, a)
                        \/ MenuDismiss(m) \/ DeliverDelete(m)
    \/ \E o \in Objects, e \in BOOLEAN : SetEnabled(o, e)
    \/ \E A \in SUBSET Actions : SetMenuActions(A)
    \/ CloseMenu \/ HideFrame \/ ShowFrame

Spec == Init /\ [][Next]_vars

TypeOK ==
    /\ frameShown \in BOOLEAN /\ at \in Positions /\ held \in BOOLEAN
    /\ hovered \subseteq Objects /\ pressed \subseteq Objects /\ disabled \subseteq Objects
    /\ menuActions \subseteq Actions
    /\ menuPtr \in Menus \cup {NoMenu}
    /\ \A m \in Menus : menu[m].life \in {Unborn, Alive, Doomed, Deleted}
    /\ emitted \subseteq Objects \cup Actions

\* mouseReleaseEvent emits an object's signal only for the object the press
\* began over and the release ends over, and only if it is enabled at the
\* release: moves with the button down, leaves, presses on disabled
\* objects and the owner's set*Enabled calls in between included.
ClickFromPress ==
    [][\A o \in emitted' \cap Objects :
          pressOrigin = o /\ at' = o /\ o \notin disabled']_vars

\* A shown menu is the one menu_ points at, and the frame is shown: the
\* frame's hideEvent hides it, and showMenuAt and closeMenu act on it.
MenuShownIsCurrent ==
    \A m \in Menus : menu[m].shown => m = Current /\ frameShown

\* Every menu the frame created, except the one menu_ points at, has been
\* closed (WA_DeleteOnClose) or given to deleteLater: menus hidden with the
\* frame, dismissed, or replaced by showMenuAt do not pile up.
StaleMenusDoomed ==
    \A m \in Menus : menu[m].life = Alive => m = menuPtr
=============================================================================
