----------------------------- MODULE DialogButton -----------------------------
(***************************************************************************)
(* How a dialog button looks (DialogButton.cpp): its role_ (CONFIRM,      *)
(* CONFIRM_DELETE, CANCEL, RESTART or DISABLED, the constructor's         *)
(* initRole_ restored by setEnabled(true)), its hovered_ and pressed_     *)
(* flags, the normal / hover / press triples of background, border and    *)
(* text colours that changeRole sets from the role, and the palette's     *)
(* ButtonText that updateTextColor sets.  paintEvent picks from each      *)
(* triple: hover before press before normal.                              *)
(*                                                                         *)
(* Colours are the style variables' names.  DialogButton::isEnabled is    *)
(* role_ != DISABLED; QWidget stays enabled, so a disabled button still   *)
(* gets the mouse and focus events.  The button has Qt::NoFocus: focus    *)
(* comes only from a setFocus() by code outside the repository, and is   *)
(* an input.  The clicks the button posts are GeneralDialog's.            *)
(***************************************************************************)
EXTENDS Naturals

CONSTANTS
    InitRoles,    \* the roles the constructor is given
    MaxEvents     \* bound on the events

Roles == {"CONFIRM", "CONFIRM_DELETE", "CANCEL", "RESTART", "DISABLED"}
Transparent == "transparent"
Triple(n, h, p) == [normal |-> n, hover |-> h, press |-> p]
Clear == Triple(Transparent, Transparent, Transparent)
Keys == {"Escape", "Space", "Return", "Other"}

VARIABLES
    initRole,   \* initRole_
    role,       \* role_
    hovered,    \* hovered_
    pressed,    \* pressed_
    focused,    \* hasFocus()
    bg,         \* bgColor_, bgColorHover_, bgColorPress_
    border,     \* borderColor_, borderColorHover_, borderColorPress_
    text,       \* textColor_, textColorHover_, textColorPress_
    palette,    \* palette().color(QPalette::ButtonText)
    bEvents

btnVars == <<initRole, role, hovered, pressed, focused, bg, border, text, palette, bEvents>>

IsEnabled == role # "DISABLED"

\* setBackgroundColor(): CANCEL and RESTART keep the colours they had.
RoleBg(r, old) ==
    CASE r = "CONFIRM" -> Triple("PRIMARY", "PRIMARY_HOVER", "PRIMARY_ACTIVE")
      [] r = "CONFIRM_DELETE" ->
             Triple("SECONDARY_ATTENTION", "SECONDARY_ATTENTION", "SECONDARY_ATTENTION")
      [] r = "DISABLED" -> Triple("BASE_SECONDARY", "BASE_SECONDARY", "BASE_SECONDARY")
      [] OTHER -> old

\* setBorderColor().
RoleBorder(r, old) ==
    CASE r \in {"CONFIRM", "RESTART"} -> Triple("PRIMARY", "PRIMARY_HOVER", "PRIMARY_ACTIVE")
      [] r = "CONFIRM_DELETE" ->
             Triple("SECONDARY_ATTENTION", "SECONDARY_ATTENTION", "SECONDARY_ATTENTION")
      [] r = "DISABLED" -> Triple("BASE_SECONDARY", "BASE_SECONDARY", "BASE_SECONDARY")
      [] r = "CANCEL" ->
             Triple("BASE_SECONDARY", "BASE_SECONDARY_HOVER", "BASE_SECONDARY_ACTIVE")
      [] OTHER -> old

\* setTextColor().
RoleText(r, old) ==
    CASE r \in {"CONFIRM", "CONFIRM_DELETE", "DISABLED"} ->
             Triple("BASE_GLOBALWHITE", "BASE_GLOBALWHITE", "BASE_GLOBALWHITE")
      [] r = "CANCEL" ->
             Triple("BASE_SECONDARY", "BASE_SECONDARY_HOVER", "BASE_SECONDARY_ACTIVE")
      [] r = "RESTART" -> Triple("TEXT_PRIMARY", "TEXT_PRIMARY", "TEXT_PRIMARY")
      [] OTHER -> old

\* paintEvent's choice from a triple: hovered, else pressed, else normal.
Pick(t, h, p) == IF h THEN t.hover ELSE IF p THEN t.press ELSE t.normal

\* updateTextColor() with the hover and press flags h, p.
UpdateTextColor(h, p, t) == palette' = Pick(t, h, p)

\* Mutant: changeRole without updateTextColor.
ChangeRoleNoTextUpdate(r) ==
    /\ role' = r
    /\ bg' = RoleBg(r, bg)
    /\ border' = RoleBorder(r, border)
    /\ text' = RoleText(r, text)
    /\ UNCHANGED palette

\* changeRole(r): the role, the three colour setters, updateTextColor.
ChangeRole(r) ==
    /\ role' = r
    /\ bg' = RoleBg(r, bg)
    /\ border' = RoleBorder(r, border)
    /\ text' = RoleText(r, text)
    /\ UpdateTextColor(hovered, pressed, text')

\* The constructor: transparent colours, then changeRole(initRole_).
Init ==
    /\ initRole \in InitRoles
    /\ hovered = FALSE /\ pressed = FALSE /\ focused = FALSE
    /\ role = initRole
    /\ bg = RoleBg(initRole, Clear)
    /\ border = RoleBorder(initRole, Clear)
    /\ text = RoleText(initRole, Clear)
    /\ palette = Pick(text, FALSE, FALSE)
    /\ bEvents = 0

BtnEvent == bEvents < MaxEvents /\ bEvents' = bEvents + 1

\* setEnabled(e): changeRole to initRole_ or DISABLED.
SetEnabled(e) ==
    /\ BtnEvent
    /\ ChangeRole(IF e THEN initRole ELSE "DISABLED")
    /\ UNCHANGED <<initRole, hovered, pressed, focused>>

\* enterEvent.
Enter ==
    /\ BtnEvent
    /\ hovered' = TRUE
    /\ UpdateTextColor(TRUE, pressed, text)
    /\ UNCHANGED <<initRole, role, pressed, focused, bg, border, text>>

\* leaveEvent: nothing while the button has the focus.
Leave ==
    /\ BtnEvent
    /\ IF focused
       THEN UNCHANGED <<hovered, palette>>
       ELSE hovered' = FALSE /\ UpdateTextColor(FALSE, pressed, text)
    /\ UNCHANGED <<initRole, role, pressed, focused, bg, border, text>>

\* mousePressEvent / mouseReleaseEvent: the flag, then, when enabled only,
\* updateTextColor.
Mouse(down) ==
    /\ BtnEvent
    /\ pressed' = down
    /\ IF IsEnabled THEN UpdateTextColor(hovered, down, text) ELSE UNCHANGED palette
    /\ UNCHANGED <<initRole, role, hovered, focused, bg, border, text>>

\* focusInEvent / focusOutEvent: hovered_ follows the focus, then, when
\* enabled only, updateTextColor.
Focus(in) ==
    /\ BtnEvent
    /\ focused # in /\ focused' = in
    /\ hovered' = in
    /\ IF IsEnabled THEN UpdateTextColor(in, pressed, text) ELSE UNCHANGED palette
    /\ UNCHANGED <<initRole, role, pressed, bg, border, text>>

\* keyPressEvent (with the focus): nothing when DISABLED; Escape, Space,
\* Return or Enter set pressed_ and updateTextColor; other keys are
\* accepted and go no further.
KeyPress(k) ==
    /\ BtnEvent
    /\ focused
    /\ IF IsEnabled /\ k # "Other"
       THEN pressed' = TRUE /\ UpdateTextColor(hovered, TRUE, text)
       ELSE UNCHANGED <<pressed, palette>>
    /\ UNCHANGED <<initRole, role, hovered, focused, bg, border, text>>

BtnNext ==
    \/ \E e \in BOOLEAN : SetEnabled(e)
    \/ Enter \/ Leave
    \/ \E d \in BOOLEAN : Mouse(d)
    \/ \E f \in BOOLEAN : Focus(f)
    \/ \E k \in Keys : KeyPress(k)

BtnSpec == Init /\ [][BtnNext]_btnVars

BtnTypeOK ==
    /\ initRole \in InitRoles /\ role \in {initRole, "DISABLED"}
    /\ {hovered, pressed, focused} \subseteq BOOLEAN

\* After any sequence of setEnabled calls, pointer, focus, mouse and key
\* events, the button paints the border and the text of its current role,
\* in the colour its hover and press flags choose, a disabled button's
\* background is the disabled one, and the palette's ButtonText is the
\* text colour painted.  The handlers that return early for a disabled
\* button skip updateTextColor; changeRole must refresh it.  (The
\* background of an enabled CANCEL or RESTART button is not claimed:
\* setBackgroundColor leaves it as it was, the disabled grey after a
\* setEnabled(false), setEnabled(true).)
LookFollowsRole ==
    LET pick(t) == Pick(t, hovered, pressed) IN
    /\ pick(border) = pick(RoleBorder(role, Clear))
    /\ pick(text) = pick(RoleText(role, Clear))
    /\ role = "DISABLED" => pick(bg) = pick(RoleBg("DISABLED", Clear))
    /\ palette = pick(text)
=============================================================================
