------------------------------ MODULE TextToasts ------------------------------
(***************************************************************************)
(* The two toast classes of toast.cpp besides DownloadFinishedToast:      *)
(*   - Toast, a text centred in the toast, whose updateSize (run by the    *)
(*     constructor and, through ToastBase::handleParentResize, on every    *)
(*     resize of the window it is over) narrows the text to the window's   *)
(*     width less the margins;                                             *)
(*   - SavedPathToast, "Saved to <folder>", laid out once by its          *)
(*     constructor, where the folder is a Label the user clicks to open    *)
(*     the folder and close the gallery.  When the line would be wider     *)
(*     than maxToastWidth, the folder is elided to the room the message    *)
(*     leaves.  SavedPathToast has no updateSize of its own: a resize      *)
(*     does not lay it out again.                                          *)
(*                                                                         *)
(* Widths are in units of 4 px, as in DownloadToast.  The message's two   *)
(* parts (the second with its leading space) are chosen per toast from    *)
(* Messages, since translations place %1 differently.  An elided folder   *)
(* is taken to be exactly as wide as it was allowed to be.  Only columns   *)
(* matter to the folder's rect (it spans the toast's height).  Text       *)
(* rendering, colours, the underline (always the negation of hovered) and *)
(* the cursor are left out; so are the hide timers handleMouseLeave       *)
(* restarts and the window positions, which are ToastManager's.           *)
(***************************************************************************)
EXTENDS Integers

CONSTANTS
    TextWidths,   \* desiredWidths a Toast's text may have
    Messages,     \* <<T1, T2>>: desiredWidths of messageUnit1_ and 2_
    PathWidths,   \* desiredWidths the full folder name may have
    Pages,        \* widths the window under the toasts may have
    MaxX          \* the widest column a pointer event may have

XOffset == 3          \* xOffset = scale_value(12)
Padding == 2          \* padding() = scale_value(8)
MaxToastWidth == 87   \* maxToastWidth() = scale_value(348)

MinOf(a, b) == IF a <= b THEN a ELSE b

VARIABLES
    page,        \* the parent window's width()
    textW,       \* the Toast's textUnit_->desiredWidth()
    toastWidth,  \* the Toast's fixed width
    msg,         \* the SavedPathToast's <<T1, T2>>
    pathW,       \* desiredWidth of the full folder name
    pathText,    \* the width of the text pathLabel_ draws
    pathRect,    \* pathLabel_->rect(): [x, w] in columns
    u2x,         \* messageUnit2_'s x offset
    width,       \* the SavedPathToast's fixed width
    hovered,     \* pathLabel_->hovered (underline is its negation)
    pressed,     \* pathLabel_->pressed()
    opened       \* the folder was opened and the gallery closed

vars == <<page, textW, toastWidth, msg, pathW, pathText, pathRect, u2x, width, hovered,
          pressed, opened>>

\* Toast::updateSize over a window p wide: the text narrowed to the window
\* less twice xOffset + padding(), plus xOffset on each side.
PlainWidth(p, d) == MinOf(d, p - 2 * (XOffset + Padding)) + 2 * XOffset

\* A mutant of the constructor: the elision branch adds the allowed width
\* without first taking the folder's full width back.
SavedLayoutNoRewind(m, pw) ==
    LET t1 == m[1]
        t2 == m[2]
        x == XOffset + t1
        elide == x + pw + t2 + XOffset > MaxToastWidth
        pathMax == MaxToastWidth - (t1 + t2 + 2 * XOffset + 1)
        rw == IF elide THEN pathMax ELSE pw
        total == IF elide THEN x + pw + pathMax ELSE x + pw
    IN [text |-> rw, rect |-> [x |-> x, w |-> rw], u2x |-> total,
        width |-> total + t2 + XOffset]

\* The SavedPathToast constructor's layout for message m and a folder of
\* width pw: totalWidth runs from xOffset over text1 and the folder; if the
\* line with text2 and the right xOffset exceeds maxToastWidth, the folder
\* is taken back and elided to what is left, less one.
SavedLayout(m, pw) ==
    LET t1 == m[1]
        t2 == m[2]
        x == XOffset + t1
        elide == x + pw + t2 + XOffset > MaxToastWidth
        pathMax == MaxToastWidth - (t1 + t2 + 2 * XOffset + 1)
        rw == IF elide THEN pathMax ELSE pw
    IN [text |-> rw, rect |-> [x |-> x, w |-> rw], u2x |-> x + rw,
        width |-> x + rw + t2 + XOffset]

\* QRect::contains on the folder's rect.
InPath(c) == pathRect.x <= c /\ c < pathRect.x + pathRect.w

\* The columns pointer events may be at: the rect's first and last columns
\* and those just outside it; any other column is in or out like these.
Points ==
    {pathRect.x - 1, pathRect.x, pathRect.x + pathRect.w - 1, pathRect.x + pathRect.w}
        \cap 0..MaxX

\* Toast::Toast and SavedPathToast::SavedPathToast, each over the window.
Init ==
    /\ page \in Pages /\ textW \in TextWidths
    /\ toastWidth = PlainWidth(page, textW)
    /\ msg \in Messages /\ pathW \in PathWidths
    /\ LET L == SavedLayout(msg, pathW) IN
          /\ pathText = L.text /\ pathRect = L.rect /\ u2x = L.u2x /\ width = L.width
    /\ hovered = FALSE /\ pressed = FALSE /\ opened = FALSE

\* The window is resized to p: handleParentResize runs the Toast's
\* updateSize; the SavedPathToast keeps its layout.
Resize(p) ==
    /\ p # page /\ page' = p
    /\ toastWidth' = PlainWidth(p, textW)
    /\ UNCHANGED <<textW, msg, pathW, pathText, pathRect, u2x, width, hovered, pressed, opened>>

\* SavedPathToast::mouseMoveEvent: the folder is hovered when under the
\* pointer.
MouseMove(c) ==
    /\ hovered' = InPath(c)
    /\ UNCHANGED <<page, textW, toastWidth, msg, pathW, pathText, pathRect, u2x, width,
                   pressed, opened>>

\* mousePressEvent: a press on the folder sets pressed; elsewhere nothing.
MousePress(c) ==
    /\ InPath(c) /\ pressed' = TRUE
    /\ UNCHANGED <<page, textW, toastWidth, msg, pathW, pathText, pathRect, u2x, width,
                   hovered, opened>>

\* mouseReleaseEvent: a release on the pressed folder is a click, which
\* opens the folder and closes the gallery; pressed is cleared either way.
MouseRelease(c) ==
    /\ pressed' = FALSE
    /\ opened' = (opened \/ (InPath(c) /\ pressed))
    /\ UNCHANGED <<page, textW, toastWidth, msg, pathW, pathText, pathRect, u2x, width,
                   hovered>>

\* leaveEvent: the folder is no longer hovered.
Leave ==
    /\ hovered' = FALSE
    /\ UNCHANGED <<page, textW, toastWidth, msg, pathW, pathText, pathRect, u2x, width,
                   pressed, opened>>

Next ==
    \/ \E p \in Pages : Resize(p)
    \/ \E c \in Points : MouseMove(c) \/ MousePress(c) \/ MouseRelease(c)
    \/ Leave

TtTypeOK ==
    /\ page \in Pages /\ textW \in TextWidths /\ msg \in Messages /\ pathW \in PathWidths
    /\ {hovered, pressed, opened} \subseteq BOOLEAN

\* Both toasts fit where they are shown: on a window at least as wide as
\* the margins, the Toast leaves padding() on each side after every
\* resize; the SavedPathToast, whatever the message and the folder, is no
\* wider than maxToastWidth, draws the folder inside the rect its clicks
\* hit, and starts text2 where that rect ends, so the click target is
\* exactly the folder's text and the line ends xOffset after text2.
TextToastsFit ==
    /\ page >= 2 * (XOffset + Padding) => toastWidth + 2 * Padding <= page
    /\ width <= MaxToastWidth
    /\ pathText <= pathRect.w
    /\ u2x = pathRect.x + pathRect.w
    /\ width = u2x + msg[2] + XOffset
=============================================================================
