---------------------------- MODULE DownloadToast ----------------------------
(***************************************************************************)
(* The toast shown when a file has been downloaded (DownloadFinishedToast  *)
(* in toast.cpp): "File <file> downloaded to <folder>", where the file     *)
(* name and the folder name are Labels the user clicks to launch the file  *)
(* or open the folder.  updateSize, run by the constructor and on every    *)
(* resize of the page the toast is over (handleParentResize), lays the     *)
(* five pieces out on one line, or on two when the page is narrow, eliding *)
(* the names that do not fit; the mouse handlers hit-test the labels'      *)
(* rects.                                                                  *)
(*                                                                         *)
(* Only the horizontal layout is kept: a position is a column, counted in  *)
(* units of 4 px, and a line, 0 or 1.  T1, T2 and T3 are the widths of the *)
(* message's three parts (T2 with its leading space, SpaceW wide), fileW   *)
(* and pathW the full widths of the names.  An elided name is taken to be  *)
(* exactly as wide as it was allowed to be.  Colours, underline, cursor    *)
(* and the hide timers handleMouseLeave restarts are left out.             *)
(***************************************************************************)
EXTENDS Integers

CONSTANTS
    T1, T2, T3,         \* desiredWidth of messageUnit1_, 2_ (with its space), 3_
    SpaceW,             \* width of the space compose prepends to messageUnit2_
    FileWidths,         \* desiredWidths the full file name may have
    PathWidths,         \* desiredWidths the full folder name may have
    Pages,              \* widths the page under the toast may have
    MaxX                \* the widest column a pointer event may have

\* The size constants of toast.cpp, in units of 4 px.
XOffset == 3                \* xOffset_ = scale_value(12)
MaxToastWidth == 87         \* maxToastWidth()
MaxDownloadToastWidth == 98 \* maxDownloadToastWidth()
WidthLimit == 100           \* widthLimit()

\* C++ integer division, which truncates toward zero.
CDiv(a, b) == IF a >= 0 THEN a \div b ELSE -((-a) \div b)

MinOf(a, b) == IF a <= b THEN a ELSE b
MaxOf(a, b) == IF a >= b THEN a ELSE b

\* fm.elidedText(name, mode, w): the name itself when it fits, else a
\* shorter text of width w.
Elide(full, w) ==
    IF full <= w THEN [full |-> TRUE, w |-> full] ELSE [full |-> FALSE, w |-> MaxOf(w, 0)]

\* QRect::contains for a label's rect.
In(pt, r) == pt[2] \in r.lines /\ r.x <= pt[1] /\ pt[1] < r.x + r.w

VARIABLES
    fileW,      \* the full file name's desiredWidth (d->file_)
    pathW,      \* the full folder name's desiredWidth (d->folder_)
    page,       \* width of the contact dialog or main window
    tall,       \* the toast has the two-line height toastMaxHeight()
    fileText,   \* fileLabel_'s text: [full, w]
    pathText,   \* pathLabel_'s text
    fileRect,   \* fileLabel_->rect(): [x, w, lines]
    pathRect,   \* pathLabel_->rect()
    u2,         \* messageUnit2_: [x, line, space] (space: its leading space)
    u3,         \* messageUnit3_: [x, line]
    width,      \* the toast's fixed width
    hovered,    \* the labels' hovered flags: [file, path]
    pressed,    \* the labels' pressed flags
    opened      \* what the last click opened: "none", "launcher" or "folder"

vars == <<fileW, pathW, page, tall, fileText, pathText, fileRect, pathRect, u2, u3, width, hovered, pressed, opened>>
layoutVars == <<tall, fileText, pathText, fileRect, pathRect, u2, u3, width>>

\* A label's text when it is the whole name, w wide.
FullText(w) == [full |-> TRUE, w |-> w]

(***************************************************************************)
(* compose's three layouts.  Each starts with both names restored to their *)
(* full text (compose sets them back when an earlier call elided them) and *)
(* with the running width total = xOffset_ + text1 + full file width; r0   *)
(* is the file rect updateSize set, which compose keeps unless it elides   *)
(* the file name.  Each yields the labels, the units and the running width *)
(* before the final xOffset_.                                              *)
(***************************************************************************)

\* Everything fits on one line.
OneLine(maxW, r0, total) ==
    [fileText |-> FullText(fileW), pathText |-> FullText(pathW),
     fileRect |-> r0,
     pathRect |-> [x |-> total + T2, w |-> pathW, lines |-> {0}],
     u2 |-> [x |-> total, line |-> 0, space |-> TRUE],
     u3 |-> [x |-> total + T2 + pathW, line |-> 0],
     pathW |-> pathW, end |-> total + T2 + pathW + T3, w2 |-> T2]

\* A narrow page: the folder goes to the second line, then also text2 when
\* it does not fit after the file name, eliding what is still too wide.
TwoLines(maxW, r0, total) ==
    LET half == CDiv(maxW - (T1 + T2 + T3 + 2 * XOffset), 2)
    IN IF total + T2 + XOffset <= maxW
       THEN LET t2 == total + T2
                narrow == pathW + T3 + 2 * XOffset > maxW
                pw == IF narrow THEN MinOf(t2, maxW - T3 - 2 * XOffset) ELSE pathW
            IN [fileText |-> FullText(fileW),
                pathText |-> IF narrow THEN Elide(pathW, pw) ELSE FullText(pathW),
                fileRect |-> r0,
                pathRect |-> [x |-> XOffset, w |-> pw, lines |-> {1}],
                u2 |-> [x |-> total, line |-> 0, space |-> TRUE],
                u3 |-> [x |-> XOffset + pw, line |-> 1],
                pathW |-> pw, end |-> t2, w2 |-> T2]
       ELSE LET shrinkFile == total + XOffset > maxW
                m0 == maxW - (T1 + 2 * XOffset + 1)
                m == IF m0 <= 0 THEN MinOf(fileW, half) ELSE m0
                shrinkPath == T2 + T3 + pathW + XOffset > maxW
                pw == IF shrinkPath THEN maxW - (T2 + T3 + 2 * XOffset + 1) ELSE pathW
                w2 == T2 - SpaceW
            IN [fileText |-> IF shrinkFile THEN Elide(fileW, m) ELSE FullText(fileW),
                pathText |-> IF shrinkPath THEN Elide(pathW, pw) ELSE FullText(pathW),
                fileRect |-> IF shrinkFile THEN [r0 EXCEPT !.w = m] ELSE r0,
                pathRect |-> [x |-> XOffset + w2, w |-> pw, lines |-> {1}],
                u2 |-> [x |-> XOffset, line |-> 1, space |-> FALSE],
                u3 |-> [x |-> XOffset + pw + w2, line |-> 1],
                pathW |-> pw, end |-> IF shrinkFile THEN total - fileW + m ELSE total,
                w2 |-> w2]

\* A wide page: one line, eliding the file name, then the folder.
WideLine(maxW, r0, total) ==
    LET full == T1 + T2 + T3 + 2 * XOffset
        half == CDiv(maxW - full, 2)
        pp == IF pathW > maxW THEN half ELSE pathW
        shrinkFile == total + T2 + T3 + pp + XOffset > maxW
        m0 == maxW - (full + pp + 1)
        m == IF m0 <= 0 THEN MinOf(fileW, half) ELSE m0
        t1 == IF shrinkFile THEN total - fileW + m ELSE total
        shrinkPath == t1 + T2 + T3 + pathW + XOffset > maxW
        pw == IF shrinkPath THEN maxW - (t1 + T2 + T3 + 2 * XOffset + 1) ELSE pathW
    IN [fileText |-> IF shrinkFile THEN Elide(fileW, m) ELSE FullText(fileW),
        pathText |-> IF shrinkPath THEN Elide(pathW, pw) ELSE FullText(pathW),
        fileRect |-> IF shrinkFile THEN [r0 EXCEPT !.w = m] ELSE r0,
        pathRect |-> [x |-> t1 + T2, w |-> pw, lines |-> {0}],
        u2 |-> [x |-> t1, line |-> 0, space |-> TRUE],
        u3 |-> [x |-> t1 + T2 + pw, line |-> 0],
        pathW |-> pw, end |-> t1 + T2 + pw + T3, w2 |-> T2]

\* Mutant: compose that sizes a narrow page's toast by its first line only.
ComposeFirstLineOnly(minimal, maxW, r0, total) ==
    LET fits == fileW + pathW + T1 + T2 + T3 + 2 * XOffset <= maxW
        L == IF fits THEN OneLine(maxW, r0, total)
             ELSE IF minimal THEN TwoLines(maxW, r0, total)
             ELSE WideLine(maxW, r0, total)
        tw == L.end + XOffset
    IN <<minimal /\ ~fits, L.fileText, L.pathText, L.fileRect, L.pathRect, L.u2, L.u3,
         IF maxW > 0 THEN MinOf(tw, maxW) ELSE tw>>

\* compose: the layout, then the toast's width (on a narrow page, at least
\* the second line's), capped by maxWidth, and its height.
Compose(minimal, maxW, r0, total) ==
    LET fits == fileW + pathW + T1 + T2 + T3 + 2 * XOffset <= maxW
        L == IF fits THEN OneLine(maxW, r0, total)
             ELSE IF minimal THEN TwoLines(maxW, r0, total)
             ELSE WideLine(maxW, r0, total)
        second == L.pathW + T3 + 2 * XOffset + (IF L.u2.line # 0 THEN L.w2 ELSE 0)
        tw == IF minimal THEN MaxOf(L.end + XOffset, second) ELSE L.end + XOffset
    IN <<minimal /\ ~fits, L.fileText, L.pathText, L.fileRect, L.pathRect, L.u2, L.u3,
         IF maxW > 0 THEN MinOf(tw, maxW) ELSE tw>>

\* updateSize over a page p wide, from a toast whose height is two-line
\* or not (isTall) and whose file label is labelW wide: the file rect at
\* that width (an elided name's, if compose elided it before), then
\* compose.  The result is the new value of layoutVars.
UpdateSize(p, isTall, labelW) ==
    LET minimal == p < WidthLimit
        maxW == IF minimal THEN MinOf(MaxToastWidth, p) ELSE MaxDownloadToastWidth
        r0 == [x |-> XOffset + T1, w |-> labelW, lines |-> IF isTall THEN {0, 1} ELSE {0}]
    IN Compose(minimal, maxW, r0, XOffset + T1 + fileW)

\* The positions of pointer events over the toast.  Only a label rect's
\* first and last columns and the columns just outside them are taken:
\* every other column is inside and outside the same rects as one of these.
Points ==
    LET edges == UNION {{r.x - 1, r.x, r.x + r.w - 1, r.x + r.w} : r \in {fileRect, pathRect}}
    IN (edges \cap 0..MaxX) \X {0, 1}

NoFlags == [file |-> FALSE, path |-> FALSE]

\* layoutVars hold, or take in the next state, the layout L.
IsLayout(L) ==
    /\ tall = L[1] /\ fileText = L[2] /\ pathText = L[3] /\ fileRect = L[4]
    /\ pathRect = L[5] /\ u2 = L[6] /\ u3 = L[7] /\ width = L[8]
NextLayout(L) ==
    /\ tall' = L[1] /\ fileText' = L[2] /\ pathText' = L[3] /\ fileRect' = L[4]
    /\ pathRect' = L[5] /\ u2' = L[6] /\ u3' = L[7] /\ width' = L[8]

\* The constructor: full names, the one-line height ToastBase sets, then
\* updateSize over the page the toast is created over.
Init ==
    /\ fileW \in FileWidths /\ pathW \in PathWidths
    /\ page \in Pages
    /\ IsLayout(UpdateSize(page, FALSE, fileW))
    /\ hovered = NoFlags
    /\ pressed = NoFlags
    /\ opened = "none"

\* handleParentResize: the page is now p wide, and the toast lays itself
\* out again (its move to the page's centre is left out).
Resize(p) ==
    /\ p # page
    /\ page' = p
    /\ UNCHANGED <<fileW, pathW>>
    /\ NextLayout(UpdateSize(p, tall, fileText.w))
    /\ UNCHANGED <<hovered, pressed, opened>>

\* mouseMoveEvent: a label is hovered when the pointer is in its rect.
MouseMove(pt) ==
    /\ hovered' = [file |-> In(pt, fileRect), path |-> In(pt, pathRect)]
    /\ UNCHANGED <<fileW, pathW, page, layoutVars, pressed, opened>>

\* mousePressEvent: the folder's rect wins over the file's; a press on
\* neither leaves the pressed flags alone.
MousePress(pt) ==
    LET overPath == In(pt, pathRect)
        overFile == ~overPath /\ In(pt, fileRect)
    IN /\ overPath \/ overFile
       /\ pressed' = [file |-> overFile, path |-> overPath]
       /\ UNCHANGED <<fileW, pathW, page, layoutVars, hovered, opened>>

\* mouseReleaseEvent: a release over the pressed label opens the folder or
\* launches the file (openFileOrFolder), and both flags are cleared.
MouseRelease(pt) ==
    LET clickPath == In(pt, pathRect) /\ pressed.path
        clickFile == ~clickPath /\ In(pt, fileRect) /\ pressed.file
    IN /\ pressed' = NoFlags
       /\ opened' = CASE clickPath -> "folder" [] clickFile -> "launcher" [] OTHER -> "none"
       /\ UNCHANGED <<fileW, pathW, page, layoutVars, hovered>>

\* leaveEvent: no label is hovered.
Leave ==
    /\ hovered' = NoFlags
    /\ UNCHANGED <<fileW, pathW, page, layoutVars, pressed, opened>>

Next ==
    \/ \E p \in Pages : Resize(p)
    \/ \E pt \in Points : MouseMove(pt) \/ MousePress(pt) \/ MouseRelease(pt)
    \/ Leave

Spec == Init /\ [][Next]_vars

TypeOK ==
    /\ page \in Pages /\ tall \in BOOLEAN
    /\ hovered \in [{"file", "path"} -> BOOLEAN] /\ pressed \in [{"file", "path"} -> BOOLEAN]
    /\ opened \in {"none", "launcher", "folder"}

\* Where the toast draws its five pieces: the message's parts at their
\* units' offsets (text2 without its space once compose removed it), the
\* file name after text1 on the first line, the folder name at its rect.
Drawn ==
    [u1 |-> [x |-> XOffset, w |-> T1, lines |-> {0}],
     file |-> [x |-> XOffset + T1, w |-> fileText.w, lines |-> {0}],
     u2 |-> [x |-> u2.x, w |-> IF u2.space THEN T2 ELSE T2 - SpaceW, lines |-> {u2.line}],
     path |-> [pathRect EXCEPT !.w = pathText.w],
     u3 |-> [x |-> u3.x, w |-> T3, lines |-> {u3.line}]]

\* Two pieces do not overlap (an empty one overlaps nothing).
Apart(a, b) ==
    \/ a.lines \cap b.lines = {} \/ a.w = 0 \/ b.w = 0
    \/ a.x + a.w <= b.x \/ b.x + b.w <= a.x

\* Whatever the names' widths and however the page is resized, compose
\* lays the toast out so that every piece it draws lies inside the toast's
\* fixed width and no two pieces overlap: the elision widths of its narrow
\* and wide branches, the second line's width and the cap by maxWidth
\* agree, and a name elided on a narrow page is restored on a wider one.
LayoutFits ==
    \A a \in DOMAIN Drawn :
        /\ Drawn[a].x >= 0 /\ Drawn[a].x + Drawn[a].w <= width
        /\ \A b \in DOMAIN Drawn \ {a} : Apart(Drawn[a], Drawn[b])
=============================================================================
