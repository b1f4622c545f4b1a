------------------------------ MODULE HeadsView ------------------------------
(***************************************************************************)
(* The read heads of a history item as the user sees and clicks them      *)
(* (HistoryControlPageItem.cpp): drawHeads paints them right to left from *)
(* the item's bottom-right corner; showHeadsTooltip (on mouse moves) and  *)
(* clickHeads (on a click) find the head under the pointer by the same    *)
(* walk.  At most maxHeadsCount() + 1 avatars are shown; when more heads  *)
(* are read, the last avatar is the "more" placeholder, whose tooltip     *)
(* lists the heads it stands for and whose click does nothing.           *)
(*                                                                         *)
(* Positions are pixel columns counted leftwards from rc.right(), at      *)
(* scale 1 (MessageStyle's sizes); the pointer is on the heads' row or    *)
(* off it.  Heads are their 0-based indexes in heads_.  The heads vector   *)
(* itself changes by setHeads, addHeads and removeHeads (HistoryHeads):   *)
(* here only its size matters.  Painting is taken with no add or remove   *)
(* animation running: the fades and the sliding of HistoryHeads' marks    *)
(* are left out.  Utils::clicked (a press and a release close together)   *)
(* and the contact dialog's width are inputs.                             *)
(***************************************************************************)
EXTENDS Integers

CONSTANTS
    MaxHeads,     \* the most heads an item gets
    Widths,       \* the item widths the layout gives
    DialogWidths, \* the contact dialog widths
    MaxEvents     \* bound on the events

\* MessageStyle at scale 1.
AvatarSize == 16    \* getLastReadAvatarSize
AvatarMargin == 12  \* getLastReadAvatarMargin
AvatarOffset == 4   \* getLastReadAvatarOffset
FiveHeadsWidth == 500
FourHeadsWidth == 480

\* The columns the walks can reach, and a pointer off the heads' row.
Cols == 0..(AvatarSize + AvatarMargin + 5 * (AvatarSize + AvatarOffset) + 1)
Off == -1
NoHead == -1
\* The "more" avatar (morePlaceholder) where drawHeads paints one.
More == -2

VARIABLES
    headCount,    \* heads_.size()
    itemWidth,    \* width()
    outgoing,     \* isOutgoing()
    dialogWidth,  \* the contact dialog's width()
    multiselect,  \* InterConnector::isMultiselect()
    pointing,     \* the cursor is PointingHandCursor
    tooltip,      \* the heads whose names the shown tooltip lists, {} if none
    pressed,      \* a button is down on the item (pressPoint set)
    opened,       \* the head whose profile the last left click opened
    mentioned,    \* the head the last right click emitted mention for
    hEvents

hvVars == <<headCount, itemWidth, outgoing, dialogWidth, multiselect, pointing, tooltip,
            pressed, opened, mentioned, hEvents>>

\* headsAtBottom: outgoing, or in a contact dialog narrower than 460.
HeadsAtBottom == outgoing \/ dialogWidth < 460

\* maxHeadsCount().
MaxHeadsCount ==
    IF HeadsAtBottom THEN 5
    ELSE IF itemWidth >= FiveHeadsWidth THEN 5
    ELSE IF itemWidth >= FourHeadsWidth THEN 4
    ELSE 3

\* The index the walks start from: the placeholder's slot when there are
\* more heads than maxCount, else the last head (-1 for none).
First(mc) == IF headCount > mc THEN mc ELSE headCount - 1

\* The hit rect QRect(rc.right() - xMargin, ..., size, size) in columns.
InHitRect(p, xm) == xm - AvatarSize < p /\ p <= xm

\* drawPixmap(rc.right() - margin, ..., size, size), margin = xMargin - 1.
InDrawnRect(p, xm) == xm - 1 - AvatarSize < p /\ p <= xm - 1

\* The loop of showHeadsTooltip and clickHeads: from index i at xMargin
\* xm down to 0, the first index whose rect holds p.
RECURSIVE HitFrom(_, _, _)
HitFrom(i, xm, p) ==
    IF i < 0 THEN NoHead
    ELSE IF InHitRect(p, xm) THEN i
    ELSE HitFrom(i - 1, xm + AvatarSize + AvatarOffset, p)

\* drawHeads' loop when no animation runs: the index painted at p.
RECURSIVE DrawnFrom(_, _, _)
DrawnFrom(i, xm, p) ==
    IF i < 0 THEN NoHead
    ELSE IF InDrawnRect(p, xm) THEN i
    ELSE DrawnFrom(i - 1, xm + AvatarSize + AvatarOffset, p)

HitIndex(p) ==
    IF p = Off THEN NoHead ELSE HitFrom(First(MaxHeadsCount), AvatarSize + AvatarMargin, p)

\* Slot i acts on its head unless it is the placeholder.
Acts(i) == i # MaxHeadsCount \/ headCount = MaxHeadsCount + 1

\* showHeadsTooltip's text: the head's name, and for the placeholder's slot
\* the names of every head after it.
TooltipOf(i) ==
    IF i = MaxHeadsCount THEN i..(headCount - 1) ELSE {i}

\* drawHeads, with no add or remove animation running: nothing for no
\* heads or in multiselect; the placeholder in slot maxCount when heads
\* are left over; otherwise the head.
Drawn(p) ==
    LET mc == MaxHeadsCount
        i == IF headCount = 0 \/ multiselect \/ p = Off THEN NoHead
             ELSE DrawnFrom(First(mc), AvatarSize + AvatarMargin, p)
    IN IF i = mc /\ headCount > mc + 1 THEN More ELSE i

\* A mutant of clickHeads: the placeholder's slot never acts.
ClickTargetNoLastSlot(p) ==
    LET i == HitIndex(p) IN IF i # NoHead /\ i # MaxHeadsCount THEN i ELSE NoHead

\* clickHeads: the head under p, unless p is on the placeholder.
ClickTarget(p) ==
    LET i == HitIndex(p) IN IF i # NoHead /\ Acts(i) THEN i ELSE NoHead

Init ==
    /\ headCount = 0
    /\ itemWidth \in Widths
    /\ outgoing \in BOOLEAN
    /\ dialogWidth \in DialogWidths
    /\ multiselect = FALSE
    /\ pointing = FALSE
    /\ tooltip = {}
    /\ pressed = FALSE
    /\ opened = NoHead
    /\ mentioned = NoHead
    /\ hEvents = 0

HvEvent == hEvents < MaxEvents /\ hEvents' = hEvents + 1

\* mouseMoveEvent at p: in multiselect the pointing cursor (the item
\* allows multiselect); otherwise, with heads, showHeadsTooltip shows the
\* tooltip of the slot under p and the cursor points if the slot acts.
\* Nothing here sets the cursor back.
MouseMove(p) ==
    /\ HvEvent
    /\ LET i == HitIndex(p) IN
       IF multiselect
       THEN pointing' = TRUE /\ UNCHANGED tooltip
       ELSE IF headCount > 0 /\ i # NoHead
            THEN /\ tooltip' = TooltipOf(i)
                 /\ pointing' = (pointing \/ Acts(i))
            ELSE UNCHANGED <<pointing, tooltip>>
    /\ UNCHANGED <<headCount, itemWidth, outgoing, dialogWidth, multiselect, pressed,
                   opened, mentioned>>

\* mousePressEvent: pressPoint.
MousePress ==
    /\ HvEvent
    /\ ~pressed /\ pressed' = TRUE
    /\ UNCHANGED <<headCount, itemWidth, outgoing, dialogWidth, multiselect, pointing,
                   tooltip, opened, mentioned>>

\* mouseReleaseEvent at p with the left or right button: a click outside
\* multiselect runs clickHeads, which opens the profile (and hides the
\* tooltip) or emits mention.  The multiselect toggle is HistorySelection's.
MouseRelease(p, left, isClick) ==
    /\ HvEvent
    /\ pressed /\ pressed' = FALSE
    /\ LET t == ClickTarget(p) IN
       IF isClick /\ ~multiselect /\ headCount > 0 /\ t # NoHead
       THEN IF left
            THEN opened' = t /\ tooltip' = {} /\ UNCHANGED mentioned
            ELSE mentioned' = t /\ UNCHANGED <<opened, tooltip>>
       ELSE UNCHANGED <<opened, mentioned, tooltip>>
    /\ UNCHANGED <<headCount, itemWidth, outgoing, dialogWidth, multiselect, pointing>>

\* The heads vector gets another size (setHeads, addHeads, removeHeads).
HeadsChanged(k) ==
    /\ HvEvent
    /\ k # headCount /\ headCount' = k
    /\ UNCHANGED <<itemWidth, outgoing, dialogWidth, multiselect, pointing, tooltip,
                   pressed, opened, mentioned>>

\* The layout resizes the item, or the contact dialog is resized.
Resize(w, d) ==
    /\ HvEvent
    /\ <<w, d>> # <<itemWidth, dialogWidth>>
    /\ itemWidth' = w /\ dialogWidth' = d
    /\ UNCHANGED <<headCount, outgoing, multiselect, pointing, tooltip, pressed, opened,
                   mentioned>>

\* The page enters or leaves multiselect mode.
ToggleMultiselect ==
    /\ HvEvent
    /\ multiselect' = ~multiselect
    /\ UNCHANGED <<headCount, itemWidth, outgoing, dialogWidth, pointing, tooltip, pressed,
                   opened, mentioned>>

HvNext ==
    \/ \E p \in Cols \cup {Off} : MouseMove(p)
    \/ MousePress
    \/ \E p \in Cols \cup {Off}, left, isClick \in BOOLEAN : MouseRelease(p, left, isClick)
    \/ \E k \in 0..MaxHeads : HeadsChanged(k)
    \/ \E w \in Widths, d \in DialogWidths : Resize(w, d)
    \/ ToggleMultiselect

HvSpec == Init /\ [][HvNext]_hvVars

HvTypeOK ==
    /\ headCount \in 0..MaxHeads /\ itemWidth \in Widths /\ dialogWidth \in DialogWidths
    /\ {outgoing, multiselect, pointing, pressed} \subseteq BOOLEAN
    /\ tooltip \subseteq 0..MaxHeads
    /\ opened \in 0..MaxHeads \cup {NoHead} /\ mentioned \in 0..MaxHeads \cup {NoHead}

\* Whatever the number of heads and the item's and the dialog's widths,
\* every read head can be reached by the user: either it is painted and a
\* click on its avatar opens it, or the "more" placeholder is painted and
\* its tooltip names it.  drawHeads, maxHeadsCount, and clickHeads' and
\* showHeadsTooltip's walks with the placeholder's exception must agree.
EveryHeadReachable ==
    ~multiselect =>
        \A j \in 0..(headCount - 1) :
            \/ \E p \in Cols : Drawn(p) = j /\ ClickTarget(p) = j
            \/ \E p \in Cols : Drawn(p) = More /\ HitIndex(p) # NoHead
                                                  /\ j \in TooltipOf(HitIndex(p))
=============================================================================
