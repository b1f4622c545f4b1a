------------------------------ MODULE TwoOptions ------------------------------
(***************************************************************************)
(* TwoOptionsWidget (GeneralDialog.cpp), the content of a GeneralDialog    *)
(* that asks the user to pick one of two options: two rows, each an icon *)
(* and a text, under a top margin.  A pointer move over a row highlights   *)
(* it; a click (a press, then a release close to it) marks the row under   *)
(* the release as selected and emits InterConnector::acceptGeneralDialog,  *)
(* which the dialogs answer.  The dialog's caller then reads              *)
(* isFirstSelected and isSecondSelected.                                  *)
(*                                                                         *)
(* Only the vertical position matters (every row spans the whole width):   *)
(* a position is a pixel row y at scale 1, or Out below the widget, where  *)
(* the release of a press inside it may happen.  Utils::clicked is in      *)
(* utils.cpp, outside the repository, and is an input; pos_, which        *)
(* mousePressEvent stores for it alone, is therefore left out.  The       *)
(* receivers of acceptGeneralDialog are the composing module's: Release   *)
(* takes the action of the broadcast and the one of its absence.  Icons,  *)
(* texts, elision and painting are left out.                              *)
(***************************************************************************)
EXTENDS Integers

Margin == 16         \* getMargin()
OptionHeight == 44   \* getOptionHeight()

\* setFixedHeight(getOptionHeight() * 2 + getMargin()).
Height == 2 * OptionHeight + Margin

\* Below the widget.
Out == Height + Margin

\* QRect(0, getMargin(), width(), getOptionHeight()).contains(pos), and the
\* second row's QRect(0, getOptionHeight() + getMargin(), ...).
InFirst(y) == Margin <= y /\ y < Margin + OptionHeight
InSecond(y) == Margin + OptionHeight <= y /\ y < Margin + 2 * OptionHeight

\* The rows a pointer event may be at: the first and last rows of the
\* margin and of each option, and Out.
Ys == {0, Margin - 1, Margin, Margin + OptionHeight - 1, Margin + OptionHeight, Height - 1, Out}

VARIABLES
    firstHovered,    \* firstHovered_
    secondHovered,   \* secondHovered_
    firstSelected,   \* firstSelected_
    secondSelected,  \* secondSelected_
    pointing         \* the cursor is Qt::PointingHandCursor

optVars == <<firstHovered, secondHovered, firstSelected, secondSelected, pointing>>

\* The constructor.
Init ==
    /\ firstHovered = FALSE /\ secondHovered = FALSE
    /\ firstSelected = FALSE /\ secondSelected = FALSE
    /\ pointing = FALSE

\* mouseMoveEvent: the row under the pointer is hovered, the first row
\* tested first; the cursor points over a row.
MouseMove(y) ==
    /\ firstHovered' = InFirst(y)
    /\ secondHovered' = (~InFirst(y) /\ InSecond(y))
    /\ pointing' = (InFirst(y) \/ InSecond(y))
    /\ UNCHANGED <<firstSelected, secondSelected>>

\* A mutant of mouseReleaseEvent: the click selects a row but emits
\* nothing.
ReleaseNoAccept(y, isClick, Accept, Skip) ==
    /\ IF isClick
       THEN /\ firstSelected' = (firstSelected \/ InFirst(y))
            /\ secondSelected' = (secondSelected \/ (~InFirst(y) /\ InSecond(y)))
       ELSE UNCHANGED <<firstSelected, secondSelected>>
    /\ Skip
    /\ UNCHANGED <<firstHovered, secondHovered, pointing>>

\* mouseReleaseEvent at y: when Utils::clicked(pos_, pos), the row under
\* the release is selected (nothing is ever unselected), and
\* acceptGeneralDialog is emitted whether or not a row was hit.
Release(y, isClick, Accept, Skip) ==
    /\ IF isClick
       THEN /\ firstSelected' = (firstSelected \/ InFirst(y))
            /\ secondSelected' = (secondSelected \/ (~InFirst(y) /\ InSecond(y)))
            /\ Accept
       ELSE UNCHANGED <<firstSelected, secondSelected>> /\ Skip
    /\ UNCHANGED <<firstHovered, secondHovered, pointing>>

\* leaveEvent: nothing hovered, the arrow cursor.
Leave ==
    /\ firstHovered' = FALSE /\ secondHovered' = FALSE /\ pointing' = FALSE
    /\ UNCHANGED <<firstSelected, secondSelected>>

OptTypeOK ==
    {firstHovered, secondHovered, firstSelected, secondSelected, pointing} \subseteq BOOLEAN
=============================================================================
