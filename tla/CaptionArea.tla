----------------------------- MODULE CaptionArea -----------------------------
(***************************************************************************)
(* The gallery's caption (CaptionArea in GalleryFrame.cpp): a collapsed   *)
(* preview with a "more" link when the text is elided, and an expanded    *)
(* view that grows in with a 300 ms QVariantAnimation.  Each valueChanged *)
(* emits needHeight(value) (GalleryFrame forwards it to its owner) and    *)
(* sets the caption's height in proportion.  Heights are counted in       *)
(* animation steps: 0 is the collapsed preview, Space[t] the end value    *)
(* setExpanded computes for text t.  An animation's end and its lambda's  *)
(* captured heights are fixed when it starts.                             *)
(***************************************************************************)
EXTENDS Naturals

CONSTANTS
    Texts,      \* captions the owner may set
    Space       \* Space[t]: endSpace of the expand animation for text t

ASSUME Space \in [Texts -> Nat \ {0}]

VARIABLES
    text,       \* textWidget_ / textPreview_ contents
    elided,     \* textPreview_->isElided()
    expanded,   \* expanded_
    anim,       \* anim_: [running, value, end]
    needH,      \* the last needHeight value emitted
    height      \* the caption's height, in steps of the running animation

vars == <<text, elided, expanded, anim, needH, height>>

Idle == [running |-> FALSE, value |-> 0, end |-> 0]

\* CaptionArea::setExpanded: expanding starts the animation unless one is
\* running (start() emits valueChanged for the start value 0); collapsing
\* resizes to the preview and emits needHeight(0), and leaves anim_ alone.
\* t is the caption's text.
SetExpanded(e, t) ==
    /\ expanded' = e
    /\ IF e
       THEN IF anim.running
            THEN UNCHANGED <<anim, needH, height>>
            ELSE /\ anim' = [running |-> TRUE, value |-> 0, end |-> Space[t]]
                 /\ needH' = 0
                 /\ height' = 0
       ELSE /\ needH' = 0
            /\ height' = 0
            /\ UNCHANGED anim

\* The constructor calls setExpanded(false) before any animation exists.
Init ==
    /\ text \in Texts
    /\ elided \in BOOLEAN
    /\ expanded = FALSE
    /\ anim = Idle
    /\ needH = 0
    /\ height = 0

\* GalleryFrame::setCaption -> CaptionArea::setCaption: new text, collapsed.
SetCaption ==
    \E t \in Texts, e \in BOOLEAN :
        /\ text' = t
        /\ elided' = e
        /\ SetExpanded(FALSE, t)

\* GalleryFrame::collapseCaption.
CollapseCaption ==
    /\ SetExpanded(FALSE, text)
    /\ UNCHANGED <<text, elided>>

\* mousePressEvent then mouseReleaseEvent at the same point, over "more".
ClickMore ==
    /\ ~expanded
    /\ elided
    /\ SetExpanded(TRUE, text)
    /\ UNCHANGED <<text, elided>>

\* The animation's timer: valueChanged(v) runs the lambda connected when it
\* started; the animation stops after emitting its end value.
AnimTick ==
    /\ anim.running
    /\ LET v == anim.value + 1
       IN /\ anim' = [anim EXCEPT !.value = v, !.running = v < anim.end]
          /\ needH' = v
          /\ height' = v
    /\ UNCHANGED <<text, elided, expanded>>

Next == SetCaption \/ CollapseCaption \/ ClickMore \/ AnimTick

Spec == Init /\ [][Next]_vars

TypeOK ==
    /\ text \in Texts /\ elided \in BOOLEAN /\ expanded \in BOOLEAN
    /\ anim.running \in BOOLEAN /\ anim.value <= anim.end
    /\ needH \in Nat /\ height \in Nat

\* Once the animation has stopped, the caption's height and the height it
\* last asked its owner for (needHeight) match its state: the preview when
\* collapsed, the full text when expanded.  Collapsing mid-animation
\* (setCaption on navigation, collapseCaption) and expanding again are the
\* calls this is about.
CaptionSettled ==
    ~anim.running =>
        LET full == IF expanded THEN Space[text] ELSE 0
        IN needH = full /\ height = full
=============================================================================
