---------------------------- MODULE HistoryHeads ----------------------------
(***************************************************************************)
(* The read heads ("last read" avatars) of one message in the history,     *)
(* Ui::HistoryControlPageItem (HistoryControlPageItem.cpp): setLastStatus, *)
(* setHeads, addHeads, removeHeads, and the finished handlers of the add   *)
(* and remove animations.  A head is marked adding_ or removing_ while its *)
(* animation runs; the remove animation's handler erases the heads marked  *)
(* removing_.                                                              *)
(*                                                                         *)
(* A one-to-one item (isChat false) shows the peer's head exactly when its *)
(* status is Read; its remove animation lasts 0 ms, and Qt finishes a      *)
(* zero-length animation inside start(), so the erase happens within      *)
(* removeHeads.  A group chat item gets heads from its callers and its     *)
(* remove animation lasts 200 ms, finishing later as an event.             *)
(*                                                                         *)
(* Data::isSameHeads is not in the repository: it is taken to compare the  *)
(* heads' aimids in order, and ChatHead equality (removeAll, contains) to  *)
(* compare aimids; neither looks at the adding_/removing_ marks.           *)
(***************************************************************************)
EXTENDS Naturals, Sequences, SequencesExt

CONSTANTS
    Self,         \* aimId_ of a one-to-one item: the peer
    HeadSeqs,     \* the heads vectors callers pass (no aimid twice)
    MaxCalls      \* bound on calls from outside

Statuses == {"None", "DeliveredToServer", "DeliveredToPeer", "Read"}

VARIABLES
    isChat,         \* isChat_, set once for the item
    isFavorites,    \* Favorites::isFavorites(aimId_)
    heads,          \* heads_: sequence of [aimid, adding, removing]
    addAnim,        \* addAnimation_ is running
    removeAnim,     \* removeAnimation_ is running
    lastStatus,     \* lastStatus_
    requested,      \* history: the aimids the callers last asked to show
    calls

vars == <<isChat, isFavorites, heads, addAnim, removeAnim, lastStatus, requested, calls>>

Aimids(hs) == [k \in DOMAIN hs |-> hs[k].aimid]
ChatHead(a, adding) == [aimid |-> a, adding |-> adding, removing |-> FALSE]

Init ==
    /\ isChat \in BOOLEAN
    /\ isFavorites \in BOOLEAN
    /\ heads = <<>>
    /\ addAnim = FALSE
    /\ removeAnim = FALSE
    /\ lastStatus = "None"
    /\ requested = {}
    /\ calls = 0

\* areTheSameHeads: Data::isSameHeads(heads_, _heads).
SameHeads(hs, h) == Aimids(hs) = h

\* The remove animation's finished handler: erase the heads marked removing_.
EraseRemoving(hs) == SelectSeq(hs, LAMBDA e : ~e.removing)

\* A mutant of addHeads: the given heads are not dropped before the push.
AddHeadsNoRemoveAll(h) ==
    /\ IF SameHeads(heads, h)
       THEN UNCHANGED <<heads, addAnim>>
       ELSE /\ heads' = [k \in 1..Len(h) |-> ChatHead(h[Len(h) + 1 - k], heads # <<>>)] \o heads
            /\ addAnim' = (addAnim \/ heads # <<>>)
    /\ requested' = requested \cup ToSet(h)
    /\ UNCHANGED removeAnim

\* addHeads(_heads): unless the same, drop the given heads, then push each
\* to the front, marked adding_ unless the list was empty; start the add
\* animation if heads were already shown (the height animation otherwise).
AddHeads(h) ==
    /\ IF SameHeads(heads, h)
       THEN UNCHANGED <<heads, addAnim>>
       ELSE LET rest == SelectSeq(heads, LAMBDA e : e.aimid \notin ToSet(h))
                empty == rest = <<>>
            IN /\ heads' = [k \in 1..Len(h) |-> ChatHead(h[Len(h) + 1 - k], ~empty)] \o rest
               /\ addAnim' = (addAnim \/ ~empty)
    /\ requested' = requested \cup ToSet(h)
    /\ UNCHANGED removeAnim

\* A mutant of removeHeads: the animation lasts 200 ms for every item.
RemoveHeadsAlwaysAnimated(h) ==
    LET marked == [k \in DOMAIN heads |->
                     IF heads[k].aimid \in ToSet(h)
                     THEN [heads[k] EXCEPT !.removing = TRUE] ELSE heads[k]]
    IN /\ heads' = marked
       /\ removeAnim' = TRUE
       /\ requested' = requested \ ToSet(h)
       /\ UNCHANGED addAnim

\* removeHeads(_heads): mark the given heads removing_ and start the remove
\* animation unless it runs (0 ms for a one-to-one item: erased at once).
RemoveHeads(h) ==
    LET marked == [k \in DOMAIN heads |->
                     IF heads[k].aimid \in ToSet(h)
                     THEN [heads[k] EXCEPT !.removing = TRUE] ELSE heads[k]]
    IN /\ CASE removeAnim -> heads' = marked /\ UNCHANGED removeAnim
            [] isChat     -> heads' = marked /\ removeAnim' = TRUE
            [] OTHER      -> heads' = EraseRemoving(marked) /\ UNCHANGED removeAnim
       /\ requested' = requested \ ToSet(h)
       /\ UNCHANGED addAnim

\* setHeads(_heads): a one-to-one item adds to an empty list and removes
\* all when given none; otherwise, unless the same, the heads are replaced
\* (unmarked, each aimid once).
SetHeads(h) ==
    CASE ~isChat /\ heads = <<>> /\ h # <<>> -> AddHeads(h)
      [] ~isChat /\ heads # <<>> /\ h = <<>> -> RemoveHeads(Aimids(heads))
      [] OTHER ->
           /\ IF SameHeads(heads, h) THEN UNCHANGED heads
              ELSE heads' = [k \in DOMAIN h |-> ChatHead(h[k], FALSE)]
           /\ requested' = ToSet(h)
           /\ UNCHANGED <<addAnim, removeAnim>>

\* setLastStatus(s): a new status (Read turns into DeliveredToPeer for
\* Favorites); a one-to-one item shows the peer's head exactly when Read.
SetLastStatus(s) ==
    LET st == IF isFavorites /\ s = "Read" THEN "DeliveredToPeer" ELSE s IN
    /\ calls < MaxCalls /\ calls' = calls + 1
    /\ s # lastStatus
    /\ UNCHANGED <<isChat, isFavorites>>
    /\ lastStatus' = st
    /\ IF isChat THEN UNCHANGED <<heads, addAnim, removeAnim, requested>>
       ELSE SetHeads(IF st = "Read" THEN <<Self>> ELSE <<>>)

Called == calls < MaxCalls /\ calls' = calls + 1 /\ UNCHANGED <<isChat, isFavorites, lastStatus>>

\* The page calls setHeads, addHeads and removeHeads of a group chat item.
CallSetHeads    == isChat /\ Called /\ \E h \in HeadSeqs : SetHeads(h)
CallAddHeads    == isChat /\ Called /\ \E h \in HeadSeqs : AddHeads(h)
CallRemoveHeads == isChat /\ Called /\ \E h \in HeadSeqs : RemoveHeads(h)

\* addAnimation_ finished: no head is adding_ any more.
AddAnimationFinished ==
    /\ addAnim
    /\ addAnim' = FALSE
    /\ heads' = [k \in DOMAIN heads |-> [heads[k] EXCEPT !.adding = FALSE]]
    /\ UNCHANGED <<isChat, isFavorites, removeAnim, lastStatus, requested, calls>>

\* removeAnimation_ finished: the heads marked removing_ are erased.
RemoveAnimationFinished ==
    /\ removeAnim
    /\ removeAnim' = FALSE
    /\ heads' = EraseRemoving(heads)
    /\ UNCHANGED <<isChat, isFavorites, addAnim, lastStatus, requested, calls>>

Next ==
    \/ \E s \in Statuses : SetLastStatus(s)
    \/ CallSetHeads \/ CallAddHeads \/ CallRemoveHeads
    \/ AddAnimationFinished \/ RemoveAnimationFinished

\* Qt runs every started animation to its end.
Fairness == WF_vars(AddAnimationFinished) /\ WF_vars(RemoveAnimationFinished)

Spec == Init /\ [][Next]_vars /\ Fairness

-----------------------------------------------------------------------------
Settled == ~addAnim /\ ~removeAnim

\* No aimid is shown twice: setHeads keeps the first of each, addHeads
\* drops a head before pushing it again.
HeadsUnique == \A i, j \in DOMAIN heads : i # j => heads[i].aimid # heads[j].aimid

\* Once the animations are over, the heads shown are the ones the callers
\* last asked for: what addHeads or setHeads put back is not erased by the
\* finish of an earlier removeHeads' animation.
SettledHeadsMatch == Settled => ToSet(Aimids(heads)) = requested

\* A one-to-one item shows the peer's head exactly when its status is Read.
PeerHeadIffRead ==
    ~isChat /\ Settled => (Aimids(heads) = IF lastStatus = "Read" THEN <<Self>> ELSE <<>>)

=============================================================================
