--------------------------- MODULE SerialExecutor ---------------------------
(***************************************************************************)
(* What the core execution context promises (spec 4.4): tasks posted from  *)
(* any thread run one at a time, each exactly once, in the order they were *)
(* posted, and every posted task eventually runs.                          *)
(***************************************************************************)
EXTENDS Sequences

CONSTANT Tasks

VARIABLES
    pending,    \* posted, not yet run, in posting order
    done        \* run, in the order they ran

absVars == <<pending, done>>

Init == pending = <<>> /\ done = <<>>

Post(t) ==
    /\ pending' = Append(pending, t)
    /\ UNCHANGED done

Execute ==
    /\ pending # <<>>
    /\ done' = Append(done, Head(pending))
    /\ pending' = Tail(pending)

Next == (\E t \in Tasks : Post(t)) \/ Execute

Spec == Init /\ [][Next]_absVars

FairSpec == Spec /\ WF_absVars(Execute)

=============================================================================
