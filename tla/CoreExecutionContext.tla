------------------------ MODULE CoreExecutionContext ------------------------
(***************************************************************************)
(* The core execution context, main_thread: a threadpool named "core main" *)
(* built with CoreThreadCount workers, whose execute_core_context pushes a *)
(* task on the pool's queue, and whose task-finish callback writes a       *)
(* "Core locked" report to the network log when a task ran for longer than *)
(* StallThreshold milliseconds and a stack trace was captured.             *)
(*                                                                         *)
(* The threadpool itself is not part of the repository: its queue, worker  *)
(* loop and finish callback are modelled from the spec (4.4): push_back    *)
(* appends under the pool's lock, an idle worker takes the head, runs it,  *)
(* then calls the finish callback with the measured time.                  *)
(*                                                                         *)
(* Posters are the threads that post work (network completion threads);   *)
(* each posts its Program, in program order.                               *)
(***************************************************************************)
EXTENDS Naturals, Sequences, FiniteSets

CONSTANTS
    Posters,      \* threads calling execute_core_context
    Program,      \* Program[p]: the tasks thread p posts, in program order
    Durations,    \* execute times (ms) a task may take
    NoTask        \* a worker that runs nothing

\* Every task is posted by exactly one thread, once.
Tasks == UNION {{Program[p][i] : i \in 1..Len(Program[p])} : p \in Posters}
ASSUME NoTask \notin Tasks

\* Mutant: a pool built with two workers.
CoreThreadCountTwo == 2

\* main_thread(): threadpool("core main", 1).
CoreThreadCount == 1

\* The pool's worker threads, by index into get_threads_ids().
Workers == 1..CoreThreadCount

\* The finish callback's threshold, std::chrono::milliseconds(200).
StallThreshold == 200

VARIABLES
    toPost,     \* toPost[p]: what thread p has yet to post
    queue,      \* the pool's task queue
    running,    \* running[w]: the task worker w executes, or NoTask
    posted,     \* history: every push_back, in the order it took the lock
    executed,   \* history: every task whose execution finished, in order
    stallLog    \* the "Core locked" reports written to the network log

vars == <<toPost, queue, running, posted, executed, stallLog>>

Init ==
    /\ toPost = Program
    /\ queue = <<>>
    /\ running = [w \in Workers |-> NoTask]
    /\ posted = <<>>
    /\ executed = <<>>
    /\ stallLog = <<>>

\* The finish callback's condition: too slow, and a stack trace exists.
StallReported(duration, hasStacktrace) ==
    duration > StallThreshold /\ hasStacktrace

\* execute_core_context(task): push_back(std::move(task)).
ExecuteCoreContext(p) ==
    /\ toPost[p] # <<>>
    /\ queue' = Append(queue, Head(toPost[p]))
    /\ posted' = Append(posted, Head(toPost[p]))
    /\ toPost' = [toPost EXCEPT ![p] = Tail(@)]
    /\ UNCHANGED <<running, executed, stallLog>>

\* A worker of the pool wakes up and takes the task at the head of the queue.
WorkerTake(w) ==
    /\ running[w] = NoTask
    /\ queue # <<>>
    /\ running' = [running EXCEPT ![w] = Head(queue)]
    /\ queue' = Tail(queue)
    /\ UNCHANGED <<toPost, posted, executed, stallLog>>

\* The task returns; the pool measures it and calls the finish callback,
\* which only writes to the network log: the task is neither aborted nor
\* run again.
WorkerFinish(w) ==
    /\ running[w] # NoTask
    /\ \E d \in Durations, st \in BOOLEAN :
          stallLog' = IF StallReported(d, st)
                      THEN Append(stallLog, running[w]) ELSE stallLog
    /\ executed' = Append(executed, running[w])
    /\ running' = [running EXCEPT ![w] = NoTask]
    /\ UNCHANGED <<toPost, queue, posted>>

\* get_core_thread_id(): the single worker's id, or "nobody" (after a
\* failed assert) when the pool does not have exactly one thread.
NoThread == 0
CoreThreadId == IF Cardinality(Workers) = 1 THEN CHOOSE w \in Workers : TRUE
                ELSE NoThread

Next ==
    \/ \E p \in Posters : ExecuteCoreContext(p)
    \/ \E w \in Workers : WorkerTake(w) \/ WorkerFinish(w)

Spec == Init /\ [][Next]_vars

\* The worker loop waits on the queue's condition variable and runs whatever
\* is there; a task body returns (the watchdog reports slow ones, it does
\* not cancel them).  So both worker steps are weakly fair.
FairSpec == Spec /\ \A w \in Workers : WF_vars(WorkerTake(w)) /\ WF_vars(WorkerFinish(w))

-----------------------------------------------------------------------------
TypeOK ==
    /\ queue \in Seq(Tasks)
    /\ running \in [Workers -> Tasks \cup {NoTask}]
    /\ executed \in Seq(Tasks)
    /\ stallLog \in Seq(Tasks)

RunningTasks == {running[w] : w \in Workers} \ {NoTask}

\* Refinement mapping: the tasks being run come first among the pending
\* ones, in the order they were posted, then the queue.
AbsPending == SelectSeq(posted, LAMBDA t : t \in RunningTasks) \o queue

Abs == INSTANCE SerialExecutor WITH pending <- AbsPending, done <- executed

\* Spec 4.4 and 8: execute_core_context from any thread behaves as one FIFO
\* executor: every posted task runs exactly once, in the order of the
\* push_back calls, and every posted task eventually runs.
SerialFifo == Abs!FairSpec

\* Every task runs on the thread get_core_thread_id() names, which is what
\* the core's "on core thread" checks compare against.
RunsOnCoreThread == \A w \in Workers : running[w] # NoTask => w = CoreThreadId

=============================================================================
