------------------------------- MODULE MC_Core -------------------------------
(***************************************************************************)
(* The core's two modelled parts, a wim packet (WimPacket, both concrete  *)
(* packets) and the main_thread executor (CoreExecutionContext) that runs *)
(* the tasks the network threads post when packets complete, and a GUI    *)
(* client of the core, the voip MaskManager, whose requests the core      *)
(* answers in any order.  The executor's tasks are opaque to it, and the  *)
(* manager's model of the core is its own: the three share no state.      *)
(* part chooses, per behaviour, which one moves, and the others stay in   *)
(* their initial state.                                                    *)
(***************************************************************************)
EXTENDS Naturals, Sequences, TLC

CONSTANTS NoTask

VARIABLES kind, args, phase, request, response, outcome,
          toPost, queue, running, posted, executed, stallLog,
          masks, masksIndex, currentDownload, previewSeq, maskSeq, seqLoadMaskList,
          needPreviews, existentListLoaded, timerRunning, gen, nextSeq, inflight,
          preview, jsonPath, onDisk, events, askedGens,
          part

\* One packet of each kind, with a first-page and a follow-up cursor.
Packet == INSTANCE WimPacket
    WITH Kinds <- {"get_chat_members", "get_thread_subscribers"}, Ids <- {"chat1"},
         Roles <- {"member"}, PageSizes <- {20}, Cursors <- {"", "c1"}

\* Two network threads that each complete two packets; tasks that run for
\* exactly, and just over, the 200 ms threshold.
Executor == INSTANCE CoreExecutionContext
    WITH Posters <- {"net1", "net2"},
         Program <- ("net1" :> <<"a1", "a2">>) @@ ("net2" :> <<"b1", "b2">>),
         Durations <- {200, 201}

\* Two mask ids, two lists the core may answer (one a sublist of the other),
\* one mask already on disk, and four environment events.
Masks == INSTANCE MaskManager
    WITH Ids <- {"m1", "m2"}, Lists <- {<<"m1", "m2">>, <<"m2">>},
         InitiallyOnDisk <- {"m1"}, MaxEvents <- 4

packetVars == <<kind, args, phase, request, response, outcome>>
executorVars == <<toPost, queue, running, posted, executed, stallLog>>
maskVars == <<masks, masksIndex, currentDownload, previewSeq, maskSeq, seqLoadMaskList,
              needPreviews, existentListLoaded, timerRunning, gen, nextSeq, inflight,
              preview, jsonPath, onDisk, events, askedGens>>
allVars == <<packetVars, executorVars, maskVars, part>>

Init == /\ Packet!Init /\ Executor!Init /\ Masks!Init
        /\ part \in {"packet", "executor", "masks"}
        \* The packet's constructor arguments are pinned unless the packet moves.
        /\ part # "packet" => /\ kind = "get_chat_members"
                               /\ args = CHOOSE a \in Packet!Args : TRUE

\* A step of the executor, in the behaviours where it moves.
ExecutorStep(A) == part = "executor" /\ A /\ UNCHANGED <<packetVars, maskVars, part>>

\* A step of the mask manager, in the behaviours where it moves.
MaskStep(A) == part = "masks" /\ A /\ UNCHANGED <<packetVars, executorVars, part>>

Next == \/ part = "packet" /\ Packet!Next /\ UNCHANGED <<executorVars, maskVars, part>>
        \/ ExecutorStep(Executor!Next)
        \/ MaskStep(Masks!Next)

\* The executor's worker loop and the core's answers to the mask manager are
\* weakly fair in the behaviours where they move.
Spec == Init /\ [][Next]_allVars
             /\ \A w \in Executor!Workers :
                    /\ WF_allVars(ExecutorStep(Executor!WorkerTake(w)))
                    /\ WF_allVars(ExecutorStep(Executor!WorkerFinish(w)))
             /\ WF_allVars(MaskStep(Masks!CoreAnswer))

\* The properties of the components, stated in their modules.
PacketTypeOK == Packet!TypeOK
EnvelopeErrors == Packet!EnvelopeErrors
ResultErrorsDistinct == Packet!ResultErrorsDistinct
SemanticCodes == Packet!SemanticCodes
ThreadSubscribersCursorSupersedesFilter == Packet!ThreadSubscribersCursorSupersedesFilter
ChatMembersResetPageFlagged == Packet!ChatMembersResetPageFlagged
SerialFifo == Executor!SerialFifo
PreviewOfOwnId == Masks!PreviewOfOwnId
PreviewsLoaded == Masks!PreviewsLoaded
=============================================================================
