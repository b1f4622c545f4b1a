\* The wim packet's contract, main_thread's FIFO executor, and the mask
\* manager against a core that answers every request in any order.
CONSTANTS
    NoTask = NoTask
SPECIFICATION Spec
\* A packet stops once parse_response has returned, and the executor idles
\* once every thread's program ran.
CHECK_DEADLOCK FALSE
INVARIANT PacketTypeOK
INVARIANT EnvelopeErrors
INVARIANT ResultErrorsDistinct
INVARIANT SemanticCodes
INVARIANT ThreadSubscribersCursorSupersedesFilter
INVARIANT ChatMembersResetPageFlagged
PROPERTY SerialFifo
INVARIANT PreviewOfOwnId
PROPERTY PreviewsLoaded
