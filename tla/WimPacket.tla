------------------------------ MODULE WimPacket ------------------------------
(***************************************************************************)
(* The lifecycle of one packet (wim_packet): constructed with its          *)
(* arguments and wim_packet_params, init_request builds the request,       *)
(* execute hands it to the transport, which returns bytes or fails, and    *)
(* parse_response classifies the bytes.  The packet then stops: its owner  *)
(* reads the outcome and destroys it.  Kinds are the concrete packets whose *)
(* request and parse code is in the repository.                           *)
(***************************************************************************)
EXTENDS Integers, GetChatMembers, GetThreadSubscribers

CONSTANTS
    Kinds,      \* subset of {"get_chat_members", "get_thread_subscribers"}
    Ids,        \* chat aimids / thread ids
    Roles,      \* role filters
    PageSizes,  \* page sizes
    Cursors     \* cursors, EmptyCursor among them

ASSUME Kinds \subseteq {"get_chat_members", "get_thread_subscribers"}
ASSUME EmptyCursor \in Cursors

VARIABLES
    kind,       \* the concrete packet
    args,       \* its constructor arguments and params_.full_log_
    phase,      \* "constructed", "built", "received", "done"
    request,    \* what init_request built
    response,   \* what the transport returned
    outcome     \* parse_response's return value, status_code_, reset_pages_

vars == <<kind, args, phase, request, response, outcome>>

Args == [id: Ids, role: Roles, pageSize: PageSizes, cursor: Cursors, fullLog: BOOLEAN]

NoRequest == [params |-> <<>>, method |-> "", redact |-> FALSE]
NoResponse == [bytes |-> FALSE, json |-> FALSE, status |-> FALSE, hasCode |-> FALSE,
               uint |-> FALSE, code |-> StatusOk, results |-> "absent"]
\* No value returned yet.
NoOutcome == -1
Pending == Outcome(NoOutcome, InitialStatus, FALSE)

\* Dispatch on the concrete type (the virtual calls of wim_packet).
InitRequestOf(k, a) ==
    IF k = "get_chat_members"
    THEN ChatMembersInitRequest(a.id, a.role, a.pageSize, a.cursor, a.fullLog)
    ELSE ThreadSubscribersInitRequest(a.id, a.pageSize, a.cursor, a.fullLog)

ParseResponseOf(k, r) ==
    IF k = "get_chat_members" THEN ChatMembersParseResponse(r)
    ELSE ThreadSubscribersParseResponse(r)

IsStatusCodeOkOf(k, c) ==
    IF k = "get_chat_members" THEN ChatMembersIsStatusCodeOk(c)
    ELSE ThreadSubscribersIsStatusCodeOk(c)

Init ==
    /\ kind \in Kinds
    /\ args \in Args
    /\ phase = "constructed"
    /\ request = NoRequest
    /\ response = NoResponse
    /\ outcome = Pending

\* init_request: the request body, its signature and the redaction marker.
InitRequest ==
    /\ phase = "constructed"
    /\ phase' = "built"
    /\ request' = InitRequestOf(kind, args)
    /\ UNCHANGED <<kind, args, response, outcome>>

\* execute_request: the transport answers with some bytes (possibly none).
ExecuteRequest ==
    /\ phase = "built"
    /\ \E r \in Responses :
        /\ response' = r
        /\ phase' = "received"
    /\ UNCHANGED <<kind, args, request, outcome>>

\* execute_request: the transport fails; nothing is parsed.
TransportFailure ==
    /\ phase = "built"
    /\ phase' = "done"
    /\ outcome' = Outcome(NetworkError, InitialStatus, FALSE)
    /\ UNCHANGED <<kind, args, request, response>>

\* parse_response on the received bytes.
ParseResponse ==
    /\ phase = "received"
    /\ \E o \in ParseResponseOf(kind, response) : outcome' = o
    /\ phase' = "done"
    /\ UNCHANGED <<kind, args, request, response>>

Next == InitRequest \/ ExecuteRequest \/ TransportFailure \/ ParseResponse

Spec == Init /\ [][Next]_vars

-----------------------------------------------------------------------------
TypeOK ==
    /\ kind \in Kinds
    /\ args \in Args
    /\ phase \in {"constructed", "built", "received", "done"}
    /\ response \in Responses
    /\ outcome \in [ret: ReturnValues \cup {NoOutcome},
                    status: StatusCodes \cup {InitialStatus}, reset: BOOLEAN]

Parsed == phase = "done" /\ response.bytes
Code == response.code

\* Spec 4.1 and 8 (scenario 4): bytes whose envelope lacks a readable
\* status.code end in wpie_error_parse_response, whatever the packet, and no
\* bytes at all in wpie_http_empty_response; neither reads a status code.
EnvelopeErrors ==
    /\ (Parsed /\ ~EnvelopeComplete(response)) =>
            outcome = Outcome(ErrorParseResponse, InitialStatus, FALSE)
    /\ (phase = "done" /\ outcome.ret # NetworkError /\ ~response.bytes) =>
            outcome.ret = EmptyResponse

\* Spec 3: status.code must be numeric, or the response is a parse failure.
\* get_chat_members reads it with GetUint inside a catch-all.
CodeMustBeNumeric ==
    (Parsed /\ EnvelopeComplete(response) /\ ~response.uint) =>
        outcome.ret = ErrorParseResponse

\* Spec 7: a success code whose "results" do not match the packet's shape
\* is a result-parse error, told apart from an envelope error.
ResultErrorsDistinct ==
    (Parsed /\ EnvelopeComplete(response) /\ response.uint
        /\ RobustoIsSuccess(Code) /\ response.results = "invalid")
    => outcome.ret = HttpParseResponse /\ outcome.status = Code

\* Spec 6 and 8 (scenario 2): for get_chat_members 40001 and 40002 are their
\* own errors, every other non-success code is the generic protocol error.
SemanticCodes ==
    (Parsed /\ kind = "get_chat_members" /\ EnvelopeComplete(response)
        /\ response.uint /\ ~RobustoIsSuccess(Code))
    => outcome.ret = CASE Code = NotChatMember -> NotChatMemberError
                       [] Code = YouAreBlocked -> BlockedError
                       [] OTHER                -> RobustoGenericError

\* Spec 4.2 and 8 (scenario 3): a 20002 answer of a paginated packet is a
\* success that the caller must act on: reset_pages_ is raised and
\* is_status_code_ok accepts it.
ResetPageFlagged ==
    (Parsed /\ response.uint /\ outcome.ret = NoError /\ outcome.status = ResetPage)
    => outcome.reset

ResetPageIsOk ==
    (Parsed /\ response.uint /\ outcome.ret = NoError /\ outcome.status = ResetPage)
    => IsStatusCodeOkOf(kind, outcome.status)

\* Spec 4.3 and 8: a non-empty cursor supersedes the filter and page size;
\* an empty one asks for the first page with a page size (and the role
\* filter, for the role-filtered listing).
CursorSupersedesFilter ==
    phase # "constructed" =>
        IF args.cursor # EmptyCursor
        THEN /\ request.params["cursor"] = args.cursor
             /\ "pageSize" \notin DOMAIN request.params
             /\ "filter" \notin DOMAIN request.params
        ELSE /\ "cursor" \notin DOMAIN request.params
             /\ request.params["pageSize"] = args.pageSize
             /\ kind = "get_chat_members" => request.params["filter"].role = args.role

\* Per packet, what each one's code does of the three paginated rules above
\* (the other packet breaks each of them, see the violation runs):
\* get_thread_subscribers sends a cursor or a page size, never both;
\* get_chat_members raises reset_pages_.
ThreadSubscribersCursorSupersedesFilter ==
    kind = "get_thread_subscribers" => CursorSupersedesFilter

ChatMembersResetPageFlagged ==
    kind = "get_chat_members" => ResetPageFlagged

=============================================================================
