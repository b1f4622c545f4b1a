---------------------------- MODULE RobustoPacket ----------------------------
(***************************************************************************)
(* The robusto envelope shared by every robusto packet: the status codes,  *)
(* the return values of parse_response, the shapes a response can take,    *)
(* and the default behaviour of robusto_packet (parse_response,            *)
(* on_response_error_code, is_status_code_ok).  robusto_packet.cpp is not  *)
(* part of the repository, so the defaults are modelled from the spec      *)
(* (sections 4.1, 4.2 and 7); get_chat_members.cpp, which repeats the      *)
(* default parse_response in its override, shows its shape.                *)
(***************************************************************************)
EXTENDS Naturals, TLC

\* robusto_protocol_error: the status codes the packets tell apart.  OtherCode
\* stands for every numeric code no packet gives a meaning to.
StatusOk      == 20000
ResetPage     == 20002
NotChatMember == 40001
YouAreBlocked == 40002
OtherCode     == 40400
StatusCodes   == {StatusOk, ResetPage, NotChatMember, YouAreBlocked, OtherCode}

\* The empty cursor of a paginated packet: ask for the first page.
EmptyCursor == ""

\* status_code_ before parse_response has stored a code.
InitialStatus == 0

\* wim_protocol_internal_error: the int32_t values parse_response returns.
\* 0 is success; the other enumerators are distinct non-zero values, whose
\* exact numbers are defined outside the repository.
NoError              == 0
EmptyResponse        == 1
ErrorParseResponse   == 2
HttpParseResponse    == 3
NotChatMemberError   == 4
BlockedError         == 5
RobustoGenericError  == 6
NetworkError         == 7
ReturnValues == {NoError, EmptyResponse, ErrorParseResponse, HttpParseResponse,
                 NotChatMemberError, BlockedError, RobustoGenericError, NetworkError}

(***************************************************************************)
(* A response as parse_response sees it.  The JSON text is abstracted to   *)
(* what the parser branches on:                                            *)
(*   bytes   - the binary stream has bytes available;                      *)
(*   json    - the bytes parse as JSON;                                    *)
(*   status  - the document has a "status" member;                         *)
(*   hasCode - "status" has a "code" member;                               *)
(*   uint    - that member holds an unsigned integer;                      *)
(*   code    - the unsigned value it holds;                                *)
(*   results - "results" is absent, matches the packet's result shape, or  *)
(*             does not (unserialize fails).                               *)
(***************************************************************************)
ResultsShapes == {"absent", "valid", "invalid"}

Responses ==
    [bytes: BOOLEAN, json: BOOLEAN, status: BOOLEAN, hasCode: BOOLEAN,
     uint: BOOLEAN, code: StatusCodes, results: ResultsShapes]

\* What a parse leaves behind: the returned value, status_code_ and the
\* packet's reset_pages_ flag.
Outcome(ret, status, reset) == [ret |-> ret, status |-> status, reset |-> reset]

(***************************************************************************)
(* rapidjson's GetUint on a member that does not hold an unsigned integer  *)
(* is undefined: RAPIDJSON_ASSERT either throws or is compiled out, and    *)
(* then the bits of the value are read as a number.  The model keeps both  *)
(* outcomes: a throw, or any code at all.                                  *)
(***************************************************************************)
GetUint(r) ==
    IF r.uint
    THEN {[thrown |-> FALSE, value |-> r.code]}
    ELSE {[thrown |-> TRUE, value |-> InitialStatus]}
         \cup {[thrown |-> FALSE, value |-> c] : c \in StatusCodes}

\* The envelope is readable up to status.code.
EnvelopeComplete(r) == r.json /\ r.status /\ r.hasCode

\* robusto_packet: the success family (spec 4.2).
RobustoIsSuccess(c) == c \in {StatusOk, ResetPage}

\* robusto_packet::on_response_error_code: a generic protocol error (spec 4.1).
RobustoOnResponseErrorCode(c) == RobustoGenericError

\* robusto_packet::is_status_code_ok: the code is the plain success code
\* (spec 4.2: only pagination-aware overrides also accept the reset code).
RobustoIsStatusCodeOk(c) == c = StatusOk

(***************************************************************************)
(* robusto_packet::parse_response, given the packet's parse_results as a  *)
(* function from the stored code to its outcome, and its                  *)
(* on_response_error_code as a function from the code to the returned     *)
(* value.  Returns the set of outcomes the build can produce (a set       *)
(* because of GetUint).  A throw inside the try block is swallowed and    *)
(* returns 0.                                                              *)
(***************************************************************************)
RobustoParseResponse(r, parseResults, onResponseErrorCode) ==
    IF ~r.bytes THEN {Outcome(EmptyResponse, InitialStatus, FALSE)}
    ELSE IF ~EnvelopeComplete(r) THEN {Outcome(ErrorParseResponse, InitialStatus, FALSE)}
    ELSE { IF u.thrown THEN Outcome(NoError, InitialStatus, FALSE)
           ELSE IF ~RobustoIsSuccess(u.value)
                THEN Outcome(onResponseErrorCode[u.value], u.value, FALSE)
           ELSE IF r.results = "absent" THEN Outcome(NoError, u.value, FALSE)
           ELSE parseResults[u.value]
         : u \in GetUint(r) }

=============================================================================
