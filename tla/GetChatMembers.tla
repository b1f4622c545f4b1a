--------------------------- MODULE GetChatMembers ---------------------------
(***************************************************************************)
(* get_chat_members (src/core/connections/wim/packets/get_chat_members.cpp)*)
(* the paginated, role-filtered listing of a chat's members.  It builds    *)
(* its own request and overrides parse_response, parse_results and         *)
(* on_response_error_code; is_status_code_ok is robusto_packet's.          *)
(***************************************************************************)
EXTENDS RobustoPacket


(***************************************************************************)
(* init_request: the "params" node, the method the request is signed for,  *)
(* and whether the aimsid is registered for log redaction.  A request's    *)
(* params are a function from the member names present to their values.   *)
(***************************************************************************)
ChatMembersInitRequest(aimid, role, pageSize, cursor, fullLog) ==
    [params |-> ("id" :> aimid) @@ ("pageSize" :> pageSize)
                @@ (IF cursor = EmptyCursor THEN "filter" :> [role |-> role]
                                            ELSE "cursor" :> cursor),
     method |-> "getChatMembers",
     redact |-> ~fullLog]

\* Mutant: the unserialize result is ignored.
ChatMembersParseResultsIgnored(results) == NoError

\* parse_results: result_.unserialize of the "results" node.
ChatMembersParseResults(results) ==
    IF results = "invalid" THEN HttpParseResponse ELSE NoError

\* Mutant: 40001 and 40002 swapped.
ChatMembersOnResponseErrorCodeSwapped(c) ==
    CASE c = NotChatMember -> BlockedError
      [] c = YouAreBlocked -> NotChatMemberError
      [] OTHER             -> RobustoOnResponseErrorCode(c)

\* Mutant: the status code itself is returned as the error.
ChatMembersOnResponseErrorCodeRaw(c) == c

\* on_response_error_code: 40001 and 40002 get their own errors.
ChatMembersOnResponseErrorCode(c) ==
    CASE c = NotChatMember -> NotChatMemberError
      [] c = YouAreBlocked -> BlockedError
      [] OTHER             -> RobustoOnResponseErrorCode(c)

\* Mutant: the lookup of status.code is left out.
ChatMembersEnvelopeOkNoCode(r) == r.json /\ r.status

\* The document parses and has status.code (each missing piece returns
\* wpie_error_parse_response).
ChatMembersEnvelopeOk(r) == r.json /\ r.status /\ r.hasCode

\* Mutant: reset_pages_ is never raised.
ChatMembersResetPagesNever(c) == FALSE

\* reset_pages_ = true on 20002; it is never lowered.
ChatMembersResetPages(c) == c = ResetPage

(***************************************************************************)
(* parse_response: the set of outcomes.  reset_pages_ is raised by 20002   *)
(* before "results" is looked for; a success code without "results"       *)
(* returns 0; a throw (GetUint on a non-number) is swallowed as 0, and     *)
(* leaves status_code_ as it was.                                          *)
(***************************************************************************)
ChatMembersParseResponse(r) ==
    IF ~r.bytes THEN {Outcome(EmptyResponse, InitialStatus, FALSE)}
    ELSE IF ~ChatMembersEnvelopeOk(r) THEN {Outcome(ErrorParseResponse, InitialStatus, FALSE)}
    ELSE { IF u.thrown THEN Outcome(NoError, InitialStatus, FALSE)
           ELSE IF RobustoIsSuccess(u.value)
                THEN Outcome(IF r.results = "absent" THEN NoError
                             ELSE ChatMembersParseResults(r.results),
                             u.value, ChatMembersResetPages(u.value))
           ELSE Outcome(ChatMembersOnResponseErrorCode(u.value), u.value, FALSE)
         : u \in GetUint(r) }

\* is_status_code_ok is not overridden.
ChatMembersIsStatusCodeOk(c) == RobustoIsStatusCodeOk(c)

=============================================================================
