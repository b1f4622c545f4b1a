------------------------ MODULE GetThreadSubscribers ------------------------
(***************************************************************************)
(* get_thread_subscribers (get_thread_subscribers.cpp/.h): the paginated   *)
(* listing of a thread's subscribers.  It keeps robusto_packet's           *)
(* parse_response and overrides parse_results, on_response_error_code,    *)
(* and is_status_code_ok.                                                 *)
(***************************************************************************)
EXTENDS RobustoPacket


\* Mutant: "pageSize" sent with the cursor too, as get_chat_members does.
ThreadSubscribersInitRequestPageSizeAlways(threadId, pageSize, cursor, fullLog) ==
    [params |-> ("threadId" :> threadId) @@ ("pageSize" :> pageSize)
                @@ (IF cursor = EmptyCursor THEN <<>> ELSE "cursor" :> cursor),
     method |-> "thread/subscribers/get",
     redact |-> ~fullLog]

\* init_request: "threadId", then either "pageSize" (first page) or "cursor".
ThreadSubscribersInitRequest(threadId, pageSize, cursor, fullLog) ==
    [params |-> ("threadId" :> threadId)
                @@ (IF cursor = EmptyCursor THEN "pageSize" :> pageSize
                                            ELSE "cursor" :> cursor),
     method |-> "thread/subscribers/get",
     redact |-> ~fullLog]

\* parse_results: reset_pages_ is raised here, so only when "results" exists.
ThreadSubscribersParseResults(c, results) ==
    Outcome(IF results = "invalid" THEN HttpParseResponse ELSE NoError,
            c, c = ResetPage)

\* on_response_error_code: "TODO: handle", the robusto default.
ThreadSubscribersOnResponseErrorCode(c) == RobustoOnResponseErrorCode(c)

ThreadSubscribersParseResponse(r) ==
    RobustoParseResponse(r,
        [c \in StatusCodes |-> ThreadSubscribersParseResults(c, r.results)],
        [c \in StatusCodes |-> ThreadSubscribersOnResponseErrorCode(c)])

\* is_status_code_ok: the reset code is acceptable too.
ThreadSubscribersIsStatusCodeOk(c) == c = ResetPage \/ RobustoIsStatusCodeOk(c)

=============================================================================
