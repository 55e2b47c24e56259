---------------------------- MODULE RequestEdge ----------------------------
(***************************************************************************)
(* What surrounds an endpoint: the middleware that main.py registers, the  *)
(* exception handlers, the limiter's wrapper, and the logs that tell of a  *)
(* request.  Each request is a task of an event loop; tasks interleave     *)
(* where they await, and each has its own value of request_id_ctx.  The id *)
(* that RequestIDMiddleware draws, a fresh UUID, is named by its request.  *)
(***************************************************************************)
EXTENDS RateLimiter

CONSTANTS
  Requests,
  NoKey,        \* the route has no limit
  NoId, NoResponse,
  MaxLost       \* bound: how many replies of Redis are lost

\* 200 stands for every answer of an endpoint and of CORS, 401 for every
\* AppException.
Statuses == {200, 401, 422, 429, 500}
Responses == [status : Statuses, via : SUBSET {"request_id", "security", "logging", "cors"}]

ASSUME EdgeAssumption ==
  /\ NoKey \notin Keys
  /\ NoId \notin Requests
  /\ NoResponse \notin Responses
  /\ MaxLost \in Nat

VARIABLES
  pc,
  key,          \* what the limiter counts the request by
  context,      \* request_id_ctx, as the request's task sees it
  response,     \* what was sent to the client
  log,          \* what was logged by the request's task
  lost          \* replies of Redis lost so far

edgeVars == <<pc, key, context, response, log, lost>>
vars == <<limiterVars, edgeVars>>

\* Faulty variant: the security headers are registered before CORS.
SecurityFirst ==
  [ server_error |-> 0, request_id |-> 1, logging |-> 2, cors |-> 3, security |-> 4,
    exceptions |-> 5 ]

\* The layers around the router, outermost first: add_middleware puts each
\* around those before it.  Starlette puts server_error, which holds the
\* handler of Exception, around them all, and exceptions, which holds the
\* other handlers, inside.  ProxyHeaders, which rewrites the client address
\* that Keys are made of and touches no response, is not listed.
Depth ==
  [ server_error |-> 0, request_id |-> 1, security |-> 2, logging |-> 3, cors |-> 4,
    exceptions |-> 5 ]

\* The layers whose send_wrapper, or the like, a response of this layer passes.
Around(layer) == { l \in {"request_id", "security", "logging", "cors"} : Depth[l] < Depth[layer] }

\* An unhandled error is logged without a status.
NoStatus == 0

Entries == [event : {"completed", "application", "unhandled"}, id : Requests \union {NoId},
            status : Statuses \union {NoStatus}]

TypeOK ==
  /\ LimiterTypeOK
  /\ pc \in [Requests -> {"new", "router", "limit", "endpoint", "log", "unwind", "done"}]
  /\ key \in [Requests -> Keys \union {NoKey}]
  /\ context \in [Requests -> Requests \union {NoId}]
  /\ response \in [Requests -> Responses \union {NoResponse}]
  /\ log \in [Requests -> SUBSET Entries]
  /\ lost \in 0..MaxLost

Init ==
  /\ LimiterInit
  /\ pc = [r \in Requests |-> "new"]
  /\ key = [r \in Requests |-> NoKey]
  /\ context = [r \in Requests |-> NoId]
  /\ response = [r \in Requests |-> NoResponse]
  /\ log = [r \in Requests |-> {}]
  /\ lost = 0

-----------------------------------------------------------------------------
(* Helpers.                                                                *)

Goto(r, step) ==
  /\ pc' = [pc EXCEPT ![r] = step]
  /\ UNCHANGED <<response, log>>

Entry(r, event, status) == [event |-> event, id |-> context[r], status |-> status]

\* A response starts at a layer and goes out.
Send(r, layer, status) ==
  response' = [response EXCEPT ![r] = [status |-> status, via |-> Around(layer)]]

Answer(r, layer, status) ==
  /\ Send(r, layer, status)
  /\ pc' = [pc EXCEPT ![r] = "log"]

\* The router or an HTTPException's handler answers.
Return(r, status) == Answer(r, "exceptions", status) /\ UNCHANGED log

\* app_exception_handler.
Handled(r, status) ==
  /\ Answer(r, "exceptions", status)
  /\ log' = [log EXCEPT ![r] = @ \union {Entry(r, "application", status)}]

\* An exception nobody inside server_error handles unwinds the stack.
Unhandled(r) == Goto(r, "unwind")

\* After an answer its session closes, or fails to, which nobody handles either.
CloseSession(r) == \E step \in {"log", "unwind"} : pc' = [pc EXCEPT ![r] = step]

\* The task ends, and its context with it.
End(r) ==
  /\ pc' = [pc EXCEPT ![r] = "done"]
  /\ key' = [key EXCEPT ![r] = NoKey]
  /\ context' = [context EXCEPT ![r] = NoId]

-----------------------------------------------------------------------------
(* A request, from the outside in and back.                                *)

\* Faulty variant: one variable for all the tasks of the process.
OneIdForAll(r) == context' = [q \in Requests |-> r]

\* RequestIDMiddleware; the value is never reset.
SetId(r) == context' = [context EXCEPT ![r] = r]

Arrive(r) ==
  /\ pc[r] = "new"
  /\ SetId(r)
  /\ \E k \in Keys \union {NoKey} : key' = [key EXCEPT ![r] = k]
  /\ Goto(r, "router")
  /\ UNCHANGED <<limiterVars, lost>>

\* CORSMiddleware answers a preflight itself.
Preflight(r) ==
  /\ pc[r] = "router"
  /\ Answer(r, "cors", 200)
  /\ UNCHANGED <<limiterVars, key, context, log, lost>>

\* Validation and the endpoint's dependencies come before the limiter.
Depend(r) ==
  /\ pc[r] = "router"
  /\ \/ Return(r, 422)
     \/ Handled(r, 401)
     \/ Unhandled(r)
     \/ Goto(r, IF key[r] = NoKey THEN "endpoint" ELSE "limit")
  /\ UNCHANGED <<limiterVars, key, context, lost>>

\* The wrapper that @limiter.limit puts around the endpoint.  Before the
\* handler answers a refusal the request's session closes, and that may fail.
Limited(r) ==
  /\ pc[r] = "limit"
  /\ \/ Admit(key[r]) /\ Goto(r, "endpoint")
     \/ Refuse(key[r]) /\ (Return(r, 429) \/ Unhandled(r))
  /\ UNCHANGED <<key, context, lost>>

\* Redis fails before or after it counts; the client tries again or gives up.
RedisFails(r) ==
  /\ pc[r] = "limit"
  /\ lost < MaxLost
  /\ lost' = lost + 1
  /\ LoseReply(key[r]) \/ UNCHANGED limiterVars
  /\ UNCHANGED <<pc, response, log>> \/ Unhandled(r)
  /\ UNCHANGED <<key, context>>

\* The answer of an endpoint is sent before get_session exits, which rolls back
\* what is open, or fails to.  The handler of an exception answers after that.
Endpoint(r) ==
  /\ pc[r] = "endpoint"
  /\ \/ Send(r, "exceptions", 200) /\ CloseSession(r) /\ UNCHANGED log
     \/ Handled(r, 401)
     \/ Unhandled(r)
  /\ UNCHANGED <<limiterVars, key, context, lost>>

\* LoggingMiddleware's finally.
Complete(r) ==
  /\ pc[r] = "log"
  /\ log' = [log EXCEPT ![r] = @ \union {Entry(r, "completed", response[r].status)}]
  /\ End(r)
  /\ UNCHANGED <<limiterVars, response, lost>>

\* The same for an exception: the status is that of the answer, if one was sent,
\* or the 500 it starts from.  Then unhandled_exception_handler, outside of
\* every middleware; what it returns is sent if nothing was.
Crash(r) ==
  /\ pc[r] = "unwind"
  /\ IF response[r] = NoResponse THEN Send(r, "server_error", 500) ELSE UNCHANGED response
  /\ log' = [log EXCEPT ![r] = @ \union {Entry(r, "completed", response'[r].status),
                                          Entry(r, "unhandled", NoStatus)}]
  /\ End(r)
  /\ UNCHANGED <<limiterVars, lost>>

Next ==
  \/ \E r \in Requests :
       \/ Arrive(r) \/ Preflight(r) \/ Depend(r) \/ Limited(r) \/ RedisFails(r)
       \/ Endpoint(r) \/ Complete(r) \/ Crash(r)
  \/ Tick /\ UNCHANGED edgeVars

Spec == Init /\ [][Next]_vars

-----------------------------------------------------------------------------
(* What the edge promises.                                                 *)

\* Whatever tasks run in between, all that is logged for a request has the id
\* of that request, the one its answer carries, and every status logged is the
\* one its client gets, even if the session fails to close after the answer; an
\* answered request is logged as completed, and a 500 never without the error.
\* The handler of unhandled exceptions runs outside of RequestIDMiddleware, and
\* still has the id (logging.py:25-42, error_handler.py:15-18).
LogTellsAnswer ==
  \A r \in Requests :
    /\ \A e \in log[r] : e.id = r
    /\ pc[r] = "done" =>
         /\ \A e \in log[r] : e.status \in {response[r].status, NoStatus}
         /\ \E e \in log[r] : e.event = "completed" /\ e.status = response[r].status
         /\ response[r].status = 500 => \E e \in log[r] : e.event = "unhandled"

\* No answer lacks its request's id or the security headers, refusals,
\* preflights and handled errors included, but the 500 of an exception that was
\* logged as unhandled under that id (main.py:44-51).
OnlyCrashesAreBare ==
  \A r \in Requests :
    response[r] # NoResponse /\ ~({"request_id", "security", "logging"} \subseteq response[r].via) =>
      response[r].status = 500 /\ \E e \in log[r] : e.event = "unhandled" /\ e.id = r

\* What README.md:121-122 says of the middleware: responses carry X-Request-Id
\* and the security headers.  The 500 of unhandled_exception_handler starts
\* outside of both, and carries neither (error_handler.py:15-18).
EveryAnswerCarriesHeaders ==
  \A r \in Requests :
    response[r] # NoResponse => {"request_id", "security"} \subseteq response[r].via

-----------------------------------------------------------------------------
(* Why: the inductive invariant.                                           *)

ContextsAreOwn == \A r \in Requests : pc[r] \notin {"new", "done"} => context[r] = r

LogsFollowSteps ==
  \A r \in Requests :
    /\ pc[r] \in {"new", "router", "limit", "endpoint"} => response[r] = NoResponse
    /\ pc[r] \in {"log", "done"} => response[r] # NoResponse
    /\ pc[r] \notin {"log", "done"} => log[r] = {}
    /\ pc[r] = "limit" => key[r] \in Keys
    /\ pc[r] = "log" => \A e \in log[r] : e.status = response[r].status
    /\ response[r] # NoResponse /\ response[r].status = 500 => pc[r] = "done"

IInv ==
  /\ TypeOK
  /\ LimiterInv
  /\ ContextsAreOwn
  /\ LogsFollowSteps
  /\ LogTellsAnswer
  /\ OnlyCrashesAreBare
=============================================================================
