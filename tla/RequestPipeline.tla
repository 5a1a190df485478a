--------------------------- MODULE RequestPipeline ---------------------------
(***************************************************************************)
(* What a request of one client address passes on its way to an answer:    *)
(* the body parser, the global RateLimitGuard (RateLimiter, whose actions  *)
(* are taken over), the validation pipe, its handler, and                  *)
(* GlobalExceptionFilter for all that is thrown on the way. Express and    *)
(* Nest, which call them in this order, are external. A handler is reduced *)
(* to what it can end with, a body to what the parser and the pipe make of *)
(* it.                                                                     *)
(***************************************************************************)
EXTENDS RateLimiter, UrlRules

VARIABLES
    stage,    \* stage[r]: "idle", "guard", "handler" or "answered"
    route,    \* route[r]: what r, under way, asks for
    valid,    \* valid[r]: does r's body satisfy auditRequestSchema
    cause,    \* cause[r]: what decided r's answer
    answer    \* answer[r]: its status and the code of its error

pipelineVars == <<vars, stage, route, valid, cause, answer>>

(* The routes, all of them below /api/v1: what is asked for elsewhere, also  *)
(* a /health without version, is noRoute.                                   *)
Routes == {"audit", "health", "ready", "metrics"}

(* One body for each rule of auditRequestSchema that fails, and two that    *)
(* satisfy them all.                                                        *)
Bodies ==
    { NoUrl, NoParse,
      Url("ftp:", Name("ex", FALSE)), Url("http:", Name("lo", TRUE)),
      Url("http:", V4(172, 31, 0, 1)), Url("http:", V6(0, TRUE)),
      Url("http:", V4(172, 32, 0, 1)), Url("https:", Name("ex", FALSE)) }

NoAnswer == [status |-> 0, code |-> "none"]

PipelineInit ==
    /\ Init
    /\ stage = [r \in Requests |-> "idle"]
    /\ route = [r \in Requests |-> "none"]
    /\ valid = [r \in Requests |-> FALSE]
    /\ cause = [r \in Requests |-> "none"]
    /\ answer = [r \in Requests |-> NoAnswer]

(* The code of an exception whose body has none. *)
StatusToCode(status) ==
    CASE status = 400 -> "VALIDATION_ERROR"
      [] status = 429 -> "RATE_LIMIT_EXCEEDED"
      [] status = 503 -> "SERVICE_UNAVAILABLE"
      [] status = 504 -> "REQUEST_TIMEOUT"
      [] OTHER -> "INTERNAL_ERROR"

(* What the filter makes of an exception: its own code if it has one, and   *)
(* a 500 of what is no HttpException.                                       *)
Filtered(status, code) ==
    [status |-> status,
     code   |-> IF code = "none" THEN StatusToCode(status) ELSE code]

Ok(code) == [status |-> 200, code |-> code]

(* The request is answered with a, on account of c. *)
Reply(r, a, c) ==
    /\ stage' = [stage EXCEPT ![r] = "answered"]
    /\ route' = [route EXCEPT ![r] = "none"]
    /\ valid' = [valid EXCEPT ![r] = FALSE]
    /\ cause' = [cause EXCEPT ![r] = c]
    /\ answer' = [answer EXCEPT ![r] = a]

Free(r) == stage[r] \in {"idle", "answered"}

(* What ends before the guard, uncounted, by an error the filter answers:   *)
(* Nest makes an HttpException of a body that is no JSON, of a path that    *)
(* cannot be decoded and of one without a route. What else the parser       *)
(* throws, for a body that is too long or in an unknown charset, is none,   *)
(* and to the filter an unknown error.                                      *)
Turn(r) ==
    /\ Free(r)
    /\ \/ Reply(r, Filtered(400, "none"), "badBody")
       \/ Reply(r, Filtered(400, "none"), "badPath")
       \/ Reply(r, Filtered(404, "none"), "noRoute")
       \/ Reply(r, Filtered(500, "none"), "unparsed")
    /\ UNCHANGED vars

(* A request for a route gets as far as the guard, which is app-wide.       *)
Receive(r) ==
    /\ Free(r)
    /\ stage' = [stage EXCEPT ![r] = "guard"]
    /\ \E to \in Routes, b \in Bodies :
          /\ route' = [route EXCEPT ![r] = to]
          /\ valid' = [valid EXCEPT ![r] = to = "audit" /\ Satisfies(b)]
    /\ cause' = [cause EXCEPT ![r] = "none"]
    /\ answer' = [answer EXCEPT ![r] = NoAnswer]
    /\ UNCHANGED vars

GuardCounts(r) ==
    /\ stage[r] = "guard"
    /\ Count(r)
    /\ UNCHANGED <<stage, route, valid, cause, answer>>

(* A version of Proceed that tries again instead of throwing. *)
ProceedRetrying(r) ==
    IF at'[r] = "rejected"
    THEN UNCHANGED <<stage, route, valid, cause, answer>>
    ELSE IF route[r] = "audit" /\ ~valid[r]
    THEN Reply(r, Filtered(400, "VALIDATION_ERROR"), "badBody")
    ELSE /\ stage' = [stage EXCEPT ![r] = "handler"]
         /\ UNCHANGED <<route, valid, cause, answer>>

(* After the guard: its exception goes to the filter; a request that is let *)
(* through meets the pipe, if it has a body, and reaches its handler.       *)
Proceed(r) ==
    IF at'[r] = "rejected"
    THEN Reply(r, Filtered(429, "RATE_LIMIT_EXCEEDED"), "limit")
    ELSE IF route[r] = "audit" /\ ~valid[r]
    THEN Reply(r, Filtered(400, "VALIDATION_ERROR"), "badBody")
    ELSE /\ stage' = [stage EXCEPT ![r] = "handler"]
         /\ UNCHANGED <<route, valid, cause, answer>>

GuardDecides(r) ==
    /\ stage[r] = "guard"
    /\ FailOpen(r) \/ Decide(r) \/ DecideUnset(r)
    /\ Proceed(r)

(* AuditController.audit: two errors become answers, others are thrown.     *)
AuditEnds(r) ==
    /\ stage[r] = "handler" /\ route[r] = "audit"
    /\ \/ Reply(r, Ok("none"), "result")
       \/ Reply(r, Ok("QUEUE_FULL"), "queueFull")
       \/ Reply(r, Ok("REQUEST_TIMEOUT"), "deadline")
       \/ Reply(r, Filtered(500, "none"), "exception")
    /\ UNCHANGED vars

(* A version of ReadyEnds in which a check that fails rejects the probe.    *)
ReadyEndsThrowing(r) ==
    /\ stage[r] = "handler" /\ route[r] = "ready"
    /\ \/ Reply(r, Ok("none"), "result")
       \/ Reply(r, Filtered(500, "none"), "down")
    /\ UNCHANGED vars

(* The body of a failed readiness probe has no field success: the filter    *)
(* puts a code in its place.                                                *)
ReadyEnds(r) ==
    /\ stage[r] = "handler" /\ route[r] = "ready"
    /\ \/ Reply(r, Ok("none"), "result")
       \/ Reply(r, Filtered(503, "none"), "down")
    /\ UNCHANGED vars

(* GET /health answers a constant; GET /metrics does not fail when Redis    *)
(* does.                                                                    *)
OtherEnds(r) ==
    /\ stage[r] = "handler" /\ route[r] \in {"health", "metrics"}
    /\ Reply(r, Ok("none"), "result")
    /\ UNCHANGED vars

HandlerEnds(r) == AuditEnds(r) \/ ReadyEnds(r) \/ OtherEnds(r)

(* Redis, without regard to requests. *)
Second == Tick /\ UNCHANGED <<stage, route, valid, cause, answer>>
Eviction == Evict /\ UNCHANGED <<stage, route, valid, cause, answer>>

PipelineNext ==
    \/ \E r \in Requests :
          Turn(r) \/ Receive(r) \/ GuardCounts(r) \/ GuardDecides(r) \/ HandlerEnds(r)
    \/ Second
    \/ Eviction

PipelineSpec == PipelineInit /\ [][PipelineNext]_pipelineVars

(* The clock runs, pipelines are answered and handlers end (AuditFlow shows *)
(* that of the audit), and not every EXPIRE is lost.                        *)
PipelineFairSpec ==
    /\ PipelineSpec
    /\ WF_pipelineVars(Second)
    /\ \A r \in Requests :
          /\ WF_pipelineVars(GuardCounts(r))
          /\ WF_pipelineVars(GuardDecides(r))
          /\ SF_pipelineVars(GuardDecides(r) /\ Decide(r))
          /\ WF_pipelineVars(HandlerEnds(r))

-----------------------------------------------------------------------------
(* The types, with those of the limiter. *)
PipelineTypeOK ==
    /\ TypeOK
    /\ stage \in [Requests -> {"idle", "guard", "handler", "answered"}]
    /\ route \in [Requests -> Routes \cup {"none"}]
    /\ valid \in [Requests -> BOOLEAN]
    /\ \A r \in Requests : stage[r] \in {"guard", "handler"} <=> route[r] # "none"
    /\ \A r \in Requests : at[r] = "counted" => stage[r] = "guard"
    /\ \A r \in Requests : answer[r] # NoAnswer <=> stage[r] = "answered"

(* Causes that filter and framework give the same answer: 400 does not say  *)
(* whether body or path is at fault, and 500 not even whether the request   *)
(* or the service is.                                                       *)
Alike == { {"badBody", "badPath"}, {"unparsed", "exception"} }

(* Answers look alike, by status and code, exactly if they have the same    *)
(* cause or one of these two pairs: in every other case what filter, guard, *)
(* pipe and controller make of their errors can be told apart               *)
(* (global-exception.filter.ts:74, audit.controller.ts:76), although a full *)
(* queue and a passed deadline are answered with status 200, and a bad body *)
(* is the same to the client whether parser or pipe finds it.               *)
AnswersTellCauses ==
    \A q, r \in Requests :
        answer[q] = answer[r] <=> cause[q] = cause[r] \/ {cause[q], cause[r]} \in Alike

(* Every request is answered, whatever the limiter's pipelines do. *)
RequestEnds == \A r \in Requests : stage[r] = "guard" ~> stage[r] = "answered"

(* health.controller.ts:10: a process that is alive says so, whenever a     *)
(* probe asks for /api/v1/health.                                           *)
LivenessAnswers ==
    [][\A r \in Requests :
          route[r] = "health" /\ stage'[r] = "answered" => answer'[r].status = 200]_pipelineVars
=============================================================================
