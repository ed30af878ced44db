-------------------------- MODULE RequestPipeline --------------------------
(***************************************************************************)
(* The middleware stack of main.py: which layer answers a request, which   *)
(* layers the answer passes on its way out, and the gauge and the counters *)
(* that MetricsMiddleware and the limiter keep.                            *)
(*                                                                         *)
(* A layer that neither answers nor counts is passed without a step.  The  *)
(* actions here are steps of the requests in Gateway, which says when the  *)
(* application answers.                                                    *)
(***************************************************************************)
EXTENDS Naturals, FiniteSets

CONSTANTS
    Req,           \* requests, each used once
    Worker,        \* worker processes, named by their pid
    Nowhere

VARIABLES
    stage,         \* where the request stands
    kind,          \* what there is about it: a set of traits
    worker,        \* the process that serves it
    up,            \* processes that are alive
    inside,        \* the layers that wait for call_next
    status,        \* the status of its answer
    through,       \* the layers the answer has passed
    gauge,         \* active_connections of each process
    counted,       \* http_requests_total of all processes, by status
    blocked,       \* rate_limit_blocked_total of all processes
    charged        \* requests the limiter has been asked about

Stage  == {"idle", "limit", "app", "answer", "raise", "done", "lost"}
(* unauthorized: any refusal by the application. *)
Status == {"none", "ok", "unauthorized", "bad_request", "too_many", "error"}

(* preflight: OPTIONS from an allowed origin.  bad_host: not in             *)
(* ALLOWED_HOSTS.  invalid: too large, or a suspicious path.  scrape:       *)
(* /metrics, probe: another exempt path.  A request without a trait is a    *)
(* call of the API.                                                         *)
Trait == {"preflight", "bad_host", "invalid", "scrape", "probe"}

pipeVars == <<stage, kind, worker, up, inside, status, through, gauge, counted,
              blocked, charged>>

-----------------------------------------------------------------------------
(* add_middleware, in the order of main.py: the last one is the outermost.  *)
AddedLimitLate ==
    <<"headers", "validation", "logging", "metrics", "limit", "host", "cors">>
AddedValidationLate ==
    <<"headers", "logging", "limit", "validation", "metrics", "host", "cors">>
Added ==
    <<"headers", "validation", "logging", "limit", "metrics", "host", "cors">>
Layer == {Added[i] : i \in 1..7}
Outside ==
    [l \in Layer \cup {"app"} |->
        IF l = "app" THEN Layer
        ELSE {m \in Layer : \E i, j \in 1..7 : i < j /\ Added[i] = l /\ Added[j] = m}]

(* A layer that answers such a request itself. *)
Answers(l, k) ==
    \/ l = "cors" /\ "preflight" \in k
    \/ l = "host" /\ "bad_host" \in k
    \/ l = "validation" /\ "invalid" \in k

(* Where a request stops: at the outermost layer that answers it. *)
Stop ==
    [k \in SUBSET Trait |->
        IF \A l \in Layer : ~Answers(l, k) THEN "app"
        ELSE CHOOSE l \in Layer :
                Answers(l, k) /\ \A m \in Outside[l] : ~Answers(m, k)]

(* RateLimitMiddleware lets OPTIONS and the exempt paths pass. *)
Limited(k) == "limit" \in Outside[Stop[k]] /\ k \cap {"preflight", "scrape", "probe"} = {}

(* MetricsMiddleware leaves its own endpoint out. *)
Measured(layers, k) == "metrics" \in layers /\ "scrape" \notin k

OwnStatus(l) == IF l = "cors" THEN "ok" ELSE "bad_request"

-----------------------------------------------------------------------------
(* The request passes inwards to layer l, which answers it unless it is the *)
(* limiter or the application.                                              *)
Descend(r, w, k, l) ==
    /\ inside' = [inside EXCEPT ![r] = Outside[l]]
    /\ gauge' = IF Measured(Outside[l], k) /\ ~Measured(inside[r], k)
                THEN [gauge EXCEPT ![w] = @ + 1] ELSE gauge
    /\ stage' = [stage EXCEPT ![r] = IF l \in {"limit", "app"} THEN l ELSE "answer"]
    /\ status' = [status EXCEPT ![r] = IF l \in {"limit", "app"} THEN "none" ELSE OwnStatus(l)]

Arrive(r, w, k) ==
    /\ stage[r] = "idle" /\ w \in up
    /\ kind' = [kind EXCEPT ![r] = k]
    /\ worker' = [worker EXCEPT ![r] = w]
    /\ Descend(r, w, k, IF Limited(k) THEN "limit" ELSE Stop[k])
    /\ UNCHANGED <<up, through, counted, blocked, charged>>

(* The limiter's verdict.  It also lets pass what it could not count.       *)
Pass(r) ==
    /\ stage[r] = "limit"
    /\ charged' = charged \cup {r}
    /\ Descend(r, worker[r], kind[r], Stop[kind[r]])
    /\ UNCHANGED <<kind, worker, up, through, counted, blocked>>

Block(r) ==
    /\ stage[r] = "limit"
    /\ charged' = charged \cup {r}
    /\ blocked' = blocked + 1
    /\ status' = [status EXCEPT ![r] = "too_many"]
    /\ stage' = [stage EXCEPT ![r] = "answer"]
    /\ UNCHANGED <<kind, worker, up, inside, through, gauge, counted>>

(* The application answers; an HTTPException is an answer made inside all   *)
(* layers, any other exception leaves through them.                         *)
Answer(r, s) ==
    /\ stage[r] = "app"
    /\ stage' = [stage EXCEPT ![r] = "answer"]
    /\ status' = [status EXCEPT ![r] = s]
    /\ UNCHANGED <<kind, worker, up, inside, through, gauge, counted, blocked, charged>>

Raise(r) ==
    /\ stage[r] = "app"
    /\ stage' = [stage EXCEPT ![r] = "raise"]
    /\ status' = [status EXCEPT ![r] = "error"]
    /\ UNCHANGED <<kind, worker, up, inside, through, gauge, counted, blocked, charged>>

(* The gauge goes down whichever way the request leaves. *)
ReleaseOnAnswer(r) ==
    gauge' = IF Measured(inside[r], kind[r]) /\ stage[r] = "answer"
             THEN [gauge EXCEPT ![worker[r]] = @ - 1] ELSE gauge
Release(r) ==
    gauge' = IF Measured(inside[r], kind[r])
             THEN [gauge EXCEPT ![worker[r]] = @ - 1] ELSE gauge

(* An answer is counted on its way out, an exception is not. *)
Counts(r) == Measured(inside[r], kind[r]) /\ stage[r] = "answer"

(* The outer end: the answer of a layer or the application has passed what  *)
(* lies outside; after an exception ServerErrorMiddleware, outside of all,  *)
(* calls general_exception_handler.                                         *)
Leave(r) ==
    /\ stage[r] \in {"answer", "raise"}
    /\ stage' = [stage EXCEPT ![r] = "done"]
    /\ through' = [through EXCEPT ![r] = IF stage[r] = "answer" THEN inside[r] ELSE {}]
    /\ inside' = [inside EXCEPT ![r] = {}]
    /\ Release(r)
    /\ counted' = IF Counts(r) THEN [counted EXCEPT ![status[r]] = @ + 1] ELSE counted
    /\ UNCHANGED <<kind, worker, up, status, blocked, charged>>

(* A process dies with the requests it serves.  Its files in                *)
(* prometheus_multiproc_dir stay: the counters go on from their values, and *)
(* nobody takes its gauge out of /metrics.                                  *)
Served(w) == {r \in Req : worker[r] = w /\ stage[r] \notin {"idle", "done", "lost"}}
Die(w) ==
    /\ w \in up
    /\ up' = up \ {w}
    /\ stage' = [r \in Req |-> IF r \in Served(w) THEN "lost" ELSE stage[r]]
    /\ UNCHANGED <<kind, worker, inside, status, through, gauge, counted, blocked, charged>>
=============================================================================
