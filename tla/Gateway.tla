------------------------------ MODULE Gateway ------------------------------
(***************************************************************************)
(* The whole path of a request: the middleware stack outside, the pool of  *)
(* its worker process inside, and one contended row of the database.       *)
(*                                                                         *)
(* A handler takes a connection with its first statement and keeps it, over *)
(* hashing, Redis calls and row locks, until get_session has committed or  *)
(* rolled back; only then is the answer on its way.  get_session is cached *)
(* per request, so all dependencies of a handler share one connection.     *)
(***************************************************************************)
EXTENDS RequestPipeline

CONSTANTS
    Size, Overflow,
    Kinds,         \* Kinds[r]: what there may be about request r, sets of traits
    Mortal,        \* processes that may be killed
    Nobody

VARIABLES
    conn, opened, idle, stale,
    lock,          \* the request whose transaction has updated the row
    queue,         \* requests that wait for the row
    touched        \* history: requests that have asked for a connection

Pool == INSTANCE ConnectionPool

poolVars == <<conn, opened, idle, stale>>
rowVars  == <<lock, queue>>
vars == <<pipeVars, poolVars, rowVars, touched>>

ASSUME Names == Nowhere \notin Worker /\ Nobody \notin Req
ASSUME Sizes == Size \in Nat \ {0} /\ Overflow \in Nat
ASSUME Bounds == Kinds \in [Req -> SUBSET SUBSET Trait] /\ Mortal \subseteq Worker
ASSUME Finite == IsFiniteSet(Req) /\ IsFiniteSet(Worker)

TypeOK ==
    /\ stage \in [Req -> Stage]
    /\ kind \in [Req -> SUBSET Trait]
    /\ worker \in [Req -> Worker \cup {Nowhere}]
    /\ up \subseteq Worker
    /\ inside \in [Req -> SUBSET Layer]
    /\ status \in [Req -> Status]
    /\ through \in [Req -> SUBSET Layer]
    /\ gauge \in [Worker -> Nat]
    /\ counted \in [Status -> Nat]
    /\ blocked \in Nat
    /\ charged \subseteq Req
    /\ conn \in [Req -> Pool!Conn]
    /\ opened \in [Worker -> 0..Size + Overflow]
    /\ idle \in [Worker -> 0..Size]
    /\ stale \in [Worker -> 0..Size]
    /\ lock \in Req \cup {Nobody}
    /\ queue \subseteq Req
    /\ touched \subseteq Req

Init ==
    /\ stage = [r \in Req |-> "idle"] /\ kind = [r \in Req |-> {}]
    /\ worker = [r \in Req |-> Nowhere] /\ up = Worker
    /\ inside = [r \in Req |-> {}] /\ through = [r \in Req |-> {}]
    /\ status = [r \in Req |-> "none"]
    /\ gauge = [w \in Worker |-> 0]
    /\ counted = [s \in Status |-> 0] /\ blocked = 0 /\ charged = {}
    /\ conn = [r \in Req |-> "no"]
    /\ opened = [w \in Worker |-> 0]
    /\ idle = [w \in Worker |-> 0] /\ stale = [w \in Worker |-> 0]
    /\ lock = Nobody /\ queue = {} /\ touched = {}

-----------------------------------------------------------------------------
(* Layers that do without the database. *)
Outer(r) ==
    /\ Pass(r) \/ Block(r) \/ Leave(r)
    /\ UNCHANGED <<poolVars, rowVars, touched>>

Receive(r, w, k) ==
    /\ Arrive(r, w, k)
    /\ UNCHANGED <<poolVars, rowVars, touched>>

(* /metrics and /health, and what is refused before the first statement: a  *)
(* body the schema refuses, a token that does not decode.                   *)
AnswerDirectly(r) ==
    /\ r \notin touched
    /\ Answer(r, IF kind[r] = {} THEN "unauthorized" ELSE "ok")
    /\ UNCHANGED <<poolVars, rowVars, touched>>

-----------------------------------------------------------------------------
(* The first statement of the handler. *)
Ask(r) ==
    /\ stage[r] = "app" /\ kind[r] = {} /\ r \notin touched
    /\ Pool!Ask(r, worker[r])
    /\ touched' = touched \cup {r}
    /\ UNCHANGED <<pipeVars, rowVars>>

Obtain(r) ==
    /\ \/ conn[r] = "wait" /\ Pool!Take(r, worker[r])
       \/ Pool!LateRoom(r, worker[r])
       \/ Pool!Connected(r)
    /\ UNCHANGED <<pipeVars, rowVars, touched>>

(* TimeoutError of the pool, or an error of the driver, is answered 500.    *)
Unobtainable(r) ==
    /\ Pool!GiveUp(r, worker[r]) \/ Pool!ConnectFails(r, worker[r])
    /\ Raise(r)
    /\ UNCHANGED <<rowVars, touched>>

(* An UPDATE of the row: at once, or after the transaction that has it.     *)
UpdateRowAgain(r) ==
    /\ conn[r] = "good" /\ r \notin queue
    /\ IF lock = Nobody THEN lock' = r /\ UNCHANGED queue
                        ELSE queue' = queue \cup {r} /\ UNCHANGED lock
    /\ UNCHANGED <<pipeVars, poolVars, touched>>
UpdateRow(r) ==
    /\ conn[r] = "good" /\ r \notin queue /\ lock # r
    /\ IF lock = Nobody THEN lock' = r /\ UNCHANGED queue
                        ELSE queue' = queue \cup {r} /\ UNCHANGED lock
    /\ UNCHANGED <<pipeVars, poolVars, touched>>

GrantRow(r) ==
    /\ r \in queue /\ conn[r] = "good" /\ lock = Nobody
    /\ lock' = r /\ queue' = queue \ {r}
    /\ UNCHANGED <<pipeVars, poolVars, touched>>

(* get_session at the end of the handler. *)
FreeRowNever(r) == UNCHANGED rowVars
FreeRow(r) ==
    /\ lock' = IF lock = r THEN Nobody ELSE lock
    /\ queue' = queue \ {r}

Close(r) ==
    /\ Pool!GiveBack(r, worker[r])
    /\ FreeRow(r)
    /\ UNCHANGED touched

Commit(r) ==
    /\ conn[r] = "good" /\ r \notin queue
    /\ Answer(r, "ok") /\ Close(r)

(* An HTTPException: rollback, and its answer. *)
Refuse(r) ==
    /\ conn[r] = "good" /\ r \notin queue
    /\ Answer(r, "unauthorized") /\ Close(r)

(* Any other exception; a statement on a dead connection raises one, and so *)
(* does its rollback.                                                       *)
Fail(r) ==
    /\ r \notin queue \/ conn[r] = "dead"
    /\ Raise(r) /\ Close(r)

-----------------------------------------------------------------------------
(* A worker process is killed; the server rolls its transactions back.      *)
Kill(w) ==
    LET gone == Served(w) IN
    /\ Die(w)
    /\ Pool!Vanish(w, gone)
    /\ lock' = IF lock \in gone THEN Nobody ELSE lock
    /\ queue' = queue \ gone
    /\ UNCHANGED touched

(* The database restarts: transactions are gone, and with them their locks. *)
RestartDatabase ==
    /\ Pool!Restart
    /\ lock' = Nobody
    /\ UNCHANGED <<pipeVars, queue, touched>>

Handler(r) ==
    \/ Outer(r)
    \/ AnswerDirectly(r)
    \/ Ask(r)
    \/ Obtain(r)
    \/ Unobtainable(r)
    \/ UpdateRow(r)
    \/ GrantRow(r)
    \/ Commit(r)
    \/ Refuse(r)
    \/ Fail(r)

Next ==
    \/ \E r \in Req :
           \/ \E w \in Worker, k \in Kinds[r] : Receive(r, w, k)
           \/ Handler(r)
    \/ \E w \in Mortal : Kill(w)
    \/ RestartDatabase

Spec == Init /\ [][Next]_vars

(* Workers go on with the requests they have accepted, and the pool's       *)
(* time-out comes; nobody has to send a request, and nothing has to fail.   *)
FairSpec == Spec /\ \A r \in Req : WF_vars(Handler(r))
-----------------------------------------------------------------------------
(* Requests a process has on their way through MetricsMiddleware; those it  *)
(* was killed with count for ever.                                          *)
InFlight(w) == {r \in Req : worker[r] = w /\ Measured(inside[r], kind[r])}

(* active_connections is the number of requests in flight: what was         *)
(* incremented is decremented once, whether the request is answered by a    *)
(* layer, by the application or leaves with an exception (metrics.py:46).   *)
(* Only a killed process leaves a remainder, in the file of its pid.        *)
GaugeExact == \A w \in Worker : gauge[w] = Cardinality(InFlight(w))

(* Requests whose layers include MetricsMiddleware. *)
Measurable == {r \in Req : kind[r] \cap {"preflight", "bad_host", "scrape"} = {}}

(* http_requests_total and the limiter's own counter tell one story         *)
(* (main.py:131, "Metrics is outside RateLimit so blocked requests are      *)
(* still counted"): each request that an answer leaves the stack for is     *)
(* counted once under its status, and the requests refused by the limiter   *)
(* that are not counted yet are on their way or were lost.  The 500s that   *)
(* an exception ends in are ErrorsPassTheLayers.                            *)
DoneWith(s) == {r \in Measurable : stage[r] = "done" /\ status[r] = s}
CountersAgree ==
    /\ \A s \in Status \ {"error"} : counted[s] = Cardinality(DoneWith(s))
    /\ blocked = counted["too_many"] + Cardinality(
           {r \in Req : status[r] = "too_many" /\ stage[r] \in {"answer", "lost"}})

(* "Add comprehensive security headers to all HTTP responses",              *)
(* docs/security-decisions.md:109, and "Records request count [...] for     *)
(* every HTTP request except the /metrics endpoint itself",                 *)
(* middleware/metrics.py:4, of the 500 of general_exception_handler.        *)
ErrorsPassTheLayers ==
    /\ \A r \in Req : stage[r] = "done" /\ status[r] = "error" => "headers" \in through[r]
    /\ counted["error"] = Cardinality(DoneWith("error"))

(* Every call is charged before anything is done for it: who gets past the  *)
(* limiter's place in the stack, also to be refused by                      *)
(* RequestValidationMiddleware, has been put to it, unless the path is      *)
(* exempt; and nobody pays for what CORS and TrustedHost turn away          *)
(* (main.py:143-153).                                                       *)
Exempt == {"preflight", "scrape", "probe"}
CallsAreCharged ==
    \A r \in Req :
        /\ stage[r] \in {"app", "answer", "raise", "done"} =>
               (r \in charged <=> kind[r] \cap (Exempt \cup {"bad_host"}) = {})
        /\ r \in touched => r \in charged

-----------------------------------------------------------------------------
InUse(w) == {r \in Req : worker[r] = w /\ conn[r] \in Pool!Taking}

(* The pool's books: what it has opened is in its queue or with a request   *)
(* under way, never more than pool_size and max_overflow; a request that    *)
(* has ended holds neither connection nor row (get_session, session.py:80). *)
PoolExact ==
    /\ \A w \in Worker :
           /\ opened[w] = idle[w] + stale[w] + Cardinality(InUse(w))
           /\ opened[w] <= Size + Overflow
           /\ idle[w] + stale[w] <= Size
    /\ \A r \in Req :
           /\ conn[r] # "no" => stage[r] = "app" /\ kind[r] = {}
           /\ lock = r => conn[r] = "good"
           /\ r \in queue => conn[r] \in {"good", "dead"} /\ lock # r

(* A request under way that needs nothing another request has. *)
Runs(r) == conn[r] \in Pool!Taking /\ r \notin queue

(* Holding a connection while waiting for a row, and waiting for a          *)
(* connection, never close a circle: for a request that waits for the pool  *)
(* there is a connection, room for one, or a request of its process that    *)
(* has one and runs; or all of them wait for a row that is free or whose    *)
(* holder, in whatever process, runs.                                       *)
WaitersHaveHope ==
    \A r \in Req : conn[r] = "wait" =>
        LET w == worker[r] IN
        \/ ~Pool!Empty(w)
        \/ Pool!Room(w)
        \/ \E q \in InUse(w) : Runs(q)
        \/ InUse(w) # {} /\ (lock = Nobody \/ Runs(lock))

(* pool_pre_ping: a handler never starts on a connection whose server side  *)
(* is gone, however long it waited and whatever restarted meanwhile; a      *)
(* connection can only die in its hands (session.py:45).                    *)
FreshConnections ==
    [][\A r \in Req : conn[r] \notin {"good", "dead"} => conn'[r] # "dead"]_vars

(* No request goes round in circles: with every step of its own it comes    *)
(* nearer to its end, through pool, row and layers, and nothing another     *)
(* request, a kill or a restart does sets it back (no retries in            *)
(* get_session and the pool but the one look after the time-out).           *)
Ahead(r) ==
    CASE stage[r] = "idle"  -> 10
      [] stage[r] = "limit" -> 9
      [] stage[r] = "app" /\ conn[r] = "no" -> 8
      [] stage[r] = "app" /\ conn[r] = "wait" -> 7
      [] stage[r] = "app" /\ conn[r] \in {"connect", "reconnect"} -> 6
      [] stage[r] = "app" /\ conn[r] = "good" ->
             IF lock = r THEN 3 ELSE IF r \in queue THEN 4 ELSE 5
      [] stage[r] = "app" /\ conn[r] = "dead" -> 2
      [] stage[r] \in {"answer", "raise"} -> 1
      [] stage[r] \in {"done", "lost"} -> 0
StepsRunOut ==
    [][\A r \in Req : /\ Ahead(r)' <= Ahead(r)
                      /\ Handler(r) => Ahead(r)' < Ahead(r)]_vars

(* Every request that arrives is answered, or lost with its process: the    *)
(* wait for a connection ends with the pool's time-out, and the wait for a  *)
(* row with the holder's commit, rollback or death.  (A request's name is   *)
(* used once, so this is: in the end no request is under way.)              *)
EveryCallEnds == <>[](\A r \in Req : stage[r] \in {"idle", "done", "lost"})
=============================================================================
