----------------------------- MODULE RateLimiter -----------------------------
(***************************************************************************)
(* RateLimitMiddleware and RateLimiter: a fixed window counter in Redis.   *)
(*                                                                         *)
(* A request reads the clock, which names the key, and then sends INCR and *)
(* perhaps EXPIRE: two round trips, between which any other request of any *)
(* worker runs, time passes, and Redis may fail, lose a reply or evict the *)
(* key.  The client repeats a command that times out once                  *)
(* (retry_on_timeout), whether or not Redis had executed it.               *)
(*                                                                         *)
(* Mutants of a definition stand before it, as in AuthSessions.            *)
(***************************************************************************)
EXTENDS Integers, FiniteSets

CONSTANTS
    Ip, User,      \* clients without and with a valid access token
    Req,           \* requests, each used once
    IpLimit,       \* rate_limit_default
    UserLimit,     \* rate_limit_per_user
    W,             \* rate_limit_window_seconds
    Delay,         \* seconds a check may take, timeouts and retries included
    Evictions,     \* Evictions[k]: how often Redis may evict a key
    Busy,          \* the seconds in which requests may arrive
    Horizon        \* the last second of the behaviour

Client == Ip \cup User

Nobody == "nobody"

ASSUME Clients   == Ip \cap User = {} /\ Nobody \notin Client
ASSUME Requests  == IsFiniteSet(Req)
ASSUME Limits    == IpLimit \in Nat /\ UserLimit \in Nat
ASSUME WindowPos == W \in Nat \ {0} /\ Horizon \in Nat
(* Two timeouts of socket_connect_timeout plus socket_timeout make 20 s for *)
(* a command, 40 s for INCR and EXPIRE, against a window of 60 s.           *)
ASSUME Prompt    == Delay \in 0..W

Second == 0..Horizon
Never  == -1

(* Counters are named by the client and the second their window starts.     *)
WindowStartNever(n) == 0
WindowStart(n) == n - (n % W)
Starts == {WindowStart(n) : n \in Second}
Key    == Client \X Starts

ASSUME Evicting == Evictions \in [Key -> Nat]
ASSUME Arriving == Busy \subseteq Second

VARIABLES
    clock,         \* the wall clock, shared by the workers
    count,         \* count[k]: the counter, 0 when Redis has no such key
    deadline,      \* deadline[k]: when the key goes, or Never
    pc,            \* where each request stands, or how it ended
    client,        \* whom the request is counted for
    now,           \* the clock as the request read it
    retried,       \* requests whose INCR has timed out once
    num,           \* the reply of INCR
    evicted,       \* history: how often Redis has evicted the key
    era            \* history: evicted[k] when the request was counted

redis == <<count, deadline>>
vars  == <<clock, redis, pc, client, now, retried, num, evicted, era>>

InFlight == {"incr", "expire"}
Ended    == {"allowed", "refused", "unchecked"}

TypeOK ==
    /\ clock \in Second
    /\ count \in [Key -> Nat]
    /\ deadline \in [Key -> Nat \cup {Never}]
    /\ pc \in [Req -> {"idle"} \cup InFlight \cup Ended]
    /\ client \in [Req -> Client \cup {Nobody}]
    /\ now \in [Req -> Second]
    /\ retried \in SUBSET Req
    /\ num \in [Req -> Nat]
    /\ evicted \in [Key -> Nat]
    /\ era \in [Req -> Nat]

Init ==
    /\ clock = 0
    /\ count = [k \in Key |-> 0] /\ deadline = [k \in Key |-> Never]
    /\ pc = [r \in Req |-> "idle"]
    /\ client = [r \in Req |-> Nobody]
    /\ now = [r \in Req |-> 0] /\ retried = {}
    /\ num = [r \in Req |-> 0]
    /\ evicted = [k \in Key |-> 0] /\ era = [r \in Req |-> 0]

-----------------------------------------------------------------------------
ResetAtStart(n) == WindowStart(n)
ResetAt(n) == WindowStart(n) + W

KeyOf(r) == <<client[r], WindowStart(now[r])>>
Limit(c) == IF c \in User THEN UserLimit ELSE IpLimit

(* retry_after, the Retry-After header of a 429. *)
RetryAfter(n) == IF ResetAt(n) > n THEN ResetAt(n) - n ELSE 0

(* current_count <= limit *)
WithinOffByOne(r, n) == n <= Limit(client[r]) + 1
Within(r, n) == n <= Limit(client[r])

(* The EXPIRE that follows the INCR that created the key. *)
CreatesSecond(n) == n = 2
Creates(n) == n = 1
TtlOneWindow == W
Ttl == 2 * W

Goto(r, l) == pc' = [pc EXCEPT ![r] = l]

-----------------------------------------------------------------------------
(* check_rate_limit reads the clock and names the key. *)
Arrive(r, c) ==
    /\ pc[r] = "idle" /\ clock \in Busy
    /\ Goto(r, "incr")
    /\ client' = [client EXCEPT ![r] = c]
    /\ now' = [now EXCEPT ![r] = clock]
    /\ UNCHANGED <<clock, redis, retried, num, evicted, era>>

(* OPTIONS, an exempt path, no limiter yet, the limiter switched off, or a  *)
(* client without an address.                                               *)
Bypass(r) ==
    /\ pc[r] = "idle"
    /\ Goto(r, "unchecked")
    /\ UNCHANGED <<clock, redis, client, now, retried, num, evicted, era>>

Bump(r) == count' = [count EXCEPT ![KeyOf(r)] = @ + 1]

(* The request goes on to the application, or is answered 429. *)
Verdict(r, n) == Goto(r, IF Within(r, n) THEN "allowed" ELSE "refused")

Incr(r) ==
    /\ pc[r] = "incr"
    /\ Bump(r)
    /\ LET n == count[KeyOf(r)] + 1
       IN  /\ num' = [num EXCEPT ![r] = n]
           /\ IF Creates(n) THEN Goto(r, "expire") ELSE Verdict(r, n)
    /\ era' = [era EXCEPT ![r] = evicted[KeyOf(r)]]
    /\ UNCHANGED <<clock, deadline, client, now, retried, evicted>>

(* No reply in time: INCR is sent again, once.  Redis may have executed the *)
(* first one all the same.                                                  *)
IncrTimeout(r) ==
    /\ pc[r] = "incr" /\ r \notin retried
    /\ Bump(r) \/ UNCHANGED count
    /\ retried' = retried \cup {r}
    /\ UNCHANGED <<clock, deadline, pc, client, now, num, evicted, era>>

(* EXPIRE has no effect on a key that is gone.  A repeated EXPIRE is one    *)
(* that is executed late.                                                   *)
SetDeadline(k) ==
    deadline' = [deadline EXCEPT ![k] = IF count[k] > 0 THEN clock + Ttl ELSE @]

Expire(r) ==
    /\ pc[r] = "expire"
    /\ SetDeadline(KeyOf(r))
    /\ Verdict(r, num[r])
    /\ UNCHANGED <<clock, count, client, now, retried, num, evicted, era>>

(* Any exception lets the request pass: a connection that is refused or     *)
(* breaks, a second timeout.  Redis may have executed the command.  A worker *)
(* that dies leaves the same state, and no answer.                          *)
IncrFails(r) ==
    /\ pc[r] = "incr"
    /\ Goto(r, "unchecked")
    /\ Bump(r) \/ UNCHANGED count
    /\ UNCHANGED <<clock, deadline, client, now, retried, num, evicted, era>>

ExpireFails(r) ==
    /\ pc[r] = "expire"
    /\ Goto(r, "unchecked")
    /\ SetDeadline(KeyOf(r)) \/ UNCHANGED deadline
    /\ UNCHANGED <<clock, count, client, now, retried, num, evicted, era>>

-----------------------------------------------------------------------------
(* Redis drops the key: a counter that comes back starts at 1. *)
Dropped(gone) ==
    /\ count' = [k \in Key |-> IF k \in gone THEN 0 ELSE count[k]]
    /\ deadline' = [k \in Key |-> IF k \in gone THEN Never ELSE deadline[k]]

(* maxmemory-policy allkeys-lru *)
Evict(k) ==
    /\ count[k] > 0 /\ evicted[k] < Evictions[k]
    /\ Dropped({k})
    /\ evicted' = [evicted EXCEPT ![k] = @ + 1]
    /\ UNCHANGED <<clock, pc, client, now, retried, num, era>>

(* A second passes, and keys reach their deadline.  No check outlasts Delay.*)
Tick ==
    /\ clock < Horizon
    /\ \A r \in Req : pc[r] \in InFlight => clock < now[r] + Delay
    /\ clock' = clock + 1
    /\ Dropped({k \in Key : deadline[k] # Never /\ deadline[k] <= clock + 1})
    /\ UNCHANGED <<pc, client, now, retried, num, evicted, era>>

Check(r) ==
    \/ \E c \in Client : Arrive(r, c)
    \/ Bypass(r)
    \/ Incr(r) \/ IncrTimeout(r) \/ IncrFails(r)
    \/ Expire(r) \/ ExpireFails(r)

Next == \/ \E r \in Req : Check(r)
        \/ \E k \in Key : Evict(k)
        \/ Tick

Spec == Init /\ [][Next]_vars

-----------------------------------------------------------------------------
(* Requests of client c that read the clock in the seconds from t to u. *)
During(c, t, u) == {r \in Req : /\ pc[r] # "idle" /\ pc[r] # "unchecked"
                                /\ client[r] = c /\ now[r] \in t..u}
Allowed == {r \in Req : pc[r] = "allowed"}

(* The quota: of the requests that read the clock in one window, Redis lets *)
(* no more through than the limit, plus the limit again for every eviction  *)
(* of the counter.  The counter is never lost to its own deadline while a   *)
(* request of its window may still reach it (_check_window).                *)
WindowQuota ==
    \A c \in Client, t \in Starts :
        Cardinality(Allowed \cap During(c, t, t + W - 1))
            <= Limit(c) * (1 + evicted[<<c, t>>])

(* Windows that follow each other let through at most twice the limit in    *)
(* any W seconds, wherever the seconds lie (_check_window).                 *)
IntervalQuota ==
    \A c \in Client, t \in Second :
        LET s == WindowStart(t)
            lost == evicted[<<c, s>>]
                        + IF s + W \in Starts THEN evicted[<<c, s + W>>] ELSE 0
        IN  Cardinality(Allowed \cap During(c, t, t + W - 1))
                <= Limit(c) * (2 + lost)

(* A client that is refused and waits Retry-After seconds from the answer   *)
(* on finds a new window, and was not made to wait past its start for       *)
(* longer than the check itself had taken (retry_after).                    *)
WaitsRight(r) ==
    LET again == clock + RetryAfter(now[r])
        start == (now[r] \div W + 1) * W
    IN  start <= again /\ again <= start + (clock - now[r])
RetryAfterHonest ==
    [][\A r \in Req : pc[r] # "refused" /\ pc'[r] = "refused" => WaitsRight(r)]_vars

(* A client is refused only when it has used up its limit in this window,   *)
(* where a request whose INCR was repeated may count twice (retry_on_       *)
(* timeout); windows and clients do not charge each other.                  *)
RefusalsEarned ==
    \A r \in Req : pc[r] = "refused" =>
        LET t == (now[r] \div W) * W
            same == {q \in Req : client[q] = client[r] /\ now[q] \in t..(t + W - 1)
                                 /\ pc[q] # "idle"}
        IN  Limit(client[r]) < Cardinality(same) + Cardinality(same \cap retried)

(* A counter without a deadline is about to get one, or a call to Redis or  *)
(* a worker failed: nothing else leaks keys (EXPIRE after the first INCR).  *)
OnlyFailuresLeakKeys ==
    \A k \in Key : count[k] > 0 /\ deadline[k] = Never =>
        \E r \in Req : /\ client[r] = k[1] /\ WindowStart(now[r]) = k[2]
                       /\ \/ pc[r] \in {"expire", "unchecked"}
                          \/ r \in retried

(* The keys in Redis implement the counters of WindowCounter: no deadline,  *)
(* timeout or failure starts a counter again while requests of its window   *)
(* can still reach it, only an eviction does (_check_window).               *)
Over == {k \in Key : k[2] + 2 * W <= clock}
DrawnFrom == [r \in Req |-> IF num[r] > 0 THEN KeyOf(r) ELSE Nobody]
Outcome == [r \in Req |-> IF pc[r] \in Ended THEN pc[r] ELSE "none"]
Counter == INSTANCE WindowCounter WITH
               Window <- Key, Quota <- [k \in Key |-> Limit(k[1])], Nowhere <- Nobody,
               tally <- count, closed <- Over, lost <- evicted,
               place <- DrawnFrom, ticket <- num, outcome <- Outcome
CounterSpec == Counter!Spec

-----------------------------------------------------------------------------
(* "TTL is one window (plus a small grace period) so stale keys are cleaned *)
(* up shortly after the window ends", app/security/rate_limiter.py:94-95,   *)
(* for an INCR whose reply is lost, or an EXPIRE that fails.                *)
StaleKeysGo ==
    \A k \in Key : k[2] + 3 * W + Delay < clock => count[k] = 0

=============================================================================
