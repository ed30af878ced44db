------------------------- MODULE RateLimiterInvariant -------------------------
(***************************************************************************)
(* The inductive invariant behind the theorems of RateLimiter.             *)
(***************************************************************************)
EXTENDS RateLimiter

Counted(r) == num[r] > 0

(* Time and place of a request: one that waits for Redis is within Delay of *)
(* the second it read, and only one that Redis has counted has a number.    *)
Placed(r) ==
    /\ pc[r] \in InFlight => now[r] <= clock /\ clock <= now[r] + Delay
    /\ pc[r] = "idle" => client[r] = Nobody
    /\ pc[r] \in {"idle", "incr"} => num[r] = 0
    /\ pc[r] \in InFlight \/ Counted(r) => client[r] \in Client
    /\ pc[r] \in {"expire", "allowed", "refused"} => Counted(r)
    /\ pc[r] = "idle" => r \notin retried
    /\ pc[r] = "allowed" => num[r] <= Limit(client[r])
    /\ pc[r] = "refused" => num[r] > Limit(client[r])

(* A deadline lies beyond the last second at which a request of the window  *)
(* can still reach Redis.                                                   *)
Lasting(k) == deadline[k] # Never => k[2] + 2 * W <= deadline[k]

(* The number of a request counts in the counter it was given by, for as    *)
(* long as that counter can still be incremented.                           *)
Numbered(r) ==
    Counted(r) =>
        /\ era[r] <= evicted[KeyOf(r)]
        /\ era[r] = evicted[KeyOf(r)] =>
               \/ num[r] <= count[KeyOf(r)]
               \/ WindowStart(now[r]) + 2 * W <= clock

(* Redis gives no number twice before it evicts the counter. *)
Distinct ==
    \A r, q \in Req :
        /\ r # q /\ Counted(r) /\ Counted(q)
        /\ KeyOf(r) = KeyOf(q) /\ era[r] = era[q]
        => num[r] # num[q]

IInv == /\ TypeOK
        /\ \A r \in Req : Placed(r) /\ Numbered(r)
        /\ \A k \in Key : Lasting(k)
        /\ Distinct

(* What the requests have spent on a counter: one INCR each, two when the   *)
(* first was repeated.                                                      *)
Spends(r, i) ==
    /\ pc[r] # "idle"
    /\ i = 1 => r \in retried \/ pc[r] # "incr"
    /\ i = 2 => r \in retried /\ pc[r] # "incr"
Spent(k) == {x \in Req \X {1, 2} : KeyOf(x[1]) = k /\ Spends(x[1], x[2])}

(* Counters and numbers never exceed what the requests have spent. *)
Charged ==
    /\ \A k \in Key : count[k] <= Cardinality(Spent(k))
    /\ \A r \in Req : Counted(r) => num[r] <= Cardinality(Spent(KeyOf(r)))
=============================================================================
