-------------------------- MODULE RateLimiterProofs --------------------------
(***************************************************************************)
(* Theorems about RateLimiter, for all clients, limits, windows and delays *)
(* up to a window, and any number of failures and evictions.               *)
(***************************************************************************)
EXTENDS RateLimiterInvariant, FiniteSetTheorems, TLAPS

(* The arithmetic of windows. *)
LEMMA Quotient ==
    ASSUME NEW n \in Nat
    PROVE  /\ n \div W \in Nat /\ n % W \in 0..(W - 1)
           /\ n = W * (n \div W) + (n % W)
BY WindowPos

LEMMA WindowBounds ==
    ASSUME NEW n \in Nat
    PROVE  /\ WindowStart(n) \in Nat
           /\ WindowStart(n) <= n /\ n < WindowStart(n) + W
           /\ WindowStart(n) = (n \div W) * W
<1>1. /\ n \div W \in Nat /\ n % W \in 0..(W - 1)
      /\ n = W * (n \div W) + (n % W)
  BY Quotient
<1>2. W * (n \div W) \in Nat /\ W * (n \div W) = (n \div W) * W
  BY <1>1, WindowPos
<1> QED BY <1>1, <1>2, WindowPos DEF WindowStart

(* All seconds of a window have the same start. *)
LEMMA SameWindow ==
    ASSUME NEW t \in Nat, NEW n \in Nat, WindowStart(t) = t, t <= n, n < t + W
    PROVE  WindowStart(n) = t
<1>1. /\ t \div W \in Nat /\ t = W * (t \div W)
  BY WindowBounds, Quotient, WindowPos DEF WindowStart
<1>2. /\ n \div W \in Nat /\ n % W \in 0..(W - 1)
      /\ n = W * (n \div W) + (n % W)
  BY Quotient
<1>3. n \div W = t \div W
  <2> DEFINE a == n \div W
             b == t \div W
  <2>1. W * a < W * b + W /\ W * b < W * a + W
    BY <1>1, <1>2, WindowPos
  <2>2. a \in Nat /\ b \in Nat
    BY <1>1, <1>2
  <2> HIDE DEF a, b
  <2>3. ASSUME a >= b + 1 PROVE FALSE
    <3>1. W * a >= W * (b + 1)
      BY <2>2, <2>3, WindowPos
    <3>2. W * (b + 1) = W * b + W
      BY <2>2, WindowPos
    <3> QED BY <2>1, <2>2, <3>1, <3>2, WindowPos
  <2>4. ASSUME b >= a + 1 PROVE FALSE
    <3>1. W * b >= W * (a + 1)
      BY <2>2, <2>4, WindowPos
    <3>2. W * (a + 1) = W * a + W
      BY <2>2, WindowPos
    <3> QED BY <2>1, <2>2, <3>1, <3>2, WindowPos
  <2>5. a = b
    BY <2>2, <2>3, <2>4
  <2> QED BY <2>5 DEF a, b
<1>4. (n \div W) * W = W * (t \div W)
  BY <1>1, <1>3, WindowPos
<1> QED BY <1>1, <1>4, WindowBounds

LEMMA StartOfStart ==
    ASSUME NEW t \in Starts
    PROVE  t \in Nat /\ WindowStart(t) = t
<1>1. PICK n \in Second : t = WindowStart(n)
  BY DEF Starts
<1>2. n \in Nat
  BY WindowPos DEF Second
<1>3. t = (n \div W) * W /\ n \div W \in Nat /\ t \in Nat
  BY <1>1, <1>2, WindowBounds, Quotient
<1>4. ((n \div W) * W) % W = 0
  BY <1>3, WindowPos
<1> QED BY <1>3, <1>4 DEF WindowStart

-----------------------------------------------------------------------------
(* Where the key of a request lies, and when Redis can be asked for it. *)
LEMMA KeyOfClient ==
    ASSUME TypeOK, NEW r \in Req, client[r] \in Client
    PROVE  KeyOf(r) \in Key
BY DEF TypeOK, KeyOf, Key, Starts

LEMMA InTime ==
    ASSUME IInv, NEW r \in Req, pc[r] \in InFlight
    PROVE  /\ KeyOf(r) \in Key
           /\ WindowStart(now[r]) \in Nat
           /\ WindowStart(now[r]) <= clock /\ clock < WindowStart(now[r]) + 2 * W
<1>1. /\ client[r] \in Client /\ now[r] \in Nat /\ clock \in Nat
      /\ now[r] <= clock /\ clock <= now[r] + Delay
  BY WindowPos DEF IInv, Placed, TypeOK, Second
<1>2. /\ WindowStart(now[r]) \in Nat
      /\ WindowStart(now[r]) <= now[r] /\ now[r] < WindowStart(now[r]) + W
  BY <1>1, WindowBounds
<1>3. KeyOf(r) \in Key
  BY <1>1, KeyOfClient DEF IInv
<1> QED BY <1>1, <1>2, <1>3, Prompt, WindowPos

LEMMA InitInv == Init => IInv
<1> SUFFICES ASSUME Init PROVE IInv
  OBVIOUS
<1>1. TypeOK
  BY WindowPos DEF Init, TypeOK, Second, Never
<1>2. \A r \in Req : Placed(r) /\ Numbered(r)
  BY DEF Init, Placed, Numbered, Counted, InFlight
<1>3. \A k \in Key : Lasting(k)
  BY DEF Init, Lasting
<1>4. Distinct
  BY DEF Init, Distinct, Counted
<1> QED BY <1>1, <1>2, <1>3, <1>4 DEF IInv

LEMMA TypeStep ==
    ASSUME IInv, [Next]_vars
    PROVE  TypeOK'
<1> USE DEF IInv, TypeOK, InFlight, Ended, Goto, redis
<1>1. ASSUME NEW r \in Req, NEW c \in Client, Arrive(r, c) PROVE TypeOK'
  BY <1>1 DEF Arrive
<1>2. ASSUME NEW r \in Req, Bypass(r) PROVE TypeOK'
  BY <1>2 DEF Bypass
<1>3. ASSUME NEW r \in Req, Incr(r) PROVE TypeOK'
  <2>1. KeyOf(r) \in Key
    BY <1>3, InTime DEF Incr
  <2>2. count[KeyOf(r)] + 1 \in Nat /\ evicted[KeyOf(r)] \in Nat
    BY <2>1
  <2> QED BY <1>3, <2>1, <2>2 DEF Incr, Bump, Verdict
<1>4. ASSUME NEW r \in Req, IncrTimeout(r) \/ IncrFails(r) PROVE TypeOK'
  <2>1. KeyOf(r) \in Key
    BY <1>4, InTime DEF IncrTimeout, IncrFails
  <2> QED BY <1>4, <2>1 DEF IncrTimeout, IncrFails, Bump
<1>5. ASSUME NEW r \in Req, Expire(r) \/ ExpireFails(r) PROVE TypeOK'
  <2>1. KeyOf(r) \in Key
    BY <1>5, InTime DEF Expire, ExpireFails
  <2>2. clock + Ttl \in Nat
    BY WindowPos DEF Ttl, Second
  <2> QED BY <1>5, <2>1, <2>2 DEF Expire, ExpireFails, SetDeadline, Verdict
<1>6. ASSUME NEW k \in Key, Evict(k) PROVE TypeOK'
  BY <1>6 DEF Evict, Dropped
<1>7. CASE Tick
  BY <1>7, WindowPos DEF Tick, Dropped, Second
<1>8. CASE UNCHANGED vars
  BY <1>8 DEF vars
<1> QED BY <1>1, <1>2, <1>3, <1>4, <1>5, <1>6, <1>7, <1>8 DEF Next, Check

(* Arrivals concern a request that Redis has not counted. *)
LEMMA ArriveInv ==
    ASSUME IInv, TypeOK', NEW r \in Req,
           Bypass(r) \/ \E c \in Client : Arrive(r, c)
    PROVE  IInv'
<1> USE DEF IInv, TypeOK, Goto, redis, Arrive, Bypass
<1>1. num[r] = 0 /\ num' = num /\ r \notin retried
  BY DEF Placed
<1>2. \A q \in Req \ {r} : /\ pc'[q] = pc[q] /\ client'[q] = client[q]
                            /\ now'[q] = now[q]
  OBVIOUS
<1>3. ASSUME NEW q \in Req PROVE Placed(q)' /\ Numbered(q)'
  <2>1. CASE q = r
    BY <1>1, <2>1, Prompt, WindowPos DEF Placed, Numbered, Counted, InFlight, Second
  <2>2. CASE q # r
    <3>1. Placed(q) /\ Numbered(q)
      OBVIOUS
    <3> QED BY <1>2, <2>2, <3>1 DEF Placed, Numbered, Counted, KeyOf
  <2> QED BY <2>1, <2>2
<1>4. \A k \in Key : Lasting(k)'
  BY DEF Lasting
<1>5. Distinct'
  BY <1>1, <1>2 DEF Distinct, Counted, KeyOf
<1> QED BY <1>3, <1>4, <1>5

(* INCR gives a number above all those of the same counter. *)
LEMMA IncrInv ==
    ASSUME IInv, TypeOK', NEW r \in Req, Incr(r)
    PROVE  IInv'
<1> DEFINE k == KeyOf(r)
<1> USE DEF IInv, TypeOK, Goto
<1>1. /\ k \in Key /\ pc[r] = "incr" /\ num[r] = 0 /\ client[r] \in Client
      /\ clock < WindowStart(now[r]) + 2 * W
      /\ WindowStart(now[r]) \in Nat /\ clock \in Nat
  BY InTime, WindowPos DEF Incr, Placed, InFlight, Second
<1>2. /\ count[k] \in Nat /\ count' = [count EXCEPT ![k] = count[k] + 1]
      /\ num' = [num EXCEPT ![r] = count[k] + 1]
      /\ era' = [era EXCEPT ![r] = evicted[k]] /\ evicted[k] \in Nat
      /\ UNCHANGED <<clock, deadline, client, now, retried, evicted>>
  BY <1>1 DEF Incr, Bump
<1>3. \A q \in Req : KeyOf(q)' = KeyOf(q)
  BY <1>2 DEF KeyOf
<1>4. ASSUME NEW q \in Req PROVE Placed(q)'
  <2>1. CASE q = r
    <3>1. \/ pc'[r] = "expire"
          \/ pc'[r] = "allowed" /\ count[k] + 1 <= Limit(client[r])
          \/ pc'[r] = "refused" /\ ~(count[k] + 1 <= Limit(client[r]))
      BY <1>1 DEF Incr, Verdict, Within
    <3>2. Limit(client[r]) \in Nat
      BY Limits DEF Limit
    <3>3. num'[r] = count[k] + 1 /\ num'[r] > 0
      BY <1>2
    <3>4. Limit(client[r])' = Limit(client[r])
      BY <1>2 DEF Limit
    <3> QED BY <1>1, <1>2, <2>1, <3>1, <3>2, <3>3, <3>4 DEF Placed, Counted, InFlight
  <2>2. CASE q # r
    <3>1. Placed(q) /\ pc'[q] = pc[q] /\ num'[q] = num[q]
      BY <1>2, <2>2 DEF Incr, Verdict
    <3> QED BY <1>2, <3>1 DEF Placed, Counted, Limit
  <2> QED BY <2>1, <2>2
<1>5. ASSUME NEW q \in Req, Counted(q)' PROVE Numbered(q)'
  <2>1. CASE q = r
    BY <1>1, <1>2, <1>3, <2>1 DEF Numbered
  <2>2. CASE q # r
    <3>1. Numbered(q) /\ Counted(q) /\ num'[q] = num[q] /\ era'[q] = era[q]
      BY <1>2, <1>5, <2>2 DEF Counted
    <3>2. KeyOf(q) \in Key
      BY <3>1, KeyOfClient DEF Placed
    <3>3. count'[KeyOf(q)] >= count[KeyOf(q)] /\ count'[KeyOf(q)] \in Nat
          /\ count[KeyOf(q)] \in Nat /\ num[q] \in Nat
      BY <1>1, <1>2, <3>2
    <3> QED BY <1>2, <1>3, <3>1, <3>3 DEF Numbered
  <2> QED BY <2>1, <2>2
<1>6. \A l \in Key : Lasting(l)'
  BY <1>2 DEF Lasting
<1>7. ASSUME NEW q \in Req \ {r}, Counted(q), KeyOf(q) = k, era[q] = evicted[k]
      PROVE  num[q] < count[k] + 1
  <2>1. WindowStart(now[q]) = WindowStart(now[r])
    BY <1>7 DEF KeyOf
  <2>2. Numbered(q)
    OBVIOUS
  <2>3. num[q] \in Nat /\ num[q] <= count[k]
    BY <1>1, <1>7, <2>1, <2>2, WindowPos DEF Numbered
  <2> QED BY <1>2, <2>3
<1>8. Distinct'
  <2> SUFFICES ASSUME NEW p \in Req, NEW q \in Req, p # q,
                      Counted(p)', Counted(q)', KeyOf(p)' = KeyOf(q)', era'[p] = era'[q]
               PROVE  num'[p] # num'[q]
    BY DEF Distinct
  <2>1. CASE p = r
    <3>1. Counted(q) /\ num'[q] = num[q] /\ era[q] = evicted[k] /\ KeyOf(q) = k
      BY <1>2, <1>3, <2>1 DEF Counted
    <3> QED BY <1>2, <1>7, <2>1, <3>1
  <2>2. CASE q = r
    <3>1. Counted(p) /\ num'[p] = num[p] /\ era[p] = evicted[k] /\ KeyOf(p) = k
      BY <1>2, <1>3, <2>2 DEF Counted
    <3> QED BY <1>2, <1>7, <2>2, <3>1
  <2>3. CASE p # r /\ q # r
    BY <1>2, <1>3, <2>3 DEF Distinct, Counted
  <2> QED BY <2>1, <2>2, <2>3
<1>9. \A q \in Req : Numbered(q)'
  BY <1>5 DEF Numbered
<1> QED BY <1>4, <1>6, <1>8, <1>9

LEMMA TimeoutInv ==
    ASSUME IInv, TypeOK', NEW r \in Req, IncrTimeout(r) \/ IncrFails(r)
    PROVE  IInv'
<1> USE DEF IInv, TypeOK, Goto
<1>1. /\ KeyOf(r) \in Key /\ pc[r] = "incr" /\ num[r] = 0
      /\ count' = [count EXCEPT ![KeyOf(r)] = @ + 1] \/ count' = count
      /\ UNCHANGED <<clock, deadline, client, now, num, evicted, era>>
      /\ pc' = pc \/ pc' = [pc EXCEPT ![r] = "unchecked"]
      /\ retried' \in {retried, retried \cup {r}}
  BY InTime DEF IncrTimeout, IncrFails, Bump, Placed, InFlight
<1>2. ASSUME NEW q \in Req PROVE Placed(q)'
  BY <1>1 DEF Placed, Counted, InFlight, Limit
<1>3. ASSUME NEW q \in Req, Counted(q) PROVE Numbered(q)'
  <2>1. KeyOf(q)' = KeyOf(q) /\ KeyOf(q) \in Key /\ Numbered(q)
    BY <1>1, <1>3, KeyOfClient DEF KeyOf, Placed
  <2>2. count[KeyOf(q)] \in Nat /\ count'[KeyOf(q)] >= count[KeyOf(q)] /\ num[q] \in Nat
        /\ count'[KeyOf(q)] \in Nat
    BY <1>1, <2>1
  <2> QED BY <1>1, <1>3, <2>1, <2>2 DEF Numbered, Counted
<1>4. \A q \in Req : Numbered(q)'
  BY <1>1, <1>3 DEF Numbered, Counted
<1>5. \A k \in Key : Lasting(k)'
  BY <1>1 DEF Lasting
<1>6. Distinct'
  BY <1>1 DEF Distinct, Counted, KeyOf
<1> QED BY <1>2, <1>4, <1>5, <1>6

(* EXPIRE is executed no earlier than the window starts. *)
LEMMA ExpireInv ==
    ASSUME IInv, TypeOK', NEW r \in Req, Expire(r) \/ ExpireFails(r)
    PROVE  IInv'
<1> USE DEF IInv, TypeOK, Goto
<1>1. /\ KeyOf(r) \in Key /\ pc[r] \in InFlight
      /\ WindowStart(now[r]) \in Nat /\ WindowStart(now[r]) <= clock
      /\ UNCHANGED <<clock, count, client, now, retried, num, evicted, era>>
  BY InTime DEF Expire, ExpireFails, InFlight
<1>2. ASSUME NEW q \in Req PROVE Placed(q)'
  <2>1. CASE q = r
    <3>1. \/ pc'[r] = "unchecked"
          \/ pc[r] = "expire" /\ pc'[r] = "allowed" /\ num[r] <= Limit(client[r])
          \/ pc[r] = "expire" /\ pc'[r] = "refused" /\ ~(num[r] <= Limit(client[r]))
      BY DEF Expire, ExpireFails, Verdict, Within
    <3>2. Limit(client[r]) \in Nat /\ num[r] \in Nat /\ Placed(r)
      BY Limits DEF Limit
    <3> QED BY <1>1, <2>1, <3>1, <3>2 DEF Placed, Counted, InFlight, Limit
  <2>2. CASE q # r
    <3>1. Placed(q) /\ pc'[q] = pc[q]
      BY <2>2 DEF Expire, ExpireFails, Verdict
    <3> QED BY <1>1, <3>1 DEF Placed, Counted, Limit
  <2> QED BY <2>1, <2>2
<1>3. \A q \in Req : Numbered(q)'
  BY <1>1 DEF Numbered, Counted, KeyOf
<1>4. ASSUME NEW k \in Key PROVE Lasting(k)'
  <2>1. CASE deadline'[k] = deadline[k]
    BY <2>1 DEF Lasting
  <2>2. CASE deadline'[k] # deadline[k]
    <3>1. k = KeyOf(r) /\ deadline'[k] = clock + Ttl
      BY <1>1, <2>2 DEF Expire, ExpireFails, SetDeadline
    <3>2. k[2] = WindowStart(now[r])
      BY <3>1 DEF KeyOf
    <3> QED BY <1>1, <3>1, <3>2, WindowPos DEF Lasting, Ttl, Second
  <2> QED BY <2>1, <2>2
<1>5. Distinct'
  BY <1>1 DEF Distinct, Counted, KeyOf
<1> QED BY <1>2, <1>3, <1>4, <1>5

(* A number of the evicted counter belongs to an earlier era from now on.   *)
LEMMA EvictInv ==
    ASSUME IInv, TypeOK', NEW k \in Key, Evict(k)
    PROVE  IInv'
<1> USE DEF IInv, TypeOK
<1>1. /\ UNCHANGED <<clock, pc, client, now, retried, num, era>>
      /\ evicted' = [evicted EXCEPT ![k] = @ + 1]
      /\ \A l \in Key : l # k => count'[l] = count[l]
      /\ \A l \in Key : deadline'[l] \in {deadline[l], Never}
  BY DEF Evict, Dropped
<1>2. \A q \in Req : Placed(q)'
  BY <1>1 DEF Placed, Counted, Limit
<1>3. ASSUME NEW q \in Req, Counted(q) PROVE Numbered(q)'
  <2>1. KeyOf(q)' = KeyOf(q) /\ KeyOf(q) \in Key /\ Numbered(q)
    BY <1>1, <1>3, KeyOfClient DEF KeyOf, Placed
  <2>2. era[q] \in Nat /\ evicted[KeyOf(q)] \in Nat /\ era[q] <= evicted[KeyOf(q)]
    BY <1>3, <2>1 DEF Numbered
  <2>3. CASE KeyOf(q) = k
    <3>1. evicted'[KeyOf(q)] = evicted[KeyOf(q)] + 1
      BY <1>1, <2>1, <2>3
    <3> QED BY <1>1, <2>1, <2>2, <3>1 DEF Numbered
  <2>4. CASE KeyOf(q) # k
    BY <1>1, <1>3, <2>1, <2>4 DEF Numbered, Counted
  <2> QED BY <2>3, <2>4
<1>4. \A q \in Req : Numbered(q)'
  BY <1>1, <1>3 DEF Numbered, Counted
<1>5. \A l \in Key : Lasting(l)'
  BY <1>1 DEF Lasting
<1>6. Distinct'
  BY <1>1 DEF Distinct, Counted, KeyOf
<1> QED BY <1>2, <1>4, <1>5, <1>6

(* A counter that reaches its deadline is out of reach of its window. *)
LEMMA TickInv ==
    ASSUME IInv, TypeOK', Tick
    PROVE  IInv'
<1> USE DEF IInv, TypeOK
<1>1. /\ UNCHANGED <<pc, client, now, retried, num, evicted, era>>
      /\ clock' = clock + 1 /\ clock \in Nat
      /\ \A k \in Key : \/ count'[k] = count[k] /\ deadline'[k] = deadline[k]
                       \/ /\ deadline[k] # Never /\ deadline[k] <= clock + 1
                          /\ deadline'[k] = Never
  BY WindowPos DEF Tick, Dropped, Second
<1>2. ASSUME NEW q \in Req PROVE Placed(q)'
  <2>1. Placed(q) /\ now[q] \in Nat /\ (pc[q] \in InFlight => clock < now[q] + Delay)
    BY WindowPos DEF Tick, Second
  <2>2. Delay \in Nat
    BY Prompt, WindowPos
  <2> QED BY <1>1, <2>1, <2>2 DEF Placed, Counted, Limit
<1>3. ASSUME NEW q \in Req, Counted(q) PROVE Numbered(q)'
  <2> DEFINE k == KeyOf(q)
  <2>1. /\ KeyOf(q)' = k /\ k \in Key /\ Numbered(q) /\ k[2] = WindowStart(now[q])
        /\ WindowStart(now[q])' = WindowStart(now[q])
    BY <1>1, <1>3, KeyOfClient DEF KeyOf, Placed, WindowStart
  <2>2. WindowStart(now[q]) \in Nat
    BY WindowBounds, WindowPos DEF Second
  <2>3. CASE count'[k] = count[k]
    BY <1>1, <1>3, <2>1, <2>2, <2>3, WindowPos DEF Numbered, Counted
  <2>4. CASE deadline[k] # Never /\ deadline[k] <= clock + 1
    <3>1. k[2] + 2 * W <= deadline[k] /\ deadline[k] \in Nat
      BY <2>1, <2>4 DEF Lasting
    <3>2. WindowStart(now[q]) + 2 * W <= clock'
      BY <1>1, <2>1, <2>2, <2>4, <3>1, WindowPos
    <3> QED BY <1>1, <1>3, <2>1, <3>2 DEF Numbered, Counted
  <2> QED BY <1>1, <2>1, <2>3, <2>4
<1>4. \A q \in Req : Numbered(q)'
  BY <1>1, <1>3 DEF Numbered, Counted
<1>5. \A k \in Key : Lasting(k)'
  BY <1>1 DEF Lasting
<1>6. Distinct'
  BY <1>1 DEF Distinct, Counted, KeyOf
<1> QED BY <1>2, <1>4, <1>5, <1>6

(* Redis hands out each number of a counter once, and the counter outlives  *)
(* its window, in every reachable state.                                    *)
THEOREM Inductive == Spec => []IInv
<1>1. IInv /\ [Next]_vars => IInv'
  <2> SUFFICES ASSUME IInv, [Next]_vars PROVE IInv'
    OBVIOUS
  <2>1. TypeOK'
    BY TypeStep
  <2>2. CASE UNCHANGED vars
    BY <2>2 DEF vars, redis, IInv, TypeOK, Placed, Numbered, Lasting, Distinct, Counted,
                KeyOf, Limit
  <2>3. CASE Next
    BY <2>1, <2>3, ArriveInv, IncrInv, TimeoutInv, ExpireInv, EvictInv, TickInv
       DEF Next, Check
  <2> QED BY <2>2, <2>3
<1> QED BY InitInv, <1>1, PTL DEF Spec

(* Type correctness. *)
THEOREM TypeCorrect == Spec => []TypeOK
<1>1. IInv => TypeOK
  BY DEF IInv
<1> QED BY <1>1, Inductive, PTL

-----------------------------------------------------------------------------
(* The pairs of an era up to m and a number up to n. *)
LEMMA GridSize ==
    ASSUME NEW m \in Nat, NEW n \in Nat
    PROVE  /\ IsFiniteSet((0..m) \X (1..n))
           /\ Cardinality((0..m) \X (1..n)) = n * (1 + m)
<1>1. IsFiniteSet(0..m) /\ Cardinality(0..m) = m + 1
  <2>1. 0 \in Int /\ m \in Int /\ ~(0 > m)
    OBVIOUS
  <2>2. /\ IsFiniteSet(0..m)
        /\ Cardinality(0..m) = IF 0 > m THEN 0 ELSE m - 0 + 1
    BY <2>1, FS_Interval
  <2> QED BY <2>1, <2>2
<1>2. IsFiniteSet(1..n) /\ Cardinality(1..n) = n
  <2>1. 1 \in Int /\ n \in Int
    OBVIOUS
  <2>2. /\ IsFiniteSet(1..n)
        /\ Cardinality(1..n) = IF 1 > n THEN 0 ELSE n - 1 + 1
    BY <2>1, FS_Interval
  <2> QED BY <2>1, <2>2
<1>3. /\ IsFiniteSet((0..m) \X (1..n))
      /\ Cardinality((0..m) \X (1..n)) = Cardinality(0..m) * Cardinality(1..n)
  BY <1>1, <1>2, FS_Product
<1>4. (m + 1) * n = n * (1 + m)
  OBVIOUS
<1> QED BY <1>1, <1>2, <1>3, <1>4

(* The requests one window of a client lets through are told apart by era   *)
(* and number.                                                              *)
LEMMA WindowCount ==
    ASSUME IInv, NEW c \in Client, NEW t \in Starts
    PROVE  LET A == Allowed \cap During(c, t, t + W - 1)
           IN  /\ IsFiniteSet(A)
               /\ Cardinality(A) <= Limit(c) * (1 + evicted[<<c, t>>])
<1> DEFINE A == Allowed \cap During(c, t, t + W - 1)
           e == evicted[<<c, t>>]
           L == Limit(c)
           T == (0..e) \X (1..L)
           f == [r \in A |-> <<era[r], num[r]>>]
<1> USE DEF IInv
<1>1. /\ t \in Nat /\ WindowStart(t) = t /\ <<c, t>> \in Key
      /\ e \in Nat /\ L \in Nat
  BY StartOfStart, Limits DEF TypeOK, Key, Limit
<1>2. ASSUME NEW r \in A
      PROVE  /\ r \in Req /\ KeyOf(r) = <<c, t>> /\ Counted(r)
             /\ era[r] \in 0..e /\ num[r] \in 1..L
  <2>1. /\ r \in Req /\ pc[r] = "allowed" /\ client[r] = c
        /\ now[r] \in Nat /\ t <= now[r] /\ now[r] < t + W
    BY <1>1, WindowPos DEF Allowed, During, TypeOK, Second
  <2>2. WindowStart(now[r]) = t
    BY <1>1, <2>1, SameWindow
  <2>3. KeyOf(r) = <<c, t>> /\ Counted(r) /\ num[r] <= L
    BY <2>1, <2>2 DEF KeyOf, Placed
  <2>4. Numbered(r) /\ era[r] \in Nat /\ num[r] \in Nat
    BY <2>1 DEF TypeOK
  <2> QED BY <1>1, <2>1, <2>3, <2>4 DEF Numbered, Counted
<1>3. f \in [A -> T]
  BY <1>2
<1>4. ASSUME NEW p \in A, NEW q \in A, f[p] = f[q] PROVE p = q
  BY <1>2, <1>4 DEF Distinct
<1>5. f \in Injection(A, T)
  BY <1>3, <1>4 DEF Injection, IsInjective
<1>6. IsFiniteSet(T) /\ Cardinality(T) = L * (1 + e)
  BY <1>1, GridSize
<1>7. IsFiniteSet(A) /\ Cardinality(A) <= Cardinality(T)
  BY <1>5, <1>6, FS_Injection
<1> QED BY <1>6, <1>7

(* The quota of a window, for any limits and any number of workers.         *)
THEOREM QuotaHolds == Spec => []WindowQuota
<1>1. IInv => WindowQuota
  BY WindowCount DEF WindowQuota
<1> QED BY <1>1, Inductive, PTL

(* Twice the limit in any W seconds: two windows cover them. *)
THEOREM IntervalHolds == Spec => []IntervalQuota
<1>1. ASSUME IInv, NEW c \in Client, NEW t \in Second
      PROVE  LET s == WindowStart(t)
                 lost == evicted[<<c, s>>]
                             + IF s + W \in Starts THEN evicted[<<c, s + W>>] ELSE 0
             IN  Cardinality(Allowed \cap During(c, t, t + W - 1))
                     <= Limit(c) * (2 + lost)
  <2> DEFINE s == WindowStart(t)
             A == Allowed \cap During(c, t, t + W - 1)
             B == Allowed \cap During(c, s, s + W - 1)
             D == Allowed \cap During(c, s + W, s + W + W - 1)
             L == Limit(c)
             e == evicted[<<c, s>>]
             d == IF s + W \in Starts THEN evicted[<<c, s + W>>] ELSE 0
  <2>1. /\ t \in Nat /\ s \in Nat /\ s <= t /\ t < s + W /\ s \in Starts
    BY WindowBounds, WindowPos DEF Second, Starts
  <2>2. A \subseteq B \cup D
    BY <2>1, <1>1, WindowPos DEF During, IInv, TypeOK, Second
  <2>3. e \in Nat /\ d \in Nat /\ L \in Nat
    BY <1>1, <2>1, Limits DEF IInv, TypeOK, Key, Limit
  <2>4. IsFiniteSet(B) /\ Cardinality(B) <= L * (1 + e)
    BY <1>1, <2>1, WindowCount
  <2>5. IsFiniteSet(D) /\ Cardinality(D) <= L * (1 + d)
    <3>1. CASE s + W \in Starts
      BY <1>1, <3>1, WindowCount
    <3>2. CASE s + W \notin Starts
      <4>1. s + W \notin Second
        <5>1. WindowStart(s + W) = s + W
          <6>1. s = (t \div W) * W /\ t \div W \in Nat
            BY <2>1, WindowBounds, Quotient
          <6>2. s + W = (t \div W + 1) * W
            BY <6>1, WindowPos
          <6>3. ((t \div W + 1) * W) % W = 0
            BY <6>1, WindowPos
          <6> QED BY <2>1, <6>2, <6>3, WindowPos DEF WindowStart
        <5> QED BY <3>2, <5>1 DEF Starts
      <4>2. D = {}
        BY <1>1, <2>1, <4>1, WindowPos DEF During, IInv, TypeOK, Second
      <4>3. IsFiniteSet(D) /\ Cardinality(D) = 0
        BY <4>2, FS_EmptySet
      <4>4. d = 0 /\ L * (1 + d) = L
        BY <2>3, <3>2
      <4> QED BY <2>3, <4>3, <4>4
    <3> QED BY <3>1, <3>2
  <2>6. /\ IsFiniteSet(B \cup D)
        /\ Cardinality(B \cup D) <= Cardinality(B) + Cardinality(D)
    <3>1. /\ IsFiniteSet(B \cup D)
          /\ Cardinality(B \cup D)
                = Cardinality(B) + Cardinality(D) - Cardinality(B \cap D)
      BY <2>4, <2>5, FS_Union
    <3>2. Cardinality(B) \in Nat /\ Cardinality(D) \in Nat /\ Cardinality(B \cap D) \in Nat
      BY <2>4, <2>5, FS_CardinalityType, FS_Intersection
    <3> QED BY <3>1, <3>2
  <2>7. Cardinality(A) <= Cardinality(B \cup D)
    BY <2>2, <2>6, FS_Subset
  <2>8. L * (1 + e) + L * (1 + d) = L * (2 + (e + d))
    BY <2>3
  <2>9. /\ Cardinality(A) \in Nat /\ Cardinality(B) \in Nat /\ Cardinality(D) \in Nat
        /\ Cardinality(B \cup D) \in Nat /\ L * (1 + e) \in Nat /\ L * (1 + d) \in Nat
    BY <2>2, <2>3, <2>4, <2>5, <2>6, FS_Subset, FS_CardinalityType
  <2>10. Cardinality(A) <= L * (2 + (e + d))
    BY <2>4, <2>5, <2>6, <2>7, <2>8, <2>9
  <2> QED BY <2>10
<1>2. IInv => IntervalQuota
  BY <1>1 DEF IntervalQuota
<1> QED BY <1>2, Inductive, PTL

(* Retry-After leads a refused client to the next window and no further.    *)
THEOREM RetryAfterRight == Spec => RetryAfterHonest
<1>1. ASSUME IInv, Next, NEW r \in Req, pc[r] # "refused", pc'[r] = "refused"
      PROVE  WaitsRight(r)
  <2>1. pc[r] \in InFlight
    <3>1. PICK q \in Req : Check(q)
      BY <1>1 DEF Next, Evict, Tick, IInv, TypeOK
    <3>2. q = r
      BY <1>1, <3>1 DEF Check, Arrive, Bypass, Incr, IncrTimeout, IncrFails, Expire, ExpireFails, Goto,
                        Verdict, IInv, TypeOK
    <3> QED BY <1>1, <3>1, <3>2 DEF Check, Arrive, Bypass, Incr, IncrTimeout, IncrFails, Expire,
                                    ExpireFails, Goto, IInv, TypeOK, InFlight
  <2>2. now[r] \in Nat /\ clock \in Nat /\ now[r] <= clock
    BY <1>1, <2>1, WindowPos DEF IInv, Placed, TypeOK, Second
  <2>3. /\ WindowStart(now[r]) \in Nat /\ now[r] < WindowStart(now[r]) + W
        /\ WindowStart(now[r]) = (now[r] \div W) * W
        /\ now[r] \div W \in Nat
    BY <2>2, WindowBounds, Quotient
  <2>4. (now[r] \div W + 1) * W = WindowStart(now[r]) + W
    BY <2>3, WindowPos
  <2>5. RetryAfter(now[r]) = WindowStart(now[r]) + W - now[r]
    BY <2>2, <2>3, WindowPos DEF RetryAfter, ResetAt
  <2> QED BY <2>2, <2>3, <2>4, <2>5, WindowPos DEF WaitsRight
<1>2. IInv /\ [Next]_vars =>
          [\A r \in Req : pc[r] # "refused" /\ pc'[r] = "refused" => WaitsRight(r)]_vars
  BY <1>1
<1> QED BY <1>2, Inductive, PTL DEF Spec, RetryAfterHonest

(* Without a failure every counter gets its deadline. *)
THEOREM LeaksExplained == Spec => []OnlyFailuresLeakKeys
<1> DEFINE Leak(k) == count[k] > 0 /\ deadline[k] = Never
           Why(r, k) == /\ client[r] = k[1] /\ WindowStart(now[r]) = k[2]
                        /\ \/ pc[r] \in {"expire", "unchecked"}
                           \/ r \in retried
<1>1. Init => OnlyFailuresLeakKeys
  BY DEF Init, OnlyFailuresLeakKeys
<1>2. ASSUME IInv, OnlyFailuresLeakKeys, [Next]_vars, NEW k \in Key, Leak(k)'
      PROVE  \E r \in Req : Why(r, k)'
  <2> USE DEF IInv, TypeOK, Goto, redis
  <2>0. clock \in Nat /\ clock + Ttl # Never
    BY <1>2, WindowPos DEF Ttl, Never, Second
  <2>1. Leak(k) => \E q \in Req : Why(q, k)
    BY <1>2 DEF OnlyFailuresLeakKeys
  <2>2. ASSUME NEW r \in Req, Bypass(r) \/ \E c \in Client : Arrive(r, c)
        PROVE  \E q \in Req : Why(q, k)'
    <3>1. Leak(k) /\ client[r] = Nobody /\ r \notin retried
      BY <1>2, <2>2 DEF Arrive, Bypass, Placed
    <3>2. PICK q \in Req : Why(q, k)
      BY <2>1, <3>1
    <3>3. q # r
      BY <3>1, <3>2, Clients DEF Key
    <3>4. /\ \A p \in Req \ {r} : /\ pc'[p] = pc[p] /\ client'[p] = client[p]
                                  /\ now'[p] = now[p]
          /\ retried' = retried
      BY <1>2, <2>2 DEF Arrive, Bypass
    <3> QED BY <3>2, <3>3, <3>4
  <2>3. ASSUME NEW r \in Req, Incr(r) PROVE \E q \in Req : Why(q, k)'
    <3>1. /\ KeyOf(r) \in Key /\ UNCHANGED <<deadline, client, now, retried>>
          /\ count' = [count EXCEPT ![KeyOf(r)] = @ + 1]
          /\ pc[r] = "incr" /\ \A q \in Req \ {r} : pc'[q] = pc[q]
      BY <1>2, <2>3, InTime DEF Incr, Bump, Verdict, InFlight
    <3>2. CASE count[k] > 0
      <4>1. PICK q \in Req : Why(q, k)
        BY <1>2, <2>1, <3>1, <3>2
      <4>2. pc'[q] = pc[q] \/ q \in retried
        BY <3>1, <4>1
      <4> QED BY <3>1, <4>1, <4>2
    <3>3. CASE ~(count[k] > 0)
      <4>1. k = KeyOf(r) /\ count[k] = 0
        BY <1>2, <3>1, <3>3
      <4>2. pc'[r] = "expire"
        BY <1>2, <2>3, <4>1 DEF Incr, Creates
      <4> QED BY <3>1, <4>1, <4>2 DEF KeyOf
    <3> QED BY <3>2, <3>3
  <2>4. ASSUME NEW r \in Req, IncrTimeout(r) \/ IncrFails(r) PROVE \E q \in Req : Why(q, k)'
    <3>1. /\ KeyOf(r) \in Key /\ UNCHANGED <<deadline, client, now>>
          /\ count' = [count EXCEPT ![KeyOf(r)] = @ + 1] \/ count' = count
          /\ r \in retried' \/ pc'[r] = "unchecked"
          /\ retried \subseteq retried'
          /\ \A q \in Req : pc'[q] = pc[q] \/ pc'[q] = "unchecked"
      <4>1. /\ pc[r] = "incr" /\ UNCHANGED <<deadline, client, now>>
            /\ count' = [count EXCEPT ![KeyOf(r)] = @ + 1] \/ count' = count
        BY <2>4 DEF IncrTimeout, IncrFails, Bump
      <4>2. KeyOf(r) \in Key
        BY <1>2, <4>1, InTime DEF InFlight
      <4>3. \/ pc' = [pc EXCEPT ![r] = "unchecked"] /\ retried' = retried
            \/ pc' = pc /\ retried' = retried \cup {r}
        BY <2>4 DEF IncrTimeout, IncrFails
      <4>4. pc \in [Req -> {"idle"} \cup InFlight \cup Ended]
        BY <1>2
      <4>5. /\ r \in retried' \/ pc'[r] = "unchecked"
            /\ retried \subseteq retried'
            /\ \A q \in Req : pc'[q] = pc[q] \/ pc'[q] = "unchecked"
        <5>1. CASE pc' = [pc EXCEPT ![r] = "unchecked"] /\ retried' = retried
          BY <4>4, <5>1
        <5>2. CASE pc' = pc /\ retried' = retried \cup {r}
          BY <5>2
        <5> QED BY <4>3, <5>1, <5>2
      <4> QED BY <4>1, <4>2, <4>5
    <3>2. CASE Leak(k)
      BY <2>1, <3>1, <3>2
    <3>3. CASE ~Leak(k)
      <4>1. k = KeyOf(r)
        BY <1>2, <3>1, <3>3
      <4> QED BY <3>1, <4>1 DEF KeyOf
    <3> QED BY <3>2, <3>3
  <2>5. ASSUME NEW r \in Req, Expire(r) \/ ExpireFails(r) PROVE \E q \in Req : Why(q, k)'
    <3>1. /\ KeyOf(r) \in Key /\ UNCHANGED <<count, client, now, retried>>
          /\ \A l \in Key : deadline'[l] = deadline[l] \/ deadline'[l] # Never
          /\ \A q \in Req \ {r} : pc'[q] = pc[q]
      <4>1. KeyOf(r) \in Key
        BY <1>2, <2>5, InTime DEF Expire, ExpireFails, InFlight
      <4>2. deadline' = deadline \/ SetDeadline(KeyOf(r))
        BY <2>5 DEF Expire, ExpireFails
      <4>3. \A l \in Key : deadline'[l] = deadline[l] \/ deadline'[l] # Never
        BY <1>2, <2>0, <4>1, <4>2 DEF SetDeadline
      <4>4. /\ UNCHANGED <<count, client, now, retried>>
            /\ \A q \in Req \ {r} : pc'[q] = pc[q]
        BY <1>2, <2>5 DEF Expire, ExpireFails, Verdict
      <4> QED BY <4>1, <4>3, <4>4
    <3>2. PICK q \in Req : Why(q, k)
      BY <1>2, <2>1, <3>1
    <3>3. CASE q = r
      <4>1. KeyOf(r) = k
        BY <3>2, <3>3 DEF KeyOf, Key
      <4>2. pc'[r] = "unchecked" \/ deadline'[k] # Never
        BY <1>2, <2>0, <2>5, <3>1, <4>1 DEF Expire, ExpireFails, SetDeadline
      <4> QED BY <1>2, <3>1, <3>2, <3>3, <4>2
    <3>4. CASE q # r
      BY <3>1, <3>2, <3>4
    <3> QED BY <3>3, <3>4
  <2>6. CASE Tick \/ \E l \in Key : Evict(l)
    <3>1. Leak(k) /\ UNCHANGED <<pc, client, now, retried>>
      BY <1>2, <2>6 DEF Tick, Evict, Dropped
    <3> QED BY <2>1, <3>1
  <2>7. CASE UNCHANGED vars
    BY <1>2, <2>1, <2>7 DEF vars
  <2> QED BY <1>2, <2>2, <2>3, <2>4, <2>5, <2>6, <2>7 DEF Next, Check
<1>3. IInv /\ OnlyFailuresLeakKeys /\ [Next]_vars => OnlyFailuresLeakKeys'
  BY <1>2 DEF OnlyFailuresLeakKeys
<1> QED BY <1>1, <1>3, Inductive, PTL DEF Spec

-----------------------------------------------------------------------------
(* A set of places to spend is finite, and a larger one counts for more. *)
LEMMA Slots ==
    ASSUME NEW S \in SUBSET (Req \X {1, 2}), NEW T \in SUBSET S
    PROVE  /\ IsFiniteSet(S) /\ Cardinality(S) \in Nat
           /\ IsFiniteSet(T) /\ Cardinality(T) \in Nat /\ Cardinality(T) <= Cardinality(S)
<1>1. IsFiniteSet({1, 2})
  <2>1. IsFiniteSet({} \cup {1})
    BY FS_EmptySet, FS_AddElement
  <2>2. IsFiniteSet(({} \cup {1}) \cup {2})
    BY <2>1, FS_AddElement
  <2>3. ({} \cup {1}) \cup {2} = {1, 2}
    OBVIOUS
  <2> QED BY <2>2, <2>3
<1>2. IsFiniteSet(Req \X {1, 2})
  BY <1>1, Requests, FS_Product
<1>3. IsFiniteSet(S) /\ IsFiniteSet(T) /\ Cardinality(T) <= Cardinality(S)
  BY <1>2, FS_Subset
<1> QED BY <1>3, FS_CardinalityType

(* What requests have spent on a counter only grows. *)
LEMMA SpentGrows ==
    ASSUME IInv, NEW r \in Req, Check(r), NEW k \in Key
    PROVE  Spent(k) \subseteq Spent(k)'
<1>0. TypeOK /\ Placed(r) /\ k[1] # Nobody
  BY Clients DEF IInv, Key
<1>1. ASSUME NEW q \in Req, NEW i \in {1, 2}, KeyOf(q) = k, Spends(q, i)
      PROVE  KeyOf(q)' = k /\ Spends(q, i)'
  <2>1. CASE Bypass(r) \/ \E c \in Client : Arrive(r, c)
    <3>1. /\ pc[r] = "idle" /\ retried' = retried
          /\ \A p \in Req \ {r} : /\ pc'[p] = pc[p] /\ client'[p] = client[p]
                                  /\ now'[p] = now[p]
      BY <1>0, <2>1 DEF Bypass, Arrive, Goto, TypeOK
    <3>2. q # r
      BY <1>1, <3>1 DEF Spends
    <3> QED BY <1>1, <3>1, <3>2 DEF Spends, KeyOf
  <2>2. CASE ~(Bypass(r) \/ \E c \in Client : Arrive(r, c))
    <3>1. Incr(r) \/ IncrTimeout(r) \/ IncrFails(r) \/ Expire(r) \/ ExpireFails(r)
      BY <2>2 DEF Check
    <3>2. UNCHANGED <<client, now>> /\ retried \subseteq retried'
      BY <3>1 DEF Incr, IncrTimeout, IncrFails, Expire, ExpireFails
    <3>3. pc'[q] = pc[q] \/ pc'[q] \in Ended \cup {"expire"}
      BY <1>0, <3>1 DEF Incr, IncrTimeout, IncrFails, Expire, ExpireFails, Verdict, Goto, TypeOK, Ended
    <3>4. pc[q] # "idle" /\ pc'[q] # "idle" /\ (pc[q] # "incr" => pc'[q] # "incr")
      BY <1>1, <3>3 DEF Spends, Ended
    <3>5. KeyOf(q)' = KeyOf(q)
      BY <3>2 DEF KeyOf
    <3> QED BY <1>1, <3>2, <3>4, <3>5 DEF Spends
  <2> QED BY <2>1, <2>2
<1> QED BY <1>1 DEF Spent

(* An INCR that Redis executes spends a place that was free.                *)
LEMMA BumpSpends ==
    ASSUME IInv, NEW r \in Req, Incr(r) \/ IncrTimeout(r) \/ IncrFails(r), NEW k \in Key, KeyOf(r) = k
    PROVE  Cardinality(Spent(k)) + 1 <= Cardinality(Spent(k)')
<1>1. TypeOK /\ pc[r] = "incr" /\ Check(r)
  BY DEF IInv, Incr, IncrTimeout, IncrFails, Check
<1>2. PICK i \in {1, 2} : i = IF r \in retried THEN 2 ELSE 1
  OBVIOUS
<1>3. <<r, i>> \notin Spent(k)
  BY <1>1, <1>2 DEF Spent, Spends
<1>4. <<r, i>> \in Spent(k)'
  <2>1. KeyOf(r)' = k
    BY DEF Incr, IncrTimeout, IncrFails, KeyOf
  <2>2. \/ retried' = retried /\ pc'[r] \notin {"idle", "incr"}
        \/ r \notin retried /\ r \in retried' /\ pc'[r] = "incr"
    BY <1>1 DEF Incr, IncrTimeout, IncrFails, Verdict, Goto, TypeOK
  <2>3. Spends(r, i)'
    BY <1>2, <2>2 DEF Spends
  <2> QED BY <2>1, <2>3 DEF Spent
<1>5. Spent(k) \subseteq Spent(k)'
  BY <1>1, SpentGrows
<1>6. Spent(k)' \in SUBSET (Req \X {1, 2})
  BY DEF Spent
<1>7. /\ Spent(k) \cup {<<r, i>>} \in SUBSET (Spent(k)')
      /\ Spent(k) \in SUBSET (Spent(k)')
  BY <1>4, <1>5
<1>8. /\ IsFiniteSet(Spent(k)) /\ Cardinality(Spent(k)) \in Nat
      /\ Cardinality(Spent(k) \cup {<<r, i>>}) <= Cardinality(Spent(k)')
  BY <1>6, <1>7, Slots
<1>9. Cardinality(Spent(k) \cup {<<r, i>>}) = Cardinality(Spent(k)) + 1
  BY <1>3, <1>8, FS_AddElement
<1> QED BY <1>8, <1>9

(* Counters and numbers never exceed what was spent. *)
LEMMA ChargedStep ==
    ASSUME IInv, Charged, [Next]_vars, IInv'
    PROVE  Charged'
<1>0. TypeOK /\ TypeOK'
  BY DEF IInv
<1>1. ASSUME NEW k \in Key
      PROVE  /\ Spent(k)' \in SUBSET (Req \X {1, 2})
             /\ Spent(k) \subseteq Spent(k)'
             /\ Cardinality(Spent(k)) \in Nat /\ Cardinality(Spent(k)') \in Nat
             /\ Cardinality(Spent(k)) <= Cardinality(Spent(k)')
  <2>1. Spent(k)' \in SUBSET (Req \X {1, 2})
    BY DEF Spent
  <2>2. Spent(k) \subseteq Spent(k)'
    <3>1. CASE \E r \in Req : Check(r)
      BY <3>1, SpentGrows
    <3>2. CASE UNCHANGED <<pc, client, now, retried>>
      BY <3>2 DEF Spent, Spends, KeyOf
    <3> QED BY <3>1, <3>2 DEF Next, Evict, Tick, vars
  <2>3. Spent(k) \in SUBSET (Spent(k)')
    BY <2>2
  <2> QED BY <2>1, <2>2, <2>3, Slots
<1>2. ASSUME NEW r \in Req, Incr(r) \/ IncrTimeout(r) \/ IncrFails(r) PROVE Charged'
  <2>1. /\ pc[r] = "incr" /\ KeyOf(r) \in Key
    BY <1>2, InTime DEF Incr, IncrTimeout, IncrFails, InFlight
  <2>2. /\ UNCHANGED <<client, now>>
        /\ count' = [count EXCEPT ![KeyOf(r)] = @ + 1] \/ count' = count
        /\ num' = [num EXCEPT ![r] = count[KeyOf(r)] + 1] \/ num' = num
    BY <1>2 DEF Incr, IncrTimeout, IncrFails, Bump
  <2>3. ASSUME NEW k \in Key PROVE count'[k] <= Cardinality(Spent(k)')
    <3>1. count[k] <= Cardinality(Spent(k)) /\ count[k] \in Nat
      BY <1>0 DEF Charged, TypeOK
    <3>2. CASE KeyOf(r) = k
      <4>1. Cardinality(Spent(k)) + 1 <= Cardinality(Spent(k)')
        BY <1>2, <3>2, BumpSpends
      <4>2. count'[k] = count[k] + 1 \/ count'[k] = count[k]
        BY <1>0, <2>2, <3>2 DEF TypeOK
      <4> QED BY <1>1, <3>1, <4>1, <4>2
    <3>3. CASE KeyOf(r) # k
      BY <1>0, <1>1, <2>2, <3>1, <3>3 DEF TypeOK
    <3> QED BY <3>2, <3>3
  <2>4. ASSUME NEW q \in Req, Counted(q)' PROVE num'[q] <= Cardinality(Spent(KeyOf(q))')
    <3>1. PICK k \in Key : KeyOf(q) = k /\ KeyOf(q)' = k
      <4>1. KeyOf(q) \in Key
        BY <1>0, <2>1, <2>2, <2>4, KeyOfClient DEF IInv, Placed, Counted, TypeOK
      <4> QED BY <2>2, <4>1 DEF KeyOf
    <3>2. Spent(KeyOf(q))' = Spent(k)'
      BY <3>1
    <3>3. CASE num'[q] = num[q]
      <4>1. num[q] <= Cardinality(Spent(k))
        BY <2>4, <3>1, <3>3 DEF Charged, Counted
      <4> QED BY <1>0, <1>1, <3>2, <3>3, <4>1 DEF TypeOK
    <3>4. CASE num'[q] # num[q]
      <4>1. q = r /\ num'[q] = count[k] + 1
        BY <1>0, <2>2, <3>1, <3>4 DEF TypeOK
      <4>2. Cardinality(Spent(k)) + 1 <= Cardinality(Spent(k)')
        BY <1>2, <3>1, <4>1, BumpSpends
      <4>3. count[k] <= Cardinality(Spent(k)) /\ count[k] \in Nat
        BY <1>0 DEF Charged, TypeOK
      <4> QED BY <1>1, <3>2, <4>1, <4>2, <4>3
    <3> QED BY <3>3, <3>4
  <2> QED BY <2>3, <2>4 DEF Charged
<1>3. ASSUME \A k \in Key : count'[k] <= count[k], num' = num,
             \A r \in Req : Counted(r) => KeyOf(r)' = KeyOf(r)
      PROVE  Charged'
  <2>1. ASSUME NEW k \in Key PROVE count'[k] <= Cardinality(Spent(k)')
    <3>1. count[k] <= Cardinality(Spent(k)) /\ count[k] \in Nat /\ count'[k] \in Nat
      BY <1>0 DEF Charged, TypeOK
    <3> QED BY <1>1, <1>3, <3>1
  <2>2. ASSUME NEW q \in Req, Counted(q)' PROVE num'[q] <= Cardinality(Spent(KeyOf(q))')
    <3>1. Counted(q)
      BY <1>3, <2>2 DEF Counted
    <3>2. PICK k \in Key : KeyOf(q) = k /\ KeyOf(q)' = k
      BY <1>0, <1>3, <3>1, KeyOfClient DEF IInv, Placed, TypeOK
    <3>3. num[q] <= Cardinality(Spent(k)) /\ num[q] \in Nat
      BY <1>0, <3>1, <3>2 DEF Charged, TypeOK
    <3> QED BY <1>1, <1>3, <3>2, <3>3
  <2> QED BY <2>1, <2>2 DEF Charged
<1>4. CASE \E r \in Req : Bypass(r) \/ Expire(r) \/ ExpireFails(r) \/ \E c \in Client : Arrive(r, c)
  <2>1. PICK r \in Req : Bypass(r) \/ Expire(r) \/ ExpireFails(r) \/ \E c \in Client : Arrive(r, c)
    BY <1>4
  <2>2. count' = count /\ num' = num
    BY <2>1 DEF Bypass, Expire, ExpireFails, Arrive, redis
  <2>3. ASSUME NEW q \in Req, Counted(q) PROVE KeyOf(q)' = KeyOf(q)
    <3>1. pc[q] # "idle"
      BY <2>3 DEF IInv, Placed, Counted
    <3>2. client'[q] = client[q] /\ now'[q] = now[q]
      BY <1>0, <2>1, <3>1 DEF Bypass, Expire, ExpireFails, Arrive, TypeOK
    <3> QED BY <3>2 DEF KeyOf
  <2>4. \A k \in Key : count'[k] <= count[k]
    BY <1>0, <2>2 DEF TypeOK
  <2> QED BY <1>3, <2>2, <2>3, <2>4
<1>5. CASE Tick \/ (\E k \in Key : Evict(k)) \/ UNCHANGED vars
  <2>1. /\ num' = num /\ UNCHANGED <<client, now>>
        /\ \A k \in Key : count'[k] <= count[k]
    BY <1>0, <1>5 DEF Tick, Evict, Dropped, vars, redis, TypeOK
  <2>2. \A q \in Req : KeyOf(q)' = KeyOf(q)
    BY <2>1 DEF KeyOf
  <2> QED BY <1>3, <2>1, <2>2
<1> QED BY <1>2, <1>4, <1>5 DEF Next, Check

(* A refusal is earned: no other client, no other window and no failed      *)
(* request's INCR that was not sent is ever counted against a client.       *)
THEOREM RefusalsFair == Spec => []RefusalsEarned
<1>1. Init => Charged
  <2>1. ASSUME NEW k \in Key PROVE Cardinality(Spent(k)) \in Nat
    <3>1. Spent(k) \in SUBSET (Req \X {1, 2})
      BY DEF Spent
    <3> QED BY <3>1, Slots
  <2> QED BY <2>1 DEF Init, Charged, Counted
<1>2. ASSUME IInv, Charged, NEW r \in Req, pc[r] = "refused"
      PROVE  LET t == (now[r] \div W) * W
                 same == {q \in Req : client[q] = client[r] /\ now[q] \in t..(t + W - 1)
                                      /\ pc[q] # "idle"}
             IN  Limit(client[r]) < Cardinality(same) + Cardinality(same \cap retried)
  <2> DEFINE t == (now[r] \div W) * W
             same == {q \in Req : client[q] = client[r] /\ now[q] \in t..(t + W - 1)
                                  /\ pc[q] # "idle"}
             twice == same \cap retried
             k == KeyOf(r)
             one == same \X {1}
             two == twice \X {2}
  <2>1. TypeOK /\ Placed(r)
    BY <1>2 DEF IInv
  <2>2. Limit(client[r]) < num[r] /\ num[r] <= Cardinality(Spent(k))
    BY <1>2, <2>1 DEF Placed, Charged, Counted
  <2>3. ASSUME NEW q \in Req, NEW i \in {1, 2}, KeyOf(q) = k, Spends(q, i)
        PROVE  <<q, i>> \in one \cup two
    <3>1. client[q] = client[r] /\ WindowStart(now[q]) = WindowStart(now[r]) /\ pc[q] # "idle"
      BY <2>3 DEF KeyOf, Spends
    <3>2. now[q] \in Nat /\ now[r] \in Nat
      BY <1>2, <2>1 DEF TypeOK, Second
    <3>3. t \in Nat /\ t <= now[q] /\ now[q] < t + W
      BY <3>1, <3>2, WindowBounds
    <3>4. q \in same
      BY <3>1, <3>2, <3>3, WindowPos
    <3>5. i = 2 => q \in retried
      BY <2>3 DEF Spends
    <3> QED BY <3>4, <3>5
  <2>4. Spent(k) \in SUBSET (one \cup two)
    BY <2>3 DEF Spent
  <2>5. /\ IsFiniteSet(same) /\ Cardinality(same) \in Nat
        /\ IsFiniteSet(twice) /\ Cardinality(twice) \in Nat
    <3>1. same \in SUBSET Req /\ twice \in SUBSET Req
      OBVIOUS
    <3> QED BY <3>1, Requests, FS_Subset, FS_CardinalityType
  <2> HIDE DEF same, twice, t, k
  <2>6. /\ IsFiniteSet(one) /\ Cardinality(one) = Cardinality(same)
        /\ IsFiniteSet(two) /\ Cardinality(two) = Cardinality(twice)
    <3>1. /\ IsFiniteSet({1}) /\ Cardinality({1}) = 1
          /\ IsFiniteSet({2}) /\ Cardinality({2}) = 1
      BY FS_Singleton
    <3>2. /\ IsFiniteSet(one) /\ Cardinality(one) = Cardinality(same) * 1
          /\ IsFiniteSet(two) /\ Cardinality(two) = Cardinality(twice) * 1
      BY <2>5, <3>1, FS_Product
    <3> QED BY <2>5, <3>2
  <2>7. one \cap two = {}
    OBVIOUS
  <2> HIDE DEF one, two
  <2>8. /\ IsFiniteSet(one \cup two)
        /\ Cardinality(one \cup two) = Cardinality(one) + Cardinality(two)
    <3>1. /\ IsFiniteSet(one \cup two)
          /\ Cardinality(one \cup two)
                = Cardinality(one) + Cardinality(two) - Cardinality(one \cap two)
      BY <2>6, FS_Union
    <3>2. Cardinality(one \cap two) = 0
      BY <2>7, FS_EmptySet
    <3> QED BY <2>5, <2>6, <3>1, <3>2
  <2>9. /\ Cardinality(Spent(k)) <= Cardinality(one \cup two)
        /\ Cardinality(Spent(k)) \in Nat
    BY <2>4, <2>8, FS_Subset, FS_CardinalityType
  <2>10. Limit(client[r]) \in Nat /\ num[r] \in Nat
    BY <1>2, <2>1, Limits DEF Limit, TypeOK
  <2>11. Limit(client[r]) < Cardinality(same) + Cardinality(twice)
    BY <2>2, <2>5, <2>6, <2>8, <2>9, <2>10
  <2> QED BY <2>11 DEF same, twice, t
<1>3. IInv /\ Charged => RefusalsEarned
  BY <1>2 DEF RefusalsEarned
<1>4. IInv /\ IInv' /\ Charged /\ [Next]_vars => Charged'
  BY ChargedStep
<1> QED BY <1>1, <1>3, <1>4, Inductive, PTL DEF Spec

-----------------------------------------------------------------------------
(* What the ledger of tickets sees of a step of the middleware. *)
LEMMA OutcomeBecomes ==
    ASSUME TypeOK, NEW r \in Req, NEW o \in Ended, Goto(r, o)
    PROVE  Outcome' = [Outcome EXCEPT ![r] = o]
BY DEF Outcome, TypeOK, Goto

LEMMA OutcomeKept ==
    ASSUME TypeOK, NEW r \in Req, pc[r] \notin Ended, NEW l, l \notin Ended, Goto(r, l)
    PROVE  Outcome' = Outcome
BY DEF Outcome, TypeOK, Goto

LEMMA OutcomeNone ==
    ASSUME NEW r \in Req, pc[r] \in {"idle"} \cup InFlight
    PROVE  Outcome[r] = "none"
BY DEF Outcome, Ended, InFlight

LEMMA DrawnKept ==
    ASSUME num' = num, \A r \in Req : Counted(r) => KeyOf(r)' = KeyOf(r)
    PROVE  DrawnFrom' = DrawnFrom
BY DEF DrawnFrom, Counted

(* A request that waits for Redis asks for a window that is not over. *)
LEMMA StillOpen ==
    ASSUME IInv, NEW r \in Req, pc[r] \in InFlight
    PROVE  KeyOf(r) \in Key /\ KeyOf(r) \notin Over
<1>1. /\ KeyOf(r) \in Key /\ WindowStart(now[r]) \in Nat
      /\ clock < WindowStart(now[r]) + 2 * W /\ clock \in Nat
  BY InTime, WindowPos DEF IInv, TypeOK, Second
<1>2. KeyOf(r)[2] = WindowStart(now[r])
  BY DEF KeyOf
<1> QED BY <1>1, <1>2, WindowPos DEF Over

(* The decision on a ticket is the verdict on the number. *)
LEMMA VerdictDecides ==
    ASSUME IInv, NEW r \in Req, KeyOf(r) \in Key, NEW n, Verdict(r, n)
    PROVE  Counter!Becomes(r, Counter!Decision(KeyOf(r), n))
<1>1. Counter!Decision(KeyOf(r), n) = IF Within(r, n) THEN "allowed" ELSE "refused"
  BY DEF Counter!Decision, Within, KeyOf
<1>2. Counter!Decision(KeyOf(r), n) \in Ended
  BY <1>1 DEF Ended
<1>3. Goto(r, Counter!Decision(KeyOf(r), n))
  BY <1>1 DEF Verdict
<1> QED BY <1>2, <1>3, OutcomeBecomes DEF Counter!Becomes, IInv

LEMMA IncrDraws ==
    ASSUME IInv, NEW r \in Req, Incr(r)
    PROVE  Counter!Draw(r, KeyOf(r))
<1> DEFINE k == KeyOf(r)
<1>1. /\ pc[r] = "incr" /\ num[r] = 0 /\ k \in Key /\ k \notin Over
      /\ num' = [num EXCEPT ![r] = count[k] + 1] /\ count[k] \in Nat
      /\ count' = [count EXCEPT ![k] = count[k] + 1]
      /\ UNCHANGED <<clock, client, now, evicted>>
  BY StillOpen DEF Incr, Bump, IInv, TypeOK, Placed, InFlight
<1>2. Outcome[r] = "none" /\ Over' = Over
  BY <1>1, OutcomeNone DEF InFlight, Over
<1>3. DrawnFrom' = [DrawnFrom EXCEPT ![r] = k]
  <2>1. num'[r] > 0 /\ \A q \in Req \ {r} : num'[q] = num[q]
    BY <1>1 DEF IInv, TypeOK
  <2>2. \A q \in Req : KeyOf(q)' = KeyOf(q)
    BY <1>1 DEF KeyOf
  <2> QED BY <2>1, <2>2 DEF DrawnFrom
<1>4. UNCHANGED Outcome \/ Counter!Becomes(r, Counter!Decision(k, count[k] + 1))
  <2>1. CASE Creates(count[k] + 1)
    <3>1. Goto(r, "expire")
      BY <2>1 DEF Incr
    <3> QED BY <1>1, <3>1, OutcomeKept DEF Ended, IInv
  <2>2. CASE ~Creates(count[k] + 1)
    <3>1. Verdict(r, count[k] + 1)
      BY <2>2 DEF Incr
    <3> QED BY <1>1, <3>1, VerdictDecides
  <2> QED BY <2>1, <2>2
<1> QED BY <1>1, <1>2, <1>3, <1>4 DEF Counter!Draw, Counter!Count

(* An INCR that Redis has executed and whose reply is lost wastes a ticket. *)
LEMMA FailureWastes ==
    ASSUME IInv, NEW r \in Req, IncrTimeout(r) \/ IncrFails(r)
    PROVE  \/ Counter!Waste(KeyOf(r)) \/ Counter!Pass(r)
           \/ UNCHANGED <<Counter!counters, Counter!requests>>
<1> DEFINE k == KeyOf(r)
<1>1. /\ pc[r] = "incr" /\ num[r] = 0 /\ k \in Key /\ k \notin Over
      /\ count' = [count EXCEPT ![k] = @ + 1] \/ count' = count
      /\ UNCHANGED <<clock, client, now, num, evicted>>
  BY StillOpen DEF IncrTimeout, IncrFails, Bump, IInv, TypeOK, Placed, InFlight
<1>2. Outcome[r] = "none" /\ Over' = Over
  BY <1>1, OutcomeNone DEF InFlight, Over
<1>3. DrawnFrom' = DrawnFrom
  BY <1>1 DEF DrawnFrom, KeyOf
<1>4. UNCHANGED count \/ Counter!Count(k)
  BY <1>1 DEF Counter!Count
<1>5. CASE IncrTimeout(r)
  <2>1. UNCHANGED Outcome
    BY <1>5 DEF IncrTimeout, Outcome
  <2> QED BY <1>1, <1>2, <1>3, <1>4, <2>1
          DEF Counter!Waste, Counter!counters, Counter!requests
<1>6. CASE IncrFails(r)
  <2>1. Counter!Becomes(r, "unchecked")
    BY <1>6, OutcomeBecomes DEF IncrFails, Ended, Counter!Becomes, IInv
  <2> QED BY <1>1, <1>2, <1>3, <1>4, <2>1 DEF Counter!Pass
<1> QED BY <1>5, <1>6

LEMMA ExpireSettles ==
    ASSUME IInv, NEW r \in Req, Expire(r) \/ ExpireFails(r)
    PROVE  Counter!Settle(r) \/ Counter!Pass(r)
<1>1. /\ pc[r] = "expire" /\ num[r] \in Nat /\ num[r] > 0 /\ KeyOf(r) \in Key
      /\ UNCHANGED <<clock, count, client, now, num, evicted>>
  BY StillOpen DEF Expire, ExpireFails, IInv, TypeOK, Placed, Counted, InFlight
<1>2. /\ Outcome[r] = "none" /\ Over' = Over
      /\ DrawnFrom' = DrawnFrom /\ DrawnFrom[r] = KeyOf(r)
  BY <1>1, OutcomeNone DEF InFlight, Over, DrawnFrom, KeyOf
<1>3. CASE Expire(r)
  <2>1. Counter!Becomes(r, Counter!Decision(DrawnFrom[r], num[r]))
    BY <1>1, <1>2, <1>3, VerdictDecides DEF Expire
  <2> QED BY <1>1, <1>2, <2>1 DEF Counter!Settle, Counter!counters
<1>4. CASE ExpireFails(r)
  <2>1. Counter!Becomes(r, "unchecked")
    BY <1>4, OutcomeBecomes DEF ExpireFails, Ended, Counter!Becomes, IInv
  <2> QED BY <1>1, <1>2, <2>1 DEF Counter!Pass
<1> QED BY <1>3, <1>4

(* A request that has just arrived has drawn nothing. *)
LEMMA ArrivalDrawsNothing ==
    ASSUME IInv, NEW r \in Req, Bypass(r) \/ \E c \in Client : Arrive(r, c)
    PROVE  Counter!Pass(r) \/ UNCHANGED <<Counter!counters, Counter!requests>>
<1>1. /\ pc[r] = "idle" /\ num[r] = 0
      /\ UNCHANGED <<clock, count, num, evicted>>
      /\ \A q \in Req \ {r} : client'[q] = client[q] /\ now'[q] = now[q]
  BY DEF Bypass, Arrive, redis, IInv, TypeOK, Placed
<1>2. Outcome[r] = "none" /\ Over' = Over
  BY <1>1, OutcomeNone DEF Over
<1>3. DrawnFrom' = DrawnFrom
  BY <1>1 DEF DrawnFrom, KeyOf
<1>4. CASE Bypass(r)
  <2>1. Counter!Becomes(r, "unchecked")
    BY <1>4, OutcomeBecomes DEF Bypass, Ended, Counter!Becomes, IInv
  <2> QED BY <1>1, <1>2, <1>3, <2>1 DEF Counter!Pass
<1>5. CASE \E c \in Client : Arrive(r, c)
  <2>1. Outcome' = Outcome
    BY <1>1, <1>5, OutcomeKept DEF Arrive, Ended, IInv
  <2> QED BY <1>1, <1>2, <1>3, <2>1 DEF Counter!counters, Counter!requests
<1> QED BY <1>4, <1>5

(* The counters a second takes away belong to windows that are over. *)
LEMMA TickCloses ==
    ASSUME IInv, Tick
    PROVE  \E S \in SUBSET (Key \ Over) :
               \E gone \in SUBSET (Over \cup S) : Counter!Close(S, gone)
<1> DEFINE S == Over' \ Over
           gone == {k \in Key : deadline[k] # Never /\ deadline[k] <= clock + 1}
<1>1. /\ clock \in Nat /\ clock' = clock + 1 /\ Dropped(gone)
      /\ UNCHANGED <<pc, client, now, num, evicted>>
  BY WindowPos DEF Tick, IInv, TypeOK, Second
<1>2. ASSUME NEW k \in Key
      PROVE  k[2] \in Nat /\ k[2] + 2 * W \in Nat
  <2>1. k[2] \in Starts
    BY DEF Key
  <2> QED BY <2>1, StartOfStart, WindowPos
<1>3. Over \subseteq Over'
  BY <1>1, <1>2 DEF Over
<1>4. gone \subseteq Over'
  <2> SUFFICES ASSUME NEW k \in gone PROVE k[2] + 2 * W <= clock'
    BY DEF Over
  <2>1. k[2] + 2 * W <= deadline[k] /\ deadline[k] \in Nat
    BY DEF IInv, Lasting, TypeOK
  <2> QED BY <1>1, <1>2, <2>1
<1>5. S \in SUBSET (Key \ Over) /\ Over' = Over \cup S
  BY <1>3 DEF Over
<1>6. UNCHANGED <<DrawnFrom, num, Outcome>>
  BY <1>1 DEF DrawnFrom, KeyOf, Outcome
<1>7. Counter!Close(S, gone)
  BY <1>1, <1>5, <1>6 DEF Counter!Close, Counter!requests, Dropped
<1>8. gone \in SUBSET (Over \cup S)
  BY <1>4, <1>5
<1> QED BY <1>5, <1>7, <1>8

(* The keys in Redis implement the ticket counters, for all clients,        *)
(* limits, windows and delays up to a window: whatever times out or fails,  *)
(* no counter starts again before its window is over unless it is evicted,  *)
(* and no ticket is drawn from a window that is over (_check_window).       *)
THEOREM CounterRefinement == Spec => CounterSpec
<1>1. Init => Counter!Init
  <2> SUFFICES ASSUME Init PROVE Counter!Init
    OBVIOUS
  <2>1. Over = {}
    <3>1. ASSUME NEW k \in Key PROVE k[2] \in Nat
      <4>1. k[2] \in Starts
        BY DEF Key
      <4> QED BY <4>1, StartOfStart
    <3> QED BY <3>1, WindowPos DEF Init, Over
  <2>2. Outcome = [r \in Req |-> "none"] /\ DrawnFrom = [r \in Req |-> Nobody]
    BY DEF Init, Outcome, DrawnFrom, Ended
  <2> QED BY <2>1, <2>2 DEF Init, Counter!Init
<1>2. IInv /\ [Next]_vars => [Counter!Next]_<<Counter!counters, Counter!requests>>
  <2> SUFFICES ASSUME IInv, [Next]_vars
               PROVE  Counter!Next \/ UNCHANGED <<Counter!counters, Counter!requests>>
    OBVIOUS
  <2>1. ASSUME NEW r \in Req, Check(r)
        PROVE  Counter!Next \/ UNCHANGED <<Counter!counters, Counter!requests>>
    <3>1. CASE Bypass(r) \/ \E c \in Client : Arrive(r, c)
      BY <3>1, ArrivalDrawsNothing DEF Counter!Next
    <3>2. CASE Incr(r)
      <4>1. KeyOf(r) \in Key
        BY <3>2, StillOpen DEF Incr, InFlight
      <4> QED BY <3>2, <4>1, IncrDraws DEF Counter!Next
    <3>3. CASE IncrTimeout(r) \/ IncrFails(r)
      <4>1. KeyOf(r) \in Key
        BY <3>3, StillOpen DEF IncrTimeout, IncrFails, InFlight
      <4> QED BY <3>3, <4>1, FailureWastes DEF Counter!Next
    <3>4. CASE Expire(r) \/ ExpireFails(r)
      BY <3>4, ExpireSettles DEF Counter!Next
    <3> QED BY <2>1, <3>1, <3>2, <3>3, <3>4 DEF Check
  <2>2. ASSUME NEW k \in Key, Evict(k) PROVE Counter!Next
    <3>1. /\ count' = [count EXCEPT ![k] = 0] /\ evicted' = [evicted EXCEPT ![k] = @ + 1]
          /\ UNCHANGED <<clock, pc, client, now, num>>
      BY <2>2 DEF Evict, Dropped, IInv, TypeOK
    <3>2. UNCHANGED <<Over, DrawnFrom, Outcome>>
      BY <3>1 DEF Over, DrawnFrom, KeyOf, Outcome
    <3>3. Counter!Lose(k)
      BY <3>1, <3>2 DEF Counter!Lose, Counter!requests
    <3> QED BY <3>3 DEF Counter!Next
  <2>3. CASE Tick
    BY <2>3, TickCloses DEF Counter!Next
  <2>4. CASE UNCHANGED vars
    <3>1. UNCHANGED <<count, num, evicted>> /\ UNCHANGED <<Over, DrawnFrom, Outcome>>
      BY <2>4 DEF vars, redis, Over, DrawnFrom, KeyOf, Outcome
    <3> QED BY <3>1 DEF Counter!counters, Counter!requests
  <2> QED BY <2>1, <2>2, <2>3, <2>4 DEF Next
<1> QED BY <1>1, <1>2, Inductive, PTL DEF Spec, CounterSpec, Counter!Spec
=============================================================================
