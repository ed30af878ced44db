------------------------- MODULE WindowCounterProofs -------------------------
(***************************************************************************)
(* What the promise of WindowCounter is worth: the quota of a window       *)
(* follows from it alone, so it holds of every limiter that implements it. *)
(***************************************************************************)
EXTENDS WindowCounter, FiniteSets, FiniteSetTheorems, TLAPS

(* The constants, as RateLimiter instantiates them. *)
Given == IsFiniteSet(Req) /\ Quota \in [Window -> Nat]

LetThrough(w) == {r \in Req : outcome[r] = "allowed" /\ place[r] = w}

(* Of the requests of a window no more are let through than its quota, plus *)
(* the quota again for every loss of its counter.                           *)
QuotaKept ==
    \A w \in Window : Cardinality(LetThrough(w)) <= Quota[w] * (1 + lost[w])

-----------------------------------------------------------------------------
(* The requests that drew a ticket within the quota, and how many of these  *)
(* a window can have given out since its counter was lost for the last time.*)
Winners(w) == {r \in Req : place[r] = w /\ ticket[r] \in 1..Quota[w]}
GivenOut(w) == IF w \in closed \/ tally[w] > Quota[w] THEN Quota[w] ELSE tally[w]

Typed ==
    /\ tally \in [Window -> Nat] /\ lost \in [Window -> Nat]
    /\ ticket \in [Req -> Nat] /\ outcome \in [Req -> {"none", "allowed", "refused", "unchecked"}]
    /\ place \in [Req -> Window \cup {Nowhere}]

Won(r) ==
    /\ ticket[r] > 0 => place[r] \in Window
    /\ outcome[r] = "allowed" => place[r] \in Window /\ ticket[r] \in 1..Quota[place[r]]

Bounded(w) == Cardinality(Winners(w)) <= Quota[w] * lost[w] + GivenOut(w)

CInv == Typed /\ (\A r \in Req : Won(r)) /\ (\A w \in Window : Bounded(w))

LEMMA WinnersFinite ==
    ASSUME Given, NEW w \in Window
    PROVE  IsFiniteSet(Winners(w)) /\ Cardinality(Winners(w)) \in Nat
<1>1. Winners(w) \in SUBSET Req
  BY DEF Winners
<1> QED BY <1>1, FS_Subset, FS_CardinalityType DEF Given

LEMMA InitCounter ==
    ASSUME Given, Init
    PROVE  CInv
<1>1. Typed /\ \A r \in Req : Won(r)
  BY DEF Init, Typed, Won
<1>2. ASSUME NEW w \in Window PROVE Bounded(w)
  <2>1. Winners(w) = {}
    BY DEF Init, Winners
  <2>2. Cardinality(Winners(w)) = 0
    BY <2>1, FS_EmptySet
  <2>3. GivenOut(w) = 0 /\ lost[w] = 0 /\ Quota[w] \in Nat
    BY DEF Init, GivenOut, Given
  <2> QED BY <2>2, <2>3 DEF Bounded
<1> QED BY <1>1, <1>2 DEF CInv

(* Tickets given to nobody leave the winners as they are. *)
LEMMA CountKeeps ==
    ASSUME Given, CInv, UNCHANGED <<closed, lost, place, ticket>>,
           UNCHANGED tally \/ \E w \in Window : Count(w), NEW w \in Window
    PROVE  tally' \in [Window -> Nat] /\ Bounded(w)'
<1>1. tally' \in [Window -> Nat] /\ tally[w] <= tally'[w]
  BY DEF Count, CInv, Typed
<1>2. Winners(w)' = Winners(w)
  BY DEF Winners
<1>3. GivenOut(w) <= GivenOut(w)' /\ GivenOut(w) \in Nat /\ GivenOut(w)' \in Nat
  BY <1>1 DEF GivenOut, CInv, Typed, Given
<1>4. Quota[w] * lost[w] \in Nat
  BY DEF CInv, Typed, Given
<1>5. Cardinality(Winners(w)) <= Quota[w] * lost[w] + GivenOut(w)'
  BY <1>3, <1>4, WinnersFinite DEF CInv, Bounded
<1> QED BY <1>1, <1>2, <1>5 DEF Bounded

LEMMA DrawKeeps ==
    ASSUME Given, CInv, NEW r \in Req, NEW w \in Window, Draw(r, w)
    PROVE  CInv'
<1> DEFINE n == tally[w] + 1
<1> USE DEF CInv, Typed, Given
<1>1. /\ w \notin closed /\ ticket[r] = 0 /\ outcome[r] = "none" /\ n \in Nat /\ n > 0
      /\ tally' = [tally EXCEPT ![w] = n] /\ ticket' = [ticket EXCEPT ![r] = n]
      /\ place' = [place EXCEPT ![r] = w] /\ UNCHANGED <<closed, lost>>
      /\ outcome' = outcome \/ outcome' = [outcome EXCEPT ![r] = Decision(w, n)]
  BY DEF Draw, Count, Becomes
<1>2. Typed'
  BY <1>1 DEF Decision
<1>3. ASSUME NEW q \in Req PROVE Won(q)'
  <2>1. CASE q = r
    <3>1. place'[r] = w /\ ticket'[r] = n
      BY <1>1
    <3>2. outcome'[r] = "allowed" => n <= Quota[w]
      BY <1>1 DEF Decision
    <3> QED BY <1>1, <2>1, <3>1, <3>2 DEF Won
  <2>2. CASE q # r
    BY <1>1, <2>2 DEF Won
  <2> QED BY <2>1, <2>2
<1>4. ASSUME NEW v \in Window, v # w PROVE Bounded(v)'
  <2>1. Winners(v)' = Winners(v)
    BY <1>1, <1>4 DEF Winners
  <2>2. GivenOut(v)' = GivenOut(v)
    BY <1>1, <1>4 DEF GivenOut
  <2> QED BY <1>1, <2>1, <2>2 DEF Bounded
<1>5. Bounded(w)'
  <2>1. /\ Quota[w] \in Nat /\ Quota[w] * lost[w] \in Nat /\ tally[w] \in Nat
        /\ Cardinality(Winners(w)) <= Quota[w] * lost[w] + GivenOut(w)
        /\ IsFiniteSet(Winners(w)) /\ Cardinality(Winners(w)) \in Nat
    BY WinnersFinite DEF Bounded
  <2>2. tally'[w] = n /\ r \notin Winners(w)
    BY <1>1 DEF Winners
  <2>3. CASE n <= Quota[w]
    <3>1. Winners(w)' = Winners(w) \cup {r}
      BY <1>1, <2>3 DEF Winners
    <3>2. Cardinality(Winners(w)') = Cardinality(Winners(w)) + 1
      BY <2>1, <2>2, <3>1, FS_AddElement
    <3>3. GivenOut(w) = tally[w] /\ GivenOut(w)' = tally[w] + 1
      BY <1>1, <2>1, <2>2, <2>3 DEF GivenOut
    <3> QED BY <1>1, <2>1, <3>2, <3>3 DEF Bounded
  <2>4. CASE ~(n <= Quota[w])
    <3>1. Winners(w)' = Winners(w)
      BY <1>1, <2>4 DEF Winners
    <3>2. GivenOut(w)' = Quota[w] /\ GivenOut(w) <= Quota[w] /\ GivenOut(w) \in Nat
      BY <1>1, <2>1, <2>2, <2>4 DEF GivenOut
    <3> QED BY <1>1, <2>1, <3>1, <3>2 DEF Bounded
  <2> QED BY <2>3, <2>4
<1> QED BY <1>2, <1>3, <1>4, <1>5

(* A loss costs one quota: whatever the counter had given out is paid for.  *)
LEMMA LoseKeeps ==
    ASSUME Given, CInv, NEW w \in Window, Lose(w)
    PROVE  CInv'
<1> USE DEF CInv, Typed, Given
<1>1. /\ tally' = [tally EXCEPT ![w] = 0] /\ lost' = [lost EXCEPT ![w] = lost[w] + 1]
      /\ UNCHANGED <<closed, place, ticket, outcome>>
  BY DEF Lose, requests
<1>2. Typed' /\ \A r \in Req : Won(r)'
  BY <1>1 DEF Won
<1>3. ASSUME NEW v \in Window PROVE Bounded(v)'
  <2>1. /\ Winners(v)' = Winners(v)
        /\ Cardinality(Winners(v)) <= Quota[v] * lost[v] + GivenOut(v)
        /\ Cardinality(Winners(v)) \in Nat /\ Quota[v] \in Nat
    BY <1>1, WinnersFinite DEF Winners, Bounded
  <2>2. CASE v # w
    BY <1>1, <2>1, <2>2 DEF Bounded, GivenOut
  <2>3. CASE v = w
    <3>1. GivenOut(w) <= Quota[w] /\ GivenOut(w) \in Nat /\ GivenOut(w)' \in Nat
      BY <1>1 DEF GivenOut
    <3>2. lost'[w] = lost[w] + 1 /\ lost[w] \in Nat
      BY <1>1
    <3>3. Quota[w] * (lost[w] + 1) = Quota[w] * lost[w] + Quota[w] /\ Quota[w] * lost[w] \in Nat
      BY <3>2
    <3>4. Cardinality(Winners(w)) <= Quota[w] * (lost[w] + 1) + GivenOut(w)'
      BY <2>1, <2>3, <3>1, <3>3
    <3> QED BY <2>1, <2>3, <3>2, <3>4 DEF Bounded
  <2> QED BY <2>2, <2>3
<1> QED BY <1>2, <1>3

LEMMA CloseKeeps ==
    ASSUME Given, CInv, NEW S, NEW gone \in SUBSET (closed \cup S), Close(S, gone)
    PROVE  CInv'
<1> USE DEF CInv, Typed, Given
<1>1. /\ closed \subseteq closed' /\ gone \subseteq closed'
      /\ tally' = [w \in Window |-> IF w \in gone THEN 0 ELSE tally[w]]
      /\ UNCHANGED <<lost, place, ticket, outcome>>
  BY DEF Close, requests
<1>2. Typed' /\ \A r \in Req : Won(r)'
  BY <1>1 DEF Won
<1>3. ASSUME NEW v \in Window PROVE Bounded(v)'
  <2>1. /\ Winners(v)' = Winners(v)
        /\ Cardinality(Winners(v)) <= Quota[v] * lost[v] + GivenOut(v)
        /\ Cardinality(Winners(v)) \in Nat
    BY <1>1, WinnersFinite DEF Winners, Bounded
  <2>2. GivenOut(v) <= GivenOut(v)' /\ GivenOut(v) \in Nat /\ GivenOut(v)' \in Nat
    BY <1>1 DEF GivenOut
  <2>3. Quota[v] * lost[v] \in Nat /\ lost'[v] = lost[v]
    BY <1>1
  <2>4. Cardinality(Winners(v)) <= Quota[v] * lost[v] + GivenOut(v)'
    BY <2>1, <2>2, <2>3
  <2> QED BY <2>1, <2>3, <2>4 DEF Bounded
<1> QED BY <1>2, <1>3

(* The quota of every window follows from the way tickets are drawn.        *)
THEOREM QuotaOfTickets ==
    ASSUME Given
    PROVE  Spec => []QuotaKept
<1>1. Init => CInv
  BY InitCounter
<1>2. CInv /\ [Next]_<<counters, requests>> => CInv'
  <2> SUFFICES ASSUME CInv, [Next]_<<counters, requests>> PROVE CInv'
    OBVIOUS
  <2>1. ASSUME NEW r \in Req, Settle(r) PROVE CInv'
    <3>1. /\ UNCHANGED <<tally, closed, lost, place, ticket>>
          /\ ticket[r] > 0 /\ outcome' = [outcome EXCEPT ![r] = Decision(place[r], ticket[r])]
      BY <2>1 DEF Settle, Becomes, counters
    <3>2. Typed' /\ \A q \in Req : Won(q)'
      BY <3>1 DEF CInv, Typed, Won, Decision
    <3> QED BY <3>1, <3>2, CountKeeps DEF CInv
  <2>2. ASSUME NEW r \in Req, Pass(r) PROVE CInv'
    <3>1. /\ UNCHANGED <<closed, lost, place, ticket>>
          /\ UNCHANGED tally \/ \E w \in Window : Count(w)
          /\ outcome' = [outcome EXCEPT ![r] = "unchecked"]
      BY <2>2 DEF Pass, Becomes
    <3>2. tally' \in [Window -> Nat]
      BY <3>1 DEF Count, CInv, Typed
    <3>3. Typed' /\ \A q \in Req : Won(q)'
      BY <3>1, <3>2 DEF CInv, Typed, Won
    <3> QED BY <3>1, <3>3, CountKeeps DEF CInv
  <2>3. ASSUME NEW w \in Window, Waste(w) PROVE CInv'
    <3>1. UNCHANGED <<closed, lost, place, ticket, outcome>> /\ Count(w)
      BY <2>3 DEF Waste, requests
    <3>2. tally' \in [Window -> Nat]
      BY <3>1 DEF Count, CInv, Typed
    <3>3. Typed' /\ \A q \in Req : Won(q)'
      BY <3>1, <3>2 DEF CInv, Typed, Won
    <3> QED BY <3>1, <3>3, CountKeeps DEF CInv
  <2>4. CASE UNCHANGED <<counters, requests>>
    BY <2>4 DEF counters, requests, CInv, Typed, Won, Bounded, Winners, GivenOut
  <2> QED BY <2>1, <2>2, <2>3, <2>4, DrawKeeps, LoseKeeps, CloseKeeps DEF Next
<1>3. CInv => QuotaKept
  <2> SUFFICES ASSUME CInv, NEW w \in Window
               PROVE  Cardinality(LetThrough(w)) <= Quota[w] * (1 + lost[w])
    BY DEF QuotaKept
  <2>1. LetThrough(w) \in SUBSET Winners(w)
    BY DEF LetThrough, Winners, CInv, Won
  <2>2. /\ Cardinality(LetThrough(w)) <= Cardinality(Winners(w))
        /\ Cardinality(LetThrough(w)) \in Nat
        /\ Cardinality(Winners(w)) \in Nat
    BY <2>1, WinnersFinite, FS_Subset, FS_CardinalityType
  <2>3. /\ Quota[w] \in Nat /\ lost[w] \in Nat /\ GivenOut(w) \in Nat
        /\ GivenOut(w) <= Quota[w]
        /\ Cardinality(Winners(w)) <= Quota[w] * lost[w] + GivenOut(w)
    BY DEF CInv, Typed, Given, GivenOut, Bounded
  <2>4. Quota[w] * (1 + lost[w]) = Quota[w] * lost[w] + Quota[w] /\ Quota[w] * lost[w] \in Nat
    BY <2>3
  <2> QED BY <2>2, <2>3, <2>4
<1> QED BY <1>1, <1>2, <1>3, PTL DEF Spec
=============================================================================
