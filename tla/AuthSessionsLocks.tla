-------------------------- MODULE AuthSessionsLocks --------------------------
(***************************************************************************)
(* Concurrent transactions never deadlock on refresh_tokens and users rows.*)
(* Each one locks the rows it has modified in primary key order, so along  *)
(* a chain of waiting requests the awaited row's key only increases.       *)
(***************************************************************************)
EXTENDS AuthSessionsProofs, FiniteSetTheorems, WellFoundedInduction

(* A finite set has an element at which f is largest. *)
LEMMA FiniteMaximum ==
    ASSUME NEW S, IsFiniteSet(S), S # {}, NEW f \in [S -> Nat]
    PROVE  \E x \in S : \A y \in S : f[y] <= f[x]
<1> DEFINE Up(x) == {y \in S : f[y] >= f[x]}
           T == {Up(x) : x \in S}
<1>1. T \subseteq FiniteSubsetsOf(S) /\ T # {}
  <2>1. \A x \in S : Up(x) \in SUBSET S /\ Up(x) \in T
    OBVIOUS
  <2>2. FiniteSubsetsOf(S) = SUBSET S
    BY FS_FiniteSubsetsOfFinite
  <2>3. T \subseteq SUBSET S
    BY <2>1
  <2> QED BY <2>1, <2>2, <2>3
<1>2. PICK U \in T : \A V \in T : <<V, U>> \notin StrictSubsetOrdering(S)
  BY <1>1, FS_StrictSubsetOrderingWellFounded, WFMin
<1>3. PICK x \in S : U = Up(x)
  OBVIOUS
<1>4. ASSUME NEW y \in S, f[y] > f[x] PROVE FALSE
  <2>1. Up(y) \subseteq Up(x) /\ x \in Up(x) /\ x \notin Up(y)
    BY <1>4
  <2>2. <<Up(y), Up(x)>> \in StrictSubsetOrdering(S)
    BY <2>1 DEF StrictSubsetOrdering
  <2> QED BY <1>2, <1>3, <2>2
<1> QED BY <1>4

-----------------------------------------------------------------------------
(* A flushing request holds the rows with the lowest keys of those it has   *)
(* modified.                                                                *)
InOrder(r) ==
    pc[r] = "flush" =>
        \A held \in locks[r], next \in dirty[r] \ locks[r] : Rank[held] < Rank[next]

LEMMA FlushInOrder ==
    ASSUME TypeOK, NEW r \in Req, InOrder(r), NEW row \in Row, FlushRow(r, row)
    PROVE  InOrder(r)'
<1>1. /\ pc[r] = "flush" /\ locks'[r] = locks[r] \cup {row} /\ dirty'[r] = dirty[r]
      /\ row \in dirty[r] \ locks[r]
      /\ \A other \in dirty[r] \ locks[r] : Rank[row] <= Rank[other]
  BY DEF FlushRow, NextRow, TypeOK
<1>2. SUFFICES ASSUME NEW held \in locks'[r], NEW next \in dirty'[r] \ locks'[r]
               PROVE  Rank[held] < Rank[next]
  BY DEF InOrder
<1>3. next \in dirty[r] \ locks[r] /\ next # row /\ next \in Row /\ held \in Row
  BY <1>1 DEF TypeOK
<1>4. CASE held \in locks[r]
  BY <1>1, <1>3, <1>4 DEF InOrder
<1>5. CASE held = row
  <2>1. Rank[row] <= Rank[next] /\ Rank[row] # Rank[next]
    BY <1>1, <1>3, RankType
  <2>2. Rank[row] \in Nat /\ Rank[next] \in Nat
    BY <1>3, RankType
  <2> QED BY <1>5, <2>1, <2>2
<1> QED BY <1>1, <1>4, <1>5

LEMMA MoveInOrder ==
    ASSUME IInv, NEW r \in Req, InOrder(r), Moves(r)
    PROVE  InOrder(r)'
<1> USE DEF IInv
<1>1. CASE \E row \in Row : FlushRow(r, row)
  BY <1>1, FlushInOrder
<1>2. CASE ~\E row \in Row : FlushRow(r, row)
  <2>1. pc[r] # "flush" /\ pc'[r] = "flush" => locks[r] = {} /\ locks' = locks
    <3>1. CASE Client(r)
      BY <3>1 DEF Client, Login, LoginBegin, LoginUnknown, LoginInactive,
                  LoginAccepted, Refresh, Logout, Sound, Idle
    <3>2. CASE Handler(r)
      BY <1>2, <3>2 DEF Handler, RefreshLookup, RefreshGetUser, LogoutLookup,
                  RevokeAllSelect, RevokeOne, RevokeAllDone, Commit, Respond,
                  Rollback, Goto, Log, Raise, FlushOrSkip, TypeOK, Sound, Idle
    <3>3. CASE Abort(r)
      BY <3>3 DEF Abort, Goto, Log, TypeOK
    <3> QED BY <3>1, <3>2, <3>3 DEF Moves
  <2>2. pc[r] = "flush" => pc'[r] # "flush"
    BY <1>2 DEF Moves, Client, Login, LoginBegin, LoginUnknown, LoginInactive,
                LoginAccepted, Refresh, Logout, Handler, RefreshLookup,
                RefreshGetUser, LogoutLookup, RevokeAllSelect, RevokeOne,
                RevokeAllDone, Commit, Respond, Rollback, Abort, Goto, Log, TypeOK
  <2> QED BY <2>1, <2>2 DEF InOrder
<1> QED BY <1>1, <1>2

LEMMA StepInOrder ==
    ASSUME IInv, \A r \in Req : InOrder(r), [Next]_vars
    PROVE  (\A r \in Req : InOrder(r))'
<1>1. ASSUME NEW r \in Req, Moves(r), NEW q \in Req PROVE InOrder(q)'
  <2>1. CASE q = r
    BY <1>1, <2>1, MoveInOrder
  <2>2. CASE q # r
    BY <1>1, <2>2, MoveSame DEF Same, InOrder, IInv
  <2> QED BY <2>1, <2>2
<1>2. ASSUME \/ \E u \in User : Deactivate(u)
             \/ \E t \in Token : Expire(t) \/ Forget(t)
             \/ UNCHANGED vars
      PROVE  (\A r \in Req : InOrder(r))'
  <2>1. UNCHANGED <<pc, locks, dirty>>
    BY <1>2 DEF Deactivate, Expire, Forget, vars, reqVars
  <2> QED BY <2>1 DEF InOrder
<1> QED BY <1>1, <1>2, StepOf

-----------------------------------------------------------------------------
(* Among waiting requests, the one that awaits the highest key waits for    *)
(* a request outside the set.                                               *)
LEMMA OrderBreaksCycles ==
    ASSUME TypeOK, \A r \in Req : InOrder(r)
    PROVE  NoLockCycle
<1> SUFFICES ASSUME NEW S \in (SUBSET Req) \ {{}},
                    \A r \in S : \E q \in S : WaitsFor(r, q)
             PROVE  FALSE
  BY DEF NoLockCycle
<1> DEFINE Awaited(r) == CHOOSE row \in Row : NextRow(r, row)
           key == [r \in S |-> Rank[Awaited(r)]]
<1>1. ASSUME NEW r \in S
      PROVE  Awaited(r) \in Row /\ NextRow(r, Awaited(r))
  <2>1. \E row \in Row : NextRow(r, row)
    BY DEF WaitsFor, NextRow, TypeOK
  <2> QED BY <2>1
<1>2. key \in [S -> Nat]
  BY <1>1, RankType
<1>3. IsFiniteSet(S)
  BY Finite, FS_Subset
<1>4. PICK r \in S : \A q \in S : key[q] <= key[r]
  BY <1>2, <1>3, FiniteMaximum
<1>5. PICK q \in S : WaitsFor(r, q)
  OBVIOUS
<1>6. PICK row \in locks[q] : NextRow(r, row)
  BY <1>5 DEF WaitsFor
<1>7. row \in Row /\ Rank[row] = key[r]
  <2>1. row \in Row /\ row \in dirty[r] \ locks[r] /\ Awaited(r) \in dirty[r] \ locks[r]
    BY <1>1, <1>6 DEF NextRow, TypeOK
  <2>2. Rank[row] <= Rank[Awaited(r)] /\ Rank[Awaited(r)] <= Rank[row]
    BY <1>1, <1>6, <2>1 DEF NextRow
  <2>3. Rank[row] \in Nat /\ Rank[Awaited(r)] \in Nat
    BY <1>1, <2>1, RankType
  <2> QED BY <2>1, <2>2, <2>3
<1>8. pc[q] = "flush"
  BY DEF WaitsFor
<1>9. Rank[row] < Rank[Awaited(q)]
  BY <1>1, <1>6, <1>8 DEF InOrder, NextRow
<1>10. key[q] <= key[r] /\ key[q] = Rank[Awaited(q)] /\ key[q] \in Nat /\ key[r] \in Nat
  BY <1>2, <1>4
<1> QED BY <1>7, <1>9, <1>10

(* No set of requests ever waits in a circle for each other's row locks,    *)
(* however many rows each one updates: the flush of a session emits its     *)
(* UPDATEs in primary key order (logout of all tokens, refresh, login).     *)
THEOREM DeadlockFree == Spec => []NoLockCycle
<1>1. Init => \A r \in Req : InOrder(r)
  BY DEF Init, InOrder
<1>2. IInv /\ (\A r \in Req : InOrder(r)) /\ [Next]_vars => (\A r \in Req : InOrder(r))'
  BY StepInOrder
<1>3. IInv /\ (\A r \in Req : InOrder(r)) => NoLockCycle
  BY OrderBreaksCycles DEF IInv
<1> QED BY <1>1, <1>2, <1>3, Inductive, PTL DEF Spec
=============================================================================
