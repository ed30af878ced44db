------------------------- MODULE AuthSessionsProgress -------------------------
(***************************************************************************)
(* Why every request that is under way can be answered: the steps of a     *)
(* handler run out, and while any request is under way one of them waits   *)
(* for nobody.                                                             *)
(***************************************************************************)
EXTENDS AuthSessionsLocks

(* The place of a request in its handler as a number, now and next. *)
LEMMA AheadValues ==
    ASSUME NEW r \in Req
    PROVE  /\ pc[r] = "idle" => Ahead(r) = 8
           /\ pc[r] = "lookup" => Ahead(r) = 7
           /\ pc[r] = "select_all" => Ahead(r) = 6
           /\ pc[r] = "revoking" => Ahead(r) = 5
           /\ pc[r] = "flush" => Ahead(r) = 4
           /\ pc[r] = "get_user" => Ahead(r) = 3
           /\ pc[r] = "commit" => Ahead(r) = 2
           /\ pc[r] = "respond" \/ pc[r] = "reject" => Ahead(r) = 1
           /\ pc[r] = "done" => Ahead(r) = 0
BY DEF Ahead

LEMMA AheadNext ==
    ASSUME NEW r \in Req
    PROVE  /\ pc'[r] = "lookup" => Ahead(r)' = 7
           /\ pc'[r] = "select_all" => Ahead(r)' = 6
           /\ pc'[r] = "revoking" => Ahead(r)' = 5
           /\ pc'[r] = "flush" => Ahead(r)' = 4
           /\ pc'[r] = "get_user" => Ahead(r)' = 3
           /\ pc'[r] = "commit" => Ahead(r)' = 2
           /\ pc'[r] = "respond" \/ pc'[r] = "reject" => Ahead(r)' = 1
           /\ pc'[r] = "done" => Ahead(r)' = 0
BY DEF Ahead

(* What a request has before it depends on its own variables only. *)
LEMMA AheadKept ==
    ASSUME NEW q \in Req, pc'[q] = pc[q], todo'[q] = todo[q],
           dirty'[q] = dirty[q], locks'[q] = locks[q]
    PROVE  UNCHANGED <<Ahead(q), Pending(q)>>
BY DEF Ahead, Pending

LEMMA ArrivalNearer ==
    ASSUME IInv, NEW r \in Req, Client(r)
    PROVE  Nearer(r)
<1>1. pc[r] = "idle"
  BY DEF Client, Login, LoginBegin, LoginUnknown, LoginInactive, LoginAccepted,
         Refresh, Logout
<1>2. pc'[r] \in {"lookup", "select_all", "flush", "reject"}
  BY DEF IInv, TypeOK, Goto, Raise, Client, Login, LoginUnknown, LoginInactive,
         LoginAccepted, Refresh, Logout
<1>3. Ahead(r) = 8 /\ Ahead(r)' \in {7, 6, 4, 1}
  BY <1>1, <1>2, AheadValues, AheadNext
<1> QED BY <1>3 DEF Nearer

LEMMA AbortNearer ==
    ASSUME IInv, NEW r \in Req, Abort(r)
    PROVE  Nearer(r)
<1>1. pc[r] \in PC \ {"idle", "done"} /\ pc'[r] = "done"
  BY DEF IInv, TypeOK, Abort, Goto
<1>2. Ahead(r) \in 1..7 /\ Ahead(r)' = 0
  BY <1>1, AheadValues, AheadNext DEF PC
<1> QED BY <1>2 DEF Nearer

(* A flush that is not over has one UPDATE less to send. *)
LEMMA FlushNearer ==
    ASSUME IInv, NEW r \in Req, NEW row \in Row, FlushRow(r, row)
    PROVE  Nearer(r)
<1>1. /\ pc[r] = "flush" /\ row \in dirty[r] \ locks[r]
      /\ locks'[r] = locks[r] \cup {row} /\ dirty'[r] = dirty[r]
      /\ pc'[r] \in {"flush", "get_user", "commit"}
  BY DEF FlushRow, NextRow, AfterFlush, Goto, IInv, TypeOK
<1>2. CASE pc'[r] = "flush"
  <2>1. Ahead(r) = 4 /\ Ahead(r)' = 4
    BY <1>1, <1>2, AheadValues, AheadNext
  <2>2. Pending(r) = dirty[r] \ locks[r] /\ Pending(r)' = Pending(r) \ {row}
    BY <1>1, <1>2 DEF Pending
  <2> QED BY <1>1, <2>1, <2>2 DEF Nearer
<1>3. CASE pc'[r] # "flush"
  <2>1. Ahead(r) = 4 /\ Ahead(r)' \in {3, 2}
    BY <1>1, <1>3, AheadValues, AheadNext
  <2> QED BY <2>1 DEF Nearer
<1> QED BY <1>2, <1>3

(* A token revoked in the session is one less to revoke. *)
LEMMA RevokeOneNearer ==
    ASSUME IInv, NEW r \in Req, NEW t \in Token, RevokeOne(r, t)
    PROVE  Nearer(r)
<1>1. /\ pc[r] = "revoking" /\ pc'[r] = "revoking" /\ t \in todo[r]
      /\ todo'[r] = todo[r] \ {t}
  BY DEF RevokeOne, IInv, TypeOK
<1>2. Ahead(r) = 5 /\ Ahead(r)' = 5
  BY <1>1, AheadValues, AheadNext
<1>3. Pending(r) = todo[r] /\ Pending(r)' = todo[r] \ {t}
  BY <1>1 DEF Pending
<1> QED BY <1>1, <1>2, <1>3 DEF Nearer

LEMMA HandlerNearer ==
    ASSUME IInv, NEW r \in Req, Handler(r)
    PROVE  Nearer(r)
<1> USE DEF Goto, Raise, IInv, TypeOK
<1>1. CASE RefreshLookup(r) \/ LogoutLookup(r)
  <2>1. pc[r] = "lookup" /\ pc'[r] \in {"flush", "commit", "reject"}
    BY <1>1 DEF RefreshLookup, LogoutLookup, FlushOrSkip
  <2>2. Ahead(r) = 7 /\ Ahead(r)' \in {4, 2, 1}
    BY <2>1, AheadValues, AheadNext
  <2> QED BY <2>2 DEF Nearer
<1>2. CASE RefreshGetUser(r)
  <2>1. pc[r] = "get_user" /\ pc'[r] \in {"commit", "reject"}
    BY <1>2 DEF RefreshGetUser
  <2>2. Ahead(r) = 3 /\ Ahead(r)' \in {2, 1}
    BY <2>1, AheadValues, AheadNext
  <2> QED BY <2>2 DEF Nearer
<1>3. CASE RevokeAllSelect(r)
  <2>1. pc[r] = "select_all" /\ pc'[r] = "revoking"
    BY <1>3 DEF RevokeAllSelect
  <2>2. Ahead(r) = 6 /\ Ahead(r)' = 5
    BY <2>1, AheadValues, AheadNext
  <2> QED BY <2>2 DEF Nearer
<1>4. CASE RevokeAllDone(r)
  <2>1. pc[r] = "revoking" /\ pc'[r] \in {"flush", "commit", "reject"}
    BY <1>4 DEF RevokeAllDone, FlushOrSkip
  <2>2. Ahead(r) = 5 /\ Ahead(r)' \in {4, 2, 1}
    BY <2>1, AheadValues, AheadNext
  <2> QED BY <2>2 DEF Nearer
<1>5. CASE Commit(r)
  <2>1. pc[r] = "commit" /\ pc'[r] = "respond"
    BY <1>5 DEF Commit
  <2>2. Ahead(r) = 2 /\ Ahead(r)' = 1
    BY <2>1, AheadValues, AheadNext
  <2> QED BY <2>2 DEF Nearer
<1>6. CASE Respond(r) \/ Rollback(r)
  <2>1. pc[r] \in {"respond", "reject"} /\ pc'[r] = "done"
    BY <1>6 DEF Respond, Rollback
  <2>2. Ahead(r) = 1 /\ Ahead(r)' = 0
    BY <2>1, AheadValues, AheadNext
  <2> QED BY <2>2 DEF Nearer
<1> QED
  BY <1>1, <1>2, <1>3, <1>4, <1>5, <1>6, FlushNearer, RevokeOneNearer DEF Handler

(* Every step of a handler brings its request nearer to its answer, and no  *)
(* step of anybody else takes it further away, for any number of accounts,  *)
(* requests and tokens: logout and refresh cannot be kept going by the      *)
(* tokens that are minted while they run.                                   *)
THEOREM StepsRunOutRight == Spec => StepsRunOut
<1> DEFINE P(r) == /\ Handler(r) => Nearer(r)
                   /\ Nearer(r) \/ UNCHANGED <<Ahead(r), Pending(r)>>
<1>1. ASSUME IInv, NEW r \in Req, Moves(r), NEW q \in Req PROVE P(q)
  <2>1. CASE q = r
    BY <1>1, <2>1, HandlerNearer, ArrivalNearer, AbortNearer DEF Moves
  <2>2. CASE q # r
    <3>1. UNCHANGED <<Ahead(q), Pending(q)>>
      BY <1>1, <2>2, MoveSame, AheadKept DEF IInv, Same
    <3> QED BY <1>1, <3>1, HandlerNearer
  <2> QED BY <2>1, <2>2
<1>2. ASSUME IInv, NEW q \in Req,
             \/ \E u \in User : Deactivate(u)
             \/ \E t \in Token : Expire(t) \/ Forget(t)
             \/ UNCHANGED vars
      PROVE  P(q)
  <2>1. UNCHANGED <<pc, todo, dirty, locks>>
    BY <1>2 DEF Deactivate, Expire, Forget, vars, reqVars
  <2>2. UNCHANGED <<Ahead(q), Pending(q)>>
    BY <2>1, AheadKept
  <2> QED BY <1>2, <2>2, HandlerNearer
<1>3. IInv /\ [Next]_vars => [\A r \in Req : P(r)]_vars
  <2> SUFFICES ASSUME IInv, [Next]_vars, NEW q \in Req PROVE P(q)
    OBVIOUS
  <2> QED BY <1>1, <1>2, StepOf
<1> QED BY <1>3, Inductive, PTL DEF Spec, StepsRunOut

-----------------------------------------------------------------------------
(* A flush has an UPDATE to send. *)
Sending(r) == pc[r] = "flush" => dirty[r] \ locks[r] # {}

LEMMA MoveSending ==
    ASSUME IInv, NEW r \in Req, Sending(r), Moves(r)
    PROVE  Sending(r)'
<1> USE DEF IInv, TypeOK, Goto, Raise
<1>1. ASSUME NEW row \in Row, FlushRow(r, row) PROVE Sending(r)'
  <2>1. dirty'[r] = dirty[r] /\ locks'[r] = locks[r] \cup {row}
    BY <1>1 DEF FlushRow
  <2>2. pc'[r] = "flush" => ~(dirty[r] \subseteq locks[r] \cup {row})
    BY <1>1 DEF FlushRow, AfterFlush
  <2> QED BY <2>1, <2>2 DEF Sending
<1>2. CASE Login(r)
  <2>1. locks[r] = {} /\ locks' = locks
    BY <1>2 DEF Login, LoginBegin, LoginUnknown, LoginInactive, LoginAccepted,
                Sound, Idle
  <2>2. ASSUME pc'[r] = "flush" PROVE dirty'[r] # {}
    <3>1. PICK u \in User : LoginAccepted(r, u)
      BY <1>2, <2>2 DEF Login, LoginUnknown, LoginInactive
    <3>2. dirty'[r] = {u}
      BY <3>1 DEF LoginAccepted
    <3> QED BY <3>2
  <2> QED BY <2>1, <2>2 DEF Sending
<1>3. CASE RefreshLookup(r) \/ LogoutLookup(r) \/ RevokeAllDone(r)
  <2>1. locks[r] = {} /\ locks' = locks
    BY <1>3 DEF RefreshLookup, LogoutLookup, RevokeAllDone, Sound, Idle
  <2>2. pc'[r] = "flush" => dirty'[r] # {}
    BY <1>3 DEF RefreshLookup, LogoutLookup, RevokeAllDone, FlushOrSkip
  <2> QED BY <2>1, <2>2 DEF Sending
<1>4. CASE \/ \E t \in Token : Refresh(r, t) \/ RevokeOne(r, t)
           \/ \E u \in User, t \in Token \cup {NoToken} : Logout(r, u, t)
           \/ RefreshGetUser(r) \/ RevokeAllSelect(r) \/ Commit(r)
           \/ Respond(r) \/ Rollback(r) \/ Abort(r)
  <2>1. pc'[r] # "flush"
    BY <1>4 DEF Refresh, RevokeOne, Logout, RefreshGetUser, RevokeAllSelect, Commit,
                Respond, Rollback, Abort
  <2> QED BY <2>1 DEF Sending
<1> QED BY <1>1, <1>2, <1>3, <1>4 DEF Moves, Client, Handler

LEMMA StepSending ==
    ASSUME IInv, \A r \in Req : Sending(r), [Next]_vars
    PROVE  (\A r \in Req : Sending(r))'
<1>1. ASSUME NEW r \in Req, Moves(r), NEW q \in Req PROVE Sending(q)'
  <2>1. CASE q = r
    BY <1>1, <2>1, MoveSending
  <2>2. CASE q # r
    BY <1>1, <2>2, MoveSame DEF Same, Sending, IInv
  <2> QED BY <2>1, <2>2
<1>2. ASSUME \/ \E u \in User : Deactivate(u)
             \/ \E t \in Token : Expire(t) \/ Forget(t)
             \/ UNCHANGED vars
      PROVE  (\A r \in Req : Sending(r))'
  <2>1. UNCHANGED <<pc, locks, dirty>>
    BY <1>2 DEF Deactivate, Expire, Forget, vars, reqVars
  <2> QED BY <2>1 DEF Sending
<1> QED BY <1>1, <1>2, StepOf

(* Of the rows left to a flush one has the lowest key. *)
LEMMA NextRowExists ==
    ASSUME TypeOK, NEW r \in Req, dirty[r] \ locks[r] # {}
    PROVE  \E row \in Row : NextRow(r, row)
<1> DEFINE D == dirty[r] \ locks[r]
           up == [row \in D |-> Rank[row]]
<1>1. D \subseteq Row /\ IsFiniteSet(D)
  <2>1. IsFiniteSet(Row)
    BY Finite, FS_Union DEF Row, Token
  <2> QED BY <2>1, FS_Subset DEF TypeOK
<1>2. up \in [D -> Nat]
  BY <1>1, RankType
<1>3. PICK top \in D : \A row \in D : up[row] <= up[top]
  BY <1>1, <1>2, FiniteMaximum
<1> DEFINE down == [row \in D |-> up[top] - up[row]]
<1>4. down \in [D -> Nat]
  <2>1. ASSUME NEW row \in D PROVE up[top] - up[row] \in Nat
    <3>1. up[row] <= up[top] /\ up[row] \in Nat /\ up[top] \in Nat
      BY <1>2, <1>3
    <3> QED BY <3>1
  <2> QED BY <2>1
<1>5. PICK low \in D : \A row \in D : down[row] <= down[low]
  BY <1>1, <1>4, FiniteMaximum
<1>6. ASSUME NEW row \in D PROVE Rank[low] <= Rank[row]
  <2>1. up[top] - up[row] <= up[top] - up[low]
    BY <1>5
  <2>2. up[row] \in Nat /\ up[low] \in Nat /\ up[top] \in Nat
    BY <1>2
  <2>3. up[low] <= up[row]
    BY <2>1, <2>2
  <2> QED BY <2>3
<1> QED BY <1>1, <1>6 DEF NextRow

(* The requests that have been accepted and are not answered yet. *)
UnderWay == {r \in Req : pc[r] \notin {"idle", "done"}}

(* The guards of the handler steps, taken together: only a flush can wait.   *)
CanGoOn(r) ==
    \/ pc[r] = "lookup" /\ kind[r] \in {"refresh", "logout"}
    \/ pc[r] \in {"get_user", "select_all", "revoking", "commit", "respond", "reject"}
    \/ pc[r] = "flush" /\ \E row \in Row : NextRow(r, row) /\ Free(r, row)

SomeoneGoesOn == UnderWay # {} => \E r \in UnderWay : CanGoOn(r)

(* Of the requests under way one waits for no row lock at all, and has a    *)
(* next UPDATE when it stands in a flush: the locks that block a flush are  *)
(* all held by requests under way, whose sessions are still open.           *)
LEMMA OneIsFree ==
    ASSUME IInv, NoLockCycle, \A r \in Req : Sending(r)
    PROVE  SomeoneGoesOn
<1> SUFFICES ASSUME UnderWay # {} PROVE \E r \in UnderWay : CanGoOn(r)
  BY DEF SomeoneGoesOn
<1>1. PICK r \in UnderWay : \A q \in UnderWay : ~WaitsFor(r, q)
  BY DEF NoLockCycle, UnderWay
<1>2. r \in Req /\ pc[r] \in PC \ {"idle", "done"}
  BY DEF UnderWay, IInv, TypeOK
<1>3. SUFFICES ASSUME pc[r] = "flush"
               PROVE  \E row \in Row : NextRow(r, row) /\ Free(r, row)
  <2>1. pc[r] = "lookup" => kind[r] \in {"refresh", "logout"}
    BY <1>2 DEF IInv, TypeOK, Kind, Sound, Phase
  <2> QED BY <1>1, <1>2, <2>1 DEF CanGoOn, PC
<1>4. PICK row \in Row : NextRow(r, row)
  BY <1>2, <1>3, NextRowExists DEF IInv, Sending
<1>5. ASSUME NEW q \in Req \ {r} PROVE row \notin locks[q]
  <2>1. CASE q \in UnderWay
    BY <1>1, <1>3, <1>4, <2>1 DEF WaitsFor
  <2>2. CASE q \notin UnderWay
    <3>1. Sound(q) /\ pc[q] \in {"idle", "done"}
      BY <2>2 DEF IInv, UnderWay
    <3>2. locks[q] = {}
      BY <3>1 DEF Sound, Idle
    <3> QED BY <3>2
  <2> QED BY <2>1, <2>2
<1> QED BY <1>4, <1>5 DEF Free

(* While any request is under way, one of them can go on at once: the       *)
(* waiting for row locks never stops the whole service (flush, get_session).*)
THEOREM ServiceGoesOn == Spec => []SomeoneGoesOn
<1> DEFINE AllSending == \A r \in Req : Sending(r)
<1>1. Init => AllSending
  BY DEF Init, Sending
<1>2. IInv /\ AllSending /\ [Next]_vars => AllSending'
  BY StepSending
<1>3. IInv /\ NoLockCycle /\ AllSending => SomeoneGoesOn
  BY OneIsFree
<1> QED BY <1>1, <1>2, <1>3, Inductive, DeadlockFree, PTL DEF Spec
=============================================================================
