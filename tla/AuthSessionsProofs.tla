------------------------- MODULE AuthSessionsProofs -------------------------
(***************************************************************************)
(* The safety properties of AuthSessions, for any number of accounts,      *)
(* requests and tokens.                                                    *)
(***************************************************************************)
EXTENDS AuthSessionsInvariant, TLAPS

(* The steps in which request r is the one that moves. *)
Moves(r) == Client(r) \/ Handler(r) \/ Abort(r)

(* Every step moves one request, or is a step of the outside world. *)
LEMMA StepOf ==
    ASSUME [Next]_vars
    PROVE  \/ \E r \in Req : Moves(r)
           \/ \E u \in User : Deactivate(u)
           \/ \E t \in Token : Expire(t) \/ Forget(t)
           \/ UNCHANGED vars
BY DEF Next, Environment, Moves

(* One step of r keeps every variable within its type. *)
LEMMA MoveTyping ==
    ASSUME TypeOK, NEW r \in Req, Sound(r), Moves(r)
    PROVE  TypeOK'
<1> USE DEF TypeOK, Goto, Log, Raise, CloseSession, reqVars, dbVars, Kind, Answer,
            Event, PC
<1>1. CASE Login(r)
  BY <1>1 DEF Login, LoginBegin, LoginUnknown, LoginInactive, LoginAccepted, Row
<1>2. ASSUME NEW t \in Token, Refresh(r, t) PROVE TypeOK'
  <2>1. Owner(t) \in User \cup {NoUser}
    BY HeldType DEF Owner, Token
  <2>2. LiveOf(Owner(t)) \subseteq Token
    BY DEF LiveOf
  <2> QED BY <1>2, <2>1, <2>2 DEF Refresh
<1>3. ASSUME NEW u \in User, NEW t \in Token \cup {NoToken}, Logout(r, u, t)
      PROVE  TypeOK'
  <2>1. LiveOf(u) \subseteq Token
    BY DEF LiveOf
  <2> QED BY <1>3, <2>1 DEF Logout
<1>4. CASE RefreshLookup(r)
  <2>1. arg[r] \in Token
    BY <1>4 DEF RefreshLookup, Sound, Names
  <2> QED BY <1>4, <2>1 DEF RefreshLookup, Row
<1>5. CASE RefreshGetUser(r)
  BY <1>5 DEF RefreshGetUser
<1>6. CASE LogoutLookup(r)
  <2>1. arg[r] \in Row
    BY <1>6 DEF LogoutLookup, Sound, Phase, Row
  <2> QED BY <1>6, <2>1 DEF LogoutLookup, Found, FlushOrSkip
<1>7. CASE RevokeAllSelect(r)
  BY <1>7 DEF RevokeAllSelect, Selected, LiveOf
<1>8. ASSUME NEW t \in Token, RevokeOne(r, t) PROVE TypeOK'
  BY <1>8 DEF RevokeOne, Row
<1>9. CASE RevokeAllDone(r)
  BY <1>9 DEF RevokeAllDone, FlushOrSkip
<1>10. ASSUME NEW row \in Row, FlushRow(r, row) PROVE TypeOK'
  BY <1>10 DEF FlushRow, AfterFlush
<1>11. CASE Commit(r)
  <2>1. status' \in [Token -> {"absent", "live", "revoked"}]
    BY <1>11 DEF Commit, Written
  <2>2. audit' \subseteq [req : Req, event : Event]
    <3>1. entry[r] \in Event
      BY <1>11 DEF Commit, Sound, Entering, Phase
    <3> QED BY <1>11, <3>1 DEF Commit
  <2> QED BY <1>11, <2>1, <2>2 DEF Commit
<1>12. CASE Respond(r) \/ Rollback(r) \/ Abort(r)
  BY <1>12 DEF Respond, Rollback, Abort
<1> QED
  BY <1>1, <1>2, <1>3, <1>4, <1>5, <1>6, <1>7, <1>8, <1>9, <1>10, <1>11, <1>12
     DEF Moves, Client, Handler

-----------------------------------------------------------------------------
(* The variables of request q stay as they are. *)
Same(q) ==
    /\ pc'[q] = pc[q] /\ kind'[q] = kind[q] /\ user'[q] = user[q]
    /\ arg'[q] = arg[q] /\ todo'[q] = todo[q] /\ dirty'[q] = dirty[q]
    /\ entry'[q] = entry[q] /\ answer'[q] = answer[q]
    /\ locks'[q] = locks[q] /\ live0'[q] = live0[q]

(* Rows only move on, and a stored row keeps its owner. *)
Forward ==
    \A t \in Token : Stored(t) =>
        /\ Stored(t)' /\ Owner(t)' = Owner(t)
        /\ status[t] = "revoked" => status'[t] = "revoked"

(* A request that moves leaves the others' variables alone. *)
LEMMA MoveSame ==
    ASSUME TypeOK, NEW r \in Req, Moves(r), NEW q \in Req \ {r}
    PROVE  Same(q)
<1> USE DEF TypeOK, Same, Goto, Log, Raise, CloseSession, reqVars, dbVars
<1>1. CASE Client(r)
  BY <1>1 DEF Client, Login, LoginBegin, LoginUnknown, LoginInactive,
              LoginAccepted, Refresh, Logout
<1>2. CASE RefreshLookup(r) \/ RefreshGetUser(r) \/ LogoutLookup(r)
  BY <1>2 DEF RefreshLookup, RefreshGetUser, LogoutLookup
<1>3. CASE RevokeAllSelect(r) \/ RevokeAllDone(r) \/ \E t \in Token : RevokeOne(r, t)
  BY <1>3 DEF RevokeAllSelect, RevokeAllDone, RevokeOne
<1>4. CASE \E row \in Row : FlushRow(r, row)
  BY <1>4 DEF FlushRow
<1>5. CASE Commit(r) \/ Respond(r) \/ Rollback(r) \/ Abort(r)
  BY <1>5 DEF Commit, Respond, Rollback, Abort
<1> QED BY <1>1, <1>2, <1>3, <1>4, <1>5 DEF Moves, Handler

(* Only a commit writes rows: it revokes stored rows, and inserts its own. *)
LEMMA MoveStatus ==
    ASSUME TypeOK, NEW r \in Req, Sound(r), Moves(r)
    PROVE  \/ UNCHANGED status
           \/ /\ pc[r] = "commit" /\ Commit(r)
              /\ status[r] = "absent" \/ r \in dirty[r]
<1>1. CASE Client(r)
  BY <1>1 DEF Client, Login, LoginBegin, LoginUnknown, LoginInactive,
              LoginAccepted, Refresh, Logout, dbVars
<1>2. CASE Commit(r)
  BY <1>2 DEF Commit, Sound, OwnRow, Stored, Answered
<1>3. CASE Abort(r)
  BY <1>3 DEF Abort, dbVars
<1>4. CASE Handler(r) /\ ~Commit(r)
  BY <1>4 DEF Handler, RefreshLookup, RefreshGetUser, LogoutLookup,
              RevokeAllSelect, RevokeOne, RevokeAllDone, FlushRow, Respond,
              Rollback, dbVars
<1> QED BY <1>1, <1>2, <1>3, <1>4 DEF Moves

(* An account is bound to a request when it starts, before it stores a row. *)
LEMMA MoveUser ==
    ASSUME TypeOK, NEW r \in Req, Sound(r), Moves(r)
    PROVE  user'[r] = user[r] \/ (pc[r] = "idle" /\ status[r] = "absent")
<1>1. pc[r] = "idle" => status[r] = "absent"
  BY DEF Sound, OwnRow, Phase, Issuing, Stored
<1>2. CASE Client(r)
  BY <1>1, <1>2 DEF Client, Login, LoginBegin, LoginUnknown, LoginInactive,
              LoginAccepted, Refresh, Logout
<1>3. CASE Abort(r)
  BY <1>3 DEF Abort
<1>4. CASE Handler(r)
  BY <1>4 DEF Handler, RefreshLookup, RefreshGetUser, LogoutLookup,
              RevokeAllSelect, RevokeOne, RevokeAllDone, FlushRow, Commit,
              Respond, Rollback
<1> QED BY <1>2, <1>3, <1>4 DEF Moves

LEMMA MoveForward ==
    ASSUME TypeOK, NEW r \in Req, Sound(r), Moves(r)
    PROVE  /\ Forward
           /\ \A q \in Req \ {r} : Stored(q)' => Stored(q)
<1>1. Forward
  <2> SUFFICES ASSUME NEW t \in Token, Stored(t)
               PROVE  /\ Stored(t)' /\ Owner(t)' = Owner(t)
                      /\ status[t] = "revoked" => status'[t] = "revoked"
    BY DEF Forward
  <2>1. Owner(t)' = Owner(t)
    BY MoveSame, MoveUser, Disjoint DEF Owner, Stored, Same, Token
  <2>2. status'[t] = status[t] \/ status'[t] = "revoked" \/ status[t] = "absent"
    BY MoveStatus DEF Commit, Written, TypeOK
  <2> QED BY <2>1, <2>2 DEF Stored
<1>2. ASSUME NEW q \in Req \ {r}, Stored(q)' PROVE Stored(q)
  <2>1. q \in Token
    BY DEF Token
  <2>2. q \in dirty[r] => Stored(q)
    BY <2>1 DEF Sound, Names, Mine
  <2> QED BY <1>2, <2>1, <2>2, MoveStatus DEF Commit, Written, TypeOK, Stored
<1> QED BY <1>1, <1>2

-----------------------------------------------------------------------------
(* The frame: what is said of a request that does not move stays true. *)
LEMMA Frame ==
    ASSUME TypeOK, NEW q \in Req, Sound(q), Same(q), Forward,
           Stored(q)' => Stored(q)
    PROVE  Sound(q)'
<1> USE DEF Same
<1>1. Phase(q)'
  BY DEF Sound, Phase
<1>2. Idle(q)'
  BY DEF Sound, Idle
<1>3. OwnRow(q)'
  BY DEF Sound, OwnRow, Issuing, Answered, Forward, Token
<1>4. Entering(q)'
  BY DEF Sound, Entering
<1>5. ASSUME NEW t \in Token, Mine(q, t) PROVE Mine(q, t)'
  BY <1>5 DEF Mine, Forward
<1>6. Names(q)'
  <2>1. arg[q] # NoToken => arg[q] \in Token /\ Stored(arg[q])'
    BY DEF Sound, Names, Forward, TypeOK
  <2>2. \A t \in live0[q] \cup todo[q] : Mine(q, t)'
    BY <1>5 DEF Sound, Names, TypeOK
  <2>3. \A t \in dirty[q] \cap Token : Mine(q, t)'
    BY <1>5 DEF Sound, Names
  <2>4. kind[q] = "refresh" => arg[q] # NoToken /\ Mine(q, arg[q])'
    BY <1>5, <2>1 DEF Sound, Names
  <2> QED
    BY <2>1, <2>2, <2>3, <2>4 DEF Names, Mine, Stored, Owner
<1>7. arg[q] \in Token => (status[arg[q]] = "revoked" => status'[arg[q]] = "revoked")
  BY DEF Forward, Stored
<1>8. Rotating(q)'
  BY <1>7 DEF Sound, Rotating, Names, Answered, TypeOK
<1>9. LoggingOut(q)'
  BY <1>7 DEF Sound, LoggingOut, Carried, Names, Mine, Forward, TypeOK
<1>10. Scope(q)'
  BY DEF Sound, Scope
<1> QED BY <1>1, <1>2, <1>3, <1>4, <1>6, <1>8, <1>9, <1>10 DEF Sound

-----------------------------------------------------------------------------
(* A client only holds tokens that are stored. *)
LEMMA HandedStored ==
    ASSUME IInv, NEW t \in Handed
    PROVE  t \in Token /\ Stored(t)
BY DEF IInv, Handed, Minted, Sound, OwnRow, Issuing, Token

LEMMA LoginSound ==
    ASSUME IInv, NEW r \in Req, Login(r)
    PROVE  Sound(r)'
<1> USE DEF IInv, TypeOK, Goto, Log, Raise, dbVars
<1>1. /\ Sound(r) /\ kind[r] = "none" /\ ~Stored(r)
      /\ locks[r] = {} /\ dirty[r] = {} /\ live0[r] = {} /\ todo[r] = {}
      /\ arg[r] = NoToken
  BY DEF Login, LoginBegin, LoginUnknown, LoginInactive, LoginAccepted, Sound,
         Phase, Idle, OwnRow, Issuing
<1>2. ~Stored(r)'
  BY <1>1 DEF Stored, Login, LoginBegin, LoginUnknown, LoginInactive,
              LoginAccepted
<1>3. /\ kind'[r] = "login" /\ arg'[r] = NoToken /\ live0'[r] = {}
      /\ todo'[r] = {} /\ locks'[r] = {} /\ dirty'[r] \subseteq User
      /\ \/ pc'[r] = "reject" /\ answer'[r] = "unauthorized"
         \/ /\ pc'[r] = "flush" /\ answer'[r] = answer[r] /\ user'[r] \in User
            /\ entry'[r] = "login_success"
  BY <1>1 DEF Login, LoginBegin, LoginUnknown, LoginInactive, LoginAccepted
<1>4. Scope(r)'
  BY <1>3, Disjoint DEF Scope
<1>5. Phase(r)' /\ Idle(r)' /\ OwnRow(r)' /\ Entering(r)'
  BY <1>1, <1>2, <1>3 DEF Phase, Idle, OwnRow, Entering, Issuing, Answered,
                          Login, LoginBegin, Sound, LoginUnknown,
                          LoginInactive, LoginAccepted
<1>6. Names(r)' /\ Rotating(r)' /\ LoggingOut(r)'
  BY <1>3, Disjoint DEF Names, Rotating, LoggingOut
<1> QED BY <1>4, <1>5, <1>6 DEF Sound

LEMMA RefreshSound ==
    ASSUME IInv, NEW r \in Req, NEW t \in Token, Refresh(r, t)
    PROVE  Sound(r)'
<1> USE DEF IInv, TypeOK, Goto, Log, Raise, dbVars
<1>1. /\ Sound(r) /\ kind[r] = "none" /\ ~Stored(r) /\ answer[r] = "none"
      /\ locks[r] = {} /\ dirty[r] = {} /\ todo[r] = {}
  BY DEF Refresh, Sound, Phase, Idle, OwnRow, Issuing
<1>2. t \in Token /\ Stored(t)
  BY HandedStored DEF Refresh
<1>3. Forward
  BY MoveForward DEF Moves, Client
<1>4. ~Stored(r)'
  BY <1>1 DEF Stored, Refresh
<1>5. /\ kind'[r] = "refresh" /\ arg'[r] = t /\ user'[r] = Owner(t)
      /\ live0'[r] = LiveOf(Owner(t)) /\ todo'[r] = {} /\ locks'[r] = {}
      /\ dirty'[r] = {}
      /\ \/ pc'[r] = "reject" /\ answer'[r] = "unauthorized"
         \/ pc'[r] \in {"lookup", "select_all"} /\ answer'[r] = "none"
  BY <1>1 DEF Refresh
<1>6. Phase(r)' /\ Idle(r)' /\ OwnRow(r)' /\ Entering(r)' /\ Scope(r)'
  BY <1>2, <1>4, <1>5, Disjoint DEF Phase, Idle, OwnRow, Entering, Scope, Answered
<1>7. \A s \in LiveOf(Owner(t)) : Mine(r, s)'
  BY <1>3, <1>5 DEF LiveOf, Mine, Stored, Forward
<1>8. Mine(r, t)'
  BY <1>2, <1>3, <1>5 DEF Mine, Forward
<1>9. t \in LiveOf(Owner(t)) \/ status'[t] = "revoked"
  BY <1>2, <1>3 DEF LiveOf, Stored, Forward
<1>10. Names(r)'
  <2>1. arg'[r] # NoToken /\ Stored(arg[r])'
    BY <1>2, <1>5, <1>8, Disjoint DEF Mine, Stored
  <2>2. Mine(r, arg[r])'
    BY <1>5, <1>8 DEF Mine, Stored, Owner
  <2> QED BY <2>1, <2>2, <1>5, <1>7 DEF Names
<1>11. Rotating(r)' /\ LoggingOut(r)'
  BY <1>4, <1>5, <1>9 DEF Rotating, LoggingOut, Answered
<1> QED BY <1>6, <1>10, <1>11 DEF Sound

LEMMA LogoutSound ==
    ASSUME IInv, NEW r \in Req, NEW u \in User, NEW t \in Token \cup {NoToken},
           Logout(r, u, t)
    PROVE  Sound(r)'
<1> USE DEF IInv, TypeOK, Goto, Log, Raise, dbVars
<1>1. /\ Sound(r) /\ kind[r] = "none" /\ ~Stored(r) /\ answer[r] = "none"
      /\ locks[r] = {} /\ dirty[r] = {} /\ todo[r] = {}
  BY DEF Logout, Sound, Phase, Idle, OwnRow, Issuing
<1>2. t # NoToken => t \in Token /\ Stored(t)
  BY HandedStored DEF Logout
<1>3. Forward
  BY MoveForward DEF Moves, Client
<1>4. ~Stored(r)'
  BY <1>1 DEF Stored, Logout
<1>5. /\ kind'[r] = "logout" /\ arg'[r] = t /\ user'[r] = u
      /\ live0'[r] = LiveOf(u) /\ todo'[r] = {} /\ locks'[r] = {}
      /\ dirty'[r] = {}
      /\ \/ pc'[r] = "reject" /\ answer'[r] = "unauthorized"
         \/ pc'[r] = "lookup" /\ t # NoToken /\ answer'[r] = "none"
         \/ pc'[r] = "select_all" /\ t = NoToken /\ answer'[r] = "none"
  BY <1>1 DEF Logout
<1>6. Phase(r)' /\ Idle(r)' /\ OwnRow(r)' /\ Entering(r)' /\ Scope(r)'
  BY <1>2, <1>4, <1>5 DEF Phase, Idle, OwnRow, Entering, Scope, Answered, Issuing
<1>7. \A s \in LiveOf(u) : Mine(r, s)'
  BY <1>3, <1>5 DEF LiveOf, Mine, Stored, Forward
<1>8. Names(r)' /\ Rotating(r)' /\ LoggingOut(r)'
  <2>1. arg'[r] # NoToken => Stored(arg[r])'
    BY <1>2, <1>3, <1>5 DEF Forward, Stored
  <2> QED BY <2>1, <1>5, <1>7 DEF Names, Rotating, LoggingOut, Carried
<1> QED BY <1>6, <1>8 DEF Sound

(* The steps of a handler before its commit. *)
LEMMA LookupSound ==
    ASSUME IInv, NEW r \in Req, RefreshLookup(r) \/ LogoutLookup(r)
    PROVE  Sound(r)'
<1> USE DEF IInv, TypeOK, Goto, Log, Raise, dbVars
<1>1. /\ Sound(r) /\ pc[r] = "lookup" /\ arg[r] \in Token /\ Stored(arg[r])
      /\ locks[r] = {} /\ dirty[r] = {} /\ answer[r] = "none" /\ ~Stored(r)
  BY DEF RefreshLookup, LogoutLookup, Sound, Phase, Idle, Names, OwnRow, Answered
<1>2. CASE RefreshLookup(r)
  <2>1. /\ UNCHANGED <<status, kind, user, arg, live0, todo, locks, entry>>
        /\ \/ /\ pc'[r] = "flush" /\ dirty'[r] = {arg[r]} /\ answer'[r] = "none"
              /\ status[arg[r]] = "live"
           \/ pc'[r] = "reject" /\ dirty'[r] = {} /\ answer'[r] = "unauthorized"
    BY <1>1, <1>2 DEF RefreshLookup, Usable
  <2>2. kind[r] = "refresh"
    BY <1>2 DEF RefreshLookup
  <2>3. Phase(r)' /\ Idle(r)' /\ OwnRow(r)' /\ Entering(r)' /\ Scope(r)'
    BY <1>1, <2>1, <2>2 DEF Sound, Phase, Idle, OwnRow, Entering, Scope, Issuing,
                            Answered, Stored
  <2>4. Names(r)'
    BY <1>1, <2>1, <2>2 DEF Sound, Names, Mine, Stored, Owner
  <2>5. Rotating(r)' /\ LoggingOut(r)'
    BY <1>1, <2>1, <2>2 DEF Sound, Rotating, LoggingOut, Answered, Stored
  <2> QED BY <2>3, <2>4, <2>5 DEF Sound
<1>3. CASE LogoutLookup(r)
  <2>1. /\ UNCHANGED <<status, kind, user, arg, live0, todo, locks, answer>>
        /\ entry'[r] = "user_logout"
        /\ dirty'[r] = {t \in {arg[r]} : Stored(t) /\ Owner(t) = user[r]}
        /\ pc'[r] = "flush" \/ pc'[r] = "commit"
    BY <1>1, <1>3 DEF LogoutLookup, Found, FlushOrSkip, Stored
  <2>2. kind[r] = "logout"
    BY <1>3 DEF LogoutLookup
  <2>3. Phase(r)' /\ Idle(r)' /\ OwnRow(r)' /\ Entering(r)' /\ Scope(r)'
    BY <1>1, <2>1, <2>2 DEF Sound, Phase, Idle, OwnRow, Entering, Scope, Issuing,
                            Answered, Stored
  <2>4. Names(r)'
    BY <1>1, <2>1, <2>2 DEF Sound, Names, Mine, Stored, Owner
  <2>5. Rotating(r)' /\ LoggingOut(r)'
    <3>1. Owner(arg[r])' = Owner(arg[r])
      BY <2>1 DEF Owner
    <3>2. arg[r] # NoToken
      BY <1>1 DEF Sound, Phase
    <3> QED BY <1>1, <2>1, <2>2, <3>1, <3>2 DEF Rotating, LoggingOut, Carried
  <2> QED BY <2>3, <2>4, <2>5 DEF Sound
<1> QED BY <1>2, <1>3

LEMMA GetUserSound ==
    ASSUME IInv, NEW r \in Req, RefreshGetUser(r)
    PROVE  Sound(r)'
<1> USE DEF IInv, TypeOK, Goto, Log, Raise, dbVars
<1>1. /\ Sound(r) /\ kind[r] = "refresh" /\ pc[r] = "get_user" /\ ~Stored(r)
      /\ answer[r] = "none"
  BY DEF RefreshGetUser, Sound, Phase, OwnRow, Answered
<1>2. /\ UNCHANGED <<status, kind, user, arg, live0, todo, dirty, locks>>
      /\ \/ pc'[r] = "commit" /\ answer'[r] = "none" /\ entry'[r] = "token_refreshed"
         \/ pc'[r] = "reject" /\ answer'[r] = "unauthorized"
  BY <1>1 DEF RefreshGetUser
<1>3. Phase(r)' /\ Idle(r)' /\ OwnRow(r)' /\ Entering(r)' /\ Scope(r)'
  BY <1>1, <1>2 DEF Sound, Phase, Idle, OwnRow, Entering, Scope, Issuing, Answered,
                    Stored
<1>4. Names(r)'
  BY <1>1, <1>2 DEF Sound, Names, Mine, Stored, Owner
<1>5. Rotating(r)' /\ LoggingOut(r)'
  BY <1>1, <1>2 DEF Sound, Rotating, LoggingOut, Answered, Stored
<1> QED BY <1>3, <1>4, <1>5 DEF Sound

LEMMA RevokeAllSound ==
    ASSUME IInv, NEW r \in Req,
           \/ RevokeAllSelect(r) \/ RevokeAllDone(r)
           \/ \E t \in Token : RevokeOne(r, t)
    PROVE  Sound(r)'
<1> USE DEF IInv, TypeOK, Goto, Log, Raise, dbVars
<1>1. /\ Sound(r) /\ ~Stored(r) /\ answer[r] = "none" /\ locks[r] = {}
      /\ kind[r] = "refresh" \/ (kind[r] = "logout" /\ arg[r] = NoToken)
  BY DEF RevokeAllSelect, RevokeAllDone, RevokeOne, Sound, Phase, Idle, OwnRow,
         Answered, Kind
<1>2. /\ UNCHANGED <<status, kind, user, arg, live0, locks>>
      /\ \A t \in Token : Owner(t)' = Owner(t)
  BY DEF RevokeAllSelect, RevokeAllDone, RevokeOne, Owner
<1>3. CASE RevokeAllSelect(r)
  <2>1. /\ pc[r] = "select_all" /\ pc'[r] = "revoking" /\ UNCHANGED <<dirty, answer>>
        /\ todo'[r] = LiveOf(user[r]) /\ dirty[r] = {}
    BY <1>1, <1>3 DEF RevokeAllSelect, Selected, Sound, Idle
  <2>2. Phase(r)' /\ Idle(r)' /\ OwnRow(r)' /\ Entering(r)' /\ Scope(r)'
    BY <1>1, <1>2, <2>1 DEF Sound, Phase, Idle, OwnRow, Entering, Scope, Issuing,
                            Answered, Stored
  <2>3. \A t \in LiveOf(user[r]) : Mine(r, t)'
    BY <1>2 DEF LiveOf, Mine, Stored
  <2>4. Names(r)'
    BY <1>1, <1>2, <2>1, <2>3 DEF Sound, Names, Mine, Stored
  <2>5. \A t \in live0[r] : status[t] = "revoked" \/ t \in LiveOf(user[r])
    BY <1>1 DEF LiveOf, Sound, Names, Mine, Stored
  <2>6. Rotating(r)' /\ LoggingOut(r)'
    BY <1>1, <1>2, <2>1, <2>5 DEF Sound, Rotating, LoggingOut, Carried, Answered, Stored
  <2> QED BY <2>2, <2>4, <2>6 DEF Sound
<1>4. ASSUME NEW t \in Token, RevokeOne(r, t) PROVE Sound(r)'
  <2>1. /\ pc[r] = "revoking" /\ pc'[r] = "revoking" /\ UNCHANGED <<answer, entry>>
        /\ t \in todo[r] /\ todo'[r] = todo[r] \ {t}
        /\ dirty'[r] = dirty[r] \cup {t}
    BY <1>4 DEF RevokeOne
  <2>2. Phase(r)' /\ Idle(r)' /\ OwnRow(r)' /\ Entering(r)' /\ Scope(r)'
    BY <1>1, <1>2, <2>1 DEF Sound, Phase, Idle, OwnRow, Entering, Scope, Issuing,
                            Answered, Stored
  <2>3. Names(r)'
    BY <1>1, <1>2, <2>1 DEF Sound, Names, Mine, Stored
  <2>4. Rotating(r)' /\ LoggingOut(r)'
    BY <1>1, <1>2, <2>1 DEF Sound, Rotating, LoggingOut, Carried, Answered, Stored
  <2> QED BY <2>2, <2>3, <2>4 DEF Sound
<1>5. CASE RevokeAllDone(r)
  <2>1. /\ pc[r] = "revoking" /\ todo[r] = {} /\ UNCHANGED <<dirty, todo>>
        /\ \/ kind[r] = "refresh" /\ pc'[r] = "reject" /\ answer'[r] = "reuse"
           \/ /\ kind[r] = "logout" /\ answer'[r] = "none"
              /\ pc'[r] \in {"flush", "commit"} /\ entry'[r] = "user_logout"
    BY <1>1, <1>5 DEF RevokeAllDone, FlushOrSkip
  <2>2. Phase(r)' /\ Idle(r)' /\ OwnRow(r)' /\ Entering(r)' /\ Scope(r)'
    BY <1>1, <1>2, <2>1 DEF Sound, Phase, Idle, OwnRow, Entering, Scope, Issuing,
                            Answered, Stored
  <2>3. Names(r)'
    BY <1>1, <1>2, <2>1 DEF Sound, Names, Mine, Stored
  <2>4. Rotating(r)' /\ LoggingOut(r)'
    BY <1>1, <1>2, <2>1 DEF Sound, Rotating, LoggingOut, Carried, Answered, Stored
  <2> QED BY <2>2, <2>3, <2>4 DEF Sound
<1> QED BY <1>3, <1>4, <1>5

LEMMA FlushSound ==
    ASSUME IInv, NEW r \in Req, NEW row \in Row, FlushRow(r, row)
    PROVE  Sound(r)'
<1> USE DEF IInv, TypeOK, Goto, Log
<1>1. /\ Sound(r) /\ pc[r] = "flush" /\ ~Stored(r) /\ answer[r] = "none"
      /\ kind[r] # "none"
  BY DEF FlushRow, Sound, Phase, OwnRow, Answered
<1>2. /\ UNCHANGED <<status, kind, user, arg, live0, todo, dirty, entry, answer>>
      /\ \/ pc'[r] = "flush"
         \/ pc'[r] = "get_user" /\ kind[r] = "refresh"
         \/ pc'[r] = "commit" /\ kind[r] # "refresh"
  BY <1>1 DEF FlushRow, AfterFlush, dbVars
<1>3. Phase(r)' /\ Idle(r)' /\ OwnRow(r)' /\ Entering(r)' /\ Scope(r)'
  BY <1>1, <1>2 DEF Sound, Phase, Idle, OwnRow, Entering, Scope, Issuing, Answered,
                    Stored
<1>4. Names(r)'
  BY <1>1, <1>2 DEF Sound, Names, Mine, Stored, Owner
<1>5. Rotating(r)'
  BY <1>1, <1>2 DEF Sound, Rotating, Answered, Stored
<1>6. LoggingOut(r)'
  BY <1>1, <1>2 DEF Sound, LoggingOut, Carried, Owner
<1> QED BY <1>3, <1>4, <1>5, <1>6 DEF Sound

LEMMA CommitSound ==
    ASSUME IInv, NEW r \in Req, Commit(r)
    PROVE  Sound(r)'
<1> USE DEF IInv, TypeOK, Goto, Log, CloseSession
<1>1. /\ Sound(r) /\ pc[r] = "commit" /\ ~Stored(r) /\ answer[r] = "none"
      /\ kind[r] # "none"
  BY DEF Commit, Sound, Phase, OwnRow, Answered
<1>2. /\ UNCHANGED <<kind, user, arg, live0, answer, entry>>
      /\ pc'[r] = "respond" /\ locks'[r] = {} /\ dirty'[r] = {} /\ todo'[r] = {}
  BY DEF Commit
<1>3. \A t \in Token : t \in dirty[r] => status'[t] = "revoked"
  BY DEF Commit, Written
<1>4. Stored(r)' <=> Issuing(r) \/ r \in dirty[r]
  BY <1>1 DEF Commit, Written, Stored, Issuing, Token
<1>5. r \notin dirty[r]
  BY <1>1 DEF Sound, Names, Mine, Token
<1>6. Forward
  BY MoveForward DEF Moves, Handler
<1>7. Phase(r)' /\ Idle(r)' /\ OwnRow(r)' /\ Entering(r)' /\ Scope(r)'
  BY <1>1, <1>2, <1>4, <1>5 DEF Sound, Phase, Idle, OwnRow, Entering, Scope, Issuing,
                                Answered
<1>8. Names(r)'
  BY <1>1, <1>2, <1>6 DEF Sound, Names, Mine, Stored, Owner, Forward
<1>9. Rotating(r)'
  BY <1>1, <1>2, <1>3 DEF Sound, Rotating, Names, Mine, Answered
<1>10. LoggingOut(r)'
  <2>1. arg[r] \in Token => Owner(arg[r])' = Owner(arg[r])
    BY <1>2 DEF Owner
  <2>2. ASSUME NEW t \in Token, Carried(r, t) PROVE status'[t] = "revoked"
    BY <1>1, <1>3, <1>6, <2>2 DEF Carried, Forward, Stored
  <2>3. \A t \in live0[r] : t \in Token
    OBVIOUS
  <2> QED BY <1>1, <1>2, <2>1, <2>2, <2>3 DEF Sound, LoggingOut, Carried
<1> QED BY <1>7, <1>8, <1>9, <1>10 DEF Sound

LEMMA EndSound ==
    ASSUME IInv, NEW r \in Req, Respond(r) \/ Rollback(r) \/ Abort(r)
    PROVE  Sound(r)'
<1> USE DEF IInv, TypeOK, Goto, Log, CloseSession, dbVars
<1>1. Sound(r)
  OBVIOUS
<1>2. /\ UNCHANGED <<status, kind, user, arg, live0, entry>>
      /\ pc[r] # "idle" /\ pc'[r] = "done" /\ locks'[r] = {}
      /\ todo'[r] \subseteq todo[r] /\ dirty'[r] \subseteq dirty[r]
      /\ \/ pc[r] = "respond" /\ answer'[r] = "ok"
         \/ pc[r] = "reject" /\ answer'[r] = answer[r]
         \/ answer'[r] = "failed"
  BY <1>1 DEF Respond, Rollback, Abort, Sound, Idle
<1>3. Phase(r)' /\ Idle(r)' /\ Entering(r)' /\ Scope(r)'
  BY <1>1, <1>2 DEF Sound, Phase, Idle, Entering, Scope
<1>4. OwnRow(r)'
  <2>1. Stored(r)' = Stored(r) /\ Issuing(r)' = Issuing(r)
    BY <1>2 DEF Stored, Issuing
  <2>2. CASE pc[r] = "respond" /\ answer'[r] = "ok"
    BY <1>1, <1>2, <2>1, <2>2 DEF Sound, OwnRow, Answered
  <2>3. CASE pc[r] = "reject" /\ answer'[r] = answer[r]
    BY <1>1, <1>2, <2>1, <2>3 DEF Sound, Phase, OwnRow, Answered
  <2>4. CASE answer'[r] = "failed"
    BY <1>1, <1>2, <2>1, <2>4 DEF Sound, OwnRow, Answered
  <2> QED BY <1>2, <2>2, <2>3, <2>4
<1>5. Names(r)'
  BY <1>1, <1>2 DEF Sound, Names, Mine, Stored, Owner
<1>6. Rotating(r)'
  BY <1>1, <1>2 DEF Sound, Rotating, Phase, Answered, Stored
<1>7. LoggingOut(r)'
  BY <1>1, <1>2 DEF Sound, LoggingOut, Carried, Phase, Owner
<1> QED BY <1>3, <1>4, <1>5, <1>6, <1>7 DEF Sound

-----------------------------------------------------------------------------
LEMMA InitInv == Init => IInv
BY HeldType, Disjoint
   DEF Init, IInv, TypeOK, Kind, Answer, Event, PC, Row, Token, Sound, Phase,
       Idle, OwnRow, Entering, Scope, Names, Rotating, LoggingOut, Stored, Issuing,
       Answered

(* One lemma per handler, and the frame for everyone else. *)
LEMMA MoveInv ==
    ASSUME IInv, NEW r \in Req, Moves(r)
    PROVE  IInv'
<1>1. TypeOK'
  BY MoveTyping DEF IInv
<1>2. Forward /\ \A q \in Req \ {r} : Stored(q)' => Stored(q)
  BY MoveForward DEF IInv
<1>3. \A t \in Seed : Stored(t)'
  BY <1>2 DEF IInv, Forward, Token
<1>4. Sound(r)'
  BY LoginSound, RefreshSound, LogoutSound, LookupSound, GetUserSound,
     RevokeAllSound, FlushSound, CommitSound, EndSound DEF Moves, Client, Handler
<1>5. ASSUME NEW q \in Req \ {r} PROVE Sound(q)'
  BY <1>2, MoveSame, Frame DEF IInv
<1> QED BY <1>1, <1>3, <1>4, <1>5 DEF IInv

(* The outside world touches nothing the invariant of a request reads. *)
LEMMA WorldInv ==
    ASSUME IInv,
           \/ \E u \in User : Deactivate(u)
           \/ \E t \in Token : Expire(t) \/ Forget(t)
           \/ UNCHANGED vars
    PROVE  IInv'
<1>1. UNCHANGED <<status, locks, reqVars, live0>>
  BY DEF Deactivate, Expire, Forget, vars, dbVars
<1>2. TypeOK'
  BY <1>1 DEF IInv, TypeOK, Deactivate, Expire, Forget, vars, dbVars, reqVars,
              AgingType
<1>3. ASSUME NEW q \in Req PROVE Sound(q)'
  BY <1>1, Frame DEF IInv, Same, Forward, Stored, Owner, reqVars
<1> QED BY <1>1, <1>2, <1>3 DEF IInv, Stored

THEOREM Inductive == Spec => []IInv
<1>1. IInv /\ [Next]_vars => IInv'
  BY StepOf, MoveInv, WorldInv
<1> QED BY InitInv, <1>1, PTL DEF Spec

-----------------------------------------------------------------------------
(* Every variable keeps its type. *)
THEOREM TypeCorrect == Spec => []TypeOK
<1>1. IInv => TypeOK
  BY DEF IInv
<1> QED BY <1>1, Inductive, PTL

(* A refresh that is answered with tokens presented a token that was live   *)
(* in the database when it arrived: refresh_token, for any number of        *)
(* requests, accounts and tokens.                                           *)
THEOREM RefreshLive == Spec => []RefreshNeedsLiveToken
<1>1. IInv => RefreshNeedsLiveToken
  BY DEF IInv, RefreshNeedsLiveToken, Sound, Rotating
<1> QED BY <1>1, Inductive, PTL

(* Tokens in clients' hands are stored; refused requests leave no trace.    *)
THEOREM DurableAnswers == Spec => []AnswersAreDurable
<1>1. IInv => AnswersAreDurable
  BY DEF IInv, AnswersAreDurable, Sound, OwnRow, Idle, Minted, Stored, Issuing,
         Answered
<1> QED BY <1>1, Inductive, PTL

(* A successor and its parent are never usable together. *)
THEOREM RotationRevokes == Spec => []RotationKillsParent
<1>1. IInv => RotationKillsParent
  BY DEF IInv, RotationKillsParent, Sound, Rotating, Stored
<1> QED BY <1>1, Inductive, PTL

(* A logout answered 200 has revoked what it was asked to revoke, for good. *)
THEOREM LogoutRevokes == Spec => []LogoutTakesHold
<1>1. IInv => LogoutTakesHold
  BY DEF IInv, LogoutTakesHold, Sound, LoggingOut, Carried, Answered
<1> QED BY <1>1, Inductive, PTL

-----------------------------------------------------------------------------
(* The audit table changes in a commit only, and only grows. *)
LEMMA MoveAudit ==
    ASSUME TypeOK, NEW r \in Req, Moves(r)
    PROVE  \/ UNCHANGED <<audit, status>>
           \/ Commit(r)
<1>1. CASE Client(r)
  BY <1>1 DEF Client, Login, LoginBegin, LoginUnknown, LoginInactive,
              LoginAccepted, Refresh, Logout, dbVars
<1>2. CASE Abort(r)
  BY <1>2 DEF Abort, dbVars
<1>3. CASE Handler(r) /\ ~Commit(r)
  BY <1>3 DEF Handler, RefreshLookup, RefreshGetUser, LogoutLookup,
              RevokeAllSelect, RevokeOne, RevokeAllDone, FlushRow, Respond,
              Rollback, dbVars
<1> QED BY <1>1, <1>2, <1>3 DEF Moves

(* Once begun, a request stays what it is. *)
LEMMA MoveFixed ==
    ASSUME IInv, NEW r \in Req, Moves(r), NEW q \in Req, kind[q] # "none"
    PROVE  kind'[q] # "none" /\ user'[q] = user[q] /\ arg'[q] = arg[q]
<1>1. CASE q # r
  BY <1>1, MoveSame DEF IInv, Same
<1>2. CASE q = r
  <2>1. pc[r] # "idle"
    BY <1>2 DEF IInv, Sound, Phase
  <2>2. UNCHANGED <<kind, user, arg>>
    BY <2>1 DEF Moves, Client, Login, LoginUnknown, LoginInactive, LoginAccepted,
                LoginBegin, Refresh, Logout, Handler, RefreshLookup,
                RefreshGetUser, LogoutLookup, RevokeAllSelect, RevokeOne,
                RevokeAllDone, FlushRow, Commit, Respond, Rollback, Abort
  <2> QED BY <1>2, <2>2
<1> QED BY <1>1, <1>2

(* How the entry of a request explains a row it minted or revoked. *)
Explains(r, t) ==
    /\ user[r] = Owner(t)
    /\ \/ arg[r] = t /\ [req |-> r, event |-> "token_refreshed"] \in audit
       \/ arg[r] \in {t, NoToken} /\ [req |-> r, event |-> "user_logout"] \in audit

LEMMA MoveTrail ==
    ASSUME IInv, Trail, NEW r \in Req, Moves(r)
    PROVE  Trail'
<1>1. audit \subseteq audit' /\ \A e \in audit : kind'[e.req] # "none"
  <2>1. audit \subseteq audit'
    BY MoveAudit DEF IInv, Commit
  <2>2. \A e \in audit : e.req \in Req /\ kind[e.req] # "none"
    BY DEF IInv, TypeOK, Trail
  <2> QED BY <2>1, <2>2, MoveFixed
<1>2. Forward
  BY MoveForward DEF IInv
<1>3. ASSUME NEW q \in Req, NEW t \in Token, Stored(t), Explains(q, t)
      PROVE  Explains(q, t)'
  <2>1. kind[q] # "none"
    BY <1>3 DEF Explains, Trail
  <2>2. user'[q] = user[q] /\ arg'[q] = arg[q]
    BY <2>1, MoveFixed
  <2> QED BY <1>1, <1>2, <1>3, <2>2 DEF Explains, Forward
<1>4. CASE UNCHANGED <<audit, status>>
  <2>1. \A t \in Token : status[t] = "revoked" => \E q \in Req : Explains(q, t)'
    BY <1>3 DEF Trail, AuditExplainsTokens, Stored, Explains
  <2> QED BY <1>1, <1>4, <2>1 DEF Trail, AuditExplainsTokens, Explains
<1>5. CASE Commit(r)
  <2> DEFINE new == [req |-> r, event |-> entry[r]]
  <2>1. /\ audit' = audit \cup {new} /\ pc[r] = "commit" /\ kind[r] # "none"
        /\ UNCHANGED <<kind, user, arg>>
    BY <1>5 DEF Commit, IInv, Sound, Phase
  <2>2. \A e \in audit' : kind'[e.req] # "none"
    BY <1>1, <2>1
  <2>3. ASSUME NEW q \in Req, Stored(q)'
        PROVE  \E e \in {"login_success", "token_refreshed"} :
                   [req |-> q, event |-> e] \in audit'
    <3>1. CASE Stored(q)
      BY <1>1, <3>1 DEF Trail, AuditExplainsTokens, Stored
    <3>2. CASE ~Stored(q)
      <4>1. q = r
        BY <2>3, <3>2, MoveForward DEF IInv
      <4>2. Issuing(r)
        BY <1>5, <2>3, <4>1, CommitSound DEF Sound, OwnRow, Issuing, Commit
      <4> QED BY <2>1, <4>1, <4>2 DEF Issuing, IInv, Sound, Entering
    <3> QED BY <3>1, <3>2
  <2>4. ASSUME NEW t \in Token, status'[t] = "revoked"
        PROVE  \E q \in Req : Explains(q, t)'
    <3>1. CASE status[t] = "revoked"
      BY <1>3, <3>1 DEF Trail, AuditExplainsTokens, Stored, Explains
    <3>2. CASE status[t] # "revoked"
      <4>1. t \in dirty[r]
        BY <1>5, <2>4, <3>2 DEF Commit, Written
      <4>2. user'[r] = Owner(t)'
        BY <2>1, <4>1 DEF IInv, Sound, Names, Mine, Owner
      <4>3. CASE kind[r] = "refresh"
        BY <2>1, <4>1, <4>2, <4>3 DEF Explains, IInv, Sound, Rotating, Entering
      <4>4. CASE kind[r] = "logout"
        BY <2>1, <4>1, <4>2, <4>4 DEF Explains, IInv, Sound, Scope, Entering
      <4>5. kind[r] # "login"
        BY <4>1 DEF IInv, Sound, Scope
      <4> QED BY <2>1, <4>3, <4>4, <4>5 DEF IInv, TypeOK, Kind
    <3> QED BY <3>1, <3>2
  <2> QED BY <2>2, <2>3, <2>4 DEF Trail, AuditExplainsTokens, Explains, Stored
<1> QED BY <1>4, <1>5, MoveAudit DEF IInv

LEMMA WorldTrail ==
    ASSUME IInv, Trail,
           \/ \E u \in User : Deactivate(u)
           \/ \E t \in Token : Expire(t) \/ Forget(t)
           \/ UNCHANGED vars
    PROVE  Trail'
BY DEF Trail, AuditExplainsTokens, Deactivate, Expire, Forget, vars, dbVars,
       reqVars, Owner

(* The audit trail accounts for every token and every revocation, for any   *)
(* interleaving of requests, refusals and aborts.                           *)
THEOREM AuditComplete == Spec => []AuditExplainsTokens
<1>1. Init => Trail
  BY Disjoint DEF Init, Trail, AuditExplainsTokens, Token
<1>2. IInv /\ Trail /\ [Next]_vars => Trail'
  BY StepOf, MoveTrail, WorldTrail
<1>3. Trail => AuditExplainsTokens
  BY DEF Trail
<1> QED BY <1>1, <1>2, <1>3, Inductive, PTL DEF Spec

-----------------------------------------------------------------------------
(* What a commit is in the ledger. *)
LEMMA CommitLedger ==
    ASSUME IInv, NEW r \in Req, Commit(r)
    PROVE  Ledger!Next \/ UNCHANGED <<status, RowOwner>>
<1> USE DEF IInv
<1>1. /\ pc[r] = "commit" /\ ~Stored(r) /\ UNCHANGED user /\ r \in Token
      /\ status' = Written(r) /\ status \in [Token -> {"absent", "live", "revoked"}]
      /\ Sound(r) /\ r \notin Seed
  BY Disjoint DEF Commit, Sound, OwnRow, Answered, TypeOK, Token
<1>2. \A t \in Token : Owner(t)' = Owner(t)
  BY <1>1 DEF Owner
<1>3. \A t \in dirty[r] \cap Token : Stored(t) /\ Owner(t) = user[r] /\ RowOwner[t] = user[r]
  BY <1>1 DEF Sound, Names, Mine, RowOwner, Stored
<1>4. Owner(r) = user[r]
  BY <1>1 DEF Owner
<1>5. CASE kind[r] = "login"
  <2>1. user[r] \in User /\ dirty[r] \cap Token = {}
    BY <1>1, <1>5 DEF Sound, Scope
  <2>2. status' = [status EXCEPT ![r] = "live"]
    BY <1>1, <1>5, <2>1 DEF Written
  <2>3. RowOwner' = [RowOwner EXCEPT ![r] = user[r]]
    BY <1>1, <1>2, <1>4, <2>2 DEF RowOwner
  <2>4. Ledger!Open(r, user[r])
    BY <1>1, <2>2, <2>3 DEF Ledger!Open, Ledger!Enter, Stored
  <2> QED BY <1>1, <2>1, <2>4 DEF Ledger!Next
<1>6. CASE kind[r] = "refresh"
  <2> DEFINE p == arg[r]
  <2>1. dirty[r] = {p} /\ p \in Token /\ p # r /\ Stored(p) /\ Owner(p) = user[r]
    BY <1>1, <1>6 DEF Sound, Rotating, Names, Mine, TypeOK
  <2>2. status' = [status EXCEPT ![r] = "live", ![p] = "revoked"]
    BY <1>1, <1>6, <2>1 DEF Written
  <2>3. RowOwner' = [RowOwner EXCEPT ![r] = RowOwner[p]]
    BY <1>1, <1>2, <1>4, <2>1, <2>2 DEF RowOwner, Stored
  <2>4. Ledger!Rotate(p, r)
    BY <1>1, <2>1, <2>2, <2>3 DEF Ledger!Rotate, Ledger!Enter, Stored
  <2> QED BY <1>1, <2>1, <2>4 DEF Ledger!Next
<1>7. CASE kind[r] = "logout"
  <2> DEFINE S == dirty[r] \cap Token
  <2>1. user[r] \in User
    BY <1>1, <1>7 DEF Sound, Scope
  <2>2. status' = [t \in Token |-> IF t \in S THEN "revoked" ELSE status[t]]
    BY <1>1, <1>7 DEF Written
  <2>3. RowOwner' = RowOwner
    BY <1>2, <1>3, <2>2 DEF RowOwner, Stored
  <2>4. Ledger!Close(S, user[r])
    BY <1>3, <2>2, <2>3 DEF Ledger!Close, Stored
  <2> QED BY <2>1, <2>4 DEF Ledger!Next
<1> QED BY <1>1, <1>5, <1>6, <1>7 DEF Sound, Phase, TypeOK, Kind

(* The refresh_tokens table under concurrent requests implements the ledger *)
(* of TokenLedger: every commit is one Open, Rotate or Close, and every     *)
(* other step of every handler leaves the table and the ownership as it is. *)
THEOREM LedgerRefinement == Spec => LedgerSpec
<1>1. Init => Ledger!Init
  BY Disjoint DEF Init, Ledger!Init, RowOwner, Owner
<1>2. IInv /\ [Next]_vars => Ledger!Next \/ UNCHANGED <<status, RowOwner>>
  <2> SUFFICES ASSUME IInv, [Next]_vars
               PROVE  Ledger!Next \/ UNCHANGED <<status, RowOwner>>
    OBVIOUS
  <2>1. ASSUME NEW r \in Req, Moves(r), UNCHANGED status
        PROVE  UNCHANGED RowOwner
    BY <2>1, MoveForward DEF IInv, RowOwner, Forward, Stored
  <2>2. ASSUME NEW r \in Req, Moves(r)
        PROVE  Ledger!Next \/ UNCHANGED <<status, RowOwner>>
    BY <2>1, <2>2, MoveAudit, CommitLedger DEF IInv
  <2>3. ASSUME \/ \E u \in User : Deactivate(u)
               \/ \E t \in Token : Expire(t) \/ Forget(t)
               \/ UNCHANGED vars
        PROVE  UNCHANGED <<status, RowOwner>>
    BY <2>3 DEF Deactivate, Expire, Forget, vars, dbVars, reqVars, RowOwner, Owner
  <2> QED BY <2>2, <2>3, StepOf
<1> QED BY <1>1, <1>2, Inductive, PTL DEF Spec, LedgerSpec, Ledger!Spec

-----------------------------------------------------------------------------
(* A token that a rotation has replaced, or that a logout already answered  *)
(* was to revoke.                                                           *)
GivenUp(t) ==
    \E r \in Req :
        \/ kind[r] = "refresh" /\ arg[r] = t /\ Stored(r)
        \/ /\ kind[r] = "logout" /\ Answered(r, "ok")
           /\ \/ arg[r] = t /\ Owner(t) = user[r]
              \/ arg[r] = NoToken /\ t \in live0[r]

(* A refresh that presents such a token arrives to find it dead, and what   *)
(* it found on arrival stays with it.                                       *)
ArrivesLate ==
    \A r \in Req, t \in Token :
        /\ Refresh(r, t) /\ GivenUp(t) => t \notin live0'[r]
        /\ kind[r] = "refresh" => UNCHANGED <<kind[r], arg[r], live0[r]>>

(* A refresh that found its token dead is refused and mints nothing, not    *)
(* even when it fails.                                                      *)
LateMintsNothing ==
    \A r \in Req :
        kind[r] = "refresh" /\ arg[r] \notin live0[r] => ~Stored(r) /\ ~Answered(r, "ok")

LEMMA GivenUpRevoked ==
    ASSUME IInv, NEW t \in Token, GivenUp(t)
    PROVE  status[t] = "revoked"
<1>1. PICK r \in Req :
        \/ kind[r] = "refresh" /\ arg[r] = t /\ Stored(r)
        \/ /\ kind[r] = "logout" /\ Answered(r, "ok")
           /\ \/ arg[r] = t /\ Owner(t) = user[r]
              \/ arg[r] = NoToken /\ t \in live0[r]
  BY DEF GivenUp
<1>2. Sound(r)
  BY DEF IInv
<1>3. CASE kind[r] = "refresh" /\ arg[r] = t /\ Stored(r)
  BY <1>2, <1>3 DEF Sound, Rotating
<1>4. CASE kind[r] = "logout" /\ Answered(r, "ok")
  <2>1. t # NoToken
    BY Disjoint
  <2> QED BY <1>1, <1>2, <1>4, <2>1 DEF Sound, LoggingOut, Carried, Answered
<1> QED BY <1>1, <1>3, <1>4

LEMMA MoveArrives ==
    ASSUME IInv, NEW r \in Req, Moves(r)
    PROVE  ArrivesLate
<1>1. ASSUME NEW q \in Req, NEW t \in Token, Refresh(q, t), GivenUp(t)
      PROVE  t \notin live0'[q]
  <2>1. live0'[q] = LiveOf(Owner(t))
    BY <1>1 DEF Refresh, IInv, TypeOK
  <2>2. status[t] = "revoked"
    BY <1>1, GivenUpRevoked
  <2> QED BY <2>1, <2>2 DEF LiveOf
<1>2. ASSUME NEW q \in Req, kind[q] = "refresh"
      PROVE  UNCHANGED <<kind[q], arg[q], live0[q]>>
  <2>1. CASE q # r
    BY <2>1, MoveSame DEF IInv, Same
  <2>2. CASE q = r
    <3>1. pc[r] # "idle"
      BY <1>2, <2>2 DEF IInv, Sound, Phase
    <3>2. UNCHANGED <<kind, arg, live0>>
      BY <3>1 DEF Moves, Client, Login, LoginUnknown, LoginInactive, LoginAccepted,
                  LoginBegin, Refresh, Logout, Handler, RefreshLookup,
                  RefreshGetUser, LogoutLookup, RevokeAllSelect, RevokeOne,
                  RevokeAllDone, FlushRow, Commit, Respond, Rollback, Abort
    <3> QED BY <2>2, <3>2
  <2> QED BY <2>1, <2>2
<1> QED BY <1>1, <1>2 DEF ArrivesLate

(* How far SingleUse and LogoutEndsSessions fail: only a refresh that was   *)
(* under way before the rotation committed, or before the logout was        *)
(* answered, can still exchange the token.  One that arrives later mints    *)
(* nothing, whatever runs beside it (refresh_token, logout).                *)
THEOREM OnlyOverlapEscapes == Spec => [][ArrivesLate]_vars /\ []LateMintsNothing
<1>1. IInv /\ [Next]_vars => [ArrivesLate]_vars
  <2> SUFFICES ASSUME IInv, [Next]_vars, ~UNCHANGED vars PROVE ArrivesLate
    OBVIOUS
  <2>1. ASSUME \/ \E u \in User : Deactivate(u)
               \/ \E t \in Token : Expire(t) \/ Forget(t)
        PROVE  ArrivesLate
    <3>1. UNCHANGED <<kind, arg, live0, pc>>
      BY <2>1 DEF Deactivate, Expire, Forget, reqVars
    <3>2. ASSUME NEW r \in Req, NEW t \in Token PROVE ~Refresh(r, t)
      BY <3>1 DEF Refresh, Goto, Raise, IInv, TypeOK
    <3> QED BY <3>1, <3>2 DEF ArrivesLate
  <2> QED BY <2>1, MoveArrives, StepOf
<1>2. IInv => LateMintsNothing
  BY DEF IInv, LateMintsNothing, Sound, Rotating
<1> QED BY <1>1, <1>2, Inductive, PTL DEF Spec
=============================================================================
