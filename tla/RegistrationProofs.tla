-------------------------- MODULE RegistrationProofs --------------------------
(***************************************************************************)
(* Theorems about Registration, for any number of requests, emails and     *)
(* names.                                                                  *)
(***************************************************************************)
EXTENDS RegistrationInvariant, TLAPS

(* What a step of r can do, seen from the other requests. *)
Only(r) ==
    /\ stored \subseteq stored' /\ stored' \subseteq stored \cup {r}
    /\ audit \subseteq audit'
    /\ \A q \in Req \ {r} :
           /\ pc'[q] = pc[q] /\ kind'[q] = kind[q] /\ row'[q] = row[q]
           /\ about'[q] = about[q] /\ entries'[q] = entries[q]
           /\ entry'[q] = entry[q] /\ answer'[q] = answer[q]
           /\ q \in changes' <=> q \in changes
    /\ kind[r] # "none" => kind'[r] = kind[r] /\ row'[r] = row[r] /\ about'[r] = about[r]

(* The kind of a request, once it has begun. *)
LEMMA CommitKinds ==
    ASSUME IInv, NEW r \in Req, pc[r] = "commit"
    PROVE  /\ kind[r] \in {"register", "ask", "verify"}
           /\ entry[r] \in Event
<1>1. TypeOK /\ Phase(r) /\ Entering(r)
  BY DEF IInv, Sound
<1>2. kind[r] \in {"register", "ask", "verify"}
  BY <1>1 DEF TypeOK, Phase
<1> QED BY <1>1, <1>2 DEF Entering, Event

LEMMA TypePreserved ==
    ASSUME IInv, [Next]_vars
    PROVE  TypeOK'
<1> USE DEF IInv, TypeOK, dbVars, Event, Answer, PC
<1>1. ASSUME NEW r \in Req, NEW e \in Email, NEW n \in Name, Register(r, e, n) PROVE TypeOK'
  BY <1>1 DEF Register, Begin, Goto
<1>2. ASSUME NEW r \in Req, NEW a \in Req, RequestVerification(r, a) PROVE TypeOK'
  BY <1>2 DEF RequestVerification, Begin, Goto, Raise, Log
<1>3. ASSUME NEW r \in Req, NEW a \in Req, VerifyEmail(r, a) PROVE TypeOK'
  <2>1. CASE a \in inactive
    BY <1>3, <2>1 DEF VerifyEmail, Begin, Goto, Raise
  <2>2. CASE a \notin inactive
    <3>1. changes' \subseteq Req
      BY <1>3, <2>2 DEF VerifyEmail
    <3>2. pc' \in [Req -> PC]
      BY <1>3, <2>2 DEF VerifyEmail, Goto
    <3> QED BY <1>3, <2>2, <3>1, <3>2 DEF VerifyEmail, Begin, Log
  <2> QED BY <2>1, <2>2
<1>4. ASSUME NEW r \in Req, RefuseToken(r) PROVE TypeOK'
  BY <1>4 DEF RefuseToken, Begin, Goto, Raise
<1>5. ASSUME NEW r \in Req, SelectByEmail(r) PROVE TypeOK'
  BY <1>5 DEF SelectByEmail, Select, Goto, Raise
<1>6. ASSUME NEW r \in Req, SelectByName(r) PROVE TypeOK'
  BY <1>6 DEF SelectByName, Select, Goto, Raise
<1>7. ASSUME NEW r \in Req, NEW c \in {"email", "name"}, Insert(r, c) PROVE TypeOK'
  <2>1. CASE Enter(r, c)
    <3>1. entries' \in [Req -> SUBSET {"email", "name"}]
      BY <2>1 DEF Enter
    <3>2. pc' \in [Req -> PC] /\ entry' \in [Req -> Event \cup {"none"}]
      <4>1. CASE UNCHANGED <<pc, entry>>
        BY <4>1
      <4>2. CASE Goto(r, "commit") /\ Log(r, "user_registered")
        <5>1. pc' \in [Req -> PC]
          BY <4>2 DEF Goto
        <5>2. entry' \in [Req -> Event \cup {"none"}]
          BY <4>2 DEF Log
        <5> QED BY <5>1, <5>2
      <4> QED BY <2>1, <4>1, <4>2 DEF Enter, AfterInsert
    <3> QED BY <1>7, <2>1, <3>1, <3>2 DEF Insert, Enter
  <2>2. CASE Raise(r, "integrity") /\ UNCHANGED <<entries, entry>>
    BY <1>7, <2>2 DEF Insert, Raise, Goto
  <2> QED BY <1>7, <2>1, <2>2 DEF Insert
<1>8. ASSUME NEW r \in Req, Update(r) PROVE TypeOK'
  BY <1>8 DEF Update, Goto
<1>9. ASSUME NEW r \in Req, Commit(r) PROVE TypeOK'
  <2>1. entry[r] \in Event /\ kind[r] \in {"register", "ask", "verify"}
    BY <1>9, CommitKinds DEF Commit
  <2>2. r \in changes => about[r] \in Req
    BY <1>9, Fresh DEF Commit, Sound, Verifying
  <2>3. verified' \subseteq Req
    BY <1>9, <2>2 DEF Commit
  <2>4. audit' \subseteq [req : Req, event : Event]
    BY <1>9, <2>1 DEF Commit
  <2> QED BY <1>9, <2>3, <2>4 DEF Commit, Goto
<1>10. ASSUME NEW r \in Req, Respond(r) PROVE TypeOK'
  BY <1>10 DEF Respond, Goto
<1>11. ASSUME NEW r \in Req, Rollback(r) PROVE TypeOK'
  BY <1>11 DEF Rollback, Discard, Goto
<1>12. ASSUME NEW r \in Req, Abort(r) PROVE TypeOK'
  BY <1>12 DEF Abort, Discard, Goto
<1>13. ASSUME NEW r \in Req, Deactivate(r) PROVE TypeOK'
  BY <1>13 DEF Deactivate
<1>14. CASE UNCHANGED vars
  BY <1>14 DEF vars
<1> QED BY <1>1, <1>2, <1>3, <1>4, <1>5, <1>6, <1>7, <1>8, <1>9, <1>10, <1>11, <1>12,
           <1>13, <1>14 DEF Next, Client, Handler

(* A step of a request touches no other.                                    *)
LEMMA StepOnly ==
    ASSUME IInv, NEW r \in Req, Client(r) \/ Handler(r) \/ Abort(r) \/ Deactivate(r)
    PROVE  Only(r)
<1> TypeOK
  BY DEF IInv
<1>0. Phase(r)
  BY DEF IInv, Sound
<1> USE DEF TypeOK, dbVars, Only
<1>1. ASSUME Client(r) PROVE Only(r)
  <2>1. pc[r] = "idle" /\ kind[r] = "none"
    BY <1>0, <1>1 DEF Phase, Client, Register, RequestVerification, VerifyEmail, RefuseToken, Begin
  <2>2. UNCHANGED dbVars
    BY <1>1 DEF Client, Register, RequestVerification, VerifyEmail, RefuseToken, Begin
  <2>3. ASSUME NEW e \in Email, NEW n \in Name, Register(r, e, n) PROVE Only(r)
    BY <2>1, <2>2, <2>3 DEF Register, Begin, Goto
  <2>4. ASSUME NEW a \in Req, RequestVerification(r, a) PROVE Only(r)
    BY <2>1, <2>2, <2>4 DEF RequestVerification, Begin, Goto, Raise, Log
  <2>5. ASSUME NEW a \in Req, VerifyEmail(r, a) PROVE Only(r)
    <3>1. CASE a \in inactive
      BY <2>1, <2>2, <2>5, <3>1 DEF VerifyEmail, Begin, Goto, Raise
    <3>2. CASE a \notin inactive
      <4>1. \A q \in Req \ {r} : pc'[q] = pc[q] /\ (q \in changes' <=> q \in changes)
        BY <2>5, <3>2 DEF VerifyEmail, Goto
      <4> QED BY <2>1, <2>2, <2>5, <3>2, <4>1 DEF VerifyEmail, Begin, Log
    <3> QED BY <3>1, <3>2
  <2>6. ASSUME RefuseToken(r) PROVE Only(r)
    BY <2>1, <2>2, <2>6 DEF RefuseToken, Begin, Goto, Raise
  <2> QED BY <1>1, <2>3, <2>4, <2>5, <2>6 DEF Client
<1>2. ASSUME Handler(r) PROVE Only(r)
  <2>1. ASSUME SelectByEmail(r) \/ SelectByName(r) PROVE Only(r)
    BY <2>1 DEF SelectByEmail, SelectByName, Select, Goto, Raise
  <2>2. ASSUME NEW c \in {"email", "name"}, Insert(r, c) PROVE Only(r)
    BY <2>2 DEF Insert, Enter, AfterInsert, Goto, Raise, Log
  <2>3. ASSUME Update(r) PROVE Only(r)
    BY <2>3 DEF Update, Goto
  <2>4. ASSUME Commit(r) PROVE Only(r)
    BY <2>4 DEF Commit, Goto
  <2>5. ASSUME Respond(r) PROVE Only(r)
    BY <2>5 DEF Respond, Goto
  <2>6. ASSUME Rollback(r) PROVE Only(r)
    BY <2>6 DEF Rollback, Discard, Goto
  <2> QED BY <1>2, <2>1, <2>2, <2>3, <2>4, <2>5, <2>6 DEF Handler
<1>3. ASSUME Abort(r) PROVE Only(r)
  BY <1>3 DEF Abort, Discard, Goto
<1>4. ASSUME Deactivate(r) PROVE Only(r)
  BY <1>4 DEF Deactivate
<1> QED BY <1>1, <1>2, <1>3, <1>4

(* The other requests keep their invariant, and accounts their trail.       *)
LEMMA OthersSound ==
    ASSUME IInv, TypeOK', NEW r \in Req, Only(r), NEW q \in Req \ {r}
    PROVE  Sound(q)'
<1> USE DEF IInv, Only
<1> DEFINE Begun(x) == kind[x] # "none"
<1>1. \A x \in Req : Begun(x) => row'[x] = row[x] /\ about'[x] = about[x]
  OBVIOUS
<1>2. \A x \in stored : x \in Req /\ Begun(x) /\ x \in stored'
  BY DEF TypeOK, Sound, Opened
<1>3. q \in stored' <=> q \in stored
  OBVIOUS
<1>4. Phase(q)' /\ Indexed(q)'
  BY <1>3 DEF Sound, Phase, Indexed
<1>5. Opened(q)'
  BY <1>3 DEF Sound, Opened, Answered, Logged
<1>6. Caused(q)'
  <2>1. Begun(q) \/ answer[q] = "none"
    BY DEF Sound, Phase
  <2>2. ASSUME NEW c \in {"email", "name"} PROVE Same(q, c) \subseteq Same(q, c)' \/ ~Begun(q)
    BY <1>1, <1>2 DEF Same
  <2> QED BY <2>1, <2>2 DEF Sound, Caused
<1>7. Verifying(q)'
  <2>1. \A a \in Req : Asked(a) => Asked(a)'
    BY <1>1 DEF Asked, Logged, TypeOK
  <2> QED BY <1>2, <2>1 DEF Sound, Verifying, Answered, Logged, TypeOK
<1>8. Entering(q)'
  BY DEF Sound, Entering
<1> QED BY <1>4, <1>5, <1>6, <1>7, <1>8 DEF Sound

LEMMA TrailKept ==
    ASSUME IInv, NEW r \in Req, Only(r), NEW a \in verified
    PROVE  /\ Logged(a, "user_registered")'
           /\ \A e \in {"verification_requested", "email_verified"} :
                  \E q \in Req : about'[q] = a /\ Logged(q, e)'
<1>1. \A x \in Req : kind[x] # "none" => about'[x] = about[x]
  BY DEF Only
<1>2. Logged(a, "user_registered")'
  BY DEF IInv, VerifiedHasTrail, Logged, Only
<1>3. ASSUME NEW e \in {"verification_requested", "email_verified"}
      PROVE  \E q \in Req : about'[q] = a /\ Logged(q, e)'
  <2>1. PICK q \in Req : about[q] = a /\ [req |-> q, event |-> e] \in audit
    BY DEF IInv, VerifiedHasTrail
  <2>2. kind[q] # "none"
    BY <2>1 DEF IInv
  <2> QED BY <1>1, <2>1, <2>2 DEF Logged, Only
<1> QED BY <1>2, <1>3

-----------------------------------------------------------------------------
(* The acting request, action by action. *)
LEMMA BeginSound ==
    ASSUME IInv, TypeOK', NEW r \in Req, Client(r)
    PROVE  Sound(r)'
<1> TypeOK /\ Sound(r)
  BY DEF IInv
<1>0. /\ pc[r] = "idle" /\ kind[r] = "none" /\ UNCHANGED dbVars
      /\ r \notin stored /\ r \notin changes /\ entries[r] = {} /\ answer[r] = "none"
      /\ about[r] = None
  BY DEF Sound, Phase, Indexed, Opened, Verifying, Client, Register, RequestVerification,
         VerifyEmail, RefuseToken, Begin
<1> USE DEF TypeOK, dbVars, Sound, Phase, Indexed, Opened, Caused, Verifying, Entering, Answered
<1>1. ASSUME NEW e \in Email, NEW n \in Name, Register(r, e, n) PROVE Sound(r)'
  BY <1>0, <1>1 DEF Register, Begin, Goto
<1>2. ASSUME NEW a \in Req, RequestVerification(r, a) PROVE Sound(r)'
  BY <1>0, <1>2 DEF RequestVerification, Begin, Goto, Raise, Log
<1>3. ASSUME NEW a \in Req, VerifyEmail(r, a) PROVE Sound(r)'
  <2>1. a \in stored /\ \E q \in Req : about[q] = a /\ Logged(q, "verification_requested")
    <3>1. PICK q \in Req : kind[q] = "ask" /\ Answered(q, "ok") /\ about[q] = a
      BY <1>3 DEF VerifyEmail, Subjects
    <3>2. Verifying(q)
      BY DEF IInv
    <3> QED BY <3>1, <3>2, Fresh
  <2>2. Asked(a)'
    <3>1. PICK q \in Req : about[q] = a /\ Logged(q, "verification_requested")
      BY <2>1
    <3>2. q # r
      BY <1>0, <3>1, Fresh
    <3>3. about'[q] = a /\ audit' = audit
      BY <1>0, <1>3, <3>1, <3>2 DEF VerifyEmail
    <3> QED BY <3>1, <3>3 DEF Asked, Logged
  <2>3. /\ about'[r] = a /\ kind'[r] = "verify" /\ entries' = entries /\ stored' = stored
    BY <1>0, <1>3 DEF VerifyEmail, Begin
  <2>4. CASE a \in inactive
    BY <1>0, <1>3, <2>1, <2>2, <2>3, <2>4 DEF VerifyEmail, Begin, Goto, Raise
  <2>5. CASE a \notin inactive
    <3>1. /\ pc'[r] \in {"commit", "update"} /\ entry'[r] = "email_verified"
          /\ answer'[r] = "none"
      BY <1>0, <1>3, <2>5 DEF VerifyEmail, Goto, Log
    <3> QED BY <1>0, <2>1, <2>2, <2>3, <3>1, Fresh
  <2> QED BY <2>4, <2>5
<1>4. ASSUME RefuseToken(r) PROVE Sound(r)'
  BY <1>0, <1>4 DEF RefuseToken, Begin, Goto, Raise
<1> QED BY <1>1, <1>2, <1>3, <1>4 DEF Client

LEMMA InsertSound ==
    ASSUME IInv, TypeOK', NEW r \in Req,
           SelectByEmail(r) \/ SelectByName(r) \/ \E c \in {"email", "name"} : Insert(r, c)
    PROVE  Sound(r)'
<1> TypeOK /\ Sound(r)
  BY DEF IInv
<1>0. /\ pc[r] \in {"by_email", "by_name", "insert"} /\ kind[r] = "register"
      /\ r \notin stored /\ r \notin changes /\ answer[r] = "none" /\ about[r] = None
      /\ UNCHANGED <<stored, audit, kind, row, about, changes>>
  BY DEF Sound, Phase, Opened, Verifying, Answered, SelectByEmail, SelectByName, Select, Insert,
         TypeOK, dbVars
<1>1. Verifying(r)'
  BY <1>0, Fresh DEF Verifying, TypeOK
<1>2. ASSUME SelectByEmail(r) \/ SelectByName(r) PROVE Sound(r)'
  <2>1. PICK c \in {"email", "name"}, next \in {"by_name", "insert"} : Select(r, c, next)
    BY <1>2 DEF SelectByEmail, SelectByName
  <2>2. entries' = entries /\ entry' = entry
    BY <2>1 DEF Select, dbVars
  <2>3. pc[r] = "insert" => FALSE
    BY <1>2 DEF SelectByEmail, SelectByName
  <2>4. entries[r] = {}
    BY <1>0, <2>3 DEF Sound, Indexed
  <2>5. CASE Same(r, c) # {}
    <3>1. pc'[r] = "reject" /\ answer'[r] = "conflict"
      BY <2>1, <2>5 DEF Select, Raise, Goto, TypeOK
    <3>2. Same(r, c)' # {}
      BY <1>0, <2>5 DEF Same
    <3> QED BY <1>0, <1>1, <2>2, <2>4, <3>1, <3>2
            DEF Sound, Phase, Indexed, Opened, Caused, Entering, Answered
  <2>6. CASE Same(r, c) = {}
    <3>1. pc'[r] \in {"by_name", "insert"} /\ answer'[r] = "none"
      BY <1>0, <2>1, <2>6 DEF Select, Goto, TypeOK
    <3> QED BY <1>0, <1>1, <2>2, <2>4, <3>1
            DEF Sound, Phase, Indexed, Opened, Caused, Entering, Answered
  <2> QED BY <2>5, <2>6
<1>3. ASSUME NEW c \in {"email", "name"}, Insert(r, c) PROVE Sound(r)'
  <2>1. CASE Enter(r, c)
    <3>1. entries'[r] = entries[r] \cup {c} /\ answer' = answer
      BY <2>1 DEF Enter, TypeOK
    <3>2. "name" \in entries'[r] => "email" \in entries'[r]
      BY <1>3, <3>1 DEF Insert, NextIndex, Sound, Indexed
    <3>3. CASE Unique \subseteq entries[r] \cup {c}
      <4>1. pc'[r] = "commit" /\ entry'[r] = "user_registered"
        BY <2>1, <3>3 DEF Enter, AfterInsert, Goto, Log, TypeOK
      <4>2. entries'[r] = Unique
        BY <3>1, <3>3 DEF Unique, TypeOK
      <4> QED BY <1>0, <1>1, <3>1, <3>2, <4>1, <4>2
              DEF Sound, Phase, Indexed, Opened, Caused, Entering, Answered
    <3>4. CASE ~(Unique \subseteq entries[r] \cup {c})
      <4>1. pc' = pc /\ entry' = entry /\ pc[r] = "insert"
        BY <1>3, <2>1, <3>4 DEF Enter, Insert
      <4> QED BY <1>0, <1>1, <3>1, <3>2, <4>1
              DEF Sound, Phase, Indexed, Opened, Caused, Entering, Answered
    <3> QED BY <3>3, <3>4
  <2>2. CASE /\ Rivals(r, c) \cap stored # {} /\ Raise(r, "integrity")
             /\ UNCHANGED <<entries, entry>>
    <3>1. pc'[r] = "reject" /\ answer'[r] = "integrity"
      BY <2>2 DEF Raise, Goto, TypeOK
    <3>2. Same(r, c)' # {}
      BY <1>0, <2>2 DEF Same, Rivals
    <3> QED BY <1>0, <1>1, <2>2, <3>1, <3>2
            DEF Sound, Phase, Indexed, Opened, Caused, Entering, Answered
  <2> QED BY <1>3, <2>1, <2>2 DEF Insert
<1> QED BY <1>2, <1>3

LEMMA EndSound ==
    ASSUME IInv, TypeOK', NEW r \in Req,
           Update(r) \/ Commit(r) \/ Respond(r) \/ Rollback(r) \/ Abort(r)
    PROVE  Sound(r)'
<1> TypeOK /\ Sound(r)
  BY DEF IInv
<1>0. /\ UNCHANGED <<kind, row, about, entry>> /\ audit \subseteq audit'
      /\ stored \subseteq stored'
  BY DEF Update, Commit, Respond, Rollback, Abort, dbVars
<1>1. ASSUME NEW c \in {"email", "name"} PROVE Same(r, c) \subseteq Same(r, c)'
  BY <1>0 DEF Same
<1>2. \A a \in Req : Asked(a) => Asked(a)'
  BY <1>0 DEF Asked, Logged
<1>3. about[r] # None => about[r] \in stored'
  BY <1>0 DEF Sound, Verifying
<1> USE DEF Sound, Phase, Indexed, Opened, Caused, Verifying, Entering, Answered, TypeOK, dbVars, Logged
<1>4. ASSUME Update(r) PROVE Sound(r)'
  BY <1>0, <1>1, <1>2, <1>3, <1>4 DEF Update, Goto
<1>5. ASSUME Commit(r) PROVE Sound(r)'
  <2>1. pc[r] = "commit" /\ pc'[r] = "respond" /\ answer' = answer /\ entries' = entries
    BY <1>5 DEF Commit, Goto
  <2>2. r \notin changes'
    BY <1>5 DEF Commit
  <2>3. [req |-> r, event |-> entry[r]] \in audit'
    BY <1>5 DEF Commit
  <2>4. r \in stored' <=> kind[r] = "register"
    BY <1>5, <2>1 DEF Commit
  <2> QED BY <1>0, <1>1, <1>2, <1>3, <2>1, <2>2, <2>3, <2>4
<1>6. ASSUME Respond(r) PROVE Sound(r)'
  BY <1>0, <1>1, <1>2, <1>3, <1>6 DEF Respond, Goto
<1>7. ASSUME Rollback(r) PROVE Sound(r)'
  BY <1>0, <1>1, <1>2, <1>3, <1>7 DEF Rollback, Discard, Goto
<1>8. ASSUME Abort(r) PROVE Sound(r)'
  BY <1>0, <1>1, <1>2, <1>3, <1>8 DEF Abort, Discard, Goto
<1> QED BY <1>4, <1>5, <1>6, <1>7, <1>8

LEMMA ActorSound ==
    ASSUME IInv, TypeOK', NEW r \in Req, Client(r) \/ Handler(r) \/ Abort(r) \/ Deactivate(r)
    PROVE  Sound(r)'
<1>1. ASSUME Deactivate(r) PROVE Sound(r)'
  <2>1. Sound(r)
    BY DEF IInv
  <2> QED BY <1>1, <2>1 DEF Deactivate, Sound, Phase, Indexed, Opened, Caused, Verifying,
             Entering, Answered, Logged, Asked, Same
<1> QED BY <1>1, BeginSound, InsertSound, EndSound DEF Handler

-----------------------------------------------------------------------------
(* Two rows can only come to share an entry by an INSERT, which looks.      *)
LEMMA NoTwinsKept ==
    ASSUME IInv, TypeOK', NEW r \in Req, Only(r),
           Client(r) \/ Handler(r) \/ Abort(r) \/ Deactivate(r)
    PROVE  NoTwins'
<1> TypeOK /\ NoTwins /\ Sound(r)
  BY DEF IInv
<1>1. ASSUME NEW c \in Unique, c \in entries'[r]
      PROVE  /\ row'[r] = row[r]
             /\ c \in entries[r] \/ Rivals(r, c) = {}
  <2>1. ASSUME Client(r) PROVE FALSE
    <3>1. entries'[r] = entries[r] /\ pc[r] = "idle"
      BY <2>1 DEF Client, Register, RequestVerification, VerifyEmail, RefuseToken, Begin, dbVars
    <3> QED BY <1>1, <3>1 DEF Sound, Indexed
  <2>2. ASSUME NEW d \in {"email", "name"}, Insert(r, d), c \notin entries[r]
        PROVE  Rivals(r, c) = {}
    <3>1. Enter(r, d)
      BY <1>1, <2>2 DEF Insert
    <3>2. c = d
      BY <1>1, <2>2, <3>1 DEF Enter, TypeOK
    <3> QED BY <3>1, <3>2 DEF Enter
  <2>3. ASSUME ~(\E d \in {"email", "name"} : Insert(r, d)) PROVE c \in entries[r]
    BY <1>1, <2>1, <2>3 DEF Handler, SelectByEmail, SelectByName, Select, Update, Commit,
       Respond, Rollback, Abort, Discard, Deactivate, dbVars, TypeOK
  <2>4. row'[r] = row[r]
    BY <2>1 DEF Handler, SelectByEmail, SelectByName, Select, Insert, Update, Commit,
       Respond, Rollback, Abort, Deactivate
  <2> QED BY <2>2, <2>3, <2>4
<1>2. ASSUME NEW q \in Req \ {r}, NEW c \in Unique, c \in entries'[r] \cap entries'[q]
      PROVE  row'[r][c] # row'[q][c]
  <2>1. row'[q] = row[q] /\ entries'[q] = entries[q]
    BY DEF Only
  <2>2. CASE c \in entries[r]
    BY <1>1, <1>2, <2>1, <2>2 DEF NoTwins
  <2>3. CASE Rivals(r, c) = {}
    BY <1>1, <1>2, <2>1, <2>3 DEF Rivals
  <2> QED BY <1>1, <1>2, <2>2, <2>3
<1>3. ASSUME NEW x \in Req \ {r}, NEW q \in Req \ {r}, NEW c \in Unique,
             x # q, c \in entries'[x] \cap entries'[q]
      PROVE  row'[x][c] # row'[q][c]
  BY <1>3 DEF NoTwins, Only
<1> QED BY <1>2, <1>3 DEF NoTwins

(* What the audit trail names has begun, and says where verified accounts   *)
(* come from.                                                               *)
LEMMA AuditKept ==
    ASSUME IInv, TypeOK', NEW r \in Req, Only(r),
           Client(r) \/ Handler(r) \/ Abort(r) \/ Deactivate(r)
    PROVE  /\ \A e \in audit' : kind'[e.req] # "none"
           /\ VerifiedHasTrail'
<1> TypeOK /\ Sound(r) /\ VerifiedHasTrail
  BY DEF IInv
<1>1. CASE Commit(r)
  <2>1. kind[r] # "none"
    BY <1>1, CommitKinds DEF Commit
  <2>2. \A e \in audit : e.req \in Req /\ kind'[e.req] # "none"
    BY <2>1 DEF IInv, TypeOK, Only
  <2>3. \A e \in audit' : kind'[e.req] # "none"
    BY <1>1, <2>1, <2>2 DEF Commit
  <2>4. ASSUME r \in changes
        PROVE  /\ [req |-> about[r], event |-> "user_registered"] \in audit'
               /\ \A e \in {"verification_requested", "email_verified"} :
                      \E q \in Req : about'[q] = about[r] /\ [req |-> q, event |-> e] \in audit'
    <3>1. kind[r] = "verify" /\ about[r] # None /\ about[r] \in stored /\ Asked(about[r])
      BY <1>1, <2>4 DEF Commit, Sound, Verifying
    <3>2. entry[r] = "email_verified"
      BY <1>1, <3>1 DEF Commit, Sound, Entering
    <3>3. Sound(about[r])
      BY <3>1 DEF IInv, TypeOK
    <3>4. [req |-> about[r], event |-> "user_registered"] \in audit'
      BY <1>1, <3>1, <3>3 DEF Commit, Sound, Opened, Logged
    <3> QED BY <1>1, <3>1, <3>2, <3>4 DEF Commit, Asked, Logged
  <2>5. ASSUME NEW a \in verified'
        PROVE  /\ [req |-> a, event |-> "user_registered"] \in audit'
               /\ \A e \in {"verification_requested", "email_verified"} :
                      \E q \in Req : about'[q] = a /\ [req |-> q, event |-> e] \in audit'
    <3>1. CASE a \in verified
      BY <3>1, TrailKept DEF Logged
    <3>2. CASE a \notin verified
      <4>1. r \in changes /\ a = about[r]
        BY <1>1, <2>5, <3>2 DEF Commit
      <4> QED BY <2>4, <4>1
    <3> QED BY <3>1, <3>2
  <2> QED BY <2>3, <2>5 DEF VerifiedHasTrail
<1>2. CASE ~Commit(r)
  <2>1. audit' = audit /\ verified' = verified
    BY <1>2 DEF Client, Register, RequestVerification, VerifyEmail, RefuseToken, Begin,
       Handler, SelectByEmail, SelectByName, Select, Insert, Update, Respond, Rollback,
       Abort, Deactivate, dbVars
  <2>2. \A e \in audit : e.req \in Req /\ kind'[e.req] # "none"
    BY DEF IInv, TypeOK, Only
  <2>3. \A a \in verified :
            /\ [req |-> a, event |-> "user_registered"] \in audit'
            /\ \A e \in {"verification_requested", "email_verified"} :
                   \E q \in Req : about'[q] = a /\ [req |-> q, event |-> e] \in audit'
    BY TrailKept DEF Logged
  <2> QED BY <2>1, <2>2, <2>3 DEF VerifiedHasTrail
<1> QED BY <1>1, <1>2

(* The invariant of every reachable state of Registration.                  *)
THEOREM Inductive == Spec => []IInv
<1>1. Init => IInv
  BY DEF Init, IInv, TypeOK, Sound, Phase, Indexed, Opened, Caused, Verifying, Entering,
         NoTwins, VerifiedHasTrail, Answered, Logged, Event, Answer, PC
<1>2. IInv /\ [Next]_vars => IInv'
  <2> SUFFICES ASSUME IInv, [Next]_vars PROVE IInv'
    OBVIOUS
  <2>1. TypeOK'
    BY TypePreserved
  <2>2. ASSUME NEW r \in Req, Client(r) \/ Handler(r) \/ Abort(r) \/ Deactivate(r) PROVE IInv'
    <3>1. Only(r)
      BY <2>2, StepOnly
    <3>2. \A q \in Req : Sound(q)'
      BY <2>1, <2>2, <3>1, ActorSound, OthersSound
    <3> QED BY <2>1, <2>2, <3>1, <3>2, NoTwinsKept, AuditKept DEF IInv
  <2>3. CASE UNCHANGED vars
    <3> USE <2>3 DEF vars, dbVars
    <3>1. ASSUME NEW r \in Req PROVE Sound(r)'
      <4>1. Sound(r)
        BY DEF IInv
      <4>2. Caused(r)' /\ Verifying(r)'
        BY <4>1 DEF Sound, Caused, Verifying, Answered, Logged, Asked, Same
      <4> QED BY <4>1, <4>2 DEF Sound, Phase, Indexed, Opened, Entering, Answered, Logged
    <3>2. NoTwins' /\ VerifiedHasTrail' /\ \A e \in audit' : kind'[e.req] # "none"
      BY DEF IInv, NoTwins, VerifiedHasTrail
    <3> QED BY <2>1, <3>1, <3>2 DEF IInv
  <2> QED BY <2>2, <2>3 DEF Next
<1> QED BY <1>1, <1>2, PTL DEF Spec

(* Requests, rows, indexes, audit rows and answers keep their form.         *)
THEOREM TypeCorrect == Spec => []TypeOK
<1>1. IInv => TypeOK
  BY DEF IInv
<1> QED BY <1>1, Inductive, PTL

(* register refuses only for an account that is stored, with that email or  *)
(* name, however many registrations of it are under way and fail.           *)
THEOREM RefusalsRight == Spec => []RefusalsHaveCause
<1>1. IInv => RefusalsHaveCause
  BY DEF IInv, Sound, Caused, RefusalsHaveCause, Answered
<1> QED BY <1>1, Inductive, PTL

(* 201 means the account is stored; a refusal or failure without an account *)
(* leaves its email and name to others.                                     *)
THEOREM AnswersRight == Spec => []AnswersMatchRows
<1>1. ASSUME IInv PROVE AnswersMatchRows
  <2>1. ASSUME NEW r \in Req, kind[r] = "register", pc[r] = "done"
        PROVE  /\ answer[r] = "ok" => r \in stored
               /\ answer[r] \in {"conflict", "integrity"} => r \notin stored
               /\ r \notin stored => entries[r] = {}
    BY <1>1, <2>1 DEF IInv, Sound, Opened, Indexed, Answered
  <2> QED BY <2>1 DEF AnswersMatchRows
<1> QED BY <1>1, Inductive, PTL

(* Verification: a registration, a request for a token and its use, in the  *)
(* audit trail for every verified account.                                  *)
THEOREM TrailComplete == Spec => []VerifiedHasTrail
<1>1. IInv => VerifiedHasTrail
  BY DEF IInv
<1> QED BY <1>1, Inductive, PTL

-----------------------------------------------------------------------------
(* A request that holds every index entry, or whose update is made, waits   *)
(* for nobody; one that holds the first waits only for such a request.      *)
LEMMA WaitsAreShort ==
    ASSUME IInv, NEW r \in Req, NEW q \in Req, NEW p \in Req, NEW x \in Req,
           WaitsFor(r, q), WaitsFor(q, p), WaitsFor(p, x)
    PROVE  FALSE
<1>0. \A y \in Req : Phase(y) /\ Indexed(y)
  BY DEF IInv, Sound
<1> DEFINE Full(y) == pc[y] = "commit" \/ (kind[y] = "register" /\ "name" \in entries[y])
<1>1. ASSUME NEW y \in Req, NEW z \in Req, Full(y), WaitsFor(y, z) PROVE FALSE
  BY <1>0, <1>1 DEF WaitsFor, NextIndex, Unique, Phase, Indexed
<1>2. ASSUME NEW y \in Req, NEW z \in Req, WaitsFor(y, z)
      PROVE  Full(z) \/ (kind[z] = "register" /\ "email" \in entries[z])
  BY <1>0, <1>2 DEF WaitsFor, Rivals, Holds, Unique, Indexed
<1>3. ASSUME NEW y \in Req, NEW z \in Req, WaitsFor(y, z),
             kind[y] = "register", "email" \in entries[y]
      PROVE  Full(z)
  BY <1>0, <1>3 DEF WaitsFor, Rivals, NextIndex, Unique, Phase, Indexed
<1> QED BY <1>1, <1>2, <1>3

(* No set of requests waits in a circle for index entries and rows.         *)
THEOREM DeadlockFree == Spec => []NoWaitCycle
<1>1. ASSUME IInv PROVE NoWaitCycle
  <2> SUFFICES ASSUME NEW S \in (SUBSET Req) \ {{}},
                      \A r \in S : \E q \in S : WaitsFor(r, q)
               PROVE  FALSE
    BY DEF NoWaitCycle
  <2>1. PICK r \in S : TRUE
    OBVIOUS
  <2>2. PICK q \in S : WaitsFor(r, q)
    OBVIOUS
  <2>3. PICK p \in S : WaitsFor(q, p)
    OBVIOUS
  <2>4. PICK x \in S : WaitsFor(p, x)
    OBVIOUS
  <2> QED BY <1>1, <2>2, <2>3, <2>4, WaitsAreShort
<1> QED BY <1>1, Inductive, PTL

-----------------------------------------------------------------------------
(* The users table keeps one account per email and per name, whatever       *)
(* registrations race: it implements AccountBook.                           *)
THEOREM BookRefinement == Spec => BookSpec
<1>1. Init => Book!Init
  BY DEF Init, Book!Init, Accounts
<1>2. ASSUME IInv, [Next]_vars PROVE [Book!Next]_<<Accounts, verified>>
  <2> TypeOK
    BY <1>2 DEF IInv
  <2>1. ASSUME NEW r \in Req, Only(r), stored' = stored PROVE Accounts' = Accounts
    <3>1. \A q \in stored : row'[q] = row[q]
      BY <1>2, <2>1 DEF Only, IInv, Sound, Opened, TypeOK
    <3> QED BY <2>1, <3>1 DEF Accounts
  <2>2. ASSUME NEW r \in Req, Commit(r), Only(r) PROVE [Book!Next]_<<Accounts, verified>>
    <3> Sound(r)
      BY <1>2 DEF IInv
    <3>0. row' = row
      BY <2>2 DEF Commit
    <3>1. CASE kind[r] = "register"
      <4> DEFINE e == row[r].email
                 n == row[r].name
      <4>1. r \notin stored /\ entries[r] = Unique /\ pc[r] = "commit" /\ r \notin changes
        BY <2>2, <3>1 DEF Commit, Sound, Opened, Indexed, Verifying, Answered
      <4>2. verified' = verified /\ stored' = stored \cup {r}
        BY <2>2, <3>1, <4>1 DEF Commit
      <4>3. Accounts' = Accounts \cup {[id |-> r, email |-> e, name |-> n]}
        BY <3>0, <4>2 DEF Accounts
      <4>4. ASSUME NEW q \in stored PROVE q # r /\ row[q].email # e /\ row[q].name # n
        <5>1. q \in Req /\ q # r /\ entries[q] = Unique
          BY <1>2, <4>1 DEF IInv, Sound, Opened, TypeOK
        <5> QED BY <1>2, <4>1, <5>1 DEF IInv, NoTwins, Unique
      <4>5. \A a \in Accounts : a.id # r /\ a.email # e /\ a.name # n
        BY <4>4 DEF Accounts
      <4>6. e \in Email /\ n \in Name
        BY <3>1 DEF Sound, Indexed
      <4> QED BY <4>2, <4>3, <4>5, <4>6 DEF Book!Next, Book!Open
    <3>2. CASE kind[r] # "register"
      <4>1. stored' = stored
        BY <2>2, <3>2 DEF Commit
      <4>2. Accounts' = Accounts
        BY <2>1, <2>2, <4>1
      <4>3. CASE r \in changes
        <5>1. about[r] \in stored
          BY <2>2, <4>3 DEF Commit, Sound, Verifying
        <5>2. verified' = verified \cup {about[r]}
          BY <2>2, <4>3 DEF Commit
        <5> DEFINE rec == [id |-> about[r], email |-> row[about[r]].email,
                           name |-> row[about[r]].name]
        <5>3. rec \in Accounts
          BY <5>1 DEF Accounts
        <5>4. rec.id = about[r]
          OBVIOUS
        <5>5. PICK a \in Accounts : a.id = about[r]
          BY <5>3, <5>4
        <5> QED BY <4>2, <5>2, <5>5 DEF Book!Next, Book!Confirm
      <4>4. CASE r \notin changes
        <5>1. verified' = verified
          BY <2>2, <4>4 DEF Commit
        <5> QED BY <4>2, <5>1
      <4> QED BY <4>3, <4>4
    <3> QED BY <3>1, <3>2
  <2>3. ASSUME NEW r \in Req, Client(r) \/ Handler(r) \/ Abort(r) \/ Deactivate(r), ~Commit(r)
        PROVE  stored' = stored /\ verified' = verified
    BY <2>3 DEF Client, Register, RequestVerification, VerifyEmail, RefuseToken, Begin,
       Handler, SelectByEmail, SelectByName, Select, Insert, Update, Respond, Rollback,
       Abort, Deactivate, dbVars
  <2>4. CASE UNCHANGED vars
    BY <2>4 DEF vars, dbVars, Accounts
  <2> QED BY <1>2, <2>1, <2>2, <2>3, <2>4, StepOnly DEF Next
<1>3. Init /\ [][Next]_vars /\ []IInv => Book!Init /\ [][Book!Next]_<<Accounts, verified>>
  BY <1>1, <1>2, PTL
<1> QED BY <1>3, Inductive, PTL DEF Spec, BookSpec, Book!Spec

=============================================================================
