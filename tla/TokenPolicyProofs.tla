-------------------------- MODULE TokenPolicyProofs --------------------------
(***************************************************************************)
(* Theorems about TokenPolicy, for any accounts, tokens and requests, and  *)
(* any lifetimes and time zones that satisfy Lives and ZonesNarrow.        *)
(***************************************************************************)
EXTENDS TokenPolicyInvariant, TLAPS

(* What a step leaves of a request it is not about. *)
Untouched(r) ==
    /\ pc'[r] = pc[r] /\ door'[r] = door[r] /\ token'[r] = token[r]
    /\ charged'[r] = charged[r] /\ (r \in literal' <=> r \in literal)

(* What no step takes back. *)
Onwards ==
    /\ split' = split /\ clock <= clock' /\ left \subseteq left'
    /\ \A s \in Slot : born[s] # Never => born'[s] = born[s] /\ holder'[s] = holder[s]

-----------------------------------------------------------------------------
(* Tokens. *)
LEMMA TokenParts ==
    ASSUME NEW t \in Token
    PROVE  /\ Type(t) \in {"access", "refresh", "verify"} /\ t[2] \in Slot
           /\ Type(t) \in {"access", "refresh"} => t[2] \in Pair
  BY DEF Token, Type, Slot

LEMMA LifeNumber ==
    ASSUME NEW t \in Token
    PROVE  Life(Type(t)) \in Nat
  BY TokenParts, Lives DEF Life

(* Who could not open a token cannot do so later. *)
LEMMA NeverAgain ==
    ASSUME IInv, TypeOK', Onwards, NEW t \in Token, born[t[2]] # Never,
           NEW wanted \in {"access", "refresh", "verify"}, Opens(t, wanted)'
    PROVE  Opens(t, wanted)
<1>1. t[2] \in Slot /\ born'[t[2]] = born[t[2]]
  BY TokenParts DEF Onwards
<1>2. born[t[2]] \in Int /\ clock \in Int /\ clock' \in Int
  BY <1>1 DEF IInv, TypeOK, Never
<1>3. clock < Exp(t)
  BY <1>1, <1>2, LifeNumber DEF Opens, Decodes, Exp, Onwards
<1> QED BY <1>3 DEF Opens, Decodes, Secret, Onwards

-----------------------------------------------------------------------------
(* Type correctness of one step. *)
LEMMA TypePreserved ==
    ASSUME IInv, [Next]_vars
    PROVE  TypeOK'
<1> USE DEF IInv, TypeOK, config, tables, reqs, Never
<1>1. ASSUME NEW u \in User, NEW p \in Pair, Login(u, p) PROVE TypeOK'
  BY <1>1 DEF Login, Issue, Slot
<1>2. ASSUME NEW u \in User, NEW p \in Pair, LogoutOne(u, p) PROVE TypeOK'
  BY <1>2 DEF LogoutOne
<1>3. ASSUME NEW u \in User, NEW m \in Mail, RequestVerification(u, m) PROVE TypeOK'
  BY <1>3 DEF RequestVerification, Issue, Slot
<1>4. ASSUME NEW u \in User, LogoutAll(u) PROVE TypeOK'
  <2>1. Deadline \in Int /\ Selected(u) \subseteq Pair
    BY Lives DEF Deadline, Selected
  <2>2. listed' \in [Pair -> Int]
    BY <1>4, <2>1 DEF LogoutAll, Blacklist
  <2> QED BY <1>4, <2>1, <2>2 DEF LogoutAll
<1>5. ASSUME NEW r \in Req, NEW t \in Token, NEW d \in {"bearer", "admin"},
             NEW spelled \in BOOLEAN, Bear(r, d, t, spelled) PROVE TypeOK'
  <2>1. t[2] \in Slot /\ Holder(t) \in User \cup {Nobody}
    BY TokenParts DEF Holder
  <2>2. charged' \in [Req -> User \cup {Nobody}]
    BY <1>5, <2>1 DEF Bear, Charge
  <2> QED BY <1>5, <2>2 DEF Bear, Arrive, Goto, Door, Open
<1>6. ASSUME NEW r \in Req, NEW t \in Token, PresentMail(r, t) PROVE TypeOK'
  BY <1>6 DEF PresentMail, Arrive, Goto, Door, Open, Ended
<1>7. ASSUME NEW r \in Req, NEW t \in Token, PresentRefresh(r, t) PROVE TypeOK'
  <2>1. pc' \in [Req -> {"idle"} \cup Open \cup Ended]
    BY <1>7 DEF PresentRefresh, Goto, Open, Ended
  <2> QED BY <1>7, <2>1 DEF PresentRefresh, Arrive, Door
<1>8. ASSUME NEW r \in Req, Authenticate(r) PROVE TypeOK'
  BY <1>8 DEF Authenticate, Goto, Open, Ended
<1>9. ASSUME NEW r \in Req, SelectUser(r) PROVE TypeOK'
  BY <1>9 DEF SelectUser, Goto, Open, Ended
<1>10. ASSUME NEW r \in Req, Reuse(r) PROVE TypeOK'
  <2>1. Deadline \in Int /\ Selected(Holder(token[r])) \subseteq Pair
    BY Lives DEF Deadline, Selected
  <2>2. listed' \in [Pair -> Int]
    BY <1>10, <2>1 DEF Reuse, Blacklist
  <2> QED BY <1>10, <2>2 DEF Reuse, Goto, Open, Ended
<1>11. ASSUME NEW r \in Req, Lookup(r) PROVE TypeOK'
  BY <1>11 DEF Lookup, Goto, Open, Ended
<1>12. ASSUME NEW r \in Req, NEW p \in Pair, Rotate(r, p) PROVE TypeOK'
  <2>1. token[r] \in Token /\ Type(token[r]) = "refresh"
    BY <1>12 DEF Rotate, Sound, Placed
  <2>2. token[r][2] \in Pair /\ Holder(token[r]) \in User \cup {Nobody}
    BY <2>1, TokenParts DEF Holder, Slot
  <2>3. born' \in [Slot -> {Never} \cup 0..Horizon] /\ holder' \in [Slot -> User \cup {Nobody}]
    BY <1>12, <2>2 DEF Rotate, Issue, Slot
  <2> QED BY <1>12, <2>2, <2>3 DEF Rotate, Goto, Open, Ended
<1>13. ASSUME NEW r \in Req, RefuseInactive(r) PROVE TypeOK'
  BY <1>13 DEF RefuseInactive, Goto, Open, Ended
<1>14. ASSUME NEW r \in Req, Abort(r) PROVE TypeOK'
  BY <1>14 DEF Abort, Goto, Open, Ended
<1>15. ASSUME NEW u \in Fickle, SetActive(u) PROVE TypeOK'
  BY <1>15, Lives DEF SetActive
<1>16. ASSUME NEW p \in Pair, Evict(p) PROVE TypeOK'
  BY <1>16 DEF Evict
<1>17. CASE Tick
  BY <1>17, Lives DEF Tick
<1>18. CASE UNCHANGED vars
  BY <1>18 DEF vars
<1>19. ASSUME NEW r \in Req, Request(r) PROVE TypeOK'
  BY <1>5, <1>6, <1>7, <1>8, <1>9, <1>10, <1>11, <1>12, <1>13, <1>14, <1>19 DEF Request
<1> QED BY <1>1, <1>2, <1>3, <1>4, <1>15, <1>16, <1>17, <1>18, <1>19
        DEF Next, Handlers, Environment

-----------------------------------------------------------------------------
(* An issue takes a free slot. *)
LEMMA IssueOnwards ==
    ASSUME TypeOK, NEW s \in Slot, NEW u \in User, Issue(s, u), UNCHANGED <<split, clock, left>>
    PROVE  Onwards
  BY DEF Issue, Onwards, TypeOK, Never

LEMMA StepOnwards ==
    ASSUME IInv, [Next]_vars
    PROVE  Onwards
<1> USE DEF IInv, TypeOK, config, tables, reqs, Never
<1>1. ASSUME NEW u \in User, NEW p \in Pair, Login(u, p) PROVE Onwards
  BY <1>1, IssueOnwards DEF Login, Slot
<1>2. ASSUME NEW u \in User, NEW m \in Mail, RequestVerification(u, m) PROVE Onwards
  BY <1>2, IssueOnwards DEF RequestVerification, Slot
<1>3. ASSUME NEW r \in Req, NEW p \in Pair, Rotate(r, p) PROVE Onwards
  <2>1. Holder(token[r]) \in User
    BY <1>3 DEF Rotate
  <2> QED BY <1>3, <2>1, IssueOnwards DEF Rotate, Slot
<1>4. CASE UNCHANGED <<split, clock, born, holder>> /\ left \subseteq left'
  BY <1>4 DEF Onwards
<1>5. CASE Tick
  BY <1>5 DEF Tick, Onwards
<1>6. ASSUME NEW r \in Req, Request(r), \A p \in Pair : ~Rotate(r, p) PROVE Onwards
  BY <1>4, <1>6 DEF Request, Bear, PresentMail, PresentRefresh, Authenticate, SelectUser,
                    Reuse, Lookup, RefuseInactive, Abort
<1>7. ASSUME Handlers PROVE Onwards
  BY <1>1, <1>2, <1>4, <1>7 DEF Handlers, LogoutOne, LogoutAll
<1>8. ASSUME Environment PROVE Onwards
  BY <1>4, <1>5, <1>8 DEF Environment, SetActive, Evict
<1>9. CASE UNCHANGED vars
  BY <1>4, <1>9 DEF vars
<1> QED BY <1>3, <1>6, <1>7, <1>8, <1>9 DEF Next

-----------------------------------------------------------------------------
(* Slots, keys and requests, under steps that are not about them. *)
LEMMA SlotsKept ==
    ASSUME IInv, TypeOK', Onwards, NEW s \in Slot,
           born'[s] = born[s] /\ holder'[s] = holder[s],
           s \in revoked' => born'[s] # Never
    PROVE  Issued(s)'
<1>1. Issued(s) /\ clock \in Int /\ clock' \in Int /\ born[s] \in Int
  BY DEF IInv, TypeOK, Never
<1> QED BY <1>1 DEF Issued, Onwards, Never

LEMMA SoundKept ==
    ASSUME IInv, TypeOK', Onwards, NEW r \in Req, Untouched(r)
    PROVE  Sound(r)'
<1> USE DEF IInv, Sound, Untouched
<1>1. CASE pc[r] = "idle"
  <2>1. Placed(r)'
    BY <1>1 DEF Placed
  <2>2. Counted(r)'
    BY <1>1 DEF Placed, Counted
  <2> QED BY <2>1, <2>2
<1>2. CASE pc[r] # "idle"
  <2>1. token[r] \in Token /\ born[token[r][2]] # Never
    BY <1>2 DEF Placed
  <2>2. token[r][2] \in Slot
    BY <2>1, TokenParts
  <2>3. born'[token[r][2]] = born[token[r][2]] /\ holder'[token[r][2]] = holder[token[r][2]]
    BY <2>1, <2>2 DEF Onwards
  <2>4. Opens(token[r], "access")' => Opens(token[r], "access")
    <3>1. ASSUME NEW t \in Token, born[t[2]] # Never, Opens(t, "access")'
          PROVE  Opens(t, "access")
      BY <3>1, NeverAgain
    <3>2. PICK t \in Token : t = token[r]
      BY <2>1
    <3>3. Opens(token[r], "access")' => Opens(t, "access")'
      BY <3>2 DEF Opens, Decodes, Exp, Secret, Type
    <3> QED BY <2>1, <3>1, <3>2, <3>3
  <2>5. Placed(r)'
    BY <1>2, <2>1, <2>3 DEF Placed, Holder, Onwards
  <2>7. Counted(r)'
    BY <1>2, <2>3, <2>4 DEF Counted, Holder
  <2> QED BY <2>5, <2>7
<1> QED BY <1>1, <1>2

-----------------------------------------------------------------------------
(* The request of a step. *)
LEMMA ArriveSound ==
    ASSUME IInv, TypeOK', Onwards, NEW r \in Req, NEW t \in Token,
           \/ \E d \in {"bearer", "admin"}, spelled \in BOOLEAN : Bear(r, d, t, spelled)
           \/ PresentMail(r, t)
           \/ PresentRefresh(r, t)
    PROVE  Sound(r)'
<1> USE DEF IInv, TypeOK, Sound, Goto, config, tables, reqs
<1>1. pc[r] = "idle" /\ r \notin literal /\ charged[r] = Nobody
  BY DEF Bear, PresentMail, PresentRefresh, Arrive, Placed
<1>2. /\ token'[r] = t /\ born[t[2]] # Never /\ UNCHANGED <<born, holder, clock, split, left>>
      /\ t[2] \in Slot
  BY TokenParts DEF Bear, PresentMail, PresentRefresh, Arrive
<1>3. ASSUME NEW d \in {"bearer", "admin"}, NEW spelled \in BOOLEAN, Bear(r, d, t, spelled)
      PROVE  Sound(r)'
  <2>1. pc'[r] = "authenticate" /\ door'[r] = d /\ charged'[r] = Charge(t, spelled)
    BY <1>3 DEF Bear, Arrive
  <2>2. r \in literal' <=> spelled
    BY <1>1, <1>3 DEF Bear
  <2>3. Placed(r)'
    BY <1>2, <2>1 DEF Placed
  <2>4. Holder(t)' = Holder(t) /\ Opens(t, "access")' = Opens(t, "access")
    BY <1>2 DEF Holder, Opens, Decodes, Exp, Secret
  <2>5. holder[t[2]] # Nobody
    BY <1>2, Names DEF Issued
  <2>6. Counted(r)'
    BY <1>2, <2>1, <2>2, <2>4, <2>5 DEF Counted, Charge, Holder
  <2> QED BY <2>3, <2>6
<1>4. ASSUME PresentMail(r, t) PROVE Sound(r)'
  <2>1. door'[r] = "verify" /\ UNCHANGED <<literal, charged>>
    BY <1>4 DEF PresentMail, Arrive
  <2>2. \/ pc'[r] = "select_user" /\ Type(t) = "verify"
        \/ pc'[r] = "refused"
    BY <1>4 DEF PresentMail, Opens
  <2>3. Placed(r)'
    BY <1>2, <2>1, <2>2 DEF Placed, DoorType
  <2>4. Counted(r)'
    BY <1>1, <2>1 DEF Counted
  <2> QED BY <2>3, <2>4
<1>5. ASSUME PresentRefresh(r, t) PROVE Sound(r)'
  <2>1. door'[r] = "refresh" /\ UNCHANGED <<literal, charged>>
    BY <1>5 DEF PresentRefresh, Arrive
  <2>2. \/ pc'[r] = "refused"
        \/ pc'[r] = "lookup" /\ Type(t) = "refresh"
        \/ pc'[r] = "select_all" /\ Type(t) = "refresh" /\ Listed(t)
    BY <1>5 DEF PresentRefresh, Opens
  <2>3. Listed(t) => Holder(t) \in left
    BY TokenParts DEF Listed, Holder, Key
  <2>4. Placed(r)'
    BY <1>2, <2>1, <2>2, <2>3 DEF Placed, Holder
  <2>5. Counted(r)'
    BY <1>1, <2>1 DEF Counted
  <2> QED BY <2>4, <2>5
<1> QED BY <1>3, <1>4, <1>5

LEMMA HandlerSound ==
    ASSUME IInv, TypeOK', Onwards, NEW r \in Req,
           \/ Authenticate(r) \/ SelectUser(r) \/ Reuse(r) \/ Lookup(r)
           \/ (\E p \in Pair : Rotate(r, p)) \/ RefuseInactive(r) \/ Abort(r)
    PROVE  Sound(r)'
<1> USE DEF IInv, TypeOK, Sound, Goto, Open
<1>1. pc[r] # "idle" /\ token[r] \in Token /\ born[token[r][2]] # Never /\ token[r][2] \in Slot
  BY TokenParts DEF Authenticate, SelectUser, Reuse, Lookup, Rotate, RefuseInactive, Abort, Placed
<1>2. /\ UNCHANGED <<door, token, literal, charged>> /\ left \subseteq left'
      /\ born'[token[r][2]] = born[token[r][2]] /\ holder'[token[r][2]] = holder[token[r][2]]
  BY <1>1 DEF Authenticate, SelectUser, Reuse, Lookup, Rotate, RefuseInactive, Abort, Onwards
<1>3. pc'[r] # "idle" /\ pc'[r] # "authenticate"
  BY DEF Authenticate, SelectUser, Reuse, Lookup, Rotate, RefuseInactive, Abort
<1>4. /\ r \in literal' => door'[r] \in {"bearer", "admin"}
      /\ charged'[r] # Nobody => charged'[r] = Holder(token[r])'
  BY <1>2 DEF Counted, Holder
<1>5. /\ pc'[r] \in {"lookup", "select_all"} => FALSE
      /\ pc'[r] = "select_user" => Authenticate(r)
      /\ pc'[r] = "forbidden" => SelectUser(r)
      /\ pc'[r] = "accepted" => SelectUser(r) \/ pc[r] = "rotate"
      /\ pc'[r] = "rotate" => Lookup(r)
      /\ pc'[r] = "reuse" => pc[r] = "select_all"
  BY DEF Authenticate, SelectUser, Reuse, Lookup, Rotate, RefuseInactive, Abort
<1>6. pc'[r] \in {"select_user", "accepted", "forbidden"} =>
          /\ Type(token[r]) = DoorType(door[r])
          /\ r \in literal => charged[r] # Nobody
  <2>1. CASE Authenticate(r)
    <3>1. pc'[r] \in {"select_user", "accepted", "forbidden"} => Opens(token[r], "access")
      BY <2>1 DEF Authenticate
    <3>2. door[r] \in {"bearer", "admin"} /\ (r \in literal /\ charged[r] = Nobody => ~Opens(token[r], "access"))
      BY <2>1 DEF Authenticate, Placed, Counted
    <3> QED BY <3>1, <3>2 DEF Opens, DoorType
  <2>2. CASE SelectUser(r)
    BY <2>2 DEF SelectUser, Placed, Counted
  <2>3. CASE pc[r] = "rotate"
    BY <2>3 DEF Placed, Counted, DoorType
  <2> QED BY <1>5, <2>1, <2>2, <2>3
<1>7. pc'[r] = "select_user" => door[r] # "refresh"
  BY <1>5 DEF Authenticate, Placed
<1>8. pc'[r] \in {"rotate", "reuse"} => door[r] = "refresh" /\ Type(token[r]) = "refresh"
  BY <1>5 DEF Lookup, Placed
<1>9. pc'[r] = "reuse" => Holder(token[r]) \in left
  BY <1>5 DEF Placed
<1>10. Placed(r)'
  BY <1>1, <1>2, <1>3, <1>5, <1>6, <1>7, <1>8, <1>9 DEF Placed, Holder
<1>11. Counted(r)'
  BY <1>2, <1>3, <1>4, <1>6 DEF Counted
<1> QED BY <1>10, <1>11

-----------------------------------------------------------------------------
(* A step revokes only rows of tokens that have been issued. *)
LEMMA RevokedIssued ==
    ASSUME IInv, Onwards, [Next]_vars, NEW s \in Slot, s \in revoked'
    PROVE  born'[s] # Never
<1> USE DEF config, tables, reqs
<1>1. Issued(s)
  BY DEF IInv
<1>2. s \in revoked \/ holder[s] \in User => born[s] # Never
  BY <1>1, Names DEF Issued
<1>3. ASSUME NEW u \in User, NEW p \in Pair, LogoutOne(u, p)
      PROVE  s \in revoked \/ holder[s] \in User
  BY <1>3 DEF LogoutOne
<1>4. ASSUME NEW u \in User, LogoutAll(u)
      PROVE  s \in revoked \/ holder[s] \in User
  BY <1>4 DEF LogoutAll, Selected
<1>5. ASSUME NEW r \in Req, NEW p \in Pair, Rotate(r, p)
      PROVE  s \in revoked \/ born[s] # Never
  <2>1. born[token[r][2]] # Never /\ revoked' = revoked \cup {token[r][2]}
    BY <1>5 DEF Rotate, IInv, Sound, Placed
  <2> QED BY <2>1
<1>6. \/ \E u \in User, p \in Pair : LogoutOne(u, p)
      \/ \E u \in User : LogoutAll(u)
      \/ \E r \in Req, p \in Pair : Rotate(r, p)
      \/ UNCHANGED revoked
  BY DEF Next, Handlers, Request, Environment, Login, RequestVerification, Bear,
     PresentMail, PresentRefresh, Authenticate, SelectUser, Reuse, Lookup,
     RefuseInactive, Abort, SetActive, Evict, Tick, vars
<1>7. born[s] # Never
  BY <1>2, <1>3, <1>4, <1>5, <1>6
<1> QED BY <1>7 DEF Onwards

LEMMA SlotsStep ==
    ASSUME IInv, TypeOK', Onwards, [Next]_vars, NEW s \in Slot
    PROVE  Issued(s)'
<1> USE DEF config, tables, reqs
<1>1. CASE born[s] # Never \/ UNCHANGED <<born, holder>>
  BY <1>1, SlotsKept, RevokedIssued DEF Onwards
<1>2. CASE ~UNCHANGED <<born, holder>> /\ born[s] = Never
  <2>1. PICK q \in Slot, u \in User : Issue(q, u) /\ UNCHANGED clock
    <3>1. ASSUME NEW u \in User, NEW p \in Pair, Login(u, p)
          PROVE  Issue(p, u) /\ UNCHANGED clock
      BY <3>1 DEF Login
    <3>2. ASSUME NEW u \in User, NEW m \in Mail, RequestVerification(u, m)
          PROVE  Issue(m, u) /\ UNCHANGED clock
      BY <3>2 DEF RequestVerification
    <3>3. ASSUME NEW r \in Req, NEW p \in Pair, Rotate(r, p)
          PROVE  /\ Holder(token[r]) \in User
                 /\ Issue(p, Holder(token[r])) /\ UNCHANGED clock
      BY <3>3 DEF Rotate, IInv, TypeOK
    <3>4. \/ \E u \in User, p \in Pair : Login(u, p)
          \/ \E u \in User, m \in Mail : RequestVerification(u, m)
          \/ \E r \in Req, p \in Pair : Rotate(r, p)
      BY <1>2 DEF Next, Handlers, Request, Environment, LogoutOne, LogoutAll, Bear,
         PresentMail, PresentRefresh, Authenticate, SelectUser, Reuse, Lookup,
         RefuseInactive, Abort, SetActive, Evict, Tick, vars
    <3> QED BY <3>1, <3>2, <3>3, <3>4 DEF Slot
  <2>2. born \in [Slot -> {Never} \cup 0..Horizon] /\ holder \in [Slot -> User \cup {Nobody}]
        /\ clock \in 0..Horizon
    BY DEF IInv, TypeOK
  <2>3. CASE s = q
    <3>1. born'[s] = clock /\ holder'[s] = u /\ clock' = clock /\ clock # Never
      BY <2>1, <2>2, <2>3 DEF Issue, Never
    <3> QED BY <2>2, <3>1 DEF Issued
  <2>4. CASE s # q
    <3>1. born'[s] = born[s] /\ holder'[s] = holder[s]
      BY <2>1, <2>2, <2>4 DEF Issue
    <3> QED BY <3>1, SlotsKept, RevokedIssued
  <2> QED BY <2>3, <2>4
<1> QED BY <1>1, <1>2

(* A key that stays, while the clock does. *)
LEMMA KeyKept ==
    ASSUME IInv, Onwards, NEW p \in Pair, listed'[p] = listed[p], clock' = clock
    PROVE  Key(p)'
<1>1. Key(p) /\ Issued(p) /\ p \in Slot /\ left \subseteq User
  BY DEF IInv, TypeOK, Slot
<1>2. listed[p] # Never => born[p] # Never
  BY <1>1, Names DEF Key, Issued
<1> QED BY <1>1, <1>2 DEF Key, Onwards

LEMMA KeyWritten ==
    ASSUME IInv, Onwards, NEW p \in Pair, NEW u, u \in left', UNCHANGED <<clock, holder>>,
           Blacklist(Selected(u))
    PROVE  Key(p)'
<1>1. PICK done \in SUBSET Selected(u) :
          listed' = [q \in Pair |-> IF q \in done THEN Deadline ELSE listed[q]]
  BY DEF Blacklist
<1>2. CASE p \in done
  <2>1. holder'[p] \in left'
    BY <1>2 DEF Selected
  <2>2. listed'[p] = clock + ListTtl /\ ListTtl \in Nat \ {0} /\ clock \in Nat
    BY <1>1, <1>2, Lives DEF Deadline, IInv, TypeOK
  <2> QED BY <2>1, <2>2 DEF Key
<1>3. CASE p \notin done
  BY <1>1, <1>3, KeyKept
<1> QED BY <1>2, <1>3

LEMMA KeysStep ==
    ASSUME IInv, TypeOK', Onwards, [Next]_vars, NEW p \in Pair
    PROVE  Key(p)'
<1> USE DEF config, tables, reqs
<1>1. ASSUME NEW u \in User, LogoutAll(u) PROVE Key(p)'
  BY <1>1, KeyWritten DEF LogoutAll
<1>2. ASSUME NEW r \in Req, Reuse(r) PROVE Key(p)'
  <2>1. Holder(token[r]) \in left'
    BY <1>2 DEF Reuse, IInv, Sound, Placed
  <2> QED BY <1>2, <2>1, KeyWritten DEF Reuse
<1>3. ASSUME NEW q \in Pair, Evict(q) PROVE Key(p)'
  <2>1. CASE q = p
    BY <1>3, <2>1 DEF Evict, Key, IInv, TypeOK
  <2>2. CASE q # p
    BY <1>3, <2>2, KeyKept DEF Evict, IInv, TypeOK
  <2> QED BY <2>1, <2>2
<1>4. CASE Tick
  <2>1. listed'[p] = IF listed[p] <= clock + 1 THEN Never ELSE listed[p]
    BY <1>4 DEF Tick
  <2>2. clock' = clock + 1 /\ UNCHANGED <<holder, left>>
    BY <1>4 DEF Tick
  <2>3. Key(p) /\ clock \in Nat /\ listed[p] \in Int /\ ListTtl \in Nat
    BY Lives DEF IInv, TypeOK
  <2> QED BY <2>1, <2>2, <2>3 DEF Key, Never
<1>5. CASE UNCHANGED <<listed, clock>>
  BY <1>5, KeyKept
<1>6. \/ \E u \in User : LogoutAll(u)
      \/ \E r \in Req : Reuse(r)
      \/ \E q \in Pair : Evict(q)
      \/ Tick
      \/ UNCHANGED <<listed, clock>>
  BY DEF Next, Handlers, Request, Environment, Login, RequestVerification, LogoutOne, Bear,
     PresentMail, PresentRefresh, Authenticate, SelectUser, Lookup, Rotate,
     RefuseInactive, Abort, SetActive, vars
<1> QED BY <1>1, <1>2, <1>3, <1>4, <1>5, <1>6

LEMMA RequestsStep ==
    ASSUME IInv, TypeOK', Onwards, [Next]_vars, NEW r \in Req
    PROVE  Sound(r)'
<1> USE DEF config, tables, reqs
<1>1. CASE Untouched(r)
  BY <1>1, SoundKept
<1>2. CASE Request(r)
  BY <1>2, ArriveSound, HandlerSound DEF Request
<1>3. ASSUME NEW q \in Req, q # r, Request(q) PROVE Untouched(r)
  <2> USE DEF Arrive, Goto, Untouched, IInv, TypeOK
  <2>1. ASSUME NEW t \in Token, NEW d \in {"bearer", "admin"}, NEW spelled \in BOOLEAN,
               Bear(q, d, t, spelled)
        PROVE  Untouched(r)
    BY <1>3, <2>1 DEF Bear
  <2>2. ASSUME NEW t \in Token, PresentMail(q, t) \/ PresentRefresh(q, t) PROVE Untouched(r)
    BY <1>3, <2>2 DEF PresentMail, PresentRefresh
  <2>3. CASE Authenticate(q) \/ SelectUser(q) \/ Lookup(q) \/ Reuse(q) \/ RefuseInactive(q) \/ Abort(q)
    BY <1>3, <2>3 DEF Authenticate, SelectUser, Lookup, Reuse, RefuseInactive, Abort
  <2>4. ASSUME NEW p \in Pair, Rotate(q, p) PROVE Untouched(r)
    BY <1>3, <2>4 DEF Rotate
  <2> QED BY <1>3, <2>1, <2>2, <2>3, <2>4 DEF Request
<1>4. ASSUME UNCHANGED reqs PROVE Untouched(r)
  BY <1>4 DEF Untouched
<1>5. Request(r) \/ (\E q \in Req : q # r /\ Request(q)) \/ UNCHANGED reqs
  BY DEF Next, Handlers, Environment, Login, RequestVerification, LogoutOne, LogoutAll,
     SetActive, Evict, Tick, vars
<1> QED BY <1>1, <1>2, <1>3, <1>4, <1>5

LEMMA Initially == Init => IInv
<1> SUFFICES ASSUME Init PROVE IInv
  OBVIOUS
<1>1. TypeOK
  BY Lives DEF Init, TypeOK, Never, Door
<1>2. \A s \in Slot : Issued(s)
  BY DEF Init, Issued
<1>3. \A p \in Pair : Key(p)
  BY DEF Init, Key
<1>4. \A r \in Req : Sound(r)
  BY DEF Init, Sound, Placed, Counted
<1> QED BY <1>1, <1>2, <1>3, <1>4 DEF IInv

(* The inductive invariant holds in every reachable state.                  *)
THEOREM Inductive == Spec => []IInv
<1>1. ASSUME IInv, [Next]_vars PROVE IInv'
  <2>1. TypeOK' /\ Onwards
    BY <1>1, TypePreserved, StepOnwards
  <2> QED BY <1>1, <2>1, SlotsStep, KeysStep, RequestsStep DEF IInv
<1> QED BY Initially, <1>1, PTL DEF Spec

-----------------------------------------------------------------------------
(* The readers of a token check its type one by one: none opens the door of *)
(* another, with one signing secret or two.                                 *)
THEOREM DoorsSeparate == Spec => []OneDoorPerToken
<1>1. IInv => OneDoorPerToken
  BY DEF IInv, Sound, Placed, OneDoorPerToken, DoorType
<1> QED BY <1>1, Inductive, PTL

(* The limiter charges whoever get_current_user will serve.                 *)
THEOREM ChargesRight == Spec => []ServedAreCharged
<1>1. IInv => ServedAreCharged
  BY DEF IInv, Sound, Counted, ServedAreCharged
<1> QED BY <1>1, Inductive, PTL

(* Lockouts come from a logout and end a ListTtl after what wrote the key.  *)
THEOREM LockoutsEnd == Spec => []LockoutEnds
<1>1. IInv => LockoutEnds
  BY DEF IInv, Sound, Placed, Key, LockoutEnds
<1> QED BY <1>1, Inductive, PTL

(* A refresh token that was not revoked is good for longer than its access  *)
(* token, at any UTC offset that ZonesNarrow admits.                        *)
THEOREM RefreshLasts == Spec => RefreshOutlivesAccess
<1> DEFINE Outlives ==
      \A r \in Req : pc[r] # "refused" /\ pc'[r] = "refused" /\ door'[r] = "refresh" =>
          LET t == token'[r] IN
          Type(t) = "refresh" /\ t[2] \notin revoked /\ Holder(t) \in active =>
              clock >= born[t[2]] + AccessLife
<1>1. ASSUME IInv, [Next]_vars PROVE [Outlives]_vars
  <2> SUFFICES ASSUME NEW r \in Req, Next, pc[r] # "refused", pc'[r] = "refused",
                      door'[r] = "refresh", Type(token'[r]) = "refresh",
                      token'[r][2] \notin revoked, Holder(token'[r]) \in active
               PROVE  clock >= born[token'[r][2]] + AccessLife
    BY <1>1 DEF vars
  <2> USE DEF IInv, TypeOK, Goto
  <2>1. Request(r)
    BY <1>1 DEF Next, Handlers, Environment, Login, RequestVerification, LogoutOne, LogoutAll,
       SetActive, Evict, Tick, Request, Bear, PresentMail, PresentRefresh, Authenticate,
       SelectUser, Reuse, Lookup, Rotate, RefuseInactive, Abort, Arrive, reqs
  <2>2. \/ \E t \in Token : PresentRefresh(r, t)
        \/ Lookup(r)
        \/ RefuseInactive(r)
    BY <1>1, <2>1 DEF Request, Bear, PresentMail, Authenticate, SelectUser, Reuse, Rotate, Abort,
       Arrive, Sound, Placed
  <2>3. ASSUME NEW t \in Token, PresentRefresh(r, t), t = token'[r]
        PROVE  clock >= born[t[2]] + AccessLife
    <3>1. ~Opens(t, "refresh") /\ Type(t) = "refresh" /\ born[t[2]] # Never
      <4>1. r \in DOMAIN pc
        BY <1>1
      <4>2. Type(t) = "refresh" /\ born[t[2]] # Never
        BY <2>3 DEF PresentRefresh, Arrive
      <4> QED BY <2>3, <4>1, <4>2 DEF PresentRefresh
    <3>2. ~(clock < Exp(t)) /\ Life("refresh") = RefreshLife
      BY <3>1 DEF Opens, Decodes, Life
    <3>3. born[t[2]] \in Int /\ clock \in Int
      BY <1>1, TokenParts DEF Never
    <3> QED BY <3>1, <3>2, <3>3, Lives DEF Exp
  <2>4. ASSUME Lookup(r) PROVE clock >= born[token[r][2]] + AccessLife
    <3>1. token[r] \in Token /\ Type(token[r]) = "refresh" /\ ~Usable(token[r])
          /\ token[r][2] \notin revoked
      BY <1>1, <2>4 DEF Lookup, Sound, Placed
    <3>2. ~(clock <= RowExpiry(token[r][2])) /\ token[r][2] \in Slot
      BY <3>1, TokenParts DEF Usable
    <3>3. born[token[r][2]] \in Int /\ clock \in Int /\ zone \in Zones /\ zone \in Int
      BY <1>1, <3>2, ZonesNarrow DEF Never
    <3>4. AccessLife + zone <= RefreshLife
      BY <3>3, ZonesNarrow
    <3> QED BY <3>2, <3>3, <3>4, Lives DEF RowExpiry
  <2>5. ~RefuseInactive(r)
    BY DEF RefuseInactive
  <2>6. \A t \in Token : PresentRefresh(r, t) => t = token'[r]
    BY <1>1 DEF PresentRefresh, Arrive
  <2>7. Lookup(r) => token'[r] = token[r]
    BY DEF Lookup
  <2> QED BY <2>2, <2>3, <2>4, <2>5, <2>6, <2>7
<1> QED BY <1>1, Inductive, PTL DEF Spec, RefreshOutlivesAccess
-----------------------------------------------------------------------------
(* The token table of this model, too, implements the ledger of             *)
(* TokenLedger.                                                             *)
Stutter == UNCHANGED <<RowState, RowOwner>>

(* A row whose fields stay. *)
LEMMA RowsKept ==
    ASSUME UNCHANGED <<born, holder, revoked>>
    PROVE  Stutter
  BY DEF Stutter, RowState, RowOwner

(* An issue fills an absent row, and does nothing else to the table. *)
LEMMA RowIssued ==
    ASSUME IInv, NEW p \in Pair, NEW u \in User, Issue(p, u)
    PROVE  /\ RowState[p] = "absent" /\ p \notin revoked /\ born'[p] # Never
           /\ \A q \in Pair \ {p} : born'[q] = born[q]
           /\ RowOwner' = [RowOwner EXCEPT ![p] = u]
<1>1. /\ born \in [Slot -> {Never} \cup 0..Horizon] /\ clock \in 0..Horizon
      /\ holder \in [Slot -> User \cup {Nobody}] /\ Pair \subseteq Slot
      /\ Issued(p)
  BY DEF IInv, TypeOK, Slot
<1>2. born[p] = Never /\ born' = [born EXCEPT ![p] = clock]
      /\ holder' = [holder EXCEPT ![p] = u]
  BY DEF Issue
<1>3. RowOwner' = [RowOwner EXCEPT ![p] = u]
  BY <1>1, <1>2 DEF RowOwner
<1> QED BY <1>1, <1>2, <1>3 DEF RowState, Issued, Never

(* A logout closes rows of one account. *)
LEMMA RowsClosed ==
    ASSUME IInv, NEW u \in User, NEW S \in SUBSET Pair, \A p \in S : holder[p] = u,
           revoked' = revoked \cup S, UNCHANGED <<born, holder>>
    PROVE  Ledger!Close(S, u)
<1>1. \A p \in S : born[p] # Never
  <2> SUFFICES ASSUME NEW p \in S PROVE born[p] # Never
    OBVIOUS
  <2>1. Issued(p) /\ holder[p] = u
    BY DEF IInv, Slot
  <2> QED BY <2>1, Names DEF Issued
<1>2. \A p \in S : RowState[p] # "absent" /\ RowOwner[p] = u
  BY <1>1 DEF RowState, RowOwner
<1>3. RowState' = [p \in Pair |-> IF p \in S THEN "revoked" ELSE RowState[p]]
  BY <1>1 DEF RowState
<1>4. UNCHANGED RowOwner
  BY DEF RowOwner
<1> QED BY <1>2, <1>3, <1>4 DEF Ledger!Close

(* Every step of the tokens is one step of the ledger or none: a login      *)
(* opens a row, a refresh rotates one, and only a logout of its account or  *)
(* its own refresh revokes it, whatever the clock, Redis and the            *)
(* administrators do meanwhile.                                             *)
THEOREM LivesImplementLedger == Spec => LedgerSpec
<1>1. Init => Ledger!Init
  BY DEF Init, Ledger!Init, RowState, RowOwner, Slot
<1>2. ASSUME IInv, [Next]_vars PROVE Ledger!Next \/ Stutter
  <2> USE DEF config, tables, reqs
  <2>1. ASSUME NEW u \in User, NEW p \in Pair, Login(u, p) PROVE Ledger!Next
    <3>1. Issue(p, u) /\ UNCHANGED revoked
      BY <2>1 DEF Login
    <3>2. RowState' = [RowState EXCEPT ![p] = "live"]
      BY <1>2, <3>1, RowIssued DEF RowState
    <3>3. Ledger!Open(p, u)
      BY <1>2, <3>1, <3>2, RowIssued DEF Ledger!Open, Ledger!Enter
    <3> QED BY <3>3 DEF Ledger!Next
  <2>2. ASSUME NEW r \in Req, NEW p \in Pair, Rotate(r, p) PROVE Ledger!Next
    <3> DEFINE parent == token[r][2]
               u == holder[parent]
    <3>1. parent \in Pair /\ born[parent] # Never /\ Issue(p, u)
          /\ revoked' = revoked \cup {parent}
      BY <1>2, <2>2, TokenParts DEF Rotate, Holder, IInv, Sound, Placed
    <3>2. u \in User /\ p # parent
      BY <1>2, <3>1 DEF IInv, Issued, Slot, Issue
    <3> HIDE DEF parent, u
    <3>3. RowState' = [RowState EXCEPT ![p] = "live", ![parent] = "revoked"]
      BY <1>2, <3>1, <3>2, RowIssued DEF RowState
    <3>4. RowState[parent] # "absent" /\ RowOwner[parent] = u
      BY <3>1 DEF RowState, RowOwner, u
    <3>5. Ledger!Rotate(parent, p)
      BY <1>2, <3>1, <3>2, <3>3, <3>4, RowIssued DEF Ledger!Rotate, Ledger!Enter
    <3> QED BY <3>1, <3>5 DEF Ledger!Next
  <2>3. ASSUME NEW u \in User, NEW p \in Pair, LogoutOne(u, p) PROVE Ledger!Next
    <3>1. Ledger!Close({p}, u)
      BY <1>2, <2>3, RowsClosed DEF LogoutOne
    <3> QED BY <3>1 DEF Ledger!Next
  <2>4. ASSUME NEW u \in User, LogoutAll(u) PROVE Ledger!Next \/ Stutter
    <3>1. CASE revoked' = revoked
      BY <2>4, <3>1, RowsKept DEF LogoutAll
    <3>2. CASE revoked' = revoked \cup Selected(u)
      <4>1. Ledger!Close(Selected(u), u)
        BY <1>2, <2>4, <3>2, RowsClosed DEF LogoutAll, Selected
      <4> QED BY <4>1 DEF Ledger!Next, Selected
    <3> QED BY <2>4, <3>1, <3>2 DEF LogoutAll
  <2>5. ASSUME NEW u \in User, NEW m \in Mail, RequestVerification(u, m) PROVE Stutter
    <3>1. \A p \in Pair : born'[p] = born[p] /\ holder'[p] = holder[p]
      BY <1>2, <2>5, Names DEF RequestVerification, Issue, IInv, TypeOK, Slot
    <3> QED BY <2>5, <3>1 DEF RequestVerification, Stutter, RowState, RowOwner
  <2>6. \/ \E u \in User, p \in Pair : Login(u, p) \/ LogoutOne(u, p)
        \/ \E r \in Req, p \in Pair : Rotate(r, p)
        \/ \E u \in User : LogoutAll(u)
        \/ \E u \in User, m \in Mail : RequestVerification(u, m)
        \/ UNCHANGED <<born, holder, revoked>>
    BY <1>2 DEF Next, Handlers, Request, Environment, Bear, PresentMail, PresentRefresh,
       Authenticate, SelectUser, Reuse, Lookup, RefuseInactive, Abort, SetActive, Evict,
       Tick, vars
  <2> QED BY <2>1, <2>2, <2>3, <2>4, <2>5, <2>6, RowsKept
<1>3. IInv /\ [Next]_vars => [Ledger!Next]_<<RowState, RowOwner>>
  BY <1>2 DEF Stutter
<1> QED BY <1>1, <1>3, Inductive, PTL DEF Spec, LedgerSpec, Ledger!Spec
=============================================================================
