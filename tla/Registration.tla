----------------------------- MODULE Registration -----------------------------
(***************************************************************************)
(* Accounts: AuthService.register, request_verification and verify_email,  *)
(* as they interleave on PostgreSQL.                                       *)
(*                                                                         *)
(* register looks for the email and for the name, and then leaves it to    *)
(* two unique indexes whether the INSERT succeeds.  As in AuthSessions,    *)
(* a request is one transaction and every statement is an action; an       *)
(* account, whose id is a fresh uuid4, is named by its request.            *)
(***************************************************************************)
EXTENDS Naturals, FiniteSets

CONSTANTS
    Req,           \* requests, each used once
    Email, Name,
    None

ASSUME Fresh == None \notin Req \cup Email \cup Name

VARIABLES
    (* PostgreSQL *)
    stored,        \* committed rows of users
    verified,      \* users.is_verified
    inactive,      \* users whose is_active is false
    entries,       \* entries[r]: the unique indexes r's new row is in
    audit,         \* committed audit_logs rows
    (* the requests *)
    pc, kind,
    row,           \* email and username to register
    about,         \* the account of the bearer, or of the verification token
    changes,       \* requests whose ORM session has set is_verified
    entry,         \* the audit row the session has added
    answer

dbVars == <<stored, verified, inactive, entries, audit>>
vars   == <<dbVars, pc, kind, row, about, changes, entry, answer>>

Event  == {"user_registered", "verification_requested", "email_verified"}
Answer == {"none", "ok", "conflict", "integrity", "unauthorized", "failed"}
PC     == {"idle", "by_email", "by_name", "insert", "update", "commit",
           "respond", "reject", "done"}

TypeOK ==
    /\ stored \subseteq Req /\ verified \subseteq Req /\ inactive \subseteq Req
    /\ entries \in [Req -> SUBSET {"email", "name"}]
    /\ audit \subseteq [req : Req, event : Event]
    /\ pc \in [Req -> PC]
    /\ kind \in [Req -> {"none", "register", "ask", "verify"}]
    /\ row \in [Req -> [email : Email \cup {None}, name : Name \cup {None}]]
    /\ about \in [Req -> Req \cup {None}]
    /\ changes \subseteq Req
    /\ entry \in [Req -> Event \cup {"none"}]
    /\ answer \in [Req -> Answer]

Init ==
    /\ stored = {} /\ verified = {} /\ inactive = {} /\ audit = {}
    /\ entries = [r \in Req |-> {}]
    /\ pc = [r \in Req |-> "idle"]
    /\ kind = [r \in Req |-> "none"]
    /\ row = [r \in Req |-> [email |-> None, name |-> None]]
    /\ about = [r \in Req |-> None]
    /\ changes = {}
    /\ entry = [r \in Req |-> "none"]
    /\ answer = [r \in Req |-> "none"]

-----------------------------------------------------------------------------
Answered(r, a) == pc[r] = "done" /\ answer[r] = a
Goto(r, l)     == pc' = [pc EXCEPT ![r] = l]
Log(r, e)      == entry' = [entry EXCEPT ![r] = e]

(* The handler raises, get_session is to roll back. *)
Raise(r, a) == Goto(r, "reject") /\ answer' = [answer EXCEPT ![r] = a]

(* A request comes in and runs to its first database result. *)
Begin(r, k) ==
    /\ pc[r] = "idle"
    /\ kind' = [kind EXCEPT ![r] = k]
    /\ UNCHANGED dbVars

(* POST /register *)
Register(r, e, n) ==
    /\ Begin(r, "register")
    /\ row' = [row EXCEPT ![r] = [email |-> e, name |-> n]]
    /\ Goto(r, "by_email")
    /\ UNCHANGED <<about, changes, entry, answer>>

(* The accounts a SELECT for the email or the name of r returns. *)
SameUncommitted(r, c) == {q \in Req \ {r} : c \in entries[q] /\ row[q][c] = row[r][c]}
Same(r, c) == {q \in stored \ {r} : row[q][c] = row[r][c]}

Select(r, c, next) ==
    /\ IF Same(r, c) # {} THEN Raise(r, "conflict") ELSE Goto(r, next) /\ UNCHANGED answer
    /\ UNCHANGED <<dbVars, kind, row, about, changes, entry>>

SelectByEmail(r) == pc[r] = "by_email" /\ Select(r, "email", "by_name")
SelectByName(r)  == pc[r] = "by_name" /\ Select(r, "name", "insert")

(* session.flush(): the INSERT enters the row in each unique index, in the  *)
(* order of their creation.  An entry of a transaction under way makes it   *)
(* wait; a committed one makes it fail with an IntegrityError, which the    *)
(* handler does not catch.                                                  *)
UniqueEmailOnly == {"email"}
Unique == {"email", "name"}

NextIndexAny(r, c) == c \in Unique \ entries[r]
NextIndex(r, c) ==
    /\ c \in Unique \ entries[r]
    /\ c = "name" => "email" \in entries[r]

Rivals(r, c) == {q \in Req \ {r} : c \in entries[q] /\ row[q][c] = row[r][c]}

AfterInsertUncommitted == "respond"
AfterInsert == "commit"

Enter(r, c) ==
    /\ Rivals(r, c) = {}
    /\ entries' = [entries EXCEPT ![r] = @ \cup {c}]
    /\ IF Unique \subseteq entries[r] \cup {c}
         THEN Goto(r, AfterInsert) /\ Log(r, "user_registered")
         ELSE UNCHANGED <<pc, entry>>
    /\ UNCHANGED answer

Insert(r, c) ==
    /\ pc[r] = "insert" /\ NextIndex(r, c)
    /\ \/ Enter(r, c)
       \/ /\ Rivals(r, c) \cap stored # {}
          /\ Raise(r, "integrity") /\ UNCHANGED <<entries, entry>>
    /\ UNCHANGED <<stored, verified, inactive, audit, kind, row, about, changes>>

-----------------------------------------------------------------------------
(* POST /request-verification, by a bearer of the account's access token.   *)
(* The answer has the token, except in production, where no code sends it.  *)
RequestVerification(r, a) ==
    /\ Begin(r, "ask") /\ a \in stored
    /\ about' = [about EXCEPT ![r] = a]
    /\ IF a \in inactive
         THEN Raise(r, "unauthorized") /\ UNCHANGED entry
         ELSE /\ Goto(r, "commit") /\ Log(r, "verification_requested")
              /\ UNCHANGED answer
    /\ UNCHANGED <<row, changes>>

(* The accounts whose verification token a client has been sent. *)
SubjectsAnyType == stored
Subjects == {about[r] : r \in {q \in Req : kind[q] = "ask" /\ Answered(q, "ok")}}

(* POST /verify-email: a token that is expired, malformed or of another     *)
(* type is refused; otherwise one SELECT finds the active account.          *)
RefuseToken(r) ==
    /\ Begin(r, "verify")
    /\ Raise(r, "unauthorized")
    /\ UNCHANGED <<row, about, changes, entry>>

VerifyEmail(r, a) ==
    /\ Begin(r, "verify") /\ a \in Subjects
    /\ about' = [about EXCEPT ![r] = a]
    /\ IF a \in inactive
         THEN Raise(r, "unauthorized") /\ UNCHANGED <<changes, entry>>
         ELSE /\ changes' = changes \cup {x \in {r} : a \notin verified}
              /\ Goto(r, IF a \in verified THEN "commit" ELSE "update")
              /\ Log(r, "email_verified")
              /\ UNCHANGED answer
    /\ UNCHANGED row

(* The UPDATE waits for a transaction that has updated the same row. *)
Holds(r, a) == r \in changes /\ pc[r] = "commit" /\ about[r] = a

Update(r) ==
    /\ pc[r] = "update"
    /\ \A q \in Req : ~Holds(q, about[r])
    /\ Goto(r, "commit")
    /\ UNCHANGED <<dbVars, kind, row, about, changes, entry, answer>>

-----------------------------------------------------------------------------
(* get_session, as in AuthSessions. *)
Commit(r) ==
    /\ pc[r] = "commit"
    /\ stored' = stored \cup {x \in {r} : kind[x] = "register"}
    /\ verified' = verified \cup {about[x] : x \in changes \cap {r}}
    /\ audit' = audit \cup {[req |-> r, event |-> entry[r]]}
    /\ changes' = changes \ {r}
    /\ Goto(r, "respond")
    /\ UNCHANGED <<inactive, entries, kind, row, about, entry, answer>>

Respond(r) ==
    /\ pc[r] = "respond"
    /\ Goto(r, "done")
    /\ answer' = [answer EXCEPT ![r] = "ok"]
    /\ UNCHANGED <<dbVars, kind, row, about, changes, entry>>

(* The row of a transaction that ends without commit leaves the indexes. *)
DiscardNothing(r) == UNCHANGED <<entries, changes>>
Discard(r) ==
    /\ entries' = [entries EXCEPT ![r] = IF r \in stored THEN @ ELSE {}]
    /\ changes' = changes \ {r}

Rollback(r) ==
    /\ pc[r] = "reject"
    /\ Discard(r) /\ Goto(r, "done")
    /\ UNCHANGED <<stored, verified, inactive, audit, kind, row, about, entry, answer>>

(* A database error or a worker that dies, before or after the commit. *)
Abort(r) ==
    /\ pc[r] \notin {"idle", "done"}
    /\ Discard(r) /\ Goto(r, "done")
    /\ answer' = [answer EXCEPT ![r] = "failed"]
    /\ UNCHANGED <<stored, verified, inactive, audit, kind, row, about, entry>>

(* An administrator clears is_active with SQL. *)
Deactivate(a) ==
    /\ a \in stored \ inactive
    /\ \A q \in Req : ~Holds(q, a)
    /\ inactive' = inactive \cup {a}
    /\ UNCHANGED <<stored, verified, entries, audit,
                   pc, kind, row, about, changes, entry, answer>>

Client(r) ==
    \/ \E e \in Email, n \in Name : Register(r, e, n)
    \/ \E a \in Req : RequestVerification(r, a) \/ VerifyEmail(r, a)
    \/ RefuseToken(r)

Handler(r) ==
    \/ SelectByEmail(r) \/ SelectByName(r)
    \/ \E c \in {"email", "name"} : Insert(r, c)
    \/ Update(r)
    \/ Commit(r) \/ Respond(r) \/ Rollback(r)

Next == \E r \in Req : Client(r) \/ Handler(r) \/ Abort(r) \/ Deactivate(r)

Spec == Init /\ [][Next]_vars

-----------------------------------------------------------------------------
(* A registration is refused, by a SELECT or by an index, only for an       *)
(* account that exists and has its email or name, never for one that a      *)
(* concurrent registration tried to open and rolled back (register).        *)
RefusalsHaveCause ==
    \A r \in Req : Answered(r, "conflict") \/ Answered(r, "integrity") =>
        \E c \in {"email", "name"} : Same(r, c) # {}

(* A registration answered 201 has its account, with the row in both        *)
(* indexes; one that ended without an account leaves email and name free.   *)
AnswersMatchRows ==
    \A r \in Req : kind[r] = "register" /\ pc[r] = "done" =>
        /\ answer[r] = "ok" => r \in stored
        /\ answer[r] \in {"conflict", "integrity"} => r \notin stored
        /\ r \notin stored => entries[r] = {}

(* An account is verified only after it was registered, after a bearer of   *)
(* this account asked for a token, and by a request that presented one: all *)
(* three are in the audit trail, whatever failed meanwhile (verify_email).  *)
VerifiedHasTrail ==
    \A a \in verified :
        /\ [req |-> a, event |-> "user_registered"] \in audit
        /\ \A e \in {"verification_requested", "email_verified"} :
               \E r \in Req : about[r] = a /\ [req |-> r, event |-> e] \in audit

(* No deadlock in the database: among any requests that wait for an index   *)
(* entry or a row, one waits for none of the others (flush).                *)
WaitsFor(r, q) ==
    \/ /\ pc[r] = "insert" /\ q \notin stored
       /\ \E c \in Unique : NextIndex(r, c) /\ q \in Rivals(r, c)
    \/ pc[r] = "update" /\ Holds(q, about[r])
NoWaitCycle ==
    \A S \in (SUBSET Req) \ {{}} : \E r \in S : \A q \in S : ~WaitsFor(r, q)

(* The users table implements AccountBook: one account per email and per    *)
(* name, for any interleaving of registrations (unique=True of User).       *)
Accounts == {[id |-> r, email |-> row[r].email, name |-> row[r].name] : r \in stored}
Book == INSTANCE AccountBook WITH Id <- Req, accounts <- Accounts, confirmed <- verified
BookSpec == Book!Spec

-----------------------------------------------------------------------------
(* "HTTPException 409: If email or username already exists.", says register *)
(* (auth_service.py:117); the duplicate only an index finds is answered 500 *)
(* (integrity).                                                             *)
SameErrorForDuplicates ==
    \A r \in Req : kind[r] = "register" /\ pc[r] = "done" =>
        answer[r] # "integrity"

=============================================================================
