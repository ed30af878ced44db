---------------------------- MODULE AuthSessions ----------------------------
(***************************************************************************)
(* The session operations of AuthService (login, refresh, logout) as they  *)
(* interleave on PostgreSQL and Redis.                                     *)
(*                                                                         *)
(* Every HTTP request is one database transaction: get_session commits     *)
(* after the handler returns and rolls back when the handler raises, and   *)
(* the response leaves only afterwards.  A handler gives way to other      *)
(* requests (four worker processes, and every await inside one) at each    *)
(* database or Redis call, so each call is an action here.                 *)
(*                                                                         *)
(* Next to some definitions stands a mutant of the same parameters: the     *)
(* definition as a plausible slip would have it.  No action uses one.      *)
(*                                                                         *)
(* A refresh token is named by the request that minted it (its jti is a    *)
(* fresh uuid4), or is one of the Seed tokens issued earlier.              *)
(***************************************************************************)
EXTENDS Naturals, FiniteSets

CONSTANTS
    User,          \* accounts
    Req,           \* requests to /login, /refresh and /logout, each used once
    Seed,          \* refresh tokens handed out before the behaviour starts
    Held,          \* Held[t]: the account a seed token was issued to
    Rank,          \* Rank[row]: position of a row's primary key
    Aging,         \* tokens that may reach their exp within the behaviour
    NoUser, NoToken

Token == Seed \cup Req
Row   == Token \cup User

ASSUME Disjoint ==
    /\ Seed \cap Req = {} /\ Token \cap User = {}
    /\ NoUser \notin User /\ NoToken \notin Token
ASSUME HeldType == Held \in [Seed -> User]
ASSUME RankType ==
    /\ Rank \in [Row -> Nat]
    /\ \A a, b \in Row : Rank[a] = Rank[b] => a = b
ASSUME AgingType == Aging \subseteq Token
ASSUME Finite == IsFiniteSet(User) /\ IsFiniteSet(Req) /\ IsFiniteSet(Seed)

VARIABLES
    (* PostgreSQL *)
    status,        \* status[t]: the committed refresh_tokens row of t
    userActive,    \* users.is_active
    locks,         \* locks[r]: the rows r's transaction has updated
    audit,         \* committed audit_logs rows
    (* Redis *)
    blacklist,     \* jtis with a blacklist:token: key
    (* time *)
    expired,       \* tokens past their exp
    (* the requests *)
    pc,            \* where the handler stands
    kind,          \* the endpoint
    user,          \* the account the request acts for
    arg,           \* the refresh token in the request body
    todo,          \* rows _revoke_all_user_tokens has yet to visit
    dirty,         \* rows the ORM session has modified
    entry,         \* the audit row the session has added
    answer,        \* the outcome of the handler, sent when pc is "done"
    (* history *)
    live0          \* live0[r]: the account's live tokens when r arrived

dbVars  == <<status, userActive, audit>>
reqVars == <<pc, kind, user, arg, todo, dirty, entry, answer>>
vars    == <<dbVars, locks, blacklist, expired, reqVars, live0>>

Kind   == {"none", "login", "refresh", "logout"}
Answer == {"none", "ok", "unauthorized", "reuse", "failed"}
Event  == {"login_success", "login_failed", "login_failed_inactive",
           "token_refreshed", "user_logout"}
PC     == {"idle", "lookup", "select_all", "revoking", "flush", "get_user",
           "commit", "respond", "reject", "done"}

TypeOK ==
    /\ status \in [Token -> {"absent", "live", "revoked"}]
    /\ userActive \in [User -> BOOLEAN]
    /\ locks \in [Req -> SUBSET Row]
    /\ audit \subseteq [req : Req, event : Event]
    /\ blacklist \subseteq Token
    /\ expired \subseteq Token
    /\ pc \in [Req -> PC]
    /\ kind \in [Req -> Kind]
    /\ user \in [Req -> User \cup {NoUser}]
    /\ arg \in [Req -> Token \cup {NoToken}]
    /\ todo \in [Req -> SUBSET Token]
    /\ dirty \in [Req -> SUBSET Row]
    /\ entry \in [Req -> Event \cup {"none"}]
    /\ answer \in [Req -> Answer]
    /\ live0 \in [Req -> SUBSET Token]

Init ==
    /\ status = [t \in Token |-> IF t \in Seed THEN "live" ELSE "absent"]
    /\ userActive = [u \in User |-> TRUE]
    /\ locks = [r \in Req |-> {}]
    /\ audit = {} /\ blacklist = {} /\ expired = {}
    /\ pc = [r \in Req |-> "idle"]
    /\ kind = [r \in Req |-> "none"]
    /\ user = [r \in Req |-> NoUser]
    /\ arg = [r \in Req |-> NoToken]
    /\ todo = [r \in Req |-> {}]
    /\ dirty = [r \in Req |-> {}]
    /\ entry = [r \in Req |-> "none"]
    /\ answer = [r \in Req |-> "none"]
    /\ live0 = [r \in Req |-> {}]

-----------------------------------------------------------------------------
(* refresh_tokens.user_id, and the sub claim of the token. *)
Owner(t) == IF t \in Seed THEN Held[t] ELSE user[t]

Answered(r, a) == pc[r] = "done" /\ answer[r] = a

(* A client has a token once the response that carries it has been sent. *)
Minted(r) == kind[r] \in {"login", "refresh"} /\ Answered(r, "ok")
Handed == Seed \cup {r \in Req : Minted(r)}

LiveOf(u) == {t \in Token : status[t] = "live" /\ Owner(t) = u}

Goto(r, l) == pc' = [pc EXCEPT ![r] = l]

(* raise HTTPException: the handler is over, get_session is to roll back. *)
Raise(r, a) == Goto(r, "reject") /\ answer' = [answer EXCEPT ![r] = a]

(* _audit_log: the row is added to the session and stored by its commit. *)
Log(r, e) == entry' = [entry EXCEPT ![r] = e]

(* A row is updated once no other transaction holds it.  The unit of work   *)
(* emits its UPDATEs in primary key order.                                  *)
Free(r, row) == \A q \in Req \ {r} : row \notin locks[q]
NextRowUnsorted(r, row) == row \in dirty[r] \ locks[r]
NextRow(r, row) ==
    /\ row \in dirty[r] \ locks[r]
    /\ \A other \in dirty[r] \ locks[r] : Rank[row] <= Rank[other]

(* The statement after the flush: refresh goes on to read the user. *)
AfterFlushUnread(r) == "commit"
AfterFlushUncommitted(r) == IF kind[r] = "refresh" THEN "get_user" ELSE "respond"
AfterFlushReselect(r) == IF kind[r] = "logout" THEN "select_all" ELSE "commit"
AfterFlush(r) == IF kind[r] = "refresh" THEN "get_user" ELSE "commit"
FlushOrSkip(rows) == IF rows = {} THEN "commit" ELSE "flush"

(* The session is closed: locks are released, unflushed changes dropped. *)
CloseSessionLeaky(r) ==
    /\ dirty' = [dirty EXCEPT ![r] = {}]
    /\ todo'  = [todo EXCEPT ![r] = {}]
    /\ UNCHANGED locks
CloseSession(r) ==
    /\ locks' = [locks EXCEPT ![r] = {}]
    /\ dirty' = [dirty EXCEPT ![r] = {}]
    /\ todo'  = [todo EXCEPT ![r] = {}]

-----------------------------------------------------------------------------
(* POST /login: one SELECT finds the account, the checks follow without an  *)
(* await.  An unknown name and a wrong password are the same outcome.       *)
LoginBegin(r) ==
    /\ pc[r] = "idle"
    /\ kind' = [kind EXCEPT ![r] = "login"]
    /\ UNCHANGED <<dbVars, locks, blacklist, expired, arg, todo, live0>>

LoginUnknown(r) ==
    /\ LoginBegin(r)
    /\ Raise(r, "unauthorized")
    /\ Log(r, "login_failed")
    /\ UNCHANGED <<user, dirty>>

LoginInactive(r, u) ==
    /\ LoginBegin(r)
    /\ ~userActive[u]
    /\ Raise(r, "unauthorized")
    /\ Log(r, "login_failed_inactive")
    /\ user' = [user EXCEPT ![r] = u]
    /\ UNCHANGED dirty

(* last_login_at is set on the users row and flushed with the new token. *)
LoginAccepted(r, u) ==
    /\ LoginBegin(r)
    /\ userActive[u]
    /\ Goto(r, "flush")
    /\ user' = [user EXCEPT ![r] = u]
    /\ dirty' = [dirty EXCEPT ![r] = {u}]
    /\ Log(r, "login_success")
    /\ UNCHANGED answer

Login(r) ==
    \/ LoginUnknown(r)
    \/ \E u \in User : LoginInactive(r, u) \/ LoginAccepted(r, u)

-----------------------------------------------------------------------------
(* POST /refresh: decode_token, then the blacklist.  A Redis call may fail, *)
(* and a failed EXISTS counts as "not blacklisted".                         *)
Refresh(r, t) ==
    /\ pc[r] = "idle" /\ t \in Handed
    /\ kind' = [kind EXCEPT ![r] = "refresh"]
    /\ user' = [user EXCEPT ![r] = Owner(t)]
    /\ arg' = [arg EXCEPT ![r] = t]
    /\ live0' = [live0 EXCEPT ![r] = LiveOf(Owner(t))]
    /\ \/ t \in expired /\ Raise(r, "unauthorized")
       \/ t \notin expired /\ Goto(r, "lookup") /\ UNCHANGED answer
       \/ /\ t \in blacklist \ expired
          /\ Goto(r, "select_all") /\ UNCHANGED answer
    /\ UNCHANGED <<dbVars, locks, blacklist, expired, todo, dirty, entry>>

(* A stored row that is neither revoked nor expired. *)
UsableRevoked(t) == status[t] # "absent" /\ t \notin expired
Usable(t) == status[t] = "live" /\ t \notin expired

(* The stored row is revoked in the session; the SELECT on users that       *)
(* follows flushes it.                                                      *)
RefreshLookup(r) ==
    /\ pc[r] = "lookup" /\ kind[r] = "refresh"
    /\ IF Usable(arg[r])
         THEN /\ Goto(r, "flush")
              /\ dirty' = [dirty EXCEPT ![r] = {arg[r]}]
              /\ UNCHANGED answer
         ELSE Raise(r, "unauthorized") /\ UNCHANGED dirty
    /\ UNCHANGED <<dbVars, locks, blacklist, expired, kind, user, arg, todo,
                   entry, live0>>

(* Only an active account gets the new pair of tokens. *)
RefreshGetUser(r) ==
    /\ pc[r] = "get_user"
    /\ IF userActive[user[r]]
         THEN /\ Goto(r, "commit")
              /\ Log(r, "token_refreshed")
              /\ UNCHANGED answer
         ELSE Raise(r, "unauthorized") /\ UNCHANGED entry
    /\ UNCHANGED <<dbVars, locks, blacklist, expired, kind, user, arg, todo,
                   dirty, live0>>

-----------------------------------------------------------------------------
(* POST /logout, for the bearer of an access token: get_current_user reads  *)
(* the account, then one token is looked up or all of them are revoked.     *)
HasAccess(u) == \E t \in Handed : Owner(t) = u

Logout(r, u, t) ==
    /\ pc[r] = "idle" /\ HasAccess(u)
    /\ t \in Handed \cup {NoToken}
    /\ kind' = [kind EXCEPT ![r] = "logout"]
    /\ user' = [user EXCEPT ![r] = u]
    /\ arg' = [arg EXCEPT ![r] = t]
    /\ live0' = [live0 EXCEPT ![r] = LiveOf(u)]
    /\ IF userActive[u]
         THEN /\ Goto(r, IF t = NoToken THEN "select_all" ELSE "lookup")
              /\ UNCHANGED answer
         ELSE Raise(r, "unauthorized")
    /\ UNCHANGED <<dbVars, locks, blacklist, expired, todo, dirty, entry>>

(* The named token, when it is a token of this account. *)
FoundAnyOwner(r) == {t \in {arg[r]} : status[t] # "absent"}
Found(r) == {t \in {arg[r]} : status[t] # "absent" /\ Owner(t) = user[r]}

LogoutLookup(r) ==
    /\ pc[r] = "lookup" /\ kind[r] = "logout"
    /\ dirty' = [dirty EXCEPT ![r] = Found(r)]
    /\ Goto(r, FlushOrSkip(Found(r)))
    /\ Log(r, "user_logout")
    /\ UNCHANGED <<dbVars, locks, blacklist, expired, kind, user, arg, todo,
                   answer, live0>>

-----------------------------------------------------------------------------
(* _revoke_all_user_tokens: one SELECT of the unrevoked rows, then for each *)
(* row token.revoke() and a SETEX that may fail without notice.             *)
SelectedUnlisted(r) == LiveOf(user[r]) \ blacklist
SelectedEveryone(r) == {t \in Token : status[t] = "live"}
Selected(r) == LiveOf(user[r])

RevokeAllSelect(r) ==
    /\ pc[r] = "select_all"
    /\ todo' = [todo EXCEPT ![r] = Selected(r)]
    /\ Goto(r, "revoking")
    /\ UNCHANGED <<dbVars, locks, blacklist, expired, kind, user, arg, dirty,
                   entry, answer, live0>>

RevokeOne(r, t) ==
    /\ pc[r] = "revoking" /\ t \in todo[r]
    /\ todo' = [todo EXCEPT ![r] = @ \ {t}]
    /\ dirty' = [dirty EXCEPT ![r] = @ \cup {t}]
    /\ blacklist' \in {blacklist, blacklist \cup {t}}
    /\ UNCHANGED <<dbVars, locks, expired, pc, kind, user, arg, entry, answer,
                   live0>>

(* A blacklisted refresh token is answered 401, a logout goes on to flush. *)
RevokeAllDone(r) ==
    /\ pc[r] = "revoking" /\ todo[r] = {}
    /\ IF kind[r] = "refresh"
         THEN Raise(r, "reuse") /\ UNCHANGED entry
         ELSE /\ Goto(r, FlushOrSkip(dirty[r]))
              /\ Log(r, "user_logout")
              /\ UNCHANGED answer
    /\ UNCHANGED <<dbVars, locks, blacklist, expired, kind, user, arg, todo,
                   dirty, live0>>

-----------------------------------------------------------------------------
(* session.flush(): one UPDATE, which waits while another transaction has   *)
(* updated the row.  Its WHERE clause names the primary key only.           *)
FlushRow(r, row) ==
    /\ pc[r] = "flush" /\ NextRow(r, row) /\ Free(r, row)
    /\ locks' = [locks EXCEPT ![r] = @ \cup {row}]
    /\ IF dirty[r] \subseteq locks[r] \cup {row}
         THEN Goto(r, AfterFlush(r)) ELSE UNCHANGED pc
    /\ UNCHANGED <<dbVars, blacklist, expired, kind, user, arg, todo, dirty,
                   entry, answer, live0>>

(* The rows as r's transaction leaves them: revoked, and a new one minted. *)
WrittenNewOnly(r) ==
    [t \in Token |->
        IF t = r /\ kind[r] \in {"login", "refresh"} THEN "live" ELSE status[t]]
Written(r) ==
    [t \in Token |->
        IF t \in dirty[r] THEN "revoked"
        ELSE IF t = r /\ kind[r] \in {"login", "refresh"} THEN "live"
        ELSE status[t]]

(* get_session after the handler: commit. *)
Commit(r) ==
    /\ pc[r] = "commit"
    /\ status' = Written(r)
    /\ audit' = audit \cup {[req |-> r, event |-> entry[r]]}
    /\ CloseSession(r)
    /\ Goto(r, "respond")
    /\ UNCHANGED <<userActive, blacklist, expired, kind, user, arg, entry,
                   answer, live0>>

Respond(r) ==
    /\ pc[r] = "respond"
    /\ Goto(r, "done")
    /\ answer' = [answer EXCEPT ![r] = "ok"]
    /\ UNCHANGED <<dbVars, locks, blacklist, expired, kind, user, arg, todo,
                   dirty, entry, live0>>

(* get_session after an HTTPException: rollback, then the 401 is sent. *)
Rollback(r) ==
    /\ pc[r] = "reject"
    /\ CloseSession(r)
    /\ Goto(r, "done")
    /\ UNCHANGED <<dbVars, blacklist, expired, kind, user, arg, entry, answer,
                   live0>>

(* A database error, a failed commit, a killed worker or a lost connection: *)
(* the transaction is rolled back unless it had committed.                  *)
Abort(r) ==
    /\ pc[r] \notin {"idle", "done"}
    /\ CloseSession(r)
    /\ Goto(r, "done")
    /\ answer' = [answer EXCEPT ![r] = "failed"]
    /\ UNCHANGED <<dbVars, blacklist, expired, kind, user, arg, entry, live0>>

-----------------------------------------------------------------------------
(* An administrator clears users.is_active with SQL: no endpoint does. *)
Deactivate(u) ==
    /\ userActive[u] /\ \A r \in Req : u \notin locks[r]
    /\ userActive' = [userActive EXCEPT ![u] = FALSE]
    /\ UNCHANGED <<status, audit, locks, blacklist, expired, reqVars, live0>>

(* A token reaches its exp. *)
Expire(t) ==
    /\ t \in Aging \ expired
    /\ expired' = expired \cup {t}
    /\ UNCHANGED <<dbVars, locks, blacklist, reqVars, live0>>

(* A blacklist key goes: its TTL, the one hour default, is over long before *)
(* the seven days of the token, or Redis evicts it (allkeys-lru).           *)
Forget(t) ==
    /\ t \in blacklist
    /\ blacklist' = blacklist \ {t}
    /\ UNCHANGED <<dbVars, locks, expired, reqVars, live0>>

-----------------------------------------------------------------------------
Handler(r) ==
    \/ RefreshLookup(r)
    \/ RefreshGetUser(r)
    \/ LogoutLookup(r)
    \/ RevokeAllSelect(r)
    \/ \E t \in Token : RevokeOne(r, t)
    \/ RevokeAllDone(r)
    \/ \E row \in Row : FlushRow(r, row)
    \/ Commit(r)
    \/ Respond(r)
    \/ Rollback(r)

Client(r) ==
    \/ Login(r)
    \/ \E t \in Token : Refresh(r, t)
    \/ \E u \in User, t \in Token \cup {NoToken} : Logout(r, u, t)

Environment ==
    \/ \E r \in Req : Abort(r)
    \/ \E u \in User : Deactivate(u)
    \/ \E t \in Token : Expire(t) \/ Forget(t)

Next == \/ \E r \in Req : Client(r) \/ Handler(r)
        \/ Environment

Spec == Init /\ [][Next]_vars

(* A worker goes on with every request it has accepted; nothing makes a     *)
(* client send one, and nothing has to fail.                                *)
FairSpec == Spec /\ \A r \in Req : WF_vars(Handler(r))

-----------------------------------------------------------------------------
(* What holds. *)

(* A refresh answered with new tokens presented a token that was live in    *)
(* the database when the request arrived: a revoked, a rolled back or a     *)
(* never committed token buys nothing (refresh_token).                      *)
RefreshNeedsLiveToken ==
    \A r \in Req : kind[r] = "refresh" /\ Answered(r, "ok") => arg[r] \in live0[r]

(* A client never holds a token the database has not durably stored, and a  *)
(* request that was refused leaves neither a token nor a lock behind, even  *)
(* when its UPDATE had been flushed before the refusal (get_session).       *)
AnswersAreDurable ==
    \A r \in Req :
        /\ Minted(r) => status[r] # "absent"
        /\ Answered(r, "unauthorized") \/ Answered(r, "reuse") =>
               status[r] = "absent" /\ locks[r] = {}

(* Rotation: from the moment a successor can be used its parent cannot, for *)
(* every interleaving, refusal and abort (refresh_token).                   *)
RotationKillsParent ==
    \A r \in Req :
        kind[r] = "refresh" /\ status[r] # "absent" => status[arg[r]] = "revoked"

(* A logout answered 200 has revoked for good the token it named, or every  *)
(* token of the account that was live when it arrived (logout).             *)
LogoutTakesHold ==
    \A r \in Req : kind[r] = "logout" /\ Answered(r, "ok") =>
        IF arg[r] = NoToken
          THEN \A t \in live0[r] : status[t] = "revoked"
          ELSE Owner(arg[r]) = user[r] => status[arg[r]] = "revoked"

(* The audit trail accounts for the token table: every minted token and     *)
(* every revocation has a committed entry of a request of the same account  *)
(* that did it (AuditLog, written in the transaction it describes).         *)
AuditExplainsTokens ==
    /\ \A r \in Req : status[r] # "absent" =>
           \E e \in {"login_success", "token_refreshed"} :
               [req |-> r, event |-> e] \in audit
    /\ \A t \in Token : status[t] = "revoked" =>
           \E r \in Req :
               /\ user[r] = Owner(t)
               /\ \/ arg[r] = t /\ [req |-> r, event |-> "token_refreshed"] \in audit
                  \/ arg[r] \in {t, NoToken} /\ [req |-> r, event |-> "user_logout"] \in audit

(* No deadlock in the database: among any requests waiting for row locks    *)
(* one waits for none of the others (flush in primary key order).           *)
WaitsFor(r, q) ==
    /\ pc[r] = "flush" /\ q # r
    /\ \E row \in locks[q] : NextRow(r, row)
NoLockCycle ==
    \A S \in (SUBSET Req) \ {{}} : \E r \in S : \A q \in S : ~WaitsFor(r, q)

(* Handlers do not go round in circles: every step of its own takes a       *)
(* request to a later place in its handler, or takes one of the rows that   *)
(* keep it where it is, a row to revoke or an UPDATE to send, and nobody    *)
(* else gives it more of them: the tokens minted while it runs are not      *)
(* added to what a logout has to do (_revoke_all_user_tokens, flush).       *)
Ahead(r) ==
    CASE pc[r] = "idle" -> 8
      [] pc[r] = "lookup" -> 7
      [] pc[r] = "select_all" -> 6
      [] pc[r] = "revoking" -> 5
      [] pc[r] = "flush" -> 4
      [] pc[r] = "get_user" -> 3
      [] pc[r] = "commit" -> 2
      [] pc[r] \in {"respond", "reject"} -> 1
      [] pc[r] = "done" -> 0
Pending(r) == IF pc[r] = "revoking" THEN todo[r]
              ELSE IF pc[r] = "flush" THEN dirty[r] \ locks[r] ELSE {}
Nearer(r) ==
    \/ Ahead(r)' < Ahead(r)
    \/ Ahead(r)' = Ahead(r) /\ Pending(r)' \in (SUBSET Pending(r)) \ {Pending(r)}
StepsRunOut ==
    [][\A r \in Req : /\ Handler(r) => Nearer(r)
                      /\ Nearer(r) \/ UNCHANGED <<Ahead(r), Pending(r)>>]_vars

(* Every request a worker accepts is answered, lock waits included. *)
EveryRequestAnswered ==
    \A r \in Req : pc[r] # "idle" ~> pc[r] = "done"

(* The refresh_tokens table implements the ledger of TokenLedger: tokens    *)
(* are opened, rotated within one account and closed, never reopened.       *)
RowOwner == [t \in Token |-> IF status[t] = "absent" THEN NoUser ELSE Owner(t)]
Ledger == INSTANCE TokenLedger WITH state <- status, owner <- RowOwner
LedgerSpec == Ledger!Spec

-----------------------------------------------------------------------------
(* What the documentation says and the code does not do. *)

(* "Token rotation ensures each refresh token can only be used once."       *)
(* docs/security-decisions.md:69, for the SELECT and the UPDATE of          *)
(* refresh_token, between which another refresh runs.                       *)
SingleUse ==
    \A r, q \in Req :
        /\ kind[r] = "refresh" /\ Answered(r, "ok")
        /\ kind[q] = "refresh" /\ Answered(q, "ok")
        => r = q \/ arg[r] # arg[q]

(* "On logout, all refresh tokens for a user are revoked in the database    *)
(* and Redis." docs/security-decisions.md:68, for a refresh that is under   *)
(* way while logout selects the rows: no successor of a token that was live *)
(* when the logout arrived is live once the logout is answered.             *)
LogoutEndsSessions ==
    \A r, q \in Req :
        /\ kind[r] = "logout" /\ arg[r] = NoToken /\ Answered(r, "ok")
        /\ kind[q] = "refresh" /\ arg[q] \in live0[r]
        => status[q] # "live"

(* "Token has been revoked - revoke all tokens for this user",              *)
(* app/services/auth_service.py:333, for the 401 that follows and rolls     *)
(* those revocations back.                                                  *)
ReuseRevokesAll ==
    \A r \in Req : Answered(r, "reuse") =>
        \A t \in live0[r] : status[t] = "revoked"
=============================================================================
