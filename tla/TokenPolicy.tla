---------------------------- MODULE TokenPolicy ----------------------------
(***************************************************************************)
(* The lives of the tokens on one clock: three types of JWT, two signing   *)
(* secrets that may be one, the stored expiry of a refresh token, and the  *)
(* blacklist keys with their TTL.                                          *)
(*                                                                         *)
(* A request reads its token, and the clock, at several points, between    *)
(* which time passes and accounts and tokens change: the rate limiter, the *)
(* dependency or the service, and then a SELECT.  The handlers that issue  *)
(* or revoke are one step each: how they interleave is AuthSessions.       *)
(***************************************************************************)
EXTENDS Integers, FiniteSets

CONSTANTS
    User,          \* accounts
    Pair,          \* the pairs of an access and a refresh token to be issued
    Mail,          \* the verification tokens to be issued
    Req,           \* requests, each used once
    AccessLife,    \* access_token_expire_minutes
    RefreshLife,   \* refresh_token_expire_days
    MailLife,      \* email_verification_token_expire_minutes
    ListTtl,       \* the TTL of a blacklist key
    Zones,         \* UTC offsets the server may run at
    Super,         \* accounts with users.is_superuser, which no code changes
    Fickle,        \* accounts an administrator switches on and off
    Horizon,       \* the last instant of the behaviour
    Nobody, NoToken

Slot  == Pair \cup Mail
Token == ({"access", "refresh"} \X Pair) \cup ({"verify"} \X Mail)

ASSUME Names == Pair \cap Mail = {} /\ Nobody \notin User /\ NoToken \notin Token
ASSUME Lives ==
    /\ {AccessLife, RefreshLife, MailLife, ListTtl} \subseteq Nat \ {0}
    /\ AccessLife <= RefreshLife
    /\ Horizon \in Nat /\ Super \cup Fickle \subseteq User
(* A refresh token outlives its access token by more than a time zone: 7    *)
(* days against 15 minutes and 14 hours.                                    *)
ASSUME ZonesNarrow ==
    /\ Zones \subseteq Int
    /\ \A z \in Zones : AccessLife + z <= RefreshLife

Never == -1

VARIABLES
    (* the deployment, chosen at the start *)
    zone,          \* the UTC offset of the servers
    split,         \* refresh tokens have a signing secret of their own
    clock,
    (* tokens and PostgreSQL *)
    born,          \* born[s]: iat of the tokens of s, Never before
    holder,        \* holder[s]: their sub
    revoked,       \* pairs whose refresh_tokens row is revoked
    active,        \* accounts with users.is_active
    (* Redis *)
    listed,        \* listed[p]: deadline of the blacklist key, Never if none
    (* requests *)
    pc, door,      \* where the request stands, which endpoint it is for
    token,         \* the token it presents
    literal,       \* its Authorization header begins with "Bearer "
    charged,       \* the account the limiter counts it for, or Nobody
    (* history *)
    left           \* accounts whose owner has called for a logout of all

config == <<zone, split>>
tables == <<born, holder, revoked, active>>
reqs   == <<pc, door, token, literal, charged>>
vars   == <<config, clock, tables, listed, reqs, left>>

(* The readers: get_current_user, get_current_superuser, refresh_token and  *)
(* verify_email.                                                            *)
Door == {"bearer", "admin", "refresh", "verify"}
Ended == {"accepted", "refused", "forbidden", "reuse", "failed"}
Open  == {"authenticate", "lookup", "select_all", "rotate", "select_user"}

TypeOK ==
    /\ zone \in Zones /\ split \in BOOLEAN
    /\ clock \in 0..Horizon
    /\ born \in [Slot -> {Never} \cup 0..Horizon]
    /\ holder \in [Slot -> User \cup {Nobody}]
    /\ revoked \subseteq Pair /\ active \subseteq User
    /\ listed \in [Pair -> Int]
    /\ pc \in [Req -> {"idle"} \cup Open \cup Ended]
    /\ door \in [Req -> Door]
    /\ token \in [Req -> Token \cup {NoToken}]
    /\ literal \subseteq Req
    /\ charged \in [Req -> User \cup {Nobody}]
    /\ left \subseteq User

Init ==
    /\ zone \in Zones /\ split \in BOOLEAN
    /\ clock = 0
    /\ born = [s \in Slot |-> Never] /\ holder = [s \in Slot |-> Nobody]
    /\ revoked = {} /\ active = User
    /\ listed = [p \in Pair |-> Never]
    /\ pc = [r \in Req |-> "idle"] /\ door = [r \in Req |-> "bearer"]
    /\ token = [r \in Req |-> NoToken]
    /\ literal = {} /\ charged = [r \in Req |-> Nobody]
    /\ left = {}

-----------------------------------------------------------------------------
(* Claims and signature. *)
Type(t)   == t[1]
Holder(t) == holder[t[2]]
Life(type) == CASE type = "access"  -> AccessLife
                [] type = "refresh" -> RefreshLife
                [] type = "verify"  -> MailLife
Exp(t) == born[t[2]] + Life(Type(t))

(* jwt_access_secret and jwt_refresh_secret, each SECRET_KEY by default. *)
Secret(type) == IF type = "refresh" /\ split THEN "refresh" ELSE "access"

(* decode_token, with the secret for tokens of the wanted type, and then    *)
(* the reader's look at the type claim.                                     *)
Decodes(t, wanted) ==
    /\ born[t[2]] # Never /\ clock < Exp(t)
    /\ Secret(Type(t)) = Secret(wanted)
OpensAnyType(t, wanted) == Decodes(t, wanted)
Opens(t, wanted) == Decodes(t, wanted) /\ Type(t) = wanted

(* _extract_user_id: the header has to begin with "Bearer ", spelled so.    *)
ChargeRefreshSecret(t, spelled) ==
    IF spelled /\ Opens(t, "refresh") THEN Holder(t) ELSE Nobody
Charge(t, spelled) ==
    IF spelled /\ Opens(t, "access") THEN Holder(t) ELSE Nobody

(* expires_at is a UTC time stored without its zone, so that the driver     *)
(* takes it for local time.                                                 *)
RowExpiryAtIssue(p) == born[p] - zone
RowExpiry(p) == born[p] + RefreshLife - zone

(* The row a token hashes to, when it is unrevoked and has not expired.     *)
Usable(t) == Type(t) = "refresh" /\ t[2] \notin revoked /\ clock <= RowExpiry(t[2])

Listed(t) == Type(t) = "refresh" /\ listed[t[2]] # Never

(* The unrevoked rows of an account. *)
SelectedEveryone(u) == {p \in Pair : born[p] # Never /\ p \notin revoked}
Selected(u) == {p \in Pair : holder[p] = u /\ p \notin revoked}

-----------------------------------------------------------------------------
(* A SETEX that fails leaves its key as it was. *)
DeadlineOfToken == clock + RefreshLife
Deadline == clock + ListTtl
Blacklist(rows) ==
    \E done \in SUBSET rows :
        listed' = [p \in Pair |-> IF p \in done THEN Deadline ELSE listed[p]]

Issue(s, u) ==
    /\ born[s] = Never
    /\ born' = [born EXCEPT ![s] = clock]
    /\ holder' = [holder EXCEPT ![s] = u]

(* POST /login. *)
Login(u, p) ==
    /\ u \in active /\ Issue(p, u)
    /\ UNCHANGED <<config, clock, revoked, active, listed, reqs, left>>

(* get_current_user at the endpoints below. *)
SignedIn(u) ==
    /\ u \in active
    /\ \E p \in Pair : holder[p] = u /\ Opens(<<"access", p>>, "access")

(* POST /request-verification: the token goes out by mail. *)
RequestVerification(u, m) ==
    /\ SignedIn(u) /\ Issue(m, u)
    /\ UNCHANGED <<config, clock, revoked, active, listed, reqs, left>>

(* POST /logout with a refresh token: its row only. *)
LogoutOne(u, p) ==
    /\ SignedIn(u) /\ holder[p] = u
    /\ revoked' = revoked \cup {p}
    /\ UNCHANGED <<config, clock, born, holder, active, listed, reqs, left>>

(* POST /logout without one: keys first, rows with the commit, which may    *)
(* fail.                                                                    *)
LogoutAll(u) ==
    /\ SignedIn(u)
    /\ Blacklist(Selected(u))
    /\ revoked' \in {revoked, revoked \cup Selected(u)}
    /\ left' = left \cup {u}
    /\ UNCHANGED <<config, clock, born, holder, active, reqs>>

-----------------------------------------------------------------------------
Goto(r, l) == pc' = [pc EXCEPT ![r] = l]

Arrive(r, d, t) ==
    /\ pc[r] = "idle" /\ born[t[2]] # Never
    /\ door' = [door EXCEPT ![r] = d]
    /\ token' = [token EXCEPT ![r] = t]

(* A request with a bearer token, as the rate limiter sees it. *)
Bear(r, d, t, spelled) ==
    /\ Arrive(r, d, t)
    /\ literal' = IF spelled THEN literal \cup {r} ELSE literal
    /\ charged' = [charged EXCEPT ![r] = Charge(t, spelled)]
    /\ Goto(r, "authenticate")
    /\ UNCHANGED <<config, clock, tables, listed, left>>

(* get_current_user up to its SELECT.  No code lists an access token's jti, *)
(* so EXISTS finds nothing.                                                 *)
Authenticate(r) ==
    /\ pc[r] = "authenticate"
    /\ Goto(r, IF Opens(token[r], "access") THEN "select_user" ELSE "refused")
    /\ UNCHANGED <<config, clock, tables, listed, door, token, literal, charged, left>>

(* POST /verify-email up to its SELECT. *)
PresentMail(r, t) ==
    /\ Arrive(r, "verify", t)
    /\ Goto(r, IF Opens(t, "verify") THEN "select_user" ELSE "refused")
    /\ UNCHANGED <<config, clock, tables, listed, literal, charged, left>>

(* The SELECT of the active account, and get_current_superuser's 403. *)
SelectUser(r) ==
    /\ pc[r] = "select_user"
    /\ Goto(r, IF Holder(token[r]) \notin active THEN "refused"
               ELSE IF door[r] = "admin" /\ Holder(token[r]) \notin Super
               THEN "forbidden" ELSE "accepted")
    /\ UNCHANGED <<config, clock, tables, listed, door, token, literal, charged, left>>

-----------------------------------------------------------------------------
(* POST /refresh: decode_token, then the blacklist; an EXISTS that fails    *)
(* finds nothing.                                                           *)
PresentRefresh(r, t) ==
    /\ Arrive(r, "refresh", t)
    /\ \/ ~Opens(t, "refresh") /\ Goto(r, "refused")
       \/ Opens(t, "refresh") /\ Goto(r, "lookup")
       \/ Opens(t, "refresh") /\ Listed(t) /\ Goto(r, "select_all")
    /\ UNCHANGED <<config, clock, tables, listed, literal, charged, left>>

(* The keys of the account's tokens stay; the rows are rolled back with the *)
(* 401.                                                                     *)
Reuse(r) ==
    LET u == Holder(token[r]) IN
    /\ pc[r] = "select_all"
    /\ Blacklist(Selected(u))
    /\ Goto(r, "reuse")
    /\ UNCHANGED <<config, clock, tables, door, token, literal, charged, left>>

Lookup(r) ==
    /\ pc[r] = "lookup"
    /\ Goto(r, IF Usable(token[r]) THEN "rotate" ELSE "refused")
    /\ UNCHANGED <<config, clock, tables, listed, door, token, literal, charged, left>>

(* The SELECT of the account, and the commit of the new pair. *)
Rotate(r, p) ==
    LET t == token[r] IN
    /\ pc[r] = "rotate" /\ Holder(t) \in active
    /\ Issue(p, Holder(t))
    /\ revoked' = revoked \cup {t[2]}
    /\ Goto(r, "accepted")
    /\ UNCHANGED <<config, clock, active, listed, door, token, literal, charged, left>>

RefuseInactive(r) ==
    /\ pc[r] = "rotate" /\ Holder(token[r]) \notin active
    /\ Goto(r, "refused")
    /\ UNCHANGED <<config, clock, tables, listed, door, token, literal, charged, left>>

(* A failure: the transaction is rolled back. *)
Abort(r) ==
    /\ pc[r] \in Open
    /\ Goto(r, "failed")
    /\ UNCHANGED <<config, clock, tables, listed, door, token, literal, charged, left>>

-----------------------------------------------------------------------------
(* An administrator's SQL. *)
SetActive(u) ==
    /\ active' = (active \ {u}) \cup ({u} \ active)
    /\ UNCHANGED <<config, clock, born, holder, revoked, listed, reqs, left>>

(* Redis evicts a key. *)
Evict(p) ==
    /\ listed[p] # Never
    /\ listed' = [listed EXCEPT ![p] = Never]
    /\ UNCHANGED <<config, clock, tables, reqs, left>>

Tick ==
    /\ clock < Horizon
    /\ clock' = clock + 1
    /\ listed' = [p \in Pair |-> IF listed[p] <= clock + 1 THEN Never ELSE listed[p]]
    /\ UNCHANGED <<config, tables, reqs, left>>

Handlers ==
    \E u \in User :
        \/ \E p \in Pair : Login(u, p) \/ LogoutOne(u, p)
        \/ \E m \in Mail : RequestVerification(u, m)
        \/ LogoutAll(u)

Request(r) ==
    \/ \E t \in Token :
           \/ \E d \in {"bearer", "admin"}, spelled \in BOOLEAN : Bear(r, d, t, spelled)
           \/ PresentMail(r, t)
           \/ PresentRefresh(r, t)
    \/ Authenticate(r)
    \/ SelectUser(r)
    \/ Reuse(r)
    \/ Lookup(r)
    \/ \E p \in Pair : Rotate(r, p)
    \/ RefuseInactive(r)
    \/ Abort(r)

Environment ==
    \/ \E u \in Fickle : SetActive(u)
    \/ \E p \in Pair : Evict(p)
    \/ Tick

Next == Handlers \/ (\E r \in Req : Request(r)) \/ Environment

Spec == Init /\ [][Next]_vars

-----------------------------------------------------------------------------
(* Whatever the two secrets are, one or two, a token opens no other door    *)
(* than that of its type: the readers check the claim one by one            *)
(* (get_current_user, refresh_token, verify_email).                         *)
DoorType(d) == IF d \in {"refresh", "verify"} THEN d ELSE "access"
OneDoorPerToken ==
    \A r \in Req : pc[r] \in {"accepted", "forbidden", "reuse"} =>
        Type(token[r]) = DoorType(door[r])

(* The limiter and get_current_user agree though they read the token at     *)
(* different times, and one of them without a look at any table: whoever is *)
(* served as an account was charged to it when the scheme is spelled as the *)
(* limiter wants it, and nobody is charged to another account               *)
(* (_extract_user_id).                                                      *)
ServedAreCharged ==
    \A r \in Req :
        /\ charged[r] # Nobody => charged[r] = Holder(token[r])
        /\ pc[r] \in {"accepted", "forbidden"} /\ r \in literal =>
               charged[r] # Nobody

(* A refresh token serves its purpose: unless it was revoked or its account *)
(* is inactive, it is refused only when its access token is over, wherever  *)
(* the server's clock is set (expires_at without a time zone).              *)
RefreshOutlivesAccess ==
    [][\A r \in Req : pc[r] # "refused" /\ pc'[r] = "refused" /\ door'[r] = "refresh" =>
          LET t == token'[r] IN
          Type(t) = "refresh" /\ t[2] \notin revoked /\ Holder(t) \in active =>
              clock >= born[t[2]] + AccessLife]_vars

(* Lockout: no token is refused as reused in an account whose owner never   *)
(* called for a logout, and the keys of an account, which may name rows     *)
(* that are live, are gone a ListTtl after the logout or the reuse that     *)
(* wrote them (_revoke_all_user_tokens, blacklist_token).                   *)
LockoutEnds ==
    /\ \A r \in Req : pc[r] = "reuse" => Holder(token[r]) \in left
    /\ \A p \in Pair : listed[p] # Never =>
           holder[p] \in left /\ listed[p] \in clock + 1..clock + ListTtl

(* Over the lives of its tokens, too, the refresh_tokens table implements   *)
(* the ledger of TokenLedger: whatever an administrator, the clock and      *)
(* Redis do, a row is revoked by a logout of its own account or by the      *)
(* refresh that spends it, for good, and its successor is of that account   *)
(* (_revoke_all_user_tokens, refresh_token).                                *)
RowState ==
    [p \in Pair |-> IF born[p] = Never THEN "absent"
                    ELSE IF p \in revoked THEN "revoked" ELSE "live"]
RowOwner == [p \in Pair |-> holder[p]]
Ledger == INSTANCE TokenLedger
              WITH Token <- Pair, Seed <- {}, Held <- [p \in {} |-> Nobody],
                   NoUser <- Nobody, state <- RowState, owner <- RowOwner
LedgerSpec == Ledger!Spec
=============================================================================
