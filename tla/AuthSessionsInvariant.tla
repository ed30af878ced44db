------------------------ MODULE AuthSessionsInvariant ------------------------
(***************************************************************************)
(* The inductive invariant behind the safety theorems of AuthSessions.     *)
(* Each conjunct speaks of one request: of its own variables, of the rows  *)
(* of the tokens it names, and of the owners of those tokens.  A step of   *)
(* another request can only turn live rows revoked, so it keeps them all.  *)
(***************************************************************************)
EXTENDS AuthSessions

Issuing(r) == kind[r] \in {"login", "refresh"}
Stored(t)  == status[t] # "absent"
Mine(r, t) == Stored(t) /\ Owner(t) = user[r]

(* Where a request of each kind can stand, and what it has then answered. *)
Phase(r) ==
    /\ pc[r] = "idle" <=> kind[r] = "none"
    /\ pc[r] = "get_user" => kind[r] = "refresh"
    /\ pc[r] \in {"lookup", "select_all", "revoking"} => kind[r] # "login"
    /\ pc[r] = "select_all" \/ pc[r] = "revoking" =>
           kind[r] = "refresh" \/ arg[r] = NoToken
    /\ pc[r] = "lookup" => arg[r] # NoToken
    /\ pc[r] = "reject" => answer[r] \in {"unauthorized", "reuse"}
    /\ pc[r] \notin {"reject", "done"} => answer[r] = "none"

(* A session that is not writing holds no lock and no change. *)
Idle(r) ==
    /\ pc[r] \notin {"flush", "get_user", "commit", "reject"} => locks[r] = {}
    /\ pc[r] \in {"idle", "lookup", "select_all"} => dirty[r] = {}
    /\ pc[r] = "idle" => arg[r] = NoToken /\ live0[r] = {} /\ todo[r] = {}

(* The row of a minted token is there from the commit on, and only then. *)
OwnRow(r) ==
    /\ Stored(r) => /\ Issuing(r)
                    /\ \/ pc[r] = "respond"
                       \/ Answered(r, "ok") \/ Answered(r, "failed")
    /\ Issuing(r) /\ (pc[r] = "respond" \/ Answered(r, "ok")) => Stored(r)

(* The tokens a request names are stored, and belong to its account. *)
Names(r) ==
    /\ kind[r] = "refresh" => arg[r] # NoToken /\ Mine(r, arg[r])
    /\ arg[r] # NoToken => Stored(arg[r])
    /\ \A t \in live0[r] \cup todo[r] : Mine(r, t)
    /\ \A t \in dirty[r] \cap Token : Mine(r, t)

(* A refresh holds its parent's row until it commits. *)
Rotating(r) ==
    kind[r] = "refresh" =>
        /\ arg[r] \in live0[r] \/ status[arg[r]] = "revoked"
        /\ pc[r] \in {"flush", "get_user", "commit"} => dirty[r] = {arg[r]}
        /\ pc[r] \in {"flush", "get_user", "commit", "respond"} \/ Answered(r, "ok")
               => arg[r] \in live0[r]
        /\ Stored(r) => arg[r] \in live0[r] /\ status[arg[r]] = "revoked"

(* A logout carries every token it has to revoke along to its commit. *)
Carried(r, t) ==
    \/ status[t] = "revoked"
    \/ pc[r] = "select_all"
    \/ pc[r] = "revoking" /\ t \in todo[r] \cup dirty[r]
    \/ pc[r] \in {"flush", "commit"} /\ t \in dirty[r]
    \/ pc[r] = "reject"
    \/ pc[r] = "done" /\ answer[r] # "ok"

LoggingOut(r) ==
    kind[r] = "logout" =>
        /\ arg[r] = NoToken => \A t \in live0[r] : Carried(r, t)
        /\ arg[r] # NoToken /\ Owner(arg[r]) = user[r] =>
               pc[r] = "lookup" \/ Carried(r, arg[r])

(* The audit row a session has added says what the request is about to do.  *)
Entering(r) ==
    /\ kind[r] = "login" /\ pc[r] \in {"flush", "commit"} => entry[r] = "login_success"
    /\ kind[r] = "refresh" /\ pc[r] = "commit" => entry[r] = "token_refreshed"
    /\ kind[r] = "logout" /\ pc[r] \in {"flush", "commit"} => entry[r] = "user_logout"

(* Only a refresh, a logout of one token and a logout of all write tokens.   *)
Scope(r) ==
    /\ kind[r] = "logout" => user[r] \in User
    /\ kind[r] = "login" /\ pc[r] \in {"flush", "commit"} => user[r] \in User
    /\ kind[r] = "login" => dirty[r] \cap Token = {}
    /\ kind[r] = "logout" /\ arg[r] # NoToken => dirty[r] \cap Token \subseteq {arg[r]}

Sound(r) == /\ Phase(r) /\ Idle(r) /\ OwnRow(r) /\ Entering(r) /\ Scope(r)
            /\ Names(r) /\ Rotating(r) /\ LoggingOut(r)

(* Holds in every reachable state: the facts about one request that the     *)
(* interleaving of the others never disturbs (AuthService, get_session).    *)
IInv == /\ TypeOK
        /\ \A t \in Seed : Stored(t)
        /\ \A r \in Req : Sound(r)

(* The audit table, on top of IInv: entries come from requests under way or *)
(* over, and explain every row.                                             *)
Trail == /\ \A e \in audit : kind[e.req] # "none"
         /\ AuditExplainsTokens
=============================================================================
