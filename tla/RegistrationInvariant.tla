------------------------ MODULE RegistrationInvariant ------------------------
(***************************************************************************)
(* The inductive invariant behind the theorems of Registration.            *)
(***************************************************************************)
EXTENDS Registration

Logged(r, e) == [req |-> r, event |-> e] \in audit

(* Where a request of each kind can stand. *)
Phase(r) ==
    /\ pc[r] = "idle" <=> kind[r] = "none"
    /\ pc[r] \in {"by_email", "by_name", "insert"} => kind[r] = "register"
    /\ pc[r] = "update" => kind[r] = "verify"
    /\ pc[r] \notin {"reject", "done"} => answer[r] = "none"
    /\ pc[r] = "reject" => answer[r] \in {"conflict", "integrity", "unauthorized"}

(* The new row of a registration: in no index before the INSERT, in all of  *)
(* them from its end on, and in none again when there is no account.        *)
Indexed(r) ==
    /\ kind[r] = "register" => row[r].email \in Email /\ row[r].name \in Name
    /\ kind[r] # "register" => entries[r] = {}
    /\ pc[r] \in {"idle", "by_email", "by_name"} => entries[r] = {}
    /\ kind[r] = "register" /\ pc[r] \in {"commit", "respond"} => entries[r] = Unique
    /\ "name" \in entries[r] => "email" \in entries[r]
    /\ pc[r] = "done" => r \in stored \/ entries[r] = {}

(* An account is there from the commit of its registration on. *)
Opened(r) ==
    /\ r \in stored =>
           /\ kind[r] = "register" /\ entries[r] = Unique
           /\ pc[r] = "respond" \/ Answered(r, "ok") \/ Answered(r, "failed")
           /\ Logged(r, "user_registered")
    /\ kind[r] = "register" /\ (pc[r] = "respond" \/ Answered(r, "ok")) => r \in stored

(* No two rows share an entry of an index. *)
NoTwins ==
    \A r, q \in Req, c \in Unique :
        r # q /\ c \in entries[r] \cap entries[q] => row[r][c] # row[q][c]

(* A refusal rests on a stored account. *)
Caused(r) ==
    /\ answer[r] \in {"conflict", "integrity"} =>
           \E c \in {"email", "name"} : Same(r, c) # {}

(* Verification: a token names an account whose bearer has asked for one.   *)
Asked(a) == \E q \in Req : about[q] = a /\ Logged(q, "verification_requested")

Verifying(r) ==
    /\ about[r] # None => about[r] \in stored
    /\ kind[r] \in {"none", "register"} => about[r] = None
    /\ kind[r] = "ask" /\ (pc[r] = "respond" \/ Answered(r, "ok")) =>
           Logged(r, "verification_requested")
    /\ kind[r] = "verify" /\ about[r] # None => Asked(about[r])
    /\ r \in changes => kind[r] = "verify" /\ pc[r] \in {"update", "commit"}
    /\ kind[r] = "verify" /\ pc[r] \in {"update", "commit"} => about[r] # None

(* The audit row a request is about to store. *)
Entering(r) ==
    /\ kind[r] = "register" /\ pc[r] = "commit" => entry[r] = "user_registered"
    /\ kind[r] = "ask" /\ pc[r] = "commit" => entry[r] = "verification_requested"
    /\ kind[r] = "verify" /\ pc[r] \in {"update", "commit"} => entry[r] = "email_verified"

Sound(r) == /\ Phase(r) /\ Indexed(r) /\ Opened(r)
            /\ Caused(r) /\ Verifying(r) /\ Entering(r)

(* Holds in every reachable state: indexes, accounts, answers and tokens    *)
(* agree for each request, whatever the others do.                          *)
IInv == /\ TypeOK
        /\ \A r \in Req : Sound(r)
        /\ NoTwins
        /\ \A e \in audit : kind[e.req] # "none"
        /\ VerifiedHasTrail
=============================================================================
