------------------------ MODULE TokenPolicyInvariant ------------------------
(***************************************************************************)
(* The inductive invariant behind the theorems of TokenPolicy.             *)
(***************************************************************************)
EXTENDS TokenPolicy

(* A token has a holder from its issue on, and is revoked only after it.    *)
Issued(s) ==
    /\ born[s] # Never => born[s] <= clock /\ holder[s] \in User
    /\ born[s] = Never => holder[s] = Nobody /\ s \notin revoked

(* A blacklist key belongs to an account that has called for a logout. *)
Key(p) ==
    listed[p] # Never => holder[p] \in left /\ listed[p] \in clock + 1..clock + ListTtl

(* The limiter's reading: it names the bearer or nobody, and what it could  *)
(* not read when it was spelled right nobody can read later.                *)
Counted(r) ==
    /\ r \in literal => door[r] \in {"bearer", "admin"}
    /\ charged[r] # Nobody => charged[r] = Holder(token[r])
    /\ pc[r] = "authenticate" /\ r \in literal /\ charged[r] = Nobody =>
           ~Opens(token[r], "access")
    /\ pc[r] \in {"select_user", "accepted", "forbidden"} /\ r \in literal =>
           charged[r] # Nobody

(* Where a request for each door can stand, and with which token. *)
Placed(r) ==
    /\ pc[r] = "idle" => r \notin literal /\ charged[r] = Nobody
    /\ pc[r] # "idle" => token[r] \in Token /\ born[token[r][2]] # Never
    /\ pc[r] = "authenticate" => door[r] \in {"bearer", "admin"}
    /\ pc[r] = "select_user" => door[r] # "refresh"
    /\ pc[r] \in {"select_user", "accepted", "forbidden"} =>
           Type(token[r]) = DoorType(door[r])
    /\ pc[r] \in {"lookup", "select_all", "rotate", "reuse"} =>
           door[r] = "refresh" /\ Type(token[r]) = "refresh"
    /\ pc[r] \in {"select_all", "reuse"} => Holder(token[r]) \in left

Sound(r) == Placed(r) /\ Counted(r)

(* Holds in every reachable state: tokens, keys and requests agree,         *)
(* whatever time has passed between the readings of a token.                *)
IInv == /\ TypeOK
        /\ \A s \in Slot : Issued(s)
        /\ \A p \in Pair : Key(p)
        /\ \A r \in Req : Sound(r)
=============================================================================
