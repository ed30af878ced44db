----------------------------- MODULE TokenLedger -----------------------------
(***************************************************************************)
(* What the refresh_tokens table promises: a token is opened once, for one *)
(* account, and once revoked it stays revoked.  Rotation revokes the       *)
(* parent in the step that opens the successor, for the same account; a    *)
(* logout revokes tokens of one account.  How many successors a parent has *)
(* is not promised: a step may rotate a parent that is revoked already.    *)
(***************************************************************************)
CONSTANTS Token, User, Seed, Held, NoUser

VARIABLES state, owner

Init ==
    /\ state = [t \in Token |-> IF t \in Seed THEN "live" ELSE "absent"]
    /\ owner = [t \in Token |-> IF t \in Seed THEN Held[t] ELSE NoUser]

Enter(t, u) == /\ state[t] = "absent"
               /\ owner' = [owner EXCEPT ![t] = u]

(* A login opens a token. *)
Open(t, u) == Enter(t, u) /\ state' = [state EXCEPT ![t] = "live"]

(* A refresh replaces p, opened earlier, by t. *)
Rotate(p, t) ==
    /\ state[p] # "absent"
    /\ Enter(t, owner[p])
    /\ state' = [state EXCEPT ![t] = "live", ![p] = "revoked"]

(* A logout closes tokens of one account. *)
Close(S, u) ==
    /\ \A t \in S : state[t] # "absent" /\ owner[t] = u
    /\ state' = [t \in Token |-> IF t \in S THEN "revoked" ELSE state[t]]
    /\ UNCHANGED owner

Next ==
    \/ \E S \in SUBSET Token, u \in User : Close(S, u)
    \/ \E t \in Token, u \in User : Open(t, u)
    \/ \E p, t \in Token : Rotate(p, t)

Spec == Init /\ [][Next]_<<state, owner>>
=============================================================================
