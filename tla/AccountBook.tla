----------------------------- MODULE AccountBook -----------------------------
(***************************************************************************)
(* What the users table promises: an account is opened once, under an      *)
(* email and a name nobody has; it is never closed; it may be confirmed.   *)
(***************************************************************************)
CONSTANTS Id, Email, Name

VARIABLES accounts, confirmed

Init == accounts = {} /\ confirmed = {}

Open(i, e, n) ==
    /\ \A a \in accounts : a.id # i /\ a.email # e /\ a.name # n
    /\ accounts' = accounts \cup {[id |-> i, email |-> e, name |-> n]}
    /\ UNCHANGED confirmed

Confirm(a) ==
    /\ confirmed' = confirmed \cup {a.id}
    /\ UNCHANGED accounts

Next == \/ \E i \in Id, e \in Email, n \in Name : Open(i, e, n)
        \/ \E a \in accounts : Confirm(a)

Spec == Init /\ [][Next]_<<accounts, confirmed>>
=============================================================================
