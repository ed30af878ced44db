--------------------------- MODULE MCAuthSessions ---------------------------
(***************************************************************************)
(* Small instances of AuthSessions for TLC.  Primary keys are random       *)
(* UUIDs: the ranks below put the newest token first in the flush order.   *)
(***************************************************************************)
EXTENDS AuthSessionsInvariant

CONSTANTS u1, u2, s1, s2, s3, r1, r2, r3

(* All seed tokens belong to one account. *)
OneHolder == [t \in Seed |-> u1]

(* The second account holds s3, the first one the other seed tokens. *)
TwoHolders == [t \in Seed |-> IF t = s3 THEN u2 ELSE u1]

Order == <<r3, s2, r1, s1, r2, s3, u1, u2>>
Ranks == [row \in Row |-> CHOOSE i \in 1..8 : Order[i] = row]
=============================================================================
