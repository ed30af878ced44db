--------------------------- MODULE MCRegistration ---------------------------
(***************************************************************************)
(* Small instances of Registration for TLC.  Requests, emails and names    *)
(* are each interchangeable.                                               *)
(***************************************************************************)
EXTENDS RegistrationInvariant, TLC

Alike == Permutations(Req) \cup Permutations(Email) \cup Permutations(Name)
=============================================================================
