--------------------------- MODULE MCTokenPolicy ---------------------------
(* Small instances of TokenPolicy for TLC. *)
EXTENDS TokenPolicyInvariant, TLC

(* UTC, and as far east of it as ZonesNarrow admits. *)
Offsets == {0, 1}

(* Pairs are interchangeable. *)
Symmetric == Permutations(Pair)
=============================================================================
