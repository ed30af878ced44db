---------------------------- MODULE MCRateLimiter ----------------------------
(***************************************************************************)
(* Small instances of RateLimiter for TLC.  The requests are alike, so the *)
(* safety runs take them up to permutation.                                *)
(***************************************************************************)
EXTENDS RateLimiterInvariant, TLC

CONSTANTS ip, user

(* Redis may evict the first counter of the IP client once. *)
OneEviction == [k \in Key |-> IF k = <<ip, 0>> THEN 1 ELSE 0]
NoEviction  == [k \in Key |-> 0]

Alike == Permutations(Req)
=============================================================================
