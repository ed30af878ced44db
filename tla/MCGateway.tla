----------------------------- MODULE MCGateway -----------------------------
(* Small instances of Gateway for TLC. *)
EXTENDS GatewayInvariant, TLC

CONSTANTS r1, r2, r3

(* Plain calls of the API, and requests that each layer answers by itself.  *)
Sent ==
    (r1 :> {{}}) @@ (r2 :> {{}, {"scrape"}, {"invalid"}})
    @@ (r3 :> {{}, {"preflight"}, {"bad_host"}, {"invalid", "bad_host"}})

(* Calls of the API only. *)
Calls == [r \in Req |-> {{}}]
=============================================================================
