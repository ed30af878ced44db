-------------------------- MODULE GatewayInvariant --------------------------
(***************************************************************************)
(* The inductive invariant behind the theorems of Gateway.                 *)
(***************************************************************************)
EXTENDS Gateway

(* An answer that leaves through these layers, and who made it. *)
Answered(r, layers) ==
    LET end == Stop[kind[r]] IN
    \/ status[r] = "too_many" /\ Limited(kind[r]) /\ layers = Outside["limit"]
    \/ end # "app" /\ status[r] = OwnStatus(end) /\ layers = Outside[end]
    \/ end = "app" /\ status[r] \in {"ok", "unauthorized"} /\ layers = Layer

(* Where a request stands tells what it has passed. *)
Journey(r) ==
    /\ stage[r] = "idle" => inside[r] = {} /\ kind[r] = {} /\ status[r] = "none"
    /\ stage[r] # "idle" => worker[r] \in Worker
    /\ stage[r] = "limit" => Limited(kind[r]) /\ inside[r] = Outside["limit"]
    /\ stage[r] \in {"app", "raise"} => Stop[kind[r]] = "app" /\ inside[r] = Layer
    /\ stage[r] \in {"limit", "app"} => status[r] = "none"
    /\ stage[r] = "raise" => status[r] = "error"
    /\ stage[r] = "answer" => Answered(r, inside[r])
    /\ stage[r] = "done" =>
           /\ inside[r] = {}
           /\ IF status[r] = "error" THEN through[r] = {} ELSE Answered(r, through[r])

(* The limiter comes before everything the application does, and the first  *)
(* statement before its connection.                                         *)
Charging(r) ==
    /\ stage[r] \in {"app", "answer", "raise", "done"} =>
           (r \in charged <=> kind[r] \cap (Exempt \cup {"bad_host"}) = {})
    /\ r \in touched => r \in charged /\ stage[r] \notin {"idle", "limit"}
    /\ r \in charged => stage[r] # "idle"
    /\ conn[r] # "no" => r \in touched

(* Holds in every reachable state: requests, layers and counters, and       *)
(* connections and the queue of the pool, agree.                            *)
IInv == /\ TypeOK
        /\ \A r \in Req : Journey(r) /\ Charging(r)
        /\ GaugeExact
        /\ CountersAgree
        /\ PoolExact
=============================================================================
