---------------------------- MODULE WindowCounter ----------------------------
(***************************************************************************)
(* What the rate limiter promises, without Redis, its keys or their        *)
(* deadlines: every window has a counter that hands out tickets one after  *)
(* the other until the window closes, and a ticket alone decides whether a *)
(* request passes.  A ticket may be wasted, a request may pass without     *)
(* one, and a counter may be lost; until it closes, a counter starts again *)
(* for no other reason.                                                    *)
(***************************************************************************)
EXTENDS Naturals

CONSTANTS Req, Window, Quota, Nowhere

VARIABLES
    tally,         \* the last ticket of each window
    closed,        \* windows that hand out no more tickets
    lost,          \* how often the counter of a window has been lost
    place,         \* the window whose ticket a request drew
    ticket,        \* that ticket, or 0
    outcome        \* what became of the request

counters == <<tally, closed, lost>>
requests == <<place, ticket, outcome>>

Init ==
    /\ tally = [w \in Window |-> 0] /\ lost = [w \in Window |-> 0]
    /\ closed = {}
    /\ place = [r \in Req |-> Nowhere] /\ ticket = [r \in Req |-> 0]
    /\ outcome = [r \in Req |-> "none"]

Decision(w, n) == IF n <= Quota[w] THEN "allowed" ELSE "refused"
Becomes(r, o)  == outcome' = [outcome EXCEPT ![r] = o]
Count(w)       == w \notin closed /\ tally' = [tally EXCEPT ![w] = @ + 1]

(* A request draws the next ticket, and may be told the decision later. *)
Draw(r, w) ==
    /\ ticket[r] = 0 /\ outcome[r] = "none"
    /\ Count(w)
    /\ ticket' = [ticket EXCEPT ![r] = tally[w] + 1]
    /\ place' = [place EXCEPT ![r] = w]
    /\ UNCHANGED outcome \/ Becomes(r, Decision(w, tally[w] + 1))
    /\ UNCHANGED <<closed, lost>>

Settle(r) ==
    /\ ticket[r] > 0 /\ outcome[r] = "none"
    /\ Becomes(r, Decision(place[r], ticket[r]))
    /\ UNCHANGED <<counters, place, ticket>>

(* A ticket nobody gets. *)
Waste(w) == Count(w) /\ UNCHANGED <<closed, lost, requests>>

(* A request passes without a decision, and may waste a ticket. *)
Pass(r) ==
    /\ outcome[r] = "none"
    /\ Becomes(r, "unchecked")
    /\ UNCHANGED tally \/ \E w \in Window : Count(w)
    /\ UNCHANGED <<closed, lost, place, ticket>>

Lose(w) ==
    /\ tally' = [tally EXCEPT ![w] = 0]
    /\ lost' = [lost EXCEPT ![w] = @ + 1]
    /\ UNCHANGED <<closed, requests>>

(* Windows close for good, and the counters of closed windows may go. *)
Close(S, gone) ==
    /\ closed' = closed \cup S
    /\ tally' = [w \in Window |-> IF w \in gone THEN 0 ELSE tally[w]]
    /\ UNCHANGED <<lost, requests>>

Next ==
    \/ \E r \in Req : Settle(r) \/ Pass(r) \/ \E w \in Window : Draw(r, w)
    \/ \E w \in Window : Waste(w) \/ Lose(w)
    \/ \E S \in SUBSET (Window \ closed) :
           \E gone \in SUBSET (closed \cup S) : Close(S, gone)

Spec == Init /\ [][Next]_<<counters, requests>>
=============================================================================
