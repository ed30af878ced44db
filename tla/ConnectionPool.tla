--------------------------- MODULE ConnectionPool ---------------------------
(***************************************************************************)
(* The pool of database connections each worker process has: SQLAlchemy's  *)
(* queue pool as session.py sets it up, with pool_size, max_overflow,      *)
(* pool_pre_ping and the default time-out of 30 seconds.                   *)
(*                                                                         *)
(* Connections are counted, not named: what a request holds is its own.    *)
(* The actions here are steps of the requests in Gateway.                  *)
(***************************************************************************)
EXTENDS Naturals

CONSTANTS
    Req, Worker,
    Size,          \* database_pool_size
    Overflow       \* database_max_overflow

VARIABLES
    conn,          \* what the request has of the pool
    opened,        \* connections the pool of a process has given out or keeps
    idle,          \* connections in its queue
    stale          \* connections in its queue whose server side is gone

(* "wait": in the queue for a connection.  "connect": opening a new one,    *)
(* "reconnect": replacing a stale one.  "good", "dead": a connection.       *)
Conn   == {"no", "wait", "connect", "reconnect", "good", "dead"}
Taking == {"connect", "reconnect", "good", "dead"}

Room(w)  == opened[w] < Size + Overflow
Empty(w) == idle[w] + stale[w] = 0

Get(r, c) == conn' = [conn EXCEPT ![r] = c]

-----------------------------------------------------------------------------
(* A connection from the queue.  It is pinged before it is handed out; one  *)
(* that does not answer is replaced.                                        *)
TakeUnpinged(r, w) ==
    /\ conn[r] \in {"no", "wait"}
    /\ \/ idle[w] > 0 /\ idle' = [idle EXCEPT ![w] = @ - 1]
          /\ Get(r, "good") /\ UNCHANGED stale
       \/ stale[w] > 0 /\ stale' = [stale EXCEPT ![w] = @ - 1]
          /\ Get(r, "dead") /\ UNCHANGED idle
    /\ UNCHANGED opened
Take(r, w) ==
    /\ conn[r] \in {"no", "wait"}
    /\ \/ idle[w] > 0 /\ idle' = [idle EXCEPT ![w] = @ - 1]
          /\ Get(r, "good") /\ UNCHANGED stale
       \/ stale[w] > 0 /\ stale' = [stale EXCEPT ![w] = @ - 1]
          /\ Get(r, "reconnect") /\ UNCHANGED idle
    /\ UNCHANGED opened

(* With an empty queue a new one, while there is room. *)
Reserve(r, w) ==
    /\ Empty(w) /\ Room(w)
    /\ opened' = [opened EXCEPT ![w] = @ + 1]
    /\ Get(r, "connect")
    /\ UNCHANGED <<idle, stale>>

Queue(r, w) ==
    /\ Empty(w) /\ ~Room(w)
    /\ Get(r, "wait")
    /\ UNCHANGED <<opened, idle, stale>>

Ask(r, w) == conn[r] = "no" /\ (Take(r, w) \/ Reserve(r, w) \/ Queue(r, w))

(* Only a connection that comes back wakes a waiter.  After the time-out it *)
(* looks for room once more, and gives up when there is none.               *)
LateRoom(r, w) == conn[r] = "wait" /\ Reserve(r, w)
GiveUp(r, w) ==
    /\ conn[r] = "wait" /\ Empty(w) /\ ~Room(w)
    /\ Get(r, "no")
    /\ UNCHANGED <<opened, idle, stale>>

-----------------------------------------------------------------------------
Connected(r) ==
    /\ conn[r] \in {"connect", "reconnect"}
    /\ Get(r, "good")
    /\ UNCHANGED <<opened, idle, stale>>

(* Back into the queue, or closed when that is full. *)
PutBackAlways(w, good) ==
    /\ idle' = IF good THEN [idle EXCEPT ![w] = @ + 1] ELSE idle
    /\ stale' = IF good THEN stale ELSE [stale EXCEPT ![w] = @ + 1]
    /\ UNCHANGED opened
PutBack(w, good) ==
    IF idle[w] + stale[w] < Size
      THEN /\ idle' = IF good THEN [idle EXCEPT ![w] = @ + 1] ELSE idle
           /\ stale' = IF good THEN stale ELSE [stale EXCEPT ![w] = @ + 1]
           /\ UNCHANGED opened
      ELSE /\ opened' = [opened EXCEPT ![w] = @ - 1]
           /\ UNCHANGED <<idle, stale>>

(* The server refuses or cannot be reached.  A new connection's place is    *)
(* free again, without a word to the waiters; a stale one goes back.        *)
ConnectFails(r, w) ==
    /\ conn[r] \in {"connect", "reconnect"}
    /\ Get(r, "no")
    /\ IF conn[r] = "reconnect" THEN PutBack(w, FALSE)
       ELSE /\ opened' = [opened EXCEPT ![w] = @ - 1]
            /\ UNCHANGED <<idle, stale>>

(* The session is closed. *)
GiveBackNothing(r, w) ==
    /\ conn[r] \in {"good", "dead"}
    /\ Get(r, "no")
    /\ UNCHANGED <<opened, idle, stale>>
GiveBack(r, w) ==
    /\ conn[r] \in {"good", "dead"}
    /\ Get(r, "no")
    /\ PutBack(w, conn[r] = "good")

(* The database server restarts: every connection is gone.  *)
Restart ==
    /\ conn' = [r \in Req |-> IF conn[r] = "good" THEN "dead" ELSE conn[r]]
    /\ stale' = [w \in Worker |-> stale[w] + idle[w]]
    /\ idle' = [w \in Worker |-> 0]
    /\ UNCHANGED opened

(* A process dies, with the requests it serves. *)
Vanish(w, served) ==
    /\ conn' = [r \in Req |-> IF r \in served THEN "no" ELSE conn[r]]
    /\ opened' = [opened EXCEPT ![w] = 0]
    /\ idle' = [idle EXCEPT ![w] = 0]
    /\ stale' = [stale EXCEPT ![w] = 0]
=============================================================================
