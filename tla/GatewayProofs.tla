---------------------------- MODULE GatewayProofs ----------------------------
(***************************************************************************)
(* Theorems about Gateway, for any finite number of requests and worker    *)
(* processes, any pool size and any mix of requests.                       *)
(***************************************************************************)
EXTENDS GatewayInvariant, FiniteSetTheorems, TLAPS

-----------------------------------------------------------------------------
(* The stack of main.py, layer by layer. *)
LEMMA Layers ==
    /\ Layer = {"headers", "validation", "logging", "limit", "metrics", "host", "cors"}
    /\ Outside["app"] = Layer
    /\ Outside["cors"] = {}
    /\ Outside["host"] = {"cors"}
    /\ Outside["limit"] = {"metrics", "host", "cors"}
    /\ Outside["validation"] = {"logging", "limit", "metrics", "host", "cors"}
<1>1. 1..7 = {1, 2, 3, 4, 5, 6, 7}
  OBVIOUS
<1>2. /\ Added[1] = "headers" /\ Added[2] = "validation" /\ Added[3] = "logging"
      /\ Added[4] = "limit" /\ Added[5] = "metrics" /\ Added[6] = "host" /\ Added[7] = "cors"
  BY DEF Added
<1>3. Layer = {"headers", "validation", "logging", "limit", "metrics", "host", "cors"}
  BY <1>1, <1>2 DEF Layer
<1>4. Outside["app"] = Layer
  BY DEF Outside
<1>5. ASSUME NEW l \in Layer, l # "app"
      PROVE  Outside[l] = {m \in Layer : \E i, j \in 1..7 : i < j /\ Added[i] = l /\ Added[j] = m}
  BY <1>5 DEF Outside
<1>6. Outside["cors"] = {}
  BY <1>1, <1>2, <1>3, <1>5
<1>7. Outside["host"] = {"cors"}
  BY <1>1, <1>2, <1>3, <1>5
<1>8. Outside["limit"] = {"metrics", "host", "cors"}
  BY <1>1, <1>2, <1>3, <1>5
<1>9. Outside["validation"] = {"logging", "limit", "metrics", "host", "cors"}
  BY <1>1, <1>2, <1>3, <1>5
<1> QED BY <1>3, <1>4, <1>6, <1>7, <1>8, <1>9

(* CORS answers before TrustedHost, and TrustedHost before the validation.  *)
LEMMA Stops ==
    ASSUME NEW k \in SUBSET Trait
    PROVE  Stop[k] = IF "preflight" \in k THEN "cors"
                     ELSE IF "bad_host" \in k THEN "host"
                     ELSE IF "invalid" \in k THEN "validation" ELSE "app"
<1> DEFINE Ends(l) == Answers(l, k) /\ \A m \in Outside[l] : ~Answers(m, k)
<1>1. Stop[k] = IF \A l \in Layer : ~Answers(l, k) THEN "app"
                ELSE CHOOSE l \in Layer : Ends(l)
  BY DEF Stop
<1>2. ASSUME NEW l \in Layer, Answers(l, k) PROVE l \in {"cors", "host", "validation"}
  BY <1>2 DEF Answers
<1>3. CASE "preflight" \in k
  <2>1. \A l \in Layer : Ends(l) <=> l = "cors"
    BY <1>2, <1>3, Layers DEF Answers
  <2> QED BY <1>1, <1>3, <2>1, Layers DEF Answers
<1>4. CASE "preflight" \notin k /\ "bad_host" \in k
  <2>1. \A l \in Layer : Ends(l) <=> l = "host"
    BY <1>2, <1>4, Layers DEF Answers
  <2> QED BY <1>1, <1>4, <2>1, Layers DEF Answers
<1>5. CASE "preflight" \notin k /\ "bad_host" \notin k /\ "invalid" \in k
  <2>1. \A l \in Layer : Ends(l) <=> l = "validation"
    BY <1>2, <1>5, Layers DEF Answers
  <2> QED BY <1>1, <1>5, <2>1, Layers DEF Answers
<1>6. CASE k \cap {"preflight", "bad_host", "invalid"} = {}
  BY <1>1, <1>6 DEF Answers
<1> QED BY <1>3, <1>4, <1>5, <1>6

(* What the limiter, the gauge and the counters see of a request. *)
LEMMA Seen ==
    ASSUME NEW k \in SUBSET Trait
    PROVE  /\ Limited(k) <=> k \cap (Exempt \cup {"bad_host"}) = {}
           /\ Measured(Layer, k) <=> "scrape" \notin k
           /\ Measured(Outside[Stop[k]], k) <=> k \cap {"preflight", "bad_host", "scrape"} = {}
           /\ Limited(k) => Measured(Outside["limit"], k) /\ k \cap {"preflight", "bad_host", "scrape"} = {}
           /\ ~Measured({}, k)
           /\ Stop[k] \in {"cors", "host", "validation", "app"}
           /\ Stop[k] = "app" => k \cap {"preflight", "bad_host"} = {}
  BY Stops, Layers DEF Limited, Measured, Exempt

(* A count before and after one element came or went. *)
LEMMA CountChange ==
    ASSUME NEW S, NEW T, NEW x, IsFiniteSet(S), S \ {x} = T \ {x}
    PROVE  /\ IsFiniteSet(T) /\ Cardinality(S) \in Nat /\ Cardinality(T) \in Nat
           /\ x \in S => Cardinality(S) >= 1
           /\ Cardinality(T) = IF x \in T /\ x \notin S THEN Cardinality(S) + 1
                               ELSE IF x \in S /\ x \notin T THEN Cardinality(S) - 1
                               ELSE Cardinality(S)
<1>1. CASE x \in T /\ x \notin S
  <2>1. T = S \cup {x}
    BY <1>1
  <2> QED BY <1>1, <2>1, FS_AddElement, FS_CardinalityType
<1>2. CASE x \in S /\ x \notin T
  <2>1. T = S \ {x}
    BY <1>2
  <2>2. IsFiniteSet(T) /\ Cardinality(T) = Cardinality(S) - 1
    BY <1>2, <2>1, FS_RemoveElement
  <2> QED BY <1>2, <2>2, FS_CardinalityType
<1>3. CASE x \in S <=> x \in T
  <2>1. T = S
    BY <1>3
  <2>2. x \in S => Cardinality(S) # 0
    BY FS_EmptySet
  <2> QED BY <1>3, <2>1, <2>2, FS_CardinalityType
<1> QED BY <1>1, <1>2, <1>3

LEMMA ReqSubset ==
    ASSUME NEW S \in SUBSET Req
    PROVE  IsFiniteSet(S)
  BY Finite, FS_Subset

-----------------------------------------------------------------------------
(* The pipeline by itself. *)
PipeType ==
    /\ stage \in [Req -> Stage]
    /\ kind \in [Req -> SUBSET Trait]
    /\ worker \in [Req -> Worker \cup {Nowhere}]
    /\ up \subseteq Worker
    /\ inside \in [Req -> SUBSET Layer]
    /\ status \in [Req -> Status]
    /\ through \in [Req -> SUBSET Layer]
    /\ gauge \in [Worker -> Nat]
    /\ counted \in [Status -> Nat]
    /\ blocked \in Nat
    /\ charged \subseteq Req

Charged(r) ==
    /\ stage[r] \in {"app", "answer", "raise", "done"} =>
           (r \in charged <=> kind[r] \cap (Exempt \cup {"bad_host"}) = {})
    /\ r \in charged => stage[r] # "idle"

PipeInv ==
    /\ PipeType
    /\ \A r \in Req : Journey(r) /\ Charged(r)
    /\ GaugeExact
    /\ CountersAgree

(* Everything a step of r leaves of the others. *)
Aside(r) ==
    /\ \A q \in Req \ {r} :
           /\ stage'[q] = stage[q] /\ kind'[q] = kind[q] /\ worker'[q] = worker[q]
           /\ inside'[q] = inside[q] /\ status'[q] = status[q] /\ through'[q] = through[q]
           /\ q \in charged' <=> q \in charged

LEMMA AsideSound ==
    ASSUME PipeInv, NEW r \in Req, Aside(r), NEW q \in Req, q # r
    PROVE  Journey(q)' /\ Charged(q)'
<1>1. Journey(q) /\ Charged(q)
  BY DEF PipeInv
<1>2. Journey(q)'
  BY <1>1 DEF Aside, Journey, Answered
<1>3. Charged(q)'
  BY <1>1 DEF Aside, Charged
<1> QED BY <1>2, <1>3

(* The gauge under a step of r. *)
LEMMA GaugeMoves ==
    ASSUME PipeInv, PipeType', NEW r \in Req, Aside(r),
           \A w \in Worker :
               gauge'[w] = IF r \in InFlight(w)' /\ r \notin InFlight(w) THEN gauge[w] + 1
                           ELSE IF r \in InFlight(w) /\ r \notin InFlight(w)' THEN gauge[w] - 1
                           ELSE gauge[w]
    PROVE  GaugeExact'
<1> SUFFICES ASSUME NEW w \in Worker PROVE gauge'[w] = Cardinality(InFlight(w)')
  BY DEF GaugeExact
<1>1. InFlight(w) \ {r} = InFlight(w)' \ {r}
  BY DEF InFlight, Aside
<1>2. IsFiniteSet(InFlight(w))
  BY ReqSubset DEF InFlight
<1>3. gauge[w] = Cardinality(InFlight(w))
  BY DEF PipeInv, GaugeExact
<1> QED BY <1>1, <1>2, <1>3, CountChange

(* The refusals still to be counted. *)
Pending == {r \in Req : status[r] = "too_many" /\ stage[r] \in {"answer", "lost"}}

LEMMA CountersMove ==
    ASSUME PipeInv, PipeType', NEW r \in Req, Aside(r),
           \A s \in Status \ {"error"} :
               /\ ~(r \in DoneWith(s) /\ r \notin DoneWith(s)')
               /\ counted'[s] = IF r \in DoneWith(s)' /\ r \notin DoneWith(s) THEN counted[s] + 1
                                ELSE counted[s],
           \/ r \in Pending' /\ r \notin Pending
              /\ blocked' + counted["too_many"] = blocked + counted'["too_many"] + 1
           \/ r \in Pending /\ r \notin Pending'
              /\ blocked' + counted["too_many"] + 1 = blocked + counted'["too_many"]
           \/ (r \in Pending <=> r \in Pending')
              /\ blocked' + counted["too_many"] = blocked + counted'["too_many"]
    PROVE  CountersAgree'
<1>1. ASSUME NEW s \in Status, s # "error" PROVE counted'[s] = Cardinality(DoneWith(s)')
  <2>1. DoneWith(s) \ {r} = DoneWith(s)' \ {r}
    BY DEF DoneWith, Measurable, Aside
  <2>2. IsFiniteSet(DoneWith(s))
    BY ReqSubset DEF DoneWith, Measurable
  <2>3. counted[s] = Cardinality(DoneWith(s))
    BY <1>1 DEF PipeInv, CountersAgree, DoneWith
  <2> QED BY <1>1, <2>1, <2>2, <2>3, CountChange
<1>2. blocked' = counted'["too_many"] + Cardinality(Pending')
  <2>1. Pending \ {r} = Pending' \ {r}
    BY DEF Pending, Aside
  <2>2. IsFiniteSet(Pending)
    BY ReqSubset DEF Pending
  <2>3. blocked = counted["too_many"] + Cardinality(Pending)
    BY DEF PipeInv, CountersAgree, Pending
  <2>4. blocked' \in Nat /\ blocked \in Nat /\ counted'["too_many"] \in Nat /\ counted["too_many"] \in Nat
    BY DEF PipeInv, PipeType, Status
  <2>5. /\ Cardinality(Pending) \in Nat /\ Cardinality(Pending') \in Nat
        /\ Cardinality(Pending') = IF r \in Pending' /\ r \notin Pending THEN Cardinality(Pending) + 1
                                   ELSE IF r \in Pending /\ r \notin Pending' THEN Cardinality(Pending) - 1
                                   ELSE Cardinality(Pending)
    BY <2>1, <2>2, CountChange
  <2> QED BY <2>3, <2>4, <2>5
<1> QED BY <1>1, <1>2 DEF CountersAgree, Pending

(* Descend does not touch the counters; it says which way the gauge goes.   *)
LEMMA DescendGauge ==
    ASSUME PipeInv, PipeType', NEW r \in Req, NEW w \in Worker, NEW k \in SUBSET Trait,
           NEW l \in Layer \cup {"app"}, Aside(r), Descend(r, w, k, l),
           kind'[r] = k, worker'[r] = w,
           \A v \in Worker : r \in InFlight(v) => Measured(Outside[l], k) /\ v = w,
           Measured(inside[r], k) => r \in InFlight(w)
    PROVE  GaugeExact'
<1>1. \A v \in Worker : r \in InFlight(v)' <=> v = w /\ Measured(Outside[l], k)
  BY DEF InFlight, Descend, PipeInv, PipeType
<1>2. \A v \in Worker : gauge'[v] = IF v = w /\ Measured(Outside[l], k) /\ ~Measured(inside[r], k)
                                    THEN gauge[v] + 1 ELSE gauge[v]
  BY DEF Descend, PipeInv, PipeType
<1>3. r \in InFlight(w) => worker[r] = w /\ Measured(inside[r], kind[r])
  BY DEF InFlight
<1>4. Measured(inside[r], kind[r]) /\ Measured(Outside[l], k) => Measured(inside[r], k)
  BY DEF Measured
<1>5. \A w1 \in Worker :
          gauge'[w1] = IF r \in InFlight(w1)' /\ r \notin InFlight(w1) THEN gauge[w1] + 1
                       ELSE IF r \in InFlight(w1) /\ r \notin InFlight(w1)' THEN gauge[w1] - 1
                       ELSE gauge[w1]
  BY <1>1, <1>2, <1>3, <1>4
<1> QED BY <1>5, GaugeMoves

LEMMA ArrivePipe ==
    ASSUME PipeInv, NEW r \in Req, NEW w \in Worker, NEW k \in Kinds[r], Arrive(r, w, k)
    PROVE  PipeInv'
<1> DEFINE l == IF Limited(k) THEN "limit" ELSE Stop[k]
<1>1. k \in SUBSET Trait
  BY Bounds
<1>2. /\ l \in Layer \cup {"app"} /\ Outside[l] \subseteq Layer /\ "limit" \in Layer
      /\ l \notin {"limit", "app"} => l \in {"cors", "host", "validation"}
  BY <1>1, Seen, Layers
<1>3. stage[r] = "idle" /\ r \notin charged /\ inside[r] = {} /\ status[r] = "none" /\ Journey(r)
  BY DEF PipeInv, Journey, Charged, Arrive
<1>4. /\ stage'[r] = IF l \in {"limit", "app"} THEN l ELSE "answer"
      /\ status'[r] = IF l \in {"limit", "app"} THEN "none" ELSE OwnStatus(l)
      /\ inside'[r] = Outside[l] /\ kind'[r] = k /\ worker'[r] = w
      /\ UNCHANGED <<up, through, counted, blocked, charged>>
  BY DEF Arrive, Descend, PipeInv, PipeType
<1>5. OwnStatus(l) \in {"ok", "bad_request"}
  BY DEF OwnStatus
<1>6. PipeType'
  <2>1. stage' \in [Req -> Stage] /\ status' \in [Req -> Status]
    BY <1>5 DEF Arrive, Descend, PipeInv, PipeType, Stage, Status
  <2>2. inside' \in [Req -> SUBSET Layer] /\ gauge' \in [Worker -> Nat]
    BY <1>2 DEF Arrive, Descend, PipeInv, PipeType
  <2>3. kind' \in [Req -> SUBSET Trait] /\ worker' \in [Req -> Worker \cup {Nowhere}]
    BY <1>1 DEF Arrive, PipeInv, PipeType
  <2> QED BY <1>4, <2>1, <2>2, <2>3 DEF PipeInv, PipeType
<1>7. Aside(r)
  BY DEF Aside, Arrive, Descend, PipeInv, PipeType
<1>8. Journey(r)'
  <2>1. CASE Limited(k)
    BY <1>4, <2>1 DEF Journey
  <2>2. CASE ~Limited(k) /\ Stop[k] = "app"
    BY <1>4, <2>2, Layers DEF Journey
  <2>3. CASE ~Limited(k) /\ Stop[k] # "app"
    BY <1>1, <1>2, <1>4, <2>3, Seen DEF Journey, Answered
  <2> QED BY <2>1, <2>2, <2>3
<1>9. Charged(r)'
  BY <1>1, <1>3, <1>4, Seen DEF Charged
<1>10. GaugeExact'
  <2>1. ~Measured(inside[r], k) /\ \A v \in Worker : r \notin InFlight(v)
    BY <1>3 DEF Measured, InFlight
  <2> QED BY <1>1, <1>2, <1>4, <1>6, <1>7, <2>1, DescendGauge DEF Arrive
<1>11. CountersAgree'
  <2>1. \A s \in Status : r \notin DoneWith(s) /\ r \notin DoneWith(s)'
    BY <1>3, <1>4 DEF DoneWith
  <2>2. r \notin Pending /\ r \notin Pending'
    BY <1>3, <1>4, <1>5 DEF Pending
  <2>3. blocked' = blocked /\ counted' = counted
    BY <1>4
  <2> QED BY <1>6, <1>7, <2>1, <2>2, <2>3, CountersMove
<1> QED BY <1>6, <1>7, <1>8, <1>9, <1>10, <1>11, AsideSound DEF PipeInv

LEMMA PassPipe ==
    ASSUME PipeInv, NEW r \in Req, Pass(r)
    PROVE  PipeInv'
<1> DEFINE k == kind[r]
           l == Stop[k]
<1>1. k \in SUBSET Trait
  BY DEF PipeInv, PipeType
<1>2. /\ l \in {"cors", "host", "validation", "app"} /\ l \in Layer \cup {"app"}
      /\ Outside[l] \subseteq Layer
  BY <1>1, Seen, Layers
<1>3. /\ stage[r] = "limit" /\ status[r] = "none" /\ inside[r] = Outside["limit"]
      /\ Limited(k) /\ worker[r] \in Worker
  BY DEF PipeInv, Journey, Pass
<1>4. /\ stage'[r] = IF l = "app" THEN l ELSE "answer"
      /\ status'[r] = IF l = "app" THEN "none" ELSE OwnStatus(l)
      /\ inside'[r] = Outside[l] /\ kind'[r] = k /\ worker'[r] = worker[r]
      /\ charged' = charged \cup {r}
      /\ UNCHANGED <<kind, worker, up, through, counted, blocked>>
  BY <1>2 DEF Pass, Descend, PipeInv, PipeType
<1>5. OwnStatus(l) \in {"ok", "bad_request"}
  BY DEF OwnStatus
<1>6. PipeType'
  <2>1. stage' \in [Req -> Stage] /\ status' \in [Req -> Status]
    BY <1>2, <1>5 DEF Pass, Descend, PipeInv, PipeType, Stage, Status
  <2>2. inside' \in [Req -> SUBSET Layer] /\ gauge' \in [Worker -> Nat]
    BY <1>2, <1>3 DEF Pass, Descend, PipeInv, PipeType
  <2> QED BY <1>4, <2>1, <2>2 DEF PipeInv, PipeType
<1>7. Aside(r)
  BY DEF Aside, Pass, Descend, PipeInv, PipeType
<1>8. Journey(r)'
  <2>1. CASE l = "app"
    BY <1>3, <1>4, <2>1, Layers DEF Journey
  <2>2. CASE l # "app"
    BY <1>3, <1>4, <2>2 DEF Journey, Answered
  <2> QED BY <2>1, <2>2
<1>9. Charged(r)'
  <2>1. k \cap (Exempt \cup {"bad_host"}) = {}
    BY <1>1, <1>3, Seen
  <2> QED BY <1>2, <1>4, <2>1 DEF Charged
<1>10. GaugeExact'
  <2>1. Measured(inside[r], k) /\ Measured(Outside[l], k)
    BY <1>1, <1>3, Seen
  <2>2. r \in InFlight(worker[r]) /\ \A v \in Worker : r \in InFlight(v) => v = worker[r]
    BY <2>1 DEF InFlight
  <2> QED BY <1>1, <1>2, <1>3, <1>4, <1>6, <1>7, <2>1, <2>2, DescendGauge DEF Pass
<1>11. CountersAgree'
  <2>1. \A s \in Status : r \notin DoneWith(s) /\ r \notin DoneWith(s)'
    BY <1>2, <1>3, <1>4 DEF DoneWith
  <2>2. r \notin Pending /\ r \notin Pending'
    BY <1>3, <1>4, <1>5 DEF Pending
  <2>3. blocked' = blocked /\ counted' = counted
    BY <1>4
  <2> QED BY <1>6, <1>7, <2>1, <2>2, <2>3, CountersMove
<1> QED BY <1>6, <1>7, <1>8, <1>9, <1>10, <1>11, AsideSound DEF PipeInv

(* The limiter, the application and an exception decide in place: the       *)
(* layers around the request, and with them the gauge, stay.                *)
LEMMA DecidePipe ==
    ASSUME PipeInv, NEW r \in Req,
           \/ Block(r)
           \/ \E s \in {"ok", "unauthorized"} : Answer(r, s)
           \/ Raise(r)
    PROVE  PipeInv'
<1>1. /\ UNCHANGED <<kind, worker, up, inside, through, gauge, counted>>
      /\ \/ Block(r) /\ stage[r] = "limit" /\ stage'[r] = "answer" /\ status'[r] = "too_many"
            /\ charged' = charged \cup {r} /\ blocked' = blocked + 1
         \/ ~Block(r) /\ stage[r] = "app" /\ stage'[r] = "answer" /\ status'[r] \in {"ok", "unauthorized"}
            /\ UNCHANGED <<charged, blocked>>
         \/ ~Block(r) /\ stage[r] = "app" /\ stage'[r] = "raise" /\ status'[r] = "error"
            /\ UNCHANGED <<charged, blocked>>
  BY DEF Block, Answer, Raise, PipeInv, PipeType
<1>2. kind[r] \in SUBSET Trait /\ Journey(r) /\ Charged(r)
  BY DEF PipeInv, PipeType
<1>3. PipeType'
  <2>1. stage' \in [Req -> Stage]
    BY DEF Block, Answer, Raise, PipeInv, PipeType, Stage
  <2>2. status' \in [Req -> Status]
    BY DEF Block, Answer, Raise, PipeInv, PipeType, Status
  <2>3. blocked' \in Nat /\ charged' \subseteq Req
    BY <1>1 DEF PipeInv, PipeType
  <2> QED BY <1>1, <2>1, <2>2, <2>3 DEF PipeInv, PipeType
<1>4. Aside(r)
  BY DEF Aside, Block, Answer, Raise, PipeInv, PipeType
<1>5. Journey(r)'
  <2>1. CASE Block(r)
    BY <1>1, <1>2, <2>1 DEF Journey, Answered
  <2>2. CASE ~Block(r)
    BY <1>1, <1>2, <2>2 DEF Journey, Answered
  <2> QED BY <2>1, <2>2
<1>6. Charged(r)'
  <2>1. Block(r) => kind[r] \cap (Exempt \cup {"bad_host"}) = {}
    BY <1>1, <1>2, Seen DEF Journey
  <2> QED BY <1>1, <1>2, <2>1 DEF Charged
<1>7. GaugeExact'
  BY <1>1 DEF PipeInv, GaugeExact, InFlight
<1>8. CountersAgree'
  <2>1. \A s \in Status : r \notin DoneWith(s) /\ r \notin DoneWith(s)'
    BY <1>1 DEF DoneWith
  <2>2. r \notin Pending /\ (r \in Pending' <=> Block(r))
    BY <1>1 DEF Pending
  <2>3. blocked \in Nat /\ counted["too_many"] \in Nat
    BY DEF PipeInv, PipeType, Status
  <2>4. \/ r \in Pending' /\ blocked' + counted["too_many"] = blocked + counted'["too_many"] + 1
        \/ r \notin Pending' /\ blocked' + counted["too_many"] = blocked + counted'["too_many"]
    BY <1>1, <2>2, <2>3
  <2> QED BY <1>1, <1>3, <1>4, <2>1, <2>2, <2>4, CountersMove
<1> QED BY <1>3, <1>4, <1>5, <1>6, <1>7, <1>8, AsideSound DEF PipeInv

(* An answer that is counted is one a status can be read from, once.        *)
LEMMA AnswerMeasured ==
    ASSUME PipeInv, NEW r \in Req, stage[r] = "answer"
    PROVE  /\ Measured(inside[r], kind[r]) <=> r \in Measurable
           /\ status[r] \in Status \ {"error", "none"}
           /\ status[r] = "too_many" => r \in Measurable
<1>1. kind[r] \in SUBSET Trait /\ Answered(r, inside[r])
  BY DEF PipeInv, PipeType, Journey
<1>2. kind[r] \cap {"preflight", "bad_host", "scrape"} = {} <=> r \in Measurable
  BY DEF Measurable
<1>3. CASE status[r] = "too_many" /\ Limited(kind[r]) /\ inside[r] = Outside["limit"]
  BY <1>1, <1>2, <1>3, Seen DEF Status
<1>4. CASE /\ Stop[kind[r]] # "app" /\ status[r] = OwnStatus(Stop[kind[r]])
           /\ inside[r] = Outside[Stop[kind[r]]]
  BY <1>1, <1>2, <1>4, Seen DEF Status, OwnStatus
<1>5. CASE Stop[kind[r]] = "app" /\ status[r] \in {"ok", "unauthorized"} /\ inside[r] = Layer
  BY <1>1, <1>2, <1>5, Seen, Layers DEF Status
<1> QED BY <1>1, <1>3, <1>4, <1>5 DEF Answered

LEMMA LeavePipe ==
    ASSUME PipeInv, NEW r \in Req, Leave(r)
    PROVE  PipeInv'
<1>1. /\ stage[r] \in {"answer", "raise"} /\ stage'[r] = "done" /\ inside'[r] = {}
      /\ through'[r] = IF stage[r] = "answer" THEN inside[r] ELSE {}
      /\ UNCHANGED <<kind, worker, up, status, blocked, charged>>
  BY DEF Leave, PipeInv, PipeType
<1>2. /\ kind[r] \in SUBSET Trait /\ Journey(r) /\ Charged(r) /\ worker[r] \in Worker
      /\ inside[r] \subseteq Layer
  BY <1>1 DEF PipeInv, PipeType, Journey
<1>3. Measured(inside[r], kind[r]) <=> r \in InFlight(worker[r])
  BY DEF InFlight
<1>4. \A w \in Worker : r \notin InFlight(w)' /\ (r \in InFlight(w) => w = worker[r])
  BY <1>1 DEF InFlight, Measured
<1>5. \A w \in Worker : gauge'[w] = IF r \in InFlight(w) THEN gauge[w] - 1 ELSE gauge[w]
  BY <1>3, <1>4 DEF Leave, Release, PipeInv, PipeType
<1>6. gauge' \in [Worker -> Nat]
  <2>1. ASSUME NEW w \in Worker, r \in InFlight(w) PROVE gauge[w] >= 1
    <3>1. gauge[w] = Cardinality(InFlight(w)) /\ IsFiniteSet(InFlight(w))
      BY ReqSubset DEF PipeInv, GaugeExact, InFlight
    <3> QED BY <2>1, <3>1, CountChange
  <2>2. \A w \in Worker : gauge'[w] \in Nat
    BY <1>5, <2>1 DEF PipeInv, PipeType
  <2>3. gauge' = [w \in Worker |-> gauge'[w]]
    BY DEF Leave, Release, PipeInv, PipeType
  <2> QED BY <2>2, <2>3
<1>7. PipeType'
  <2>1. stage' \in [Req -> Stage] /\ inside' \in [Req -> SUBSET Layer]
    BY DEF Leave, PipeInv, PipeType, Stage
  <2>2. through' \in [Req -> SUBSET Layer]
    BY <1>2 DEF Leave, PipeInv, PipeType
  <2>3. counted' \in [Status -> Nat]
    BY DEF Leave, PipeInv, PipeType
  <2> QED BY <1>1, <1>6, <2>1, <2>2, <2>3 DEF PipeInv, PipeType
<1>8. Aside(r)
  BY DEF Aside, Leave, PipeInv, PipeType
<1>9. Journey(r)'
  <2>1. CASE stage[r] = "answer"
    <3>1. Answered(r, inside[r]) /\ status[r] # "error"
      BY <1>2, <2>1, AnswerMeasured DEF Journey
    <3>2. Answered(r, through[r])'
      BY <1>1, <2>1, <3>1 DEF Answered
    <3> QED BY <1>1, <1>2, <2>1, <3>1, <3>2 DEF Journey
  <2>2. CASE stage[r] = "raise"
    BY <1>1, <1>2, <2>2 DEF Journey
  <2> QED BY <1>1, <2>1, <2>2
<1>10. Charged(r)'
  BY <1>1, <1>2 DEF Charged
<1>11. GaugeExact'
  BY <1>4, <1>5, <1>7, <1>8, GaugeMoves
<1>12. CountersAgree'
  <2>1. \A s \in Status : r \notin DoneWith(s)
    BY <1>1 DEF DoneWith
  <2>2. r \notin Pending' /\ (r \in Pending <=> stage[r] = "answer" /\ status[r] = "too_many")
    BY <1>1 DEF Pending
  <2>3. \A s \in Status : r \in DoneWith(s)' <=> r \in Measurable /\ status[r] = s
    BY <1>1 DEF DoneWith, Measurable
  <2>4. counted \in [Status -> Nat] /\ blocked \in Nat /\ {"too_many", "error"} \subseteq Status
    BY DEF PipeInv, PipeType, Status
  <2>5. CASE stage[r] = "answer"
    <3>1. /\ Counts(r) <=> r \in Measurable
          /\ status[r] \in Status \ {"error", "none"}
          /\ status[r] = "too_many" => r \in Measurable
      BY <2>5, AnswerMeasured DEF Counts
    <3>2. \A s \in Status : counted'[s] = IF r \in Measurable /\ status[r] = s
                                          THEN counted[s] + 1 ELSE counted[s]
      BY <2>4, <3>1 DEF Leave
    <3>3. \/ r \in Pending /\ blocked' + counted["too_many"] + 1 = blocked + counted'["too_many"]
          \/ r \notin Pending /\ blocked' + counted["too_many"] = blocked + counted'["too_many"]
      BY <1>1, <2>2, <2>4, <2>5, <3>1, <3>2
    <3> QED BY <1>7, <1>8, <2>1, <2>2, <2>3, <3>2, <3>3, CountersMove
  <2>6. CASE stage[r] = "raise"
    <3>1. counted' = counted /\ status[r] = "error"
      BY <1>2, <2>6 DEF Leave, Counts, Journey
    <3> QED BY <1>1, <1>7, <1>8, <2>1, <2>2, <2>3, <2>6, <3>1, CountersMove
  <2> QED BY <1>1, <2>5, <2>6
<1> QED BY <1>7, <1>8, <1>9, <1>10, <1>11, <1>12, AsideSound DEF PipeInv

(* A killed process takes its requests with it and leaves its numbers.      *)
LEMMA DiePipe ==
    ASSUME PipeInv, NEW w \in Worker, Die(w)
    PROVE  PipeInv'
<1>1. /\ UNCHANGED <<kind, worker, inside, status, through, gauge, counted, blocked, charged>>
      /\ up' \subseteq Worker
      /\ stage' = [r \in Req |-> IF r \in Served(w) THEN "lost" ELSE stage[r]]
  BY DEF Die, PipeInv, PipeType
<1>2. \A r \in Req : r \in Served(w) => stage[r] \notin {"idle", "done", "lost"}
  BY DEF Served
<1>3. PipeType'
  BY <1>1 DEF PipeInv, PipeType, Stage
<1>4. ASSUME NEW r \in Req PROVE Journey(r)' /\ Charged(r)'
  <2>1. Journey(r) /\ Charged(r)
    BY DEF PipeInv
  <2>2. CASE r \in Served(w)
    BY <1>1, <1>2, <2>1, <2>2 DEF Journey, Charged
  <2>3. CASE r \notin Served(w)
    BY <1>1, <2>1, <2>3 DEF Journey, Charged, Answered
  <2> QED BY <2>2, <2>3
<1>5. GaugeExact'
  BY <1>1 DEF PipeInv, GaugeExact, InFlight
<1>6. CountersAgree'
  <2>1. \A s \in Status : DoneWith(s)' = DoneWith(s)
    BY <1>1, <1>2 DEF DoneWith, Measurable
  <2>2. Pending' = Pending
    <3>1. ASSUME NEW r \in Req, r \in Served(w), status[r] = "too_many" PROVE stage[r] = "answer"
      BY <1>2, <3>1 DEF PipeInv, PipeType, Stage, Journey
    <3> QED BY <1>1, <1>2, <3>1 DEF Pending
  <2> QED BY <1>1, <2>1, <2>2 DEF PipeInv, CountersAgree, DoneWith, Pending
<1> QED BY <1>3, <1>4, <1>5, <1>6 DEF PipeInv

(* Steps behind the stack leave it alone. *)
LEMMA IdlePipe ==
    ASSUME PipeInv, UNCHANGED pipeVars
    PROVE  PipeInv'
<1> USE DEF pipeVars
<1>1. PipeType'
  BY DEF PipeInv, PipeType
<1>2. \A r \in Req : Journey(r)'
  BY DEF PipeInv, Journey, Answered
<1>3. \A r \in Req : Charged(r)'
  BY DEF PipeInv, Charged
<1>4. GaugeExact'
  BY DEF PipeInv, GaugeExact, InFlight
<1>5. CountersAgree'
  <2>1. Pending' = Pending /\ \A s \in Status : DoneWith(s)' = DoneWith(s)
    BY DEF Pending, DoneWith, Measurable
  <2> QED BY <2>1 DEF PipeInv, CountersAgree, Pending, DoneWith
<1> QED BY <1>1, <1>2, <1>3, <1>4, <1>5 DEF PipeInv

-----------------------------------------------------------------------------
(* The pool by itself. *)
PoolType ==
    /\ conn \in [Req -> Pool!Conn]
    /\ opened \in [Worker -> 0..Size + Overflow]
    /\ idle \in [Worker -> 0..Size]
    /\ stale \in [Worker -> 0..Size]

Books ==
    \A w \in Worker :
        /\ opened[w] = idle[w] + stale[w] + Cardinality(InUse(w))
        /\ opened[w] <= Size + Overflow
        /\ idle[w] + stale[w] <= Size

PoolInv == PoolType /\ Books

(* A step of r that keeps the books of its process w: what is opened and not *)
(* in the queue changes with r's having a connection.                       *)
Balanced(r, w) ==
    /\ worker' = worker
    /\ conn' \in [Req -> Pool!Conn] /\ \A q \in Req \ {r} : conn'[q] = conn[q]
    /\ {opened', idle', stale'} \subseteq [Worker -> Nat]
    /\ \A v \in Worker \ {w} : opened'[v] = opened[v] /\ idle'[v] = idle[v] /\ stale'[v] = stale[v]
    /\ opened'[w] <= Size + Overflow /\ idle'[w] + stale'[w] <= Size
    /\ \/ /\ conn[r] \in Pool!Taking <=> conn'[r] \in Pool!Taking
          /\ opened'[w] + idle[w] + stale[w] = opened[w] + idle'[w] + stale'[w]
       \/ /\ conn[r] \in Pool!Taking /\ conn'[r] \notin Pool!Taking
          /\ opened'[w] + idle[w] + stale[w] + 1 = opened[w] + idle'[w] + stale'[w]
       \/ /\ conn[r] \notin Pool!Taking /\ conn'[r] \in Pool!Taking
          /\ opened'[w] + idle[w] + stale[w] = opened[w] + idle'[w] + stale'[w] + 1

LEMMA BalancedBooks ==
    ASSUME PoolInv, NEW r \in Req, NEW w \in Worker, worker[r] = w, Balanced(r, w)
    PROVE  PoolInv'
<1> USE Sizes DEF PoolInv, PoolType
<1>1. PoolType'
  <2>1. ASSUME NEW v \in Worker
        PROVE  opened'[v] <= Size + Overflow /\ idle'[v] + stale'[v] <= Size
               /\ opened'[v] \in Nat /\ idle'[v] \in Nat /\ stale'[v] \in Nat
    BY DEF Balanced, Books
  <2> QED BY <2>1 DEF Balanced
<1>2. ASSUME NEW v \in Worker, v # w
      PROVE  /\ opened'[v] = opened[v] /\ idle'[v] = idle[v] /\ stale'[v] = stale[v]
             /\ InUse(v)' = InUse(v)
  BY <1>2 DEF Balanced, InUse
<1>3. opened'[w] = idle'[w] + stale'[w] + Cardinality(InUse(w)')
  <2>1. InUse(w) \ {r} = InUse(w)' \ {r} /\ IsFiniteSet(InUse(w))
    BY ReqSubset DEF Balanced, InUse
  <2>2. (r \in InUse(w) <=> conn[r] \in Pool!Taking) /\ (r \in InUse(w)' <=> conn'[r] \in Pool!Taking)
    BY DEF Balanced, InUse
  <2>3. /\ opened[w] = idle[w] + stale[w] + Cardinality(InUse(w))
        /\ {opened[w], idle[w], stale[w], opened'[w], idle'[w], stale'[w]} \subseteq Nat
    BY DEF Books, Balanced
  <2>4. /\ Cardinality(InUse(w)) \in Nat /\ Cardinality(InUse(w)') \in Nat
        /\ Cardinality(InUse(w)') = IF r \in InUse(w)' /\ r \notin InUse(w)
                                    THEN Cardinality(InUse(w)) + 1
                                    ELSE IF r \in InUse(w) /\ r \notin InUse(w)'
                                    THEN Cardinality(InUse(w)) - 1
                                    ELSE Cardinality(InUse(w))
    BY <2>1, CountChange
  <2> QED BY <2>2, <2>3, <2>4 DEF Balanced
<1>4. Books'
  BY <1>2, <1>3 DEF Books, Balanced
<1> QED BY <1>1, <1>4

(* Each operation of the pool keeps the books. *)
LEMMA GetBooks ==
    ASSUME PoolInv, NEW r \in Req, NEW w \in Worker, worker[r] = w, worker' = worker,
           \/ Pool!Ask(r, w)
           \/ conn[r] = "wait" /\ Pool!Take(r, w)
           \/ Pool!LateRoom(r, w)
           \/ Pool!GiveUp(r, w)
           \/ Pool!Connected(r)
    PROVE  PoolInv'
<1> USE Sizes DEF PoolInv, PoolType, Pool!Conn, Pool!Taking, Pool!Get
<1>0. /\ opened[w] \in Nat /\ idle[w] \in Nat /\ stale[w] \in Nat
      /\ opened[w] <= Size + Overflow /\ idle[w] + stale[w] <= Size
  BY DEF Books
<1>1. ASSUME Pool!Take(r, w) PROVE Balanced(r, w)
  <2>1. CASE /\ idle[w] > 0 /\ idle' = [idle EXCEPT ![w] = @ - 1]
             /\ conn' = [conn EXCEPT ![r] = "good"] /\ UNCHANGED stale
    BY <1>0, <1>1, <2>1 DEF Pool!Take, Balanced
  <2>2. CASE /\ stale[w] > 0 /\ stale' = [stale EXCEPT ![w] = @ - 1]
             /\ conn' = [conn EXCEPT ![r] = "reconnect"] /\ UNCHANGED idle
    BY <1>0, <1>1, <2>2 DEF Pool!Take, Balanced
  <2> QED BY <1>1, <2>1, <2>2 DEF Pool!Take
<1>2. ASSUME conn[r] \in {"no", "wait"}, Pool!Reserve(r, w) PROVE Balanced(r, w)
  BY <1>0, <1>2 DEF Pool!Reserve, Pool!Room, Balanced
<1>3. ASSUME Pool!GiveUp(r, w) \/ Pool!Connected(r) \/ (conn[r] = "no" /\ Pool!Queue(r, w))
      PROVE  Balanced(r, w)
  BY <1>0, <1>3 DEF Pool!GiveUp, Pool!Connected, Pool!Queue, Balanced
<1> QED BY <1>1, <1>2, <1>3, BalancedBooks DEF Pool!Ask, Pool!LateRoom

LEMMA ReturnBooks ==
    ASSUME PoolInv, NEW r \in Req, NEW w \in Worker, worker[r] = w, worker' = worker,
           Pool!ConnectFails(r, w) \/ Pool!GiveBack(r, w)
    PROVE  PoolInv'
<1> USE Sizes DEF PoolInv, PoolType, Pool!Conn, Pool!Taking, Pool!Get
<1>0. /\ opened[w] \in Nat /\ idle[w] \in Nat /\ stale[w] \in Nat
      /\ opened[w] <= Size + Overflow /\ idle[w] + stale[w] <= Size
  BY DEF Books
<1>1. conn[r] \in Pool!Taking /\ conn' = [conn EXCEPT ![r] = "no"]
  BY DEF Pool!ConnectFails, Pool!GiveBack
<1>2. opened[w] >= 1
  <2>1. r \in InUse(w) /\ IsFiniteSet(InUse(w))
    BY <1>1, ReqSubset DEF InUse
  <2>2. Cardinality(InUse(w)) >= 1 /\ Cardinality(InUse(w)) \in Nat
    BY <2>1, CountChange
  <2> QED BY <1>0, <2>2 DEF Books
<1>3. CASE opened' = [opened EXCEPT ![w] = @ - 1] /\ UNCHANGED <<idle, stale>>
  BY <1>0, <1>1, <1>2, <1>3, BalancedBooks DEF Balanced
<1>4. CASE /\ idle[w] + stale[w] < Size /\ UNCHANGED <<opened, stale>>
           /\ idle' = [idle EXCEPT ![w] = @ + 1]
  BY <1>0, <1>1, <1>4, BalancedBooks DEF Balanced
<1>5. CASE /\ idle[w] + stale[w] < Size /\ UNCHANGED <<opened, idle>>
           /\ stale' = [stale EXCEPT ![w] = @ + 1]
  BY <1>0, <1>1, <1>5, BalancedBooks DEF Balanced
<1> QED BY <1>3, <1>4, <1>5 DEF Pool!ConnectFails, Pool!GiveBack, Pool!PutBack

LEMMA RestartBooks ==
    ASSUME PoolInv, Pool!Restart, worker' = worker
    PROVE  PoolInv'
<1> USE Sizes DEF PoolInv, PoolType, Pool!Conn, Pool!Restart
<1>1. \A r \in Req : conn'[r] \in Pool!Taking <=> conn[r] \in Pool!Taking
  BY DEF Pool!Taking
<1>2. \A w \in Worker : InUse(w)' = InUse(w)
  BY <1>1 DEF InUse
<1>3. \A w \in Worker : idle[w] + stale[w] <= Size /\ idle[w] \in Nat /\ stale[w] \in Nat
  BY DEF Books
<1>4. PoolType'
  BY <1>3
<1>5. Books'
  BY <1>2, <1>3 DEF Books
<1> QED BY <1>4, <1>5

LEMMA VanishBooks ==
    ASSUME PoolInv, NEW w \in Worker, Pool!Vanish(w, Served(w)), worker' = worker,
           \A r \in Req : conn[r] # "no" => stage[r] = "app"
    PROVE  PoolInv'
<1> USE Sizes DEF PoolInv, PoolType, Pool!Conn, Pool!Vanish
<1>1. \A r \in Req : worker[r] = w /\ conn[r] # "no" => r \in Served(w)
  BY DEF Served
<1>2. InUse(w)' = {}
  BY <1>1 DEF InUse, Pool!Taking
<1>3. \A v \in Worker : v # w => InUse(v)' = InUse(v)
  BY DEF InUse, Served
<1>4. PoolType'
  OBVIOUS
<1>5. Books'
  <2>1. Cardinality(InUse(w)') = 0
    BY <1>2, FS_EmptySet
  <2>2. opened'[w] = 0 /\ idle'[w] = 0 /\ stale'[w] = 0
    OBVIOUS
  <2>3. \A v \in Worker : v # w => opened'[v] = opened[v] /\ idle'[v] = idle[v] /\ stale'[v] = stale[v]
    OBVIOUS
  <2> QED BY <1>3, <2>1, <2>2, <2>3 DEF Books
<1> QED BY <1>4, <1>5

-----------------------------------------------------------------------------
(* What ties pipeline, pool and row together. *)
Link(r) ==
    /\ conn[r] # "no" => stage[r] = "app" /\ kind[r] = {}
    /\ lock = r => conn[r] = "good"
    /\ r \in queue => conn[r] \in {"good", "dead"} /\ lock # r
    /\ r \in touched => r \in charged /\ stage[r] \notin {"idle", "limit"}
    /\ conn[r] # "no" => r \in touched

Links ==
    /\ lock \in Req \cup {Nobody} /\ queue \subseteq Req /\ touched \subseteq Req
    /\ \A r \in Req : Link(r)

LEMMA Parts == IInv <=> PipeInv /\ PoolInv /\ Links
<1>1. TypeOK <=> /\ PipeType /\ PoolType
                 /\ lock \in Req \cup {Nobody} /\ queue \subseteq Req /\ touched \subseteq Req
  BY DEF TypeOK, PipeType, PoolType
<1>2. PoolExact <=> /\ Books
                    /\ \A r \in Req :
                           /\ conn[r] # "no" => stage[r] = "app" /\ kind[r] = {}
                           /\ lock = r => conn[r] = "good"
                           /\ r \in queue => conn[r] \in {"good", "dead"} /\ lock # r
  BY DEF PoolExact, Books
<1>3. \A r \in Req : Charging(r) <=> /\ Charged(r)
                                     /\ r \in touched => r \in charged /\ stage[r] \notin {"idle", "limit"}
                                     /\ conn[r] # "no" => r \in touched
  BY DEF Charging, Charged
<1> QED BY <1>1, <1>2, <1>3 DEF IInv, PipeInv, PoolInv, Links, Link

(* Steps in the layers outside the application. *)
LEMMA OutsideStep ==
    ASSUME IInv, NEW r \in Req, Outer(r) \/ \E w \in Worker, k \in Kinds[r] : Receive(r, w, k)
    PROVE  PipeInv' /\ PoolInv' /\ Links'
<1> PipeInv /\ PoolInv /\ Links
  BY Parts
<1>1. PipeInv'
  BY ArrivePipe, PassPipe, DecidePipe, LeavePipe DEF Outer, Receive
<1>2. /\ UNCHANGED <<conn, opened, idle, stale, lock, queue, touched>>
      /\ stage[r] # "app" /\ (stage[r] = "idle" \/ UNCHANGED <<kind, worker>>)
      /\ \A q \in Req \ {r} : stage'[q] = stage[q] /\ kind'[q] = kind[q] /\ worker'[q] = worker[q]
      /\ charged \subseteq charged'
  BY DEF Outer, Receive, poolVars, rowVars, Arrive, Pass, Block, Leave, Descend, PipeInv, PipeType
<1>3. conn[r] = "no" /\ (stage[r] = "idle" => r \notin touched)
  BY <1>2 DEF Links, Link
<1>4. stage'[r] = "idle" \/ stage'[r] = "limit" => stage[r] = "idle"
  <2>1. ASSUME Pass(r) PROVE stage'[r] \notin {"idle", "limit"}
    <3>1. Stop[kind[r]] \in {"cors", "host", "validation", "app"}
      BY Seen DEF PipeInv, PipeType
    <3> QED BY <2>1, <3>1 DEF Pass, Descend, PipeInv, PipeType
  <2> QED BY <2>1 DEF Outer, Receive, Arrive, Block, Leave, PipeInv, PipeType
<1>5. PoolInv'
  <2>1. \A w \in Worker : InUse(w)' = InUse(w)
    BY <1>2, <1>3 DEF InUse, Pool!Taking
  <2> QED BY <1>2, <2>1 DEF PoolInv, PoolType, Books
<1>6. Links'
  BY <1>2, <1>3, <1>4 DEF Links, Link
<1> QED BY <1>1, <1>5, <1>6

(* Steps of a handler that has not come to its end. *)
LEMMA HandlerStep ==
    ASSUME IInv, NEW r \in Req, Ask(r) \/ Obtain(r) \/ UpdateRow(r) \/ GrantRow(r)
    PROVE  PipeInv' /\ PoolInv' /\ Links'
<1> PipeInv /\ PoolInv /\ Links
  BY Parts
<1>1. UNCHANGED pipeVars
  BY DEF Ask, Obtain, UpdateRow, GrantRow
<1>2. PipeInv'
  BY <1>1, IdlePipe
<1>3. stage[r] = "app" /\ kind[r] = {} /\ worker[r] \in Worker /\ worker' = worker
  BY <1>1 DEF Ask, Obtain, UpdateRow, GrantRow, Pool!Take, Pool!LateRoom, Pool!Connected,
     Links, Link, PipeInv, Journey, pipeVars
<1>4. CASE Ask(r) \/ Obtain(r)
  <2>1. PoolInv'
    BY <1>3, <1>4, GetBooks DEF Ask, Obtain
  <2>2. /\ \E c \in Pool!Conn \ {"no"} : conn' = [conn EXCEPT ![r] = c]
        /\ conn[r] \notin {"good", "dead"}
        /\ UNCHANGED <<lock, queue>>
        /\ touched' = touched \cup {r}
    BY <1>4 DEF Ask, Obtain, rowVars, Pool!Ask, Pool!Take, Pool!Reserve, Pool!Queue, Pool!LateRoom,
       Pool!Connected, Pool!Get, Pool!Conn, Links, Link
  <2>3. r \in charged
    BY <1>3 DEF PipeInv, Charged
  <2>4. Links'
    BY <1>1, <1>3, <2>2, <2>3 DEF Links, Link, pipeVars, PoolInv, PoolType
  <2> QED BY <1>2, <2>1, <2>4
<1>5. CASE UpdateRow(r) \/ GrantRow(r)
  <2>1. UNCHANGED <<poolVars, touched>>
    BY <1>5 DEF UpdateRow, GrantRow
  <2>2. PoolInv'
    BY <1>1, <2>1 DEF poolVars, pipeVars, PoolInv, PoolType, Books, InUse
  <2>3. Links'
    BY <1>1, <1>5, <2>1, Names DEF UpdateRow, GrantRow, Links, Link, poolVars, pipeVars
  <2> QED BY <1>2, <2>2, <2>3
<1> QED BY <1>4, <1>5

(* The end of a handler, with what it held.                                 *)
LEMMA EndStep ==
    ASSUME IInv, NEW r \in Req,
           AnswerDirectly(r) \/ Unobtainable(r) \/ Commit(r) \/ Refuse(r) \/ Fail(r)
    PROVE  PipeInv' /\ PoolInv' /\ Links'
<1> PipeInv /\ PoolInv /\ Links
  BY Parts
<1>1. (\E s \in {"ok", "unauthorized"} : Answer(r, s)) \/ Raise(r)
  BY DEF AnswerDirectly, Unobtainable, Commit, Refuse, Fail
<1>2. PipeInv'
  BY <1>1, DecidePipe
<1>3. /\ stage[r] = "app" /\ stage'[r] \in {"answer", "raise"} /\ UNCHANGED <<kind, worker, charged>>
      /\ \A q \in Req \ {r} : stage'[q] = stage[q]
  BY <1>1 DEF Answer, Raise, PipeInv, PipeType
<1>4. worker[r] \in Worker
  BY <1>3 DEF PipeInv, Journey
<1>5. touched' = touched /\ (r \in touched => r \in charged)
  BY DEF AnswerDirectly, Unobtainable, Commit, Refuse, Fail, Close, Links, Link
<1>6. CASE AnswerDirectly(r)
  <2>1. UNCHANGED <<poolVars, rowVars>> /\ r \notin touched
    BY <1>6 DEF AnswerDirectly
  <2>2. PoolInv'
    BY <1>3, <2>1 DEF poolVars, PoolInv, PoolType, Books, InUse
  <2>3. conn[r] = "no"
    BY <2>1 DEF Links, Link
  <2> QED BY <1>2, <1>3, <1>5, <2>1, <2>2, <2>3 DEF poolVars, rowVars, Links, Link
<1>7. CASE Unobtainable(r)
  <2>1. PoolInv'
    BY <1>3, <1>4, <1>7, GetBooks, ReturnBooks DEF Unobtainable
  <2>2. conn' = [conn EXCEPT ![r] = "no"] /\ conn[r] \notin {"good", "dead"} /\ UNCHANGED <<lock, queue>>
    BY <1>7 DEF Unobtainable, rowVars, Pool!GiveUp, Pool!ConnectFails, Pool!Get
  <2>3. lock # r /\ r \notin queue
    BY <2>2 DEF Links, Link
  <2>4. Links'
    BY <1>3, <1>5, <2>2, <2>3 DEF Links, Link, PoolInv, PoolType
  <2> QED BY <1>2, <2>1, <2>4
<1>8. CASE Commit(r) \/ Refuse(r) \/ Fail(r)
  <2>1. Pool!GiveBack(r, worker[r]) /\ FreeRow(r)
    BY <1>8 DEF Commit, Refuse, Fail, Close
  <2>2. PoolInv'
    BY <1>3, <1>4, <2>1, ReturnBooks
  <2>3. conn' = [conn EXCEPT ![r] = "no"]
    BY <2>1 DEF Pool!GiveBack, Pool!Get
  <2>4. lock' = (IF lock = r THEN Nobody ELSE lock) /\ queue' = queue \ {r}
    BY <2>1 DEF FreeRow
  <2>5. Links'
    BY <1>3, <1>5, <2>3, <2>4, Names DEF Links, Link, PoolInv, PoolType
  <2> QED BY <1>2, <2>2, <2>5
<1> QED BY <1>6, <1>7, <1>8

(* Crashes. *)
LEMMA KillStep ==
    ASSUME IInv, NEW w \in Mortal, Kill(w)
    PROVE  PipeInv' /\ PoolInv' /\ Links'
<1> PipeInv /\ PoolInv /\ Links /\ w \in Worker
  BY Parts, Bounds
<1>1. PipeInv'
  BY DiePipe DEF Kill
<1>2. /\ UNCHANGED <<kind, worker, charged, touched>>
      /\ stage' = [r \in Req |-> IF r \in Served(w) THEN "lost" ELSE stage[r]]
      /\ conn' = [r \in Req |-> IF r \in Served(w) THEN "no" ELSE conn[r]]
      /\ lock' = (IF lock \in Served(w) THEN Nobody ELSE lock)
      /\ queue' = queue \ Served(w)
  BY DEF Kill, Die, Pool!Vanish
<1>3. PoolInv'
  BY <1>2, VanishBooks DEF Kill, Links, Link
<1>4. Links'
  BY <1>2, Names DEF Links, Link, Served
<1> QED BY <1>1, <1>3, <1>4

LEMMA RestartStep ==
    ASSUME IInv, RestartDatabase
    PROVE  PipeInv' /\ PoolInv' /\ Links'
<1> PipeInv /\ PoolInv /\ Links
  BY Parts
<1>1. UNCHANGED pipeVars
  BY DEF RestartDatabase
<1>2. PipeInv'
  BY <1>1, IdlePipe
<1>3. PoolInv'
  BY <1>1, RestartBooks DEF RestartDatabase, pipeVars
<1>4. \A r \in Req : conn'[r] = (IF conn[r] = "good" THEN "dead" ELSE conn[r])
  BY DEF RestartDatabase, Pool!Restart
<1>5. Links'
  BY <1>1, <1>4, Names DEF RestartDatabase, Links, Link, pipeVars
<1> QED BY <1>2, <1>3, <1>5

LEMMA StutterStep ==
    ASSUME IInv, UNCHANGED vars
    PROVE  PipeInv' /\ PoolInv' /\ Links'
<1> PipeInv /\ PoolInv /\ Links
  BY Parts
<1>1. PipeInv'
  BY IdlePipe DEF vars
<1>2. PoolInv' /\ Links'
  BY DEF vars, pipeVars, poolVars, rowVars, PoolInv, PoolType, Books, InUse, Links, Link
<1> QED BY <1>1, <1>2

LEMMA Initially == Init => IInv
<1> SUFFICES ASSUME Init PROVE PipeInv /\ PoolInv /\ Links
  BY Parts
<1>1. PipeInv
  <2>1. PipeType
    BY DEF Init, PipeType, Stage, Status
  <2>2. \A r \in Req : Journey(r) /\ Charged(r)
    BY DEF Init, Journey, Charged
  <2>3. \A w \in Worker : InFlight(w) = {}
    BY Names DEF Init, InFlight, Measured
  <2>4. GaugeExact
    BY <2>3, FS_EmptySet DEF Init, GaugeExact
  <2>5. Pending = {} /\ \A s \in Status : DoneWith(s) = {}
    BY DEF Init, Pending, DoneWith, Measurable
  <2>6. Cardinality(Pending) = 0 /\ \A s \in Status : Cardinality(DoneWith(s)) = 0
    BY <2>5, FS_EmptySet
  <2>7. blocked = 0 /\ \A s \in Status : counted[s] = 0
    BY DEF Init
  <2>8. CountersAgree
    <3>1. "too_many" \in Status
      BY DEF Status
    <3> QED BY <2>6, <2>7, <3>1 DEF CountersAgree, Pending, DoneWith
  <2> QED BY <2>1, <2>2, <2>4, <2>8 DEF PipeInv
<1>2. PoolInv
  <2>1. \A w \in Worker : InUse(w) = {}
    BY DEF Init, InUse, Pool!Taking
  <2> QED BY <2>1, Sizes, FS_EmptySet DEF Init, PoolInv, PoolType, Books, Pool!Conn
<1>3. Links
  BY Names DEF Init, Links, Link
<1> QED BY <1>1, <1>2, <1>3

(* The inductive invariant holds in every reachable state.                  *)
THEOREM Inductive == Spec => []IInv
<1>1. ASSUME IInv, [Next]_vars PROVE PipeInv' /\ PoolInv' /\ Links'
  <2>1. ASSUME NEW r \in Req, Handler(r) PROVE PipeInv' /\ PoolInv' /\ Links'
    BY <1>1, <2>1, OutsideStep, HandlerStep, EndStep DEF Handler
  <2>2. ASSUME NEW r \in Req, NEW w \in Worker, NEW k \in Kinds[r], Receive(r, w, k)
        PROVE  PipeInv' /\ PoolInv' /\ Links'
    BY <1>1, <2>2, OutsideStep
  <2> QED BY <1>1, <2>1, <2>2, KillStep, RestartStep, StutterStep DEF Next
<1>2. IInv /\ [Next]_vars => IInv'
  BY <1>1, Parts, PTL
<1> QED BY Initially, <1>2, PTL DEF Spec

-----------------------------------------------------------------------------
(* active_connections counts the requests in flight, killed ones included.  *)
THEOREM GaugeRight == Spec => []GaugeExact
<1>1. IInv => GaugeExact
  BY DEF IInv
<1> QED BY <1>1, Inductive, PTL

(* http_requests_total and rate_limit_blocked_total agree.                  *)
THEOREM CountersRight == Spec => []CountersAgree
<1>1. IInv => CountersAgree
  BY DEF IInv
<1> QED BY <1>1, Inductive, PTL

(* The limiter is asked before anything is done for a call.                 *)
THEOREM ChargesFirst == Spec => []CallsAreCharged
<1>1. IInv => CallsAreCharged
  BY DEF IInv, Charging, CallsAreCharged
<1> QED BY <1>1, Inductive, PTL

(* The pool never opens more than it may, and loses none.                   *)
THEOREM PoolRight == Spec => []PoolExact
<1>1. IInv => PoolExact
  BY DEF IInv
<1> QED BY <1>1, Inductive, PTL

(* No circle of waits between pool and row, for any number of requests.     *)
THEOREM NoStarvation == Spec => []WaitersHaveHope
<1>1. ASSUME IInv, NEW r \in Req, conn[r] = "wait",
             Pool!Empty(worker[r]), ~Pool!Room(worker[r])
      PROVE  InUse(worker[r]) # {} /\ (lock = Nobody \/ Runs(lock))
  <2>1. PipeInv /\ PoolInv /\ Links
    BY <1>1, Parts
  <2>2. stage[r] = "app" /\ worker[r] \in Worker
    BY <1>1, <2>1 DEF Links, Link, PipeInv, Journey
  <2>3. Cardinality(InUse(worker[r])) # 0
    <3> DEFINE w == worker[r]
    <3>1. opened[w] \in Nat /\ idle[w] \in Nat /\ stale[w] \in Nat
      BY <2>1, <2>2, Sizes DEF PoolInv, PoolType
    <3>2. opened[w] = idle[w] + stale[w] + Cardinality(InUse(w))
      BY <2>1, <2>2 DEF PoolInv, Books
    <3>3. idle[w] + stale[w] = 0 /\ ~(opened[w] < Size + Overflow)
      BY <1>1 DEF Pool!Empty, Pool!Room
    <3> QED BY <3>1, <3>2, <3>3, Sizes
  <2>4. InUse(worker[r]) # {}
    BY <2>3, FS_EmptySet
  <2>5. lock = Nobody \/ Runs(lock)
    BY <2>1 DEF Links, Link, Runs, Pool!Taking
  <2> QED BY <2>4, <2>5
<1>2. IInv => WaitersHaveHope
  BY <1>1 DEF WaitersHaveHope
<1> QED BY <1>2, Inductive, PTL

(* No handler starts on a connection whose server side is gone.             *)
THEOREM StartsFresh == Spec => FreshConnections
<1> DEFINE Fresh == \A r \in Req : conn[r] \notin {"good", "dead"} => conn'[r] # "dead"
<1>1. ASSUME IInv, [Next]_vars PROVE [Fresh]_vars
  <2> SUFFICES ASSUME NEW r \in Req, Next, conn[r] \notin {"good", "dead"} PROVE conn'[r] # "dead"
    BY <1>1
  <2>1. conn \in [Req -> Pool!Conn]
    BY <1>1 DEF IInv, TypeOK
  <2>2. ASSUME NEW q \in Req, Handler(q) PROVE conn'[r] # "dead"
    <3>1. conn' = conn \/ \E c \in Pool!Conn \ {"dead"} : conn' = [conn EXCEPT ![q] = c]
      BY <2>2 DEF Handler, Outer, AnswerDirectly, Ask, Obtain, Unobtainable, UpdateRow, GrantRow,
         Commit, Refuse, Fail, Close, poolVars, Pool!Ask, Pool!Take, Pool!Reserve, Pool!Queue,
         Pool!LateRoom, Pool!GiveUp, Pool!Connected, Pool!ConnectFails, Pool!GiveBack, Pool!Get,
         Pool!Conn
    <3> QED BY <2>1, <3>1
  <2>3. ASSUME NEW q \in Req, NEW w \in Worker, NEW k \in Kinds[q], Receive(q, w, k)
        PROVE  conn'[r] # "dead"
    BY <2>3 DEF Receive, poolVars
  <2>4. ASSUME NEW w \in Mortal, Kill(w) PROVE conn'[r] # "dead"
    BY <2>4 DEF Kill, Pool!Vanish
  <2>5. ASSUME RestartDatabase PROVE conn'[r] # "dead"
    BY <2>5 DEF RestartDatabase, Pool!Restart
  <2> QED BY <2>2, <2>3, <2>4, <2>5 DEF Next
<1> QED BY <1>1, Inductive, PTL DEF Spec, FreshConnections
-----------------------------------------------------------------------------
(* What a request has ahead of it, by where it stands. *)
LEMMA AheadKept ==
    ASSUME NEW r \in Req, stage'[r] = stage[r], conn'[r] = conn[r],
           lock' = r <=> lock = r, r \in queue' <=> r \in queue
    PROVE  Ahead(r)' = Ahead(r)
  BY DEF Ahead

LEMMA AheadBounds ==
    ASSUME IInv, NEW r \in Req
    PROVE  /\ Ahead(r) \in 0..10
           /\ stage[r] = "app" => Ahead(r) \in 2..8
           /\ stage[r] \notin {"done", "lost"} => Ahead(r) > 0
           /\ stage[r] \notin {"idle", "limit"} => Ahead(r) < 9
           /\ conn[r] = "good" => Ahead(r) > 2
<1>1. stage[r] \in Stage /\ conn[r] \in Pool!Conn /\ Link(r)
  BY Parts DEF IInv, TypeOK, Links
<1>2. CASE stage[r] # "app"
  <2>1. conn[r] = "no"
    BY <1>1, <1>2 DEF Link
  <2> QED BY <1>1, <1>2, <2>1 DEF Ahead, Stage
<1>3. CASE stage[r] = "app" /\ conn[r] = "good"
  BY <1>3 DEF Ahead
<1>4. CASE stage[r] = "app" /\ conn[r] # "good"
  BY <1>1, <1>4 DEF Ahead, Pool!Conn
<1> QED BY <1>2, <1>3, <1>4

(* A step of its own brings a request nearer to its end ... *)
LEMMA OuterNearer ==
    ASSUME IInv, NEW r \in Req, Outer(r) \/ \E w \in Worker, k \in Kinds[r] : Receive(r, w, k)
    PROVE  Ahead(r)' \in 0..10 /\ Ahead(r)' < Ahead(r)
<1>1. Link(r) /\ Journey(r) /\ stage \in [Req -> Stage] /\ kind[r] \in SUBSET Trait
  BY Parts DEF Links, IInv, TypeOK
<1>2. conn[r] = "no" /\ conn' = conn
  BY <1>1 DEF Link, Outer, Receive, Arrive, Pass, Block, Leave, poolVars
<1>3. ASSUME NEW w \in Worker, NEW k \in Kinds[r], Receive(r, w, k) PROVE Ahead(r)' \in 0..10 /\ Ahead(r)' < Ahead(r)
  <2>1. stage[r] = "idle" /\ stage'[r] \in {"limit", "app", "answer"}
    BY <1>1, <1>3 DEF Receive, Arrive, Descend
  <2>2. Ahead(r) = 10 /\ Ahead(r)' \in {9, 8, 1}
    BY <1>2, <2>1 DEF Ahead
  <2> QED BY <2>2
<1>4. ASSUME Pass(r) PROVE Ahead(r)' \in 0..10 /\ Ahead(r)' < Ahead(r)
  <2>1. stage[r] = "limit" /\ Stop[kind[r]] # "limit"
    BY <1>1, <1>4, Seen DEF Pass
  <2>2. stage'[r] \in {"app", "answer"}
    BY <1>1, <1>4, <2>1 DEF Pass, Descend
  <2>3. Ahead(r) = 9 /\ Ahead(r)' \in {8, 1}
    BY <1>2, <2>1, <2>2 DEF Ahead
  <2> QED BY <2>3
<1>5. ASSUME Block(r) PROVE Ahead(r)' \in 0..10 /\ Ahead(r)' < Ahead(r)
  <2>1. stage[r] = "limit" /\ stage'[r] = "answer"
    BY <1>1, <1>5 DEF Block
  <2> QED BY <2>1 DEF Ahead
<1>6. ASSUME Leave(r) PROVE Ahead(r)' \in 0..10 /\ Ahead(r)' < Ahead(r)
  <2>1. stage[r] \in {"answer", "raise"} /\ stage'[r] = "done"
    BY <1>1, <1>6 DEF Leave
  <2> QED BY <2>1 DEF Ahead
<1> QED BY <1>3, <1>4, <1>5, <1>6 DEF Outer

LEMMA HandlerNearer ==
    ASSUME IInv, NEW r \in Req, Handler(r)
    PROVE  Ahead(r)' \in 0..10 /\ Ahead(r)' < Ahead(r)
<1>1. Link(r) /\ lock \in Req \cup {Nobody} /\ r # Nobody
      /\ stage \in [Req -> Stage] /\ conn \in [Req -> Pool!Conn]
  BY Parts, Names DEF Links, IInv, TypeOK
<1>2. ASSUME Ask(r) PROVE Ahead(r)' \in 0..10 /\ Ahead(r)' < Ahead(r)
  <2>1. stage[r] = "app" /\ stage' = stage /\ conn[r] = "no" /\ UNCHANGED <<lock, queue>>
    BY <1>2 DEF Ask, Pool!Ask, pipeVars, rowVars
  <2>2. conn'[r] \in {"wait", "connect", "reconnect", "good"}
    BY <1>1, <1>2 DEF Ask, Pool!Ask, Pool!Take, Pool!Reserve, Pool!Queue, Pool!Get
  <2>3. Ahead(r) = 8 /\ Ahead(r)' \in {7, 6, 5, 4, 3}
    BY <2>1, <2>2 DEF Ahead
  <2> QED BY <2>3
<1>3. ASSUME Obtain(r) PROVE Ahead(r)' \in 0..10 /\ Ahead(r)' < Ahead(r)
  <2>1. conn[r] \in {"wait", "connect", "reconnect"} /\ UNCHANGED <<stage, lock, queue>>
    BY <1>3 DEF Obtain, Pool!LateRoom, Pool!Connected, pipeVars, rowVars
  <2>2. \/ conn[r] = "wait" /\ conn'[r] \in {"good", "connect", "reconnect"}
        \/ conn[r] # "wait" /\ conn'[r] = "good"
    BY <1>1, <1>3 DEF Obtain, Pool!Take, Pool!LateRoom, Pool!Reserve, Pool!Connected, Pool!Get
  <2>3. stage[r] = "app"
    BY <1>1, <2>1 DEF Link
  <2> QED BY <2>1, <2>2, <2>3 DEF Ahead
<1>4. ASSUME UpdateRow(r) \/ GrantRow(r) PROVE Ahead(r)' \in 0..10 /\ Ahead(r)' < Ahead(r)
  <2>1. conn[r] = "good" /\ UNCHANGED <<stage, conn>>
    BY <1>4 DEF UpdateRow, GrantRow, pipeVars, poolVars
  <2>2. stage[r] = "app"
    BY <1>1, <2>1 DEF Link
  <2>3. \/ lock # r /\ lock' = r
        \/ lock # r /\ lock' = lock /\ r \notin queue /\ r \in queue'
    BY <1>1, <1>4 DEF UpdateRow, GrantRow
  <2> QED BY <2>1, <2>2, <2>3 DEF Ahead
<1>5. ASSUME AnswerDirectly(r) \/ Unobtainable(r) \/ Commit(r) \/ Refuse(r) \/ Fail(r)
      PROVE  Ahead(r)' \in 0..10 /\ Ahead(r)' < Ahead(r)
  <2>1. (\E s \in {"ok", "unauthorized"} : Answer(r, s)) \/ Raise(r)
    BY <1>5 DEF AnswerDirectly, Unobtainable, Commit, Refuse, Fail
  <2>2. stage[r] = "app" /\ stage'[r] \in {"answer", "raise"}
    BY <1>1, <2>1 DEF Answer, Raise
  <2>3. Ahead(r) \in 2..8 /\ Ahead(r)' = 1
    BY <2>2, AheadBounds DEF Ahead
  <2> QED BY <2>3
<1> QED BY <1>2, <1>3, <1>4, <1>5, OuterNearer DEF Handler

(* ... and leaves the others where they are. *)
LEMMA OthersStay ==
    ASSUME IInv, NEW r \in Req, NEW q \in Req \ {r},
           Handler(r) \/ \E w \in Worker, k \in Kinds[r] : Receive(r, w, k)
    PROVE  Ahead(q)' = Ahead(q)
<1>1. /\ stage \in [Req -> Stage] /\ conn \in [Req -> Pool!Conn]
      /\ queue \subseteq Req /\ q # Nobody
  BY Names DEF IInv, TypeOK
<1>2. stage'[q] = stage[q]
  BY <1>1 DEF Handler, Outer, Receive, AnswerDirectly, Ask, Obtain, Unobtainable, UpdateRow,
     GrantRow, Commit, Refuse, Fail, Arrive, Pass, Block, Leave, Descend, Answer, Raise, pipeVars
<1>3. conn'[q] = conn[q]
  BY <1>1 DEF Handler, Outer, Receive, AnswerDirectly, Ask, Obtain, Unobtainable, UpdateRow,
     GrantRow, Commit, Refuse, Fail, Close, poolVars, Pool!Ask, Pool!Take, Pool!Reserve,
     Pool!Queue, Pool!LateRoom, Pool!GiveUp, Pool!Connected, Pool!ConnectFails, Pool!GiveBack,
     Pool!Get
<1>4. (lock' = q <=> lock = q) /\ (q \in queue' <=> q \in queue)
  BY <1>1 DEF Handler, Outer, Receive, AnswerDirectly, Ask, Obtain, Unobtainable, UpdateRow,
     GrantRow, Commit, Refuse, Fail, Close, FreeRow, rowVars
<1> QED BY <1>2, <1>3, <1>4, AheadKept

(* Every step of a request's own takes it nearer to its end, which is at    *)
(* most ten steps away, and no step of another, no kill and no restart      *)
(* takes it back: with the fairness of FairSpec the measure behind          *)
(* EveryCallEnds.                                                           *)
THEOREM StepsRunOutRight == Spec => StepsRunOut
<1> DEFINE Nearer == \A r \in Req : /\ Ahead(r)' <= Ahead(r)
                                    /\ Handler(r) => Ahead(r)' < Ahead(r)
<1>1. ASSUME IInv, [Next]_vars, NEW r \in Req
      PROVE  UNCHANGED vars \/ Ahead(r)' <= Ahead(r)
  <2> SUFFICES ASSUME Next PROVE Ahead(r)' <= Ahead(r)
    BY <1>1
  <2>1. Ahead(r) \in 0..10
    BY <1>1, AheadBounds
  <2>2. ASSUME NEW q \in Req,
               Handler(q) \/ \E w \in Worker, k \in Kinds[q] : Receive(q, w, k)
        PROVE  Ahead(r)' <= Ahead(r)
    <3>1. CASE q = r
      <4>1. Ahead(r)' \in 0..10 /\ Ahead(r)' < Ahead(r)
        BY <1>1, <2>2, <3>1, HandlerNearer, OuterNearer
      <4> QED BY <2>1, <4>1
    <3>2. CASE q # r
      BY <1>1, <2>1, <2>2, <3>2, OthersStay
    <3> QED BY <3>1, <3>2
  <2>3. ASSUME NEW w \in Mortal, Kill(w) PROVE Ahead(r)' <= Ahead(r)
    <3>1. /\ stage'[r] = IF r \in Served(w) THEN "lost" ELSE stage[r]
          /\ conn'[r] = IF r \in Served(w) THEN "no" ELSE conn[r]
          /\ lock' = (IF lock \in Served(w) THEN Nobody ELSE lock)
          /\ queue' = queue \ Served(w)
      BY <2>3 DEF Kill, Die, Pool!Vanish
    <3>2. CASE r \in Served(w)
      <4>1. Ahead(r)' = 0
        BY <3>1, <3>2 DEF Ahead
      <4> QED BY <2>1, <4>1
    <3>3. CASE r \notin Served(w)
      <4>1. Ahead(r)' = Ahead(r)
        BY <3>1, <3>3, Names, AheadKept
      <4> QED BY <2>1, <4>1
    <3> QED BY <3>2, <3>3
  <2>4. ASSUME RestartDatabase PROVE Ahead(r)' <= Ahead(r)
    <3>1. stage' = stage /\ queue' = queue /\ lock' = Nobody /\ r # Nobody
          /\ conn'[r] = IF conn[r] = "good" THEN "dead" ELSE conn[r]
      BY <2>4, Names DEF RestartDatabase, Pool!Restart, pipeVars
    <3>2. Link(r)
      BY <1>1, Parts DEF Links
    <3>3. CASE conn[r] = "good"
      <4>1. Ahead(r)' = 2 /\ Ahead(r) > 2
        BY <1>1, <3>1, <3>2, <3>3, AheadBounds DEF Ahead, Link
      <4> QED BY <2>1, <4>1
    <3>4. CASE conn[r] # "good"
      <4>1. lock # r
        BY <3>2, <3>4 DEF Link
      <4>2. Ahead(r)' = Ahead(r)
        BY <3>1, <3>4, <4>1, AheadKept
      <4> QED BY <2>1, <4>2
    <3> QED BY <3>3, <3>4
  <2> QED BY <1>1, <2>2, <2>3, <2>4 DEF Next
<1>2. IInv /\ [Next]_vars => [Nearer]_vars
  BY <1>1, HandlerNearer
<1> QED BY <1>2, Inductive, PTL DEF Spec, StepsRunOut
=============================================================================
