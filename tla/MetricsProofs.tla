---------------------------- MODULE MetricsProofs ----------------------------
(* Proofs about Metrics: the registry keeps its shape, counts every        *)
(* request that ended in its process exactly once, and renders counters    *)
(* and histograms that agree.                                              *)
EXTENDS Metrics, FoldFacts, SequenceTheorems

Waiting == [at : {"new", "done"}]
Running == [at : {"middleware", "handler", "rendered"}, proc : Processes, path : Paths]

(* Past the router a request has a route, and so a template.               *)
Routed ==
  /\ req \in [Requests -> Waiting \cup Running]
  /\ \A r \in Requests : req[r].at \in {"handler", "rendered"} => req[r].path \in DOMAIN Template

(* What has ended is not running any more.                                 *)
Over ==
  /\ DOMAIN ended = Processes
  /\ \A p \in Processes :
       /\ IsFiniteSet(ended[p])
       /\ \A e \in ended[p] : e[1] \in Requests => req[e[1]].at = "done"

IInv == TypeOK /\ Routed /\ Over /\ FinishedAreCounted

-----------------------------------------------------------------------------
(* Assignment to a dictionary changes the one value.                       *)
LEMMA WithAt ==
  ASSUME NEW f, NEW k, NEW v
  PROVE  /\ DOMAIN With(f, k, v) = DOMAIN f \cup {k}
         /\ \A x : Value(With(f, k, v), x, 0) = IF x = k THEN v ELSE Value(f, x, 0)
         /\ Range(With(f, k, v)) \subseteq Range(f) \cup {v}
BY DEF With, Value, Range

(* A histogram counts in the buckets there are.                            *)
HistogramOK(h) == h.counts \in [DOMAIN Buckets -> Nat] /\ h.sum \in Nat /\ h.total \in Nat

LEMMA ObservedOK ==
  ASSUME NEW h, HistogramOK(h), NEW d \in Durations
  PROVE  HistogramOK(Observed(h, d))
<1>1. DOMAIN Buckets = 1..Len(Buckets) /\ d \in Nat
  BY MetricsNumberAssumption
<1>2. \A i \in DOMAIN Buckets : (h.counts[i] + IF d <= Buckets[i] THEN 1 ELSE 0) \in Nat
  BY <1>1 DEF HistogramOK
<1> QED
  BY <1>1, <1>2 DEF HistogramOK, Observed

LEMMA NoHistogramOK == HistogramOK(NoHistogram)
BY DEF HistogramOK, NoHistogram

(* The template of a request is one of the routes.                         *)
LEMMA TemplateIsRoute ==
  ASSUME Routed, NEW r \in Requests, req[r].at \notin {"new", "done"}
  PROVE  req[r].proc \in Processes /\ RouteTemplate(r) \in Routes
<1>1. req[r] \in Running
  BY DEF Routed, Waiting
<1>2. req[r].at # "middleware" => req[r].path \in DOMAIN Template
  BY <1>1 DEF Routed, Running
<1> QED
  BY <1>1, <1>2 DEF Running, RouteTemplate, Routes, Range

(* The requests counted under a route and a status.                        *)
Tally(entries, route, status) == { e \in entries : e[2] = route /\ e[3] = status }

(* The finally of dispatch counts its request, under no key but its own.   *)
LEMMA FinishIInv ==
  ASSUME IInv, NEW r \in Requests, req[r].at \notin {"new", "done"},
         NEW status \in Answered, Finish(r, status)
  PROVE  IInv'
<1> DEFINE p == req[r].proc
           t == RouteTemplate(r)
           entry == <<r, t, status>>
           key == <<t, status>>
           more == 1 + Value(counters[p], key, 0)
<1>1. p \in Processes /\ t \in Routes
  BY TemplateIsRoute DEF IInv
<1>2. PICK d \in Durations : Observe(p, t, status, d)
  BY DEF Finish
<1>3. /\ ended' = [ended EXCEPT ![p] = @ \cup {entry}]
      /\ req' = [req EXCEPT ![r] = [at |-> "done"]]
  BY DEF Finish
<1>4. /\ DOMAIN counters' = Processes /\ DOMAIN hist' = Processes
      /\ counters'[p] = With(counters[p], key, more)
      /\ hist'[p] = With(hist[p], t, Observed(Value(hist[p], t, NoHistogram), d))
      /\ \A q \in Processes : q # p => counters'[q] = counters[q] /\ hist'[q] = hist[q]
  BY <1>1, <1>2 DEF Observe, IInv, TypeOK
<1>5. /\ DOMAIN ended' = Processes
      /\ ended'[p] = ended[p] \cup {entry}
      /\ \A q \in Processes : q # p => ended'[q] = ended[q]
  BY <1>1, <1>3 DEF IInv, Over
<1>6. /\ \A q \in Requests : req'[q] = IF q = r THEN [at |-> "done"] ELSE req[q]
      /\ req' \in [Requests -> Waiting \cup Running]
  BY <1>3 DEF IInv, Routed, Waiting
<1> HIDE DEF p, t
<1>7. Value(counters[p], key, 0) \in Nat /\ more \in Nat
  BY <1>1 DEF IInv, TypeOK, Value, Range
<1> HIDE DEF key, more
<1>8. /\ DOMAIN counters'[p] = DOMAIN counters[p] \cup {key}
      /\ \A x : Value(counters'[p], x, 0) = IF x = key THEN more ELSE Value(counters[p], x, 0)
      /\ Range(counters'[p]) \subseteq Range(counters[p]) \cup {more}
  <2> DEFINE f == counters[p]
  <2>1. counters'[p] = With(f, key, more)
    BY <1>4
  <2> HIDE DEF f
  <2>2. /\ DOMAIN With(f, key, more) = DOMAIN f \cup {key}
        /\ \A x : Value(With(f, key, more), x, 0) = IF x = key THEN more ELSE Value(f, x, 0)
        /\ Range(With(f, key, more)) \subseteq Range(f) \cup {more}
    BY WithAt
  <2> QED
    BY <2>1, <2>2, Zenon DEF f
<1>9. Routed'
  <2>1. \A q \in Requests :
          req'[q].at \in {"handler", "rendered"} => req'[q].path \in DOMAIN Template
    BY <1>6 DEF IInv, Routed
  <2> QED
    BY <1>6, <2>1 DEF Routed, Waiting, Running
<1>10. Over'
  <2>1. \A q \in Processes : IsFiniteSet(ended'[q])
    <3>1. \A q \in Processes : IsFiniteSet(ended[q])
      BY DEF IInv, Over
    <3>2. IsFiniteSet(ended[p] \cup {entry})
      BY <1>1, <3>1, FS_AddElement, Zenon
    <3> QED
      BY <1>5, <3>1, <3>2, Zenon
  <2>2. \A q \in Processes : \A e \in ended'[q] : e[1] \in Requests => req'[e[1]].at = "done"
    <3>1. ASSUME NEW q \in Processes, NEW e \in ended'[q], e[1] \in Requests
          PROVE  req'[e[1]].at = "done"
      <4>1. e = entry \/ e \in ended[q]
        BY <1>5, <3>1
      <4> QED
        BY <1>6, <3>1, <4>1 DEF IInv, Over
    <3> QED
      BY <3>1
  <2> QED
    BY <1>5, <2>1, <2>2 DEF Over
<1>11. TypeOK'
  <2>1. \A q \in Processes :
          DOMAIN counters'[q] \subseteq Routes \X Answered /\ Range(counters'[q]) \subseteq Nat
    <3>1. DOMAIN counters'[p] \subseteq Routes \X Answered /\ Range(counters'[p]) \subseteq Nat
      BY <1>1, <1>7, <1>8 DEF IInv, TypeOK, key
    <3> QED
      BY <1>4, <3>1 DEF IInv, TypeOK
  <2>2. \A q \in Processes : \A route \in DOMAIN hist'[q] : HistogramOK(hist'[q][route])
    <3>1. \A q \in Processes : \A route \in DOMAIN hist[q] : HistogramOK(hist[q][route])
      BY DEF IInv, TypeOK, HistogramOK
    <3>2. HistogramOK(Value(hist[p], t, NoHistogram))
      BY <1>1, <3>1, NoHistogramOK DEF Value
    <3>3. HistogramOK(Observed(Value(hist[p], t, NoHistogram), d))
      BY <3>2, ObservedOK
    <3>4. \A route \in DOMAIN hist'[p] : HistogramOK(hist'[p][route])
      BY <1>1, <1>4, <3>1, <3>3 DEF With
    <3> QED
      BY <1>4, <3>1, <3>4
  <2>3. \A q \in Requests :
          req'[q].at \in {"new", "middleware", "handler", "rendered", "done"}
    BY <1>6 DEF IInv, TypeOK
  <2> QED
    BY <1>4, <2>1, <2>2, <2>3 DEF TypeOK, HistogramOK
<1>12. FinishedAreCounted'
  <2>1. entry \notin ended[p]
    BY <1>1 DEF IInv, Over
  <2>2. ASSUME NEW q \in Processes, NEW route \in Routes, NEW st \in Answered
        PROVE  Value(counters'[q], <<route, st>>, 0) = Cardinality(Tally(ended'[q], route, st))
    <3>1. Value(counters[q], <<route, st>>, 0) = Cardinality(Tally(ended[q], route, st))
      BY DEF IInv, FinishedAreCounted, Tally
    <3>2. CASE q # p
      BY <1>4, <1>5, <3>1, <3>2
    <3>3. CASE q = p /\ <<route, st>> # <<t, status>>
      <4>1. Value(counters'[q], <<route, st>>, 0) = Value(counters[q], <<route, st>>, 0)
        BY <1>8, <3>3, Zenon DEF key
      <4>2. Tally(ended'[q], route, st) = Tally(ended[q], route, st)
        BY <1>5, <3>3 DEF Tally
      <4> QED
        BY <3>1, <4>1, <4>2
    <3>4. CASE q = p /\ route = t /\ st = status
      <4>1. Value(counters'[q], <<route, st>>, 0) = 1 + Value(counters[q], <<route, st>>, 0)
        BY <1>8, <3>4, Zenon DEF key, more
      <4>2. Tally(ended'[q], route, st) = Tally(ended[q], route, st) \cup {entry}
        BY <1>5, <3>4 DEF Tally
      <4>3. IsFiniteSet(Tally(ended[q], route, st)) /\ entry \notin Tally(ended[q], route, st)
        BY <2>1, <3>4, FS_Subset DEF IInv, Over, Tally
      <4>4. Cardinality(Tally(ended[q], route, st)) \in Nat
        BY <4>3, FS_CardinalityType
      <4> QED
        <5>1. Cardinality(Tally(ended[q], route, st) \cup {entry})
                = Cardinality(Tally(ended[q], route, st)) + 1
          BY <4>3, FS_AddElement, Zenon
        <5> QED
          BY <3>1, <4>1, <4>2, <4>4, <5>1
    <3> QED
      BY <3>2, <3>3, <3>4
  <2> QED
    BY <2>2 DEF FinishedAreCounted, Tally
<1> QED
  BY <1>9, <1>10, <1>11, <1>12 DEF IInv

(* A step that only moves a request that has not ended.                    *)
LEMMA MoveIInv ==
  ASSUME IInv, NEW r \in Requests, req[r].at # "done",
         UNCHANGED <<counters, hist, ended>>, Routed',
         \A q \in Requests : q # r => req'[q] = req[q]
  PROVE  IInv'
<1>1. TypeOK'
  BY DEF IInv, TypeOK, Routed, Waiting, Running
<1>2. Over'
  BY DEF IInv, Over
<1>3. FinishedAreCounted'
  BY DEF IInv, FinishedAreCounted
<1> QED
  BY <1>1, <1>2, <1>3 DEF IInv

LEMMA RestartIInv == ASSUME IInv, NEW p \in Processes, Restart(p) PROVE IInv'
<1>1. /\ DOMAIN counters' = Processes /\ DOMAIN hist' = Processes /\ DOMAIN ended' = Processes
      /\ counters'[p] = <<>> /\ hist'[p] = <<>> /\ ended'[p] = {}
      /\ \A q \in Processes : q # p =>
           counters'[q] = counters[q] /\ hist'[q] = hist[q] /\ ended'[q] = ended[q]
  BY DEF Restart, IInv, TypeOK, Over
<1>2. /\ DOMAIN req' = Requests
      /\ \A r \in Requests : req'[r] = [at |-> "done"] \/ req'[r] = req[r]
  BY DEF Restart
<1>3. Routed'
  BY <1>2 DEF IInv, Routed, Waiting, Running, Restart
<1>4. Over'
  <2>1. \A q \in Processes : IsFiniteSet(ended'[q])
    BY <1>1, FS_EmptySet, Zenon DEF IInv, Over
  <2>2. \A q \in Processes : \A e \in ended'[q] : e \in ended[q]
    BY <1>1, Zenon
  <2>3. \A q \in Processes : \A e \in ended'[q] : e[1] \in Requests => req'[e[1]].at = "done"
    BY <1>2, <2>2 DEF IInv, Over
  <2> QED
    BY <1>1, <2>1, <2>3, Zenon DEF Over
<1>5. DOMAIN <<>> = {} /\ Range(<<>>) = {}
  BY DEF Range
<1>6. TypeOK'
  BY <1>1, <1>2, <1>5 DEF IInv, TypeOK
<1>7. FinishedAreCounted'
  <2>1. ASSUME NEW route \in Routes, NEW status \in Answered
        PROVE  Value(<<>>, <<route, status>>, 0)
                 = Cardinality({ e \in {} : e[2] = route /\ e[3] = status })
    <3>1. { e \in {} : e[2] = route /\ e[3] = status } = {}
      OBVIOUS
    <3> QED
      BY <1>5, <3>1, FS_EmptySet DEF Value
  <2>2. ASSUME NEW q \in Processes, NEW route \in Routes, NEW status \in Answered
        PROVE  Value(counters'[q], <<route, status>>, 0)
                 = Cardinality({ e \in ended'[q] : e[2] = route /\ e[3] = status })
    <3>1. CASE q = p
      BY <1>1, <2>1, <3>1
    <3>2. CASE q # p
      <4>1. counters'[q] = counters[q] /\ ended'[q] = ended[q]
        BY <1>1, <3>2
      <4> QED
        BY <4>1 DEF IInv, FinishedAreCounted
    <3> QED
      BY <3>1, <3>2
  <2> QED
    BY <2>2 DEF FinishedAreCounted
<1> QED
  BY <1>3, <1>4, <1>6, <1>7 DEF IInv

LEMMA InitIInv == Init => IInv
<1> SUFFICES ASSUME Init PROVE IInv
  OBVIOUS
<1>1. \A p \in Processes : counters[p] = <<>> /\ hist[p] = <<>> /\ ended[p] = {}
  BY DEF Init
<1>2. DOMAIN <<>> = {} /\ Range(<<>>) = {}
  BY DEF Range
<1>3. TypeOK
  BY <1>1, <1>2 DEF Init, TypeOK
<1>4. Routed /\ Over
  BY <1>1, FS_EmptySet DEF Init, Routed, Waiting, Over
<1>5. FinishedAreCounted
  <2>1. ASSUME NEW route \in Routes, NEW status \in Answered
        PROVE  Value(<<>>, <<route, status>>, 0)
                 = Cardinality({ e \in {} : e[2] = route /\ e[3] = status })
    <3>1. { e \in {} : e[2] = route /\ e[3] = status } = {}
      OBVIOUS
    <3> QED
      BY <1>2, <3>1, FS_EmptySet DEF Value
  <2> QED
    BY <1>1, <2>1 DEF FinishedAreCounted
<1> QED
  BY <1>3, <1>4, <1>5 DEF IInv

LEMMA NextIInv == IInv /\ [Next]_vars => IInv'
<1> SUFFICES ASSUME IInv, [Next]_vars PROVE IInv'
  OBVIOUS
<1> USE DEF Answered
<1>1. ASSUME NEW r \in Requests, Begin(r) PROVE IInv'
  <2>1. Routed'
    BY <1>1, PathAssumption DEF Begin, IInv, Routed, Waiting, Running
  <2> QED
    BY <1>1, <2>1, MoveIInv DEF Begin, IInv, Routed
<1>2. ASSUME NEW r \in Requests, Match(r) PROVE IInv'
  <2>1. Routed'
    BY <1>2 DEF Match, IInv, Routed, Waiting, Running
  <2> QED
    BY <1>2, <2>1, MoveIInv DEF Match, IInv, Routed
<1>3. ASSUME NEW r \in Requests, Refuse(r) PROVE IInv'
  BY <1>3, FinishIInv DEF Refuse
<1>4. ASSUME NEW r \in Requests, Respond(r) PROVE IInv'
  BY <1>4, FinishIInv DEF Respond
<1>5. ASSUME NEW r \in Requests, MetricsEndpoint(r) PROVE IInv'
  <2>1. Routed'
    BY <1>5 DEF MetricsEndpoint, IInv, Routed, Waiting, Running
  <2> QED
    BY <1>5, <2>1, MoveIInv DEF MetricsEndpoint, IInv, Routed
<1>6. ASSUME NEW r \in Requests, RespondMetrics(r) PROVE IInv'
  BY <1>6, FinishIInv DEF RespondMetrics
<1>7. ASSUME NEW r \in Requests, Raise(r) PROVE IInv'
  BY <1>7, FinishIInv DEF Raise
<1>8. ASSUME NEW p \in Processes, Restart(p) PROVE IInv'
  BY <1>8, RestartIInv
<1>9. CASE UNCHANGED vars
  BY <1>9 DEF vars, IInv, TypeOK, Routed, Over, FinishedAreCounted
<1> QED
  BY <1>1, <1>2, <1>3, <1>4, <1>5, <1>6, <1>7, <1>8, <1>9 DEF Next

LEMMA Invariance == Spec => []IInv
BY InitIInv, NextIInv, PTL DEF Spec

(* The registry keeps its shape (observability.py:85-118).                 *)
THEOREM TypeCorrect == Spec => []TypeOK
<1>1. IInv => TypeOK
  BY DEF IInv
<1> QED
  BY <1>1, Invariance, PTL

(* For any processes, paths and answers: a request that ended is counted   *)
(* exactly once, under its template and status, whether its handler        *)
(* returned, raised or was never reached (observability.py:176-217).       *)
THEOREM EveryRequestCountedOnce == Spec => []FinishedAreCounted
<1>1. IInv => FinishedAreCounted
  BY DEF IInv
<1> QED
  BY <1>1, Invariance, PTL
-----------------------------------------------------------------------------
(* Counters and histograms are two dictionaries with keys of their own; a  *)
(* scrape reads both between two calls of observe.                         *)

KeysOf(c, route) == { k \in DOMAIN c : k[1] = route }

Agree(c, h) ==
  /\ IsFiniteSet(DOMAIN c) /\ \A k \in DOMAIN c : c[k] \in Nat
  /\ { k[1] : k \in DOMAIN c } = DOMAIN h
  /\ \A route \in DOMAIN h : h[route].total = SumFunctionOnSet(c, KeysOf(c, route))

Agreeing == \A p \in Processes : Agree(counters[p], hist[p])

Scraped == pages \in Seq(Range(pages)) /\ PageIsConsistent

(* observe adds one to the total of its route and to one of the counters   *)
(* the total is the sum of.                                                *)
LEMMA ObserveAgrees ==
  ASSUME NEW c, NEW h, Agree(c, h), NEW t, NEW status, NEW d
  PROVE  LET key == <<t, status>>
         IN Agree(With(c, key, 1 + Value(c, key, 0)),
                  With(h, t, Observed(Value(h, t, NoHistogram), d)))
<1> DEFINE key == <<t, status>>
           more == 1 + Value(c, key, 0)
           e == With(c, key, more)
           g == With(h, t, Observed(Value(h, t, NoHistogram), d))
           rest == KeysOf(c, t) \ {key}
<1>1. /\ IsFiniteSet(DOMAIN c) /\ (\A k \in DOMAIN c : c[k] \in Nat)
      /\ { k[1] : k \in DOMAIN c } = DOMAIN h
      /\ \A route \in DOMAIN h : h[route].total = SumFunctionOnSet(c, KeysOf(c, route))
  BY DEF Agree
<1>2. /\ DOMAIN e = DOMAIN c \cup {key} /\ e[key] = more
      /\ \A k \in DOMAIN c : k # key => e[k] = c[k]
  BY DEF With
<1>3. /\ DOMAIN g = DOMAIN h \cup {t}
      /\ g[t].total = Value(h, t, NoHistogram).total + 1
      /\ \A route \in DOMAIN h : route # t => g[route] = h[route]
  BY DEF With, Observed
<1>4. key[1] = t /\ Value(c, key, 0) \in Nat /\ more \in Nat
  BY <1>1 DEF Value
<1>5. (Value(c, key, 0) = IF key \in DOMAIN c THEN c[key] ELSE 0) /\ more = 1 + Value(c, key, 0)
  BY DEF Value
<1> HIDE DEF key, more, e, g
<1>6. IsFiniteSet(DOMAIN e) /\ \A k \in DOMAIN e : e[k] \in Nat
  <2>1. IsFiniteSet(DOMAIN e)
    BY <1>1, <1>2, FS_AddElement
  <2> QED
    BY <1>1, <1>2, <1>4, <2>1
<1>7. { k[1] : k \in DOMAIN e } = DOMAIN g
  BY <1>1, <1>2, <1>3, <1>4
<1>8. \A r : KeysOf(c, r) \in SUBSET DOMAIN c
  BY DEF KeysOf
<1>9. \A r : IsFiniteSet(KeysOf(c, r))
  BY <1>1, <1>8, FS_Subset
<1>10. ASSUME NEW route \in DOMAIN g, route # t
       PROVE  g[route].total = SumFunctionOnSet(e, KeysOf(e, route))
  <2>1. route \in DOMAIN h /\ g[route] = h[route]
    BY <1>3, <1>10
  <2>2. KeysOf(e, route) = KeysOf(c, route)
    BY <1>2, <1>4, <1>10 DEF KeysOf
  <2>3. \A k \in KeysOf(c, route) : c[k] \in Int /\ e[k] = c[k]
    BY <1>1, <1>2, <1>4, <1>10 DEF KeysOf
  <2>4. SumFunctionOnSet(e, KeysOf(c, route)) = SumFunctionOnSet(c, KeysOf(c, route))
    BY <1>9, <2>3, SumAgrees
  <2> QED
    BY <1>1, <2>1, <2>2, <2>4
<1>11. g[t].total = SumFunctionOnSet(e, KeysOf(e, t))
  <2>1. /\ IsFiniteSet(rest) /\ key \notin rest
        /\ \A k \in rest : c[k] \in Int /\ e[k] = c[k]
    BY <1>1, <1>2, <1>8, <1>9, FS_RemoveElement
  <2>2. KeysOf(e, t) = rest \cup {key}
    BY <1>2, <1>4 DEF KeysOf
  <2> DEFINE others == SumFunctionOnSet(c, rest)
  <2>3. SumFunctionOnSet(e, rest) = others /\ others \in Int
    <3>1. \A k \in rest : c[k] \in Int
      BY <2>1
    <3> HIDE DEF rest
    <3> QED
      BY <2>1, <3>1, SumAgrees, SumType
  <2>4. SumFunctionOnSet(e, KeysOf(e, t)) = more + others
    <3>1. \A k \in rest \cup {key} : e[k] \in Int
      BY <1>2, <1>4, <2>1
    <3> HIDE DEF rest, others
    <3>2. SumFunctionOnSet(e, rest \cup {key}) = e[key] + SumFunctionOnSet(e, rest)
      BY <2>1, <3>1, SumAdd
    <3> QED
      BY <1>2, <2>2, <2>3, <3>2
  <2>5. Value(h, t, NoHistogram).total = SumFunctionOnSet(c, KeysOf(c, t))
    <3>1. CASE t \in DOMAIN h
      BY <1>1, <3>1 DEF Value
    <3>2. CASE t \notin DOMAIN h
      <4>1. KeysOf(c, t) = {}
        BY <1>1, <3>2 DEF KeysOf
      <4>2. SumFunctionOnSet(c, {}) = 0
        BY SumEmpty
      <4> QED
        BY <3>2, <4>1, <4>2 DEF Value, NoHistogram
    <3> QED
      BY <3>1, <3>2
  <2>6. SumFunctionOnSet(c, KeysOf(c, t)) = Value(c, key, 0) + others
    <3>1. CASE key \in DOMAIN c
      <4>1. key \in KeysOf(c, t) /\ \A k \in KeysOf(c, t) : c[k] \in Int
        BY <1>1, <1>4, <1>8, <3>1 DEF KeysOf
      <4>2. SumFunctionOnSet(c, KeysOf(c, t)) = c[key] + SumFunctionOnSet(c, KeysOf(c, t) \ {key})
        BY <1>9, <4>1, SumRemove
      <4> QED
        BY <1>5, <3>1, <4>2
    <3>2. CASE key \notin DOMAIN c
      <4>1. rest = KeysOf(c, t)
        BY <1>8, <3>2
      <4> HIDE DEF rest
      <4>2. others = SumFunctionOnSet(c, KeysOf(c, t))
        BY <4>1
      <4> HIDE DEF others
      <4> QED
        BY <1>5, <2>3, <3>2, <4>2
    <3> QED
      BY <3>1, <3>2
  <2> HIDE DEF others
  <2> QED
    BY <1>3, <1>4, <1>5, <2>3, <2>4, <2>5, <2>6
<1>12. \A route \in DOMAIN g : g[route].total = SumFunctionOnSet(e, KeysOf(e, route))
  BY <1>10, <1>11
<1>13. Agree(e, g)
  BY <1>6, <1>7, <1>12 DEF Agree
<1> QED
  BY <1>13 DEF e, g, more, key

LEMMA FinishAgrees ==
  ASSUME IInv, Agreeing, NEW r \in Requests, req[r].at \notin {"new", "done"},
         NEW status, Finish(r, status)
  PROVE  Agreeing' /\ pages' = pages
<1> DEFINE p == req[r].proc
           t == RouteTemplate(r)
<1>1. p \in Processes
  BY TemplateIsRoute DEF IInv
<1>2. PICK d \in Durations : Observe(p, t, status, d)
  BY DEF Finish
<1> HIDE DEF p, t
<1>3. /\ counters'[p] = With(counters[p], <<t, status>>, 1 + Value(counters[p], <<t, status>>, 0))
      /\ hist'[p] = With(hist[p], t, Observed(Value(hist[p], t, NoHistogram), d))
      /\ \A q \in Processes : q # p => counters'[q] = counters[q] /\ hist'[q] = hist[q]
  BY <1>1, <1>2 DEF Observe, IInv, TypeOK
<1>4. Agree(counters'[p], hist'[p])
  BY <1>1, <1>3, ObserveAgrees DEF Agreeing
<1>5. Agreeing'
  BY <1>3, <1>4 DEF Agreeing
<1> QED
  BY <1>5 DEF Finish

LEMMA NothingAgrees == Agree(<<>>, <<>>)
<1>1. DOMAIN <<>> = {} /\ IsFiniteSet({})
  BY FS_EmptySet
<1> QED
  BY <1>1 DEF Agree

(* A page is a copy of both, as they are at one moment.                    *)
LEMMA RenderScrapes ==
  ASSUME Agreeing, Scraped, NEW p \in Processes, pages' = Append(pages, Render(p))
  PROVE  Scraped'
<1> DEFINE page == Render(p)
<1>1. /\ page.counters = counters[p]
      /\ DOMAIN page.total = DOMAIN hist[p]
      /\ \A route \in DOMAIN hist[p] : page.total[route] = hist[p][route].total
  BY DEF Render
<1>2. Agree(counters[p], hist[p])
  BY DEF Agreeing
<1> HIDE DEF page
<1>3. /\ { k[1] : k \in DOMAIN page.counters } = DOMAIN page.total
      /\ \A route \in DOMAIN page.total :
           page.total[route]
             = SumFunctionOnSet(page.counters, { k \in DOMAIN page.counters : k[1] = route })
  BY <1>1, <1>2 DEF Agree, KeysOf
<1>4. /\ pages' \in Seq(Range(pages) \cup {page}) /\ Len(pages') = Len(pages) + 1
      /\ \A n \in DOMAIN pages' : pages'[n] = page \/ (n \in DOMAIN pages /\ pages'[n] = pages[n])
  <2>1. pages \in Seq(Range(pages) \cup {page}) /\ pages' = Append(pages, page)
    BY DEF Scraped, page
  <2> QED
    BY <2>1
<1>5. pages' \in Seq(Range(pages'))
  BY <1>4, SeqOfRange
<1>6. PageIsConsistent'
  <2>1. ASSUME NEW n \in DOMAIN pages'
        PROVE  /\ { k[1] : k \in DOMAIN pages'[n].counters } = DOMAIN pages'[n].total
               /\ \A route \in DOMAIN pages'[n].total :
                    pages'[n].total[route]
                      = SumFunctionOnSet(pages'[n].counters,
                                         { k \in DOMAIN pages'[n].counters : k[1] = route })
    <3>1. CASE pages'[n] = page
      BY <1>3, <3>1
    <3>2. CASE n \in DOMAIN pages /\ pages'[n] = pages[n]
      BY <3>2 DEF Scraped, PageIsConsistent
    <3> QED
      BY <1>4, <3>1, <3>2
  <2> QED
    BY <2>1 DEF PageIsConsistent
<1> QED
  BY <1>5, <1>6 DEF Scraped

LEMMA NextScrapes == IInv /\ Agreeing /\ Scraped /\ [Next]_vars => Agreeing' /\ Scraped'
<1> SUFFICES ASSUME IInv, Agreeing, Scraped, [Next]_vars PROVE Agreeing' /\ Scraped'
  OBVIOUS
<1>1. ASSUME UNCHANGED <<counters, hist>> PROVE Agreeing'
  BY <1>1 DEF Agreeing
<1>2. ASSUME UNCHANGED pages PROVE Scraped'
  BY <1>2 DEF Scraped, PageIsConsistent
<1>3. ASSUME NEW r \in Requests, Begin(r) \/ Match(r) PROVE Agreeing' /\ Scraped'
  BY <1>1, <1>2, <1>3 DEF Begin, Match
<1>4. ASSUME NEW r \in Requests, Refuse(r) \/ Respond(r) \/ RespondMetrics(r) \/ Raise(r)
      PROVE  Agreeing' /\ Scraped'
  <2>1. PICK status : Finish(r, status)
    BY <1>4 DEF Refuse, Respond, RespondMetrics, Raise
  <2>2. req[r].at \notin {"new", "done"}
    BY <1>4 DEF Refuse, Respond, RespondMetrics, Raise
  <2>3. Agreeing' /\ pages' = pages
    BY <2>1, <2>2, FinishAgrees
  <2> QED
    BY <1>2, <2>3
<1>5. ASSUME NEW r \in Requests, MetricsEndpoint(r) PROVE Agreeing' /\ Scraped'
  <2>1. req[r].proc \in Processes
    BY <1>5, TemplateIsRoute DEF MetricsEndpoint, IInv
  <2> QED
    BY <1>1, <1>5, <2>1, RenderScrapes DEF MetricsEndpoint
<1>6. ASSUME NEW p \in Processes, Restart(p) PROVE Agreeing' /\ Scraped'
  <2>1. /\ counters'[p] = <<>> /\ hist'[p] = <<>>
        /\ \A q \in Processes : q # p => counters'[q] = counters[q] /\ hist'[q] = hist[q]
    BY <1>6 DEF Restart, IInv, TypeOK
  <2>2. Agreeing'
    BY <2>1, NothingAgrees DEF Agreeing
  <2> QED
    BY <1>2, <1>6, <2>2 DEF Restart
<1>7. CASE UNCHANGED vars
  BY <1>1, <1>2, <1>7 DEF vars
<1> QED
  BY <1>3, <1>4, <1>5, <1>6, <1>7 DEF Next

(* A scrape tells one story: each histogram's total is the sum of its      *)
(* route's counters, on every page, though many requests end meanwhile and *)
(* processes start afresh (observability.py:85-157).                       *)
THEOREM ScrapeIsConsistent == Spec => []PageIsConsistent
<1>1. Init => Agreeing /\ Scraped
  <2> SUFFICES ASSUME Init PROVE Agreeing /\ Scraped
    OBVIOUS
  <2>1. Agreeing
    BY NothingAgrees DEF Init, Agreeing
  <2>2. pages = <<>> /\ pages \in Seq(Range(pages)) /\ DOMAIN pages = {}
    BY DEF Init
  <2> QED
    BY <2>1, <2>2 DEF Scraped, PageIsConsistent
<1>2. Scraped => PageIsConsistent
  BY DEF Scraped
<1> QED
  BY <1>1, <1>2, NextScrapes, Invariance, PTL DEF Spec
=============================================================================
