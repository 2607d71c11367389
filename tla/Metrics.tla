------------------------------ MODULE Metrics -------------------------------
(***************************************************************************)
(* The metrics of the web tier: RequestIDMiddleware, outermost of all,     *)
(* counts every request of its uvicorn process when it ends, and the route *)
(* /metrics renders the counts.  observe and render run in the event loop  *)
(* without an await, each under the registry's lock, so each is one step.  *)
(* A path stands for a method and a path.                                  *)
(***************************************************************************)
EXTENDS Integers, Sequences, FiniteSets, Functions

CONSTANTS
  Processes,    \* uvicorn worker processes
  Requests,
  Paths,        \* what clients ask for
  Template,     \* path -> path template, of the paths some route matches
  Limited,      \* paths a middleware further in may answer itself
  MetricsPath,  \* the path of the scrape
  Statuses,     \* what a handler answers
  Durations,    \* in milliseconds
  Buckets,      \* upper bounds of the histogram, ascending
  MaxRestarts   \* bound: restarts of a process

ASSUME PathAssumption ==
  /\ DOMAIN Template \subseteq Paths
  /\ MetricsPath \in DOMAIN Template /\ Limited \subseteq Paths \ {MetricsPath}
ASSUME MetricsNumberAssumption ==
  /\ Statuses \subseteq Nat /\ Durations \subseteq Nat /\ MaxRestarts \in Nat
  /\ Buckets \in Seq(Nat)
  /\ \A i \in 1..Len(Buckets), j \in 1..Len(Buckets) : i < j => Buckets[i] < Buckets[j]

VARIABLES
  counters,  \* _counters of each process: <<route, status>> -> requests
  hist,      \* _hist_counts, _hist_sum and _hist_total: route -> a histogram
  req,       \* the request: where it is, its process and its path
  pages,     \* what scrapes have returned, in order
  restarts,  \* how often a process was started again
  ended      \* history: <<request, route, status>> that ended in each process

vars == <<counters, hist, req, pages, restarts, ended>>

Answered == Statuses \cup {200, 404, 429, 500}
Routes == Paths \cup Range(Template)
NoHistogram == [counts |-> [i \in DOMAIN Buckets |-> 0], sum |-> 0, total |-> 0]

(* Dictionaries: get with a default, and assignment.                       *)
Value(f, k, default) == IF k \in DOMAIN f THEN f[k] ELSE default
With(f, k, v) == [x \in DOMAIN f \cup {k} |-> IF x = k THEN v ELSE f[x]]

(* Mutant of Observed: a list that holds only the buckets that were hit.   *)
ObservedSparse(h, d) ==
  [counts |-> [i \in { i \in DOMAIN Buckets : d <= Buckets[i] } |-> 1],
   sum |-> h.sum + d, total |-> h.total + 1]

(* One duration is counted in every bucket it is below.                    *)
Observed(h, d) ==
  [counts |-> [i \in DOMAIN Buckets |-> h.counts[i] + IF d <= Buckets[i] THEN 1 ELSE 0],
   sum |-> h.sum + d, total |-> h.total + 1]

(* Mutant of Observe: the latency of a failed request is not recorded.     *)
ObserveSuccess(p, route, status, d) ==
  /\ counters' = [counters EXCEPT
       ![p] = With(@, <<route, status>>, 1 + Value(@, <<route, status>>, 0))]
  /\ hist' = [hist EXCEPT
       ![p] = IF status >= 500 THEN @
              ELSE With(@, route, Observed(Value(@, route, NoHistogram), d))]

Observe(p, route, status, d) ==
  /\ counters' = [counters EXCEPT
       ![p] = With(@, <<route, status>>, 1 + Value(@, <<route, status>>, 0))]
  /\ hist' = [hist EXCEPT
       ![p] = With(@, route, Observed(Value(@, route, NoHistogram), d))]

(* render adds up the buckets although each has the lower ones in it, so   *)
(* that a bucket on the page can be above the count.                       *)
Cumulative(counts) == [i \in DOMAIN counts |-> SumFunctionOnSet(counts, 1..i)]

Render(p) ==
  [counters |-> counters[p],
   buckets  |-> [route \in DOMAIN hist[p] |-> Cumulative(hist[p][route].counts)],
   total    |-> [route \in DOMAIN hist[p] |-> hist[p][route].total]]

-----------------------------------------------------------------------------
Init ==
  /\ counters = [p \in Processes |-> <<>>]
  /\ hist = [p \in Processes |-> <<>>]
  /\ req = [r \in Requests |-> [at |-> "new"]]
  /\ pages = <<>>
  /\ restarts = 0
  /\ ended = [p \in Processes |-> {}]

Begin(r) ==
  /\ req[r].at = "new"
  /\ \E p \in Processes, path \in Paths :
       req' = [req EXCEPT ![r] = [at |-> "middleware", proc |-> p, path |-> path]]
  /\ UNCHANGED <<counters, hist, pages, restarts, ended>>

(* The router found a route and put it into the scope.                     *)
Match(r) ==
  /\ req[r].at = "middleware" /\ req[r].path \in DOMAIN Template
  /\ req' = [req EXCEPT ![r].at = "handler"]
  /\ UNCHANGED <<counters, hist, pages, restarts, ended>>

(* The path template, or the path itself when no route has been found.     *)
RouteTemplate(r) ==
  IF req[r].at = "middleware" THEN req[r].path ELSE Template[req[r].path]

(* The finally of dispatch.                                                *)
Finish(r, status) ==
  LET p == req[r].proc
  IN /\ \E d \in Durations : Observe(p, RouteTemplate(r), status, d)
     /\ ended' = [ended EXCEPT ![p] = @ \cup {<<r, RouteTemplate(r), status>>}]
     /\ req' = [req EXCEPT ![r] = [at |-> "done"]]
     /\ UNCHANGED <<pages, restarts>>

(* The rate limiter further in answers, or no route is found.              *)
Refuse(r) ==
  /\ req[r].at = "middleware"
  /\ \/ req[r].path \in Limited /\ Finish(r, 429)
     \/ req[r].path \notin DOMAIN Template /\ Finish(r, 404)

Respond(r) ==
  /\ req[r].at = "handler" /\ req[r].path # MetricsPath
  /\ \E status \in Statuses : Finish(r, status)

(* GET /metrics: its own request is counted only after it has rendered.    *)
MetricsEndpoint(r) ==
  /\ req[r].at = "handler" /\ req[r].path = MetricsPath
  /\ pages' = Append(pages, Render(req[r].proc))
  /\ req' = [req EXCEPT ![r].at = "rendered"]
  /\ UNCHANGED <<counters, hist, restarts, ended>>
RespondMetrics(r) == req[r].at = "rendered" /\ Finish(r, 200)

(* Mutant of Raise: dispatch without the finally.                          *)
RaiseUncounted(r) ==
  /\ req[r].at = "handler"
  /\ ended' = [ended EXCEPT ![req[r].proc] = @ \cup {<<r, RouteTemplate(r), 500>>}]
  /\ req' = [req EXCEPT ![r] = [at |-> "done"]]
  /\ UNCHANGED <<counters, hist, pages, restarts>>

(* The handler raises, or the client goes away: status is still 500.       *)
Raise(r) == req[r].at = "handler" /\ Finish(r, 500)

(* A process dies with its requests, and starts with an empty registry.    *)
Restart(p) ==
  /\ restarts < MaxRestarts
  /\ restarts' = restarts + 1
  /\ counters' = [counters EXCEPT ![p] = <<>>]
  /\ hist' = [hist EXCEPT ![p] = <<>>]
  /\ ended' = [ended EXCEPT ![p] = {}]
  /\ req' = [r \in Requests |->
               IF "proc" \in DOMAIN req[r] /\ req[r].proc = p THEN [at |-> "done"] ELSE req[r]]
  /\ UNCHANGED pages

Next ==
  \/ \E r \in Requests :
       Begin(r) \/ Match(r) \/ Refuse(r) \/ Respond(r) \/ MetricsEndpoint(r)
       \/ RespondMetrics(r) \/ Raise(r)
  \/ \E p \in Processes : Restart(p)

Spec == Init /\ [][Next]_vars

-----------------------------------------------------------------------------
TypeOK ==
  /\ DOMAIN counters = Processes /\ DOMAIN hist = Processes
  /\ \A p \in Processes :
       /\ DOMAIN counters[p] \subseteq Routes \X Answered
       /\ Range(counters[p]) \subseteq Nat
       /\ \A route \in DOMAIN hist[p] :
            /\ hist[p][route].counts \in [DOMAIN Buckets -> Nat]
            /\ hist[p][route].sum \in Nat /\ hist[p][route].total \in Nat
  /\ \A r \in Requests : req[r].at \in {"new", "middleware", "handler", "rendered", "done"}

(* Every request that ended in a process is counted there once, under its  *)
(* template and its status, whatever way dispatch was left, and none that  *)
(* is still running is.                                                    *)
FinishedAreCounted ==
  \A p \in Processes : \A route \in Routes, status \in Answered :
    Value(counters[p], <<route, status>>, 0)
      = Cardinality({ e \in ended[p] : e[2] = route /\ e[3] = status })

(* Counter and histogram of a scrape tell of the same requests.            *)
PageIsConsistent ==
  \A n \in DOMAIN pages :
    LET page == pages[n] IN
    /\ { k[1] : k \in DOMAIN page.counters } = DOMAIN page.total
    /\ \A route \in DOMAIN page.total :
         page.total[route]
           = SumFunctionOnSet(page.counters, { k \in DOMAIN page.counters : k[1] = route })
=============================================================================
