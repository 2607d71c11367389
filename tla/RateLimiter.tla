---------------------------- MODULE RateLimiter ----------------------------
(***************************************************************************)
(* The token-bucket rate limiter of the web tier.  Each uvicorn process    *)
(* has its own RateLimiter; a request is routed to any of them, matches at *)
(* most one rule, and takes a token from the bucket of its client address  *)
(* and rule, or is refused with a Retry-After.  dispatch has no await      *)
(* between matching and try_acquire, so a request's check is one step.     *)
(*                                                                         *)
(* Time advances in ticks, TicksPerSec to the second.  Tokens are counted  *)
(* in the amount that refills per tick, so one token is Cost(rule) of      *)
(* them; rounding of floating point numbers is abstracted from.            *)
(***************************************************************************)
EXTENDS Integers, Sequences, FiniteSets

CONSTANTS
  Processes,      \* uvicorn worker processes
  Clients,        \* client addresses
  Rules,          \* prefix -> [capacity, period]; refill_per_sec = 1 / period
  Others,         \* routes that no rule matches
  TicksPerSec,
  MaxTime,        \* bound: ticks
  MaxRequests,    \* bound: requests
  MaxRestarts     \* bound: restarts of a process

ASSUME RuleAssumption ==
  \A r \in DOMAIN Rules : Rules[r].capacity \in Nat \ {0} /\ Rules[r].period \in Nat \ {0}
ASSUME RateNumberAssumption ==
  TicksPerSec \in Nat \ {0} /\ MaxTime \in Nat /\ MaxRequests \in Nat /\ MaxRestarts \in Nat
ASSUME RouteAssumption == Others \cap DOMAIN Rules = {}

VARIABLES
  now,      \* time.monotonic()
  buckets,  \* _buckets of each process
  life,     \* how often each process was started again
  log       \* history: the requests so far that matched a rule

vars == <<now, buckets, life, log>>

Keys == Clients \X DOMAIN Rules
NoBucket == [tokens |-> -1, last |-> -1]

Cost(r) == Rules[r].period * TicksPerSec
Full(r) == Rules[r].capacity * Cost(r)
Least(a, b) == IF a <= b THEN a ELSE b

(* Mutant of Ident: every request seems to come from the same client.      *)
IdentOfProxy(c) == CHOOSE a \in Clients : TRUE

(* No SessionMiddleware is installed, so "session" is never in the scope   *)
(* of a request and a logged-in user is known by the address only.         *)
Ident(c) == c

(* Mutant of Refilled: the capacity does not cap the refill.               *)
RefilledUncapped(bucket, r) ==
  IF bucket = NoBucket THEN Full(r) ELSE bucket.tokens + (now - bucket.last)

Refilled(bucket, r) ==
  IF bucket = NoBucket THEN Full(r)
  ELSE Least(Full(r), bucket.tokens + (now - bucket.last))

(* Mutant of Enough: a part of a token will do.                            *)
EnoughPart(tokens, r) == tokens > 0

Enough(tokens, r) == tokens >= Cost(r)

(* Mutant of RetryAfter: rounded down.                                     *)
RetryAfterFloor(tokens, r) == (Cost(r) - tokens) \div TicksPerSec

(* int(retry_after) + 1 seconds.                                           *)
RetryAfter(tokens, r) == (Cost(r) - tokens) \div TicksPerSec + 1

Entry(p, c, r, ok, retry) ==
  [at |-> now, process |-> p, life |-> life[p], key |-> <<c, r>>,
   allowed |-> ok, retry |-> retry]

(* dispatch of a request that a rule matches.                              *)
Limited(p, c, r) ==
  /\ Len(log) < MaxRequests /\ r \in DOMAIN Rules
  /\ LET key == <<Ident(c), r>>
         tokens == Refilled(buckets[p][key], r)
         Keep(left) == buckets' = [buckets EXCEPT ![p][key] = [tokens |-> left, last |-> now]]
     IN \/ /\ Enough(tokens, r)
           /\ Keep(tokens - Cost(r))
           /\ log' = Append(log, Entry(p, c, r, TRUE, 0))
        \/ /\ ~ Enough(tokens, r)
           /\ Keep(tokens)
           /\ log' = Append(log, Entry(p, c, r, FALSE, RetryAfter(tokens, r)))
  /\ UNCHANGED <<now, life>>

(* dispatch of any other request: it passes and takes no token.            *)
PassThrough(r) ==
  /\ r \in Others
  /\ UNCHANGED vars

(* A process that is started again has no buckets.                         *)
Restart(p) ==
  /\ life[p] < MaxRestarts
  /\ life' = [life EXCEPT ![p] = @ + 1]
  /\ buckets' = [buckets EXCEPT ![p] = [k \in Keys |-> NoBucket]]
  /\ UNCHANGED <<now, log>>

Tick ==
  /\ now < MaxTime
  /\ now' = now + 1
  /\ UNCHANGED <<buckets, life, log>>

Init ==
  /\ now = 0
  /\ buckets = [p \in Processes |-> [k \in Keys |-> NoBucket]]
  /\ life = [p \in Processes |-> 0]
  /\ log = <<>>

Next ==
  \/ \E p \in Processes, c \in Clients, r \in DOMAIN Rules : Limited(p, c, r)
  \/ \E r \in Others : PassThrough(r)
  \/ \E p \in Processes : Restart(p)
  \/ Tick

Spec == Init /\ [][Next]_vars

-----------------------------------------------------------------------------
(* A bucket holds between nothing and its capacity, and its clock never    *)
(* runs ahead (ratelimit.py:54-71).                                        *)
TypeOK ==
  /\ now \in 0..MaxTime
  /\ life \in [Processes -> 0..MaxRestarts]
  /\ Len(log) <= MaxRequests
  /\ \A p \in Processes, k \in Keys :
        buckets[p][k] # NoBucket => /\ buckets[p][k].tokens \in 0..Full(k[2])
                                    /\ buckets[p][k].last \in 0..now

(* The requests that one bucket decided.                                   *)
SameBucket(i, j) ==
  /\ log[i].key = log[j].key
  /\ log[i].process = log[j].process /\ log[i].life = log[j].life

(* The requests of i's bucket admitted from i on, up to and with j.        *)
Admitted(i, j) == {k \in i..j : log[k].allowed /\ SameBucket(k, i)}

(* What a window of t ticks may admit: the burst and what refills in it.   *)
Excess(n, r, t) == (n - Rules[r].capacity) * Cost(r) > t

(* However the requests are spread, a bucket admits in no window more than *)
(* its capacity and the tokens that refill in it (ratelimit.py:9-11).      *)
WindowIsBounded ==
  \A i, j \in 1..Len(log) :
    i <= j => ~ Excess(Cardinality(Admitted(i, j)), log[i].key[2], log[j].at - log[i].at)

(* A request is refused only when admitting it would exceed that bound in  *)
(* some window: the limiter is as permissive as its rule.                  *)
RefusalIsNeeded ==
  \A j \in 1..Len(log) : ~ log[j].allowed =>
    \E i \in 1..j : /\ SameBucket(i, j)
                    /\ Excess(Cardinality(Admitted(i, j)) + 1, log[j].key[2],
                              log[j].at - log[i].at)

(* A client that waits for the announced Retry-After is admitted, if       *)
(* nobody took the token and the same process answers (ratelimit.py:117-127)*)
RetryAfterSuffices ==
  \A i, j \in 1..Len(log) :
    /\ i < j /\ SameBucket(i, j) /\ ~ log[i].allowed
    /\ log[j].at >= log[i].at + log[i].retry * TicksPerSec
    /\ Admitted(i, j - 1) = {}
    => log[j].allowed
=============================================================================
