------------------------- MODULE RateLimiterProofs -------------------------
(* Proofs about RateLimiter: for all rules, processes and clients, a bucket *)
(* stays between empty and its capacity, and its clock never runs ahead;    *)
(* it admits in no window more than its rule allows, refuses nobody whom    *)
(* the rule would admit, and keeps what its Retry-After announces.          *)
EXTENDS RateLimiter, FiniteSetTheorems, TLAPS

(* The buckets that a process can hold.                                     *)
GoodBucket(bucket, r) ==
  bucket # NoBucket => bucket.tokens \in 0..Full(r) /\ bucket.last \in 0..now

(* What the history records of a request.                                   *)
Entries == [at : Nat, process : Processes, life : Nat, key : Keys, allowed : BOOLEAN, retry : Int]

IInv ==
  /\ TypeOK
  /\ log \in Seq(Entries)
  /\ buckets \in [Processes -> [Keys -> [tokens : Int, last : Int]]]

-----------------------------------------------------------------------------
(* A token costs at least one tick's refill, and a bucket holds a natural  *)
(* number of them.                                                         *)
LEMMA CostAndFull ==
  ASSUME NEW r \in DOMAIN Rules
  PROVE  Cost(r) \in Nat \ {0} /\ Full(r) \in Nat
<1>1. Rules[r].capacity \in Nat /\ Rules[r].period \in Nat \ {0} /\ TicksPerSec \in Nat \ {0}
  BY RuleAssumption, RateNumberAssumption
<1>2. Cost(r) \in Nat \ {0}
  BY <1>1 DEF Cost
<1> QED
  BY <1>1, <1>2 DEF Full

(* Refilling never leaves the range of the bucket.                         *)
LEMMA RefillStaysInRange ==
  ASSUME NEW r \in DOMAIN Rules, NEW bucket \in [tokens : Int, last : Int],
         now \in Nat, GoodBucket(bucket, r)
  PROVE  Refilled(bucket, r) \in 0..Full(r)
<1>1. Full(r) \in Nat
  BY CostAndFull
<1>2. CASE bucket = NoBucket
  BY <1>1, <1>2 DEF Refilled
<1>3. CASE bucket # NoBucket
  <2>1. bucket.tokens \in 0..Full(r) /\ bucket.last \in 0..now
    BY <1>3 DEF GoodBucket
  <2> QED
    BY <1>1, <1>3, <2>1 DEF Refilled, Least
<1> QED
  BY <1>2, <1>3

-----------------------------------------------------------------------------
LEMMA InitIInv == Init => IInv
BY RateNumberAssumption DEF Init, IInv, TypeOK, NoBucket

(* The history of a request.                                               *)
LEMMA EntryAppended ==
  ASSUME IInv, NEW p \in Processes, NEW c \in Clients, NEW r \in DOMAIN Rules,
         NEW ok \in BOOLEAN, NEW retry \in Int, log' = Append(log, Entry(p, c, r, ok, retry))
  PROVE  log' \in Seq(Entries) /\ Len(log') = Len(log) + 1 /\ Len(log) \in Nat
<1>1. now \in Nat /\ life[p] \in Nat
  BY RateNumberAssumption DEF IInv, TypeOK
<1>2. <<c, r>> \in Keys
  BY DEF Keys
<1>3. Entry(p, c, r, ok, retry) \in Entries
  BY <1>1, <1>2 DEF Entry, Entries
<1>4. log \in Seq(Entries)
  BY DEF IInv
<1> QED
  BY <1>3, <1>4

(* A limited request touches one bucket of one process.                    *)
LEMMA LimitedIInv ==
  ASSUME IInv, NEW p \in Processes, NEW c \in Clients, NEW r \in DOMAIN Rules, Limited(p, c, r)
  PROVE  IInv'
<1> DEFINE key == <<Ident(c), r>>
           tokens == Refilled(buckets[p][key], r)
<1>1. key \in Keys /\ key[2] = r
  BY DEF Keys, Ident
<1>2. now \in Nat /\ now \in 0..now
  BY DEF IInv, TypeOK
<1>3. buckets[p][key] \in [tokens : Int, last : Int]
  BY <1>1 DEF IInv
<1>4. GoodBucket(buckets[p][key], r)
  BY <1>1 DEF IInv, TypeOK, GoodBucket
<1>5. tokens \in 0..Full(r) /\ Cost(r) \in Nat \ {0} /\ Full(r) \in Nat
  BY <1>2, <1>3, <1>4, RefillStaysInRange, CostAndFull
<1>6. \E left \in 0..Full(r), ok \in BOOLEAN, retry \in Int :
        /\ buckets' = [buckets EXCEPT ![p][key] = [tokens |-> left, last |-> now]]
        /\ log' = Append(log, Entry(p, c, r, ok, retry))
  <2>1. CASE Enough(tokens, r) /\ buckets' = [buckets EXCEPT ![p][key] =
                                       [tokens |-> tokens - Cost(r), last |-> now]]
                               /\ log' = Append(log, Entry(p, c, r, TRUE, 0))
    <3>1. tokens - Cost(r) \in 0..Full(r)
      <4> HIDE DEF tokens
      <4> QED
        BY <1>5, <2>1 DEF Enough
    <3> HIDE DEF tokens, key
    <3> QED
      BY <2>1, <3>1, 0 \in Int
  <2>2. CASE buckets' = [buckets EXCEPT ![p][key] = [tokens |-> tokens, last |-> now]]
             /\ log' = Append(log, Entry(p, c, r, FALSE, RetryAfter(tokens, r)))
    <3>1. RetryAfter(tokens, r) \in Int
      <4> HIDE DEF tokens
      <4> QED
        BY <1>5, RateNumberAssumption DEF RetryAfter
    <3> HIDE DEF tokens, key
    <3> QED
      BY <1>5, <2>2, <3>1
  <2> QED
    BY <2>1, <2>2 DEF Limited
<1>7. PICK left \in 0..Full(r), ok \in BOOLEAN, retry \in Int :
        /\ buckets' = [buckets EXCEPT ![p][key] = [tokens |-> left, last |-> now]]
        /\ log' = Append(log, Entry(p, c, r, ok, retry))
  BY <1>6
<1> HIDE DEF tokens, key
<1>8. \A q \in Processes, k \in Keys :
        buckets'[q][k] = IF q = p /\ k = key THEN [tokens |-> left, last |-> now]
                                             ELSE buckets[q][k]
  BY <1>1, <1>7 DEF IInv
<1>9. buckets' \in [Processes -> [Keys -> [tokens : Int, last : Int]]]
  <2>1. [tokens |-> left, last |-> now] \in [tokens : Int, last : Int]
    BY <1>2, <1>5, <1>7
  <2> QED
    BY <1>1, <1>7, <2>1 DEF IInv
<1>10. UNCHANGED <<now, life>> /\ Len(log) < MaxRequests
  BY DEF Limited
<1>11. log' \in Seq(Entries) /\ Len(log') = Len(log) + 1 /\ Len(log) \in Nat
  BY <1>7, EntryAppended
<1>12. \A q \in Processes, k \in Keys :
         buckets'[q][k] # NoBucket => /\ buckets'[q][k].tokens \in 0..Full(k[2])
                                      /\ buckets'[q][k].last \in 0..now
  <2> SUFFICES ASSUME NEW q \in Processes, NEW k \in Keys, buckets'[q][k] # NoBucket
               PROVE  /\ buckets'[q][k].tokens \in 0..Full(k[2])
                      /\ buckets'[q][k].last \in 0..now
    OBVIOUS
  <2>1. CASE q = p /\ k = key
    BY <1>1, <1>2, <1>7, <1>8, <2>1
  <2>2. CASE ~ (q = p /\ k = key)
    <3>1. buckets'[q][k] = buckets[q][k]
      BY <1>8, <2>2
    <3> QED
      BY <3>1 DEF IInv, TypeOK
  <2> QED
    BY <2>1, <2>2
<1>13. TypeOK'
  <2>1. Len(log') <= MaxRequests
    BY <1>10, <1>11, RateNumberAssumption
  <2>2. now' \in 0..MaxTime /\ life' \in [Processes -> 0..MaxRestarts]
    BY <1>10 DEF IInv, TypeOK
  <2> QED
    BY <1>10, <1>12, <2>1, <2>2 DEF TypeOK
<1> QED
  BY <1>9, <1>11, <1>13 DEF IInv

LEMMA NextIInv == IInv /\ [Next]_vars => IInv'
<1> SUFFICES ASSUME IInv, [Next]_vars PROVE IInv'
  OBVIOUS
<1>1. ASSUME NEW p \in Processes, NEW c \in Clients, NEW r \in DOMAIN Rules, Limited(p, c, r)
      PROVE IInv'
  BY <1>1, LimitedIInv
<1>2. ASSUME NEW r \in Others, PassThrough(r)
      PROVE IInv'
  BY <1>2 DEF PassThrough, vars, IInv, TypeOK
<1>3. ASSUME NEW p \in Processes, Restart(p) PROVE IInv'
  BY <1>3, RateNumberAssumption DEF Restart, IInv, TypeOK, NoBucket
<1>4. CASE Tick
  <2>1. now \in Nat /\ now' = now + 1 /\ now' \in 0..MaxTime
    BY <1>4, RateNumberAssumption DEF Tick, IInv, TypeOK
  <2> QED
    BY <1>4, <2>1 DEF Tick, IInv, TypeOK
<1>5. CASE UNCHANGED vars
  BY <1>5 DEF vars, IInv, TypeOK
<1> QED
  BY <1>1, <1>2, <1>3, <1>4, <1>5 DEF Next

(* For all rules and however requests, restarts and time interleave, a     *)
(* bucket never holds less than nothing or more than its capacity          *)
(* (ratelimit.py:54-71).                                                   *)
THEOREM BucketsStayInRange == Spec => []TypeOK
<1>1. Init => IInv
  BY InitIInv
<1>2. IInv /\ [Next]_vars => IInv'
  BY NextIInv
<1>3. IInv => TypeOK
  BY DEF IInv
<1> QED
  BY <1>1, <1>2, <1>3, PTL DEF Spec

-----------------------------------------------------------------------------
(* What a bucket knows of its requests.                                    *)

(* The bucket of key at p, since p was last started, decided request i.    *)
Decided(i, p, key) == log[i].process = p /\ log[i].life = life[p] /\ log[i].key = key

(* The tokens that the bucket of request i gave out from i on.             *)
Spent(i) == Cardinality(Admitted(i, Len(log))) * Cost(log[i].key[2])

(* No request lies ahead of the clock or in a later life of its process,   *)
(* and the bucket that decided it is there until the process restarts.     *)
LogIsPast ==
  \A i \in 1..Len(log) :
    /\ log[i].at <= now /\ log[i].life <= life[log[i].process]
    /\ log[i].life = life[log[i].process] => buckets[log[i].process][log[i].key] # NoBucket

(* From any request on, what was given out and what is left are within the *)
(* capacity and the refill.                                                *)
GivesNoMore ==
  \A p \in Processes, key \in Keys, i \in 1..Len(log) :
    Decided(i, p, key) =>
      Spent(i) + buckets[p][key].tokens
        <= Full(key[2]) + (buckets[p][key].last - log[i].at)

(* From some request on, when the bucket was full, they are no less.       *)
WithholdsNothing ==
  \A p \in Processes, key \in Keys : buckets[p][key] # NoBucket =>
    \E i \in 1..Len(log) :
      /\ Decided(i, p, key)
      /\ Spent(i) + buckets[p][key].tokens
           = Full(key[2]) + (buckets[p][key].last - log[i].at)

(* Since a refusal that nobody was admitted after, the bucket has gained   *)
(* what is needed for a token when the announced time is over.             *)
GainsAsAnnounced ==
  \A p \in Processes, key \in Keys, i \in 1..Len(log) :
    Decided(i, p, key) /\ ~ log[i].allowed /\ Admitted(i, Len(log)) = {} =>
      buckets[p][key].tokens + log[i].retry * TicksPerSec
        > Cost(key[2]) + (buckets[p][key].last - log[i].at)

WInv ==
  /\ IInv /\ LogIsPast /\ GivesNoMore /\ WithholdsNothing /\ GainsAsAnnounced
  /\ WindowIsBounded /\ RefusalIsNeeded /\ RetryAfterSuffices

(* A limited request, in one formula.                                      *)
LEMMA LimitedStep ==
  ASSUME IInv, NEW p \in Processes, NEW c \in Clients, NEW r \in DOMAIN Rules, Limited(p, c, r)
  PROVE  \E T \in 0..Full(r), left \in 0..Full(r), ok \in BOOLEAN, retry \in Int :
           /\ T = Refilled(buckets[p][<<c, r>>], r)
           /\ ok <=> T >= Cost(r)
           /\ left = IF ok THEN T - Cost(r) ELSE T
           /\ ok \/ retry = RetryAfter(T, r)
           /\ buckets' = [buckets EXCEPT ![p][<<c, r>>] = [tokens |-> left, last |-> now]]
           /\ log' = Append(log, Entry(p, c, r, ok, retry))
           /\ UNCHANGED <<now, life>>
<1> DEFINE T == Refilled(buckets[p][<<c, r>>], r)
<1>1. <<c, r>> \in Keys /\ <<c, r>>[2] = r
  BY DEF Keys
<1>2. now \in Nat /\ buckets[p][<<c, r>>] \in [tokens : Int, last : Int]
  BY <1>1 DEF IInv, TypeOK
<1>3. GoodBucket(buckets[p][<<c, r>>], r)
  BY <1>1 DEF IInv, TypeOK, GoodBucket
<1>4. T \in 0..Full(r) /\ Cost(r) \in Nat \ {0} /\ Full(r) \in Nat
  BY <1>2, <1>3, RefillStaysInRange, CostAndFull
<1>5. UNCHANGED <<now, life>>
  BY DEF Limited
<1>6. \/ /\ Enough(T, r)
         /\ buckets' = [buckets EXCEPT ![p][<<c, r>>] = [tokens |-> T - Cost(r), last |-> now]]
         /\ log' = Append(log, Entry(p, c, r, TRUE, 0))
      \/ /\ ~ Enough(T, r)
         /\ buckets' = [buckets EXCEPT ![p][<<c, r>>] = [tokens |-> T, last |-> now]]
         /\ log' = Append(log, Entry(p, c, r, FALSE, RetryAfter(T, r)))
  BY DEF Limited, Ident
<1>7. T = Refilled(buckets[p][<<c, r>>], r)
  OBVIOUS
<1> HIDE DEF T
<1>8. CASE Enough(T, r)
  <2>1. T >= Cost(r) /\ T - Cost(r) \in 0..Full(r) /\ 0 \in Int
    BY <1>4, <1>8 DEF Enough
  <2>2. /\ buckets' = [buckets EXCEPT ![p][<<c, r>>] = [tokens |-> T - Cost(r), last |-> now]]
        /\ log' = Append(log, Entry(p, c, r, TRUE, 0))
    BY <1>6, <1>8
  <2> QED
    BY <1>4, <1>5, <1>7, <2>1, <2>2
<1>9. CASE ~ Enough(T, r)
  <2>1. ~ (T >= Cost(r)) /\ RetryAfter(T, r) \in Int
    BY <1>4, <1>9, RateNumberAssumption DEF Enough, RetryAfter
  <2>2. /\ buckets' = [buckets EXCEPT ![p][<<c, r>>] = [tokens |-> T, last |-> now]]
        /\ log' = Append(log, Entry(p, c, r, FALSE, RetryAfter(T, r)))
    BY <1>6, <1>9
  <2> QED
    BY <1>4, <1>5, <1>7, <2>1, <2>2
<1> QED
  BY <1>8, <1>9

(* The windows of a log to which one request was added.                    *)
LEMMA WindowsAfterAppend ==
  ASSUME log \in Seq(Entries), NEW n \in Nat, n = Len(log), NEW e \in Entries,
         log' = Append(log, e)
  PROVE  /\ Len(log') = n + 1 /\ log'[n + 1] = e
         /\ \A i \in 1..n : log'[i] = log[i]
         /\ \A i, j \in 1..n : /\ SameBucket(i, j)' <=> SameBucket(i, j)
                                      /\ Admitted(i, j)' = Admitted(i, j)
         /\ \A i \in 1..n :
              Admitted(i, n + 1)' =
                IF e.allowed /\ SameBucket(n + 1, i)'
                THEN Admitted(i, n) \cup {n + 1}
                ELSE Admitted(i, n)
         /\ Admitted(n + 1, n + 1)' = IF e.allowed THEN {n + 1} ELSE {}
<1>1. Len(log') = n + 1 /\ log'[n + 1] = e
  OBVIOUS
<1>2. \A i \in 1..n : log'[i] = log[i]
  OBVIOUS
<1>3. \A i, j \in 1..n : SameBucket(i, j)' <=> SameBucket(i, j)
  BY <1>2 DEF SameBucket
<1>4. ASSUME NEW i \in 1..n, NEW j \in 1..n
      PROVE  Admitted(i, j)' = Admitted(i, j)
  <2>1. \A k \in i..j : k \in 1..n
    BY <1>1
  <2> QED
    BY <1>2, <1>3, <2>1 DEF Admitted
<1>5. ASSUME NEW i \in 1..n
      PROVE  Admitted(i, n + 1)' =
               IF e.allowed /\ SameBucket(n + 1, i)'
               THEN Admitted(i, n) \cup {n + 1}
               ELSE Admitted(i, n)
  <2>1. \A k : k \in i..(n + 1) <=> k \in i..n \/ k = n + 1
    BY <1>1
  <2>2. \A k \in i..n : k \in 1..n
    BY <1>1
  <2>3. ASSUME NEW k PROVE k \in Admitted(i, n + 1)' <=>
                 \/ k \in Admitted(i, n)
                 \/ k = n + 1 /\ e.allowed /\ SameBucket(k, i)'
    <3>1. CASE k = n + 1
      <4>1. k \in i..(n + 1) /\ k \notin i..n /\ log'[k].allowed = e.allowed
        BY <1>1, <3>1
      <4> QED
        BY <3>1, <4>1 DEF Admitted
    <3>2. CASE k # n + 1 /\ k \in i..n
      <4>1. k \in i..(n + 1) /\ k \in 1..n /\ log'[k] = log[k]
        BY <1>2, <2>1, <2>2, <3>2
      <4> QED
        BY <1>3, <3>2, <4>1 DEF Admitted
    <3>3. CASE k # n + 1 /\ k \notin i..n
      BY <2>1, <3>3 DEF Admitted
    <3> QED
      BY <3>1, <3>2, <3>3
  <2>4. CASE e.allowed /\ SameBucket(n + 1, i)'
    <3>1. Admitted(i, n + 1)' = Admitted(i, n) \cup {n + 1}
      BY <2>3, <2>4
    <3> QED
      BY <2>4, <3>1
  <2>5. CASE ~ (e.allowed /\ SameBucket(n + 1, i)')
    <3>1. Admitted(i, n + 1)' = Admitted(i, n)
      BY <2>3, <2>5
    <3> QED
      BY <2>5, <3>1
  <2> QED
    BY <2>4, <2>5
<1>6. Admitted(n + 1, n + 1)' = IF e.allowed THEN {n + 1} ELSE {}
  <2>1. \A k : k \in (n + 1)..(n + 1) <=> k = n + 1
    BY <1>1
  <2>2. \A k : k \in Admitted(n + 1, n + 1)' <=> k = n + 1 /\ e.allowed
    BY <1>1, <2>1 DEF Admitted, SameBucket
  <2>3. CASE e.allowed
    BY <2>2, <2>3
  <2>4. CASE ~ e.allowed
    BY <2>2, <2>4
  <2> QED
    BY <2>3, <2>4
<1> QED
  BY <1>1, <1>2, <1>3, <1>4, <1>5, <1>6

(* A window holds a finite number of admissions.                           *)
LEMMA AdmittedIsFinite ==
  ASSUME NEW i \in Int, NEW j \in Int
  PROVE  IsFiniteSet(Admitted(i, j)) /\ Cardinality(Admitted(i, j)) \in Nat
BY FS_Interval, FS_Subset, FS_CardinalityType DEF Admitted

(* What a bucket gave out is a natural number of tokens.                   *)
LEMMA SpentIsNat ==
  ASSUME IInv, NEW i \in 1..Len(log)
  PROVE  /\ log[i] \in Entries /\ log[i].key[2] \in DOMAIN Rules /\ log[i].key \in Keys
         /\ Cost(log[i].key[2]) \in Nat /\ Spent(i) \in Nat
<1>1. log[i] \in Entries /\ log[i].key \in Keys /\ Len(log) \in Nat
  <2>1. log \in Seq(Entries)
    BY DEF IInv
  <2>2. log[i] \in Entries /\ Len(log) \in Nat
    BY <2>1
  <2> QED
    BY <2>2 DEF Entries
<1>2. log[i].key[2] \in DOMAIN Rules
  BY <1>1 DEF Keys
<1>3. Cost(log[i].key[2]) \in Nat
  BY <1>2, CostAndFull
<1>4. Cardinality(Admitted(i, Len(log))) \in Nat
  BY <1>1, AdmittedIsFinite
<1> QED
  BY <1>1, <1>2, <1>3, <1>4 DEF Spent

LEMMA OneMore ==
  ASSUME NEW n \in Int, NEW m \in Int
  PROVE  n * m \in Int /\ (n + 1) * m = n * m + m
OBVIOUS

LEMMA LessSome ==
  ASSUME NEW n \in Int, NEW k \in Int, NEW m \in Int
  PROVE  n * m \in Int /\ k * m \in Int /\ (n - k) * m = n * m - k * m
OBVIOUS

(* Rounding down and adding one second is waiting long enough.             *)
LEMMA RoundedUp ==
  ASSUME NEW a \in Nat, NEW b \in Nat \ {0}
  PROVE  (a \div b + 1) * b > a
OBVIOUS

-----------------------------------------------------------------------------
(* A limited request preserves WInv.                                       *)
LEMMA LimitedWInv ==
  ASSUME WInv, NEW p \in Processes, NEW c \in Clients, NEW r \in DOMAIN Rules, Limited(p, c, r)
  PROVE  WInv'
<1> DEFINE key == <<c, r>>
           bucket == buckets[p][key]
<1>1. IInv /\ IInv'
  BY LimitedIInv DEF WInv
<1>2. PICK T \in 0..Full(r), left \in 0..Full(r), ok \in BOOLEAN, retry \in Int :
        /\ T = Refilled(bucket, r)
        /\ ok <=> T >= Cost(r)
        /\ left = IF ok THEN T - Cost(r) ELSE T
        /\ ok \/ retry = RetryAfter(T, r)
        /\ buckets' = [buckets EXCEPT ![p][key] = [tokens |-> left, last |-> now]]
        /\ log' = Append(log, Entry(p, c, r, ok, retry))
        /\ UNCHANGED <<now, life>>
  BY <1>1, LimitedStep
<1>3. PICK n \in Nat : n = Len(log)
  BY <1>1 DEF IInv
<1>4. /\ key \in Keys /\ key[2] = r /\ now \in Nat /\ life[p] \in Nat
      /\ buckets \in [Processes -> [Keys -> [tokens : Int, last : Int]]]
      /\ bucket \in [tokens : Int, last : Int]
      /\ log \in Seq(Entries)
  <2>1. key \in Keys /\ key[2] = r
    BY DEF Keys
  <2>2. now \in Nat /\ life[p] \in Nat
    BY <1>1, RateNumberAssumption DEF IInv, TypeOK
  <2>3. /\ buckets \in [Processes -> [Keys -> [tokens : Int, last : Int]]]
        /\ log \in Seq(Entries)
    BY <1>1 DEF IInv
  <2> QED
    BY <2>1, <2>2, <2>3
<1>e. PICK e \in Entries : e = Entry(p, c, r, ok, retry)
  <2>1. Entry(p, c, r, ok, retry) \in Entries
    BY <1>4 DEF Entry, Entries
  <2> QED
    BY <2>1
<1>5. /\ e \in Entries /\ e.at = now /\ e.process = p /\ e.life = life[p] /\ e.key = key
      /\ e.allowed = ok /\ e.retry = retry
  BY <1>e DEF Entry
<1>6. Cost(r) \in Nat \ {0} /\ Full(r) \in Nat /\ Full(r) >= Cost(r)
  <2>1. /\ Rules[r].capacity \in Nat \ {0} /\ Cost(r) \in Nat \ {0} /\ Full(r) \in Nat
    BY CostAndFull, RuleAssumption
  <2>2. Full(r) = (Rules[r].capacity - 1) * Cost(r) + Cost(r)
    BY <2>1, OneMore DEF Full
  <2>3. (Rules[r].capacity - 1) * Cost(r) \in Nat
    BY <2>1
  <2> QED
    BY <2>1, <2>2, <2>3
<1> HIDE DEF key, bucket
<1>7. /\ Len(log') = n + 1 /\ log'[n + 1] = e
      /\ \A i \in 1..n : log'[i] = log[i]
      /\ \A i, j \in 1..n : /\ SameBucket(i, j)' <=> SameBucket(i, j)
                            /\ Admitted(i, j)' = Admitted(i, j)
      /\ \A i \in 1..n : Admitted(i, n + 1)' =
                           IF ok /\ SameBucket(n + 1, i)'
                           THEN Admitted(i, n) \cup {n + 1} ELSE Admitted(i, n)
      /\ Admitted(n + 1, n + 1)' = IF ok THEN {n + 1} ELSE {}
  <2>1. log' = Append(log, e)
    BY <1>2, <1>e DEF key
  <2>2. /\ Len(log') = n + 1 /\ log'[n + 1] = e
        /\ \A i \in 1..n : log'[i] = log[i]
        /\ \A i, j \in 1..n : /\ SameBucket(i, j)' <=> SameBucket(i, j)
                              /\ Admitted(i, j)' = Admitted(i, j)
        /\ \A i \in 1..n : Admitted(i, n + 1)' =
                             IF e.allowed /\ SameBucket(n + 1, i)'
                             THEN Admitted(i, n) \cup {n + 1} ELSE Admitted(i, n)
        /\ Admitted(n + 1, n + 1)' = IF e.allowed THEN {n + 1} ELSE {}
    <3>1. log \in Seq(Entries) /\ n = Len(log) /\ n \in Nat /\ e \in Entries
      BY <1>3, <1>4
    <3> QED
      BY <2>1, <3>1, WindowsAfterAppend DEF Admitted, SameBucket
  <2> QED
    BY <1>5, <2>2
<1>8. \A i \in 1..n : /\ SameBucket(n + 1, i)' <=> Decided(i, p, key)
                      /\ SameBucket(i, n + 1)' <=> Decided(i, p, key)
  BY <1>5, <1>7 DEF SameBucket, Decided
<1>9. \A q \in Processes, k \in Keys :
        buckets'[q][k] = IF q = p /\ k = key THEN [tokens |-> left, last |-> now]
                                             ELSE buckets[q][k]
  BY <1>2, <1>4
<1>10. /\ bucket = buckets[p][key]
       /\ buckets'[p][key].tokens = left /\ buckets'[p][key].last = now
       /\ buckets'[p][key] # NoBucket
  BY <1>2, <1>4, <1>9 DEF bucket, NoBucket
<1>11. \A i \in 1..n, q \in Processes, k \in Keys :
         /\ Decided(i, q, k)' <=> Decided(i, q, k)
         /\ Decided(i, q, k) /\ Decided(i, p, key) => q = p /\ k = key
  BY <1>2, <1>7 DEF Decided
<1>12. \A q \in Processes, k \in Keys : Decided(n + 1, q, k)' <=> q = p /\ k = key
  BY <1>2, <1>5, <1>7 DEF Decided
<1>13. \A i \in 1..n : /\ log[i] \in Entries /\ log[i].at \in Nat /\ log[i].retry \in Int
                       /\ log[i].key[2] \in DOMAIN Rules /\ Spent(i) \in Nat
                       /\ Cardinality(Admitted(i, n)) \in Nat
                       /\ log[i].allowed \in BOOLEAN
  <2> SUFFICES ASSUME NEW i \in 1..n
               PROVE  /\ log[i] \in Entries /\ log[i].at \in Nat /\ log[i].retry \in Int
                      /\ log[i].key[2] \in DOMAIN Rules /\ Spent(i) \in Nat
                      /\ Cardinality(Admitted(i, n)) \in Nat
                      /\ log[i].allowed \in BOOLEAN
    OBVIOUS
  <2>1. log[i] \in Entries /\ log[i].key[2] \in DOMAIN Rules /\ Spent(i) \in Nat
    BY <1>1, <1>3, SpentIsNat
  <2>2. log[i].at \in Nat /\ log[i].retry \in Int /\ log[i].allowed \in BOOLEAN
    BY <2>1 DEF Entries
  <2>3. Cardinality(Admitted(i, n)) \in Nat
    <3>1. i \in Int /\ n \in Int
      OBVIOUS
    <3> QED
      BY <3>1, AdmittedIsFinite, Zenon
  <2> QED
    BY <2>1, <2>2, <2>3
<1>14. ASSUME NEW i \in 1..n
       PROVE  Cardinality(Admitted(i, n + 1)') =
                IF ok /\ Decided(i, p, key) THEN Cardinality(Admitted(i, n)) + 1
                                           ELSE Cardinality(Admitted(i, n))
  <2>1. IsFiniteSet(Admitted(i, n)) /\ n + 1 \notin Admitted(i, n)
    <3>1. IsFiniteSet(Admitted(i, n))
      BY AdmittedIsFinite
    <3>2. n + 1 \notin i..n
      OBVIOUS
    <3> QED
      BY <3>1, <3>2 DEF Admitted
  <2> QED
    BY <1>7, <1>8, <2>1, FS_AddElement
<1>15. ASSUME NEW i \in 1..n
       PROVE  Spent(i)' = IF ok /\ Decided(i, p, key) THEN Spent(i) + Cost(r) ELSE Spent(i)
  <2>1. Spent(i)' = Cardinality(Admitted(i, n + 1)') * Cost(log[i].key[2])
    BY <1>7 DEF Spent, Cost
  <2>2. Spent(i) = Cardinality(Admitted(i, n)) * Cost(log[i].key[2])
    BY <1>3 DEF Spent
  <2>3. Decided(i, p, key) => log[i].key[2] = r
    BY <1>4 DEF Decided
  <2> QED
    BY <1>6, <1>13, <1>14, <2>1, <2>2, <2>3, OneMore
<1>16. Spent(n + 1)' = IF ok THEN Cost(r) ELSE 0
  <2>1. Cardinality(Admitted(n + 1, n + 1)') = IF ok THEN 1 ELSE 0
    BY <1>7, FS_EmptySet, FS_Singleton
  <2>2. Spent(n + 1)' = Cardinality(Admitted(n + 1, n + 1)') * Cost(r)
    BY <1>4, <1>5, <1>7 DEF Spent, Cost
  <2> QED
    BY <1>6, <2>1, <2>2
<1>17. /\ bucket # NoBucket => /\ bucket.tokens \in Nat /\ bucket.last \in Nat /\ bucket.last <= now
                               /\ T = Least(Full(r), bucket.tokens + (now - bucket.last))
       /\ bucket = NoBucket => T = Full(r)
  <2>1. bucket # NoBucket => bucket.tokens \in 0..Full(r) /\ bucket.last \in 0..now
    BY <1>1, <1>4, <1>10 DEF IInv, TypeOK
  <2> QED
    BY <1>2, <1>4, <1>6, <2>1 DEF Refilled
<1>18. \A i \in 1..n : Decided(i, p, key) => bucket # NoBucket
  BY <1>3, <1>10 DEF WInv, LogIsPast, Decided
<1>19. T \in Nat /\ left \in Nat /\ left = (IF ok THEN T - Cost(r) ELSE T) /\ (ok <=> T >= Cost(r))
  BY <1>2, <1>6
<1>nums. /\ now \in Int /\ Cost(r) \in Int /\ Full(r) \in Int /\ T \in Int /\ left \in Int
         /\ bucket.tokens \in Int /\ bucket.last \in Int
  <2>1. now \in Int
    BY <1>4
  <2>2. bucket.tokens \in Int /\ bucket.last \in Int
    BY <1>4
  <2> QED
    BY <1>6, <1>19, <2>1, <2>2
<1>reqs. \A i \in 1..n : /\ log[i].at \in Int /\ Spent(i) \in Int
                         /\ log[i].retry * TicksPerSec \in Int
  <2> SUFFICES ASSUME NEW i \in 1..n
               PROVE  log[i].at \in Int /\ Spent(i) \in Int /\ log[i].retry * TicksPerSec \in Int
    OBVIOUS
  <2>1. log[i].at \in Nat /\ Spent(i) \in Nat /\ log[i].retry \in Int
    BY <1>13
  <2> QED
    BY <2>1, RateNumberAssumption
<1>20. LogIsPast'
  <2> SUFFICES ASSUME NEW i \in 1..(n + 1)
               PROVE  /\ log'[i].at <= now /\ log'[i].life <= life[log'[i].process]
                      /\ log'[i].life = life[log'[i].process]
                           => buckets'[log'[i].process][log'[i].key] # NoBucket
    BY <1>2, <1>7 DEF LogIsPast
  <2>1. CASE i = n + 1
    BY <1>4, <1>5, <1>7, <1>10, <2>1
  <2>2. CASE i \in 1..n
    <3>1. /\ log[i].at <= now /\ log[i].life <= life[log[i].process]
          /\ log[i].life = life[log[i].process]
               => buckets[log[i].process][log[i].key] # NoBucket
      BY <1>3, <2>2 DEF WInv, LogIsPast
    <3>2. log[i].process \in Processes /\ log[i].key \in Keys
      BY <1>13, <2>2 DEF Entries
    <3> QED
      BY <1>7, <1>9, <1>10, <2>2, <3>1, <3>2
  <2> QED
    BY <2>1, <2>2
<1>21. ASSUME NEW i \in 1..n, Decided(i, p, key)
       PROVE  Spent(i)' + left <= Full(r) + (now - log[i].at)
  <2>1. /\ Spent(i) + bucket.tokens <= Full(r) + (bucket.last - log[i].at)
        /\ bucket # NoBucket
    BY <1>3, <1>4, <1>10, <1>18, <1>21 DEF WInv, GivesNoMore
  <2>2. Spent(i)' + left = Spent(i) + T
    BY <1>6, <1>13, <1>15, <1>19, <1>21
  <2>3. T <= bucket.tokens + (now - bucket.last)
    BY <1>4, <1>6, <1>17, <2>1 DEF Least
  <2> QED
    BY <1>nums, <1>reqs, <2>1, <2>2, <2>3
<1>22. GivesNoMore'
  <2> SUFFICES ASSUME NEW q \in Processes, NEW k \in Keys, NEW i \in 1..(n + 1), Decided(i, q, k)'
               PROVE  Spent(i)' + buckets'[q][k].tokens
                        <= Full(k[2]) + (buckets'[q][k].last - log'[i].at)
    BY <1>7 DEF GivesNoMore, Full, Cost
  <2>1. CASE i = n + 1
    <3>1. q = p /\ k = key /\ log'[i].at = now
      BY <1>5, <1>7, <1>12, <2>1
    <3>2. Spent(n + 1)' + left = T /\ T <= Full(r) /\ T \in Int
      BY <1>2, <1>6, <1>16, <1>19
    <3> QED
      BY <1>4, <1>6, <1>10, <2>1, <3>1, <3>2
  <2>2. CASE i \in 1..n /\ q = p /\ k = key
    BY <1>4, <1>7, <1>10, <1>11, <1>21, <2>2
  <2>3. CASE i \in 1..n /\ ~ (q = p /\ k = key)
    <3>1. Decided(i, q, k) /\ ~ Decided(i, p, key)
      BY <1>11, <2>3
    <3>2. Spent(i) + buckets[q][k].tokens <= Full(k[2]) + (buckets[q][k].last - log[i].at)
      BY <1>3, <2>3, <3>1 DEF WInv, GivesNoMore
    <3> QED
      BY <1>7, <1>9, <1>15, <2>3, <3>1, <3>2
  <2> QED
    BY <2>1, <2>2, <2>3
<1>23. WithholdsNothing'
  <2> SUFFICES ASSUME NEW q \in Processes, NEW k \in Keys, buckets'[q][k] # NoBucket
               PROVE  \E i \in 1..(n + 1) :
                        /\ Decided(i, q, k)'
                        /\ Spent(i)' + buckets'[q][k].tokens
                             = Full(k[2]) + (buckets'[q][k].last - log'[i].at)
    BY <1>7 DEF WithholdsNothing, Full, Cost
  <2>1. CASE q = p /\ k = key /\ T = Full(r)
    <3>1. ok /\ Spent(n + 1)' + left = Full(r)
      BY <1>6, <1>16, <1>19, <2>1
    <3>2. Decided(n + 1, q, k)' /\ log'[n + 1].at = now /\ n + 1 \in 1..(n + 1)
      BY <1>5, <1>7, <1>12, <2>1
    <3> QED
      BY <1>4, <1>6, <1>10, <2>1, <3>1, <3>2
  <2>2. CASE q = p /\ k = key /\ T # Full(r)
    <3>1. bucket # NoBucket /\ T = bucket.tokens + (now - bucket.last)
      BY <1>17, <2>2 DEF Least
    <3>2. PICK i \in 1..n : /\ Decided(i, p, key)
                            /\ Spent(i) + bucket.tokens
                                 = Full(r) + (bucket.last - log[i].at)
      BY <1>3, <1>4, <1>10, <3>1 DEF WInv, WithholdsNothing
    <3>3. Spent(i)' + left = Spent(i) + T
      BY <1>6, <1>13, <1>15, <1>19, <3>2
    <3>4. Spent(i)' + left = Full(r) + (now - log[i].at)
      BY <1>nums, <1>reqs, <3>1, <3>2, <3>3
    <3>5. Decided(i, p, key)' /\ log'[i] = log[i] /\ i \in 1..(n + 1)
      <4>1. key \in Keys
        BY <1>4
      <4>2. Decided(i, p, key)' <=> Decided(i, p, key)
        BY <1>11, <4>1
      <4> QED
        BY <1>7, <3>2, <4>2
    <3> QED
      BY <1>4, <1>10, <2>2, <3>4, <3>5
  <2>3. CASE ~ (q = p /\ k = key)
    <3>1. buckets'[q][k] = buckets[q][k]
      BY <1>9, <2>3
    <3>2. PICK i \in 1..n : /\ Decided(i, q, k)
                            /\ Spent(i) + buckets[q][k].tokens
                                 = Full(k[2]) + (buckets[q][k].last - log[i].at)
      BY <1>3, <3>1 DEF WInv, WithholdsNothing
    <3>3. Decided(i, q, k)' /\ ~ Decided(i, p, key)
      BY <1>11, <2>3, <3>2
    <3> QED
      BY <1>7, <1>15, <3>1, <3>2, <3>3
  <2> QED
    BY <2>1, <2>2, <2>3
<1>24. GainsAsAnnounced'
  <2> SUFFICES ASSUME NEW q \in Processes, NEW k \in Keys, NEW i \in 1..(n + 1), Decided(i, q, k)',
                      ~ log'[i].allowed, Admitted(i, n + 1)' = {}
               PROVE  buckets'[q][k].tokens + log'[i].retry * TicksPerSec
                        > Cost(k[2]) + (buckets'[q][k].last - log'[i].at)
    BY <1>7 DEF GainsAsAnnounced, Cost
  <2>1. CASE i = n + 1
    <3>1. q = p /\ k = key /\ ~ ok /\ retry = RetryAfter(T, r)
      BY <1>2, <1>5, <1>7, <1>12, <2>1
    <3>2. Cost(r) - T \in Nat /\ T = left /\ TicksPerSec \in Nat \ {0}
      BY <1>6, <1>19, <3>1, RateNumberAssumption
    <3>3. retry * TicksPerSec > Cost(r) - T
      BY <3>1, <3>2, RoundedUp DEF RetryAfter
    <3>4. retry * TicksPerSec \in Int
      BY <1>2, <3>2
    <3>5. left + retry * TicksPerSec > Cost(r)
      BY <1>6, <1>19, <3>2, <3>3, <3>4
    <3> QED
      BY <1>4, <1>5, <1>6, <1>7, <1>10, <2>1, <3>1, <3>5
  <2>2. CASE i \in 1..n
    <3>1. /\ Decided(i, q, k) /\ ~ log[i].allowed /\ log'[i] = log[i]
          /\ Admitted(i, n) = {} /\ (ok => ~ Decided(i, p, key))
      BY <1>7, <1>8, <1>11, <2>2
    <3>2. buckets[q][k].tokens + log[i].retry * TicksPerSec
            > Cost(k[2]) + (buckets[q][k].last - log[i].at)
      BY <1>3, <2>2, <3>1 DEF WInv, GainsAsAnnounced
    <3>3. CASE ~ (q = p /\ k = key)
      BY <1>9, <3>1, <3>2, <3>3
    <3>4. CASE q = p /\ k = key
      <4>1. ~ ok /\ bucket # NoBucket
        BY <1>18, <2>2, <3>1, <3>4
      <4>2. T = left /\ T = bucket.tokens + (now - bucket.last)
        BY <1>6, <1>17, <1>19, <4>1 DEF Least
      <4>3. log[i].retry * TicksPerSec \in Int
        BY <1>13, <2>2, RateNumberAssumption
      <4>4. bucket.tokens + log[i].retry * TicksPerSec > Cost(r) + (bucket.last - log[i].at)
        BY <1>4, <1>10, <3>2, <3>4
      <4>5. left + log[i].retry * TicksPerSec > Cost(r) + (now - log[i].at)
        BY <1>nums, <1>reqs, <2>2, <4>2, <4>3, <4>4
      <4> QED
        BY <1>4, <1>10, <3>1, <3>4, <4>5
    <3> QED
      BY <3>3, <3>4
  <2> QED
    BY <2>1, <2>2
<1>25. WindowIsBounded'
  <2> SUFFICES ASSUME NEW i \in 1..(n + 1), NEW j \in 1..(n + 1), i <= j,
                      Excess(Cardinality(Admitted(i, j)'), log'[i].key[2], log'[j].at - log'[i].at)
               PROVE  FALSE
    BY <1>7 DEF WindowIsBounded, Excess, Cost
  <2>1. CASE j \in 1..n
    <3>1. i \in 1..n
      BY <2>1
    <3> QED
      BY <1>3, <1>7, <2>1, <3>1 DEF WInv, WindowIsBounded
  <2>2. CASE j = n + 1 /\ i = n + 1
    <3>1. Cardinality(Admitted(i, j)') = IF ok THEN 1 ELSE 0
      BY <1>7, <2>2, FS_EmptySet, FS_Singleton
    <3>2. log'[i].key[2] = r /\ log'[j].at - log'[i].at = 0
      BY <1>4, <1>5, <1>7, <2>2
    <3>3. Rules[r].capacity \in Nat \ {0}
      BY RuleAssumption
    <3>4. (Cardinality(Admitted(i, j)') - Rules[r].capacity) * Cost(r) <= 0
      BY <1>6, <3>1, <3>3
    <3> QED
      BY <1>6, <3>1, <3>2, <3>3, <3>4 DEF Excess
  <2>3. CASE j = n + 1 /\ i \in 1..n /\ Decided(i, p, key)
    <3> DEFINE N == Cardinality(Admitted(i, n + 1)')
    <3>0. N \in Nat
      BY <1>13, <1>14, <2>3
    <3>1. log'[i] = log[i] /\ log'[j].at = now /\ log[i].key[2] = r
      BY <1>4, <1>5, <1>7, <2>3 DEF Decided
    <3>2. Spent(i)' = N * Cost(r)
      BY <1>7, <3>1 DEF Spent, Cost
    <3>3. Rules[r].capacity \in Nat /\ Full(r) = Rules[r].capacity * Cost(r)
      BY RuleAssumption DEF Full
    <3>4. (N - Rules[r].capacity) * Cost(r) > now - log[i].at
      BY <2>3, <3>1 DEF Excess
    <3> HIDE DEF N
    <3>5. /\ N * Cost(r) \in Int
          /\ (N - Rules[r].capacity) * Cost(r) = N * Cost(r) - Full(r)
      BY <1>nums, <3>0, <3>3, LessSome
    <3>6. N * Cost(r) + left <= Full(r) + (now - log[i].at)
      BY <1>21, <2>3, <3>2
    <3>7. left >= 0
      BY <1>19
    <3> QED
      BY <1>nums, <1>reqs, <2>3, <3>4, <3>5, <3>6, <3>7
  <2>4. CASE j = n + 1 /\ i \in 1..n /\ ~ Decided(i, p, key)
    <3>1. Admitted(i, j)' = Admitted(i, n) /\ log'[i] = log[i] /\ log'[j].at = now
      BY <1>5, <1>7, <1>8, <2>4
    <3>2. n \in 1..n /\ i <= n
      BY <2>4
    <3>3. ~ Excess(Cardinality(Admitted(i, n)), log[i].key[2], log[n].at - log[i].at)
      BY <1>3, <2>4, <3>2 DEF WInv, WindowIsBounded
    <3>4. log[n].at <= now
      BY <1>3, <3>2 DEF WInv, LogIsPast
    <3>5. /\ log[i].at \in Int /\ log[n].at \in Int /\ Cardinality(Admitted(i, n)) \in Int
          /\ Cost(log[i].key[2]) \in Int /\ Rules[log[i].key[2]].capacity \in Int
      BY <1>13, <2>4, <3>2, CostAndFull, RuleAssumption
    <3>6. (Cardinality(Admitted(i, n)) - Rules[log[i].key[2]].capacity) * Cost(log[i].key[2]) \in Int
      BY <3>5
    <3> DEFINE X == (Cardinality(Admitted(i, n)) - Rules[log[i].key[2]].capacity)
                     * Cost(log[i].key[2])
    <3>7. X > now - log[i].at
      BY <2>4, <3>1 DEF Excess
    <3>8. ~ (X > log[n].at - log[i].at)
      BY <3>3 DEF Excess
    <3> HIDE DEF X
    <3>9. X \in Int
      BY <3>6 DEF X
    <3> QED
      BY <1>nums, <3>4, <3>5, <3>7, <3>8, <3>9
  <2> QED
    BY <2>1, <2>2, <2>3, <2>4
<1>26. RefusalIsNeeded'
  <2> SUFFICES ASSUME NEW j \in 1..(n + 1), ~ log'[j].allowed
               PROVE  \E i \in 1..j :
                        /\ SameBucket(i, j)'
                        /\ Excess(Cardinality(Admitted(i, j)') + 1, log'[j].key[2],
                                  log'[j].at - log'[i].at)
    BY <1>7 DEF RefusalIsNeeded, Excess, Cost
  <2>1. CASE j \in 1..n
    <3>1. PICK i \in 1..j :
            /\ SameBucket(i, j)
            /\ Excess(Cardinality(Admitted(i, j)) + 1, log[j].key[2], log[j].at - log[i].at)
      BY <1>3, <1>7, <2>1 DEF WInv, RefusalIsNeeded
    <3>2. i \in 1..n
      BY <2>1
    <3> QED
      BY <1>7, <2>1, <3>1, <3>2
  <2>2. CASE j = n + 1
    <3>1. ~ ok /\ log'[j].at = now /\ log'[j].key[2] = r
      BY <1>4, <1>5, <1>7, <2>2
    <3>2. bucket # NoBucket /\ T = bucket.tokens + (now - bucket.last) /\ T < Cost(r)
      BY <1>6, <1>17, <1>19, <3>1 DEF Least
    <3>3. PICK i \in 1..n : /\ Decided(i, p, key)
                            /\ Spent(i) + bucket.tokens = Full(r) + (bucket.last - log[i].at)
      BY <1>3, <1>4, <1>10, <3>2 DEF WInv, WithholdsNothing
    <3> DEFINE N == Cardinality(Admitted(i, n + 1)')
    <3>0. N \in Nat /\ N = Cardinality(Admitted(i, n))
      BY <1>13, <1>14, <3>1, <3>3
    <3>4. log'[i] = log[i] /\ log[i].key[2] = r
      BY <1>4, <1>7, <3>3 DEF Decided
    <3>5. Spent(i) = N * Cost(r)
      BY <1>3, <3>0, <3>4 DEF Spent
    <3>6. Rules[r].capacity \in Nat /\ Full(r) = Rules[r].capacity * Cost(r)
      BY RuleAssumption DEF Full
    <3>7. /\ N * Cost(r) \in Int
          /\ (N + 1 - Rules[r].capacity) * Cost(r) = N * Cost(r) + Cost(r) - Full(r)
      <4> HIDE DEF N
      <4>1. /\ N * Cost(r) \in Int /\ (N + 1) * Cost(r) \in Int
            /\ (N + 1) * Cost(r) = N * Cost(r) + Cost(r)
        BY <1>nums, <3>0, OneMore
      <4>2. (N + 1 - Rules[r].capacity) * Cost(r) = (N + 1) * Cost(r) - Full(r)
        BY <1>nums, <3>0, <3>6, LessSome
      <4> QED
        BY <1>nums, <3>0, <3>6, <4>1, <4>2
    <3>9. i \in 1..j /\ SameBucket(i, j)'
      BY <1>8, <2>2, <3>3
    <3>10. Excess(N + 1, r, now - log[i].at)
      <4> HIDE DEF N
      <4>1. (N + 1 - Rules[r].capacity) * Cost(r) > now - log[i].at
        BY <1>nums, <1>reqs, <3>2, <3>3, <3>5, <3>7
      <4>2. N \in Int /\ Rules[r].capacity \in Int /\ log[i].at \in Int
        BY <1>reqs, <3>0, <3>6
      <4> QED
        BY <1>nums, <4>1, <4>2 DEF Excess
    <3>11. Excess(Cardinality(Admitted(i, j)') + 1, log'[j].key[2], log'[j].at - log'[i].at)
      <4>1. Admitted(i, j)' = Admitted(i, n + 1)' /\ log'[j].at - log'[i].at = now - log[i].at
        BY <2>2, <3>1, <3>4
      <4> QED
        BY <3>1, <3>10, <4>1
    <3> QED
      BY <3>9, <3>11
  <2> QED
    BY <2>1, <2>2
<1>27. RetryAfterSuffices'
  <2> SUFFICES ASSUME NEW i \in 1..(n + 1), NEW j \in 1..(n + 1), i < j, SameBucket(i, j)',
                      ~ log'[i].allowed, Admitted(i, j - 1)' = {},
                      log'[j].at >= log'[i].at + log'[i].retry * TicksPerSec
               PROVE  log'[j].allowed
    BY <1>7 DEF RetryAfterSuffices
  <2>1. i \in 1..n /\ j - 1 \in 1..n
    OBVIOUS
  <2>2. CASE j \in 1..n
    BY <1>3, <1>7, <2>1, <2>2 DEF WInv, RetryAfterSuffices
  <2>3. CASE j = n + 1
    <3>1. /\ Decided(i, p, key) /\ log'[i] = log[i] /\ log'[j].at = now /\ log'[j].allowed = ok
          /\ Admitted(i, n) = {} /\ bucket # NoBucket
      BY <1>5, <1>7, <1>8, <1>18, <2>1, <2>3
    <3>2. bucket.tokens + log[i].retry * TicksPerSec > Cost(r) + (bucket.last - log[i].at)
      BY <1>3, <1>4, <1>10, <2>1, <3>1 DEF WInv, GainsAsAnnounced
    <3>4. now >= log[i].at + log[i].retry * TicksPerSec
      BY <3>1
    <3>5. bucket.tokens + (now - bucket.last) >= Cost(r)
      BY <1>nums, <1>reqs, <2>1, <3>2, <3>4
    <3>6. T >= Cost(r)
      BY <1>6, <1>17, <3>1, <3>5 DEF Least
    <3> QED
      BY <1>19, <3>1, <3>6
  <2> QED
    BY <2>1, <2>2, <2>3
<1> QED
  BY <1>1, <1>20, <1>22, <1>23, <1>24, <1>25, <1>26, <1>27 DEF WInv

LEMMA InitWInv == Init => WInv
<1> SUFFICES ASSUME Init PROVE WInv
  OBVIOUS
<1>1. IInv
  BY InitIInv
<1>2. Len(log) = 0 /\ \A p \in Processes, k \in Keys : buckets[p][k] = NoBucket
  BY DEF Init
<1>3. LogIsPast /\ GivesNoMore /\ WithholdsNothing /\ GainsAsAnnounced
  BY <1>2 DEF LogIsPast, GivesNoMore, WithholdsNothing, GainsAsAnnounced
<1>4. WindowIsBounded /\ RefusalIsNeeded /\ RetryAfterSuffices
  BY <1>2 DEF WindowIsBounded, RefusalIsNeeded, RetryAfterSuffices
<1> QED
  BY <1>1, <1>3, <1>4 DEF WInv

(* What depends on the history alone.                                      *)
LEMMA SameLog ==
  ASSUME UNCHANGED log
  PROVE  /\ WindowIsBounded' <=> WindowIsBounded
         /\ RefusalIsNeeded' <=> RefusalIsNeeded
         /\ RetryAfterSuffices' <=> RetryAfterSuffices
         /\ \A i \in 1..Len(log) : Spent(i)' = Spent(i)
BY DEF WindowIsBounded, RefusalIsNeeded, RetryAfterSuffices, Admitted, SameBucket, Excess, Spent,
       Cost

LEMMA RestartWInv ==
  ASSUME WInv, NEW p \in Processes, Restart(p)
  PROVE  WInv'
<1>1. /\ log' = log /\ now' = now /\ life \in [Processes -> Nat]
      /\ life' = [life EXCEPT ![p] = @ + 1]
      /\ \A q \in Processes, k \in Keys :
           buckets'[q][k] = IF q = p THEN NoBucket ELSE buckets[q][k]
  BY RateNumberAssumption DEF Restart, WInv, IInv, TypeOK
<1>2. IInv' /\ IInv
  BY NextIInv DEF WInv, Next
<1>3. \A i \in 1..Len(log) : log[i].process \in Processes /\ log[i].key \in Keys /\ log[i].life \in Nat
  BY <1>2, SpentIsNat DEF Entries
<1>4. LogIsPast'
  <2> SUFFICES ASSUME NEW i \in 1..Len(log)
               PROVE  /\ log[i].at <= now /\ log[i].life <= life'[log[i].process]
                      /\ log[i].life = life'[log[i].process]
                           => buckets'[log[i].process][log[i].key] # NoBucket
    BY <1>1 DEF LogIsPast
  <2>1. /\ log[i].at <= now /\ log[i].life <= life[log[i].process]
        /\ log[i].life = life[log[i].process]
             => buckets[log[i].process][log[i].key] # NoBucket
    BY DEF WInv, LogIsPast
  <2>2. log[i].process \in Processes /\ log[i].key \in Keys /\ log[i].life \in Nat
    BY <1>3
  <2>3. CASE log[i].process = p
    <3>1. life'[p] = life[p] + 1 /\ life[p] \in Nat
      BY <1>1
    <3> QED
      BY <2>1, <2>2, <2>3, <3>1
  <2>4. CASE log[i].process # p
    BY <1>1, <2>1, <2>2, <2>4
  <2> QED
    BY <2>3, <2>4
<1>5. \A i \in 1..Len(log), q \in Processes, k \in Keys :
        Decided(i, q, k)' <=> q # p /\ Decided(i, q, k)
  BY <1>1, <1>3 DEF Decided, WInv, LogIsPast
<1>6. \A k \in Keys : Full(k[2])' = Full(k[2]) /\ Cost(k[2])' = Cost(k[2])
  BY DEF Full, Cost
<1>7. GivesNoMore'
  <2> SUFFICES ASSUME NEW q \in Processes, NEW k \in Keys, NEW i \in 1..Len(log), Decided(i, q, k)'
               PROVE  Spent(i)' + buckets'[q][k].tokens
                        <= Full(k[2]) + (buckets'[q][k].last - log[i].at)
    BY <1>1 DEF GivesNoMore, Full, Cost
  <2> QED
    BY <1>1, <1>5, SameLog DEF WInv, GivesNoMore
<1>8. WithholdsNothing'
  <2> SUFFICES ASSUME NEW q \in Processes, NEW k \in Keys, buckets'[q][k] # NoBucket
               PROVE  \E i \in 1..Len(log) :
                        /\ Decided(i, q, k)'
                        /\ Spent(i)' + buckets'[q][k].tokens
                             = Full(k[2]) + (buckets'[q][k].last - log[i].at)
    BY <1>1 DEF WithholdsNothing, Full, Cost
  <2>1. q # p /\ buckets'[q][k] = buckets[q][k]
    BY <1>1
  <2>2. PICK i \in 1..Len(log) :
          /\ Decided(i, q, k)
          /\ Spent(i) + buckets[q][k].tokens = Full(k[2]) + (buckets[q][k].last - log[i].at)
    BY <2>1 DEF WInv, WithholdsNothing
  <2>3. Decided(i, q, k)' /\ Spent(i)' = Spent(i)
    BY <1>1, <1>5, <2>1, <2>2, SameLog DEF Spent, Admitted, SameBucket
  <2> QED
    BY <2>1, <2>2, <2>3
<1>9. GainsAsAnnounced'
  <2> SUFFICES ASSUME NEW q \in Processes, NEW k \in Keys, NEW i \in 1..Len(log), Decided(i, q, k)',
                      ~ log[i].allowed, Admitted(i, Len(log)) = {}
               PROVE  buckets'[q][k].tokens + log[i].retry * TicksPerSec
                        > Cost(k[2]) + (buckets'[q][k].last - log[i].at)
    BY <1>1 DEF GainsAsAnnounced, Cost, Admitted, SameBucket
  <2> QED
    BY <1>1, <1>5 DEF WInv, GainsAsAnnounced
<1> QED
  BY <1>1, <1>2, <1>4, <1>7, <1>8, <1>9, SameLog DEF WInv

(* Time alone changes nothing about the buckets and the history.           *)
LEMMA TimeWInv ==
  ASSUME WInv, Tick \/ UNCHANGED vars
  PROVE  WInv'
<1>1. UNCHANGED <<log, buckets, life>> /\ now' >= now /\ now' \in Nat /\ now \in Nat
  BY RateNumberAssumption DEF Tick, vars, WInv, IInv, TypeOK
<1>2. IInv' /\ IInv
  BY NextIInv DEF WInv, Next
<1>3. \A i \in 1..Len(log) : log[i].at \in Nat
  BY <1>2, SpentIsNat DEF Entries
<1>4. LogIsPast'
  BY <1>1, <1>3 DEF WInv, LogIsPast
<1>5. GivesNoMore'
  BY <1>1 DEF WInv, GivesNoMore, Decided, Spent, Full, Cost, Admitted, SameBucket
<1>6. WithholdsNothing'
  <2> SUFFICES ASSUME NEW q \in Processes, NEW k \in Keys, buckets[q][k] # NoBucket
               PROVE  \E i \in 1..Len(log) :
                        /\ Decided(i, q, k)'
                        /\ Spent(i)' + buckets[q][k].tokens
                             = Full(k[2]) + (buckets[q][k].last - log[i].at)
    BY <1>1 DEF WithholdsNothing, Full, Cost
  <2>1. PICK i \in 1..Len(log) :
          /\ Decided(i, q, k)
          /\ Spent(i) + buckets[q][k].tokens = Full(k[2]) + (buckets[q][k].last - log[i].at)
    BY DEF WInv, WithholdsNothing
  <2>2. Decided(i, q, k)' /\ Spent(i)' = Spent(i)
    BY <1>1, <2>1 DEF Decided, Spent, Admitted, SameBucket, Cost
  <2> QED
    BY <2>1, <2>2
<1>7. GainsAsAnnounced'
  BY <1>1 DEF WInv, GainsAsAnnounced, Decided, Cost, Admitted, SameBucket
<1> QED
  BY <1>1, <1>2, <1>4, <1>5, <1>6, <1>7, SameLog DEF WInv

LEMMA WindowInvariance == Spec => []WInv
<1>1. Init => WInv
  BY InitWInv
<1>2. WInv /\ [Next]_vars => WInv'
  BY LimitedWInv, RestartWInv, TimeWInv DEF Next, PassThrough
<1> QED
  BY <1>1, <1>2, PTL DEF Spec

(* For all rules, clocks and numbers of processes, clients and requests, a *)
(* bucket admits in no window more than its capacity and what refills in   *)
(* it (ratelimit.py:9-11).                                                 *)
THEOREM NoWindowExceedsItsRule == Spec => []WindowIsBounded
<1>1. WInv => WindowIsBounded
  BY DEF WInv
<1> QED
  BY <1>1, WindowInvariance, PTL

(* Nobody is refused who could be admitted within the rule: a bucket       *)
(* remembers, however long ago it was full (ratelimit.py:54-71).           *)
THEOREM NoNeedlessRefusal == Spec => []RefusalIsNeeded
<1>1. WInv => RefusalIsNeeded
  BY DEF WInv
<1> QED
  BY <1>1, WindowInvariance, PTL

(* Waiting for the announced Retry-After is enough, whatever the rounding, *)
(* if nobody else took the token (ratelimit.py:117-127).                   *)
THEOREM AnnouncedWaitSuffices == Spec => []RetryAfterSuffices
<1>1. WInv => RetryAfterSuffices
  BY DEF WInv
<1> QED
  BY <1>1, WindowInvariance, PTL
=============================================================================
