------------------------- MODULE CircuitBreakerProofs -------------------------
(***************************************************************************)
(* The circuit breaker for any number of evaluations, any threshold,       *)
(* window, cooldown and lag: types, the report of every opening, the bounds *)
(* on the messages it lets through, and that it only trips for a reason.   *)
(***************************************************************************)
EXTENDS CircuitBreaker, FiniteSetTheorems, TLAPS

LEMMA BreakerConstants ==
  /\ Threshold \in Nat \ {0} /\ Window \in Nat \ {0} /\ Cooldown \in Nat \ {0}
  /\ MaxLag \in Nat /\ MaxFaults \in Nat
  /\ \A a \in Age : a # 0 => a - 1 \in Age
  /\ 0 .. MaxLag \subseteq Age
  /\ IsFiniteSet(Task)
BY BreakerAssumption DEF Age, Oldest

LEMMA BumpType ==
  ASSUME NEW f \in [Age -> 0 .. Threshold + 1], NEW a \in Age
  PROVE  Bump(f, a) \in [Age -> 0 .. Threshold + 1]
BY BreakerConstants DEF Bump

LEMMA OlderType ==
  ASSUME NEW f \in [Age -> Nat]
  PROVE  Older(f) \in [Age -> Nat]
BY BreakerConstants DEF Older

LEMMA SaturateType ==
  ASSUME NEW f \in [Age -> Nat]
  PROVE  Saturate(f) \in [Age -> 0 .. Threshold + 1]
BY BreakerConstants DEF Saturate

\* TypeOK in parts.
Locals ==
  /\ pc \in [Task -> Label]
  /\ age \in [Task -> 0 .. MaxLag]
  /\ faults \in 0 .. MaxFaults
Flags == audited \in BOOLEAN /\ prompt \in BOOLEAN
Ttls ==
  /\ open \in 0 .. Cooldown
  /\ winTtl \in 0 .. Window + 1
Counts ==
  /\ entries \in [Age -> Nat]
  /\ seen \in [Age -> 0 .. Threshold + 1]
  /\ passed \in [Age -> 0 .. Threshold + 1]

LEMMA TypedParts == TypeOK <=> Locals /\ Flags /\ Ttls /\ Counts
<1>1. {NoTtl} \cup 1 .. Window + 1 = 0 .. Window + 1
  BY BreakerConstants DEF NoTtl
<1>. QED
  BY <1>1 DEF TypeOK, Locals, Flags, Ttls, Counts

LEMMA TypedInit == Init => Locals /\ Flags /\ Ttls /\ Counts
<1>. SUFFICES ASSUME Init PROVE Locals /\ Flags /\ Ttls /\ Counts
  OBVIOUS
<1>1. Locals
  <2>1. MaxLag \in Nat /\ MaxFaults \in Nat /\ "idle" \in Label
    BY BreakerConstants DEF Label
  <2>. QED
    BY <2>1 DEF Init, Locals
<1>2. Flags
  BY Zenon DEF Init, Flags
<1>3. Ttls
  BY BreakerConstants DEF Init, Ttls, NoTtl
<1>4. Counts
  BY BreakerConstants DEF Init, Counts, None
<1>. QED
  BY <1>1, <1>2, <1>3, <1>4

LEMMA FlagsNext == Flags /\ [Next]_vars => Flags'
<1>. SUFFICES ASSUME Flags, [Next]_vars PROVE Flags'
  OBVIOUS
<1>1. \/ UNCHANGED <<audited, prompt>>
      \/ \E t \in Task : Trip(t) \/ Audit(t)
      \/ Tick
  BY DEF Next, Evaluate, Arrive, Fail, Duplicate, RateLimit, ObserveOpen, ObserveClosed, Zadd, Zrem,
         Expire, ZcardTrips, ZcardPasses, Crash, history, vars
<1>2. audited' \in BOOLEAN
  BY <1>1, Zenon DEF Flags, Trip, Audit, Tick
<1>3. prompt' \in BOOLEAN
  BY <1>1, Zenon DEF Flags, Trip, Audit, Tick
<1>. QED
  BY <1>2, <1>3 DEF Flags

LEMMA LocalsNext == Locals /\ [Next]_vars => Locals'
<1>. SUFFICES ASSUME Locals, [Next]_vars PROVE Locals'
  OBVIOUS
<1>. USE DEF Locals, Goto, Finish, keys, history
<1>. MaxLag \in Nat /\ MaxFaults \in Nat
  BY BreakerConstants
<1>. {"idle", "limit", "is_open", "trip", "audit", "zadd", "zremrangebyscore", "expire", "zcard"}
        \subseteq Label
  BY DEF Label, Sampled
<1>1. ASSUME NEW t \in Task, Arrive(t) \/ Duplicate(t) \/ RateLimit(t) \/ ObserveOpen(t)
                             \/ ObserveClosed(t)
      PROVE  Locals'
  BY <1>1 DEF Arrive, Duplicate, RateLimit, ObserveOpen, ObserveClosed
<1>2. ASSUME NEW t \in Task, Zadd(t) \/ Zrem(t) \/ Expire(t) \/ ZcardTrips(t) \/ ZcardPasses(t)
      PROVE  Locals'
  BY <1>2 DEF Zadd, Zrem, Expire, ZcardTrips, ZcardPasses
<1>3. ASSUME NEW t \in Task, Trip(t) \/ Audit(t) \/ Fail(t) PROVE Locals'
  BY <1>3 DEF Trip, Audit, Fail
<1>4. CASE Crash \/ UNCHANGED vars
  BY <1>4 DEF Crash, vars
<1>5. CASE Tick
  <2>1. age' \in [Task -> 0 .. MaxLag]
    <3>1. \A t \in Task : pc[t] \in Sampled => age[t] + 1 \in 0 .. MaxLag
      BY <1>5 DEF Tick
    <3>. QED
      BY <1>5, <3>1 DEF Tick
  <2>. QED
    BY <1>5, <2>1 DEF Tick
<1>. QED
  BY <1>1, <1>2, <1>3, <1>4, <1>5 DEF Next, Evaluate

LEMMA TtlsNext == Ttls /\ [Next]_vars => Ttls'
<1>. SUFFICES ASSUME Ttls, [Next]_vars PROVE Ttls'
  OBVIOUS
<1>. USE BreakerConstants DEF Ttls, keys, NoTtl
<1>1. ASSUME NEW t \in Task, Arrive(t) \/ Evaluate(t) \/ Fail(t) PROVE Ttls'
  <2>1. UNCHANGED <<open, winTtl>> \/ Zrem(t) \/ Expire(t) \/ Trip(t)
    BY <1>1 DEF Arrive, Evaluate, Fail, Duplicate, RateLimit, ObserveOpen, ObserveClosed, Zadd,
                ZcardTrips, ZcardPasses, Audit
  <2>. QED
    BY <2>1 DEF Zrem, Expire, WindowTtl, Trip, CooldownTtl
<1>2. CASE Crash \/ UNCHANGED vars
  BY <1>2 DEF Crash, vars
<1>3. CASE Tick
  BY <1>3 DEF Tick
<1>. QED
  BY <1>1, <1>2, <1>3 DEF Next

LEMMA CountsNext == Locals /\ Counts /\ [Next]_vars => Counts'
<1>. SUFFICES ASSUME Locals, Counts, [Next]_vars PROVE Counts'
  OBVIOUS
<1>1. \A t \in Task : age[t] \in Age
  BY BreakerConstants DEF Locals
<1>. USE DEF Counts, keys, history
<1>2. ASSUME NEW t \in Task, Arrive(t) \/ Evaluate(t) \/ Fail(t) PROVE Counts'
  <2>1. UNCHANGED <<entries, seen, passed>> \/ Zadd(t) \/ Zrem(t) \/ ZcardPasses(t)
    BY <1>2 DEF Arrive, Evaluate, Fail, Duplicate, RateLimit, ObserveOpen, ObserveClosed, Expire,
                ZcardTrips, Trip, Audit
  <2>2. CASE Zadd(t)
    <3>1. entries' \in [Age -> Nat]
      BY <1>1, <2>2 DEF Zadd
    <3>2. seen' \in [Age -> 0 .. Threshold + 1]
      BY <1>1, <2>2, BumpType DEF Zadd
    <3>. QED
      BY <2>2, <3>1, <3>2 DEF Zadd
  <2>3. CASE Zrem(t)
    BY <2>3 DEF Zrem
  <2>4. CASE ZcardPasses(t)
    BY <1>1, <2>4, BumpType DEF ZcardPasses
  <2>. QED
    BY <2>1, <2>2, <2>3, <2>4
<1>3. CASE Crash \/ UNCHANGED vars
  BY <1>3 DEF Crash, vars
<1>4. CASE Tick
  <2>1. entries' \in [Age -> Nat]
    BY <1>4, OlderType DEF Tick, None
  <2>2. seen \in [Age -> Nat] /\ passed \in [Age -> Nat]
    BY BreakerConstants
  <2>3. seen' \in [Age -> 0 .. Threshold + 1] /\ passed' \in [Age -> 0 .. Threshold + 1]
    BY <1>4, <2>2, OlderType, SaturateType DEF Tick
  <2>. QED
    BY <2>1, <2>3
<1>. QED
  BY <1>2, <1>3, <1>4 DEF Next

\* Types, for every number of evaluations.
THEOREM TypeCorrect == Spec => []TypeOK
BY TypedParts, TypedInit, LocalsNext, FlagsNext, TtlsNext, CountsNext, PTL DEF Spec

-----------------------------------------------------------------------------
(* Every opening is reported *)

Reporting(t) == pc[t] \in {"trip", "audit"}

LEMMA AuditedNext == Locals /\ Flags /\ OpenIsAudited /\ [Next]_vars => OpenIsAudited'
<1>. SUFFICES ASSUME Locals, OpenIsAudited, [Next]_vars, faults' = 0, open' > 0
              PROVE  audited' \/ \E t \in Task : Reporting(t)'
  BY DEF OpenIsAudited, Reporting
\* A fault is never forgotten.
<1>1. faults = 0
  <2>1. faults \in Nat
    BY BreakerConstants DEF Locals
  <2>2. faults' = faults \/ faults' = faults + 1
    BY DEF Next, Evaluate, Arrive, Duplicate, RateLimit, ObserveOpen, ObserveClosed, Zadd, Zrem,
           Expire, ZcardTrips, ZcardPasses, Trip, Audit, Fail, Crash, Tick, vars
  <2>. QED
    BY <2>1, <2>2
<1>2. ~Crash /\ \A t \in Task : ~Fail(t)
  BY <1>1 DEF Crash, Fail
<1>3. ASSUME NEW t \in Task, Trip(t) PROVE \E u \in Task : Reporting(u)'
  BY <1>3 DEF Trip, Goto, Locals, Reporting
<1>4. ASSUME NEW t \in Task, Audit(t) PROVE audited'
  BY <1>4 DEF Audit
\* Nothing else opens the breaker, takes back a report or ends a reporting task.
<1>5. CASE \A t \in Task : ~Trip(t) /\ ~Audit(t)
  <2>1. open > 0
    <3>1. open' = open \/ Tick
      BY <1>2, <1>5 DEF Next, Evaluate, Arrive, Duplicate, RateLimit, ObserveOpen, ObserveClosed,
         Zadd, Zrem, Expire, ZcardTrips, ZcardPasses, keys, vars
    <3>. QED
      BY <3>1 DEF Tick
  <2>2. audited' = audited
    BY <1>2, <1>5 DEF Next, Evaluate, Arrive, Duplicate, RateLimit, ObserveOpen, ObserveClosed,
       Zadd, Zrem, Expire, ZcardTrips, ZcardPasses, Tick, history, vars
  <2>3. ASSUME NEW t \in Task, Reporting(t) PROVE Reporting(t)'
    <3>1. \/ UNCHANGED pc
          \/ \E u \in Task : pc[u] \notin {"trip", "audit"} /\ \E l \in Label : Goto(u, l)
      BY <1>2, <1>5 DEF Next, Evaluate, Arrive, Duplicate, RateLimit, ObserveOpen, ObserveClosed,
         Zadd, Zrem, Expire, ZcardTrips, ZcardPasses, Tick, vars, Finish, Label, Sampled
    <3>. QED
      BY <2>3, <3>1 DEF Reporting, Goto, Locals
  <2>. QED
    BY <1>1, <2>1, <2>2, <2>3, Zenon DEF OpenIsAudited, Reporting
<1>. QED
  BY <1>3, <1>4, <1>5

\* As long as nothing failed every opening of the breaker is reported, or about
\* to be (circuit_breaker.py:5-6, middleware.py:139,153).
THEOREM OpeningsAudited == Spec => []OpenIsAudited
<1>1. Init => OpenIsAudited
  BY DEF Init, OpenIsAudited
<1>. QED
  BY <1>1, TypedInit, LocalsNext, FlagsNext, AuditedNext, PTL DEF Spec

-----------------------------------------------------------------------------
(* Counting the members of a sorted set *)

Recent == 0 .. Window - 1

LEMMA MembersAre ==
  ASSUME NEW f, NEW ages, NEW m
  PROVE  m \in Members(f, ages) <=> \E a \in ages : \E i \in 1 .. f[a] : m = <<a, i>>
BY DEF Members

LEMMA CountType ==
  ASSUME NEW f \in [Age -> Nat], NEW ages \in SUBSET Age
  PROVE  IsFiniteSet(Members(f, ages)) /\ Count(f, ages) \in Nat
<1>. DEFINE Of(a) == {a} \X (1 .. f[a])
            Sets  == {Of(a) : a \in ages}
            of    == [a \in ages |-> Of(a)]
<1>1. IsFiniteSet(Age)
  BY BreakerConstants, FS_Interval DEF Age, Oldest
<1>2. IsFiniteSet(ages)
  BY <1>1, FS_Subset
<1>3. of \in Surjection(ages, Sets)
  BY DEF Surjection
<1>4. IsFiniteSet(Sets)
  BY <1>2, <1>3, FS_Surjection, Zenon
<1>5. ASSUME NEW a \in ages PROVE IsFiniteSet(Of(a))
  <2>1. f[a] \in Int /\ 1 \in Int
    OBVIOUS
  <2>2. IsFiniteSet(1 .. f[a])
    BY <2>1, FS_Interval
  <2>. QED
    BY <2>2, FS_Singleton, FS_Product
<1>6. \A T \in Sets : IsFiniteSet(T)
  BY <1>5
<1>7. IsFiniteSet(UNION Sets)
  BY <1>4, <1>6, FS_UNION, Zenon
<1>8. IsFiniteSet(Members(f, ages))
  BY <1>7 DEF Members
<1>. QED
  BY <1>8, FS_CardinalityType DEF Count

LEMMA CountMonotone ==
  ASSUME NEW f \in [Age -> Nat], NEW g \in [Age -> Nat],
         NEW these \in SUBSET Age, NEW ages \in SUBSET Age,
         \A a \in these : f[a] > 0 => a \in ages /\ f[a] <= g[a]
  PROVE  Count(f, these) <= Count(g, ages)
<1>1. Members(f, these) \subseteq Members(g, ages)
  <2>. SUFFICES ASSUME NEW a \in these, NEW i \in 1 .. f[a]
                PROVE  <<a, i>> \in Members(g, ages)
    BY MembersAre
  <2>1. f[a] \in Nat /\ g[a] \in Nat /\ f[a] > 0
    OBVIOUS
  <2>2. a \in ages /\ i \in 1 .. g[a]
    BY <2>1
  <2>. QED
    BY <2>2, MembersAre
<1>2. Members(f, these) \in SUBSET Members(g, ages)
  BY <1>1
<1>. QED
  BY <1>2, CountType, FS_Subset, Zenon DEF Count

\* No window holds more a second later.
LEMMA CountOlder ==
  ASSUME NEW f \in [Age -> Nat]
  PROVE  Count(Saturate(Older(f)), Recent) <= Count(f, Recent)
<1>. DEFINE g     == Saturate(Older(f))
            old   == Members(f, Recent)
            new   == Members(g, Recent)
            shift == [m \in new |-> <<m[1] - 1, m[2]>>]
<1>1. Recent \in SUBSET Age
  BY BreakerConstants DEF Recent, Age, Oldest
<1>2. ASSUME NEW a \in Recent
      PROVE  /\ a = 0 => g[a] = 0
             /\ a # 0 => a - 1 \in Recent /\ g[a] <= f[a - 1]
  <2>1. a \in Age /\ a # Oldest /\ a \in Nat
    BY BreakerConstants DEF Recent, Age, Oldest
  <2>2. Older(f)[a] = IF a = 0 THEN 0 ELSE f[a - 1]
    BY <2>1 DEF Older
  <2>3. g[a] = IF Older(f)[a] > Threshold THEN Threshold + 1 ELSE Older(f)[a]
    BY <2>1 DEF Saturate
  <2>4. a # 0 => a - 1 \in Recent /\ f[a - 1] \in Nat
    BY <2>1, BreakerConstants DEF Recent
  <2>. QED
    BY <2>2, <2>3, <2>4, BreakerConstants
<1>. HIDE DEF g
<1>3. ASSUME NEW m \in new
      PROVE  /\ <<m[1] - 1, m[2]>> \in old
             /\ m = <<m[1], m[2]>> /\ m[1] \in Int
  <2>1. PICK a \in Recent : \E i \in 1 .. g[a] : m = <<a, i>>
    BY MembersAre
  <2>0. PICK i \in 1 .. g[a] : m = <<a, i>>
    BY <2>1
  <2>2. a \in Int /\ a # 0
    BY <1>2, <2>0 DEF Recent
  <2>3. a - 1 \in Recent /\ g[a] <= f[a - 1] /\ f[a - 1] \in Nat /\ g[a] \in Nat
    <3>1. Older(f) \in [Age -> Nat]
      BY OlderType
    <3>2. g[a] \in 0 .. Threshold + 1
      BY <1>1, <3>1, SaturateType DEF g
    <3>3. a - 1 \in Recent /\ g[a] <= f[a - 1]
      BY <1>2, <2>2
    <3>. QED
      BY <1>1, <3>2, <3>3, BreakerConstants
  <2>4. i \in 1 .. f[a - 1]
    BY <2>0, <2>3
  <2>5. <<a - 1, i>> \in old
    BY <2>3, <2>4, MembersAre
  <2>. QED
    BY <2>0, <2>2, <2>5
<1>. HIDE DEF old, new
<1>4. shift \in Injection(new, old)
  <2>1. shift \in [new -> old]
    BY <1>3
  <2>2. ASSUME NEW m \in new, NEW n \in new, shift[m] = shift[n]
        PROVE  m = n
    <3>1. <<m[1] - 1, m[2]>> = <<n[1] - 1, n[2]>>
      BY <2>2
    <3>2. m[1] - 1 = n[1] - 1 /\ m[2] = n[2]
      BY <3>1
    <3>3. /\ m[1] \in Int /\ n[1] \in Int
          /\ m = <<m[1], m[2]>> /\ n = <<n[1], n[2]>>
      BY <1>3, Zenon
    <3>4. m[1] = n[1]
      BY <3>2, <3>3
    <3>. QED
      BY <3>2, <3>3, <3>4, Zenon
  <2>. QED
    BY <2>1, <2>2, Zenon DEF Injection, IsInjective
<1>5. IsFiniteSet(old)
  BY <1>1, CountType DEF old
<1>6. Cardinality(new) <= Cardinality(old)
  BY <1>4, <1>5, FS_Injection, Zenon
<1>. QED
  BY <1>6 DEF Count, old, new, g

\* The evaluations whose entry was lost and would have age a by now.
SlippedAt(slip, a) == {t \in Task : slip[t] = a}

LEMMA SlippedFinite ==
  ASSUME NEW slip, NEW a
  PROVE  /\ IsFiniteSet(SlippedAt(slip, a)) /\ Cardinality(SlippedAt(slip, a)) \in Nat
         /\ ExistsBijection(1 .. Cardinality(SlippedAt(slip, a)), SlippedAt(slip, a))
<1>1. SlippedAt(slip, a) \in SUBSET Task
  BY DEF SlippedAt
<1>2. IsFiniteSet(SlippedAt(slip, a))
  BY <1>1, BreakerConstants, FS_Subset
<1>. QED
  BY <1>2, FS_CardinalityType

\* If f exceeds g by no more than the slips of each age, then it holds no more
\* than one member for each evaluation in addition to those of g.
LEMMA CountSlipped ==
  ASSUME NEW f \in [Age -> Nat], NEW g \in [Age -> Nat], NEW slip,
         \A a \in Recent : f[a] <= g[a] + Cardinality(SlippedAt(slip, a))
  PROVE  Count(f, Recent) <= Count(g, Recent) + Cardinality(Task)
<1>. DEFINE all   == Members(f, Recent)
            kept  == Members(g, Recent)
            extra == all \ kept
            size(a) == Cardinality(SlippedAt(slip, a))
            who   == [a \in Recent |-> CHOOSE b : b \in Bijection(1 .. size(a), SlippedAt(slip, a))]
            to    == [m \in extra |-> who[m[1]][m[2] - g[m[1]]]]
<1>1. Recent \in SUBSET Age
  BY BreakerConstants DEF Recent, Age, Oldest
<1>2. ASSUME NEW a \in Recent
      PROVE  /\ who[a] \in [1 .. size(a) -> SlippedAt(slip, a)]
             /\ \A i, j \in 1 .. size(a) : who[a][i] = who[a][j] => i = j
  <2>1. who[a] \in Bijection(1 .. size(a), SlippedAt(slip, a))
    BY SlippedFinite DEF ExistsBijection
  <2>. QED
    BY <2>1 DEF Bijection, Injection, IsInjective
<1>3. ASSUME NEW m \in extra
      PROVE  /\ m[1] \in Recent /\ m = <<m[1], m[2]>>
             /\ m[2] \in Int /\ g[m[1]] \in Int
             /\ m[2] - g[m[1]] \in 1 .. size(m[1])
  <2>1. PICK a \in Recent : \E i \in 1 .. f[a] : m = <<a, i>>
    BY MembersAre
  <2>2. PICK i \in 1 .. f[a] : m = <<a, i>>
    BY <2>1
  <2>3. ~(i \in 1 .. g[a])
    BY <2>2, MembersAre
  <2>4. f[a] \in Nat /\ g[a] \in Nat /\ size(a) \in Nat /\ f[a] <= g[a] + size(a)
    BY <1>1, SlippedFinite
  <2>. HIDE DEF size
  <2>5. i - g[a] \in 1 .. size(a) /\ i \in Int /\ g[a] \in Int
    BY <2>3, <2>4
  <2>. QED
    BY <2>2, <2>5
<1>. HIDE DEF extra, who, size
<1>4. ASSUME NEW m \in extra
      PROVE  /\ to[m] = who[m[1]][m[2] - g[m[1]]]
             /\ to[m] \in SlippedAt(slip, m[1])
  <2>1. to[m] = who[m[1]][m[2] - g[m[1]]]
    OBVIOUS
  <2>2. /\ who[m[1]] \in [1 .. size(m[1]) -> SlippedAt(slip, m[1])]
        /\ m[2] - g[m[1]] \in 1 .. size(m[1])
    BY <1>2, <1>3
  <2>. QED
    BY <2>1, <2>2
<1>5. ASSUME NEW m \in extra PROVE to[m] \in Task /\ slip[to[m]] = m[1]
  BY <1>4 DEF SlippedAt
<1>6. to \in Injection(extra, Task)
  <2>1. to \in [extra -> Task]
    BY <1>5
  <2>2. ASSUME NEW m \in extra, NEW n \in extra, to[m] = to[n]
        PROVE  m = n
    <3>1. m[1] = n[1]
      BY <1>5, <2>2
    <3>2. who[m[1]][m[2] - g[m[1]]] = who[m[1]][n[2] - g[m[1]]]
      BY <1>4, <2>2, <3>1, Zenon
    <3>3. /\ m[1] \in Recent
          /\ m[2] - g[m[1]] \in 1 .. size(m[1]) /\ n[2] - g[m[1]] \in 1 .. size(m[1])
      BY <1>3, <3>1, Zenon
    <3>4. m[2] - g[m[1]] = n[2] - g[m[1]]
      BY <1>2, <3>2, <3>3, Zenon
    <3>5. m[2] \in Int /\ n[2] \in Int /\ g[m[1]] \in Int
      BY <1>3, Zenon
    <3>6. m[2] = n[2]
      BY <3>4, <3>5
    <3>. QED
      BY <1>3, <3>1, <3>6, Zenon
  <2>. QED
    BY <2>1, <2>2, Zenon DEF Injection, IsInjective
<1>7. /\ IsFiniteSet(extra) /\ Cardinality(extra) <= Cardinality(Task)
      /\ Cardinality(extra) \in Nat /\ Cardinality(Task) \in Nat
  BY <1>6, BreakerConstants, FS_Injection, FS_CardinalityType, Zenon
<1>8. IsFiniteSet(all) /\ IsFiniteSet(kept) /\ Cardinality(all) \in Nat /\ Cardinality(kept) \in Nat
  BY <1>1, CountType DEF Count
<1>. HIDE DEF all, kept
<1>9. /\ Cardinality(extra) = Cardinality(all) - Cardinality(all \cap kept)
      /\ Cardinality(all \cap kept) <= Cardinality(kept)
      /\ Cardinality(all \cap kept) \in Nat
  BY <1>8, FS_Difference, FS_Intersection, FS_CardinalityType, Zenon DEF extra
<1>10. Cardinality(all) <= Cardinality(kept) + Cardinality(Task)
  BY <1>7, <1>8, <1>9
<1>. QED
  BY <1>10 DEF Count, all, kept

-----------------------------------------------------------------------------
(* The messages let through *)

\* A message is recorded from its ZADD to its ZCARD.
Recorded(t)   == pc[t] \in {"zremrangebyscore", "expire", "zcard"}
RecordedAt(a) == {t \in Task : Recorded(t) /\ age[t] = a}

\* Whatever was recorded within a window and let through, or will be judged, is
\* still in the sorted set, or was lost with its key: slip[t] is the age of the
\* entry that t lost last, if it lost one within the window.
Accounted(slip) ==
  \A a \in Recent : passed[a] + Cardinality(RecordedAt(a))
                      <= entries[a] + Cardinality(SlippedAt(slip, a))

\* If a lies within the window, the key lives until something of that age is ttl old.
LivesTo(a, ttl) == a < Window => winTtl = NoTtl \/ winTtl + a >= ttl

\* The key does not expire again before the entries it took are out of the window,
\* nor before what was counted is; without a lag it takes none.
SlipsOnce(slip) ==
  /\ \A t \in Task : LivesTo(slip[t], Window + 2)
  /\ prompt => \A t \in Task : slip[t] >= Window
CountedLive == \A t \in Task : pc[t] = "zcard" => LivesTo(age[t], Window + 1)
PassedLive  == \A a \in Age : passed[a] > 0 => LivesTo(a, Window + 1)

Typed == Locals /\ Flags /\ Ttls /\ Counts

Slips ==
  /\ \E slip \in [Task -> 1 .. Oldest] : Accounted(slip) /\ SlipsOnce(slip)
  /\ CountedLive /\ PassedLive

LEMMA RecordedFinite ==
  \A a : IsFiniteSet(RecordedAt(a)) /\ Cardinality(RecordedAt(a)) \in Nat
<1>. TAKE a
<1>1. RecordedAt(a) \in SUBSET Task
  BY DEF RecordedAt
<1>2. IsFiniteSet(RecordedAt(a))
  BY <1>1, BreakerConstants, FS_Subset
<1>. QED
  BY <1>2, FS_CardinalityType

LEMMA RecordedFiniteNext ==
  \A a : IsFiniteSet(RecordedAt(a)') /\ Cardinality(RecordedAt(a)') \in Nat
<1>. TAKE a
<1>1. RecordedAt(a)' \in SUBSET Task
  BY DEF RecordedAt
<1>2. IsFiniteSet(RecordedAt(a)')
  BY <1>1, BreakerConstants, FS_Subset
<1>. QED
  BY <1>2, FS_CardinalityType

\* A step that records and judges nothing, whatever evaluations it ends.
LEMMA AccountedLess ==
  ASSUME Typed, NEW slip, Accounted(slip), \A a \in Recent : entries'[a] = entries[a],
         passed' = passed,
         \A t \in Task : Recorded(t)' => Recorded(t) /\ age'[t] = age[t]
  PROVE  Accounted(slip)'
<1>. SUFFICES ASSUME NEW a \in Recent
              PROVE  passed'[a] + Cardinality(RecordedAt(a)')
                       <= entries'[a] + Cardinality(SlippedAt(slip, a))
  BY DEF Accounted, SlippedAt
<1>1. RecordedAt(a)' \in SUBSET RecordedAt(a)
  BY DEF RecordedAt
<1>2. Cardinality(RecordedAt(a)') <= Cardinality(RecordedAt(a))
  BY <1>1, RecordedFinite, FS_Subset, Zenon
<1>3. a \in Age /\ passed[a] \in Nat /\ entries[a] \in Nat
  BY BreakerConstants DEF Typed, Counts, Recent, Age, Oldest
<1>4. passed[a] + Cardinality(RecordedAt(a)) <= entries[a] + Cardinality(SlippedAt(slip, a))
  BY DEF Accounted
<1>. QED
  BY <1>2, <1>3, <1>4, RecordedFinite, RecordedFiniteNext, SlippedFinite

LEMMA AccountedZadd ==
  ASSUME Typed, NEW slip, Accounted(slip), NEW t \in Task, Zadd(t)
  PROVE  Accounted(slip)'
<1>. SUFFICES ASSUME NEW a \in Recent
              PROVE  passed'[a] + Cardinality(RecordedAt(a)')
                       <= entries'[a] + Cardinality(SlippedAt(slip, a))
  BY DEF Accounted, SlippedAt
<1>1. a \in Age /\ passed[a] \in Nat /\ entries[a] \in Nat /\ age[t] \in Age
  BY BreakerConstants DEF Typed, Counts, Locals, Recent, Age, Oldest
<1>2. /\ entries'[a] = IF a = age[t] THEN entries[a] + 1 ELSE entries[a]
      /\ passed' = passed
  BY <1>1 DEF Zadd, Typed, Counts
<1>3. RecordedAt(a)' = IF a = age[t] THEN RecordedAt(a) \cup {t} ELSE RecordedAt(a)
  BY DEF RecordedAt, Recorded, Zadd, Goto, Typed, Locals
<1>4. Cardinality(RecordedAt(a)') <= Cardinality(RecordedAt(a)) + IF a = age[t] THEN 1 ELSE 0
  <2>1. CASE a = age[t]
    <3>1. Cardinality(RecordedAt(a) \cup {t})
            = IF t \in RecordedAt(a) THEN Cardinality(RecordedAt(a))
              ELSE Cardinality(RecordedAt(a)) + 1
      BY RecordedFinite, FS_AddElement, Zenon
    <3>. QED
      BY <1>3, <2>1, <3>1, RecordedFinite
  <2>2. CASE a # age[t]
    BY <1>3, <2>2, RecordedFinite
  <2>. QED
    BY <2>1, <2>2
<1>5. passed[a] + Cardinality(RecordedAt(a)) <= entries[a] + Cardinality(SlippedAt(slip, a))
  BY DEF Accounted
<1>. QED
  BY <1>1, <1>2, <1>4, <1>5, RecordedFinite, RecordedFiniteNext, SlippedFinite

LEMMA AccountedPass ==
  ASSUME Typed, NEW slip, Accounted(slip), NEW t \in Task, ZcardPasses(t)
  PROVE  Accounted(slip)'
<1>. SUFFICES ASSUME NEW a \in Recent
              PROVE  passed'[a] + Cardinality(RecordedAt(a)')
                       <= entries'[a] + Cardinality(SlippedAt(slip, a))
  BY DEF Accounted, SlippedAt
<1>1. a \in Age /\ passed[a] \in Nat /\ entries[a] \in Nat /\ age[t] \in Age
  BY BreakerConstants DEF Typed, Counts, Locals, Recent, Age, Oldest
<1>2. /\ entries' = entries /\ passed'[a] \in Nat
      /\ passed'[a] <= IF a = age[t] THEN passed[a] + 1 ELSE passed[a]
  BY <1>1, BreakerConstants DEF ZcardPasses, keys, Bump, Typed, Counts
<1>3. RecordedAt(a)' = IF a = age[t] THEN RecordedAt(a) \ {t} ELSE RecordedAt(a)
  BY DEF RecordedAt, Recorded, ZcardPasses, Finish, Goto, Typed, Locals
<1>4. Cardinality(RecordedAt(a)') = Cardinality(RecordedAt(a)) - IF a = age[t] THEN 1 ELSE 0
  <2>1. CASE a = age[t]
    <3>1. t \in RecordedAt(a)
      BY <2>1 DEF RecordedAt, Recorded, ZcardPasses
    <3>2. Cardinality(RecordedAt(a) \ {t}) = Cardinality(RecordedAt(a)) - 1
      BY <3>1, RecordedFinite, FS_RemoveElement, Zenon
    <3>. QED
      BY <1>3, <2>1, <3>2
  <2>2. CASE a # age[t]
    BY <1>3, <2>2, RecordedFinite
  <2>. QED
    BY <2>1, <2>2
<1>5. passed[a] + Cardinality(RecordedAt(a)) <= entries[a] + Cardinality(SlippedAt(slip, a))
  BY DEF Accounted
<1>. QED
  BY <1>1, <1>2, <1>4, <1>5, RecordedFinite, RecordedFiniteNext, SlippedFinite

\* What a second does to the recent ages.
LEMMA TickRecent ==
  ASSUME Typed, Tick, NEW a \in Recent
  PROVE  /\ a \in Age /\ a < Window /\ Window <= Oldest
         /\ a = 0 => passed'[a] = 0 /\ RecordedAt(a)' = {}
         /\ a # 0 => /\ a - 1 \in Recent /\ a - 1 \in Age
                     /\ passed'[a] <= passed[a - 1]
                     /\ RecordedAt(a)' = RecordedAt(a - 1)
         /\ entries'[a] = IF winTtl = 1 \/ a = 0 THEN 0 ELSE entries[a - 1]
<1>1. /\ a \in Age /\ a < Window /\ Window <= Oldest /\ a # Oldest
      /\ a # 0 => a - 1 \in Recent /\ a - 1 \in Age
  BY BreakerConstants DEF Recent, Age, Oldest
<1>2. Older(passed)[a] = IF a = 0 THEN 0 ELSE passed[a - 1]
  BY <1>1 DEF Older
<1>3. passed' = Saturate(Older(passed))
  BY DEF Tick
<1>4. passed'[a] = IF Older(passed)[a] > Threshold THEN Threshold + 1 ELSE Older(passed)[a]
  BY <1>1, <1>3, Zenon DEF Saturate
<1>5. a # 0 => passed[a - 1] \in 0 .. Threshold + 1
  BY <1>1 DEF Typed, Counts
<1>6. entries'[a] = IF winTtl = 1 \/ a = 0 THEN 0 ELSE entries[a - 1]
  BY <1>1 DEF Tick, Older, None
<1>7. \A t \in Task : Recorded(t)' <=> Recorded(t)
  BY DEF Tick, Recorded
<1>8. \A t \in Task : Recorded(t) => age'[t] = age[t] + 1 /\ age[t] \in Nat
  BY BreakerConstants DEF Tick, Recorded, Sampled, Typed, Locals
<1>9. a \in Nat
  BY DEF Recent
<1>10. RecordedAt(a)' = IF a = 0 THEN {} ELSE RecordedAt(a - 1)
  <2>1. RecordedAt(a)' = {t \in Task : Recorded(t) /\ age[t] + 1 = a}
    BY <1>7, <1>8, <1>9 DEF RecordedAt
  <2>2. ASSUME NEW t \in Task, Recorded(t)
        PROVE  age[t] + 1 = a <=> a # 0 /\ age[t] = a - 1
    BY <1>8, <1>9, <2>2
  <2>. QED
    BY <2>1, <2>2 DEF RecordedAt
<1>. QED
  BY <1>1, <1>2, <1>4, <1>5, <1>6, <1>10, BreakerConstants

LEMMA SlipsTick ==
  ASSUME Typed, NEW slip \in [Task -> 1 .. Oldest], Accounted(slip), SlipsOnce(slip),
         CountedLive, PassedLive, Tick
  PROVE  Slips'
<1>1. /\ Window \in Nat \ {0} /\ Oldest \in Nat /\ MaxLag \in Nat
      /\ Window <= Oldest /\ MaxLag < Oldest
      /\ winTtl \in Nat
      /\ \A t \in Task : age[t] \in Nat /\ age[t] <= MaxLag
  BY BreakerConstants DEF Oldest, Typed, Ttls, Locals
<1>2. \A t \in Task : pc'[t] = pc[t] /\ (pc[t] \in Sampled => age'[t] = age[t] + 1)
  BY DEF Tick, Sampled
<1>3. winTtl' = IF winTtl = NoTtl \/ winTtl = 1 THEN NoTtl ELSE winTtl - 1
  BY DEF Tick
<1>4. CountedLive'
  <2>. SUFFICES ASSUME NEW t \in Task, pc[t] = "zcard", age'[t] < Window
                PROVE  winTtl' = NoTtl \/ winTtl' + age'[t] >= Window + 1
    BY <1>2 DEF CountedLive, LivesTo
  <2>1. age'[t] = age[t] + 1
    BY <1>2 DEF Sampled
  <2>2. LivesTo(age[t], Window + 1)
    BY DEF CountedLive
  <2>. QED
    BY <1>1, <1>3, <2>1, <2>2 DEF LivesTo
<1>5. PassedLive'
  <2>. SUFFICES ASSUME NEW a \in Age, passed'[a] > 0, a < Window
                PROVE  winTtl' = NoTtl \/ winTtl' + a >= Window + 1
    BY DEF PassedLive, LivesTo
  <2>1. a \in Recent /\ a \in Nat
    BY <1>1 DEF Age, Recent
  <2>2. a # 0 /\ a - 1 \in Age /\ passed'[a] <= passed[a - 1]
    BY <2>1, TickRecent
  <2>3. passed[a - 1] \in Nat /\ passed'[a] \in Nat
    <3>1. passed' \in [Age -> 0 .. Threshold + 1]
      <4>1. Older(passed) \in [Age -> Nat]
        BY BreakerConstants, OlderType DEF Typed, Counts
      <4>. QED
        BY <4>1, SaturateType DEF Tick
    <3>. QED
      BY <2>2, <3>1, BreakerConstants DEF Typed, Counts
  <2>4. LivesTo(a - 1, Window + 1)
    BY <2>2, <2>3 DEF PassedLive
  <2>. QED
    BY <1>1, <1>3, <2>1, <2>4 DEF LivesTo
\* The key expires: what was recorded and not judged is lost.
<1>6. CASE winTtl = 1
  <2>. PICK lost : lost = [t \in Task |-> IF Recorded(t) THEN age[t] + 1 ELSE Oldest]
    OBVIOUS
  <2>1. \A t \in Task : Recorded(t) => pc[t] \in Sampled
    BY DEF Recorded, Sampled
  <2>2. lost \in [Task -> 1 .. Oldest]
    <3>1. \A t \in Task : age[t] + 1 \in 1 .. Oldest /\ Oldest \in 1 .. Oldest
      BY <1>1
    <3>. QED
      BY <3>1
  <2>3. ASSUME NEW a \in Recent
        PROVE  passed'[a] + Cardinality(RecordedAt(a)')
                 <= entries'[a] + Cardinality(SlippedAt(lost, a))
    <3>1. a \in Age /\ a # Oldest /\ a \in Nat
      BY <1>1, TickRecent DEF Recent
    <3>2. RecordedAt(a)' = SlippedAt(lost, a)
      BY <1>2, <2>1, <3>1 DEF RecordedAt, SlippedAt, Recorded
    <3>3. passed'[a] <= 0 /\ passed'[a] \in Int
      <4>1. CASE a = 0
        BY <4>1, TickRecent
      <4>2. CASE a # 0
        <5>1. a - 1 \in Age /\ a - 1 < Window /\ passed'[a] <= passed[a - 1]
          BY <1>1, <3>1, <4>2, TickRecent DEF Recent
        <5>2. passed[a - 1] \in Nat /\ ~(passed[a - 1] > 0)
          BY <1>1, <1>6, <3>1, <4>2, <5>1, BreakerConstants
             DEF PassedLive, LivesTo, NoTtl, Typed, Counts, Recent
        <5>3. passed'[a] \in Nat
          <6>1. Older(passed) \in [Age -> Nat]
            BY BreakerConstants, OlderType DEF Typed, Counts
          <6>2. passed' \in [Age -> 0 .. Threshold + 1]
            BY <6>1, SaturateType DEF Tick
          <6>. QED
            BY <3>1, <6>2, BreakerConstants
        <5>. QED
          BY <5>1, <5>2, <5>3
      <4>. QED
        BY <4>1, <4>2
    <3>4. entries'[a] = 0
      BY <1>6, TickRecent
    <3>. QED
      BY <3>2, <3>3, <3>4, SlippedFinite
  <2>4. Accounted(lost)'
    BY <2>3 DEF Accounted, SlippedAt
  <2>5. SlipsOnce(lost)'
    <3>1. winTtl' = NoTtl
      BY <1>3, <1>6
    <3>2. prompt' => \A t \in Task : lost[t] >= Window
      <4>1. prompt' => \A t \in Task : pc[t] \notin Sampled
        BY Zenon DEF Tick
      <4>2. prompt' => \A t \in Task : lost[t] = Oldest
        BY <2>1, <4>1
      <4>. QED
        BY <1>1, <4>2
    <3>. QED
      BY <3>1, <3>2 DEF SlipsOnce, LivesTo
  <2>. QED
    BY <1>4, <1>5, <2>2, <2>4, <2>5 DEF Slips
\* Otherwise everything is a second older.
<1>7. CASE winTtl # 1
  <2>. PICK older : older = [t \in Task |-> IF slip[t] = Oldest THEN Oldest ELSE slip[t] + 1]
    OBVIOUS
  <2>1. older \in [Task -> 1 .. Oldest]
    <3>1. \A t \in Task : /\ Oldest \in 1 .. Oldest
                          /\ slip[t] # Oldest => slip[t] + 1 \in 1 .. Oldest
      BY <1>1
    <3>. QED
      BY <3>1
  <2>2. \A t \in Task : /\ slip[t] \in Nat /\ slip[t] <= Oldest
                        /\ older[t] = IF slip[t] = Oldest THEN Oldest ELSE slip[t] + 1
    BY <1>1
  <2>3. ASSUME NEW a \in Recent
        PROVE  passed'[a] + Cardinality(RecordedAt(a)')
                 <= entries'[a] + Cardinality(SlippedAt(older, a))
    <3>1. CASE a = 0
      <4>1. /\ passed'[a] = 0 /\ entries'[a] = 0 /\ Cardinality(RecordedAt(a)') = 0
        BY <3>1, TickRecent, FS_EmptySet
      <4>. QED
        BY <4>1, SlippedFinite
    <3>2. CASE a # 0
      <4>1. /\ a - 1 \in Recent /\ a - 1 \in Age /\ passed'[a] <= passed[a - 1]
            /\ RecordedAt(a)' = RecordedAt(a - 1)
            /\ entries'[a] = entries[a - 1]
            /\ a \in Nat /\ a < Oldest
        BY <1>1, <1>7, <3>2, TickRecent DEF Recent
      <4>2. SlippedAt(older, a) = SlippedAt(slip, a - 1)
        <5>1. \A t \in Task : older[t] = a <=> slip[t] = a - 1
          BY <1>1, <2>2, <4>1
        <5>. QED
          BY <5>1 DEF SlippedAt
      <4>3. passed[a - 1] + Cardinality(RecordedAt(a - 1))
              <= entries[a - 1] + Cardinality(SlippedAt(slip, a - 1))
        BY <4>1 DEF Accounted
      <4>4. passed'[a] \in Nat /\ passed[a - 1] \in Nat /\ entries[a - 1] \in Nat
        <5>1. Older(passed) \in [Age -> Nat]
          BY BreakerConstants, OlderType DEF Typed, Counts
        <5>2. passed' \in [Age -> 0 .. Threshold + 1]
          BY <5>1, SaturateType DEF Tick
        <5>. QED
          BY <4>1, <5>2, TickRecent, BreakerConstants DEF Typed, Counts
      <4>. QED
        BY <4>1, <4>2, <4>3, <4>4, RecordedFinite, SlippedFinite
    <3>. QED
      BY <3>1, <3>2
  <2>4. Accounted(older)'
    BY <2>3 DEF Accounted, SlippedAt
  <2>5. SlipsOnce(older)'
    <3>1. ASSUME NEW t \in Task, older[t] < Window
          PROVE  winTtl' = NoTtl \/ winTtl' + older[t] >= Window + 2
      <4>1. older[t] = slip[t] + 1 /\ slip[t] \in Nat /\ slip[t] < Window
        BY <1>1, <2>2, <3>1
      <4>2. winTtl = NoTtl \/ winTtl + slip[t] >= Window + 2
        BY <4>1 DEF SlipsOnce, LivesTo
      <4>. QED
        BY <1>1, <1>3, <1>7, <4>1, <4>2
    <3>2. prompt' => \A t \in Task : older[t] >= Window
      <4>1. prompt' => prompt
        BY Zenon DEF Tick
      <4>2. prompt => \A t \in Task : slip[t] >= Window
        BY DEF SlipsOnce
      <4>3. \A t \in Task : slip[t] >= Window => older[t] >= Window
        BY <1>1, <2>2
      <4>. QED
        BY <4>1, <4>2, <4>3, Zenon
    <3>. QED
      BY <3>1, <3>2 DEF SlipsOnce, LivesTo
  <2>. QED
    BY <1>4, <1>5, <2>1, <2>4, <2>5 DEF Slips
<1>. QED
  BY <1>6, <1>7

LEMMA SlipsInit == Init => Slips
<1>. SUFFICES ASSUME Init PROVE Slips
  OBVIOUS
<1>1. Window \in Nat \ {0} /\ Oldest \in Nat \ {0} /\ Window <= Oldest
  BY BreakerConstants DEF Oldest
<1>. DEFINE slip == [t \in Task |-> Oldest]
<1>2. slip \in [Task -> 1 .. Oldest]
  <2>1. Oldest \in 1 .. Oldest
    BY <1>1
  <2>. QED
    BY <2>1
<1>3. Accounted(slip)
  <2>1. \A a : RecordedAt(a) = {}
    BY DEF Init, RecordedAt, Recorded
  <2>2. \A a \in Recent : passed[a] = 0 /\ entries[a] = 0
    BY BreakerConstants DEF Init, None, Recent, Age, Oldest
  <2>3. \A a \in Recent : Cardinality(SlippedAt(slip, a)) \in Nat
    BY SlippedFinite
  <2>. QED
    BY <2>1, <2>2, <2>3, FS_EmptySet DEF Accounted
<1>4. SlipsOnce(slip)
  BY <1>1 DEF SlipsOnce, LivesTo
<1>5. CountedLive /\ PassedLive
  BY DEF CountedLive, PassedLive, Init, None
<1>. QED
  BY <1>2, <1>3, <1>4, <1>5 DEF Slips

\* Only a step of an evaluation that records or judges changes the accounts.
LEMMA SlipsStep ==
  ASSUME Typed, NEW slip \in [Task -> 1 .. Oldest], Accounted(slip), SlipsOnce(slip),
         CountedLive, PassedLive, [Next]_vars, ~Tick
  PROVE  Slips'
<1>. USE DEF keys, history
<1>1. Window \in Nat \ {0} /\ \A t \in Task : slip[t] \in Nat /\ slip[t] >= 1 /\ age[t] \in Nat
  BY BreakerConstants DEF Oldest, Typed, Locals
<1>2. prompt' = prompt
  BY DEF Next, Evaluate, Arrive, Duplicate, RateLimit, ObserveOpen, ObserveClosed, Zadd, Zrem,
         Expire, ZcardTrips, ZcardPasses, Trip, Audit, Fail, Crash, vars
\* The life of the key.
<1>3. winTtl' \in {winTtl, NoTtl, Window + 1}
  BY DEF Next, Evaluate, Arrive, Duplicate, RateLimit, ObserveOpen, ObserveClosed, Zadd, Zrem,
         Expire, WindowTtl, ZcardTrips, ZcardPasses, Trip, Audit, Fail, Crash, vars
<1>4. ASSUME NEW a \in Nat
      PROVE  /\ LivesTo(a, Window + 1) => LivesTo(a, Window + 1)'
             /\ a >= 1 /\ LivesTo(a, Window + 2) => LivesTo(a, Window + 2)'
  BY <1>1, <1>3 DEF LivesTo
<1>5. SlipsOnce(slip)'
  BY <1>1, <1>2, <1>4 DEF SlipsOnce
<1>6. CountedLive'
  <2>. SUFFICES ASSUME NEW t \in Task, pc'[t] = "zcard"
                PROVE  LivesTo(age[t], Window + 1)' /\ age'[t] = age[t]
    BY Zenon DEF CountedLive, LivesTo
  <2>1. age'[t] = age[t] /\ (pc[t] = "zcard" \/ Expire(t))
    BY DEF Next, Evaluate, Arrive, Duplicate, RateLimit, ObserveOpen, ObserveClosed, Zadd, Zrem,
         Expire, ZcardTrips, ZcardPasses, Trip, Audit, Fail, Crash, vars, Goto, Finish, Typed, Locals
  <2>2. CASE pc[t] = "zcard"
    BY <1>1, <1>4, <2>1, <2>2 DEF CountedLive
  <2>3. CASE Expire(t)
    BY <1>1, <2>1, <2>3 DEF Expire, WindowTtl, LivesTo
  <2>. QED
    BY <2>1, <2>2, <2>3
<1>7. PassedLive'
  <2>. SUFFICES ASSUME NEW a \in Age, passed'[a] > 0
                PROVE  LivesTo(a, Window + 1)'
    BY DEF PassedLive, LivesTo
  <2>0. a \in Nat /\ passed \in [Age -> 0 .. Threshold + 1]
    BY DEF Age, Typed, Counts
  <2>1. passed' = passed \/ \E t \in Task : ZcardPasses(t)
    BY DEF Next, Evaluate, Arrive, Duplicate, RateLimit, ObserveOpen, ObserveClosed, Zadd, Zrem,
         Expire, ZcardTrips, Trip, Audit, Fail, Crash, vars
  <2>2. LivesTo(a, Window + 1)
    <3>1. CASE passed[a] > 0
      BY <3>1 DEF PassedLive
    <3>2. ASSUME NEW t \in Task, ZcardPasses(t), ~(passed[a] > 0)
          PROVE  LivesTo(a, Window + 1)
      <4>1. a = age[t]
        BY <2>0, <3>2 DEF ZcardPasses, Bump
      <4>. QED
        BY <3>2, <4>1 DEF ZcardPasses, CountedLive
    <3>. QED
      BY <2>1, <3>1, <3>2
  <2>. QED
    BY <1>4, <2>0, <2>2
<1>8. Accounted(slip)'
  <2>1. CASE \E t \in Task : Zadd(t)
    BY <2>1, AccountedZadd
  <2>2. CASE \E t \in Task : ZcardPasses(t)
    BY <2>2, AccountedPass
  <2>3. CASE \A t \in Task : ~Zadd(t) /\ ~ZcardPasses(t)
    <3>1. passed' = passed
      BY <2>3 DEF Next, Evaluate, Arrive, Duplicate, RateLimit, ObserveOpen, ObserveClosed, Zrem,
         Expire, ZcardTrips, Trip, Audit, Fail, Crash, vars
    <3>2. \A a \in Recent : entries'[a] = entries[a]
      <4>1. entries' = entries \/ \E t \in Task : Zrem(t)
        BY <2>3 DEF Next, Evaluate, Arrive, Duplicate, RateLimit, ObserveOpen, ObserveClosed,
           Expire, ZcardTrips, Trip, Audit, Fail, Crash, vars
      <4>2. ASSUME NEW t \in Task, Zrem(t), NEW a \in Recent PROVE entries'[a] = entries[a]
        <5>1. a \in Age /\ a < Window /\ a \in Nat
          BY BreakerConstants DEF Recent, Age, Oldest
        <5>2. a \notin Pruned(t)
          BY <1>1, <5>1 DEF Pruned
        <5>. QED
          BY <4>2, <5>1, <5>2 DEF Zrem
      <4>. QED
        BY <4>1, <4>2
    <3>3. \A t \in Task : Recorded(t)' => Recorded(t) /\ age'[t] = age[t]
      BY <2>3 DEF Next, Evaluate, Arrive, Duplicate, RateLimit, ObserveOpen, ObserveClosed, Zrem,
         Expire, ZcardTrips, Trip, Audit, Fail, Crash, vars, Goto, Finish, Typed, Locals, Recorded
    <3>. QED
      BY <3>1, <3>2, <3>3, AccountedLess
  <2>. QED
    BY <2>1, <2>2, <2>3
<1>. QED
  BY <1>5, <1>6, <1>7, <1>8 DEF Slips

LEMMA SlipsNext == Typed /\ Slips /\ [Next]_vars => Slips'
<1>. SUFFICES ASSUME Typed, Slips, [Next]_vars PROVE Slips'
  OBVIOUS
<1>1. PICK slip \in [Task -> 1 .. Oldest] : Accounted(slip) /\ SlipsOnce(slip)
  BY DEF Slips
<1>2. CountedLive /\ PassedLive
  BY DEF Slips
<1>. QED
  BY <1>1, <1>2, SlipsTick, SlipsStep

\* The bounds are established by each message that is let through, from the
\* accounts, and time only makes a window emptier.
LEMMA BoundsNext ==
  Typed /\ Typed' /\ Slips' /\ QuietBound /\ LaggedBound /\ [Next]_vars
    => QuietBound' /\ LaggedBound'
<1>. SUFFICES ASSUME Typed, Typed', Slips', QuietBound, LaggedBound, [Next]_vars
              PROVE  QuietBound' /\ LaggedBound'
  OBVIOUS
<1>1. /\ passed \in [Age -> Nat] /\ passed' \in [Age -> Nat] /\ entries' \in [Age -> Nat]
      /\ Recent \in SUBSET Age /\ Age \in SUBSET Age
      /\ Threshold \in Nat /\ Cardinality(Task) \in Nat
  BY BreakerConstants, FS_CardinalityType DEF Typed, Counts, Recent, Age, Oldest
<1>2. /\ Count(passed, Recent) \in Nat /\ Count(passed', Recent) \in Nat
      /\ Count(entries', Recent) \in Nat /\ Count(entries', Age) \in Nat
  BY <1>1, CountType
<1>3. /\ Admitted = Count(passed, Recent) /\ Admitted' = Count(passed', Recent)
  BY DEF Admitted, Recent, Count, Members
<1>4. CASE \E t \in Task : ZcardPasses(t)
  <2>1. Count(entries', Age) <= Threshold /\ prompt' = prompt
    <3>1. entries' = entries /\ ~(Count(entries, Age) > Threshold) /\ prompt' = prompt
      BY <1>4 DEF ZcardPasses, Exceeds, keys
    <3>. QED
      BY <1>1, <1>2, <3>1
  <2>2. Count(entries', Recent) <= Count(entries', Age)
    <3>1. \A a \in Recent : entries'[a] > 0 => a \in Age /\ entries'[a] <= entries'[a]
      BY <1>1
    <3>. QED
      BY <1>1, <3>1, CountMonotone
  <2>3. PICK slip \in [Task -> 1 .. Oldest] : Accounted(slip)' /\ SlipsOnce(slip)'
    BY DEF Slips
  <2>4. ASSUME NEW a \in Recent
        PROVE  passed'[a] <= entries'[a] + Cardinality(SlippedAt(slip, a))
    <3>1. passed'[a] + Cardinality(RecordedAt(a)')
            <= entries'[a] + Cardinality(SlippedAt(slip, a))
      BY <2>3 DEF Accounted, SlippedAt
    <3>2. passed'[a] \in Nat /\ entries'[a] \in Nat
      BY <1>1
    <3>. QED
      BY <3>1, <3>2, RecordedFiniteNext, SlippedFinite
  <2>5. LaggedBound'
    <3>1. Count(passed', Recent) <= Count(entries', Recent) + Cardinality(Task)
      BY <1>1, <2>4, CountSlipped
    <3>. QED
      BY <1>1, <1>2, <1>3, <2>1, <2>2, <3>1 DEF LaggedBound
  <2>6. QuietBound'
    <3>. SUFFICES ASSUME prompt'
                  PROVE  Count(passed', Recent) <= Threshold
      BY <1>3 DEF QuietBound
    <3>1. \A t \in Task : slip[t] >= Window
      BY <2>3 DEF SlipsOnce
    <3>2. ASSUME NEW a \in Recent
          PROVE  a \in Recent /\ passed'[a] <= entries'[a]
      <4>1. \A t \in Task : slip[t] # a
        BY <3>1, BreakerConstants DEF Recent, Oldest
      <4>2. Cardinality(SlippedAt(slip, a)) = 0
        BY <4>1, FS_EmptySet DEF SlippedAt
      <4>3. passed'[a] <= entries'[a] + 0
        BY <2>4, <4>2
      <4>. QED
        BY <1>1, <4>3
    <3>3. Count(passed', Recent) <= Count(entries', Recent)
      BY <1>1, <3>2, CountMonotone
    <3>. QED
      BY <1>1, <1>2, <2>1, <2>2, <3>3
  <2>. QED
    BY <2>5, <2>6
<1>5. CASE \A t \in Task : ~ZcardPasses(t)
  <2>1. prompt' => prompt
    BY <1>5, Zenon DEF Next, Evaluate, Arrive, Duplicate, RateLimit, ObserveOpen, ObserveClosed,
       Zadd, Zrem, Expire, ZcardTrips, Trip, Audit, Fail, Crash, Tick, vars, history
  <2>2. passed' = passed \/ passed' = Saturate(Older(passed))
    BY <1>5, Zenon DEF Next, Evaluate, Arrive, Duplicate, RateLimit, ObserveOpen, ObserveClosed,
       Zadd, Zrem, Expire, ZcardTrips, Trip, Audit, Fail, Crash, Tick, vars, history
  <2>3. Count(passed', Recent) <= Count(passed, Recent)
    BY <1>1, <1>2, <2>2, CountOlder
  <2>. QED
    BY <1>1, <1>2, <1>3, <2>1, <2>3 DEF QuietBound, LaggedBound
<1>. QED
  BY <1>4, <1>5

BreakerInv == Typed /\ Slips /\ QuietBound /\ LaggedBound

LEMMA BreakerInvariant == Spec => []BreakerInv
<1>1. Init => BreakerInv
  <2>. SUFFICES ASSUME Init PROVE QuietBound /\ LaggedBound
    BY TypedInit, SlipsInit DEF BreakerInv, Typed
  <2>1. Members(passed, Recent) = {}
    <3>1. \A a \in Recent : passed[a] = 0
      BY BreakerConstants DEF Init, None, Recent, Age, Oldest
    <3>. QED
      BY <3>1, MembersAre
  <2>2. Admitted = 0
    BY <2>1, FS_EmptySet DEF Admitted, Count, Recent
  <2>3. Threshold \in Nat /\ Cardinality(Task) \in Nat
    BY BreakerConstants, FS_CardinalityType
  <2>. QED
    BY <2>2, <2>3 DEF QuietBound, LaggedBound
<1>2. BreakerInv /\ [Next]_vars => BreakerInv'
  BY LocalsNext, FlagsNext, TtlsNext, CountsNext, SlipsNext, BoundsNext DEF BreakerInv, Typed
<1>. QED
  BY <1>1, <1>2, PTL DEF Spec

\* Without a lag no window holds more than cb_threshold messages judged CLOSED,
\* for any number of evaluations in any order (circuit_breaker.py:3-4,66-76).
THEOREM QuietBoundHolds == Spec => []QuietBound
  BY BreakerInvariant, PTL DEF BreakerInv

\* A lag of any length costs at most one message for each evaluation that is under
\* way (circuit_breaker.py:64-71).
THEOREM LaggedBoundHolds == Spec => []LaggedBound
  BY BreakerInvariant, PTL DEF BreakerInv

-----------------------------------------------------------------------------
(* No trip without a reason *)

\* After its own prune an evaluation meets no entry older than its window: others
\* only add entries that are younger, if no lag is as long as the window.
Pruning ==
  \A t \in Task : pc[t] \in {"expire", "zcard"} =>
    \A a \in Age : a >= age[t] + Window => entries[a] = 0

\* Every entry is a recorded message.
Seen == \A a \in Age : a # Oldest => entries[a] <= seen[a] \/ seen[a] = Threshold + 1

LEMMA PruningNext == Typed /\ MaxLag < Window /\ Pruning /\ [Next]_vars => Pruning'
<1>. SUFFICES ASSUME Typed, MaxLag < Window, Pruning, [Next]_vars,
                     NEW t \in Task, pc'[t] \in {"expire", "zcard"},
                     NEW a \in Age, a >= age'[t] + Window
              PROVE  entries'[a] = 0
  BY DEF Pruning
<1>. USE DEF keys, history
<1>1. /\ Window \in Nat \ {0} /\ MaxLag \in Nat /\ Oldest = Window + MaxLag /\ a \in 0 .. Oldest
      /\ \A u \in Task : age[u] \in Nat /\ age[u] <= MaxLag /\ age[u] \in Age
  BY BreakerConstants DEF Oldest, Age, Typed, Locals
<1>2. CASE Tick
  <2>1. pc[t] \in {"expire", "zcard"} /\ age'[t] = age[t] + 1
    BY <1>2 DEF Tick, Sampled
  <2>2. a # 0 /\ a - 1 \in Age /\ a - 1 >= age[t] + Window
    BY <1>1, <2>1, BreakerConstants
  <2>3. entries[a - 1] = 0 /\ entries[a] = 0
    BY <1>1, <2>1, <2>2 DEF Pruning
  <2>. QED
    BY <1>2, <2>2, <2>3 DEF Tick, Older, None
<1>3. CASE ~Tick
  <2>1. age'[t] = age[t]
    BY <1>3 DEF Next, Evaluate, Arrive, Duplicate, RateLimit, ObserveOpen, ObserveClosed, Zadd, Zrem,
       Expire, ZcardTrips, ZcardPasses, Trip, Audit, Fail, Crash, vars, Goto, Finish, Typed, Locals
  <2>2. CASE Zrem(t)
    BY <2>1, <2>2 DEF Zrem, Pruned
  <2>3. CASE ~Zrem(t)
    <3>1. pc[t] \in {"expire", "zcard"}
      BY <1>3, <2>3 DEF Next, Evaluate, Arrive, Duplicate, RateLimit, ObserveOpen, ObserveClosed,
         Zadd, Zrem, Expire, ZcardTrips, ZcardPasses, Trip, Audit, Fail, Crash, vars, Goto, Finish,
         Typed, Locals
    <3>2. entries[a] = 0
      BY <2>1, <3>1 DEF Pruning
    <3>3. entries' = entries \/ \E u \in Task : Zadd(u) \/ Zrem(u)
      BY <1>3 DEF Next, Evaluate, Arrive, Duplicate, RateLimit, ObserveOpen, ObserveClosed,
         Expire, ZcardTrips, ZcardPasses, Trip, Audit, Fail, Crash, vars
    <3>4. ASSUME NEW u \in Task, Zadd(u) PROVE entries'[a] = entries[a]
      <4>1. a # age[u]
        BY <1>1, <2>1
      <4>. QED
        BY <3>4, <4>1 DEF Zadd, Typed, Counts
    <3>5. ASSUME NEW u \in Task, Zrem(u) PROVE entries'[a] = 0
      BY <3>2, <3>5 DEF Zrem
    <3>. QED
      BY <3>2, <3>3, <3>4, <3>5
  <2>. QED
    BY <2>2, <2>3
<1>. QED
  BY <1>2, <1>3

LEMMA SeenNext == Typed /\ Seen /\ [Next]_vars => Seen'
<1>. SUFFICES ASSUME Typed, Seen, [Next]_vars, NEW a \in Age, a # Oldest
              PROVE  entries'[a] <= seen'[a] \/ seen'[a] = Threshold + 1
  BY DEF Seen
<1>. USE DEF keys, history
<1>1. /\ Threshold \in Nat /\ \A b \in Age : entries[b] \in Nat /\ seen[b] \in 0 .. Threshold + 1
      /\ \A u \in Task : age[u] \in Age
      /\ a # 0 => a - 1 \in Age /\ a - 1 # Oldest /\ a \in Nat
  BY BreakerConstants DEF Typed, Counts, Locals, Age, Oldest
<1>2. entries[a] <= seen[a] \/ seen[a] = Threshold + 1
  BY DEF Seen
<1>3. CASE UNCHANGED <<entries, seen>>
  BY <1>2, <1>3
<1>4. ASSUME NEW t \in Task, Zadd(t)
      PROVE  entries'[a] <= seen'[a] \/ seen'[a] = Threshold + 1
  <2>1. /\ entries'[a] = IF a = age[t] THEN entries[a] + 1 ELSE entries[a]
        /\ seen'[a] = IF a = age[t] /\ ~(seen[a] > Threshold) THEN seen[a] + 1 ELSE seen[a]
    BY <1>4 DEF Zadd, Bump, Typed, Counts
  <2>. QED
    BY <1>1, <1>2, <2>1
<1>5. ASSUME NEW t \in Task, Zrem(t)
      PROVE  entries'[a] <= seen'[a] \/ seen'[a] = Threshold + 1
  <2>1. seen' = seen /\ (entries'[a] = entries[a] \/ entries'[a] = 0)
    BY <1>5 DEF Zrem
  <2>. QED
    BY <1>1, <1>2, <2>1
<1>6. CASE Tick
  <2>1. Older(seen)[a] = (IF a = 0 THEN 0 ELSE seen[a - 1])
    BY DEF Older
  <2>2. seen'[a] = IF Older(seen)[a] > Threshold THEN Threshold + 1 ELSE Older(seen)[a]
    BY <1>6 DEF Tick, Saturate
  <2>3. entries'[a] = IF winTtl = 1 \/ a = 0 THEN 0 ELSE entries[a - 1]
    BY <1>6 DEF Tick, Older, None
  <2>4. a # 0 => entries[a - 1] <= seen[a - 1] \/ seen[a - 1] = Threshold + 1
    BY <1>1 DEF Seen
  <2>. QED
    BY <1>1, <2>1, <2>2, <2>3, <2>4
<1>7. \/ UNCHANGED <<entries, seen>>
      \/ \E t \in Task : Zadd(t) \/ Zrem(t)
      \/ Tick
  BY DEF Next, Evaluate, Arrive, Duplicate, RateLimit, ObserveOpen, ObserveClosed,
     Expire, ZcardTrips, ZcardPasses, Trip, Audit, Fail, Crash, vars
<1>. QED
  BY <1>3, <1>4, <1>5, <1>6, <1>7

LEMMA TripsForAReason ==
  ASSUME Typed, MaxLag < Window, Pruning, Seen, NEW t \in Task, pc[t] = "zcard", Exceeds
  PROVE  Count(seen, 0 .. Oldest - 1) > Threshold
<1>. DEFINE ages == 0 .. Oldest - 1
<1>1. /\ entries \in [Age -> Nat] /\ seen \in [Age -> Nat] /\ ages \in SUBSET Age
      /\ Threshold \in Nat /\ Oldest \in Age /\ Age \in SUBSET Age
      /\ \A a \in Age : a \in ages <=> a # Oldest
  BY BreakerConstants DEF Typed, Counts, Age, Oldest
<1>2. Count(entries, Age) > Threshold /\ Count(entries, Age) \in Nat /\ Count(seen, ages) \in Nat
  BY <1>1, CountType DEF Exceeds
<1>3. CASE \E a \in ages : seen[a] = Threshold + 1
  <2>1. PICK a \in ages : seen[a] = Threshold + 1
    BY <1>3
  <2>. DEFINE most == Threshold + 1
              row  == 1 .. most
              held == Members(seen, ages)
              to   == [i \in row |-> <<a, i>>]
  <2>2. most \in Int /\ 1 \in Int /\ ~(1 > most) /\ most - 1 + 1 = Threshold + 1
    BY <1>1
  <2>3. Cardinality(row) = Threshold + 1
    <3>. HIDE DEF most
    <3>1. Cardinality(1 .. most) = IF 1 > most THEN 0 ELSE most - 1 + 1
      BY <2>2, FS_Interval
    <3>. QED
      BY <2>2, <3>1
  <2>4. \A i \in row : <<a, i>> \in held
    <3>1. row = 1 .. seen[a]
      BY <2>1
    <3>. QED
      BY <3>1, MembersAre, Zenon
  <2>5. IsFiniteSet(held)
    BY <1>1, CountType
  <2>. HIDE DEF row, held
  <2>6. to \in Injection(row, held)
    BY <2>4 DEF Injection, IsInjective
  <2>7. Cardinality(row) <= Cardinality(held)
    BY <2>5, <2>6, FS_Injection, Zenon
  <2>8. Cardinality(held) = Count(seen, ages)
    BY DEF Count, held
  <2>. HIDE DEF ages
  <2>. QED
    BY <1>1, <1>2, <2>3, <2>7, <2>8 DEF ages
<1>4. CASE \A a \in ages : seen[a] # Threshold + 1
  <2>1. entries[Oldest] = 0
    <3>1. age[t] \in Nat /\ age[t] <= MaxLag /\ MaxLag \in Nat /\ Window \in Nat
      BY BreakerConstants DEF Typed, Locals
    <3>2. Oldest >= age[t] + Window
      BY <3>1 DEF Oldest
    <3>. QED
      BY <1>1, <3>2 DEF Pruning
  <2>2. \A a \in Age : entries[a] > 0 => a \in ages /\ entries[a] <= seen[a]
    BY <1>1, <1>4, <2>1 DEF Seen
  <2>3. Count(entries, Age) <= Count(seen, ages)
    BY <1>1, <2>2, CountMonotone
  <2>. QED
    BY <1>1, <1>2, <2>3
<1>. QED
  BY <1>3, <1>4

\* The breaker trips only on more than cb_threshold messages recorded within the
\* window and the lag, if no lag is as long as the window: otherwise an entry
\* added late by one evaluation may grow older than that before another counts
\* it (circuit_breaker.py:69,73).
THEOREM TripJustifiedHolds ==
  ASSUME MaxLag < Window
  PROVE  Spec => TripJustified
<1>1. Init => Pruning /\ Seen
  BY BreakerConstants DEF Init, Pruning, Seen, None
<1>2. Typed /\ Pruning /\ Seen /\ [Next]_vars
        => [\A t \in Task : pc[t] = "zcard" /\ pc'[t] = "trip"
              => Count(seen, 0 .. Oldest - 1) > Threshold]_vars
  <2>. SUFFICES ASSUME Typed, Pruning, Seen, [Next]_vars,
                       NEW t \in Task, pc[t] = "zcard", pc'[t] = "trip"
                PROVE  Count(seen, 0 .. Oldest - 1) > Threshold
    OBVIOUS
  <2>1. Exceeds
    BY DEF Next, Evaluate, Arrive, Duplicate, RateLimit, ObserveOpen, ObserveClosed, Zadd, Zrem,
       Expire, ZcardTrips, ZcardPasses, Trip, Audit, Fail, Crash, Tick, vars, Goto, Finish,
       Typed, Locals
  <2>. QED
    BY <2>1, TripsForAReason
<1>. QED
  BY <1>1, <1>2, BreakerInvariant, PruningNext, SeenNext, PTL DEF Spec, BreakerInv, TripJustified
=============================================================================
