------------------------- MODULE BucketScriptProofs -------------------------
(***************************************************************************)
(* What one run of the token-bucket script does to any hash, at any        *)
(* capacity and rate and however the doubles round, why its key may expire,*)
(* and that its wait is right to a millisecond.                            *)
(***************************************************************************)
EXTENDS BucketScript, TLAPS

\* The units that a run hands out.
Paid(run) == IF run.allowed THEN Unit ELSE 0

\* A hash that the script can have left, or none.
IsBucket(bucket, capacity) ==
  /\ bucket \in [exists : BOOLEAN, tokens : Nat, ts : Nat]
  /\ bucket.tokens <= capacity * Unit

\* The quotient of the TTL, a hair short or not, is within one of the exact one.
LEMMA RefillSecondsBounds ==
  ASSUME NEW capacity \in Nat, NEW rate \in Nat, NEW hair \in Hair
  PROVE  LET full == 200 * Grain * capacity
             base == Larger(rate, 2 * Grain)
             q    == RefillSeconds(capacity, rate, hair)
         IN  /\ full \in Nat /\ base \in Nat \ {0} /\ q \in Int
             /\ full <= base * (q + 1)
             /\ rate <= 2 * Grain => q = 100 * capacity
<1>. DEFINE full == 200 * Grain * capacity
            base == Larger(rate, 2 * Grain)
            cut  == IF rate > 2 * Grain THEN hair ELSE 0
            sum  == full - cut
            q    == RefillSeconds(capacity, rate, hair)
<1>1. Grain \in Nat \ {0} /\ cut \in {0, 1}
  BY GrainAssumption DEF Hair
<1>2. full \in Nat /\ full = (2 * Grain) * (100 * capacity)
  BY <1>1, Z3
<1>3. base \in Nat \ {0} /\ sum \in Int
  BY <1>1, <1>2 DEF Larger
<1>4. q = sum \div base
  BY DEF RefillSeconds
<1>5. q \in Int /\ base * q <= sum /\ sum < base * (q + 1)
  <2>. HIDE DEF base, sum, q
  <2>. QED
    BY <1>3, <1>4, Z3
<1>6. base * (q + 1) \in Int
  <2>. HIDE DEF base, q
  <2>. QED
    BY <1>3, <1>5, Z3
<1>7. full <= base * (q + 1)
  <2>. DEFINE product == base * (q + 1)
  <2>. HIDE DEF base, q, product, full, cut
  <2>1. product \in Int /\ full - cut < product
    BY <1>5, <1>6 DEF product
  <2>. QED
    BY <1>1, <1>2, <2>1 DEF product
<1>8. ASSUME rate <= 2 * Grain PROVE q = 100 * capacity
  <2>1. base = 2 * Grain /\ cut = 0
    BY <1>1, <1>8 DEF Larger
  <2>2. /\ (2 * Grain) * q <= (2 * Grain) * (100 * capacity)
        /\ (2 * Grain) * (100 * capacity) < (2 * Grain) * (q + 1)
    BY <1>2, <1>5, <2>1
  <2>. DEFINE b == 2 * Grain
              p == 100 * capacity
  <2>3. b \in Nat \ {0} /\ p \in Nat /\ q \in Int /\ b * q <= b * p /\ b * p < b * (q + 1)
    BY <1>1, <1>5, <2>2
  <2>. HIDE DEF b, p, q
  <2>4. q <= p /\ p < q + 1
    BY <2>3, Z3
  <2>. QED
    BY <2>3, <2>4 DEF p
<1>. QED
  BY <1>2, <1>3, <1>5, <1>7, <1>8

LEMMA TtlType ==
  ASSUME NEW capacity \in Nat, NEW rate \in Nat, NEW hair \in Hair
  PROVE  IdleTtl(capacity, rate, hair) \in Nat
<1>1. RefillSeconds(capacity, rate, hair) \in Int
  BY RefillSecondsBounds
<1>. QED
  BY <1>1 DEF IdleTtl, Larger

\* At its effective rate an idle bucket is full again before its key expires,
\* whatever its rate.
LEMMA TtlCoversRefill ==
  ASSUME NEW capacity \in Nat, NEW rate \in Nat, NEW hair \in Hair,
         NEW d \in Nat, d >= IdleTtl(capacity, rate, hair)
  PROVE  capacity * Unit <= EffectiveRate(rate) * d
<1>. DEFINE full == 200 * Grain * capacity
            base == Larger(rate, 2 * Grain)
            q    == RefillSeconds(capacity, rate, hair)
            er   == EffectiveRate(rate)
<1>1. /\ full \in Nat /\ base \in Nat \ {0} /\ q \in Int
      /\ full <= base * (q + 1)
      /\ rate <= 2 * Grain => q = 100 * capacity
  BY RefillSecondsBounds
<1>2. Grain \in Nat \ {0} /\ er \in Nat \ {0} /\ er >= Grain
  BY GrainAssumption DEF EffectiveRate, Larger
<1>3. capacity * Unit = 1000 * full
  <2>1. capacity * (200 * Grain * 1000) = 1000 * (200 * Grain * capacity)
    BY <1>2, Z3
  <2>. QED
    BY <2>1 DEF Unit
<1>4. IdleTtl(capacity, rate, hair) = 1000 * Larger(60, 2 * q)
  BY DEF IdleTtl
<1>. HIDE DEF q
<1>5. d >= 1000 * 60 /\ d >= 1000 * (2 * q)
  BY <1>1, <1>4 DEF Larger
<1>6. er * d \in Nat
  <2>. HIDE DEF er
  <2>. QED
    BY <1>2, Z3
<1>7. CASE rate <= 2 * Grain
  <2>1. d >= 1000 * (2 * (100 * capacity))
    BY <1>1, <1>5, <1>7
  <2>2. er * d >= Grain * (1000 * (2 * (100 * capacity)))
    <3>. DEFINE low == 1000 * (2 * (100 * capacity))
    <3>1. low \in Nat /\ d >= low
      BY <2>1
    <3>. HIDE DEF low, er
    <3>2. er * d >= er * low /\ er * low >= Grain * low
      BY <1>2, <3>1, Z3
    <3>3. er * low \in Int /\ Grain * low \in Int
      BY <1>2, <3>1, Z3
    <3>4. er * d >= Grain * low
      <4>. DEFINE x == er * d
                  y == er * low
                  z == Grain * low
      <4>1. x \in Int /\ y \in Int /\ z \in Int /\ x >= y /\ y >= z
        BY <1>6, <3>2, <3>3
      <4>. HIDE DEF x, y, z
      <4>2. x >= z
        BY <4>1
      <4>. QED
        BY <4>2 DEF x, z
    <3>. QED
      BY <3>4 DEF low
  <2>3. Grain * (1000 * (2 * (100 * capacity))) = 1000 * (200 * Grain * capacity)
    BY <1>2, Z3
  <2>. QED
    BY <1>3, <2>2, <2>3
<1>8. CASE ~(rate <= 2 * Grain)
  <2>1. base = rate /\ er = rate
    BY <1>2, <1>8 DEF Larger, EffectiveRate
  <2>2. d >= 1000 * (q + 1)
    <3>1. CASE q >= 1
      BY <1>1, <1>5, <3>1
    <3>2. CASE ~(q >= 1)
      BY <1>1, <1>5, <3>2
    <3>. QED
      BY <3>1, <3>2
  <2>. DEFINE k == q + 1
              goal == 1000 * full
  <2>3. k \in Int /\ rate * k >= full /\ d >= 1000 * k
    BY <1>1, <2>1, <2>2
  <2>. HIDE DEF k, full
  <2>4. rate * d >= rate * (1000 * k) /\ rate * (1000 * k) = 1000 * (rate * k)
    BY <2>3, Z3
  <2>5. rate * k \in Int /\ rate * d \in Int
    BY <2>3, Z3
  <2>. QED
    BY <1>1, <1>3, <2>1, <2>3, <2>4, <2>5
<1>. QED
  BY <1>7, <1>8

\* What a run computes: the exact sum, and the level the code reads from it.
LEMMA Levels ==
  ASSUME NEW capacity \in Nat, NEW rate \in Nat, NEW bucket, IsBucket(bucket, capacity),
         NEW t \in Nat, NEW hair \in Hair
  PROVE  LET full   == capacity * Unit
             filled == Filled(bucket, capacity, rate, t)
             cut    == Short(bucket, hair)
             level  == Level(bucket, capacity, rate, t)
             read   == LevelRead(bucket, capacity, rate, t, hair)
         IN  /\ full \in Nat /\ Unit \in Nat \ {0} /\ cut \in {0, 1}
             /\ filled \in Nat
             /\ filled = Balance(bucket, capacity) + rate * Elapsed(bucket, t)
             /\ rate * Elapsed(bucket, t) \in Nat
             /\ level = Smaller(filled, full) /\ read = Smaller(filled - cut, full)
             /\ level \in 0 .. full /\ read \in Int /\ read <= level
<1>. DEFINE full == capacity * Unit
            e    == Elapsed(bucket, t)
            gain == rate * e
            held == Balance(bucket, capacity)
            cut  == Short(bucket, hair)
<1>1. full \in Nat /\ Unit \in Nat \ {0}
  <2>1. Unit \in Nat \ {0}
    BY GrainAssumption DEF Unit
  <2>. QED
    BY <2>1, Z3
<1>2. bucket.exists \in BOOLEAN /\ bucket.tokens \in 0 .. full /\ bucket.ts \in Nat
  BY <1>1 DEF IsBucket
<1>3. e \in Nat
  BY <1>2 DEF Elapsed, Larger
<1>4. gain \in Nat
  <2>. HIDE DEF e
  <2>. QED
    BY <1>3, Z3
<1>5. held \in 0 .. full /\ cut \in {0, 1}
  BY <1>1, <1>2 DEF Balance, Short, Hair
<1>6. /\ Filled(bucket, capacity, rate, t) = held + gain
      /\ Level(bucket, capacity, rate, t) = Smaller(held + gain, full)
      /\ LevelRead(bucket, capacity, rate, t, hair) = Smaller(held + gain - cut, full)
  <2>1. Filled(bucket, capacity, rate, t) = held + gain
    BY Zenon DEF Filled
  <2>2. /\ Level(bucket, capacity, rate, t) = Smaller(Filled(bucket, capacity, rate, t), full)
        /\ LevelRead(bucket, capacity, rate, t, hair)
             = Smaller(Filled(bucket, capacity, rate, t) - cut, full)
    BY Zenon DEF Level, LevelRead
  <2>. HIDE DEF held, gain, cut, full
  <2>. QED
    BY <1>4, <1>5, <2>1, <2>2
<1>. HIDE DEF full, gain, held, cut
<1>7. /\ held + gain \in Nat
      /\ Smaller(held + gain, full) \in 0 .. full
      /\ Smaller(held + gain - cut, full) \in Int
      /\ Smaller(held + gain - cut, full) <= Smaller(held + gain, full)
  BY <1>1, <1>4, <1>5 DEF Smaller
<1>. QED
  BY <1>1, <1>4, <1>5, <1>6, <1>7 DEF full, gain, cut, held

\* A run pays the token it hands out from the balance and the refill.
LEMMA RunPays ==
  ASSUME NEW capacity \in Nat, NEW rate \in Nat, NEW bucket, IsBucket(bucket, capacity),
         NEW t \in Nat, NEW hair \in Hair
  PROVE  /\ IsBucket(Script(bucket, capacity, rate, t, hair).bucket, capacity)
         /\ Paid(Script(bucket, capacity, rate, t, hair))
              + Balance(Script(bucket, capacity, rate, t, hair).bucket, capacity)
              <= Balance(bucket, capacity) + rate * Larger(0, t - bucket.ts)
<1>. DEFINE full   == capacity * Unit
            e      == Elapsed(bucket, t)
            l      == Larger(0, t - bucket.ts)
            gain   == rate * e
            most   == rate * l
            filled == Filled(bucket, capacity, rate, t)
            cut    == Short(bucket, hair)
            level  == Level(bucket, capacity, rate, t)
            read   == LevelRead(bucket, capacity, rate, t, hair)
            run    == Script(bucket, capacity, rate, t, hair)
            left   == IF read >= Unit THEN level - Unit ELSE level
            held   == Balance(bucket, capacity)
<1>1. /\ full \in Nat /\ Unit \in Nat \ {0} /\ cut \in {0, 1}
      /\ filled \in Nat
      /\ filled = held + gain
      /\ gain \in Nat
      /\ level = Smaller(filled, full) /\ read = Smaller(filled - cut, full)
      /\ level \in 0 .. full /\ read \in Int /\ read <= level
  BY Levels, Zenon
<1>2. bucket.exists \in BOOLEAN /\ bucket.ts \in Nat
  BY DEF IsBucket
<1>3. gain <= most /\ most \in Int
  <2>1. e \in Nat /\ l \in Nat /\ e <= l
    BY <1>2 DEF Larger, Elapsed
  <2>. HIDE DEF e, l
  <2>. QED
    BY <2>1, Z3
<1>4. /\ run.bucket = [exists |-> TRUE, tokens |-> left, ts |-> t]
      /\ run.allowed = (read >= Unit)
  BY DEF Script
<1>. HIDE DEF full, gain, most, level, read, filled, run, held
<1>5. level <= held + most /\ held \in Int
  <2>1. held \in Int
    <3>. QED
      BY <1>1, <1>2 DEF held, Balance, IsBucket, full
  <2>. QED
    BY <1>1, <1>3, <2>1 DEF Smaller
<1>6. left \in 0 .. full /\ (IF read >= Unit THEN Unit ELSE 0) + left = level
  BY <1>1
<1>. HIDE DEF left
<1>7. Balance(run.bucket, capacity) = left
  BY <1>4 DEF Balance
<1>8. IsBucket(run.bucket, capacity)
  BY <1>1, <1>4, <1>6 DEF IsBucket, full
<1>9. Paid(run) + Balance(run.bucket, capacity) <= held + most
  BY <1>4, <1>5, <1>6, <1>7 DEF Paid
<1>. QED
  BY <1>8, <1>9 DEF run, most, held

\* Waiting for what is missing, in whole milliseconds, is long enough, and a
\* millisecond less is not.
LEMMA WaitIsExact ==
  ASSUME NEW missing \in Nat \ {0}, NEW rate \in Nat \ {0}
  PROVE  /\ RetryAfter(missing, rate) \in Nat \ {0}
         /\ rate * RetryAfter(missing, rate) >= missing
         /\ rate * (RetryAfter(missing, rate) - 1) < missing
<1>. DEFINE sum  == missing + rate - 1
            wait == sum \div rate
<1>1. RetryAfter(missing, rate) = wait
  BY DEF RetryAfter, CeilDiv
<1>2. sum \in Nat /\ sum >= rate
  OBVIOUS
<1>3. wait \in Int /\ rate * wait <= sum /\ sum < rate * (wait + 1)
  <2>. HIDE DEF sum
  <2>. QED
    BY <1>2, Z3
<1>. HIDE DEF wait
<1>4. /\ rate * wait \in Int /\ rate * (wait + 1) = rate * wait + rate
      /\ rate * (wait - 1) = rate * wait - rate
  BY <1>3, Z3
<1>5. rate * wait >= missing /\ rate * (wait - 1) < missing
  BY <1>3, <1>4
<1>6. wait >= 1
  BY <1>3, <1>5, Z3
<1>. QED
  BY <1>1, <1>3, <1>5, <1>6

\* A refused run leaves the hash's level and the time of the run, and its reply
\* is the wait for the rest of a token, or for a unit more.
LEMMA RefusedRun ==
  ASSUME NEW capacity \in Nat \ {0}, NEW rate \in Nat \ {0}, NEW bucket,
         IsBucket(bucket, capacity), NEW t \in Nat, NEW hair \in Hair,
         ~Script(bucket, capacity, rate, t, hair).allowed
  PROVE  \E level \in Nat, missing \in Nat \ {0} :
           /\ missing \in {Unit - level, Unit - level + 1}
           /\ Script(bucket, capacity, rate, t, hair).bucket
                = [exists |-> TRUE, tokens |-> level, ts |-> t]
           /\ Script(bucket, capacity, rate, t, hair).retry = RetryAfter(missing, rate)
<1>. DEFINE full   == capacity * Unit
            filled == Filled(bucket, capacity, rate, t)
            cut    == Short(bucket, hair)
            level  == Level(bucket, capacity, rate, t)
            read   == LevelRead(bucket, capacity, rate, t, hair)
            run    == Script(bucket, capacity, rate, t, hair)
<1>0. capacity \in Nat /\ rate \in Nat
  OBVIOUS
<1>1. /\ full \in Nat /\ Unit \in Nat \ {0} /\ cut \in {0, 1}
      /\ filled \in Nat
      /\ filled = Balance(bucket, capacity) + rate * Elapsed(bucket, t)
      /\ rate * Elapsed(bucket, t) \in Nat
      /\ level = Smaller(filled, full) /\ read = Smaller(filled - cut, full)
      /\ level \in 0 .. full /\ read \in Int /\ read <= level
  BY <1>0, Levels, Zenon
<1>2. full >= Unit
  <2>1. Unit \in Nat \ {0}
    BY <1>1
  <2>. QED
    BY <2>1, Z3
<1>3. run = [allowed |-> read >= Unit,
             retry   |-> IF read >= Unit THEN 0 ELSE RetryAfter(Unit - read, rate),
             bucket  |-> [exists |-> TRUE,
                          tokens |-> IF read >= Unit THEN level - Unit ELSE level,
                          ts     |-> t]]
  BY DEF Script
<1>. HIDE DEF full, filled, cut, level, read, run
<1>9. run.allowed = (read >= Unit)
  BY <1>3
<1>8. ~(read >= Unit)
  BY <1>9 DEF run
<1>7. /\ run.retry = RetryAfter(Unit - read, rate)
      /\ run.bucket = [exists |-> TRUE, tokens |-> level, ts |-> t]
  BY <1>3, <1>8
<1>4. read = filled - cut /\ level = filled /\ read < Unit
  BY <1>1, <1>2, <1>8 DEF Smaller
<1>5. Unit - read \in Nat \ {0} /\ Unit - read \in {Unit - level, Unit - level + 1}
  BY <1>1, <1>4
<1>6. level \in Nat
  BY <1>1
<1>. QED
  BY <1>5, <1>6, <1>7 DEF run

\* A hash allows a call exactly when the code reads a token in it.
LEMMA RefillAllows ==
  ASSUME NEW capacity \in Nat \ {0}, NEW rate \in Nat, NEW level \in Nat,
         NEW t \in Nat, NEW d \in Nat, NEW hair \in Hair
  PROVE  Script([exists |-> TRUE, tokens |-> level, ts |-> t], capacity, rate, t + d, hair).allowed
           <=> level + rate * d - hair >= Unit
<1>. DEFINE hash == [exists |-> TRUE, tokens |-> level, ts |-> t]
            full == capacity * Unit
            gain == rate * d
<1>1. full \in Nat /\ Unit \in Nat /\ full >= Unit
  <2>1. Unit \in Nat \ {0}
    BY GrainAssumption DEF Unit
  <2>. QED
    BY <2>1, Z3
<1>2. gain \in Nat /\ hair \in Nat
  BY Z3 DEF Hair
<1>3. Elapsed(hash, t + d) = d
  BY DEF Elapsed, Larger
<1>4. LevelRead(hash, capacity, rate, t + d, hair) = Smaller(level + gain - hair, full)
  <2>1. Balance(hash, capacity) = level /\ Short(hash, hair) = hair
    BY DEF Balance, Short
  <2>2. Filled(hash, capacity, rate, t + d) = level + gain
    BY <1>3, <2>1, Zenon DEF Filled
  <2>. HIDE DEF hash, gain
  <2>3. LevelRead(hash, capacity, rate, t + d, hair)
          = Smaller(Filled(hash, capacity, rate, t + d) - Short(hash, hair), full)
    BY Zenon DEF LevelRead
  <2>4. Filled(hash, capacity, rate, t + d) - Short(hash, hair) = level + gain - hair
    BY <1>2, <2>1, <2>2 DEF gain
  <2>. QED
    BY <2>3, <2>4, Zenon
<1>. HIDE DEF full, gain
<1>5. Smaller(level + gain - hair, full) >= Unit <=> level + gain - hair >= Unit
  BY <1>1, <1>2 DEF Smaller
<1>6. Script(hash, capacity, rate, t + d, hair).allowed
        = (LevelRead(hash, capacity, rate, t + d, hair) >= Unit)
  BY DEF Script
<1>. QED
  BY <1>4, <1>5, <1>6 DEF gain

\* The wait a refused run answers is right to a millisecond: a call a
\* millisecond after it is allowed, one two milliseconds before its end is not
\* (rate_limiter.py:52-58).
LEMMA WaitIsRight ==
  ASSUME NEW capacity \in Nat \ {0}, NEW rate \in Nat \ {0}, NEW bucket,
         IsBucket(bucket, capacity), NEW t \in Nat, NEW hair \in Hair,
         ~Script(bucket, capacity, rate, t, hair).allowed
  PROVE  LET run == Script(bucket, capacity, rate, t, hair)
         IN  /\ run.retry \in Nat \ {0}
             /\ \A d \in Nat, later \in Hair :
                  /\ d >= run.retry + 1
                       => Script(run.bucket, capacity, rate, t + d, later).allowed
                  /\ d + 2 <= run.retry
                       => ~Script(run.bucket, capacity, rate, t + d, later).allowed
<1>1. PICK level \in Nat, missing \in Nat \ {0} :
        /\ missing \in {Unit - level, Unit - level + 1}
        /\ Script(bucket, capacity, rate, t, hair).bucket
             = [exists |-> TRUE, tokens |-> level, ts |-> t]
        /\ Script(bucket, capacity, rate, t, hair).retry = RetryAfter(missing, rate)
  BY RefusedRun
<1>. DEFINE run  == Script(bucket, capacity, rate, t, hair)
            wait == RetryAfter(missing, rate)
<1>2. wait \in Nat \ {0} /\ rate * wait >= missing /\ rate * (wait - 1) < missing
  BY WaitIsExact
<1>3. Unit \in Nat \ {0}
  BY GrainAssumption DEF Unit
<1>. HIDE DEF wait, run
<1>4. ASSUME NEW d \in Nat, NEW later \in Hair
      PROVE  /\ d >= wait + 1 => Script(run.bucket, capacity, rate, t + d, later).allowed
             /\ d + 2 <= wait => ~Script(run.bucket, capacity, rate, t + d, later).allowed
  <2>1. Script(run.bucket, capacity, rate, t + d, later).allowed
          <=> level + rate * d - later >= Unit
    BY <1>1, RefillAllows DEF run
  <2>2. rate * d \in Int /\ rate * wait \in Int /\ rate * (wait - 1) \in Int
    BY <1>2, Z3
  <2>3. d >= wait + 1 => rate * d >= rate * wait + rate
    BY <1>2, Z3
  <2>4. d + 2 <= wait => rate * d + rate <= rate * (wait - 1)
    BY <1>2, Z3
  <2>. DEFINE rd == rate * d
              rw == rate * wait
              rv == rate * (wait - 1)
  <2>5. /\ rd \in Int /\ rw \in Int /\ rv \in Int
        /\ rw >= missing /\ rv < missing
        /\ d >= wait + 1 => rd >= rw + rate
        /\ d + 2 <= wait => rd + rate <= rv
        /\ later \in {0, 1}
    BY <1>2, <2>2, <2>3, <2>4 DEF Hair
  <2>. HIDE DEF rd, rw, rv
  <2>6. d >= wait + 1 => level + rd - later >= Unit
    BY <1>1, <1>3, <2>5
  <2>7. d + 2 <= wait => ~(level + rd - later >= Unit)
    BY <1>1, <1>3, <2>5
  <2>. QED
    BY <2>1, <2>6, <2>7, Zenon DEF rd
<1>5. run.retry = wait
  BY <1>1 DEF run, wait
<1>. QED
  BY <1>2, <1>4, <1>5 DEF run
=============================================================================
