---------------------------- MODULE BucketScript ----------------------------
(***************************************************************************)
(* The token-bucket Lua script of loop_guard/rate_limiter.py, and the idle *)
(* TTL the caller passes with it, as operators on one Redis hash.          *)
(*                                                                         *)
(* Times are milliseconds and rates are so many 1 / (200 * Grain) of a     *)
(* token per second, so a token is 200 * Grain * 1000 units and `elapsed_ms*)
(* / 1000.0 * rate' is a whole number of units.  Any rational rate can be  *)
(* written so, those below the clamp of the TTL at 0.01 included.          *)
(*                                                                         *)
(* The script and the TTL are computed in doubles.  A hash holds the exact *)
(* sum here, and the double that stands for it may be a hair off: `hair',  *)
(* which each run is free to choose, is a unit by which what the code reads*)
(* falls short.  It decides whether exactly one token is a token and       *)
(* whether a whole number of milliseconds is rounded up once more.  (A     *)
(* double above the exact sum reads like the exact sum: less than a whole  *)
(* token it stays, by a unit at least.)  This takes the errors that a      *)
(* bucket gathers to be smaller than a unit, which stops being true when a *)
(* millisecond refills less than a double can tell, below 10^-9 per second.*)
(* The cost of a call is always one token: no caller passes another.       *)
(***************************************************************************)
EXTENDS Integers

CONSTANT Grain   \* how fine rates are: a rate of 1 is 0.005 / Grain per second

ASSUME GrainAssumption == Grain \in Nat \ {0}

Unit == 200 * Grain * 1000
Hair == {0, 1}

\* An absent key.  `ts' then remembers when the key was last removed: the
\* script never reads it, the history variables of TokenBucket do.
Absent(t) == [exists |-> FALSE, tokens |-> 0, ts |-> t]

Smaller(a, b) == IF a <= b THEN a ELSE b
Larger(a, b)  == IF a >= b THEN a ELSE b
CeilDiv(a, b) == (a + b - 1) \div b

Elapsed(bucket, now) == IF bucket.exists THEN Larger(0, now - bucket.ts) ELSE 0

\* The tokens that a hash stands for: a missing one is a full bucket.
Balance(bucket, capacity) == IF bucket.exists THEN bucket.tokens ELSE capacity * Unit

\* tokens + refill
Filled(bucket, capacity, rate, now) ==
  Balance(bucket, capacity) + rate * Elapsed(bucket, now)

\* tokens = math.min(capacity, tokens + refill)
Level(bucket, capacity, rate, now) ==
  Smaller(Filled(bucket, capacity, rate, now), capacity * Unit)

\* The capacity itself is a whole number: a full bucket is not a hair short.
Short(bucket, hair) == IF bucket.exists THEN hair ELSE 0

\* The level as the code reads it.
LevelRead(bucket, capacity, rate, now, hair) ==
  Smaller(Filled(bucket, capacity, rate, now) - Short(bucket, hair), capacity * Unit)

RetryInSeconds(missing, rate) == IF rate > 0 THEN CeilDiv(missing, 1000 * rate) ELSE -1

RetryAfter(missing, rate) == IF rate > 0 THEN CeilDiv(missing, rate) ELSE -1

ScriptStaleTs(bucket, capacity, rate, now, hair) ==
  LET level   == Level(bucket, capacity, rate, now)
      read    == LevelRead(bucket, capacity, rate, now, hair)
      allowed == read >= Unit
  IN  [allowed |-> allowed,
       retry   |-> IF allowed THEN 0 ELSE RetryAfter(Unit - read, rate),
       bucket  |-> [exists |-> TRUE,
                    tokens |-> IF allowed THEN level - Unit ELSE level,
                    ts     |-> IF bucket.exists /\ ~allowed THEN bucket.ts ELSE now]]

ScriptInDebt(bucket, capacity, rate, now, hair) ==
  LET level   == Level(bucket, capacity, rate, now)
      read    == LevelRead(bucket, capacity, rate, now, hair)
      allowed == read >= Unit
  IN  [allowed |-> allowed,
       retry   |-> IF allowed THEN 0 ELSE RetryAfter(Unit - read, rate),
       bucket  |-> [exists |-> TRUE, tokens |-> level - Unit, ts |-> now]]

\* One execution of _TOKEN_BUCKET_LUA: the reply and the hash it leaves.
Script(bucket, capacity, rate, now, hair) ==
  LET level   == Level(bucket, capacity, rate, now)
      read    == LevelRead(bucket, capacity, rate, now, hair)
      allowed == read >= Unit
  IN  [allowed |-> allowed,
       retry   |-> IF allowed THEN 0 ELSE RetryAfter(Unit - read, rate),
       bucket  |-> [exists |-> TRUE,
                    tokens |-> IF allowed THEN level - Unit ELSE level,
                    ts     |-> now]]

\* int(capacity / max(rate_per_sec, 0.01)); capacity / 0.01 is never a hair off.
RefillSeconds(capacity, rate, hair) ==
  (200 * Grain * capacity - (IF rate > 2 * Grain THEN hair ELSE 0))
    \div Larger(rate, 2 * Grain)

IdleTtlInMs(capacity, rate, hair) == Larger(60, 2 * RefillSeconds(capacity, rate, hair))

\* ttl = max(60, int(...) * 2), in ms.
IdleTtl(capacity, rate, hair) ==
  1000 * Larger(60, 2 * RefillSeconds(capacity, rate, hair))

\* The slowest refill that the TTL leaves time for is one token in 200 seconds.
\* A bucket with a slower one is full again early, when its key expires: what
\* it gives away is bounded at this rate only.
EffectiveRate(rate) == Larger(rate, Grain)
=============================================================================
