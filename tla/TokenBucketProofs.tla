-------------------------- MODULE TokenBucketProofs --------------------------
(***************************************************************************)
(* For every set of callers, capacity, rate and clock: the types, that the *)
(* bucket implements TokenBudget at its effective rate, the bounds on the  *)
(* tokens it hands out, the wait it tells, and how far the promises of its *)
(* documentation hold.                                                     *)
(***************************************************************************)
EXTENDS TokenBucket, BucketScriptProofs

B == INSTANCE TokenBudgetProofs
       WITH Burst <- Capacity * Unit,
            Rate <- EffectiveRate(Rate),
            balance <- Balance(bucket, Capacity)

LEMMA UnitIsPositive == Unit \in Nat \ {0}
  BY GrainAssumption DEF Unit

LEMMA TtlIsNatural == \A loss \in Hair : IdleTtl(Capacity, Rate, loss) \in Nat
  BY TtlType, BucketAssumption

LEMMA BurstIsNatural == Capacity * Unit \in Nat
<1>1. \A u \in Nat : Capacity * u \in Nat
  BY BucketAssumption, SMT
<1>. QED
  BY <1>1, UnitIsPositive

LEMMA RateIsNatural ==
  /\ Rate \in Nat /\ EffectiveRate(Rate) \in Nat
  /\ Rate <= EffectiveRate(Rate)
  BY BucketAssumption, GrainAssumption DEF EffectiveRate, Larger

\* The key outlives its last use by at least the idle TTL.
LivesOn ==
  bucket.exists =>
    \E loss \in Hair : expireAt >= bucket.ts + IdleTtl(Capacity, Rate, loss)

\* Credit is time: what was credited is the bucket's own time plus the time
\* that was gained by moving the bucket's time back.
CreditIsTime == credited <= bucket.ts + skew

BucketInv == TypeOK /\ LivesOn /\ CreditIsTime

-----------------------------------------------------------------------------
(* The script and the TTL *)

LEMMA ElapsedType ==
  ASSUME TypeOK, NEW t \in Nat
  PROVE  /\ Elapsed(bucket, t) \in Nat
         /\ bucket.exists => Elapsed(bucket, t) = Larger(0, t - bucket.ts)
         /\ ~bucket.exists => Elapsed(bucket, t) = 0
  BY DEF TypeOK, Elapsed, Larger

LEMMA BucketIsBucket ==
  ASSUME TypeOK PROVE IsBucket(bucket, Capacity)
<1>. DEFINE full == Capacity * Unit
<1>1. full \in Nat /\ now \in Nat
  BY BurstIsNatural DEF TypeOK
<1>2. bucket \in [exists : BOOLEAN, tokens : 0 .. full, ts : 0 .. now]
  BY DEF TypeOK
<1>. HIDE DEF full
<1>3. bucket \in [exists : BOOLEAN, tokens : Nat, ts : Nat] /\ bucket.tokens <= full
  BY <1>1, <1>2
<1>. QED
  BY <1>3 DEF IsBucket, full

\* What a run reads is no more than its level, and its level no more than the
\* abstract bucket's after the same refill at the effective rate.
LEMMA LevelType ==
  ASSUME TypeOK, NEW t \in Nat, NEW hair \in Hair
  PROVE  /\ Level(bucket, Capacity, Rate, t) \in 0 .. Capacity * Unit
         /\ LevelRead(bucket, Capacity, Rate, t, hair) \in Int
         /\ LevelRead(bucket, Capacity, Rate, t, hair) <= Level(bucket, Capacity, Rate, t)
         /\ Level(bucket, Capacity, Rate, t) <= B!Refilled(Elapsed(bucket, t))
         /\ B!Refilled(Elapsed(bucket, t)) \in Nat
<1>. DEFINE full   == Capacity * Unit
            e      == Elapsed(bucket, t)
            filled == Filled(bucket, Capacity, Rate, t)
            cut    == Short(bucket, hair)
            level  == Level(bucket, Capacity, Rate, t)
            read   == LevelRead(bucket, Capacity, Rate, t, hair)
            held   == Balance(bucket, Capacity)
            gain   == Rate * e
            most   == EffectiveRate(Rate) * e
<1>0. Capacity \in Nat /\ Rate \in Nat /\ IsBucket(bucket, Capacity)
  BY BucketAssumption, BucketIsBucket
<1>1. /\ full \in Nat /\ Unit \in Nat \ {0} /\ cut \in {0, 1}
      /\ filled \in Nat
      /\ filled = held + gain
      /\ gain \in Nat
      /\ level = Smaller(filled, full) /\ read = Smaller(filled - cut, full)
      /\ level \in 0 .. full /\ read \in Int /\ read <= level
  BY <1>0, Levels, Zenon
<1>2. gain <= most /\ most \in Nat
  <2>1. \A x, y, z \in Nat : x <= y => x * z <= y * z /\ y * z \in Nat
    BY Z3
  <2>2. e \in Nat
    BY ElapsedType
  <2>. QED
    BY <2>1, <2>2, RateIsNatural, Zenon
<1>3. held \in Nat
  BY <1>1 DEF TypeOK, Balance, full
<1>4. B!Refilled(e) = IF held + most <= full THEN held + most ELSE full
  BY Zenon DEF B!Refilled
<1>. HIDE DEF full, e, filled, level, read, held, gain, most, cut
<1>5. level <= B!Refilled(e) /\ B!Refilled(e) \in Nat
  BY <1>1, <1>2, <1>3, <1>4 DEF Smaller
<1>. QED
  BY <1>1, <1>5, Zenon DEF full, e, level, read

-----------------------------------------------------------------------------
(* Type correctness *)

\* One script run, by whichever command: what it leaves in Redis has its types.
LEMMA RunScriptType ==
  ASSUME TypeOK, NEW c \in Caller, NEW hair \in Hair, RunScript(c, hair)
  PROVE  /\ bucket' \in [exists : BOOLEAN, tokens : 0 .. Capacity * Unit, ts : 0 .. now]
         /\ expireAt' \in Nat
         /\ runs' \in [Caller -> Nat]
         /\ credited' \in Nat
         /\ skew' \in Nat
         /\ grants' \in Seq(Nat)
<1>. DEFINE t == stamp[c]
            level == Level(bucket, Capacity, Rate, t)
            read  == LevelRead(bucket, Capacity, Rate, t, hair)
            full == Capacity * Unit
<1>1. /\ t \in 0 .. now /\ t \in Nat
      /\ bucket.ts \in Nat
  BY DEF TypeOK
<1>2. /\ level \in 0 .. full /\ full \in Nat /\ Unit \in Nat \ {0}
      /\ read \in Int /\ read <= level
  BY <1>1, LevelType, BurstIsNatural, UnitIsPositive
<1>3. Elapsed(bucket, t) \in Nat
  BY <1>1, ElapsedType
<1>4. bucket' = [exists |-> TRUE,
                 tokens |-> IF read >= Unit THEN level - Unit ELSE level,
                 ts     |-> t]
  BY DEF RunScript, Script
<1>5. bucket' \in [exists : BOOLEAN, tokens : 0 .. full, ts : 0 .. now]
  <2>1. (IF read >= Unit THEN level - Unit ELSE level) \in 0 .. full
    <3>. HIDE DEF level, read, full
    <3>. QED
      BY <1>2
  <2>. HIDE DEF level, read, full, t
  <2>. QED
    BY <1>1, <1>4, <2>1
<1>6. expireAt' \in Nat
  <2>1. PICK loss \in Hair : expireAt' = now + IdleTtl(Capacity, Rate, loss)
    BY Zenon DEF RunScript
  <2>2. IdleTtl(Capacity, Rate, loss) \in Nat
    BY TtlIsNatural
  <2>. QED
    BY <2>1, <2>2 DEF TypeOK
<1>7. credited' \in Nat
  BY <1>3 DEF RunScript, TypeOK
<1>8. skew' \in Nat
  BY <1>1 DEF RunScript, TypeOK, Larger
<1>9. grants' \in Seq(Nat)
  BY <1>7 DEF RunScript, TypeOK
<1>10. runs' \in [Caller -> Nat]
  BY DEF RunScript, TypeOK
<1>. QED
  BY <1>5, <1>6, <1>7, <1>8, <1>9, <1>10

LEMMA ReturnType ==
  ASSUME TypeOK, NEW c \in Caller, NEW r \in {"allowed", "denied", "raised"}, Return(c, r)
  PROVE  /\ pc' \in [Caller -> {"idle", "load", "evalsha", "eval"}]
         /\ stamp' \in [Caller -> 0 .. now]
         /\ outcome' \in [Caller -> {"none", "allowed", "denied", "raised"}]
  BY DEF TypeOK, Return, Goto

LEMMA TypeInit == Init => TypeOK
<1>. SUFFICES ASSUME Init
              PROVE  TypeOK
  OBVIOUS
<1>1. 0 \in 0 .. Capacity * Unit /\ 0 \in 0 .. now
  BY BurstIsNatural DEF Init
<1>2. bucket \in [exists : BOOLEAN, tokens : 0 .. Capacity * Unit, ts : 0 .. now]
  BY <1>1 DEF Init, Absent
<1>3. stamp \in [Caller -> 0 .. now] /\ runs \in [Caller -> Nat]
  BY <1>1 DEF Init
<1>4. /\ pc \in [Caller -> {"idle", "load", "evalsha", "eval"}]
      /\ outcome \in [Caller -> {"none", "allowed", "denied", "raised"}]
  BY DEF Init
<1>5. /\ now \in Nat /\ expireAt \in Nat /\ credited \in Nat /\ skew \in Nat
  BY DEF Init
<1>6. cached \in BOOLEAN /\ sha \in BOOLEAN
  BY DEF Init
<1>7. grants \in Seq(Nat)
  <2>1. <<>> \in Seq(Nat)
    OBVIOUS
  <2>. QED
    BY <2>1, Zenon DEF Init
<1>. QED
  BY <1>2, <1>3, <1>4, <1>5, <1>6, <1>7 DEF TypeOK

LEMMA TypeNext == TypeOK /\ [Next]_vars => TypeOK'
<1>. SUFFICES ASSUME TypeOK, [Next]_vars
              PROVE  TypeOK'
  OBVIOUS
<1>0. \A c \in Caller, hair \in Hair : Decision(c, hair) \in {"allowed", "denied", "raised"}
  BY DEF Decision
<1>1. ASSUME NEW c \in Caller, Call(c)
      PROVE  TypeOK'
  <2>1. CASE Begin(c)
    BY <2>1 DEF TypeOK, Begin, Goto, server
  <2>2. CASE ScriptLoad(c)
    BY <2>2 DEF TypeOK, ScriptLoad, Goto, server
  <2>3. CASE Evalsha(c)
    BY <1>0, <2>3, RunScriptType, ReturnType DEF TypeOK, Evalsha
  <2>4. CASE EvalshaFails(c)
    BY <2>4 DEF TypeOK, EvalshaFails, Goto, server
  <2>5. CASE EvalshaReplyLost(c)
    BY <2>5, RunScriptType DEF TypeOK, EvalshaReplyLost, Goto
  <2>6. CASE Eval(c)
    BY <1>0, <2>6, RunScriptType, ReturnType DEF TypeOK, Eval
  <2>7. CASE EvalReplyLost(c)
    BY <2>7, RunScriptType, ReturnType DEF TypeOK, EvalReplyLost
  <2>8. CASE CommandFails(c)
    BY <2>8, ReturnType DEF TypeOK, CommandFails, server
  <2>. QED
    BY <1>1, <2>1, <2>2, <2>3, <2>4, <2>5, <2>6, <2>7, <2>8 DEF Call
<1>2. CASE RedisRestarts
  BY <1>2 DEF TypeOK, RedisRestarts, server, callers
<1>3. CASE BotRestarts
  <2>1. stamp' \in [Caller -> 0 .. now'] /\ runs' \in [Caller -> Nat]
    BY <1>3 DEF TypeOK, BotRestarts
  <2>2. /\ pc' \in [Caller -> {"idle", "load", "evalsha", "eval"}]
        /\ outcome' \in [Caller -> {"none", "allowed", "denied", "raised"}]
    BY <1>3 DEF BotRestarts
  <2>. QED
    BY <1>3, <2>1, <2>2 DEF TypeOK, BotRestarts, server
<1>4. ASSUME NEW d \in TimeSteps, Tick(d)
      PROVE  TypeOK'
  <2>1. now' \in Nat /\ now <= now' /\ UNCHANGED <<expireAt, cached, skew, grants, callers>>
    BY <1>4, BucketAssumption DEF Tick, TypeOK
  <2>2. stamp' \in [Caller -> 0 .. now']
    BY <2>1 DEF TypeOK, callers
  <2>3. CASE bucket.exists /\ now' >= expireAt
    <3>1. bucket' = Absent(now') /\ credited' = credited + (now' - bucket.ts)
      BY <1>4, <2>3 DEF Tick
    <3>2. 0 \in 0 .. Capacity * Unit
      BY BurstIsNatural
    <3>3. bucket' \in [exists : BOOLEAN, tokens : 0 .. Capacity * Unit, ts : 0 .. now']
      BY <2>1, <3>1, <3>2 DEF Absent
    <3>4. credited' \in Nat
      BY <2>1, <3>1 DEF TypeOK
    <3>. QED
      BY <2>1, <2>2, <3>3, <3>4 DEF TypeOK, callers
  <2>4. CASE ~(bucket.exists /\ now' >= expireAt)
    <3>1. UNCHANGED <<bucket, credited>>
      BY <1>4, <2>4 DEF Tick
    <3>2. bucket' \in [exists : BOOLEAN, tokens : 0 .. Capacity * Unit, ts : 0 .. now']
      BY <2>1, <3>1 DEF TypeOK
    <3>. QED
      BY <2>1, <2>2, <3>1, <3>2 DEF TypeOK, callers
  <2>. QED
    BY <2>3, <2>4
<1>5. CASE UNCHANGED vars
  BY <1>5 DEF TypeOK, vars
<1>. QED
  BY <1>1, <1>2, <1>3, <1>4, <1>5 DEF Next

\* Tokens never leave 0..Capacity and no time stamp is ahead of the clock.
THEOREM TypeCorrect == Spec => []TypeOK
  BY TypeInit, TypeNext, PTL DEF Spec

-----------------------------------------------------------------------------
(* The inductive invariant *)

LEMMA RunScriptInv ==
  ASSUME BucketInv, NEW c \in Caller, NEW hair \in Hair, RunScript(c, hair)
  PROVE  LivesOn' /\ CreditIsTime'
<1>. DEFINE t == stamp[c]
<1>1. /\ t \in Nat /\ t <= now /\ now \in Nat
      /\ bucket.ts \in Nat /\ bucket.exists \in BOOLEAN
      /\ credited \in Nat /\ skew \in Nat /\ credited <= bucket.ts + skew
  BY DEF BucketInv, TypeOK, CreditIsTime
<1>2. /\ bucket'.ts = t
      /\ credited' = credited + Elapsed(bucket, t)
      /\ skew' = skew + Larger(0, bucket.ts - t)
  BY DEF RunScript, Script
<1>3. LivesOn'
  <2>1. PICK loss \in Hair : expireAt' = now + IdleTtl(Capacity, Rate, loss)
    BY Zenon DEF RunScript
  <2>2. IdleTtl(Capacity, Rate, loss) \in Nat
    BY TtlIsNatural
  <2>3. expireAt' >= bucket'.ts + IdleTtl(Capacity, Rate, loss)
    BY <1>1, <1>2, <2>1, <2>2
  <2>. QED
    BY <2>3, Zenon DEF LivesOn
<1>4. credited' <= t + skew'
  BY <1>1, <1>2 DEF Elapsed, Larger
<1>. QED
  BY <1>2, <1>3, <1>4 DEF CreditIsTime

LEMMA BucketInit == Init => BucketInv
  BY TypeInit DEF Init, BucketInv, LivesOn, CreditIsTime, Absent

LEMMA BucketNext == BucketInv /\ [Next]_vars => BucketInv'
<1>. SUFFICES ASSUME BucketInv, [Next]_vars
              PROVE  LivesOn' /\ CreditIsTime'
  BY TypeNext DEF BucketInv
<1>1. CASE UNCHANGED server
  BY <1>1 DEF BucketInv, LivesOn, CreditIsTime, server
<1>2. CASE \E c \in Caller, hair \in Hair : RunScript(c, hair)
  BY <1>2, RunScriptInv
<1>3. ASSUME NEW d \in TimeSteps, Tick(d)
      PROVE  LivesOn' /\ CreditIsTime'
  <2>1. CASE bucket.exists /\ now' >= expireAt
    <3>1. /\ bucket' = Absent(now') /\ credited' = credited + (now' - bucket.ts)
          /\ skew' = skew
      BY <1>3, <2>1 DEF Tick
    <3>2. now' \in Nat
      BY <1>3, BucketAssumption DEF Tick, BucketInv, TypeOK
    <3>. QED
      BY <3>1, <3>2 DEF BucketInv, TypeOK, LivesOn, CreditIsTime, Absent
  <2>2. CASE ~(bucket.exists /\ now' >= expireAt)
    BY <1>3, <2>2 DEF Tick, BucketInv, LivesOn, CreditIsTime
  <2>. QED
    BY <2>1, <2>2
<1>4. CASE UNCHANGED vars
  BY <1>1, <1>4 DEF vars, server
<1>. QED
  BY <1>1, <1>2, <1>3, <1>4
     DEF Next, Call, Begin, ScriptLoad, Evalsha, EvalshaFails, EvalshaReplyLost,
         Eval, EvalReplyLost, CommandFails, RedisRestarts, BotRestarts, server

LEMMA BucketInvariant == Spec => []BucketInv
  BY BucketInit, BucketNext, PTL DEF Spec

-----------------------------------------------------------------------------
(* Refinement *)

LEMMA BudgetParametersHold == B!BudgetParameters
  BY BurstIsNatural, UnitIsPositive, RateIsNatural DEF B!BudgetParameters

\* A script run is one payment, or one refusal, by the abstract bucket.
LEMMA RunScriptIsPayment ==
  ASSUME BucketInv, NEW c \in Caller, NEW hair \in Hair, RunScript(c, hair)
  PROVE  B!Next
<1>. DEFINE t     == stamp[c]
            d     == Elapsed(bucket, t)
            level == Level(bucket, Capacity, Rate, t)
            read  == LevelRead(bucket, Capacity, Rate, t, hair)
            left  == IF read >= Unit THEN level - Unit ELSE level
<1>0. TypeOK /\ t \in Nat
  BY DEF BucketInv, TypeOK
<1>1. d \in Nat /\ credited \in Nat /\ credited' = credited + d
  BY <1>0, ElapsedType DEF RunScript, TypeOK
<1>2. /\ level \in Nat /\ read \in Int /\ read <= level
      /\ level <= B!Refilled(d) /\ B!Refilled(d) \in Nat
  <2>1. level \in 0 .. Capacity * Unit
    BY <1>0, LevelType
  <2>2. level \in Nat
    <3>. HIDE DEF level
    <3>. QED
      BY <2>1, BurstIsNatural
  <2>. QED
    BY <1>0, <2>2, LevelType
<1>3. /\ bucket' = [exists |-> TRUE, tokens |-> left, ts |-> t]
      /\ grants' = IF read >= Unit THEN Append(grants, credited') ELSE grants
  BY DEF RunScript, Script
<1>. HIDE DEF d, level, read, t
<1>4. Balance(bucket, Capacity)' = left
  BY <1>3 DEF Balance
<1>5. B!Decline(d) \/ B!Grant(d)
  <2>1. CASE read >= Unit
    <3>1. B!Refilled(d) >= Unit /\ level - Unit \in 0 .. B!Refilled(d) - Unit
      BY <1>2, <2>1, UnitIsPositive
    <3>. QED
      BY <1>3, <1>4, <2>1, <3>1, Zenon DEF B!Grant
  <2>2. CASE ~(read >= Unit)
    <3>1. level \in 0 .. B!Refilled(d)
      BY <1>2
    <3>. QED
      BY <1>3, <1>4, <2>2, <3>1, Zenon DEF B!Decline
  <2>. QED
    BY <2>1, <2>2
<1>6. d = credited' - credited
  BY <1>1
<1>. QED
  BY <1>1, <1>5, <1>6 DEF B!Next

\* An expiry is a refusal: the idle time it credits fills the bucket.
LEMMA ExpiryIsRefill ==
  ASSUME BucketInv, NEW step \in TimeSteps, Tick(step),
         bucket.exists, now' >= expireAt
  PROVE  B!Next
<1>. DEFINE d    == now' - bucket.ts
            full == Capacity * Unit
            gain == EffectiveRate(Rate) * d
            held == Balance(bucket, Capacity)
<1>1. /\ bucket' = Absent(now') /\ credited' = credited + d /\ grants' = grants
  BY DEF Tick
<1>2. /\ now' \in Nat /\ bucket.ts \in Nat /\ credited \in Nat
      /\ bucket.ts <= now' /\ bucket.tokens \in 0 .. full
  BY BucketAssumption DEF Tick, BucketInv, TypeOK
<1>3. d \in Nat /\ d = credited' - credited
  BY <1>1, <1>2
<1>4. full <= gain
  <2>1. PICK loss \in Hair : expireAt >= bucket.ts + IdleTtl(Capacity, Rate, loss)
    BY DEF BucketInv, LivesOn
  <2>2. IdleTtl(Capacity, Rate, loss) \in Nat /\ expireAt \in Nat
    BY TtlIsNatural DEF BucketInv, TypeOK
  <2>3. d >= IdleTtl(Capacity, Rate, loss)
    BY <1>2, <2>1, <2>2
  <2>. QED
    BY <1>3, <2>3, TtlCoversRefill, BucketAssumption
<1>5. full \in Nat /\ gain \in Nat
  <2>1. \A x, y \in Nat : x * y \in Nat
    BY Z3
  <2>. QED
    BY <1>3, <2>1, BurstIsNatural, RateIsNatural
<1>6. B!Refilled(d) = full
  <2>1. held \in 0 .. full
    BY <1>2 DEF Balance
  <2>2. B!Refilled(d) = IF held + gain <= full THEN held + gain ELSE full
    BY Zenon DEF B!Refilled
  <2>. HIDE DEF gain, full, held
  <2>. QED
    BY <1>4, <1>5, <2>1, <2>2
<1>7. B!Decline(d)
  <2>1. Balance(bucket, Capacity)' = full
    BY <1>1 DEF Absent, Balance
  <2>2. full \in 0 .. B!Refilled(d)
    BY <1>5, <1>6
  <2>. QED
    BY <1>1, <2>1, <2>2, Zenon DEF B!Decline
<1>. QED
  BY <1>1, <1>3, <1>7 DEF B!Next

LEMMA RefinementInit == Init => B!Init
  BY DEF Init, B!Init, Absent, Balance

LEMMA RefinementStep == BucketInv /\ [Next]_vars => [B!Next]_B!budget
<1>. SUFFICES ASSUME BucketInv, [Next]_vars
              PROVE  [B!Next]_B!budget
  OBVIOUS
<1>1. CASE UNCHANGED server
  BY <1>1 DEF server, B!budget
<1>2. CASE \E c \in Caller, hair \in Hair : RunScript(c, hair)
  BY <1>2, RunScriptIsPayment
<1>3. ASSUME NEW d \in TimeSteps, Tick(d)
      PROVE  [B!Next]_B!budget
  <2>1. CASE bucket.exists /\ now' >= expireAt
    BY <1>3, <2>1, ExpiryIsRefill
  <2>2. CASE ~(bucket.exists /\ now' >= expireAt)
    BY <1>3, <2>2 DEF Tick, B!budget
  <2>. QED
    BY <2>1, <2>2
<1>4. CASE UNCHANGED vars
  BY <1>1, <1>4 DEF vars, server
<1>. QED
  BY <1>1, <1>2, <1>3, <1>4
     DEF Next, Call, Begin, ScriptLoad, Evalsha, EvalshaFails, EvalshaReplyLost,
         Eval, EvalReplyLost, CommandFails, RedisRestarts, BotRestarts, server

-----------------------------------------------------------------------------
(* Theorems *)

\* Every behaviour of the shared bucket, at any rate, with concurrent callers,
\* lost replies, retries, restarts and expiry, is one of TokenBudget at the
\* effective rate.
THEOREM BucketRefines == Spec => BudgetSpec
<1>1. Init => Budget!Init
  BY DEF Init, Budget!Init, Absent, Balance
<1>2. BucketInv /\ [Next]_vars => [Budget!Next]_Budget!budget
  BY RefinementStep
     DEF B!Next, B!Decline, B!Grant, B!Refilled, B!budget,
         Budget!Next, Budget!Decline, Budget!Grant, Budget!Refilled, Budget!budget
<1>. QED
  BY <1>1, <1>2, BucketInvariant, PTL DEF Spec, BudgetSpec, Budget!Spec

\* The abstract invariant, along the refinement.
LEMMA BudgetInvHolds == Spec => []B!BudgetInv
<1>1. B!Init => B!BudgetInv
  BY BudgetParametersHold, B!BudgetInit
<1>2. B!BudgetInv /\ [B!Next]_B!budget => B!BudgetInv'
  BY BudgetParametersHold, B!BudgetNext
<1>. QED
  BY <1>1, <1>2, RefinementInit, RefinementStep, BucketInvariant, PTL DEF Spec

\* Any window of tokens fits the burst plus the refill credited inside it.
THEOREM WindowBoundHolds == Spec => []WindowBound
<1>1. B!BudgetInv => WindowBound
  BY BudgetParametersHold, B!WindowsBound DEF WindowBound, Budget!WindowBound, B!WindowBound
<1>. QED
  BY <1>1, BudgetInvHolds, PTL

\* In real time the tokens exceed burst plus effective rate times elapsed time by
\* at most that rate times the time by which scripts ran behind a younger stamp.
THEOREM SkewedRateBoundHolds == Spec => []SkewedRateBound
<1>1. ASSUME B!BudgetInv, BucketInv
      PROVE  SkewedRateBound
  <2>1. /\ credited \in Nat /\ now \in Nat /\ skew \in Nat
        /\ grants \in Seq(Nat)
        /\ credited <= now + skew
    BY <1>1 DEF BucketInv, TypeOK, CreditIsTime
  <2>2. CASE grants = <<>>
    <3>1. Len(grants) * Unit = 0
      BY <2>2, UnitIsPositive
    <3>2. EffectiveRate(Rate) * (now + skew) \in Nat
      <4>1. \A x, y \in Nat : x * y \in Nat
        BY Z3
      <4>2. now + skew \in Nat
        BY <2>1
      <4>. QED
        BY <4>1, <4>2, RateIsNatural, Zenon
    <3>. DEFINE most == EffectiveRate(Rate) * (now + skew)
                full == Capacity * Unit
                total == Len(grants) * Unit
    <3>3. most \in Nat /\ full \in Nat /\ total = 0
      BY <3>1, <3>2, BurstIsNatural
    <3>4. SUFFICES total <= full + most
      BY DEF SkewedRateBound
    <3>. HIDE DEF most, full, total
    <3>. QED
      BY <3>3
  <2>3. CASE grants # <<>>
    <3>. DEFINE n == Len(grants)
    <3>1. n \in Nat /\ 1 \in DOMAIN grants /\ n \in DOMAIN grants /\ 1 <= n
      BY <2>1, <2>3
    <3>2. /\ grants[1] \in Nat /\ grants[n] \in Nat
          /\ grants[n] <= credited
      BY <1>1, <2>1, <3>1 DEF B!BudgetInv, B!BudgetTypeOK
    <3>3. (n - 1 + 1) * Unit <= Capacity * Unit + EffectiveRate(Rate) * (grants[n] - grants[1])
      BY <1>1, <3>1, BudgetParametersHold, B!WindowsBound DEF B!WindowBound
    <3>4. n - 1 + 1 = n
      BY <3>1
    <3>5. grants[n] - grants[1] \in Int /\ grants[n] - grants[1] <= now + skew
      BY <2>1, <3>2
    <3>6. /\ EffectiveRate(Rate) * (grants[n] - grants[1]) <= EffectiveRate(Rate) * (now + skew)
          /\ EffectiveRate(Rate) * (grants[n] - grants[1]) \in Int
          /\ EffectiveRate(Rate) * (now + skew) \in Int
      <4>1. ASSUME NEW a \in Int, NEW b \in Int, a <= b
            PROVE  /\ EffectiveRate(Rate) * a <= EffectiveRate(Rate) * b
                   /\ EffectiveRate(Rate) * a \in Int
                   /\ EffectiveRate(Rate) * b \in Int
        <5>1. \A r \in Nat : r * a <= r * b /\ r * a \in Int /\ r * b \in Int
          BY <4>1, Z3
        <5>. QED
          BY <5>1, RateIsNatural
      <4>2. now + skew \in Int
        BY <2>1
      <4>. QED
        BY <3>5, <4>1, <4>2, Zenon
    <3>. DEFINE total == n * Unit
                full == Capacity * Unit
                gain == EffectiveRate(Rate) * (grants[n] - grants[1])
                most == EffectiveRate(Rate) * (now + skew)
    <3>7. /\ total <= full + gain /\ gain <= most
          /\ full \in Nat /\ gain \in Int /\ most \in Int /\ total \in Int
      <4>1. total \in Int
        <5>1. \A x \in Nat : x * Unit \in Int
          BY UnitIsPositive, Z3
        <5>. QED
          BY <3>1, <5>1
      <4>2. total <= full + gain
        BY <3>3, <3>4, Zenon
      <4>. QED
        BY <3>6, <4>1, <4>2, BurstIsNatural
    <3>8. SUFFICES total <= full + most
      BY DEF SkewedRateBound
    <3>. HIDE DEF total, full, gain, most
    <3>. QED
      BY <3>7
  <2>. QED
    BY <2>2, <2>3
<1>. QED
  BY <1>1, BudgetInvHolds, BucketInvariant, PTL

-----------------------------------------------------------------------------
(* The wait of a refused call *)

\* In every reachable state and at every positive rate, however the doubles round,
\* a retry a millisecond after the told wait is allowed, and one two milliseconds
\* before its end is not (rate_limiter.py:52-58).
THEOREM RetriesInTime == Spec => []WaitWithinAMillisecond
<1>1. TypeOK => WaitWithinAMillisecond
  <2>. SUFFICES ASSUME TypeOK, NEW hair \in Hair, NEW later \in Hair,
                       Rate > 0, ~Script(bucket, Capacity, Rate, now, hair).allowed
                PROVE  LET denied   == Script(bucket, Capacity, Rate, now, hair)
                           After(t) == Script(denied.bucket, Capacity, Rate, now + t, later)
                       IN  /\ denied.retry >= 1
                           /\ After(denied.retry + 1).allowed
                           /\ denied.retry >= 2 => ~After(denied.retry - 2).allowed
    BY Zenon DEF WaitWithinAMillisecond
  <2>1. now \in Nat /\ Capacity \in Nat \ {0} /\ Rate \in Nat \ {0}
    BY BucketAssumption DEF TypeOK
  <2>. DEFINE denied == Script(bucket, Capacity, Rate, now, hair)
  <2>2. /\ denied.retry \in Nat \ {0}
        /\ \A d \in Nat, hair2 \in Hair :
             /\ d >= denied.retry + 1
                  => Script(denied.bucket, Capacity, Rate, now + d, hair2).allowed
             /\ d + 2 <= denied.retry
                  => ~Script(denied.bucket, Capacity, Rate, now + d, hair2).allowed
    BY <2>1, BucketIsBucket, WaitIsRight
  <2>. HIDE DEF denied
  <2>3. Script(denied.bucket, Capacity, Rate, now + (denied.retry + 1), later).allowed
    <3>1. denied.retry + 1 \in Nat /\ denied.retry + 1 >= denied.retry + 1
      BY <2>2
    <3>. QED
      BY <2>2, <3>1, Zenon
  <2>4. ASSUME denied.retry >= 2
        PROVE  ~Script(denied.bucket, Capacity, Rate, now + (denied.retry - 2), later).allowed
    <3>1. denied.retry - 2 \in Nat /\ (denied.retry - 2) + 2 <= denied.retry
      BY <2>2, <2>4
    <3>. QED
      BY <2>2, <3>1, Zenon
  <2>5. denied.retry >= 1
    BY <2>2
  <2>. QED
    BY <2>3, <2>4, <2>5 DEF denied
<1>. QED
  BY <1>1, TypeCorrect, PTL

-----------------------------------------------------------------------------
(* What the documentation promises, where it holds *)

\* A rate from 0.005 per second on is effective as it stands: then the bucket
\* keeps its promise in real time as long as no script runs behind a younger time
\* stamp (rate_limiter.py:18-20,104).
THEOREM RateKeptInOrder ==
  ASSUME Rate >= Grain
  PROVE  Spec => [](skew = 0 => RateBound)
<1>1. SkewedRateBound /\ TypeOK => (skew = 0 => RateBound)
  <2>1. EffectiveRate(Rate) = Rate
    BY BucketAssumption, GrainAssumption DEF EffectiveRate, Larger
  <2>2. TypeOK /\ skew = 0 => now + skew = now
    BY DEF TypeOK
  <2>. QED
    BY <2>1, <2>2, Zenon DEF SkewedRateBound, RateBound
<1>. QED
  BY <1>1, SkewedRateBoundHolds, TypeCorrect, PTL

\* EVAL may repeat a run of EVALSHA, but only one, and only if its reply was lost.
Charges ==
  \A c \in Caller :
    /\ pc[c] \in {"load", "evalsha"} => runs[c] = 0
    /\ pc[c] = "eval" => runs[c] <= 1 /\ (LossyLink \/ runs[c] = 0)
    /\ runs[c] <= 2 /\ (LossyLink \/ runs[c] <= 1)

LEMMA ChargesNext == TypeOK /\ Charges /\ [Next]_vars => Charges'
<1>. SUFFICES ASSUME TypeOK, Charges, [Next]_vars PROVE Charges'
  OBVIOUS
<1>1. ASSUME NEW c \in Caller, Call(c) PROVE Charges'
  <2>1. CASE Begin(c) \/ ScriptLoad(c)
    BY <2>1 DEF Begin, ScriptLoad, Goto, Charges, TypeOK
  <2>2. CASE Evalsha(c) \/ EvalshaFails(c) \/ EvalshaReplyLost(c)
    BY <2>2 DEF Evalsha, EvalshaFails, EvalshaReplyLost, RunScript, Return, Goto, Charges, TypeOK
  <2>3. CASE Eval(c) \/ EvalReplyLost(c) \/ CommandFails(c)
    BY <2>3 DEF Eval, EvalReplyLost, CommandFails, RunScript, Return, Goto, Charges, TypeOK
  <2>. QED
    BY <1>1, <2>1, <2>2, <2>3 DEF Call
<1>2. CASE BotRestarts
  BY <1>2 DEF BotRestarts, Charges
<1>3. CASE UNCHANGED callers
  BY <1>3 DEF callers, Charges
<1>. QED
  BY <1>1, <1>2, <1>3 DEF Next, RedisRestarts, Tick, vars, callers

LEMMA ChargesHold == Spec => []Charges
<1>1. Init => Charges
  BY DEF Init, Charges
<1>. QED
  BY <1>1, ChargesNext, TypeCorrect, PTL DEF Spec

\* No call pays for more than two tokens, whatever fails and restarts
\* (rate_limiter.py:108-117).
THEOREM ChargedAtMostTwice == Spec => [](\A c \in Caller : runs[c] <= 2)
<1>1. Charges => \A c \in Caller : runs[c] <= 2
  BY DEF Charges
<1>. QED
  BY <1>1, ChargesHold, PTL

\* If only NOSCRIPT makes EVALSHA fail, as the code expects, no call pays twice,
\* however often Redis and the bot restart (rate_limiter.py:110-117).
THEOREM ChargedOnceHolds ==
  ASSUME ~LossyLink
  PROVE  Spec => []ChargedOnce
<1>1. Charges => ChargedOnce
  BY DEF Charges, ChargedOnce
<1>. QED
  BY <1>1, ChargesHold, PTL
=============================================================================
