---------------------------- MODULE CircuitBreaker ----------------------------
(***************************************************************************)
(* The circuit breaker of one (chat, bot) pair, as the inbound pipeline    *)
(* drives it: loop_guard/circuit_breaker.py with the breaker's part of     *)
(* LoopGuard.evaluate_inbound.                                             *)
(*                                                                         *)
(* Every Redis command is a step of its own, and the messages of one bot   *)
(* are evaluated concurrently (concurrent_updates(True)).  Time is kept    *)
(* relative, in seconds: the age of every sorted-set entry and the TTL of  *)
(* every key.  An age saturates at Oldest, beyond which every prune takes  *)
(* the entry.                                                              *)
(***************************************************************************)
EXTENDS Integers, FiniteSets

CONSTANTS Task,       \* the updates of the bot that are evaluated at once
          Threshold,  \* cb_threshold
          Window,     \* cb_window_seconds
          Cooldown,   \* cb_cooldown_seconds
          MaxLag,     \* how long the commands after a clock sample may take
          MaxFaults   \* bound on failing evaluations and process crashes

ASSUME BreakerAssumption ==
  /\ IsFiniteSet(Task)
  /\ {Threshold, Window, Cooldown} \subseteq Nat \ {0}
  /\ {MaxLag, MaxFaults} \subseteq Nat

Oldest == Window + MaxLag
Age    == 0 .. Oldest
NoTtl  == 0

VARIABLES
  open,     \* TTL of the open key; 0 when it does not exist
  entries,  \* the sorted set: how many entries there are of each age
  winTtl,   \* TTL of the sorted set, NoTtl when it has none
  pc,       \* the next command of each evaluation
  age,      \* age of the now_ms each evaluation has sampled
  faults,
  \* history, each count saturating just above the threshold
  seen,     \* recorded messages by age
  passed,   \* messages that `observe' judged CLOSED, whether the limiter had
            \* refused them or not, by age
  audited,  \* was the current opening reported?
  prompt    \* did no time pass between any clock sample and its commands?

keys    == <<open, entries, winTtl>>
history == <<seen, passed, audited, prompt>>
vars    == <<keys, pc, age, faults, history>>

Sampled == {"zadd", "zremrangebyscore", "expire", "zcard"}
Label == {"idle", "limit", "is_open", "trip", "audit"} \cup Sampled

None == [a \in Age |-> 0]
Bump(f, a) == [f EXCEPT ![a] = IF @ > Threshold THEN @ ELSE @ + 1]

TypeOK ==
  /\ open \in 0 .. Cooldown
  /\ entries \in [Age -> Nat]
  /\ winTtl \in {NoTtl} \cup 1 .. Window + 1
  /\ pc \in [Task -> Label]
  /\ age \in [Task -> 0 .. MaxLag]
  /\ faults \in 0 .. MaxFaults
  /\ seen \in [Age -> 0 .. Threshold + 1]
  /\ passed \in [Age -> 0 .. Threshold + 1]
  /\ audited \in BOOLEAN /\ prompt \in BOOLEAN

Init ==
  /\ open = 0
  /\ entries = None
  /\ winTtl = NoTtl
  /\ pc = [t \in Task |-> "idle"]
  /\ age = [t \in Task |-> 0]
  /\ faults = 0
  /\ seen = None
  /\ passed = None
  /\ audited = FALSE /\ prompt = TRUE

Goto(t, label) == pc' = [pc EXCEPT ![t] = label]

\* The evaluation of t ends; its locals are gone.
Finish(t) ==
  /\ Goto(t, "idle")
  /\ age' = [age EXCEPT ![t] = 0]

-----------------------------------------------------------------------------
\* is_open
IsOpenIgnored == FALSE
IsOpen == open > 0

\* evaluate_inbound, step 2: drop while the breaker is open.
Arrive(t) ==
  /\ pc[t] = "idle"
  /\ ~IsOpen
  /\ Goto(t, "limit")
  /\ UNCHANGED <<keys, age, faults, history>>

\* Step 3, which trusted bots skip, drops a duplicate, which the breaker never
\* hears of; step 4 asks the rate limiter and, whatever it answers, has the
\* breaker observe.
Duplicate(t) ==
  /\ pc[t] = "limit"
  /\ Finish(t)
  /\ UNCHANGED <<keys, faults, history>>

RateLimit(t) ==
  /\ pc[t] = "limit"
  /\ Goto(t, "is_open")
  /\ UNCHANGED <<keys, age, faults, history>>

\* observe: an open breaker counts nothing; otherwise the clock is read.
ObserveOpen(t) ==
  /\ pc[t] = "is_open"
  /\ IsOpen
  /\ Finish(t)
  /\ UNCHANGED <<keys, faults, history>>

ObserveClosed(t) ==
  /\ pc[t] = "is_open"
  /\ ~IsOpen
  /\ Goto(t, "zadd")
  /\ UNCHANGED <<keys, age, faults, history>>

\* ZADD creates a missing key without a TTL and keeps that of an existing one.
Zadd(t) ==
  /\ pc[t] = "zadd"
  /\ entries' = [entries EXCEPT ![age[t]] = @ + 1]
  /\ seen' = Bump(seen, age[t])
  /\ Goto(t, "zremrangebyscore")
  /\ UNCHANGED <<open, winTtl, age, faults, passed, audited, prompt>>

NonePruned(t) == {}
Pruned(t) == {a \in Age : a >= age[t] + Window}

\* ZREMRANGEBYSCORE 0 now_ms - win_ms; an emptied set is a missing key.
Zrem(t) ==
  /\ pc[t] = "zremrangebyscore"
  /\ entries' = [a \in Age |-> IF a \in Pruned(t) THEN 0 ELSE entries[a]]
  /\ winTtl' = IF entries' = None THEN NoTtl ELSE winTtl
  /\ Goto(t, "expire")
  /\ UNCHANGED <<open, age, faults, history>>

WindowTtlOnce == IF winTtl = NoTtl THEN Window + 1 ELSE winTtl
WindowTtl == Window + 1

\* EXPIRE cb_window_seconds + 1; on a missing key it does nothing.
Expire(t) ==
  /\ pc[t] = "expire"
  /\ winTtl' = IF entries = None THEN NoTtl ELSE WindowTtl
  /\ Goto(t, "zcard")
  /\ UNCHANGED <<open, entries, age, faults, history>>

\* The members of the sorted set, or of a history, whose age is in ages.
Members(f, ages) == UNION {{a} \X (1 .. f[a]) : a \in ages}
Count(f, ages)   == Cardinality(Members(f, ages))

ExceedsByTwo == Count(entries, Age) > Threshold + 1

\* ZCARD, then count > cb_threshold.
Exceeds == Count(entries, Age) > Threshold

ZcardTrips(t) ==
  /\ pc[t] = "zcard"
  /\ Exceeds
  /\ Goto(t, "trip")
  /\ age' = [age EXCEPT ![t] = 0]
  /\ UNCHANGED <<keys, faults, history>>

ZcardPasses(t) ==
  /\ pc[t] = "zcard"
  /\ ~Exceeds
  /\ passed' = Bump(passed, age[t])
  /\ Finish(t)
  /\ UNCHANGED <<keys, faults, seen, audited, prompt>>

CooldownInMs == 1000 * Cooldown
CooldownTtl  == Cooldown

TripSilently(t) ==
  /\ pc[t] = "trip"
  /\ open' = CooldownTtl
  /\ audited' = (open > 0 /\ audited)
  /\ Finish(t)
  /\ UNCHANGED <<entries, winTtl, faults, seen, passed, prompt>>

\* trip: SET open EX cb_cooldown_seconds, and just_tripped.
Trip(t) ==
  /\ pc[t] = "trip"
  /\ open' = CooldownTtl
  /\ audited' = (open > 0 /\ audited)
  /\ Goto(t, "audit")
  /\ UNCHANGED <<entries, winTtl, age, faults, seen, passed, prompt>>

\* audit.emit("loop_guard.breaker_tripped"), then the message is dropped.
Audit(t) ==
  /\ pc[t] = "audit"
  /\ audited' = TRUE
  /\ Finish(t)
  /\ UNCHANGED <<keys, faults, seen, passed, prompt>>

\* A command or the audit append raises: the evaluation ends where it is.
Fail(t) ==
  /\ pc[t] # "idle"
  /\ faults < MaxFaults
  /\ faults' = faults + 1
  /\ Finish(t)
  /\ UNCHANGED <<keys, history>>

\* The process stops; its evaluations are lost, Redis is not.
Crash ==
  /\ faults < MaxFaults
  /\ faults' = faults + 1
  /\ pc' = [t \in Task |-> "idle"]
  /\ age' = [t \in Task |-> 0]
  /\ UNCHANGED <<keys, history>>

\* One second later; no evaluation takes more than MaxLag between its clock
\* sample and its ZCARD.
Older(f) ==
  [a \in Age |-> IF a = 0 THEN 0
                 ELSE IF a = Oldest THEN f[a - 1] + f[a]
                 ELSE f[a - 1]]

Saturate(f) == [a \in Age |-> IF f[a] > Threshold THEN Threshold + 1 ELSE f[a]]

Tick ==
  /\ \A t \in Task : pc[t] \in Sampled => age[t] < MaxLag
  /\ age' = [t \in Task |-> IF pc[t] \in Sampled THEN age[t] + 1 ELSE 0]
  /\ open' = IF open > 0 THEN open - 1 ELSE 0
  /\ entries' = IF winTtl = 1 THEN None ELSE Older(entries)
  /\ winTtl' = IF winTtl \in {NoTtl, 1} THEN NoTtl ELSE winTtl - 1
  /\ seen' = Saturate(Older(seen))
  /\ passed' = Saturate(Older(passed))
  /\ prompt' = (prompt /\ \A t \in Task : pc[t] \notin Sampled)
  /\ UNCHANGED <<pc, faults, audited>>

Evaluate(t) ==
  \/ Duplicate(t)
  \/ RateLimit(t)
  \/ ObserveOpen(t)
  \/ ObserveClosed(t)
  \/ Zadd(t)
  \/ Zrem(t)
  \/ Expire(t)
  \/ ZcardTrips(t)
  \/ ZcardPasses(t)
  \/ Trip(t)
  \/ Audit(t)

Next ==
  \/ \E t \in Task : Arrive(t) \/ Evaluate(t) \/ Fail(t)
  \/ Crash
  \/ Tick

Spec == Init /\ [][Next]_vars

\* The event loop runs every evaluation on, and time passes.
Fairness == WF_vars(Tick) /\ \A t \in Task : WF_vars(Evaluate(t))

FairSpec == Spec /\ Fairness

-----------------------------------------------------------------------------
(* Properties *)

\* The messages judged CLOSED whose time stamps lie within one window.
Admitted == Count(passed, 0 .. Window - 1)

\* As long as no time passes between a clock sample and its commands, not even
\* the millisecond in which Redis may expire the key, the breaker lets at most
\* cb_threshold messages of one window through: the next one trips it, in
\* whatever order the evaluations' commands interleave and whatever fails
\* (circuit_breaker.py:3-4,66-76).
QuietBound == prompt => Admitted <= Threshold

\* What is left of it when commands may lag behind their clock sample: each
\* evaluation under way can slip one message past an expiring window key
\* (circuit_breaker.py:64-71).
LaggedBound == Admitted <= Threshold + Cardinality(Task)

\* The breaker never trips on a quiet bot: when it decides to, more than
\* cb_threshold messages were recorded within the window and the lag, however
\* old the set's entries may have become (circuit_breaker.py:69,73).  With a lag
\* as long as the window it could: one evaluation's late entry may outlive the
\* window and the lag between another's prune and its count.
TripJustified ==
  [][\A t \in Task :
       pc[t] = "zcard" /\ pc'[t] = "trip" => Count(seen, 0 .. Oldest - 1) > Threshold]_vars

\* As long as nothing failed, an open breaker has been reported, or is about to
\* be by an evaluation under way (circuit_breaker.py:5-6, middleware.py:139,153).
OpenIsAudited ==
  faults = 0 /\ open > 0 => audited \/ \E t \in Task : pc[t] \in {"trip", "audit"}

\* A tripped breaker closes again: nothing the bot sends prolongs its cooldown
\* (circuit_breaker.py:4,59-60, middleware.py:105-107).
ClosesAgain == open > 0 ~> open = 0
=============================================================================
