----------------------------- MODULE TokenBucket -----------------------------
(***************************************************************************)
(* One rate-limiter bucket shared by concurrent callers of                 *)
(* TokenBucketLimiter.acquire (loop_guard/rate_limiter.py).                *)
(*                                                                         *)
(* A caller samples the clock in its own process and the script runs later *)
(* on the Redis server, so scripts may run in another order than the one   *)
(* in which their time stamps were taken.  A command may fail with the     *)
(* script run (the reply is lost) or not; `acquire' treats every exception *)
(* of EVALSHA like NOSCRIPT and falls back to EVAL.                        *)
(***************************************************************************)
EXTENDS BucketScript, Sequences

CONSTANTS Caller,      \* the update tasks that call acquire on this bucket
          Capacity,    \* burst, in tokens
          Rate,        \* rate_per_sec, in 1 / (200 * Grain) of a token per second
          LossyLink,   \* may a Redis command fail?
          TimeSteps,   \* by how many ms the clock may advance in one step
          MaxTime      \* bound on the clock

ASSUME BucketAssumption ==
  /\ Capacity \in Nat \ {0}
  /\ Rate \in Nat
  /\ LossyLink \in BOOLEAN
  /\ TimeSteps \subseteq Nat \ {0}
  /\ MaxTime \in Nat

VARIABLES
  now,       \* the clock of the bot and of Redis, in ms
  bucket,    \* the Redis hash
  expireAt,  \* when its EXPIRE fires
  cached,    \* does the server's script cache hold the script?
  sha,       \* is self._sha set?
  pc,        \* where each caller is in acquire
  stamp,     \* the now_ms each caller has sampled
  outcome,   \* what the last acquire of each caller returned
  \* history
  runs,      \* how often the script ran for the current call of each caller
  credited,  \* total time for which a refill has been credited
  skew,      \* total time by which scripts ran behind the bucket's time
  grants     \* the value of `credited' at each token handed out

vars == <<now, bucket, expireAt, cached, sha, pc, stamp, outcome,
          runs, credited, skew, grants>>
server  == <<bucket, expireAt, credited, skew, grants>>
callers == <<sha, pc, stamp, outcome, runs>>

TypeOK ==
  /\ now \in Nat
  /\ bucket \in [exists : BOOLEAN, tokens : 0 .. Capacity * Unit, ts : 0 .. now]
  /\ expireAt \in Nat
  /\ cached \in BOOLEAN
  /\ sha \in BOOLEAN
  /\ pc \in [Caller -> {"idle", "load", "evalsha", "eval"}]
  /\ stamp \in [Caller -> 0 .. now]
  /\ outcome \in [Caller -> {"none", "allowed", "denied", "raised"}]
  /\ runs \in [Caller -> Nat]
  /\ credited \in Nat
  /\ skew \in Nat
  /\ grants \in Seq(Nat)

Init ==
  /\ now = 0
  /\ bucket = Absent(0)
  /\ expireAt = 0
  /\ cached = FALSE
  /\ sha = FALSE
  /\ pc = [c \in Caller |-> "idle"]
  /\ stamp = [c \in Caller |-> 0]
  /\ outcome = [c \in Caller |-> "none"]
  /\ runs = [c \in Caller |-> 0]
  /\ credited = 0
  /\ skew = 0
  /\ grants = <<>>

Goto(c, label) == pc' = [pc EXCEPT ![c] = label]

\* acquire returns (or raises); its local now_ms is gone.
Return(c, result) ==
  /\ Goto(c, "idle")
  /\ outcome' = [outcome EXCEPT ![c] = result]
  /\ stamp' = [stamp EXCEPT ![c] = 0]

\* The server runs the script for c.
RunScript(c, hair) ==
  LET result == Script(bucket, Capacity, Rate, stamp[c], hair)
  IN  /\ bucket' = result.bucket
      /\ \E loss \in Hair : expireAt' = now + IdleTtl(Capacity, Rate, loss)
      /\ runs' = [runs EXCEPT ![c] = @ + 1]
      /\ credited' = credited + Elapsed(bucket, stamp[c])
      /\ skew' = skew + Larger(0, bucket.ts - stamp[c])
      /\ grants' = IF result.allowed THEN Append(grants, credited') ELSE grants

Decision(c, hair) ==
  IF Script(bucket, Capacity, Rate, stamp[c], hair).allowed THEN "allowed" ELSE "denied"

-----------------------------------------------------------------------------
\* acquire, up to its first command: with _sha set nothing is awaited before
\* the clock is read.
Begin(c) ==
  /\ pc[c] = "idle"
  /\ Goto(c, IF sha THEN "evalsha" ELSE "load")
  /\ stamp' = [stamp EXCEPT ![c] = now]
  /\ runs' = [runs EXCEPT ![c] = 0]
  /\ outcome' = [outcome EXCEPT ![c] = "none"]
  /\ UNCHANGED <<now, server, cached, sha>>

\* SCRIPT LOAD is answered; then the clock is read.
ScriptLoad(c) ==
  /\ pc[c] = "load"
  /\ cached' = TRUE
  /\ sha' = TRUE
  /\ stamp' = [stamp EXCEPT ![c] = now]
  /\ Goto(c, "evalsha")
  /\ UNCHANGED <<now, server, outcome, runs>>

\* EVALSHA finds the script, runs it and is answered.
Evalsha(c) ==
  /\ pc[c] = "evalsha"
  /\ cached
  /\ \E hair \in Hair : RunScript(c, hair) /\ Return(c, Decision(c, hair))
  /\ UNCHANGED <<now, cached, sha>>

\* EVALSHA answers NOSCRIPT, or fails before it reaches the server.
EvalshaFails(c) ==
  /\ pc[c] = "evalsha"
  /\ ~cached \/ LossyLink
  /\ Goto(c, "eval")
  /\ UNCHANGED <<now, server, cached, sha, stamp, outcome, runs>>

\* EVALSHA runs the script but the reply is lost: the same handler catches it.
EvalshaReplyLost(c) ==
  /\ pc[c] = "evalsha"
  /\ cached /\ LossyLink
  /\ \E hair \in Hair : RunScript(c, hair)
  /\ Goto(c, "eval")
  /\ UNCHANGED <<now, cached, sha, stamp, outcome>>

\* EVAL always finds its script, and caches it; then self._sha = None.
Eval(c) ==
  /\ pc[c] = "eval"
  /\ \E hair \in Hair : RunScript(c, hair) /\ Return(c, Decision(c, hair))
  /\ cached' = TRUE
  /\ sha' = FALSE
  /\ UNCHANGED now

\* EVAL runs but its reply is lost: the exception leaves acquire.
EvalReplyLost(c) ==
  /\ pc[c] = "eval"
  /\ LossyLink
  /\ \E hair \in Hair : RunScript(c, hair)
  /\ cached' = TRUE
  /\ Return(c, "raised")
  /\ UNCHANGED <<now, sha>>

\* SCRIPT LOAD or EVAL fails before it reaches the server.
CommandFails(c) ==
  /\ pc[c] \in {"load", "eval"}
  /\ LossyLink
  /\ Return(c, "raised")
  /\ UNCHANGED <<now, server, cached, sha, runs>>

\* A Redis restart keeps the data (appendonly) and loses the script cache.
RedisRestarts ==
  /\ cached
  /\ cached' = FALSE
  /\ UNCHANGED <<now, server, callers>>

\* The bot's process stops, wherever its tasks are, and starts again.
BotRestarts ==
  /\ pc' = [c \in Caller |-> "idle"]
  /\ stamp' = [c \in Caller |-> 0]
  /\ outcome' = [c \in Caller |-> "none"]
  /\ runs' = [c \in Caller |-> 0]
  /\ sha' = FALSE
  /\ UNCHANGED <<now, server, cached>>

\* Time passes; a key whose TTL has run out is gone.
Tick(d) ==
  /\ now + d <= MaxTime
  /\ now' = now + d
  /\ IF bucket.exists /\ now' >= expireAt
     THEN /\ bucket' = Absent(now')
          /\ credited' = credited + (now' - bucket.ts)
     ELSE UNCHANGED <<bucket, credited>>
  /\ UNCHANGED <<expireAt, cached, skew, grants, callers>>

Call(c) ==
  \/ Begin(c)
  \/ ScriptLoad(c)
  \/ Evalsha(c)
  \/ EvalshaFails(c)
  \/ EvalshaReplyLost(c)
  \/ Eval(c)
  \/ EvalReplyLost(c)
  \/ CommandFails(c)

Next ==
  \/ \E c \in Caller : Call(c)
  \/ RedisRestarts
  \/ BotRestarts
  \/ \E d \in TimeSteps : Tick(d)

Spec == Init /\ [][Next]_vars

-----------------------------------------------------------------------------
(* Properties *)

\* The bucket implements TokenBudget, with an absent key standing for a full
\* balance: every script run is at most one payment out of a capped refill,
\* whatever the callers, lost replies and retries did, and a key only expires
\* once the bucket would be full anyway at its effective rate: at its own rate
\* from 0.005 per second on (rate_limiter.py:38-62,102-105).
Budget == INSTANCE TokenBudget
            WITH Burst <- Capacity * Unit,
                 Rate <- EffectiveRate(Rate),
                 balance <- Balance(bucket, Capacity)

BudgetSpec == Budget!Spec

\* Any run of consecutive tokens fits the burst plus the refill credited
\* between the first and the last of them: the bucket's contract over every
\* window (rate_limiter.py:43-51).
WindowBound == Budget!WindowBound

\* In real time the limit can be exceeded by no more than the effective rate
\* times the total amount by which scripts ran behind a younger time stamp: `ts'
\* is set to the caller's now_ms even when that moves it back
\* (rate_limiter.py:43,61,104,107).
SkewedRateBound ==
  Len(grants) * Unit <= Capacity * Unit + EffectiveRate(Rate) * (now + skew)

\* The promise of a token bucket in real time: never more tokens than the
\* burst plus the rate times the elapsed time (rate_limiter.py:18-20).
RateBound ==
  Len(grants) * Unit <= Capacity * Unit + Rate * now

\* retry_after_ms is right to a millisecond, whatever the doubles round: if a
\* call is denied now and nobody else calls meanwhile, a call a millisecond after
\* that wait is allowed and one two milliseconds before its end is not.  The
\* told wait itself may be one too short or one too long (rate_limiter.py:43-58).
WaitWithinAMillisecond ==
  \A hair, later \in Hair :
    LET denied   == Script(bucket, Capacity, Rate, now, hair)
        After(t) == Script(denied.bucket, Capacity, Rate, now + t, later)
    IN  Rate > 0 /\ ~denied.allowed
          => /\ denied.retry >= 1
             /\ After(denied.retry + 1).allowed
             /\ denied.retry >= 2 => ~After(denied.retry - 2).allowed

\* One acquire takes at most one token: the script runs once per call,
\* though a failed EVALSHA is followed by EVAL (rate_limiter.py:108-117).
ChargedOnce == \A c \in Caller : runs[c] <= 1
=============================================================================
