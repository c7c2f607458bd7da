------------------------------- MODULE Outbound -------------------------------
(***************************************************************************)
(* The two rate limits of an answer: steps 3 and 4 of                      *)
(* LoopGuard.gate_outbound (loop_guard/middleware.py), called by           *)
(* safe_reply (handlers/messages.py), ask the bucket of the answer's       *)
(* target and then the one global bucket.  Steps 1 and 2 are in ReplyChain.*)
(*                                                                         *)
(* Each bucket is the Redis hash of BucketScript.  A call of acquire       *)
(* samples the clock and has the script run later; EVALSHA that fails is   *)
(* followed by EVAL.  How the script gets into the server's cache is left  *)
(* to module TokenBucket.                                                  *)
(***************************************************************************)
EXTENDS BucketScript, Sequences, FiniteSets

CONSTANTS Task,         \* the answers that are given at once
          Target,       \* who is answered; one stands for the target id 0 of
                        \* messages without a sender
          Everyone,     \* the name of the global bucket
          TargetBurst,  \* rl_outbound_burst
          TargetRate,   \* rl_outbound_rps; all rates in 1 / (200 * Grain)
          GlobalBurst,  \* rl_global_burst
          GlobalRate,   \* rl_global_rps
          AbsMaxRate,   \* abs_max_outbound_rps, which may be 0
          MaxFaults,    \* bound on failing commands and process crashes
          TimeSteps,    \* by how many ms the clock may advance in one step
          MaxTime       \* bound on the clock

ASSUME OutboundAssumption ==
  /\ IsFiniteSet(Task) /\ Everyone \notin Target
  /\ {TargetBurst, TargetRate, GlobalBurst, GlobalRate} \subseteq Nat \ {0}
  /\ {AbsMaxRate, MaxFaults, MaxTime} \subseteq Nat
  /\ TimeSteps \subseteq Nat \ {0}

Bucket   == Target \cup {Everyone}
Burst(b) == IF b = Everyone THEN GlobalBurst ELSE TargetBurst

VARIABLES
  now,
  bucket,    \* the Redis hash of each bucket
  expireAt,  \* when its EXPIRE fires
  pc,        \* where each task is in gate_outbound and safe_reply
  target,    \* who it answers
  gates,     \* the buckets it still has to ask
  stamp,     \* the now_ms of its call of acquire
  faults,
  \* history
  granted,   \* the tokens handed out by each bucket
  spent,     \* the global tokens handed out for answers to each target
  cleared,   \* the number of answers that passed both gates
  skew       \* the total time by which scripts ran behind each bucket's time

store   == <<bucket, expireAt>>
tasks   == <<pc, target, gates, stamp>>
history == <<granted, spent, cleared, skew>>
vars    == <<now, store, tasks, faults, history>>

TypeOK ==
  /\ now \in Nat
  /\ bucket \in [Bucket -> [exists : BOOLEAN, tokens : Nat, ts : 0 .. now]]
  /\ \A b \in Bucket : bucket[b].tokens <= Burst(b) * Unit
  /\ expireAt \in [Bucket -> Nat]
  /\ pc \in [Task -> {"idle", "resume", "evalsha", "eval", "send"}]
  /\ target \in [Task -> Bucket]
  /\ \A t \in Task : pc[t] # "idle" => target[t] \in Target
  /\ gates \in [Task -> Seq(Bucket)]
  /\ \A t \in Task : pc[t] \in {"resume", "evalsha", "eval"} => gates[t] # <<>>
  /\ stamp \in [Task -> 0 .. now]
  /\ faults \in 0 .. MaxFaults
  /\ granted \in [Bucket -> Nat]
  /\ spent \in [Target -> Nat]
  /\ cleared \in Nat
  /\ skew \in [Bucket -> Nat]

Init ==
  /\ now = 0
  /\ bucket = [b \in Bucket |-> Absent(0)]
  /\ expireAt = [b \in Bucket |-> 0]
  /\ pc = [t \in Task |-> "idle"]
  /\ target = [t \in Task |-> Everyone]
  /\ gates = [t \in Task |-> <<>>]
  /\ stamp = [t \in Task |-> 0]
  /\ faults = 0
  /\ granted = [b \in Bucket |-> 0]
  /\ spent = [g \in Target |-> 0]
  /\ cleared = 0
  /\ skew = [b \in Bucket |-> 0]

RateUncapped(b) == IF b = Everyone THEN GlobalRate ELSE TargetRate

\* check_outbound_target, check_outbound_global: the global rate is capped.
Rate(b) == IF b = Everyone THEN Smaller(GlobalRate, AbsMaxRate) ELSE TargetRate

GatesGlobalFirst(g) == <<Everyone, g>>
GatesTargetOnly(g)  == <<g>>

\* The buckets that an answer to g asks, in this order.
Gates(g) == <<g, Everyone>>

GlobalWaitOfTarget(first, second) == first.retry

\* retry_after_ms of the second refusal: rl_g's, not rl_t's.
GlobalWait(first, second) == second.retry

\* The decision of gate_outbound if all of it runs at one moment, for who is
\* alone: whether it allows, the wait it tells, and the two hashes it leaves.
Decision(own, shared, g, at, hair, other) ==
  LET first  == Script(own, Burst(g), Rate(g), at, hair)
      second == Script(shared, Burst(Everyone), Rate(Everyone), at, other)
  IN  IF first.allowed
      THEN [allowed |-> second.allowed, retry |-> GlobalWait(first, second),
            own |-> first.bucket, shared |-> second.bucket]
      ELSE [allowed |-> FALSE, retry |-> first.retry,
            own |-> first.bucket, shared |-> shared]

\* The decisions it may come to, as the doubles are rounded.
Asked(own, shared, g, at) ==
  {Decision(own, shared, g, at, hair, other) : hair, other \in Hair}

Goto(t, label) == pc' = [pc EXCEPT ![t] = label]

\* safe_reply ends; its locals are gone.
Finish(t) ==
  /\ Goto(t, "idle")
  /\ target' = [target EXCEPT ![t] = Everyone]
  /\ gates' = [gates EXCEPT ![t] = <<>>]
  /\ stamp' = [stamp EXCEPT ![t] = 0]

Asking(t) == pc[t] \in {"evalsha", "eval"}

\* What the script of the bucket that t asks may answer, as the doubles are
\* rounded, and for how long the key may be kept.
Replies(t) ==
  LET b == Head(gates[t])
  IN  {Script(bucket[b], Burst(b), Rate(b), stamp[t], hair) : hair \in Hair}

Ttls(b) == {IdleTtl(Burst(b), Rate(b), hair) : hair \in Hair}

\* The server runs that script.
RunScript(t, reply) ==
  LET b    == Head(gates[t])
      paid == IF reply.allowed THEN 1 ELSE 0
  IN  /\ bucket' = [bucket EXCEPT ![b] = reply.bucket]
      /\ \E ttl \in Ttls(b) : expireAt' = [expireAt EXCEPT ![b] = now + ttl]
      /\ granted' = [granted EXCEPT ![b] = @ + paid]
      /\ spent' = IF b = Everyone THEN [spent EXCEPT ![target[t]] = @ + paid] ELSE spent
      /\ skew' = [skew EXCEPT ![b] = @ + Larger(0, bucket[b].ts - stamp[t])]

-----------------------------------------------------------------------------
\* gate_outbound reaches step 3.
Answer(t, g) ==
  /\ pc[t] = "idle"
  /\ Goto(t, "evalsha")
  /\ target' = [target EXCEPT ![t] = g]
  /\ gates' = [gates EXCEPT ![t] = Gates(g)]
  /\ stamp' = [stamp EXCEPT ![t] = now]
  /\ UNCHANGED <<now, store, faults, history>>

\* The bucket has a token: on to the next one, or to reply_text.
Allowed(t) ==
  /\ Asking(t)
  /\ \E reply \in Replies(t) : reply.allowed /\ RunScript(t, reply)
  /\ gates' = [gates EXCEPT ![t] = Tail(@)]
  /\ stamp' = [stamp EXCEPT ![t] = 0]
  /\ IF gates'[t] = <<>>
     THEN Goto(t, "send") /\ cleared' = cleared + 1
     ELSE Goto(t, "resume") /\ UNCHANGED cleared
  /\ UNCHANGED <<now, target, faults>>

\* The next call of acquire reads the clock for itself.
Resume(t) ==
  /\ pc[t] = "resume"
  /\ Goto(t, "evalsha")
  /\ stamp' = [stamp EXCEPT ![t] = now]
  /\ UNCHANGED <<now, store, target, gates, faults, history>>

\* DROP_RATE_LIMIT: the answer is given up.
Denied(t) ==
  /\ Asking(t)
  /\ \E reply \in Replies(t) : ~reply.allowed /\ RunScript(t, reply)
  /\ Finish(t)
  /\ UNCHANGED <<now, faults, cleared>>

\* A failed EVALSHA is followed by EVAL; an exception of EVAL leaves safe_reply.
Raises(t) ==
  /\ faults < MaxFaults
  /\ faults' = faults + 1
  /\ IF pc[t] = "evalsha"
     THEN Goto(t, "eval") /\ UNCHANGED <<target, gates, stamp>>
     ELSE Finish(t)

\* The command fails before it reaches the server ...
Unreached(t) ==
  /\ Asking(t)
  /\ Raises(t)
  /\ UNCHANGED <<now, store, history>>

\* ... or its reply is lost.
ReplyLost(t) ==
  /\ Asking(t)
  /\ \E reply \in Replies(t) : RunScript(t, reply)
  /\ Raises(t)
  /\ UNCHANGED <<now, cleared>>

\* reply_text, which Telegram may refuse, and record_outbound, which asks no
\* bucket (ReplyChain takes both apart).
Send(t) ==
  /\ pc[t] = "send"
  /\ Finish(t)
  /\ UNCHANGED <<now, store, faults, history>>

\* The process stops; the answers it was giving are lost, the buckets are not.
Crash ==
  /\ faults < MaxFaults
  /\ faults' = faults + 1
  /\ pc' = [t \in Task |-> "idle"]
  /\ target' = [t \in Task |-> Everyone]
  /\ gates' = [t \in Task |-> <<>>]
  /\ stamp' = [t \in Task |-> 0]
  /\ UNCHANGED <<now, store, history>>

\* Time passes; a key whose TTL has run out is gone.
Tick(d) ==
  /\ now + d <= MaxTime
  /\ now' = now + d
  /\ bucket' = [b \in Bucket |-> IF bucket[b].exists /\ now' >= expireAt[b]
                                 THEN Absent(now') ELSE bucket[b]]
  /\ UNCHANGED <<expireAt, tasks, faults, history>>

Next ==
  \/ \E t \in Task : \/ \E g \in Target : Answer(t, g)
                     \/ Allowed(t) \/ Resume(t) \/ Denied(t)
                     \/ Unreached(t) \/ ReplyLost(t)
                     \/ Send(t)
  \/ Crash
  \/ \E d \in TimeSteps : Tick(d)

Spec == Init /\ [][Next]_vars

-----------------------------------------------------------------------------
(* Properties *)

\* The hard ceiling: the answers that passed the gate fit the global burst and
\* the smaller of the two rates, up to the stamp skew that the script allows,
\* however answers interleave, fail and are retried.  A ceiling below 0.005 per
\* second bounds no better than one of 0.005, for the key expires before the
\* bucket is full (config.py:56-57, rate_limiter.py:102-104,140-147,
\* middleware.py:212-219).
Ceiling ==
  cleared * Unit
    <= GlobalBurst * Unit
         + EffectiveRate(Smaller(GlobalRate, AbsMaxRate)) * (now + skew[Everyone])

\* No target starves the others: whatever is asked for its sake, it draws no
\* more from the global bucket than its own limit allows, at its effective rate,
\* but for one token per fault: what its own limit refuses never reaches the
\* global bucket (middleware.py:203-219).
Isolation ==
  \A g \in Target :
    (spent[g] - faults) * Unit
      <= TargetBurst * Unit + EffectiveRate(TargetRate) * (now + skew[g])

\* The target's token is spent even if the global limit then refuses, so the
\* wait that is told may not be the last.  But whoever repeats an answer each time
\* a millisecond after it is told to, undisturbed, is through after three waits
\* at the latest: for the target, for everyone, and for the target again
\* (middleware.py:203-219, rate_limiter.py:52-58).
ThreeWaits ==
  \A g \in Target :
    LET Again(a, at) == Asked(a.own, a.shared, g, at)
    IN  Rate(Everyone) > 0 =>
          \A first \in Asked(bucket[g], bucket[Everyone], g, now) :
            LET now2 == now + first.retry + 1
            IN  first.allowed \/ \A second \in Again(first, now2) :
                  LET now3 == now2 + second.retry + 1
                  IN  second.allowed \/ \A third \in Again(second, now3) :
                        LET now4 == now3 + third.retry + 1
                        IN  third.allowed \/ \A fourth \in Again(third, now4) :
                              fourth.allowed
=============================================================================
