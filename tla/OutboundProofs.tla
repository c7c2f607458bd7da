--------------------------- MODULE OutboundProofs ---------------------------
(***************************************************************************)
(* For any number of answers and targets, any bursts and rates, however    *)
(* the doubles round and whatever fails, is retried or crashes: the ceiling*)
(* on answers, the share of the global bucket that one target can draw, and*)
(* the waits that an answer is told.                                       *)
(***************************************************************************)
EXTENDS Outbound, BucketScriptProofs, FiniteSetTheorems

\* An answer asks its target's bucket and then the global one.
Waiting(t) == pc[t] \in {"resume", "evalsha", "eval"}

Gated(t) ==
  Waiting(t) => gates[t] = <<target[t], Everyone>> \/ gates[t] = <<Everyone>>

\* A key outlives its last use by at least the idle TTL.
LivesOn(b) ==
  bucket[b].exists => \E ttl \in Ttls(b) : expireAt[b] >= bucket[b].ts + ttl

\* The rate at which what a bucket gives away is bounded.
Pace(b) == EffectiveRate(Rate(b))

\* What a bucket handed out and still holds is its burst and the refill, up to
\* its own time and what was gained by moving that time back.
Ledger(b) ==
  granted[b] * Unit + Balance(bucket[b], Burst(b))
    <= Burst(b) * Unit + Pace(b) * (bucket[b].ts + skew[b])

\* The answers to g that the target's bucket allowed and the global one has
\* not answered yet.
AtGlobal(g) == {t \in Task : Waiting(t) /\ target[t] = g /\ gates[t] = <<Everyone>>}

\* Each of them, and each global token spent for g, is one of g's own tokens, but
\* for those spent again by a fault.
Covered(g) == spent[g] + Cardinality(AtGlobal(g)) <= granted[g] + faults

Typed ==
  /\ TypeOK
  /\ \A t \in Task : Gated(t)

Books ==
  /\ \A b \in Bucket : LivesOn(b) /\ Ledger(b)
  /\ cleared <= granted[Everyone]
  /\ \A g \in Target : Covered(g)

-----------------------------------------------------------------------------
(* Constants *)

LEMMA OutboundConstants ==
  /\ \A b \in Bucket : /\ Burst(b) \in Nat \ {0} /\ Rate(b) \in Nat
                       /\ Pace(b) \in Nat \ {0} /\ Rate(b) <= Pace(b)
                       /\ \A ttl \in Ttls(b) : ttl \in Nat
                       /\ Burst(b) * Unit \in Nat
  /\ Everyone \in Bucket /\ Target \subseteq Bucket /\ MaxFaults \in Nat
  /\ Unit \in Nat \ {0}
<1>1. \A b \in Bucket : Burst(b) \in Nat \ {0} /\ Rate(b) \in Nat
  BY OutboundAssumption DEF Burst, Rate, Smaller
<1>2. \A b \in Bucket : \A ttl \in Ttls(b) : ttl \in Nat
  <2>. TAKE b \in Bucket
  <2>1. Burst(b) \in Nat /\ Rate(b) \in Nat
    BY <1>1
  <2>2. \A hair \in Hair : IdleTtl(Burst(b), Rate(b), hair) \in Nat
    BY <2>1, TtlType
  <2>. QED
    BY <2>2 DEF Ttls
<1>3. \A b \in Bucket : Pace(b) \in Nat \ {0} /\ Rate(b) <= Pace(b)
  BY <1>1, GrainAssumption DEF Pace, EffectiveRate, Larger
<1>4. Unit \in Nat \ {0}
  BY GrainAssumption DEF Unit
<1>5. \A b \in Bucket : Burst(b) * Unit \in Nat
  <2>1. \A x, y \in Nat : x * y \in Nat
    BY Z3
  <2>. QED
    BY <1>1, <1>4, <2>1
<1>. QED
  BY <1>1, <1>2, <1>3, <1>4, <1>5, OutboundAssumption DEF Bucket

LEMMA Distributes ==
  /\ \A r, x, y \in Int : r * (x + y) = r * x + r * y
  /\ \A r, x \in Int : r * x \in Int /\ x * r = r * x
  BY Z3

LEMMA Grows ==
  /\ \A r, x \in Nat : r * x \in Nat
  /\ \A r, x, y \in Nat : x <= y => x * r <= y * r
  BY Z3

-----------------------------------------------------------------------------
(* One run of the script *)

\* The bucket that a task asks, and whether it is paid.
LEMMA AskedBucket ==
  ASSUME Typed, NEW t \in Task, Asking(t)
  PROVE  /\ gates[t] = <<target[t], Everyone>> \/ gates[t] = <<Everyone>>
         /\ target[t] \in Target
         /\ Head(gates[t]) \in Bucket
         /\ stamp[t] \in 0 .. now /\ now \in Nat
<1>1. pc[t] # "idle" /\ Waiting(t)
  BY DEF Asking, Waiting
<1>2. gates[t] = <<target[t], Everyone>> \/ gates[t] = <<Everyone>>
  BY <1>1 DEF Typed, Gated
<1>3. target[t] \in Target /\ stamp[t] \in 0 .. now /\ now \in Nat
  BY <1>1 DEF Typed, TypeOK
<1>. QED
  BY <1>2, <1>3 DEF Bucket

LEMMA HashType ==
  ASSUME TypeOK, NEW b \in Bucket
  PROVE  IsBucket(bucket[b], Burst(b)) /\ bucket[b].ts \in 0 .. now
  BY DEF TypeOK, IsBucket

\* What the script may reply, whatever the doubles round.
LEMMA ReplyPays ==
  ASSUME Typed, NEW t \in Task, Asking(t), NEW reply \in Replies(t)
  PROVE  LET a == Head(gates[t])
         IN  /\ IsBucket(reply.bucket, Burst(a)) /\ reply.bucket.ts = stamp[t]
             /\ reply.allowed \in BOOLEAN
             /\ Paid(reply) + Balance(reply.bucket, Burst(a))
                  <= Balance(bucket[a], Burst(a)) + Rate(a) * Larger(0, stamp[t] - bucket[a].ts)
<1>1. PICK a \in Bucket : a = Head(gates[t])
  BY AskedBucket
<1>2. PICK hair \in Hair : reply = Script(bucket[a], Burst(a), Rate(a), stamp[t], hair)
  BY <1>1 DEF Replies
<1>3. Burst(a) \in Nat /\ Rate(a) \in Nat /\ IsBucket(bucket[a], Burst(a)) /\ stamp[t] \in Nat
  BY AskedBucket, OutboundConstants, HashType DEF Typed
<1>4. /\ IsBucket(reply.bucket, Burst(a))
      /\ Paid(reply) + Balance(reply.bucket, Burst(a))
           <= Balance(bucket[a], Burst(a)) + Rate(a) * Larger(0, stamp[t] - bucket[a].ts)
  BY <1>2, <1>3, RunPays, Zenon
<1>5. reply.bucket.ts = stamp[t] /\ reply.allowed \in BOOLEAN
  BY <1>2 DEF Script
<1>. QED
  BY <1>1, <1>4, <1>5

LEMMA RunScriptTyped ==
  ASSUME Typed, NEW t \in Task, Asking(t), NEW reply \in Replies(t), RunScript(t, reply),
         now' = now
  PROVE  /\ bucket' \in [Bucket -> [exists : BOOLEAN, tokens : Nat, ts : 0 .. now']]
         /\ \A b \in Bucket : bucket'[b].tokens <= Burst(b) * Unit
         /\ expireAt' \in [Bucket -> Nat]
         /\ granted' \in [Bucket -> Nat]
         /\ spent' \in [Target -> Nat]
         /\ skew' \in [Bucket -> Nat]
<1>. DEFINE a == Head(gates[t])
            paid == IF reply.allowed THEN 1 ELSE 0
<1>1. /\ a \in Bucket /\ target[t] \in Target /\ stamp[t] \in 0 .. now /\ now \in Nat
      /\ stamp[t] \in Nat
  BY AskedBucket
<1>2. bucket[a].ts \in Nat
  BY <1>1, HashType DEF Typed
<1>3. IsBucket(reply.bucket, Burst(a)) /\ reply.bucket.ts = stamp[t] /\ paid \in Nat
  BY ReplyPays
<1>4. PICK ttl \in Ttls(a) :
        /\ bucket' = [bucket EXCEPT ![a] = reply.bucket]
        /\ expireAt' = [expireAt EXCEPT ![a] = now + ttl]
        /\ granted' = [granted EXCEPT ![a] = @ + paid]
        /\ spent' = IF a = Everyone THEN [spent EXCEPT ![target[t]] = @ + paid] ELSE spent
        /\ skew' = [skew EXCEPT ![a] = @ + Larger(0, bucket[a].ts - stamp[t])]
  BY DEF RunScript
<1>. HIDE DEF a, paid
<1>5. /\ reply.bucket \in [exists : BOOLEAN, tokens : Nat, ts : 0 .. now']
      /\ reply.bucket.tokens <= Burst(a) * Unit
  BY <1>1, <1>3 DEF IsBucket
<1>6. /\ bucket' \in [Bucket -> [exists : BOOLEAN, tokens : Nat, ts : 0 .. now']]
      /\ \A b \in Bucket : bucket'[b].tokens <= Burst(b) * Unit
  BY <1>1, <1>4, <1>5 DEF Typed, TypeOK
<1>7. expireAt' \in [Bucket -> Nat]
  <2>1. ttl \in Nat
    BY <1>1, OutboundConstants
  <2>. QED
    BY <1>1, <1>4, <2>1 DEF Typed, TypeOK
<1>8. granted' \in [Bucket -> Nat] /\ spent' \in [Target -> Nat]
  <2>1. granted \in [Bucket -> Nat] /\ spent \in [Target -> Nat]
    BY DEF Typed, TypeOK
  <2>2. granted' \in [Bucket -> Nat]
    BY <1>1, <1>3, <1>4, <2>1
  <2>3. spent' \in [Target -> Nat]
    BY <1>1, <1>3, <1>4, <2>1
  <2>. QED
    BY <2>2, <2>3
<1>9. Larger(0, bucket[a].ts - stamp[t]) \in Nat
  BY <1>1, <1>2 DEF Larger
<1>10. skew' \in [Bucket -> Nat]
  BY <1>1, <1>4, <1>9 DEF Typed, TypeOK
<1>. QED
  BY <1>6, <1>7, <1>8, <1>10

\* A run keeps every ledger: it pays out of the balance and the refill.
LEMMA RunScriptBooks ==
  ASSUME Typed, Books, NEW t \in Task, Asking(t), NEW reply \in Replies(t),
         RunScript(t, reply), now' = now
  PROVE  \A b \in Bucket : LivesOn(b)' /\ Ledger(b)'
<1>1. PICK a \in Bucket : a = Head(gates[t])
  BY AskedBucket
<1>. DEFINE paid == IF reply.allowed THEN 1 ELSE 0
<1>2. /\ stamp[t] \in Nat /\ stamp[t] <= now /\ now \in Nat
      /\ Burst(a) \in Nat /\ Rate(a) \in Nat /\ Pace(a) \in Nat /\ Rate(a) <= Pace(a)
      /\ IsBucket(bucket[a], Burst(a)) /\ bucket[a].ts \in Nat
      /\ granted[a] \in Nat /\ skew[a] \in Nat
  <2>1. stamp[t] \in Nat /\ stamp[t] <= now /\ now \in Nat
    BY AskedBucket
  <2>2. Burst(a) \in Nat /\ Rate(a) \in Nat /\ Pace(a) \in Nat /\ Rate(a) <= Pace(a)
    BY OutboundConstants
  <2>3. IsBucket(bucket[a], Burst(a)) /\ bucket[a].ts \in Nat
    BY <2>1, HashType DEF Typed
  <2>4. granted[a] \in Nat /\ skew[a] \in Nat
    BY DEF Typed, TypeOK
  <2>. QED
    BY <2>1, <2>2, <2>3, <2>4
<1>3. /\ reply.bucket.ts = stamp[t] /\ reply.allowed \in BOOLEAN
      /\ IsBucket(reply.bucket, Burst(a))
      /\ Paid(reply) + Balance(reply.bucket, Burst(a))
           <= Balance(bucket[a], Burst(a)) + Rate(a) * Larger(0, stamp[t] - bucket[a].ts)
  BY <1>1, ReplyPays, Zenon
<1>4. PICK ttl \in Ttls(a) :
        /\ bucket' = [bucket EXCEPT ![a] = reply.bucket]
        /\ expireAt' = [expireAt EXCEPT ![a] = now + ttl]
        /\ granted' = [granted EXCEPT ![a] = @ + paid]
        /\ skew' = [skew EXCEPT ![a] = @ + Larger(0, bucket[a].ts - stamp[t])]
  BY <1>1 DEF RunScript
<1>5. ttl \in Nat
  BY OutboundConstants
<1>6. Paid(reply) = paid * Unit /\ paid \in Nat
  BY <1>3, OutboundConstants DEF Paid
<1>. HIDE DEF paid
<1>7. \A b \in Bucket \ {a} : /\ bucket'[b] = bucket[b] /\ expireAt'[b] = expireAt[b]
                              /\ granted'[b] = granted[b] /\ skew'[b] = skew[b]
  BY <1>4 DEF Typed, TypeOK
<1>8. /\ bucket'[a] = reply.bucket /\ expireAt'[a] = now + ttl
      /\ granted'[a] = granted[a] + paid
      /\ skew'[a] = skew[a] + Larger(0, bucket[a].ts - stamp[t])
  BY <1>4 DEF Typed, TypeOK
<1>9. LivesOn(a)'
  <2>1. expireAt'[a] >= bucket'[a].ts + ttl
    BY <1>2, <1>3, <1>5, <1>8
  <2>2. \E later \in Ttls(a) : expireAt'[a] >= bucket'[a].ts + later
    BY <2>1
  <2>. QED
    BY <2>2 DEF LivesOn, Ttls
<1>10. Ledger(a)'
  <2>. DEFINE e == Larger(0, stamp[t] - bucket[a].ts)
              then == bucket[a].ts + skew[a]
              full == Burst(a) * Unit
              old == Balance(bucket[a], Burst(a))
              new == Balance(reply.bucket, Burst(a))
              before == granted[a] * Unit
              cost == paid * Unit
              x == Pace(a) * then
              y == Pace(a) * e
              gain == Rate(a) * e
  <2>1. e \in Nat /\ then \in Nat /\ full \in Nat /\ Unit \in Nat
    BY <1>1, <1>2, OutboundConstants DEF Larger
  <2>2. old \in Nat /\ new \in Nat
    BY <1>2, <1>3, <2>1 DEF IsBucket, Balance
  <2>3. bucket'[a].ts + skew'[a] = then + e
    BY <1>1, <1>2, <1>3, <1>8 DEF Larger
  <2>4. before + old <= full + x
    BY <1>1 DEF Books, Ledger
  <2>5. cost + new <= old + gain
    BY <1>3, <1>6
  <2>6. before \in Nat /\ cost \in Nat /\ x \in Nat /\ y \in Nat /\ gain \in Nat /\ gain <= y
    <3>. HIDE DEF e, then
    <3>. QED
      BY <1>2, <1>6, <2>1, Grows
  <2>7. Pace(a) * (then + e) = x + y
    <3>. HIDE DEF e, then
    <3>. QED
      BY <1>2, <2>1, Distributes
  <2>8. (granted[a] + paid) * Unit = before + cost
    <3>1. Unit * (granted[a] + paid) = Unit * granted[a] + Unit * paid
      BY <1>2, <1>6, <2>1, Distributes
    <3>2. /\ Unit * (granted[a] + paid) = (granted[a] + paid) * Unit
          /\ Unit * granted[a] = before /\ Unit * paid = cost
      <4>1. granted[a] + paid \in Int /\ granted[a] \in Int /\ paid \in Int /\ Unit \in Int
        BY <1>2, <1>6, <2>1
      <4>. QED
        BY <4>1, Distributes
    <3>. QED
      BY <3>1, <3>2
  <2>. HIDE DEF x, y, gain, before, cost, full, old, new, e, then
  <2>9. before + cost + new <= full + (x + y)
    BY <2>1, <2>2, <2>4, <2>5, <2>6
  <2>10. granted'[a] * Unit = before + cost /\ Balance(bucket'[a], Burst(a)) = new
    BY <1>8, <2>8 DEF new
  <2>11. granted'[a] * Unit + Balance(bucket'[a], Burst(a))
           <= Burst(a) * Unit + Pace(a) * (bucket'[a].ts + skew'[a])
    BY <2>3, <2>7, <2>9, <2>10 DEF full
  <2>12. Burst(a)' = Burst(a) /\ Pace(a)' = Pace(a)
    BY DEF Burst, Pace, Rate
  <2>. QED
    BY <2>11, <2>12 DEF Ledger
<1>11. \A b \in Bucket \ {a} : LivesOn(b)' /\ Ledger(b)'
  <2>1. ASSUME NEW b \in Bucket \ {a} PROVE LivesOn(b)' /\ Ledger(b)'
    <3>1. LivesOn(b) /\ Ledger(b)
      BY DEF Books
    <3>2. /\ bucket'[b] = bucket[b] /\ expireAt'[b] = expireAt[b]
          /\ granted'[b] = granted[b] /\ skew'[b] = skew[b]
      BY <1>7
    <3>. QED
      BY <3>1, <3>2, Zenon DEF LivesOn, Ledger, Ttls
  <2>. QED
    BY <2>1
<1>. QED
  BY <1>9, <1>10, <1>11

-----------------------------------------------------------------------------
(* Type correctness *)

\* What Typed says of the tasks, and of everything else.
Locals ==
  /\ pc \in [Task -> {"idle", "resume", "evalsha", "eval", "send"}]
  /\ target \in [Task -> Bucket]
  /\ \A t \in Task : pc[t] # "idle" => target[t] \in Target
  /\ gates \in [Task -> Seq(Bucket)]
  /\ \A t \in Task : Gated(t)

Stored ==
  /\ now \in Nat
  /\ bucket \in [Bucket -> [exists : BOOLEAN, tokens : Nat, ts : 0 .. now]]
  /\ \A b \in Bucket : bucket[b].tokens <= Burst(b) * Unit
  /\ expireAt \in [Bucket -> Nat]
  /\ stamp \in [Task -> 0 .. now]
  /\ faults \in 0 .. MaxFaults
  /\ granted \in [Bucket -> Nat]
  /\ spent \in [Target -> Nat]
  /\ cleared \in Nat
  /\ skew \in [Bucket -> Nat]

LEMMA TypedParts == Typed <=> Locals /\ Stored
<1>1. Typed => Locals /\ Stored
  BY DEF Typed, TypeOK, Locals, Stored
<1>2. ASSUME Locals, Stored PROVE Typed
  <2>1. \A t \in Task : pc[t] \in {"resume", "evalsha", "eval"} => gates[t] # <<>>
    <3>. TAKE t \in Task
    <3>. HAVE pc[t] \in {"resume", "evalsha", "eval"}
    <3>1. gates[t] = <<target[t], Everyone>> \/ gates[t] = <<Everyone>>
      BY <1>2 DEF Locals, Gated, Waiting
    <3>2. <<target[t], Everyone>> # <<>> /\ <<Everyone>> # <<>>
      OBVIOUS
    <3>. QED
      BY <3>1, <3>2
  <2>. QED
    BY <1>2, <2>1 DEF Typed, TypeOK, Locals, Stored
<1>. QED
  BY <1>1, <1>2

LEMMA TypedInit == Init => Typed
<1>. SUFFICES ASSUME Init PROVE Locals /\ Stored
  BY TypedParts
<1>1. Everyone \in Bucket /\ MaxFaults \in Nat
  BY OutboundConstants
<1>2. Locals
  BY <1>1 DEF Init, Locals, Gated, Waiting
<1>3. \A b \in Bucket : 0 <= Burst(b) * Unit
  BY OutboundConstants
<1>4. /\ bucket \in [Bucket -> [exists : BOOLEAN, tokens : Nat, ts : 0 .. now]]
      /\ \A b \in Bucket : bucket[b].tokens <= Burst(b) * Unit
  BY <1>3 DEF Init, Absent
<1>5. Stored
  BY <1>1, <1>4 DEF Init, Stored
<1>. QED
  BY <1>2, <1>5

\* A task that moves on with locals of their types.
LEMMA LocalsStep ==
  ASSUME Locals, NEW t \in Task,
         NEW l \in {"idle", "resume", "evalsha", "eval", "send"}, Goto(t, l),
         target' \in [Task -> Bucket], gates' \in [Task -> Seq(Bucket)],
         \A u \in Task \ {t} : target'[u] = target[u] /\ gates'[u] = gates[u],
         l # "idle" => target'[t] \in Target,
         l \in {"resume", "evalsha", "eval"} =>
           gates'[t] = <<target'[t], Everyone>> \/ gates'[t] = <<Everyone>>
  PROVE  Locals'
<1>1. /\ pc' \in [Task -> {"idle", "resume", "evalsha", "eval", "send"}]
      /\ pc'[t] = l /\ \A u \in Task \ {t} : pc'[u] = pc[u]
  BY DEF Locals, Goto
<1>2. \A u \in Task : pc'[u] # "idle" => target'[u] \in Target
  BY <1>1 DEF Locals
<1>3. \A u \in Task : Gated(u)'
  BY <1>1 DEF Locals, Gated, Waiting
<1>. QED
  BY <1>1, <1>2, <1>3 DEF Locals

LEMMA FinishLocals ==
  ASSUME Locals, NEW t \in Task, Finish(t)
  PROVE  Locals'
<1>1. Everyone \in Bucket /\ <<>> \in Seq(Bucket)
  BY OutboundConstants
<1>2. Goto(t, "idle") /\ "idle" \in {"idle", "resume", "evalsha", "eval", "send"}
  BY DEF Finish
<1>3. /\ target' \in [Task -> Bucket] /\ gates' \in [Task -> Seq(Bucket)]
      /\ \A u \in Task \ {t} : target'[u] = target[u] /\ gates'[u] = gates[u]
  BY <1>1 DEF Finish, Locals
<1>. QED
  BY <1>2, <1>3, LocalsStep

LEMMA StampStep ==
  ASSUME Stored, NEW t \in Task, NEW s \in {0, now}, stamp' = [stamp EXCEPT ![t] = s], now' = now
  PROVE  stamp' \in [Task -> 0 .. now']
<1>1. s \in 0 .. now /\ stamp \in [Task -> 0 .. now]
  BY DEF Stored
<1>. QED
  BY <1>1

LEMMA RaisesTyped ==
  ASSUME Typed, NEW t \in Task, Asking(t), Raises(t), now' = now
  PROVE  Locals' /\ faults' \in 0 .. MaxFaults /\ stamp' \in [Task -> 0 .. now']
<1>1. Locals /\ Stored
  BY TypedParts
<1>2. faults' \in 0 .. MaxFaults
  BY <1>1, OutboundConstants DEF Raises, Stored
<1>3. CASE pc[t] = "evalsha"
  <2>1. Goto(t, "eval") /\ target' = target /\ gates' = gates /\ stamp' = stamp
    BY <1>3 DEF Raises
  <2>2. /\ target[t] \in Target
        /\ gates[t] = <<target[t], Everyone>> \/ gates[t] = <<Everyone>>
    BY AskedBucket
  <2>3. Locals'
    BY <1>1, <2>1, <2>2, LocalsStep DEF Locals
  <2>. QED
    BY <1>1, <1>2, <2>1, <2>3 DEF Stored
<1>4. CASE pc[t] # "evalsha"
  <2>1. Finish(t)
    BY <1>4 DEF Raises
  <2>2. stamp' = [stamp EXCEPT ![t] = 0]
    BY <2>1 DEF Finish
  <2>. QED
    BY <1>1, <1>2, <2>1, <2>2, FinishLocals, StampStep
<1>. QED
  BY <1>3, <1>4

\* Where Allowed leads: past the first gate to the second, past it to reply_text.
LEMMA AllowedMoves ==
  ASSUME Typed, NEW t \in Task, Allowed(t)
  PROVE  \/ /\ gates[t] = <<target[t], Everyone>> /\ Head(gates[t]) = target[t]
            /\ gates' = [gates EXCEPT ![t] = <<Everyone>>]
            /\ Goto(t, "resume") /\ cleared' = cleared
         \/ /\ gates[t] = <<Everyone>> /\ Head(gates[t]) = Everyone
            /\ gates' = [gates EXCEPT ![t] = <<>>]
            /\ Goto(t, "send") /\ cleared' = cleared + 1
<1>1. gates \in [Task -> Seq(Bucket)]
  BY DEF Typed, TypeOK
<1>2. gates' = [gates EXCEPT ![t] = Tail(gates[t])] /\ gates'[t] = Tail(gates[t])
  BY <1>1 DEF Allowed
<1>3. CASE gates[t] = <<target[t], Everyone>>
  <2>1. Tail(gates[t]) = <<Everyone>> /\ <<Everyone>> # <<>> /\ Head(gates[t]) = target[t]
    BY <1>3
  <2>. QED
    BY <1>2, <1>3, <2>1 DEF Allowed
<1>4. CASE gates[t] = <<Everyone>>
  <2>1. Tail(gates[t]) = <<>> /\ Head(gates[t]) = Everyone
    BY <1>4
  <2>. QED
    BY <1>2, <1>4, <2>1 DEF Allowed
<1>. QED
  BY <1>3, <1>4, AskedBucket DEF Allowed

LEMMA TypedNext == Typed /\ [Next]_vars => Typed'
<1>. SUFFICES ASSUME Typed, [Next]_vars PROVE Locals' /\ Stored'
  BY TypedParts, PTL
<1>1. Locals /\ Stored
  BY TypedParts
<1>2. ASSUME NEW t \in Task, NEW g \in Target, Answer(t, g) PROVE Locals' /\ Stored'
  <2>1. /\ Goto(t, "evalsha") /\ target' = [target EXCEPT ![t] = g]
        /\ gates' = [gates EXCEPT ![t] = <<g, Everyone>>]
        /\ stamp' = [stamp EXCEPT ![t] = now] /\ now' = now
    BY <1>2 DEF Answer, Gates
  <2>2. g \in Bucket /\ <<g, Everyone>> \in Seq(Bucket)
    BY OutboundConstants
  <2>3. /\ target' \in [Task -> Bucket] /\ gates' \in [Task -> Seq(Bucket)]
        /\ \A u \in Task \ {t} : target'[u] = target[u] /\ gates'[u] = gates[u]
        /\ target'[t] = g /\ gates'[t] = <<g, Everyone>>
    BY <1>1, <2>1, <2>2 DEF Locals
  <2>4. Locals'
    BY <1>1, <2>1, <2>3, LocalsStep
  <2>5. stamp' \in [Task -> 0 .. now']
    BY <1>1, <2>1, StampStep
  <2>. QED
    BY <1>1, <1>2, <2>4, <2>5 DEF Answer, Stored, store, history
<1>3. ASSUME NEW t \in Task, Allowed(t) PROVE Locals' /\ Stored'
  <2>1. PICK reply \in Replies(t) : RunScript(t, reply)
    BY <1>3 DEF Allowed
  <2>8. Asking(t) /\ now' = now /\ target' = target /\ faults' = faults
    BY <1>3 DEF Allowed
  <2>2. stamp' = [stamp EXCEPT ![t] = 0]
    BY <1>3 DEF Allowed
  <2>3. stamp' \in [Task -> 0 .. now']
    BY <1>1, <2>8, <2>2, StampStep
  <2>4. cleared' \in Nat
    BY <1>1, <1>3, AllowedMoves DEF Stored
  <2>5. target[t] \in Target
    BY <2>8, AskedBucket
  <2>6. <<Everyone>> \in Seq(Bucket) /\ <<>> \in Seq(Bucket)
    BY OutboundConstants
  <2>7. Locals'
    <3>1. PICK l \in {"resume", "send"} :
            /\ Goto(t, l)
            /\ gates' = [gates EXCEPT ![t] = IF l = "resume" THEN <<Everyone>> ELSE <<>>]
      BY <1>3, AllowedMoves
    <3>2. /\ gates' \in [Task -> Seq(Bucket)]
          /\ \A u \in Task \ {t} : gates'[u] = gates[u]
          /\ l = "resume" => gates'[t] = <<Everyone>>
      BY <1>1, <2>6, <3>1 DEF Locals
    <3>. QED
      BY <1>1, <2>8, <2>5, <3>1, <3>2, LocalsStep DEF Locals
  <2>. QED
    BY <1>1, <2>1, <2>3, <2>4, <2>7, <2>8, RunScriptTyped DEF Stored
<1>4. ASSUME NEW t \in Task, Resume(t) PROVE Locals' /\ Stored'
  <2>1. /\ Goto(t, "evalsha") /\ target' = target /\ gates' = gates
        /\ stamp' = [stamp EXCEPT ![t] = now] /\ now' = now
        /\ pc[t] = "resume"
    BY <1>4 DEF Resume
  <2>2. Locals'
    BY <1>1, <2>1, LocalsStep DEF Locals, Gated, Waiting
  <2>3. stamp' \in [Task -> 0 .. now']
    BY <1>1, <2>1, StampStep
  <2>. QED
    BY <1>1, <1>4, <2>2, <2>3 DEF Resume, Stored, store, history
<1>5. ASSUME NEW t \in Task, Denied(t) PROVE Locals' /\ Stored'
  <2>1. /\ Asking(t) /\ now' = now /\ Finish(t)
        /\ faults' = faults /\ cleared' = cleared
        /\ \E reply \in Replies(t) : RunScript(t, reply)
    BY <1>5 DEF Denied
  <2>2. stamp' = [stamp EXCEPT ![t] = 0]
    BY <2>1 DEF Finish
  <2>. QED
    BY <1>1, <2>1, <2>2, FinishLocals, StampStep, RunScriptTyped DEF Stored
<1>6. ASSUME NEW t \in Task, Unreached(t) PROVE Locals' /\ Stored'
  BY <1>1, <1>6, RaisesTyped DEF Unreached, Stored, store, history
<1>7. ASSUME NEW t \in Task, ReplyLost(t) PROVE Locals' /\ Stored'
  <2>1. /\ Asking(t) /\ Raises(t) /\ now' = now /\ cleared' = cleared
        /\ \E reply \in Replies(t) : RunScript(t, reply)
    BY <1>7 DEF ReplyLost
  <2>. QED
    BY <1>1, <2>1, RaisesTyped, RunScriptTyped DEF Stored
<1>8. ASSUME NEW t \in Task, Send(t) PROVE Locals' /\ Stored'
  <2>1. Finish(t) /\ now' = now /\ stamp' = [stamp EXCEPT ![t] = 0]
    BY <1>8 DEF Send, Finish
  <2>. QED
    BY <1>1, <1>8, <2>1, FinishLocals, StampStep DEF Send, Stored, store, history
<1>9. CASE Crash
  <2>1. Locals'
    BY <1>9, OutboundConstants DEF Crash, Locals, Gated, Waiting
  <2>2. Stored'
    BY <1>1, <1>9, OutboundConstants DEF Crash, Stored, store, history
  <2>. QED
    BY <2>1, <2>2
<1>10. ASSUME NEW d \in TimeSteps, Tick(d) PROVE Locals' /\ Stored'
  <2>1. now' \in Nat /\ now <= now' /\ now \in Nat
    BY <1>1, <1>10, OutboundAssumption DEF Tick, Stored
  <2>2. Locals'
    BY <1>1, <1>10 DEF Tick, tasks, Locals, Gated, Waiting
  <2>3. \A b \in Bucket : 0 <= Burst(b) * Unit
    BY OutboundConstants
  <2>4. /\ bucket' \in [Bucket -> [exists : BOOLEAN, tokens : Nat, ts : 0 .. now']]
        /\ \A b \in Bucket : bucket'[b].tokens <= Burst(b) * Unit
    BY <1>1, <1>10, <2>1, <2>3 DEF Tick, Stored, Absent
  <2>5. stamp' \in [Task -> 0 .. now']
    BY <1>1, <1>10, <2>1 DEF Tick, tasks, Stored
  <2>. QED
    BY <1>1, <1>10, <2>1, <2>2, <2>4, <2>5 DEF Tick, Stored, history
<1>11. CASE UNCHANGED vars
  BY <1>1, <1>11 DEF vars, store, tasks, history, Locals, Stored, Gated, Waiting
<1>. QED
  BY <1>2, <1>3, <1>4, <1>5, <1>6, <1>7, <1>8, <1>9, <1>10, <1>11 DEF Next

\* Types, for every set of tasks and targets, every burst and rate.
THEOREM TypeCorrect == Spec => []TypeOK
<1>1. Typed => TypeOK
  BY DEF Typed
<1>. QED
  BY <1>1, TypedInit, TypedNext, PTL DEF Spec

-----------------------------------------------------------------------------
(* The books *)

LEMMA AtGlobalFinite ==
  ASSUME NEW g
  PROVE  IsFiniteSet(AtGlobal(g)) /\ Cardinality(AtGlobal(g)) \in Nat
<1>1. AtGlobal(g) \in SUBSET Task
  BY DEF AtGlobal
<1>2. IsFiniteSet(AtGlobal(g))
  BY <1>1, OutboundAssumption, FS_Subset
<1>. QED
  BY <1>2, FS_CardinalityType

\* A step of one task moves no other one in or out of AtGlobal.
LEMMA AtGlobalStep ==
  ASSUME NEW t \in Task, NEW g,
         \A u \in Task \ {t} : pc'[u] = pc[u] /\ target'[u] = target[u] /\ gates'[u] = gates[u]
  PROVE  \E n \in Nat :
           /\ Cardinality(AtGlobal(g)) = n + IF t \in AtGlobal(g) THEN 1 ELSE 0
           /\ Cardinality(AtGlobal(g)') = n + IF t \in AtGlobal(g)' THEN 1 ELSE 0
<1>. DEFINE rest == AtGlobal(g) \ {t}
<1>1. IsFiniteSet(rest) /\ Cardinality(rest) \in Nat /\ t \notin rest
  <2>1. IsFiniteSet(rest)
    BY AtGlobalFinite, FS_RemoveElement
  <2>. QED
    BY <2>1, FS_CardinalityType
<1>2. rest = AtGlobal(g)' \ {t}
  BY DEF AtGlobal, Waiting
<1>3. Cardinality(rest \cup {t}) = Cardinality(rest) + 1
  BY <1>1, FS_AddElement
<1>4. AtGlobal(g) = IF t \in AtGlobal(g) THEN rest \cup {t} ELSE rest
  OBVIOUS
<1>5. AtGlobal(g)' = IF t \in AtGlobal(g)' THEN rest \cup {t} ELSE rest
  BY <1>2
<1>. HIDE DEF rest
<1>6. Cardinality(AtGlobal(g)) = Cardinality(rest) + IF t \in AtGlobal(g) THEN 1 ELSE 0
  <2>1. CASE t \in AtGlobal(g)
    <3>1. Cardinality(AtGlobal(g)) = Cardinality(rest \cup {t})
      BY <1>4, <2>1, Zenon
    <3>. QED
      BY <1>3, <2>1, <3>1
  <2>2. CASE t \notin AtGlobal(g)
    <3>1. Cardinality(AtGlobal(g)) = Cardinality(rest)
      BY <1>4, <2>2, Zenon
    <3>. QED
      BY <1>1, <2>2, <3>1
  <2>. QED
    BY <2>1, <2>2
<1>7. Cardinality(AtGlobal(g)') = Cardinality(rest) + IF t \in AtGlobal(g)' THEN 1 ELSE 0
  <2>1. CASE t \in AtGlobal(g)'
    <3>1. Cardinality(AtGlobal(g)') = Cardinality(rest \cup {t})
      BY <1>5, <2>1, Zenon
    <3>. QED
      BY <1>3, <2>1, <3>1
  <2>2. CASE t \notin AtGlobal(g)'
    <3>1. Cardinality(AtGlobal(g)') = Cardinality(rest)
      BY <1>5, <2>2, Zenon
    <3>. QED
      BY <1>1, <2>2, <3>1
  <2>. QED
    BY <2>1, <2>2
<1>. QED
  BY <1>1, <1>6, <1>7

\* Which token a run of the script enters in the books.
LEMMA RunScriptCounts ==
  ASSUME Typed, NEW t \in Task, Asking(t), NEW reply \in Replies(t), RunScript(t, reply)
  PROVE  \E paid \in {0, 1}, a \in Bucket :
           /\ a = Head(gates[t])
           /\ (paid = 1 <=> reply.allowed)
           /\ granted' = [granted EXCEPT ![a] = @ + paid]
           /\ spent' = IF a = Everyone THEN [spent EXCEPT ![target[t]] = @ + paid] ELSE spent
<1>. DEFINE paid == IF reply.allowed THEN 1 ELSE 0
            a == Head(gates[t])
<1>1. a \in Bucket
  BY AskedBucket
<1>2. /\ granted' = [granted EXCEPT ![a] = @ + paid]
      /\ spent' = IF a = Everyone THEN [spent EXCEPT ![target[t]] = @ + paid] ELSE spent
  BY DEF RunScript
<1>3. paid \in {0, 1} /\ (paid = 1 <=> reply.allowed)
  OBVIOUS
<1>. HIDE DEF paid
<1>. QED
  BY <1>1, <1>2, <1>3

\* What a task that ends, or tries again, leaves of AtGlobal.
LEMMA OthersStay ==
  ASSUME Typed, NEW t \in Task,
         Finish(t) \/ (Goto(t, "eval") /\ UNCHANGED <<target, gates>>)
  PROVE  \A u \in Task \ {t} : pc'[u] = pc[u] /\ target'[u] = target[u] /\ gates'[u] = gates[u]
  BY DEF Finish, Goto, Typed, TypeOK

LEMMA FinishLeaves ==
  ASSUME Typed, NEW t \in Task, Finish(t), NEW g
  PROVE  t \notin AtGlobal(g)'
  BY DEF Finish, Goto, Typed, TypeOK, AtGlobal, Waiting

LEMMA BooksInit == Init => Books
<1>. SUFFICES ASSUME Init PROVE Books
  OBVIOUS
<1>1. ASSUME NEW b \in Bucket PROVE LivesOn(b) /\ Ledger(b)
  <2>1. bucket[b] = Absent(0) /\ granted[b] = 0 /\ skew[b] = 0
    BY <1>1 DEF Init
  <2>2. Pace(b) \in Nat /\ Burst(b) * Unit \in Nat /\ Unit \in Nat
    BY OutboundConstants
  <2>3. Balance(bucket[b], Burst(b)) = Burst(b) * Unit /\ bucket[b].ts = 0 /\ ~bucket[b].exists
    BY <2>1 DEF Balance, Absent
  <2>. DEFINE full == Burst(b) * Unit
  <2>4. full \in Nat
    BY <2>2
  <2>. HIDE DEF full
  <2>5. 0 * Unit + full <= full + Pace(b) * (0 + 0)
    BY <2>2, <2>4
  <2>. QED
    BY <2>1, <2>3, <2>5 DEF LivesOn, Ledger, full
<1>2. cleared <= granted[Everyone]
  BY OutboundConstants DEF Init
<1>3. ASSUME NEW g \in Target PROVE Covered(g)
  <2>1. AtGlobal(g) = {}
    BY DEF Init, AtGlobal, Waiting
  <2>2. spent[g] = 0 /\ granted[g] = 0 /\ faults = 0
    BY OutboundConstants DEF Init
  <2>. QED
    BY <2>1, <2>2, FS_EmptySet DEF Covered
<1>. QED
  BY <1>1, <1>2, <1>3 DEF Books

\* Time passes: the keys whose TTL has run out were full again.
LEMMA TickBooks ==
  ASSUME Typed, Books, NEW d \in TimeSteps, Tick(d), NEW b \in Bucket
  PROVE  LivesOn(b)' /\ Ledger(b)'
<1>1. /\ now \in Nat /\ d \in Nat /\ now' = now + d
      /\ expireAt' = expireAt /\ granted' = granted /\ skew' = skew
      /\ bucket'[b] = IF bucket[b].exists /\ now' >= expireAt[b] THEN Absent(now') ELSE bucket[b]
  BY OutboundAssumption DEF Tick, history, Typed, TypeOK
<1>2. LivesOn(b) /\ Ledger(b)
  BY DEF Books
<1>3. CASE bucket[b].exists /\ now' >= expireAt[b]
  <2>. DEFINE full == Burst(b) * Unit
              then == bucket[b].ts + skew[b]
              idle == now' - bucket[b].ts
              old  == Balance(bucket[b], Burst(b))
              paid == granted[b] * Unit
              x    == Pace(b) * then
              y    == Pace(b) * idle
  <2>1. /\ Burst(b) \in Nat /\ Rate(b) \in Nat /\ Pace(b) \in Nat /\ full \in Nat
        /\ Unit \in Nat /\ \A ttl \in Ttls(b) : ttl \in Nat
    BY OutboundConstants
  <2>2. bucket[b].ts \in 0 .. now /\ skew[b] \in Nat /\ granted[b] \in Nat /\ expireAt[b] \in Nat
    BY DEF Typed, TypeOK
  <2>3. old \in Nat
    BY <2>1, HashType DEF Typed, IsBucket, Balance
  <2>4. PICK hair \in Hair : expireAt[b] >= bucket[b].ts + IdleTtl(Burst(b), Rate(b), hair)
    BY <1>2, <1>3 DEF LivesOn, Ttls
  <2>5. idle \in Nat /\ idle >= IdleTtl(Burst(b), Rate(b), hair) /\ then \in Nat
    <3>1. IdleTtl(Burst(b), Rate(b), hair) \in Nat
      BY <2>1, TtlType
    <3>. QED
      BY <1>1, <1>3, <2>2, <2>4, <3>1
  <2>6. full <= y
    <3>. HIDE DEF idle
    <3>. QED
      BY <2>1, <2>5, TtlCoversRefill, Zenon DEF Pace
  <2>7. paid + old <= full + x
    BY <1>2 DEF Ledger
  <2>8. now' + skew[b] = then + idle /\ bucket'[b] = Absent(now')
    BY <1>1, <1>3, <2>2
  <2>9. paid \in Nat /\ x \in Nat /\ y \in Nat
    <3>. HIDE DEF idle, then
    <3>. QED
      BY <2>1, <2>2, <2>5, Grows
  <2>10. Pace(b) * (then + idle) = x + y
    <3>. HIDE DEF idle, then
    <3>. QED
      BY <2>1, <2>5, Distributes
  <2>. HIDE DEF full, then, idle, old, paid, x, y
  <2>11. paid + full <= full + (x + y)
    BY <2>1, <2>3, <2>6, <2>7, <2>9
  <2>12. paid + full <= full + Pace(b) * (now' + skew[b])
    BY <2>8, <2>10, <2>11
  <2>13. ~bucket'[b].exists /\ bucket'[b].ts = now' /\ Balance(bucket'[b], Burst(b)) = full
    BY <2>8 DEF Absent, Balance, full
  <2>14. Burst(b)' = Burst(b) /\ Pace(b)' = Pace(b)
    BY DEF Burst, Pace, Rate
  <2>. QED
    BY <1>1, <2>12, <2>13, <2>14 DEF LivesOn, Ledger, full, paid
<1>4. CASE ~(bucket[b].exists /\ now' >= expireAt[b])
  <2>1. bucket'[b] = bucket[b] /\ expireAt'[b] = expireAt[b] /\ granted'[b] = granted[b] /\ skew'[b] = skew[b]
    BY <1>1, <1>4
  <2>. QED
    BY <1>2, <2>1, Zenon DEF LivesOn, Ledger, Ttls
<1>. QED
  BY <1>3, <1>4

\* What no run of the script touches.
LEMMA IdleBooks ==
  ASSUME Books, UNCHANGED <<bucket, expireAt, granted, skew>>
  PROVE  \A b \in Bucket : LivesOn(b)' /\ Ledger(b)'
<1>1. ASSUME NEW b \in Bucket PROVE LivesOn(b)' /\ Ledger(b)'
  <2>1. LivesOn(b) /\ Ledger(b)
    BY DEF Books
  <2>. QED
    BY <2>1, Zenon DEF LivesOn, Ledger, Ttls
<1>. QED
  BY <1>1

LEMMA LedgersNext ==
  ASSUME Typed, Books, [Next]_vars
  PROVE  \A b \in Bucket : LivesOn(b)' /\ Ledger(b)'
<1>1. ASSUME NEW t \in Task, Allowed(t) \/ Denied(t) \/ ReplyLost(t)
      PROVE  \A b \in Bucket : LivesOn(b)' /\ Ledger(b)'
  <2>1. Asking(t) /\ now' = now /\ \E reply \in Replies(t) : RunScript(t, reply)
    BY <1>1 DEF Allowed, Denied, ReplyLost
  <2>. QED
    BY <2>1, RunScriptBooks
<1>2. ASSUME NEW t \in Task,
             Resume(t) \/ Unreached(t) \/ Send(t) \/ \E g \in Target : Answer(t, g)
      PROVE  \A b \in Bucket : LivesOn(b)' /\ Ledger(b)'
  <2>1. UNCHANGED <<bucket, expireAt, granted, skew>>
    BY <1>2 DEF Resume, Unreached, Send, Answer, store, history
  <2>. QED
    BY <2>1, IdleBooks
<1>3. CASE Crash \/ UNCHANGED vars
  <2>1. UNCHANGED <<bucket, expireAt, granted, skew>>
    BY <1>3 DEF Crash, vars, store, history
  <2>. QED
    BY <2>1, IdleBooks
<1>4. ASSUME NEW d \in TimeSteps, Tick(d) PROVE \A b \in Bucket : LivesOn(b)' /\ Ledger(b)'
  BY <1>4, TickBooks
<1>. QED
  BY <1>1, <1>2, <1>3, <1>4 DEF Next

LEMMA ClearedNext ==
  ASSUME Typed, cleared <= granted[Everyone], [Next]_vars
  PROVE  cleared' <= granted'[Everyone]
<1>1. cleared \in Nat /\ granted \in [Bucket -> Nat] /\ Everyone \in Bucket
  BY OutboundConstants DEF Typed, TypeOK
<1>2. ASSUME NEW t \in Task, Allowed(t) \/ Denied(t) \/ ReplyLost(t)
      PROVE  cleared' <= granted'[Everyone]
  <2>1. Asking(t)
    BY <1>2 DEF Allowed, Denied, ReplyLost
  <2>2. ASSUME NEW reply \in Replies(t), RunScript(t, reply)
        PROVE  /\ granted[Everyone] \in Nat /\ granted'[Everyone] \in Nat
               /\ granted'[Everyone] >= granted[Everyone]
               /\ reply.allowed /\ Head(gates[t]) = Everyone
                    => granted'[Everyone] = granted[Everyone] + 1
    <3>1. PICK paid \in {0, 1}, a \in Bucket :
            /\ a = Head(gates[t])
            /\ (paid = 1 <=> reply.allowed)
            /\ granted' = [granted EXCEPT ![a] = @ + paid]
      BY <2>1, <2>2, RunScriptCounts
    <3>2. granted'[Everyone] = granted[Everyone] + (IF a = Everyone THEN paid ELSE 0)
      BY <1>1, <3>1
    <3>. QED
      BY <1>1, <3>1, <3>2
  <2>3. CASE Allowed(t)
    <3>1. PICK reply \in Replies(t) : reply.allowed /\ RunScript(t, reply)
      BY <2>3 DEF Allowed
    <3>2. cleared' = cleared \/ (cleared' = cleared + 1 /\ Head(gates[t]) = Everyone)
      BY <2>3, AllowedMoves
    <3>3. /\ granted[Everyone] \in Nat /\ granted'[Everyone] \in Nat
          /\ granted'[Everyone] >= granted[Everyone]
          /\ Head(gates[t]) = Everyone => granted'[Everyone] = granted[Everyone] + 1
      BY <2>2, <3>1
    <3>. QED
      BY <1>1, <3>2, <3>3
  <2>4. CASE Denied(t) \/ ReplyLost(t)
    <3>1. PICK reply \in Replies(t) : RunScript(t, reply)
      BY <2>4 DEF Denied, ReplyLost
    <3>2. cleared' = cleared
      BY <2>4 DEF Denied, ReplyLost
    <3>. QED
      BY <1>1, <2>2, <3>1, <3>2
  <2>. QED
    BY <1>2, <2>3, <2>4
<1>3. CASE UNCHANGED <<granted, cleared>>
  BY <1>1, <1>3
<1>. QED
  BY <1>2, <1>3
     DEF Next, Answer, Resume, Unreached, Send, Crash, Tick, vars, store, history

LEMMA BookTypes ==
  ASSUME Typed
  PROVE  /\ spent \in [Target -> Nat] /\ granted \in [Bucket -> Nat] /\ faults \in Nat
         /\ Target \subseteq Bucket /\ Everyone \notin Target
<1>1. spent \in [Target -> Nat] /\ granted \in [Bucket -> Nat] /\ faults \in 0 .. MaxFaults
  BY DEF Typed, TypeOK
<1>2. Target \subseteq Bucket /\ Everyone \notin Target /\ MaxFaults \in Nat
  BY OutboundConstants, OutboundAssumption
<1>. QED
  BY <1>1, <1>2

\* An answer that fails draws one global token more than it passed gates for, at
\* most, and that is what its fault pays for.
LEMMA CoveredByFault ==
  ASSUME Typed, NEW g \in Target, Covered(g), NEW t \in Task, Asking(t), Raises(t),
         \/ \E reply \in Replies(t) : RunScript(t, reply)
         \/ UNCHANGED <<granted, spent>>
  PROVE  Covered(g)'
<1>1. /\ spent \in [Target -> Nat] /\ granted \in [Bucket -> Nat] /\ faults \in Nat
      /\ g \in Bucket /\ target[t] \in Target /\ Target \subseteq Bucket
  BY BookTypes, AskedBucket
<1>2. spent'[g] \in {spent[g], spent[g] + 1} /\ granted'[g] \in {granted[g], granted[g] + 1}
  <2>1. ASSUME NEW reply \in Replies(t), RunScript(t, reply)
        PROVE  spent'[g] \in {spent[g], spent[g] + 1} /\ granted'[g] \in {granted[g], granted[g] + 1}
    <3>1. PICK paid \in {0, 1}, a \in Bucket :
            /\ granted' = [granted EXCEPT ![a] = @ + paid]
            /\ spent' = IF a = Everyone THEN [spent EXCEPT ![target[t]] = @ + paid] ELSE spent
      BY <2>1, RunScriptCounts
    <3>2. granted'[g] \in {granted[g], granted[g] + 1}
      BY <1>1, <3>1
    <3>3. spent'[g] \in {spent[g], spent[g] + 1}
      BY <1>1, <3>1
    <3>. QED
      BY <3>2, <3>3
  <2>2. CASE UNCHANGED <<granted, spent>>
    BY <2>2
  <2>. QED
    BY <2>1, <2>2
<1>3. faults' = faults + 1 /\ (Finish(t) \/ (Goto(t, "eval") /\ UNCHANGED <<target, gates>>))
  BY DEF Raises
<1>4. PICK n \in Nat :
        /\ Cardinality(AtGlobal(g)) = n + IF t \in AtGlobal(g) THEN 1 ELSE 0
        /\ Cardinality(AtGlobal(g)') = n + IF t \in AtGlobal(g)' THEN 1 ELSE 0
  BY <1>3, OthersStay, AtGlobalStep
<1>5. t \in AtGlobal(g)' => t \in AtGlobal(g)
  <2>1. CASE Finish(t)
    BY <2>1, FinishLeaves
  <2>2. CASE Goto(t, "eval") /\ UNCHANGED <<target, gates>>
    BY <2>2 DEF AtGlobal, Waiting, Asking
  <2>. QED
    BY <1>3, <2>1, <2>2
<1>. HIDE DEF AtGlobal
<1>6. spent[g] + Cardinality(AtGlobal(g)) <= granted[g] + faults
  BY DEF Covered
<1>7. spent'[g] + Cardinality(AtGlobal(g)') <= granted'[g] + faults'
  BY <1>1, <1>2, <1>3, <1>4, <1>5, <1>6
<1>. QED
  BY <1>7, Zenon DEF Covered, AtGlobal

LEMMA CoveredByAllowed ==
  ASSUME Typed, NEW g \in Target, Covered(g), NEW t \in Task, Allowed(t)
  PROVE  Covered(g)'
<1>1. /\ spent \in [Target -> Nat] /\ granted \in [Bucket -> Nat] /\ faults \in Nat
      /\ g \in Bucket /\ g # Everyone /\ target[t] \in Target
      /\ Asking(t) /\ target' = target /\ faults' = faults
  BY BookTypes, AskedBucket DEF Allowed
<1>9. PICK reply \in Replies(t) : reply.allowed /\ RunScript(t, reply)
  BY DEF Allowed
<1>2. PICK paid \in {0, 1}, a \in Bucket :
        /\ a = Head(gates[t])
        /\ (paid = 1 <=> reply.allowed)
        /\ granted' = [granted EXCEPT ![a] = @ + paid]
        /\ spent' = IF a = Everyone THEN [spent EXCEPT ![target[t]] = @ + paid] ELSE spent
  BY <1>1, <1>9, RunScriptCounts
<1>3. paid = 1
  BY <1>2, <1>9
<1>4. \A u \in Task \ {t} : pc'[u] = pc[u] /\ target'[u] = target[u] /\ gates'[u] = gates[u]
  BY <1>1, AllowedMoves DEF Goto, Typed, TypeOK
<1>5. PICK n \in Nat :
        /\ Cardinality(AtGlobal(g)) = n + IF t \in AtGlobal(g) THEN 1 ELSE 0
        /\ Cardinality(AtGlobal(g)') = n + IF t \in AtGlobal(g)' THEN 1 ELSE 0
  BY <1>4, AtGlobalStep
<1>6. spent[g] + Cardinality(AtGlobal(g)) <= granted[g] + faults
  BY DEF Covered
<1>. DEFINE mine == IF target[t] = g THEN 1 ELSE 0
<1>7. CASE /\ gates[t] = <<target[t], Everyone>> /\ Head(gates[t]) = target[t]
           /\ gates' = [gates EXCEPT ![t] = <<Everyone>>] /\ Goto(t, "resume")
  <2>1. <<target[t], Everyone>> # <<Everyone>>
    OBVIOUS
  <2>2. t \notin AtGlobal(g)
    BY <1>7, <2>1 DEF AtGlobal
  <2>3. t \in AtGlobal(g)' => target[t] = g
    BY <1>1 DEF AtGlobal
  <2>4. granted'[g] = granted[g] + mine /\ spent' = spent
    BY <1>1, <1>2, <1>3, <1>7, OutboundAssumption
  <2>. HIDE DEF AtGlobal
  <2>5. spent'[g] + Cardinality(AtGlobal(g)') <= granted'[g] + faults'
    BY <1>1, <1>5, <1>6, <2>2, <2>3, <2>4
  <2>. QED
    BY <2>5, Zenon DEF Covered, AtGlobal
<1>8. CASE /\ gates[t] = <<Everyone>> /\ Head(gates[t]) = Everyone /\ Goto(t, "send")
  <2>1. target[t] = g => t \in AtGlobal(g)
    BY <1>1, <1>8 DEF AtGlobal, Waiting, Asking
  <2>2. t \notin AtGlobal(g)'
    BY <1>8 DEF Goto, Typed, TypeOK, AtGlobal, Waiting
  <2>3. granted'[g] = granted[g] /\ spent'[g] = spent[g] + mine
    BY <1>1, <1>2, <1>3, <1>8
  <2>. HIDE DEF AtGlobal
  <2>4. spent'[g] + Cardinality(AtGlobal(g)') <= granted'[g] + faults'
    BY <1>1, <1>5, <1>6, <2>1, <2>2, <2>3
  <2>. QED
    BY <2>4, Zenon DEF Covered, AtGlobal
<1>. QED
  BY <1>7, <1>8, AllowedMoves

LEMMA CoveredByDenied ==
  ASSUME Typed, NEW g \in Target, Covered(g), NEW t \in Task, Denied(t)
  PROVE  Covered(g)'
<1>1. /\ spent \in [Target -> Nat] /\ granted \in [Bucket -> Nat] /\ faults \in Nat
      /\ g \in Bucket /\ target[t] \in Target
      /\ Asking(t) /\ Finish(t) /\ faults' = faults
  BY BookTypes, AskedBucket DEF Denied
<1>9. PICK reply \in Replies(t) : ~reply.allowed /\ RunScript(t, reply)
  BY DEF Denied
<1>2. PICK paid \in {0, 1}, a \in Bucket :
        /\ (paid = 1 <=> reply.allowed)
        /\ granted' = [granted EXCEPT ![a] = @ + paid]
        /\ spent' = IF a = Everyone THEN [spent EXCEPT ![target[t]] = @ + paid] ELSE spent
  BY <1>1, <1>9, RunScriptCounts
<1>3. paid = 0
  BY <1>2, <1>9
<1>4. granted'[g] = granted[g] /\ spent'[g] = spent[g]
  BY <1>1, <1>2, <1>3
<1>5. PICK n \in Nat :
        /\ Cardinality(AtGlobal(g)) = n + IF t \in AtGlobal(g) THEN 1 ELSE 0
        /\ Cardinality(AtGlobal(g)') = n + IF t \in AtGlobal(g)' THEN 1 ELSE 0
  BY <1>1, OthersStay, AtGlobalStep
<1>6. t \notin AtGlobal(g)'
  BY <1>1, FinishLeaves
<1>7. spent[g] + Cardinality(AtGlobal(g)) <= granted[g] + faults
  BY DEF Covered
<1>. HIDE DEF AtGlobal
<1>8. spent'[g] + Cardinality(AtGlobal(g)') <= granted'[g] + faults'
  BY <1>1, <1>4, <1>5, <1>6, <1>7
<1>. QED
  BY <1>8, Zenon DEF Covered, AtGlobal

LEMMA CoveredNext ==
  ASSUME Typed, NEW g \in Target, Covered(g), [Next]_vars
  PROVE  Covered(g)'
<1>1. ASSUME NEW t \in Task, Unreached(t) \/ ReplyLost(t) PROVE Covered(g)'
  <2>1. /\ Asking(t) /\ Raises(t)
        /\ \/ \E reply \in Replies(t) : RunScript(t, reply)
           \/ UNCHANGED <<granted, spent>>
    BY <1>1 DEF Unreached, ReplyLost, history
  <2>. QED
    BY <2>1, CoveredByFault
\* Nothing is granted, and nobody comes to or leaves the global gate.
<1>2. ASSUME UNCHANGED <<granted, spent, faults>>, AtGlobal(g)' = AtGlobal(g)
      PROVE  Covered(g)'
  BY <1>2, Zenon DEF Covered
<1>3. ASSUME NEW t \in Task, Resume(t) \/ Send(t) \/ \E h \in Target : Answer(t, h)
      PROVE  Covered(g)'
  <2>1. UNCHANGED <<granted, spent, faults>>
    BY <1>3 DEF Resume, Send, Answer, history
  <2>2. CASE Resume(t)
    BY <1>2, <2>1, <2>2 DEF Resume, Goto, Typed, TypeOK, AtGlobal, Waiting
  <2>3. CASE Send(t)
    BY <1>2, <2>1, <2>3 DEF Send, Finish, Goto, Typed, TypeOK, AtGlobal, Waiting
  <2>4. ASSUME NEW h \in Target, Answer(t, h) PROVE Covered(g)'
    <3>1. gates'[t] = <<h, Everyone>> /\ gates'[t] # <<Everyone>> /\ ~Waiting(t)
      BY <2>4 DEF Answer, Gates, Typed, TypeOK, Waiting
    <3>2. \A u \in Task \ {t} : pc'[u] = pc[u] /\ target'[u] = target[u] /\ gates'[u] = gates[u]
      BY <2>4 DEF Answer, Goto, Typed, TypeOK
    <3>3. AtGlobal(g)' = AtGlobal(g)
      BY <3>1, <3>2 DEF AtGlobal, Waiting
    <3>. QED
      BY <1>2, <2>1, <3>3
  <2>. QED
    BY <1>3, <2>2, <2>3, <2>4
<1>4. CASE Crash
  <2>1. UNCHANGED <<granted, spent>> /\ faults' = faults + 1
    BY <1>4 DEF Crash, history
  <2>2. AtGlobal(g)' = {}
    BY <1>4 DEF Crash, AtGlobal, Waiting
  <2>3. Cardinality(AtGlobal(g)') = 0
    BY <2>2, FS_EmptySet, Zenon
  <2>4. Cardinality(AtGlobal(g)) \in Nat
    BY AtGlobalFinite
  <2>5. spent[g] \in Nat /\ granted[g] \in Nat /\ faults \in Nat
    BY OutboundConstants DEF Typed, TypeOK
  <2>6. spent[g] + Cardinality(AtGlobal(g)) <= granted[g] + faults
    BY DEF Covered
  <2>. HIDE DEF AtGlobal
  <2>7. spent'[g] + Cardinality(AtGlobal(g)') <= granted'[g] + faults'
    BY <2>1, <2>3, <2>4, <2>5, <2>6
  <2>. QED
    BY <2>7, Zenon DEF Covered, AtGlobal
<1>5. CASE UNCHANGED vars \/ \E d \in TimeSteps : Tick(d)
  <2>1. UNCHANGED <<granted, spent, faults, pc, target, gates>>
    BY <1>5 DEF Tick, vars, tasks, history
  <2>. QED
    BY <1>2, <2>1 DEF AtGlobal, Waiting
<1>. QED
  BY <1>1, <1>3, <1>4, <1>5, CoveredByAllowed, CoveredByDenied DEF Next

LEMMA BooksNext == Typed /\ Books /\ [Next]_vars => Books'
<1>. SUFFICES ASSUME Typed, Books, [Next]_vars PROVE Books'
  OBVIOUS
<1>1. \A b \in Bucket : LivesOn(b)' /\ Ledger(b)'
  BY LedgersNext
<1>2. cleared' <= granted'[Everyone]
  BY ClearedNext DEF Books
<1>3. \A g \in Target : Covered(g)'
  BY CoveredNext DEF Books
<1>. QED
  BY <1>1, <1>2, <1>3 DEF Books

\* The books are kept, whatever fails, and whoever interleaves.
LEMMA BooksKept == Spec => [](Typed /\ Books)
BY TypedInit, TypedNext, BooksInit, BooksNext, PTL DEF Spec

\* What a bucket handed out fits its burst and its effective rate.
LEMMA GrantedFits ==
  ASSUME Typed, Books, NEW b \in Bucket
  PROVE  granted[b] * Unit <= Burst(b) * Unit + Pace(b) * (now + skew[b])
<1>. DEFINE full  == Burst(b) * Unit
            then  == bucket[b].ts + skew[b]
            since == now - bucket[b].ts
            held  == Balance(bucket[b], Burst(b))
            paid  == granted[b] * Unit
            x     == Pace(b) * then
            y     == Pace(b) * since
<1>1. Pace(b) \in Nat /\ full \in Nat /\ Unit \in Nat
  BY OutboundConstants
<1>2. held \in Nat
  BY <1>1, HashType DEF Typed, IsBucket, Balance
<1>3. now \in Nat /\ bucket[b].ts \in 0 .. now /\ skew[b] \in Nat /\ granted[b] \in Nat
  BY DEF Typed, TypeOK
<1>4. then \in Nat /\ since \in Nat /\ now + skew[b] = then + since
  BY <1>3
<1>5. paid + held <= full + x
  BY DEF Books, Ledger
<1>. HIDE DEF then, since
<1>6. paid \in Nat /\ x \in Nat /\ y \in Nat
  BY <1>1, <1>3, <1>4, Grows
<1>7. Pace(b) * (then + since) = x + y
  BY <1>1, <1>4, Distributes
<1>. HIDE DEF full, held, paid, x, y
<1>8. paid <= full + (x + y)
  BY <1>1, <1>2, <1>5, <1>6
<1>. QED
  BY <1>4, <1>7, <1>8 DEF full, paid

\* The hard ceiling, whatever the bursts and rates: what passes both gates fits
\* the global burst and the smaller of the global rate and the ceiling, or 0.005
\* per second if that is more (rate_limiter.py:102-104,140-147, middleware.py:212-219).
THEOREM CeilingHolds == Spec => []Ceiling
<1>1. Typed /\ Books => Ceiling
  <2>. SUFFICES ASSUME Typed, Books PROVE Ceiling
    OBVIOUS
  <2>. DEFINE most == GlobalBurst * Unit
                        + EffectiveRate(Smaller(GlobalRate, AbsMaxRate))
                            * (now + skew[Everyone])
              sum == granted[Everyone] * Unit
              mine == cleared * Unit
  <2>1. sum <= most
    BY GrantedFits, OutboundConstants DEF Burst, Rate, Pace
  <2>2. cleared \in Nat /\ granted[Everyone] \in Nat /\ cleared <= granted[Everyone]
    BY OutboundConstants DEF Books, Typed, TypeOK
  <2>3. most \in Int
    <3>1. now + skew[Everyone] \in Int
      BY OutboundConstants DEF Typed, TypeOK
    <3>2. Pace(Everyone) \in Int /\ Burst(Everyone) * Unit \in Int
      BY OutboundConstants
    <3>3. Pace(Everyone) * (now + skew[Everyone]) \in Int
      BY <3>1, <3>2, Distributes
    <3>. QED
      BY <3>2, <3>3 DEF Burst, Rate, Pace
  <2>4. mine \in Nat /\ sum \in Nat /\ mine <= sum
    BY <2>2, OutboundConstants, Grows
  <2>. HIDE DEF most, sum, mine
  <2>5. mine <= most
    BY <2>1, <2>3, <2>4
  <2>. QED
    BY <2>5 DEF Ceiling, most, mine
<1>. QED
  BY <1>1, BooksKept, PTL

\* The isolation of targets, for every number of answers given at once: a target
\* that is over its own limit takes nothing from the others (middleware.py:203-219).
THEOREM IsolationHolds == Spec => []Isolation
<1>1. Typed /\ Books => Isolation
  <2>. SUFFICES ASSUME Typed, Books, NEW g \in Target
                PROVE  (spent[g] - faults) * Unit
                         <= TargetBurst * Unit + EffectiveRate(TargetRate) * (now + skew[g])
    BY DEF Isolation
  <2>. DEFINE most == TargetBurst * Unit + EffectiveRate(TargetRate) * (now + skew[g])
              sum == granted[g] * Unit
              mine == (spent[g] - faults) * Unit
  <2>1. /\ spent[g] \in Nat /\ granted[g] \in Nat /\ faults \in Nat
        /\ g \in Bucket /\ g # Everyone
    BY BookTypes
  <2>2. sum <= most
    BY <2>1, GrantedFits DEF Burst, Rate, Pace
  <2>3. most \in Int
    <3>1. now + skew[g] \in Int
      BY <2>1 DEF Typed, TypeOK
    <3>2. Pace(g) \in Int /\ Burst(g) * Unit \in Int
      BY <2>1, OutboundConstants
    <3>3. Pace(g) * (now + skew[g]) \in Int
      BY <3>1, <3>2, Distributes
    <3>. QED
      BY <2>1, <3>2, <3>3 DEF Burst, Rate, Pace
  <2>4. spent[g] - faults <= granted[g]
    <3>1. Cardinality(AtGlobal(g)) \in Nat
      BY AtGlobalFinite
    <3>2. spent[g] + Cardinality(AtGlobal(g)) <= granted[g] + faults
      BY DEF Books, Covered
    <3>. HIDE DEF AtGlobal
    <3>. QED
      BY <2>1, <3>1, <3>2
  <2>5. mine \in Int /\ sum \in Int /\ mine <= sum
    <3>. DEFINE net == spent[g] - faults
                got == granted[g]
    <3>1. net \in Int /\ got \in Nat /\ net <= got /\ Unit \in Nat
      BY <2>1, <2>4, OutboundConstants
    <3>. HIDE DEF net, got
    <3>2. net * Unit \in Int /\ got * Unit \in Int /\ net * Unit <= got * Unit
      BY <3>1, Z3
    <3>. QED
      BY <3>2 DEF net, got
  <2>. HIDE DEF most, sum, mine
  <2>6. mine <= most
    BY <2>2, <2>3, <2>5
  <2>. QED
    BY <2>6 DEF most, mine
<1>. QED
  BY <1>1, BooksKept, PTL

-----------------------------------------------------------------------------
(* The waits that are told *)

\* From wait ms after `at' on, if it is left alone, bucket b with this hash
\* allows, however the doubles round.
ReadyAfter(hash, b, at, wait) ==
  \A d \in Nat, hair \in Hair :
    d >= wait => Script(hash, Burst(b), Rate(b), at + d, hair).allowed

LEMMA DecisionAllows ==
  ASSUME NEW own, NEW shared, NEW g, NEW at, NEW hair, NEW other
  PROVE  LET run    == Decision(own, shared, g, at, hair, other)
             first  == Script(own, Burst(g), Rate(g), at, hair)
             second == Script(shared, Burst(Everyone), Rate(Everyone), at, other)
         IN  /\ run.allowed <=> first.allowed /\ second.allowed
             /\ ~first.allowed => /\ run.retry = first.retry
                                  /\ run.own = first.bucket /\ run.shared = shared
             /\ first.allowed => /\ run.retry = second.retry
                                 /\ run.own = first.bucket /\ run.shared = second.bucket
<1>. DEFINE run    == Decision(own, shared, g, at, hair, other)
            first  == Script(own, Burst(g), Rate(g), at, hair)
            second == Script(shared, Burst(Everyone), Rate(Everyone), at, other)
<1>1. first.allowed \in BOOLEAN /\ second.allowed \in BOOLEAN
  BY DEF Script
<1>2. run = IF first.allowed
            THEN [allowed |-> second.allowed, retry |-> second.retry,
                  own |-> first.bucket, shared |-> second.bucket]
            ELSE [allowed |-> FALSE, retry |-> first.retry,
                  own |-> first.bucket, shared |-> shared]
  BY Zenon DEF Decision, GlobalWait
<1>. HIDE DEF run, first, second
<1>3. run.allowed <=> first.allowed /\ second.allowed
  BY <1>1, <1>2
<1>4. ~first.allowed => /\ run.retry = first.retry
                        /\ run.own = first.bucket /\ run.shared = shared
  BY <1>2
<1>5. first.allowed => /\ run.retry = second.retry
                       /\ run.own = first.bucket /\ run.shared = second.bucket
  BY <1>2
<1>. QED
  BY <1>3, <1>4, <1>5, Zenon DEF run, first, second

\* Two buckets that are ready let an answer pass.
LEMMA ReadyAllows ==
  ASSUME NEW own, NEW shared, NEW g, NEW at, NEW run \in Asked(own, shared, g, at),
         \A hair \in Hair : Script(own, Burst(g), Rate(g), at, hair).allowed,
         \A hair \in Hair : Script(shared, Burst(Everyone), Rate(Everyone), at, hair).allowed
  PROVE  run.allowed
<1>1. PICK hair \in Hair, other \in Hair : run = Decision(own, shared, g, at, hair, other)
  BY DEF Asked
<1>. QED
  BY <1>1, DecisionAllows, Zenon

\* A bucket that refuses is ready a millisecond after the wait it tells.
LEMMA RefusedReady ==
  ASSUME NEW b \in Bucket, Rate(b) > 0, NEW hash, IsBucket(hash, Burst(b)),
         NEW at \in Nat, NEW hair \in Hair
  PROVE  LET run == Script(hash, Burst(b), Rate(b), at, hair)
         IN  /\ IsBucket(run.bucket, Burst(b))
             /\ ~run.allowed => /\ run.retry \in Nat
                                /\ ReadyAfter(run.bucket, b, at, run.retry + 1)
<1>. DEFINE run == Script(hash, Burst(b), Rate(b), at, hair)
<1>1. /\ Burst(b) \in Nat \ {0} /\ Rate(b) \in Nat \ {0}
      /\ Burst(b) \in Nat /\ Rate(b) \in Nat
  BY OutboundConstants
<1>2. IsBucket(run.bucket, Burst(b))
  BY <1>1, RunPays, Zenon
<1>3. ASSUME ~run.allowed
      PROVE  run.retry \in Nat /\ ReadyAfter(run.bucket, b, at, run.retry + 1)
  <2>1. /\ run.retry \in Nat \ {0}
        /\ \A d \in Nat, later \in Hair :
             /\ d >= run.retry + 1
                  => Script(run.bucket, Burst(b), Rate(b), at + d, later).allowed
             /\ d + 2 <= run.retry
                  => ~Script(run.bucket, Burst(b), Rate(b), at + d, later).allowed
    BY <1>1, <1>3, WaitIsRight, Zenon
  <2>. HIDE DEF run
  <2>2. ReadyAfter(run.bucket, b, at, run.retry + 1)
    BY <2>1, Zenon DEF ReadyAfter
  <2>. QED
    BY <2>1, <2>2
<1>. QED
  BY <1>2, <1>3

\* The bucket that refuses is ready after the wait it told: the target's, with the
\* global bucket untouched, or else the global one.
LEMMA RefusedAnswer ==
  ASSUME Rate(Everyone) > 0, NEW g \in Target, NEW own, NEW shared, NEW at \in Nat,
         IsBucket(own, Burst(g)), IsBucket(shared, Burst(Everyone)),
         NEW run \in Asked(own, shared, g, at), ~run.allowed
  PROVE  /\ run.retry \in Nat
         /\ IsBucket(run.own, Burst(g)) /\ IsBucket(run.shared, Burst(Everyone))
         /\ \/ /\ \E hair \in Hair : ~Script(own, Burst(g), Rate(g), at, hair).allowed
               /\ run.shared = shared /\ ReadyAfter(run.own, g, at, run.retry + 1)
            \/ /\ \E hair \in Hair :
                    ~Script(shared, Burst(Everyone), Rate(Everyone), at, hair).allowed
               /\ ReadyAfter(run.shared, Everyone, at, run.retry + 1)
<1>1. PICK hair \in Hair, other \in Hair : run = Decision(own, shared, g, at, hair, other)
  BY DEF Asked
<1>. DEFINE first  == Script(own, Burst(g), Rate(g), at, hair)
            second == Script(shared, Burst(Everyone), Rate(Everyone), at, other)
<1>2. g \in Bucket /\ Everyone \in Bucket /\ Rate(g) > 0
  BY OutboundConstants, OutboundAssumption DEF Rate
<1>3. /\ IsBucket(first.bucket, Burst(g))
      /\ ~first.allowed => /\ first.retry \in Nat
                           /\ ReadyAfter(first.bucket, g, at, first.retry + 1)
  BY <1>2, RefusedReady, Zenon
<1>4. /\ IsBucket(second.bucket, Burst(Everyone))
      /\ ~second.allowed => /\ second.retry \in Nat
                            /\ ReadyAfter(second.bucket, Everyone, at, second.retry + 1)
  BY <1>2, RefusedReady, Zenon
<1>5. /\ run.allowed <=> first.allowed /\ second.allowed
      /\ ~first.allowed => /\ run.retry = first.retry
                           /\ run.own = first.bucket /\ run.shared = shared
      /\ first.allowed => /\ run.retry = second.retry
                          /\ run.own = first.bucket /\ run.shared = second.bucket
  <2>. DEFINE dec == Decision(own, shared, g, at, hair, other)
  <2>1. /\ dec.allowed <=> first.allowed /\ second.allowed
        /\ ~first.allowed => /\ dec.retry = first.retry
                             /\ dec.own = first.bucket /\ dec.shared = shared
        /\ first.allowed => /\ dec.retry = second.retry
                            /\ dec.own = first.bucket /\ dec.shared = second.bucket
    BY DecisionAllows
  <2>2. run = dec
    BY <1>1
  <2>. HIDE DEF dec, first, second
  <2>. QED
    BY <2>1, <2>2, Zenon
<1>. HIDE DEF first, second
<1>6. CASE first.allowed
  <2>1. ~second.allowed
    BY <1>5, <1>6
  <2>. QED
    BY <1>3, <1>4, <1>5, <1>6, <2>1, Zenon DEF second
<1>7. CASE ~first.allowed
  BY <1>3, <1>5, <1>7, Zenon DEF first
<1>. QED
  BY <1>6, <1>7

\* A bucket that is ready after one wait is ready after a longer one.
LEMMA StaysReady ==
  ASSUME NEW hash, NEW b, NEW at \in Nat, NEW wait \in Nat, NEW later \in Nat,
         ReadyAfter(hash, b, at, wait), later >= at + wait
  PROVE  \A hair \in Hair : Script(hash, Burst(b), Rate(b), later, hair).allowed
<1>1. later - at \in Nat /\ later - at >= wait /\ at + (later - at) = later
  OBVIOUS
<1>. QED
  BY <1>1, Zenon DEF ReadyAfter

\* Once the global bucket is ready, one more wait, for the target, is enough.
LEMMA TwoWaitsLeft ==
  ASSUME Rate(Everyone) > 0, NEW g \in Target, NEW own, NEW shared,
         NEW at \in Nat, NEW wait \in Nat, NEW now3 \in Nat, now3 >= at + wait,
         IsBucket(own, Burst(g)), IsBucket(shared, Burst(Everyone)),
         ReadyAfter(shared, Everyone, at, wait),
         NEW third \in Asked(own, shared, g, now3), ~third.allowed,
         NEW fourth \in Asked(third.own, third.shared, g, now3 + third.retry + 1)
  PROVE  fourth.allowed
<1>1. \A hair \in Hair : Script(shared, Burst(Everyone), Rate(Everyone), now3, hair).allowed
  BY StaysReady
<1>2. third.retry \in Nat /\ third.shared = shared /\ ReadyAfter(third.own, g, now3, third.retry + 1)
  BY <1>1, RefusedAnswer, Zenon
<1>3. /\ third.retry + 1 \in Nat /\ now3 + third.retry + 1 \in Nat
      /\ now3 + third.retry + 1 >= now3 + (third.retry + 1)
      /\ now3 + third.retry + 1 >= at + wait
  BY <1>2
<1>4. \A hair \in Hair :
        Script(third.own, Burst(g), Rate(g), now3 + third.retry + 1, hair).allowed
  BY <1>2, <1>3, StaysReady
<1>5. \A hair \in Hair :
        Script(third.shared, Burst(Everyone), Rate(Everyone), now3 + third.retry + 1, hair).allowed
  BY <1>2, <1>3, StaysReady
<1>. QED
  BY <1>4, <1>5, ReadyAllows, Zenon

\* Whoever repeats an answer after each wait it is told, and a millisecond, is
\* through after the third at the latest, in every reachable state and however the
\* doubles round (middleware.py:203-219, rate_limiter.py:52-58).
THEOREM ThreeWaitsAreEnough == Spec => []ThreeWaits
<1>1. TypeOK => ThreeWaits
  <2>1. ASSUME TypeOK, Rate(Everyone) > 0, NEW g \in Target,
               NEW first \in Asked(bucket[g], bucket[Everyone], g, now), ~first.allowed,
               NEW second \in Asked(first.own, first.shared, g, now + first.retry + 1),
               ~second.allowed,
               NEW third \in Asked(second.own, second.shared, g,
                                   now + first.retry + 1 + second.retry + 1),
               ~third.allowed,
               NEW fourth \in Asked(third.own, third.shared, g,
                                    now + first.retry + 1 + second.retry + 1 + third.retry + 1)
        PROVE  fourth.allowed
    <3>. DEFINE now2 == now + first.retry + 1
                now3 == now2 + second.retry + 1
    <3>1. /\ now \in Nat /\ g \in Bucket /\ Everyone \in Bucket
          /\ IsBucket(bucket[g], Burst(g)) /\ IsBucket(bucket[Everyone], Burst(Everyone))
      BY <2>1, OutboundConstants, HashType DEF TypeOK, Bucket
    <3>2. /\ first.retry \in Nat
          /\ IsBucket(first.own, Burst(g)) /\ IsBucket(first.shared, Burst(Everyone))
          /\ \/ ReadyAfter(first.own, g, now, first.retry + 1)
             \/ ReadyAfter(first.shared, Everyone, now, first.retry + 1)
      BY <2>1, <3>1, RefusedAnswer, Zenon
    <3>3. /\ now2 \in Nat /\ first.retry + 1 \in Nat /\ now2 >= now + (first.retry + 1)
      BY <3>1, <3>2
    <3>4. /\ second.retry \in Nat
          /\ IsBucket(second.own, Burst(g)) /\ IsBucket(second.shared, Burst(Everyone))
          /\ \/ /\ \E hair \in Hair : ~Script(first.own, Burst(g), Rate(g), now2, hair).allowed
                /\ second.shared = first.shared
                /\ ReadyAfter(second.own, g, now2, second.retry + 1)
             \/ ReadyAfter(second.shared, Everyone, now2, second.retry + 1)
      BY <2>1, <3>2, <3>3, RefusedAnswer, Zenon
    <3>. HIDE DEF now2
    <3>5. /\ now3 \in Nat /\ second.retry + 1 \in Nat
          /\ now3 >= now2 + (second.retry + 1) /\ now3 >= now + (first.retry + 1)
      BY <3>1, <3>2, <3>3, <3>4
    <3>. HIDE DEF now3
    <3>6. CASE ReadyAfter(second.shared, Everyone, now2, second.retry + 1)
      BY <2>1, <3>3, <3>4, <3>5, <3>6, TwoWaitsLeft, Zenon DEF now2, now3
    <3>7. CASE /\ \E hair \in Hair : ~Script(first.own, Burst(g), Rate(g), now2, hair).allowed
               /\ second.shared = first.shared
               /\ ReadyAfter(second.own, g, now2, second.retry + 1)
      <4>1. ReadyAfter(first.shared, Everyone, now, first.retry + 1)
        <5>1. CASE ReadyAfter(first.own, g, now, first.retry + 1)
          <6>1. \A hair \in Hair : Script(first.own, Burst(g), Rate(g), now2, hair).allowed
            BY <3>1, <3>3, <5>1, StaysReady
          <6>. QED
            BY <3>7, <6>1, Zenon
        <5>. QED
          BY <3>2, <5>1
      <4>2. \A hair \in Hair :
              Script(second.shared, Burst(Everyone), Rate(Everyone), now3, hair).allowed
        <5>1. ReadyAfter(second.shared, Everyone, now, first.retry + 1)
          BY <3>7, <4>1
        <5>. QED
          BY <3>1, <3>3, <3>5, <5>1, StaysReady
      <4>3. \A hair \in Hair : Script(second.own, Burst(g), Rate(g), now3, hair).allowed
        BY <3>3, <3>5, <3>7, StaysReady
      <4>4. third \in Asked(second.own, second.shared, g, now3)
        BY <2>1 DEF now2, now3
      <4>5. third.allowed
        BY <4>2, <4>3, <4>4, ReadyAllows, Zenon
      <4>. QED
        BY <2>1, <4>5
    <3>. QED
      BY <3>4, <3>6, <3>7, Zenon
  <2>. QED
    BY <2>1, Zenon DEF ThreeWaits
<1>. QED
  BY <1>1, TypeCorrect, PTL
=============================================================================
