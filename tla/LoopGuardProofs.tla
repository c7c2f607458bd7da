--------------------------- MODULE LoopGuardProofs ---------------------------
(***************************************************************************)
(* The promises of the inbound path for any number of messages, bots and   *)
(* contents, whatever the rate limiter and the breaker answer: duplicates, *)
(* the block-list, and what counts as identical.                           *)
(***************************************************************************)
EXTENDS LoopGuard, TLAPS

Fresh == {"is_blocked", "audit_block", "is_open", "dedup", "limit", "observe"}

\* What the place of a message in the pipeline tells of it.
Stage(m) ==
  /\ pc[m] = "unsent" => sender[m] = Nobody
  /\ pc[m] \in Fresh \cup {"unsent", "audit_trip", "record"} => verdict[m] = "none"
  /\ pc[m] \in {"unsent", "is_blocked", "audit_block", "is_open"} => passedAt[m] = Never
  /\ pc[m] \in (Fresh \ {"dedup"}) \cup {"audit_trip"} => sender[m] \in Peer
  /\ pc[m] = "dedup" => sender[m] # Nobody
  /\ pc[m] = "dispatch" => verdict[m] \in {"allow", "raised"}

Typed ==
  /\ TypeOK
  /\ \A m \in Msg : Stage(m)

-----------------------------------------------------------------------------
(* Types *)

LEMMA TypedInit == Init => Typed
  BY GuardAssumption
     DEF Init, Typed, TypeOK, Stage, Fresh, Label, Verdict, Sender, Content, Fingerprints, Never

\* Where a message starts depends on its sender.
LEMMA ReceiveMoves ==
  ASSUME NEW m \in Msg, NEW s \in Sender, NEW c \in Content, Receive(m, s, c)
  PROVE  \/ s = Nobody /\ Decide(m, "allow", "dispatch")
         \/ s \in Peer /\ Goto(m, "is_blocked") /\ verdict' = verdict
         \/ s \in Human /\ Goto(m, "dedup") /\ verdict' = verdict
BY GuardAssumption DEF Receive, Sender

LEMMA TypedNext == Typed /\ [Next]_vars => Typed'
<1>. SUFFICES ASSUME Typed, [Next]_vars PROVE Typed'
  OBVIOUS
<1>. USE GuardAssumption
     DEF Never, Label, Verdict, Fresh, Stage, Goto, Decide, Drop, store, message, history
<1>1. ASSUME NEW m \in Msg, NEW s \in Sender, NEW c \in Content, Receive(m, s, c) PROVE Typed'
  <2>1. /\ pc[m] = "unsent" /\ sender[m] = Nobody /\ m \notin barred
        /\ Nobody \notin Peer \cup Human
    BY <1>1 DEF Typed, TypeOK, Receive
  <2>2. \/ s = Nobody /\ Decide(m, "allow", "dispatch")
        \/ s \in Peer /\ Goto(m, "is_blocked") /\ verdict' = verdict
        \/ s \in Human /\ Goto(m, "dedup") /\ verdict' = verdict
    BY <1>1, ReceiveMoves
  <2>3. /\ sender' \in [Msg -> Sender]
        /\ content' \in [Msg -> Content \cup {NoContent}]
        /\ pc' \in [Msg -> Label] /\ verdict' \in [Msg -> Verdict]
    BY <1>1, <2>2 DEF Typed, TypeOK, Receive
  <2>4. /\ handled' \subseteq {n \in Msg : pc'[n] = "done" /\ verdict'[n] \in {"allow", "raised"}}
        /\ barred' \subseteq {n \in Msg : sender'[n] # Nobody}
    BY <1>1, <2>1, <2>2 DEF Typed, TypeOK, Receive
  <2>5. \A n \in Msg : Stage(n)'
    BY <1>1, <2>1, <2>2 DEF Typed, TypeOK, Receive
  <2>. QED
    BY <1>1, <2>3, <2>4, <2>5 DEF Typed, TypeOK, Receive
<1>2. ASSUME NEW m \in Msg, NEW s \in Sender, ReceiveElsewhere(m, s) PROVE Typed'
  BY <1>2 DEF Typed, TypeOK, ReceiveElsewhere, ChatAllowed
<1>3. ASSUME NEW m \in Msg, CheckBlocked(m) PROVE Typed'
  BY <1>3 DEF Typed, TypeOK, CheckBlocked
<1>4. ASSUME NEW m \in Msg, AuditBlock(m) PROVE Typed'
  BY <1>4 DEF Typed, TypeOK, AuditBlock
<1>5. ASSUME NEW m \in Msg, CheckOpen(m) PROVE Typed'
  BY <1>5 DEF Typed, TypeOK, CheckOpen
<1>6. ASSUME NEW m \in Msg, Dedup(m) PROVE Typed'
  BY <1>6 DEF Typed, TypeOK, Dedup, DedupExpiry
<1>7. ASSUME NEW m \in Msg, Limit(m) PROVE Typed'
  BY <1>7 DEF Typed, TypeOK, Limit
<1>8. ASSUME NEW m \in Msg, Observe(m) PROVE Typed'
  BY <1>8 DEF Typed, TypeOK, Observe, DropVerdict
<1>9. ASSUME NEW m \in Msg, AuditTrip(m) PROVE Typed'
  BY <1>9 DEF Typed, TypeOK, AuditTrip, DropVerdict
<1>10. ASSUME NEW m \in Msg, Record(m) PROVE Typed'
  BY <1>10 DEF Typed, TypeOK, Record
<1>11. ASSUME NEW m \in Msg, Dispatch(m) PROVE Typed'
  BY <1>11 DEF Typed, TypeOK, Dispatch
<1>12. ASSUME NEW m \in Msg, Fail(m) PROVE Typed'
  BY <1>12 DEF Typed, TypeOK, Fail
<1>13. ASSUME NEW p \in Peer, Block(p) \/ Unblock(p) PROVE Typed'
  BY <1>13 DEF Typed, TypeOK, Block, Unblock
<1>14. CASE Tick \/ UNCHANGED vars
  BY <1>14 DEF Typed, TypeOK, Tick, vars
<1>. QED
  BY <1>1, <1>2, <1>3, <1>4, <1>5, <1>6, <1>7, <1>8, <1>9, <1>10, <1>11, <1>12, <1>13, <1>14
     DEF Next, Step

\* Types, for every set of messages and senders.
THEOREM TypeCorrect == Spec => []TypeOK
<1>1. Typed => TypeOK
  BY DEF Typed
<1>. QED
  BY <1>1, TypedInit, TypedNext, PTL DEF Spec

-----------------------------------------------------------------------------
(* Deduplication *)

\* A key lives on for a TTL after each message that passed by it ...
Held(m) ==
  passedAt[m] # Never => dedup[Fingerprint(m)] >= passedAt[m] + DedupTtl

\* ... and no longer than that after the last one.
Owed(f) ==
  dedup[f] > 0 => \E n \in Msg : /\ passedAt[n] # Never /\ Fingerprint(n) = f
                                 /\ dedup[f] = passedAt[n] + DedupTtl

DedupInv ==
  /\ DedupWindow
  /\ \A m \in Msg : Held(m)
  /\ \A f \in Fingerprints : Owed(f)

LEMMA FingerprintType ==
  ASSUME Typed, NEW m \in Msg
  PROVE  Fingerprint(m) \in Fingerprints
BY DEF Typed, TypeOK, Fingerprint, Fingerprints

LEMMA DedupInit == Init => DedupInv
<1>. SUFFICES ASSUME Init PROVE DedupInv
  OBVIOUS
<1>1. \A m \in Msg : passedAt[m] = Never
  BY DEF Init
<1>2. \A f \in Fingerprints : dedup[f] = 0
  BY DEF Init
<1>. QED
  BY <1>1, <1>2 DEF DedupInv, DedupWindow, Held, Owed

\* Every step but a pass of deduplication leaves the keys and the passing times
\* alone, and the fingerprint of whatever has passed.
LEMMA DedupFrame ==
  ASSUME Typed, [Next]_vars
  PROVE  \/ \E m \in Msg : Dedup(m)
         \/ /\ dedup' = dedup /\ passedAt' = passedAt
            /\ \A m \in Msg : passedAt[m] # Never => Fingerprint(m)' = Fingerprint(m)
<1>1. ASSUME UNCHANGED <<dedup, passedAt, sender, content>>
      PROVE  \A m \in Msg : Fingerprint(m)' = Fingerprint(m)
  BY <1>1 DEF Fingerprint
<1>2. ASSUME NEW m \in Msg, passedAt[m] = Never,
             \A n \in Msg \ {m} : sender'[n] = sender[n] /\ content'[n] = content[n]
      PROVE  \A n \in Msg : passedAt[n] # Never => Fingerprint(n)' = Fingerprint(n)
  BY <1>2 DEF Fingerprint
<1>3. ASSUME NEW m \in Msg, NEW s \in Sender,
             (\E c \in Content : Receive(m, s, c)) \/ ReceiveElsewhere(m, s)
      PROVE  /\ passedAt[m] = Never /\ dedup' = dedup /\ passedAt' = passedAt
             /\ \A n \in Msg \ {m} : sender'[n] = sender[n] /\ content'[n] = content[n]
  BY <1>3 DEF Typed, TypeOK, Stage, Receive, ReceiveElsewhere, store
<1>4. ASSUME NEW m \in Msg,
             \/ CheckBlocked(m) \/ AuditBlock(m) \/ CheckOpen(m) \/ Limit(m)
             \/ Observe(m) \/ AuditTrip(m) \/ Record(m) \/ Dispatch(m) \/ Fail(m)
      PROVE  UNCHANGED <<dedup, passedAt, sender, content>>
  BY <1>4 DEF CheckBlocked, AuditBlock, CheckOpen, Limit, Observe, AuditTrip,
              Record, Dispatch, Fail, message, store, history
<1>5. ASSUME Tick \/ UNCHANGED vars \/ \E p \in Peer : Block(p) \/ Unblock(p)
      PROVE  UNCHANGED <<dedup, passedAt, sender, content>>
  BY <1>5 DEF Tick, vars, Block, Unblock, message, store, history
<1>. QED
  BY <1>1, <1>2, <1>3, <1>4, <1>5 DEF Next, Step

LEMMA DedupNext == Typed /\ DedupInv /\ [Next]_vars => DedupInv'
<1>. SUFFICES ASSUME Typed, DedupInv, [Next]_vars PROVE DedupInv'
  OBVIOUS
<1>1. ASSUME NEW m \in Msg, Dedup(m) PROVE DedupInv'
  <2>1. PICK f \in Fingerprints : f = Fingerprint(m)
    BY FingerprintType
  <2>2. \A n \in Msg : Fingerprint(n)' = Fingerprint(n)
    BY <1>1 DEF Dedup, message, Fingerprint
  <2>3. /\ passedAt \in [Msg -> {Never} \cup 0 .. now] /\ now \in Nat
        /\ dedup \in [Fingerprints -> 0 .. MaxTime + DedupTtl] /\ DedupTtl \in Nat
    BY GuardAssumption DEF Typed, TypeOK
  <2>4. CASE dedup' = dedup /\ passedAt' = passedAt
    BY <2>2, <2>4 DEF DedupInv, DedupWindow, Held, Owed
  <2>5. CASE /\ dedup[f] <= now
             /\ dedup' = [dedup EXCEPT ![f] = now + DedupTtl]
             /\ passedAt' = [passedAt EXCEPT ![m] = now]
    <3>1. \A n \in Msg : /\ passedAt'[n] = IF n = m THEN now ELSE passedAt[n]
                         /\ passedAt[n] # Never /\ Fingerprint(n) = f
                              => passedAt[n] + DedupTtl <= now
      BY <2>1, <2>3, <2>5 DEF DedupInv, Held
    <3>2. now # Never
      BY <2>3 DEF Never
    <3>3. DedupWindow'
      BY <2>1, <2>2, <2>3, <3>1 DEF DedupInv, DedupWindow
    <3>4. \A n \in Msg : Held(n)'
      BY <2>1, <2>2, <2>3, <2>5, <3>1, FingerprintType DEF DedupInv, Held
    <3>5. ASSUME NEW g \in Fingerprints PROVE Owed(g)'
      <4>1. CASE g = f
        BY <2>1, <2>2, <2>3, <2>5, <3>1, <3>2, <4>1 DEF Owed
      <4>2. CASE g # f
        <5>1. dedup'[g] = dedup[g] /\ Owed(g)
          BY <2>3, <2>5, <4>2 DEF DedupInv
        <5>2. \A n \in Msg : Fingerprint(n) = g => passedAt'[n] = passedAt[n]
          BY <2>1, <3>1, <4>2
        <5>. QED
          BY <2>2, <5>1, <5>2 DEF Owed
      <4>. QED
        BY <4>1, <4>2
    <3>. QED
      BY <3>3, <3>4, <3>5 DEF DedupInv
  <2>. QED
    BY <1>1, <2>1, <2>3, <2>4, <2>5 DEF Dedup, DedupExpiry
<1>2. CASE /\ dedup' = dedup /\ passedAt' = passedAt
           /\ \A m \in Msg : passedAt[m] # Never => Fingerprint(m)' = Fingerprint(m)
  <2>1. DedupWindow'
    BY <1>2 DEF DedupInv, DedupWindow
  <2>2. \A m \in Msg : Held(m)'
    BY <1>2 DEF DedupInv, Held
  <2>3. \A f \in Fingerprints : Owed(f)'
    BY <1>2 DEF DedupInv, Owed
  <2>. QED
    BY <2>1, <2>2, <2>3 DEF DedupInv
<1>. QED
  BY <1>1, <1>2, DedupFrame

\* Messages that hash alike pass a TTL apart, however many are evaluated at once
\* and whatever fails (dedup.py:3-9,36-41, middleware.py:122-131).
THEOREM DedupWindowHolds == Spec => []DedupWindow
<1>1. DedupInv => DedupWindow
  BY DEF DedupInv
<1>. QED
  BY <1>1, TypedInit, TypedNext, DedupInit, DedupNext, PTL DEF Spec

\* Only deduplication gives the verdict of a duplicate.
LEMMA OnlyDedupDrops ==
  ASSUME Typed, [Next]_vars, NEW m \in Msg,
         verdict[m] = "none", verdict'[m] = "drop_dedup"
  PROVE  Dedup(m) /\ dedup[Fingerprint(m)] > now
<1>. USE DEF Goto, Decide, Drop, Typed, TypeOK
<1>1. ASSUME NEW n \in Msg, Dedup(n) PROVE Dedup(m) /\ dedup[Fingerprint(m)] > now
  BY <1>1 DEF Dedup
<1>2. ASSUME NEW n \in Msg, NEW s \in Sender,
             (\E c \in Content : Receive(n, s, c)) \/ ReceiveElsewhere(n, s)
      PROVE  FALSE
  <2>1. verdict' = verdict \/ verdict' = [verdict EXCEPT ![n] = "allow"]
        \/ verdict' = [verdict EXCEPT ![n] = "drop_chat_not_allowed"]
    BY <1>2 DEF Receive, ReceiveElsewhere, ChatAllowed, Sender
  <2>. QED
    BY <2>1
<1>3. ASSUME NEW n \in Msg,
             \/ CheckBlocked(n) \/ AuditBlock(n) \/ CheckOpen(n) \/ Limit(n)
             \/ Observe(n) \/ AuditTrip(n) \/ Record(n) \/ Dispatch(n) \/ Fail(n)
      PROVE  FALSE
  BY <1>3 DEF CheckBlocked, AuditBlock, CheckOpen, Limit, Observe, AuditTrip,
              DropVerdict, Record, Dispatch, Fail
<1>4. ASSUME Tick \/ UNCHANGED vars \/ \E p \in Peer : Block(p) \/ Unblock(p)
      PROVE  FALSE
  BY <1>4 DEF Tick, vars, Block, Unblock
<1>. QED
  BY <1>1, <1>2, <1>3, <1>4 DEF Next, Step

\* A message is dropped as a duplicate only for a copy by the same sender that
\* passed within the TTL (dedup.py:3-9,36-41).
THEOREM DupsJustified == Spec => DupJustified
<1>. DEFINE Copy(m) == \E n \in Msg : /\ sender[n] = sender[m] /\ passedAt[n] # Never
                                      /\ Fingerprint(n) = Fingerprint(m)
                                      /\ now - passedAt[n] < DedupTtl
<1>1. Typed /\ DedupInv /\ [Next]_vars
        => [\A m \in Msg : verdict[m] = "none" /\ verdict'[m] = "drop_dedup" => Copy(m)]_vars
  <2>. SUFFICES ASSUME Typed, DedupInv, [Next]_vars, NEW m \in Msg,
                       verdict[m] = "none", verdict'[m] = "drop_dedup"
                PROVE  Copy(m)
    OBVIOUS
  <2>. DEFINE f == Fingerprint(m)
  <2>1. dedup[f] > now /\ f \in Fingerprints /\ now \in Nat
    BY OnlyDedupDrops, FingerprintType, GuardAssumption DEF Typed, TypeOK
  <2>2. Owed(f)
    BY <2>1, Zenon DEF DedupInv
  <2>3. PICK n \in Msg : /\ passedAt[n] # Never /\ Fingerprint(n) = f
                         /\ dedup[f] = passedAt[n] + DedupTtl
    <3>. HIDE DEF f
    <3>1. dedup[f] > 0
      BY <2>1, GuardAssumption DEF Typed, TypeOK
    <3>. QED
      BY <2>2, <3>1 DEF Owed
  <2>4. sender[n] = sender[m]
    BY <2>3 DEF Fingerprint
  <2>5. passedAt[n] \in Int /\ DedupTtl \in Nat
    BY <2>1, GuardAssumption DEF Typed, TypeOK, Never
  <2>6. now - passedAt[n] < DedupTtl
    BY <2>1, <2>3, <2>5
  <2>. QED
    BY <2>3, <2>4, <2>6
<1>. QED
  BY <1>1, TypedInit, TypedNext, DedupInit, DedupNext, PTL DEF Spec, DupJustified

-----------------------------------------------------------------------------
(* Who is barred *)

\* A barred message waits for the block-list, which still has its sender, or it
\* is out of the pipeline without an ALLOW.
KeptOut(m) ==
  \/ pc[m] \in {"is_blocked", "audit_block"} /\ sender[m] \in blocked
  \/ pc[m] = "dispatch" /\ verdict[m] = "raised"
  \/ pc[m] = "done" /\ (m \in handled => verdict[m] = "raised")

Barred == \A m \in barred : KeptOut(m)

LEMMA BarredNext == Typed /\ Barred /\ [Next]_vars => Barred'
<1>. SUFFICES ASSUME Typed, Barred, [Next]_vars PROVE Barred'
  OBVIOUS
<1>. USE DEF Goto, Decide, Drop, Typed, TypeOK, Barred, KeptOut, store, message, history
<1>1. ASSUME NEW m \in Msg, NEW s \in Sender, NEW c \in Content, Receive(m, s, c) PROVE Barred'
  <2>1. m \notin barred /\ Nobody \notin Peer \cup Human /\ blocked \subseteq Peer
    BY <1>1, GuardAssumption DEF Receive, Stage
  <2>2. \A n \in barred : KeptOut(n)'
    <3>1. /\ blocked' = blocked /\ handled' = handled
          /\ \A n \in Msg \ {m} : pc'[n] = pc[n] /\ verdict'[n] = verdict[n] /\ sender'[n] = sender[n]
      BY <1>1, ReceiveMoves DEF Receive
    <3>. QED
      BY <2>1, <3>1
  <2>3. s \in blocked => KeptOut(m)'
    BY <1>1, <2>1, GuardAssumption DEF Receive
  <2>. QED
    BY <1>1, <2>2, <2>3 DEF Receive
<1>2. ASSUME NEW m \in Msg, NEW s \in Sender, ReceiveElsewhere(m, s) PROVE Barred'
  BY <1>2 DEF ReceiveElsewhere, ChatAllowed, Stage
<1>3. ASSUME NEW m \in Msg, CheckBlocked(m) \/ AuditBlock(m) PROVE Barred'
  BY <1>3 DEF CheckBlocked, AuditBlock, IsBlocked
<1>4. ASSUME NEW m \in Msg,
             \/ CheckOpen(m) \/ Dedup(m) \/ Limit(m)
             \/ Observe(m) \/ AuditTrip(m) \/ Record(m)
      PROVE  Barred'
  <2>1. m \notin barred
    BY <1>4 DEF CheckOpen, Dedup, Limit, Observe, AuditTrip, Record
  <2>2. /\ UNCHANGED <<sender, barred, blocked, handled>>
        /\ \A n \in Msg \ {m} : pc'[n] = pc[n] /\ verdict'[n] = verdict[n]
    BY <1>4 DEF CheckOpen, Dedup, Limit, Observe, AuditTrip, Record
  <2>. QED
    BY <2>1, <2>2
<1>5. ASSUME NEW m \in Msg, Dispatch(m) \/ Fail(m) PROVE Barred'
  BY <1>5 DEF Dispatch, Fail
<1>6. ASSUME NEW p \in Peer, Block(p) \/ Unblock(p) PROVE Barred'
  BY <1>6 DEF Block, Unblock
<1>7. CASE Tick \/ UNCHANGED vars
  BY <1>7 DEF Tick, vars
<1>. QED
  BY <1>1, <1>2, <1>3, <1>4, <1>5, <1>6, <1>7 DEF Next, Step

\* What a blocked bot sends, and what is sent in a chat the bot is not to operate
\* in, reaches no handler unless its own evaluation raised (middleware.py:95-103,
\* guard.py:24-34).
THEOREM BarredHolds == Spec => []BarredStaysOut
<1>1. Init => Barred
  BY DEF Init, Barred
<1>2. Typed /\ Barred => BarredStaysOut
  BY DEF Typed, TypeOK, Barred, KeptOut, BarredStaysOut
<1>. QED
  BY <1>1, <1>2, TypedInit, TypedNext, BarredNext, PTL DEF Spec

-----------------------------------------------------------------------------
(* What counts as identical *)

\* A message is hashed with the content it arrived with, passes only once, and is
\* dropped as a duplicate only because another one has passed.
Copied(m) ==
  /\ pc[m] = "dedup" => passedAt[m] = Never
  /\ pc[m] \in {"is_blocked", "audit_block", "is_open", "dedup"} => content[m] \in Content
  /\ verdict[m] = "drop_dedup" =>
       /\ pc[m] = "done" /\ content[m] \in Content
       /\ \E n \in Msg \ {m} : passedAt[n] # Never /\ Fingerprint(n) = Fingerprint(m)

Copies == \A m \in Msg : Copied(m)

\* What a step may do to a message: only its own evaluation moves it.
LEMMA OneActs ==
  ASSUME Typed, [Next]_vars, NEW m \in Msg
  PROVE  \/ /\ pc'[m] = pc[m] /\ verdict'[m] = verdict[m] /\ passedAt'[m] = passedAt[m]
            /\ sender'[m] = sender[m] /\ content'[m] = content[m]
         \/ Step(m) \/ Fail(m)
         \/ \E s \in Sender : (\E c \in Content : Receive(m, s, c)) \/ ReceiveElsewhere(m, s)
<1>. DEFINE Kept == /\ pc'[m] = pc[m] /\ verdict'[m] = verdict[m] /\ passedAt'[m] = passedAt[m]
                    /\ sender'[m] = sender[m] /\ content'[m] = content[m]
<1>. USE DEF Typed, TypeOK, Goto, Decide, Drop, message, store, history
<1>1. ASSUME NEW n \in Msg \ {m}, NEW s \in Sender, NEW c \in Content, Receive(n, s, c)
      PROVE  Kept
  <2>1. \/ Decide(n, "allow", "dispatch")
        \/ Goto(n, "is_blocked") /\ verdict' = verdict
        \/ Goto(n, "dedup") /\ verdict' = verdict
    BY <1>1, ReceiveMoves
  <2>. QED
    BY <1>1, <2>1 DEF Receive
<1>2. ASSUME NEW n \in Msg \ {m}, NEW s \in Sender, ReceiveElsewhere(n, s)
      PROVE  Kept
  BY <1>2 DEF ReceiveElsewhere
<1>3. ASSUME NEW n \in Msg \ {m},
             \/ CheckBlocked(n) \/ AuditBlock(n) \/ CheckOpen(n) \/ Dedup(n) \/ Limit(n)
      PROVE  Kept
  BY <1>3 DEF CheckBlocked, AuditBlock, CheckOpen, Dedup, Limit
<1>4. ASSUME NEW n \in Msg \ {m}, \/ Observe(n) \/ AuditTrip(n)
                                  \/ Record(n) \/ Dispatch(n) \/ Fail(n)
      PROVE  Kept
  BY <1>4 DEF Observe, AuditTrip, Record, Dispatch, Fail
<1>5. ASSUME Tick \/ UNCHANGED vars \/ \E p \in Peer : Block(p) \/ Unblock(p)
      PROVE  Kept
  BY <1>5 DEF Tick, vars, Block, Unblock
<1>. HIDE DEF Kept
<1>6. CASE \E n \in Msg \ {m} : \/ Step(n) \/ Fail(n)
                                \/ \E s \in Sender : \/ \E c \in Content : Receive(n, s, c)
                                                     \/ ReceiveElsewhere(n, s)
  BY <1>1, <1>2, <1>3, <1>4, <1>6 DEF Step, Kept
<1>7. CASE ~\E n \in Msg \ {m} : \/ Step(n) \/ Fail(n)
                                 \/ \E s \in Sender : \/ \E c \in Content : Receive(n, s, c)
                                                      \/ ReceiveElsewhere(n, s)
  BY <1>5, <1>7 DEF Next, Kept
<1>. QED
  BY <1>6, <1>7

\* Up to deduplication a message goes from step to step, with what it arrived with.
LEMMA EarlySteps ==
  ASSUME Typed, [Next]_vars, NEW m \in Msg,
         pc'[m] \in {"is_blocked", "audit_block", "is_open", "dedup"}
  PROVE  /\ \/ pc[m] = "unsent" /\ content'[m] \in Content
            \/ /\ pc[m] \in {"is_blocked", "audit_block", "is_open", "dedup"}
               /\ content'[m] = content[m]
         /\ passedAt'[m] = passedAt[m]
<1>. USE DEF Typed, TypeOK, Goto, Decide, Drop, message, store, history
<1>1. ASSUME NEW s \in Sender, NEW c \in Content, Receive(m, s, c)
      PROVE  pc[m] = "unsent" /\ content'[m] \in Content /\ passedAt'[m] = passedAt[m]
  <2>1. s # Nobody
    BY <1>1, ReceiveMoves, GuardAssumption DEF Sender
  <2>. QED
    BY <1>1, <2>1 DEF Receive
<1>2. ASSUME NEW s \in Sender, ReceiveElsewhere(m, s) PROVE FALSE
  BY <1>2 DEF ReceiveElsewhere
<1>3. ASSUME Step(m)
      PROVE  /\ pc[m] \in {"is_blocked", "audit_block", "is_open", "dedup"}
             /\ content'[m] = content[m] /\ passedAt'[m] = passedAt[m]
  <2>1. ~Limit(m) /\ ~Observe(m) /\ ~AuditTrip(m) /\ ~Record(m) /\ ~Dispatch(m)
    BY DEF Limit, Observe, AuditTrip, Record, Dispatch
  <2>2. ~Dedup(m) /\ ~AuditBlock(m)
    BY DEF Dedup, AuditBlock
  <2>. QED
    BY <1>3, <2>1, <2>2 DEF Step, CheckBlocked, CheckOpen
<1>4. ASSUME Fail(m) PROVE FALSE
  BY <1>4 DEF Fail
<1>. QED
  BY <1>1, <1>2, <1>3, <1>4, OneActs

\* A message that is done stays as it is.
LEMMA DoneStays ==
  ASSUME Typed, [Next]_vars, NEW m \in Msg, pc[m] = "done"
  PROVE  /\ pc'[m] = "done" /\ verdict'[m] = verdict[m]
         /\ sender'[m] = sender[m] /\ content'[m] = content[m]
<1>1. ~Step(m) /\ ~Fail(m)
  BY DEF Step, CheckBlocked, AuditBlock, CheckOpen, Dedup, Limit, Observe,
         AuditTrip, Record, Dispatch, Fail
<1>2. ~\E s \in Sender : (\E c \in Content : Receive(m, s, c)) \/ ReceiveElsewhere(m, s)
  BY DEF Receive, ReceiveElsewhere
<1>. QED
  BY <1>1, <1>2, OneActs

LEMMA CopiesNext == Typed /\ DedupInv /\ Copies /\ [Next]_vars => Copies'
<1>. SUFFICES ASSUME Typed, DedupInv, Copies, [Next]_vars, NEW m \in Msg
              PROVE  Copied(m)'
  BY DEF Copies
<1>1. /\ passedAt \in [Msg -> {Never} \cup 0 .. now] /\ now \in Nat
      /\ pc \in [Msg -> Label] /\ verdict \in [Msg -> Verdict]
  BY GuardAssumption DEF Typed, TypeOK
<1>2. \A n \in Msg : passedAt[n] # Never => passedAt'[n] # Never /\ Fingerprint(n)' = Fingerprint(n)
  <2>1. ASSUME NEW k \in Msg, Dedup(k), NEW n \in Msg, passedAt[n] # Never
        PROVE  passedAt'[n] # Never /\ Fingerprint(n)' = Fingerprint(n)
    <3>1. Fingerprint(n)' = Fingerprint(n)
      BY <2>1 DEF Dedup, message, Fingerprint
    <3>2. passedAt'[n] # Never
      BY <1>1, <2>1 DEF Dedup, Never
    <3>. QED
      BY <3>1, <3>2
  <2>. QED
    BY <2>1, DedupFrame
<1>3. /\ pc'[m] = "dedup" => passedAt'[m] = Never
      /\ pc'[m] \in {"is_blocked", "audit_block", "is_open", "dedup"} => content'[m] \in Content
  <2>1. pc[m] \in {"unsent", "is_blocked", "audit_block", "is_open", "dedup"} => passedAt[m] = Never
    BY DEF Typed, Stage, Copies, Copied
  <2>. QED
    BY <2>1, EarlySteps DEF Copies, Copied
<1>4. CASE verdict[m] = "drop_dedup"
  <2>1. PICK n \in Msg \ {m} : passedAt[n] # Never /\ Fingerprint(n) = Fingerprint(m)
    BY <1>4 DEF Copies, Copied
  <2>2. pc[m] = "done" /\ content[m] \in Content
    BY <1>4 DEF Copies, Copied
  <2>3. /\ pc'[m] = "done" /\ content'[m] = content[m] /\ sender'[m] = sender[m]
    BY <2>2, DoneStays
  <2>4. Fingerprint(m)' = Fingerprint(m)
    BY <2>3 DEF Fingerprint
  <2>5. passedAt'[n] # Never /\ Fingerprint(n)' = Fingerprint(n)
    BY <1>2, <2>1
  <2>. QED
    BY <1>3, <2>1, <2>2, <2>3, <2>4, <2>5 DEF Copied
<1>5. CASE verdict[m] # "drop_dedup" /\ verdict'[m] = "drop_dedup"
  <2>1. verdict[m] = "none"
    <3>1. verdict'[m] # verdict[m] /\ ~Dispatch(m)
      BY <1>5 DEF Dispatch
    <3>2. pc[m] \in Fresh \cup {"unsent", "audit_trip", "record"}
      BY <3>1, <1>1, OneActs
         DEF Step, Fail, Receive, ReceiveElsewhere, CheckBlocked, AuditBlock, CheckOpen,
         Dedup, Limit, Observe, AuditTrip, Record, Fresh, Label
    <3>. QED
      BY <3>2 DEF Typed, Stage
  <2>2. Dedup(m) /\ dedup[Fingerprint(m)] > now
    BY <1>5, <2>1, OnlyDedupDrops
  <2>3. pc[m] = "dedup" /\ pc'[m] = "done" /\ passedAt' = passedAt /\ UNCHANGED message
    BY <1>1, <2>2 DEF Dedup, Drop, Decide, Goto
  <2>4. passedAt[m] = Never /\ content[m] \in Content
    BY <2>3 DEF Copies, Copied
  <2>5. PICK n \in Msg : passedAt[n] # Never /\ Fingerprint(n) = Fingerprint(m)
    <3>1. PICK f \in Fingerprints : f = Fingerprint(m)
      BY FingerprintType
    <3>2. dedup[f] > 0
      BY <1>1, <2>2, <3>1, GuardAssumption DEF Typed, TypeOK
    <3>. QED
      BY <3>1, <3>2 DEF DedupInv, Owed
  <2>6. n # m /\ Fingerprint(n)' = Fingerprint(n) /\ Fingerprint(m)' = Fingerprint(m)
    BY <2>3, <2>4, <2>5 DEF message, Fingerprint
  <2>7. content'[m] = content[m]
    BY <2>3 DEF message
  <2>. QED
    BY <1>3, <2>3, <2>4, <2>5, <2>6, <2>7 DEF Copied
<1>. QED
  BY <1>3, <1>4, <1>5 DEF Copied

LEMMA CopiesHold == Spec => []Copies
<1>1. Init => Copies
  BY DEF Init, Copies, Copied
<1>. QED
  BY <1>1, CopiesNext, TypedInit, TypedNext, DedupInit, DedupNext, PTL DEF Spec

\* A message whose content is of one of the kinds that evaluate_inbound looks at
\* is dropped as a duplicate only of an identical one, whatever unlisted kinds are
\* sent besides (dedup.py:3, hashing.py:7-21, middleware.py:109-131).
THEOREM ListedOnlyIdentical == Spec => []ListedIdentical
<1>1. Copies => ListedIdentical
  BY GuardAssumption DEF Copies, Copied, Fingerprint, ListedIdentical
<1>. QED
  BY <1>1, CopiesHold, PTL
=============================================================================
