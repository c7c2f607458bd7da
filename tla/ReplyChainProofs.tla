--------------------------- MODULE ReplyChainProofs ---------------------------
(***************************************************************************)
(* For any number of messages and evaluations, any limits and timeouts,    *)
(* and whatever crashes, expires or is edited: no depth record overstates  *)
(* its chain, no answer is refused in a chain shorter than the limit, only *)
(* faults leave records without a TTL, and a prompt peer is tracked        *)
(* exactly and its loops are broken.                                       *)
(***************************************************************************)
EXTENDS ReplyChain, FiniteSetTheorems, TLAPS

\* What a message knows of the message it replies to.
Chains ==
  \A m \in 1 .. last :
    /\ m \in above[m]
    /\ parent[m] \in 0 .. m - 1
    /\ parent[m] # NoMsg => /\ hops[m] = hops[parent[m]] + 1
                            /\ above[parent[m]] \subseteq above[m]

\* DepthSound, for the messages that were sent.
Records ==
  \A m \in Msg :
    Exists(m) => /\ m <= last
                 /\ rec[m].d <= hops[m]
                 /\ rec[m].r \in above[m]

\* What an evaluation has read or computed does not overstate either.
Reading(t) ==
  /\ pc[t] \in {"hget_d", "hget_r"} => parent[cur[t]] # NoMsg
  /\ pc[t] = "hget_r" /\ depth[t] # Unseen => depth[t] <= hops[parent[cur[t]]]
  /\ pc[t] \in {"hset", "expire", "touch", "pair"} =>
       /\ depth[t] \in Nat /\ depth[t] <= hops[cur[t]]
       /\ root[t] \in above[cur[t]]
  /\ pc[t] = "gate_r" => depth[t] \in Nat /\ depth[t] <= hops[cur[t]]
  /\ pc[t] = "active" => root[t] \in above[cur[t]]

Readings == \A t \in Task : Reading(t)

ChainInv == TypeOK /\ Chains /\ Records /\ Readings

-----------------------------------------------------------------------------
(* Type correctness *)

LEMMA ChainConstants ==
  /\ MaxMsg \in Nat \ {0} /\ MaxReplyDepth \in Nat \ {0}
  /\ ConvoTimeout \in Nat \ {0} /\ PairTimeout \in Nat \ {0}
  /\ MaxEdits \in Nat /\ MaxFaults \in Nat
  /\ DepthTtl \in Nat \ {0}
  BY ChainAssumption DEF DepthTtl

LEMMA TypeInit == Init => TypeOK
<1>. SUFFICES ASSUME Init PROVE TypeOK
  OBVIOUS
<1>1. /\ last \in 0 .. MaxMsg /\ edits \in 0 .. MaxEdits /\ faults \in 0 .. MaxFaults
      /\ pair \in 0 .. PairTimeout /\ engaged \in -1 .. PairTimeout + 1
  BY ChainConstants DEF Init
<1>2. /\ parent \in [Msg -> 0 .. MaxMsg] /\ hops \in [Msg -> Nat]
      /\ above \in [Msg -> SUBSET Msg] /\ convo \in [Msg -> 0 .. ConvoTimeout]
  BY ChainConstants DEF Init, NoMsg
<1>3. /\ rec \in [Msg -> [ttl : Int, d : Nat, r : 0 .. MaxMsg]]
      /\ \A m \in Msg : rec[m].ttl \in Persistent .. DepthTtl
  BY ChainConstants DEF Init, Missing, NoMsg, Persistent
<1>4. /\ pc \in [Task -> Label] /\ cur \in [Task -> 0 .. MaxMsg]
      /\ depth \in [Task -> Nat \cup {Unseen}] /\ root \in [Task -> 0 .. MaxMsg]
  BY ChainConstants DEF Init, Label, NoMsg
<1>5. \A t \in Task : pc[t] = "idle"
  BY DEF Init
<1>6. ours \subseteq Msg /\ pending \subseteq 1 .. last /\ prompt \in BOOLEAN
  BY DEF Init
<1>. QED
  BY <1>1, <1>2, <1>3, <1>4, <1>5, <1>6 DEF TypeOK

\* An evaluation that ends leaves its locals well typed.
LEMMA FinishType ==
  ASSUME TypeOK, NEW t \in Task, Finish(t), last' = last
  PROVE  /\ pc' \in [Task -> Label] /\ cur' \in [Task -> 0 .. MaxMsg]
         /\ depth' \in [Task -> Nat \cup {Unseen}] /\ root' \in [Task -> 0 .. MaxMsg]
         /\ \A u \in Task : pc'[u] # "idle" => cur'[u] \in 1 .. last'
  BY ChainConstants DEF TypeOK, Finish, Goto, Label, NoMsg

\* A new message extends the chat by one chain.
LEMMA PostType ==
  ASSUME TypeOK, NEW p \in 0 .. last, Post(p)
  PROVE  /\ last' \in 0 .. MaxMsg /\ last' = last + 1 /\ last' \in Msg
         /\ parent' \in [Msg -> 0 .. MaxMsg]
         /\ hops' \in [Msg -> Nat]
         /\ above' \in [Msg -> SUBSET Msg]
<1>1. last' \in Msg /\ last' = last + 1 /\ last' \in 0 .. MaxMsg /\ p \in 0 .. MaxMsg
  BY ChainConstants DEF TypeOK, Post, Msg
<1>2. p # NoMsg => p \in Msg
  BY <1>1 DEF Msg, NoMsg
<1>. QED
  BY <1>1, <1>2 DEF TypeOK, Post

\* Starting to record a sent message leaves the locals well typed.
LEMMA StartRecordType ==
  ASSUME TypeOK, NEW t \in Task, NEW m \in 1 .. last', StartRecord(t, m),
         last' \in 0 .. MaxMsg, last' >= last
  PROVE  /\ pc' \in [Task -> Label] /\ cur' \in [Task -> 0 .. MaxMsg]
         /\ depth' \in [Task -> Nat \cup {Unseen}] /\ root' \in [Task -> 0 .. MaxMsg]
         /\ \A u \in Task : pc'[u] # "idle" => cur'[u] \in 1 .. last'
<1>1. m \in 0 .. MaxMsg /\ 0 \in 0 .. MaxMsg
  BY ChainConstants
<1>2. \A u \in Task : pc[u] # "idle" => cur[u] \in 1 .. last'
  BY ChainConstants DEF TypeOK
<1>3. PICK l \in Label, d \in Nat \cup {Unseen}, r \in 0 .. MaxMsg :
        Goto(t, l) /\ Info(t, d, r)
  BY <1>1 DEF StartRecord, Label, NoMsg
<1>4. /\ pc' \in [Task -> Label] /\ depth' \in [Task -> Nat \cup {Unseen}]
      /\ root' \in [Task -> 0 .. MaxMsg]
  BY <1>3 DEF TypeOK, Goto, Info
<1>5. cur' = [cur EXCEPT ![t] = m]
  BY DEF StartRecord
<1>6. /\ cur' \in [Task -> 0 .. MaxMsg]
      /\ \A u \in Task : pc'[u] # "idle" => cur'[u] \in 1 .. last'
  BY <1>1, <1>2, <1>3, <1>5 DEF TypeOK, Goto
<1>. QED
  BY <1>4, <1>6

\* Where an evaluation stands, its message and that message's parent exist.
LEMMA Current ==
  ASSUME ChainInv, NEW t \in Task, pc[t] # "idle"
  PROVE  /\ cur[t] \in 1 .. last /\ cur[t] \in Msg
         /\ last \in 0 .. MaxMsg
         /\ parent[cur[t]] \in 0 .. MaxMsg
         /\ parent[cur[t]] # NoMsg =>
              /\ parent[cur[t]] \in Msg
              /\ hops[cur[t]] = hops[parent[cur[t]]] + 1
              /\ above[parent[cur[t]]] \subseteq above[cur[t]]
              /\ parent[cur[t]] \in above[parent[cur[t]]]
<1>1. /\ cur[t] \in 1 .. last /\ cur[t] \in Msg /\ last \in 0 .. MaxMsg
  BY ChainConstants DEF ChainInv, TypeOK, Msg
<1>2. /\ parent[cur[t]] \in 0 .. cur[t] - 1
      /\ parent[cur[t]] # NoMsg =>
              /\ hops[cur[t]] = hops[parent[cur[t]]] + 1
              /\ above[parent[cur[t]]] \subseteq above[cur[t]]
  BY <1>1 DEF ChainInv, Chains
<1>3. parent[cur[t]] # NoMsg => parent[cur[t]] \in 1 .. last /\ parent[cur[t]] \in Msg
  BY <1>1, <1>2, ChainConstants DEF NoMsg, Msg
<1>4. parent[cur[t]] # NoMsg => parent[cur[t]] \in above[parent[cur[t]]]
  BY <1>3 DEF ChainInv, Chains
<1>. QED
  BY <1>1, <1>2, <1>3, <1>4, ChainConstants

\* A step of t that moves on within the same message keeps the locals' types.
LEMMA MoveType ==
  ASSUME TypeOK, NEW t \in Task, NEW l \in Label, Goto(t, l), pc[t] # "idle",
         UNCHANGED <<cur, last>>
  PROVE  /\ pc' \in [Task -> Label] /\ cur' \in [Task -> 0 .. MaxMsg]
         /\ \A u \in Task : pc'[u] # "idle" => cur'[u] \in 1 .. last'
  BY DEF TypeOK, Goto

LEMMA InfoType ==
  ASSUME TypeOK, NEW t \in Task, NEW d \in Nat \cup {Unseen}, NEW r \in 0 .. MaxMsg, Info(t, d, r)
  PROVE  depth' \in [Task -> Nat \cup {Unseen}] /\ root' \in [Task -> 0 .. MaxMsg]
  BY DEF TypeOK, Info

LEMMA TypeRead ==
  ASSUME ChainInv, NEW t \in Task, HgetD(t) \/ HgetR(t) \/ GateD(t) \/ GateR(t)
  PROVE  TypeOK'
<1>1. pc[t] # "idle"
  BY DEF HgetD, HgetR, GateD, GateR
<1>2. /\ cur[t] \in Msg /\ cur[t] \in 0 .. MaxMsg
      /\ rec[cur[t]].d \in Nat /\ rec[cur[t]].r \in 0 .. MaxMsg
      /\ 0 \in 0 .. MaxMsg
  <2>1. cur[t] \in Msg
    BY <1>1, Current
  <2>2. cur[t] \in 0 .. MaxMsg /\ 0 \in 0 .. MaxMsg
    BY <2>1, ChainConstants DEF Msg
  <2>3. rec[cur[t]] \in [ttl : Int, d : Nat, r : 0 .. MaxMsg]
    BY <2>1 DEF ChainInv, TypeOK
  <2>. QED
    BY <2>1, <2>2, <2>3
<1>3. /\ pc[t] \in {"hget_d", "hget_r"} =>
           /\ parent[cur[t]] \in Msg /\ parent[cur[t]] \in 0 .. MaxMsg
           /\ rec[parent[cur[t]]].d \in Nat /\ rec[parent[cur[t]]].r \in 0 .. MaxMsg
  BY <1>1, Current, ChainConstants DEF ChainInv, TypeOK, Msg, Readings, Reading
<1>4. /\ pc' \in [Task -> Label] /\ cur' \in [Task -> 0 .. MaxMsg]
      /\ \A u \in Task : pc'[u] # "idle" => cur'[u] \in 1 .. last'
  <2>1. \E l \in Label : Goto(t, l)
    BY DEF HgetD, HgetR, GateD, GateR, Label
  <2>. QED
    BY <1>1, <2>1, MoveType DEF HgetD, HgetR, GateD, GateR, chat, ChainInv
<1>5. \E d \in Nat \cup {Unseen}, r \in 0 .. MaxMsg : Info(t, d, r)
  <2>1. CASE HgetD(t)
    BY <1>2, <1>3, <2>1 DEF HgetD, NoMsg
  <2>2. CASE HgetR(t)
    <3>1. depth[t] \in Nat \cup {Unseen}
      BY DEF ChainInv, TypeOK
    <3>2. (IF depth[t] = Unseen THEN 1 ELSE depth[t] + 1) \in Nat
      BY <3>1 DEF Unseen
    <3>. QED
      BY <1>3, <2>2, <3>2 DEF HgetR, ChildDepth
  <2>3. CASE GateD(t)
    BY <1>2, <2>3 DEF GateD, NoMsg
  <2>4. CASE GateR(t)
    BY <1>2, <2>4 DEF GateR, ChainInv, TypeOK
  <2>. QED
    BY <2>1, <2>2, <2>3, <2>4
<1>6. depth' \in [Task -> Nat \cup {Unseen}] /\ root' \in [Task -> 0 .. MaxMsg]
  BY <1>5, InfoType DEF ChainInv
<1>7. UNCHANGED <<chat, pending, edits, faults, keys, ghosts>>
  BY DEF HgetD, HgetR, GateD, GateR
<1>. QED
  BY <1>4, <1>6, <1>7 DEF ChainInv, TypeOK, chat, keys, ghosts

LEMMA TypeWrite ==
  ASSUME ChainInv, NEW t \in Task, Hset(t) \/ Expire(t)
  PROVE  TypeOK'
<1>1. pc[t] # "idle"
  BY DEF Hset, Expire
<1>2. cur[t] \in Msg /\ rec[cur[t]] \in [ttl : Int, d : Nat, r : 0 .. MaxMsg]
  BY <1>1, Current DEF ChainInv, TypeOK
<1>3. /\ pc' \in [Task -> Label] /\ cur' \in [Task -> 0 .. MaxMsg]
      /\ \A u \in Task : pc'[u] # "idle" => cur'[u] \in 1 .. last'
  <2>1. \E l \in Label : Goto(t, l)
    BY DEF Hset, Expire, Label
  <2>. QED
    BY <1>1, <2>1, MoveType DEF Hset, Expire, chat, ChainInv
<1>4. /\ rec' \in [Msg -> [ttl : Int, d : Nat, r : 0 .. MaxMsg]]
      /\ \A m \in Msg : rec'[m].ttl \in Persistent .. DepthTtl
  <2>1. CASE Hset(t)
    <3>1. depth[t] \in Nat /\ root[t] \in 0 .. MaxMsg
      BY <2>1 DEF Hset, ChainInv, Readings, Reading, TypeOK
    <3>2. PICK ttl \in Persistent .. DepthTtl :
            rec' = [rec EXCEPT ![cur[t]] = [ttl |-> ttl, d |-> depth[t], r |-> root[t]]]
      <4>1. /\ rec[cur[t]].ttl \in Persistent .. DepthTtl
            /\ Persistent \in Persistent .. DepthTtl
        BY <1>2, ChainConstants DEF ChainInv, TypeOK, Persistent
      <4>2. CASE Exists(cur[t])
        BY <2>1, <4>1, <4>2 DEF Hset
      <4>3. CASE ~Exists(cur[t])
        BY <2>1, <4>1, <4>3 DEF Hset
      <4>. QED
        BY <4>2, <4>3
    <3>. QED
      BY <1>2, <3>1, <3>2 DEF ChainInv, TypeOK, Persistent
  <2>2. CASE Expire(t)
    BY <1>2, <2>2, ChainConstants DEF Expire, Expiring, ChainInv, TypeOK, Persistent
  <2>. QED
    BY <2>1, <2>2
<1>5. UNCHANGED <<chat, pending, edits, faults, convo, pair, depth, root, ghosts>>
  BY DEF Hset, Expire
<1>. QED
  BY <1>3, <1>4, <1>5 DEF ChainInv, TypeOK, chat, ghosts

LEMMA TypeTouch ==
  ASSUME ChainInv, NEW t \in Task, TouchConversation(t) \/ TouchPair(t)
  PROVE  TypeOK'
<1>1. pc[t] # "idle" /\ UNCHANGED <<chat, pending, edits, faults, rec, ghosts>>
  BY DEF TouchConversation, TouchPair
<1>2. convo' \in [Msg -> 0 .. ConvoTimeout] /\ pair' \in 0 .. PairTimeout
  BY ChainConstants DEF TouchConversation, TouchPair, ChainInv, TypeOK
<1>3. /\ pc' \in [Task -> Label] /\ cur' \in [Task -> 0 .. MaxMsg]
      /\ depth' \in [Task -> Nat \cup {Unseen}] /\ root' \in [Task -> 0 .. MaxMsg]
      /\ \A u \in Task : pc'[u] # "idle" => cur'[u] \in 1 .. last'
  <2>1. CASE Finish(t)
    BY <1>1, <2>1, FinishType DEF ChainInv, chat
  <2>2. CASE \E l \in Label : Goto(t, l) /\ UNCHANGED <<cur, depth, root>>
    BY <1>1, <2>2, MoveType DEF ChainInv, chat, TypeOK
  <2>. QED
    BY <2>1, <2>2 DEF TouchConversation, TouchPair, Label
<1>. QED
  BY <1>1, <1>2, <1>3 DEF ChainInv, TypeOK, chat, ghosts

LEMMA TypeGate ==
  ASSUME ChainInv, NEW t \in Task,
         GateRDrops(t) \/ GateRefuses(t) \/ GateAllows(t) \/ SendRejected(t)
  PROVE  TypeOK'
<1>1. pc[t] # "idle" /\ UNCHANGED <<chat, pending, edits, faults, keys, ghosts>>
  BY DEF GateRDrops, GateRefuses, GateAllows, SendRejected
<1>2. /\ pc' \in [Task -> Label] /\ cur' \in [Task -> 0 .. MaxMsg]
      /\ depth' \in [Task -> Nat \cup {Unseen}] /\ root' \in [Task -> 0 .. MaxMsg]
      /\ \A u \in Task : pc'[u] # "idle" => cur'[u] \in 1 .. last'
  <2>1. CASE Finish(t)
    BY <1>1, <2>1, FinishType DEF ChainInv, chat
  <2>2. CASE Goto(t, "send") /\ UNCHANGED <<cur, depth, root>>
    BY <1>1, <2>2, MoveType DEF ChainInv, chat, TypeOK, Label
  <2>. QED
    BY <2>1, <2>2 DEF GateRDrops, GateRefuses, GateAllows, SendRejected
<1>. QED
  BY <1>1, <1>2 DEF ChainInv, TypeOK, chat, keys, ghosts

LEMMA TypeSend ==
  ASSUME ChainInv, NEW t \in Task, Send(t)
  PROVE  TypeOK'
<1>1. cur[t] \in 0 .. last
  BY Current DEF Send
<1>2. /\ last' \in 0 .. MaxMsg /\ last' = last + 1 /\ last' \in Msg /\ last \in Nat
      /\ parent' \in [Msg -> 0 .. MaxMsg]
      /\ hops' \in [Msg -> Nat]
      /\ above' \in [Msg -> SUBSET Msg]
  BY <1>1, PostType DEF Send, ChainInv, TypeOK
<1>3. last' \in 1 .. last' /\ last' >= last
  BY <1>2
<1>4. /\ pc' \in [Task -> Label] /\ cur' \in [Task -> 0 .. MaxMsg]
      /\ depth' \in [Task -> Nat \cup {Unseen}] /\ root' \in [Task -> 0 .. MaxMsg]
      /\ \A u \in Task : pc'[u] # "idle" => cur'[u] \in 1 .. last'
  BY <1>2, <1>3, StartRecordType DEF Send, ChainInv
<1>5. ours' \subseteq Msg /\ pending' \subseteq 1 .. last'
  BY <1>2 DEF Send, ChainInv, TypeOK
<1>6. engaged' \in -1 .. PairTimeout + 1
  BY ChainConstants DEF Send, ChainInv, TypeOK
<1>. QED
  BY <1>2, <1>4, <1>5, <1>6 DEF Send, ChainInv, TypeOK, keys

LEMMA TypePeer ==
  ASSUME ChainInv,
         (\E p \in {NoMsg} \cup 1 .. last : PeerSends(p))
           \/ \E m \in Msg : PeerEdits(m) \/ Dropped(m)
  PROVE  TypeOK'
<1>1. CASE \E p \in {NoMsg} \cup 1 .. last : PeerSends(p)
  <2>1. PICK p \in {NoMsg} \cup 1 .. last : PeerSends(p)
    BY <1>1
  <2>2. p \in 0 .. last /\ Post(p) /\ last \in Nat
    BY <2>1 DEF PeerSends, NoMsg, ChainInv, TypeOK
  <2>3. /\ last' \in 0 .. MaxMsg /\ last' = last + 1 /\ last' \in Msg
        /\ parent' \in [Msg -> 0 .. MaxMsg]
        /\ hops' \in [Msg -> Nat]
        /\ above' \in [Msg -> SUBSET Msg]
    BY <2>2, PostType DEF ChainInv
  <2>4. pending' \subseteq 1 .. last'
    BY <2>1, <2>2, <2>3 DEF PeerSends, ChainInv, TypeOK
  <2>5. \A u \in Task : pc[u] # "idle" => cur[u] \in 1 .. last'
    BY <2>2, <2>3 DEF ChainInv, TypeOK
  <2>6. UNCHANGED <<ours, edits, faults, keys, task, engaged>> /\ prompt' \in BOOLEAN
    BY <2>1 DEF PeerSends, ChainInv, TypeOK
  <2>. QED
    BY <2>3, <2>4, <2>5, <2>6 DEF ChainInv, TypeOK, keys, task
<1>2. CASE \E m \in Msg : PeerEdits(m)
  <2>1. PICK m \in Msg : PeerEdits(m)
    BY <1>2
  <2>2. pending' \subseteq 1 .. last /\ edits' \in 0 .. MaxEdits
    <3>1. edits \in 0 .. MaxEdits /\ edits < MaxEdits /\ edits' = edits + 1
      BY <2>1 DEF PeerEdits, ChainInv, TypeOK
    <3>2. m \in 1 .. last /\ pending \subseteq 1 .. last
      BY <2>1 DEF PeerEdits, ChainInv, TypeOK, Msg
    <3>3. pending' = pending \cup {m}
      BY <2>1 DEF PeerEdits
    <3>. QED
      BY <3>1, <3>2, <3>3, ChainConstants
  <2>3. UNCHANGED <<chat, faults, keys, task, engaged>> /\ prompt' \in BOOLEAN
    BY <2>1 DEF PeerEdits, ChainInv, TypeOK
  <2>. QED
    BY <2>2, <2>3 DEF ChainInv, TypeOK, chat, keys, task
<1>3. CASE \E m \in Msg : Dropped(m)
  <2>1. /\ pending' \subseteq 1 .. last
        /\ UNCHANGED <<chat, edits, faults, keys, task, ghosts>>
    BY <1>3 DEF Dropped, ChainInv, TypeOK
  <2>. QED
    BY <2>1 DEF ChainInv, TypeOK, chat, keys, task, ghosts
<1>. QED
  BY <1>1, <1>2, <1>3

LEMMA TypeEvaluate ==
  ASSUME ChainInv, NEW t \in Task, NEW m \in Msg, Evaluate(t, m)
  PROVE  TypeOK'
<1>1. /\ UNCHANGED <<chat, edits, faults, keys, ghosts>>
      /\ pending' \subseteq 1 .. last /\ m \in 1 .. last'
      /\ last' \in 0 .. MaxMsg /\ last' >= last
  BY DEF Evaluate, ChainInv, TypeOK, chat
<1>2. /\ pc' \in [Task -> Label] /\ cur' \in [Task -> 0 .. MaxMsg]
      /\ depth' \in [Task -> Nat \cup {Unseen}] /\ root' \in [Task -> 0 .. MaxMsg]
      /\ \A u \in Task : pc'[u] # "idle" => cur'[u] \in 1 .. last'
  BY <1>1, StartRecordType DEF Evaluate, ChainInv
<1>. QED
  BY <1>1, <1>2 DEF ChainInv, TypeOK, chat, keys, ghosts

LEMMA TypeFault ==
  ASSUME ChainInv,
         Crash \/ \E t \in Task : Fail(t) \/ FailsOpen(t) \/ \E m \in Msg : FailsEarly(t, m)
  PROVE  TypeOK'
<1>1. UNCHANGED <<chat, edits, keys, ghosts>> /\ faults' \in 0 .. MaxFaults
  BY ChainConstants DEF Crash, Fail, FailsOpen, FailsEarly, ChainInv, TypeOK
<1>2. pending' \subseteq 1 .. last
  BY DEF Crash, Fail, FailsOpen, FailsEarly, ChainInv, TypeOK
<1>3. /\ pc' \in [Task -> Label] /\ cur' \in [Task -> 0 .. MaxMsg]
      /\ depth' \in [Task -> Nat \cup {Unseen}] /\ root' \in [Task -> 0 .. MaxMsg]
      /\ \A u \in Task : pc'[u] # "idle" => cur'[u] \in 1 .. last'
  <2>1. CASE Crash
    BY <2>1, ChainConstants DEF Crash, Label, NoMsg
  <2>2. CASE \E t \in Task : Fail(t)
    BY <1>1, <2>2, FinishType DEF Fail, ChainInv, chat
  <2>3. CASE \E t \in Task : FailsOpen(t)
    <3>1. PICK t \in Task : FailsOpen(t)
      BY <2>3
    <3>2. /\ Goto(t, "gate_d") /\ "gate_d" \in Label /\ pc[t] # "idle"
          /\ UNCHANGED <<cur, depth, root, last>>
      BY <3>1 DEF FailsOpen, Label, chat
    <3>. QED
      BY <3>2, MoveType DEF ChainInv, TypeOK
  <2>4. CASE \E t \in Task, m \in Msg : FailsEarly(t, m)
    <3>1. PICK t \in Task, m \in Msg : FailsEarly(t, m)
      BY <2>4
    <3>2. /\ pc' = [pc EXCEPT ![t] = "gate_d"] /\ cur' = [cur EXCEPT ![t] = m]
          /\ UNCHANGED <<depth, root, last>> /\ m \in 1 .. last
      BY <3>1 DEF FailsEarly, Goto, chat, ChainInv, TypeOK
    <3>3. m \in 0 .. MaxMsg /\ "gate_d" \in Label
      BY <3>2, ChainConstants DEF ChainInv, TypeOK, Label
    <3>. QED
      BY <3>2, <3>3 DEF ChainInv, TypeOK
  <2>. QED
    BY <2>1, <2>2, <2>3, <2>4
<1>. QED
  BY <1>1, <1>2, <1>3 DEF ChainInv, TypeOK, chat, keys, ghosts

LEMMA TypeTick ==
  ASSUME ChainInv, Tick
  PROVE  TypeOK'
<1>1. UNCHANGED <<chat, pending, edits, faults, task>>
  BY DEF Tick
<1>2. /\ rec' \in [Msg -> [ttl : Int, d : Nat, r : 0 .. MaxMsg]]
      /\ \A m \in Msg : rec'[m].ttl \in Persistent .. DepthTtl
  <2>1. Missing \in [ttl : Int, d : Nat, r : 0 .. MaxMsg]
        /\ Missing.ttl \in Persistent .. DepthTtl
    BY ChainConstants DEF Missing, NoMsg, Persistent
  <2>2. ASSUME NEW m \in Msg
        PROVE  /\ [rec[m] EXCEPT !.ttl = Aged(@)] \in [ttl : Int, d : Nat, r : 0 .. MaxMsg]
               /\ [rec[m] EXCEPT !.ttl = Aged(@)].ttl \in Persistent .. DepthTtl
    <3>1. rec[m] \in [ttl : Int, d : Nat, r : 0 .. MaxMsg]
          /\ rec[m].ttl \in Persistent .. DepthTtl
      BY DEF ChainInv, TypeOK
    <3>2. Aged(rec[m].ttl) \in Persistent .. DepthTtl /\ Aged(rec[m].ttl) \in Int
      BY <3>1, ChainConstants DEF Aged, Persistent
    <3>. QED
      BY <3>1, <3>2
  <2>. QED
    BY <2>1, <2>2 DEF Tick
<1>3. convo' \in [Msg -> 0 .. ConvoTimeout] /\ pair' \in 0 .. PairTimeout
  BY ChainConstants DEF Tick, Aged, ChainInv, TypeOK
<1>4. prompt' \in BOOLEAN /\ engaged' \in -1 .. PairTimeout + 1
  BY ChainConstants DEF Tick, ChainInv, TypeOK
<1>. QED
  BY <1>1, <1>2, <1>3, <1>4 DEF ChainInv, TypeOK, chat, task

LEMMA TypeNext == ChainInv /\ [Next]_vars => TypeOK'
<1>. SUFFICES ASSUME ChainInv, [Next]_vars PROVE TypeOK'
  OBVIOUS
<1>1. CASE UNCHANGED vars
  BY <1>1 DEF ChainInv, TypeOK, vars, chat, keys, task, ghosts
<1>2. ASSUME NEW t \in Task, Step(t) PROVE TypeOK'
  BY <1>2, TypeRead, TypeWrite, TypeTouch, TypeGate, TypeSend DEF Step
<1>. QED
  BY <1>1, <1>2, TypePeer, TypeEvaluate, TypeFault, TypeTick DEF Next

-----------------------------------------------------------------------------
(* Soundness *)

\* What was sent stays as it is.
Kept == \A m \in 1 .. last : /\ parent'[m] = parent[m]
                             /\ hops'[m] = hops[m]
                             /\ above'[m] = above[m]

LEMMA ChatKept == TypeOK /\ UNCHANGED chat => Kept
  BY DEF chat, Kept

\* A new message extends the chain of the message it replies to.
LEMMA PostChains ==
  ASSUME ChainInv, NEW p \in 0 .. last, Post(p)
  PROVE  /\ Kept /\ Chains'
         /\ last' \in Msg /\ last' = last + 1 /\ last \in Nat
         /\ parent'[last'] = p
         /\ last' \in above'[last'] /\ hops'[last'] \in Nat
<1>1. /\ last' \in 0 .. MaxMsg /\ last' = last + 1 /\ last' \in Msg /\ last \in Nat
      /\ hops' \in [Msg -> Nat]
  BY PostType DEF ChainInv, TypeOK
<1>2. /\ parent'[last'] = p
      /\ hops'[last'] = IF p = NoMsg THEN 0 ELSE hops[p] + 1
      /\ above'[last'] = {last'} \cup (IF p = NoMsg THEN {} ELSE above[p])
  BY <1>1 DEF ChainInv, TypeOK, Post
<1>3. Kept
  <2>1. \A m \in 1 .. last : m \in Msg /\ m # last'
    BY <1>1, ChainConstants DEF Msg
  <2>. QED
    BY <2>1 DEF Kept, Post, ChainInv, TypeOK
<1>4. Chains'
  <2>. SUFFICES ASSUME NEW m \in 1 .. last'
                PROVE  /\ m \in above'[m]
                       /\ parent'[m] \in 0 .. m - 1
                       /\ parent'[m] # NoMsg => /\ hops'[m] = hops'[parent'[m]] + 1
                                                /\ above'[parent'[m]] \subseteq above'[m]
    BY DEF Chains
  <2>1. CASE m = last'
    <3>1. p # NoMsg => hops'[p] = hops[p] /\ above'[p] = above[p]
      BY <1>3 DEF Kept, NoMsg
    <3>2. p \in 0 .. m - 1
      BY <1>1, <2>1
    <3>. QED
      BY <1>2, <2>1, <3>1, <3>2
  <2>2. CASE m # last'
    <3>1. m \in 1 .. last
      BY <1>1, <2>2
    <3>2. parent[m] # NoMsg => parent[m] \in 1 .. last
      BY <1>1, <3>1 DEF ChainInv, Chains, NoMsg
    <3>. QED
      BY <1>3, <3>1, <3>2 DEF ChainInv, Chains, Kept
  <2>. QED
    BY <2>1, <2>2
<1>. QED
  BY <1>1, <1>2, <1>3, <1>4

\* The chains of an unchanged chat stay, and its messages are kept.
LEMMA SameChains ==
  ASSUME ChainInv, UNCHANGED chat
  PROVE  Chains' /\ Kept /\ last' = last /\ UNCHANGED <<parent, hops, above>>
  BY ChatKept DEF ChainInv, Chains, chat

\* Records that are not written stay sound while the chat grows.
LEMMA SameRecords ==
  ASSUME ChainInv, UNCHANGED rec, Kept, last' \in Nat, last' >= last
  PROVE  Records'
<1>. SUFFICES ASSUME NEW m \in Msg, Exists(m)'
              PROVE  m <= last' /\ rec'[m].d <= hops'[m] /\ rec'[m].r \in above'[m]
  BY DEF Records
<1>1. /\ rec'[m] = rec[m] /\ m <= last
      /\ rec[m].d <= hops[m] /\ rec[m].r \in above[m]
  BY DEF Exists, ChainInv, Records
<1>2. m \in 1 .. last /\ m <= last'
  BY <1>1 DEF ChainInv, TypeOK, Msg
<1>. QED
  BY <1>1, <1>2 DEF Kept

\* What an evaluation holds stays sound while it does not move.
LEMMA SameReading ==
  ASSUME ChainInv, NEW u \in Task, Kept,
         pc'[u] = pc[u], cur'[u] = cur[u], depth'[u] = depth[u], root'[u] = root[u]
  PROVE  Reading(u)'
<1>1. CASE pc[u] = "idle"
  BY <1>1 DEF Reading
<1>2. CASE pc[u] # "idle"
  <2>1. cur[u] \in 1 .. last
    BY <1>2, Current
  <2>2. parent[cur[u]] # NoMsg => parent[cur[u]] \in 1 .. last
    BY <2>1 DEF ChainInv, TypeOK, Chains, NoMsg
  <2>3. Reading(u)
    BY DEF ChainInv, Readings
  <2>. QED
    BY <2>1, <2>2, <2>3 DEF Reading, Kept
<1>. QED
  BY <1>1, <1>2

\* When one evaluation moves, the others' readings stay.
LEMMA OneMoves ==
  ASSUME ChainInv, NEW t \in Task, Kept, Reading(t)',
         \A u \in Task \ {t} : /\ pc'[u] = pc[u] /\ cur'[u] = cur[u]
                               /\ depth'[u] = depth[u] /\ root'[u] = root[u]
  PROVE  Readings'
<1>. SUFFICES ASSUME NEW u \in Task PROVE Reading(u)'
  BY DEF Readings
<1>1. CASE u = t
  BY <1>1
<1>2. CASE u # t
  BY <1>2, SameReading
<1>. QED
  BY <1>1, <1>2

\* One step of an evaluation touches no other evaluation.
LEMMA OthersWait ==
  ASSUME TypeOK, NEW t \in Task,
         Step(t) \/ FailsOpen(t) \/ Fail(t) \/ \E m \in Msg : Evaluate(t, m) \/ FailsEarly(t, m)
  PROVE  \A u \in Task \ {t} : /\ pc'[u] = pc[u] /\ cur'[u] = cur[u]
                               /\ depth'[u] = depth[u] /\ root'[u] = root[u]
<1>1. ASSUME Finish(t) PROVE \A u \in Task \ {t} :
        pc'[u] = pc[u] /\ cur'[u] = cur[u] /\ depth'[u] = depth[u] /\ root'[u] = root[u]
  BY <1>1 DEF Finish, Goto, TypeOK
<1>2. ASSUME NEW l, Goto(t, l), UNCHANGED <<cur, depth, root>>
      PROVE  \A u \in Task \ {t} :
        pc'[u] = pc[u] /\ cur'[u] = cur[u] /\ depth'[u] = depth[u] /\ root'[u] = root[u]
  BY <1>2 DEF Goto, TypeOK
<1>3. ASSUME NEW l, Goto(t, l), NEW d, NEW r, Info(t, d, r), UNCHANGED cur
      PROVE  \A u \in Task \ {t} :
        pc'[u] = pc[u] /\ cur'[u] = cur[u] /\ depth'[u] = depth[u] /\ root'[u] = root[u]
  BY <1>3 DEF Goto, Info, TypeOK
<1>4. ASSUME NEW m, StartRecord(t, m)
      PROVE  \A u \in Task \ {t} :
        pc'[u] = pc[u] /\ cur'[u] = cur[u] /\ depth'[u] = depth[u] /\ root'[u] = root[u]
  BY <1>4 DEF StartRecord, Goto, Info, TypeOK
<1>5. CASE HgetD(t) \/ HgetR(t) \/ GateD(t) \/ GateR(t)
  BY <1>3, <1>5 DEF HgetD, HgetR, GateD, GateR
<1>6. CASE Hset(t) \/ Expire(t) \/ TouchConversation(t) \/ TouchPair(t)
  BY <1>1, <1>2, <1>6 DEF Hset, Expire, TouchConversation, TouchPair
<1>7. CASE \/ GateRDrops(t) \/ GateRefuses(t) \/ GateAllows(t) \/ SendRejected(t)
           \/ FailsOpen(t) \/ Fail(t)
  BY <1>1, <1>2, <1>7 DEF GateRDrops, GateRefuses, GateAllows, SendRejected, FailsOpen, Fail
<1>8. CASE Send(t)
  <2>1. StartRecord(t, last')
    BY <1>8 DEF Send
  <2>. QED
    BY <2>1 DEF StartRecord, Goto, Info, TypeOK
<1>9. CASE \E m \in Msg : Evaluate(t, m)
  BY <1>4, <1>9 DEF Evaluate
<1>10. CASE \E m \in Msg : FailsEarly(t, m)
  BY <1>10 DEF FailsEarly, Goto, TypeOK
<1>. QED
  BY <1>5, <1>6, <1>7, <1>8, <1>9, <1>10 DEF Step

\* What the commands of record and get return is sound.
LEMMA ReadSound ==
  ASSUME ChainInv, NEW t \in Task, HgetD(t) \/ HgetR(t) \/ GateD(t) \/ GateR(t)
  PROVE  Records' /\ Readings'
<1>1. pc[t] # "idle" /\ UNCHANGED <<chat, rec, cur>>
  BY DEF HgetD, HgetR, GateD, GateR, keys
<1>2. Kept /\ last' = last /\ last \in Nat /\ UNCHANGED <<parent, hops, above>>
  BY <1>1, SameChains DEF ChainInv, TypeOK
<1>3. cur[t] \in Msg /\ cur[t] \in above[cur[t]] /\ hops[cur[t]] \in Nat
  BY <1>1, Current DEF ChainInv, Chains, TypeOK
<1>5. Reading(t)'
  <2>1. CASE HgetD(t)
    <3>1. /\ pc[t] = "hget_d" /\ pc'[t] = "hget_r"
          /\ depth'[t] = IF Exists(parent[cur[t]]) THEN rec[parent[cur[t]]].d ELSE Unseen
      BY <2>1 DEF HgetD, Goto, Info, ChainInv, TypeOK
    <3>2. parent[cur[t]] # NoMsg /\ parent[cur[t]] \in Msg
      BY <1>1, <3>1, Current DEF ChainInv, Readings, Reading
    <3>. QED
      BY <1>1, <1>2, <3>1, <3>2 DEF ChainInv, Records, Reading
  <2>2. CASE HgetR(t)
    <3>1. /\ pc[t] = "hget_r" /\ pc'[t] = "hset"
          /\ depth'[t] = IF depth[t] = Unseen THEN 1 ELSE depth[t] + 1
          /\ root'[t] = IF depth[t] = Unseen \/ ~Exists(parent[cur[t]])
                        THEN parent[cur[t]] ELSE rec[parent[cur[t]]].r
      BY <2>2 DEF HgetR, ChildDepth, Goto, Info, ChainInv, TypeOK
    <3>2. /\ parent[cur[t]] \in Msg
          /\ hops[cur[t]] = hops[parent[cur[t]]] + 1 /\ hops[parent[cur[t]]] \in Nat
          /\ above[parent[cur[t]]] \subseteq above[cur[t]]
          /\ parent[cur[t]] \in above[parent[cur[t]]]
          /\ depth[t] # Unseen => depth[t] <= hops[parent[cur[t]]]
          /\ depth[t] \in Nat \cup {Unseen}
      BY <1>1, <3>1, Current DEF ChainInv, Readings, Reading, TypeOK
    <3>3. root'[t] \in above[cur[t]]
      BY <3>1, <3>2 DEF ChainInv, Records
    <3>4. depth'[t] \in Nat /\ depth'[t] <= hops[cur[t]]
      BY <3>1, <3>2
    <3>. QED
      BY <1>1, <1>2, <3>1, <3>3, <3>4 DEF Reading
  <2>3. CASE GateD(t)
    <3>1. \/ /\ Exists(cur[t]) /\ pc'[t] = "gate_r" /\ depth'[t] = rec[cur[t]].d
          \/ /\ pc'[t] = "active" /\ root'[t] = cur[t]
      BY <2>3 DEF GateD, Goto, Info, ChainInv, TypeOK
    <3>2. rec[cur[t]].d \in Nat
      BY <1>3 DEF ChainInv, TypeOK
    <3>. QED
      BY <1>1, <1>2, <1>3, <3>1, <3>2 DEF ChainInv, Records, Reading
  <2>4. CASE GateR(t)
    <3>1. /\ pc'[t] = "active"
          /\ root'[t] = IF Exists(cur[t]) THEN rec[cur[t]].r ELSE cur[t]
      BY <2>4 DEF GateR, Goto, Info, ChainInv, TypeOK
    <3>. QED
      BY <1>1, <1>2, <1>3, <3>1 DEF ChainInv, Records, Reading
  <2>. QED
    BY <2>1, <2>2, <2>3, <2>4
<1>6. Readings'
  BY <1>2, <1>5, OneMoves, OthersWait DEF ChainInv, Step
<1>. QED
  BY <1>1, <1>2, <1>6, SameRecords

\* What HSET writes is what the evaluation computed; EXPIRE revives nothing.
LEMMA WriteSound ==
  ASSUME ChainInv, NEW t \in Task, Hset(t) \/ Expire(t)
  PROVE  Records' /\ Readings'
<1>1. /\ pc[t] \in {"hset", "expire"} /\ UNCHANGED <<chat, cur, depth, root>>
      /\ pc'[t] \in {"expire", "touch"}
  BY DEF Hset, Expire, Goto, ChainInv, TypeOK
<1>2. Kept /\ last' = last /\ last \in Nat /\ UNCHANGED <<parent, hops, above>>
  BY <1>1, SameChains DEF ChainInv, TypeOK
<1>3. cur[t] \in Msg /\ cur[t] <= last
  BY <1>1, Current DEF ChainInv, TypeOK
<1>4. depth[t] \in Nat /\ depth[t] <= hops[cur[t]] /\ root[t] \in above[cur[t]]
  BY <1>1 DEF ChainInv, Readings, Reading
<1>5. Reading(t)'
  BY <1>1, <1>2, <1>4 DEF Reading
<1>6. Readings'
  BY <1>2, <1>5, OneMoves, OthersWait DEF ChainInv, Step
<1>7. Records'
  <2>. SUFFICES ASSUME NEW m \in Msg, Exists(m)'
                PROVE  m <= last /\ rec'[m].d <= hops[m] /\ rec'[m].r \in above[m]
    BY <1>2 DEF Records
  <2>1. CASE m # cur[t]
    <3>1. rec'[m] = rec[m]
      BY <2>1 DEF Hset, Expire, Expiring, ChainInv, TypeOK
    <3>. QED
      BY <3>1 DEF Exists, ChainInv, Records
  <2>2. CASE m = cur[t] /\ Hset(t)
    <3>1. rec'[m].d = depth[t] /\ rec'[m].r = root[t]
      BY <2>2 DEF Hset, ChainInv, TypeOK
    <3>. QED
      BY <1>3, <1>4, <2>2, <3>1
  <2>3. CASE m = cur[t] /\ Expire(t)
    <3>1. rec[m] \in [ttl : Int, d : Nat, r : 0 .. MaxMsg]
      BY DEF ChainInv, TypeOK
    <3>2. /\ rec'[m].d = rec[m].d /\ rec'[m].r = rec[m].r
          /\ rec[m].ttl = 0 => rec'[m].ttl = 0
      BY <2>3, <3>1 DEF Expire, Expiring, ChainInv, TypeOK
    <3>. QED
      BY <3>2 DEF Exists, ChainInv, Records
  <2>. QED
    BY <2>1, <2>2, <2>3
<1>. QED
  BY <1>6, <1>7

\* The remaining steps of an evaluation that post nothing keep what it holds.
LEMMA WaySound ==
  ASSUME ChainInv, NEW t \in Task,
         \/ TouchConversation(t) \/ TouchPair(t)
         \/ GateRDrops(t) \/ GateRefuses(t) \/ GateAllows(t) \/ SendRejected(t)
         \/ FailsOpen(t) \/ Fail(t)
  PROVE  Records' /\ Readings'
<1>1. UNCHANGED <<chat, rec>>
  BY DEF TouchConversation, TouchPair, GateRDrops, GateRefuses, GateAllows,
         SendRejected, FailsOpen, Fail, keys
<1>2. Kept /\ last' = last /\ last \in Nat /\ UNCHANGED <<parent, hops, above>>
  BY <1>1, SameChains DEF ChainInv, TypeOK
<1>3. Reading(t)'
  <2>1. CASE Finish(t)
    <3>1. pc'[t] = "idle"
      BY <2>1 DEF Finish, Goto, ChainInv, TypeOK
    <3>. QED
      BY <3>1 DEF Reading
  <2>2. CASE /\ UNCHANGED <<cur, depth, root>>
             /\ \/ pc[t] = "touch" /\ Goto(t, "pair")
                \/ Goto(t, "gate_d") \/ Goto(t, "send")
    <3>1. pc'[t] \in {"gate_d", "send"} \/ (pc[t] = "touch" /\ pc'[t] = "pair")
      BY <2>2 DEF Goto, ChainInv, TypeOK
    <3>. QED
      BY <1>2, <2>2, <3>1 DEF Reading, ChainInv, Readings
  <2>. QED
    BY <2>1, <2>2 DEF TouchConversation, TouchPair, GateRDrops, GateRefuses, GateAllows,
         SendRejected, FailsOpen, Fail
<1>4. Readings'
  BY <1>2, <1>3, OneMoves, OthersWait DEF ChainInv, Step
<1>. QED
  BY <1>1, <1>2, <1>4, SameRecords

\* A record starts from nothing, or from the message replied to.
LEMMA EvaluateSound ==
  ASSUME ChainInv, NEW t \in Task, NEW m \in Msg, Evaluate(t, m)
  PROVE  Records' /\ Readings'
<1>1. UNCHANGED <<chat, rec>> /\ m \in 1 .. last
  BY DEF Evaluate, keys, ChainInv, TypeOK
<1>2. Kept /\ last' = last /\ last \in Nat /\ UNCHANGED <<parent, hops, above>>
  BY <1>1, SameChains DEF ChainInv, TypeOK
<1>3. m \in above[m] /\ hops[m] \in Nat
  BY <1>1 DEF ChainInv, Chains, TypeOK
<1>4. /\ cur'[t] = m
      /\ \/ pc'[t] = "hset" /\ depth'[t] = 0 /\ root'[t] = m
         \/ pc'[t] = "hget_d" /\ parent[m] # NoMsg
  BY <1>2 DEF Evaluate, StartRecord, Info, Goto, ChainInv, TypeOK
<1>5. Reading(t)'
  BY <1>2, <1>3, <1>4 DEF Reading
<1>6. Readings'
  BY <1>2, <1>5, OneMoves, OthersWait DEF ChainInv
<1>. QED
  BY <1>1, <1>2, <1>6, SameRecords

\* A message whose evaluation failed early is looked up by safe_reply first.
LEMMA EarlySound ==
  ASSUME ChainInv, NEW t \in Task, NEW m \in Msg, FailsEarly(t, m)
  PROVE  Records' /\ Readings'
<1>1. UNCHANGED <<chat, rec>>
  BY DEF FailsEarly, keys
<1>2. Kept /\ last' = last /\ last \in Nat
  BY <1>1, SameChains DEF ChainInv, TypeOK
<1>3. pc'[t] = "gate_d"
  BY DEF FailsEarly, Goto, ChainInv, TypeOK
<1>4. Reading(t)'
  BY <1>3 DEF Reading
<1>5. Readings'
  BY <1>2, <1>4, OneMoves, OthersWait DEF ChainInv
<1>. QED
  BY <1>1, <1>2, <1>5, SameRecords

LEMMA SendSound ==
  ASSUME ChainInv, NEW t \in Task, Send(t)
  PROVE  Chains' /\ Records' /\ Readings'
<1>1. cur[t] \in 0 .. last /\ cur[t] # NoMsg /\ Post(cur[t]) /\ UNCHANGED rec
  BY Current DEF Send, keys, NoMsg
<1>2. /\ Kept /\ Chains' /\ last' \in Msg /\ last' = last + 1 /\ last \in Nat
      /\ parent'[last'] = cur[t]
  BY <1>1, PostChains
<1>3. pc'[t] = "hget_d" /\ cur'[t] = last'
  BY <1>1, <1>2 DEF Send, StartRecord, Info, Goto, ChainInv, TypeOK
<1>4. Reading(t)'
  BY <1>1, <1>2, <1>3 DEF Reading
<1>5. Readings'
  BY <1>2, <1>4, OneMoves, OthersWait DEF ChainInv, Step
<1>6. last' \in Nat /\ last' >= last
  BY <1>2
<1>. QED
  BY <1>1, <1>2, <1>5, <1>6, SameRecords

LEMMA PeerSound ==
  ASSUME ChainInv,
         (\E p \in {NoMsg} \cup 1 .. last : PeerSends(p))
           \/ \E m \in Msg : PeerEdits(m) \/ Dropped(m)
  PROVE  Chains' /\ Records' /\ Readings'
<1>1. UNCHANGED <<rec, task>>
  BY DEF PeerSends, PeerEdits, Dropped, keys
<1>2. Kept /\ Chains' /\ last' \in Nat /\ last' >= last
  <2>1. CASE \E p \in {NoMsg} \cup 1 .. last : PeerSends(p)
    <3>1. PICK p \in {NoMsg} \cup 1 .. last : PeerSends(p)
      BY <2>1
    <3>2. p \in 0 .. last /\ Post(p)
      BY <3>1 DEF PeerSends, NoMsg, ChainInv, TypeOK
    <3>. QED
      BY <3>2, PostChains
  <2>2. CASE \E m \in Msg : PeerEdits(m) \/ Dropped(m)
    <3>1. UNCHANGED chat
      BY <2>2 DEF PeerEdits, Dropped
    <3>. QED
      BY <3>1, SameChains DEF ChainInv, TypeOK
  <2>. QED
    BY <2>1, <2>2
<1>3. Records'
  BY <1>1, <1>2, SameRecords
<1>4. Readings'
  BY <1>1, <1>2, SameReading DEF task, Readings
<1>. QED
  BY <1>2, <1>3, <1>4

LEMMA CrashSound ==
  ASSUME ChainInv, Crash
  PROVE  Records' /\ Readings'
<1>1. UNCHANGED <<chat, rec>> /\ pc' = [t \in Task |-> "idle"]
  BY DEF Crash, keys
<1>2. Records'
  BY <1>1, SameChains, SameRecords DEF ChainInv, TypeOK
<1>3. Readings'
  BY <1>1 DEF Readings, Reading
<1>. QED
  BY <1>2, <1>3

\* A record that is still there after time passed was there before.
LEMMA TickSound ==
  ASSUME ChainInv, Tick
  PROVE  Records' /\ Readings'
<1>1. UNCHANGED <<chat, task>>
  BY DEF Tick
<1>2. Kept /\ last' = last /\ UNCHANGED <<parent, hops, above>>
  BY <1>1, SameChains
<1>3. Records'
  <2>. SUFFICES ASSUME NEW m \in Msg, Exists(m)'
                PROVE  m <= last /\ rec'[m].d <= hops[m] /\ rec'[m].r \in above[m]
    BY <1>2 DEF Records
  <2>1. rec[m] \in [ttl : Int, d : Nat, r : 0 .. MaxMsg]
    BY DEF ChainInv, TypeOK
  <2>2. rec'[m] = IF rec[m].ttl = 1 THEN Missing ELSE [rec[m] EXCEPT !.ttl = Aged(@)]
    BY DEF Tick
  <2>3. rec'[m] # Missing
    BY DEF Exists, Missing
  <2>4. rec'[m].d = rec[m].d /\ rec'[m].r = rec[m].r
    BY <2>1, <2>2, <2>3
  <2>5. rec[m].ttl # 0
    BY <2>1, <2>2, <2>3 DEF Exists, Aged
  <2>. QED
    BY <2>4, <2>5 DEF Exists, ChainInv, Records
<1>4. Readings'
  BY <1>1, <1>2, SameReading DEF task, Readings
<1>. QED
  BY <1>3, <1>4

-----------------------------------------------------------------------------
(* The theorems *)

LEMMA InvInit == Init => ChainInv
<1>. SUFFICES ASSUME Init PROVE ChainInv
  OBVIOUS
<1>1. Chains
  BY DEF Init, Chains
<1>2. Records
  BY DEF Init, Records, Exists, Missing
<1>3. Readings
  BY DEF Init, Readings, Reading
<1>. QED
  BY <1>1, <1>2, <1>3, TypeInit DEF ChainInv

LEMMA InvNext == ChainInv /\ [Next]_vars => ChainInv'
<1>. SUFFICES ASSUME ChainInv, [Next]_vars PROVE Chains' /\ Records' /\ Readings'
  BY TypeNext DEF ChainInv
<1>1. CASE UNCHANGED vars
  <2>1. UNCHANGED <<chat, rec, task>>
    BY <1>1 DEF vars, keys
  <2>2. Chains' /\ Kept /\ Records'
    BY <2>1, SameChains, SameRecords DEF ChainInv, TypeOK
  <2>. QED
    BY <2>1, <2>2, SameReading DEF task, Readings
<1>2. ASSUME NEW t \in Task, Step(t) PROVE Chains' /\ Records' /\ Readings'
  <2>1. CASE Send(t)
    BY <2>1, SendSound
  <2>2. CASE ~Send(t)
    <3>1. UNCHANGED chat
      BY <1>2, <2>2 DEF Step, HgetD, HgetR, Hset, Expire, TouchConversation, TouchPair,
         GateD, GateRDrops, GateR, GateRefuses, GateAllows, SendRejected
    <3>. QED
      BY <1>2, <2>2, <3>1, SameChains, ReadSound, WriteSound, WaySound DEF Step
  <2>. QED
    BY <2>1, <2>2
<1>3. ASSUME NEW t \in Task, FailsOpen(t) \/ Fail(t) PROVE Chains' /\ Records' /\ Readings'
  BY <1>3, WaySound, SameChains DEF FailsOpen, Fail
<1>4. ASSUME NEW t \in Task, NEW m \in Msg, Evaluate(t, m) \/ FailsEarly(t, m)
      PROVE  Chains' /\ Records' /\ Readings'
  BY <1>4, EvaluateSound, EarlySound, SameChains DEF Evaluate, FailsEarly
<1>5. CASE Crash
  BY <1>5, CrashSound, SameChains DEF Crash
<1>6. CASE Tick
  BY <1>6, TickSound, SameChains DEF Tick
<1>. QED
  BY <1>1, <1>2, <1>3, <1>4, <1>5, <1>6, PeerSound DEF Next

LEMMA InvHolds == Spec => []ChainInv
  BY InvInit, InvNext, PTL DEF Spec

\* Every key, record and local stays in its range: no record outlives twice
\* the conversation timeout once it has a TTL, and no evaluation stands at a
\* message that was not sent (depth_tracker.py:34-67, timeout.py:35-50).
THEOREM TypeCorrect == Spec => []TypeOK
<1>1. ChainInv => TypeOK
  BY DEF ChainInv
<1>. QED
  BY <1>1, InvHolds, PTL

\* No record overstates its chain, though its two fields are read by two
\* commands, other evaluations write between them, and records expire
\* (depth_tracker.py:45-65).
THEOREM RecordsSound == Spec => []DepthSound
<1>1. ChainInv => DepthSound
  BY DEF ChainInv, Records, DepthSound
<1>. QED
  BY <1>1, InvHolds, PTL

\* No answer is refused as too deep in a chain shorter than max_reply_depth
\* (middleware.py:187-196).
THEOREM DropsJustified == Spec => DropJustified
<1>1. ChainInv /\ [Next]_vars =>
        [\A t \in Task : pc[t] = "gate_r" /\ pc'[t] = "idle" /\ faults' = faults
           => hops[cur[t]] >= MaxReplyDepth]_vars
  <2>. SUFFICES ASSUME ChainInv, Next, NEW t \in Task,
                       pc[t] = "gate_r", pc'[t] = "idle", faults' = faults
                PROVE  hops[cur[t]] >= MaxReplyDepth
    OBVIOUS
  <2>1. GateRDrops(t)
    <3>1. \E u \in Task : \/ Step(u) \/ FailsOpen(u) \/ Fail(u)
                          \/ \E m \in Msg : Evaluate(u, m) \/ FailsEarly(u, m)
      <4>1. ~Crash
        BY DEF Crash, ChainInv, TypeOK
      <4>2. pc' # pc
        BY DEF ChainInv, TypeOK
      <4>. QED
        BY <4>1, <4>2 DEF Next, PeerSends, PeerEdits, Dropped, Tick, task
    <3>2. PICK u \in Task : \/ Step(u) \/ FailsOpen(u) \/ Fail(u)
                            \/ \E m \in Msg : Evaluate(u, m) \/ FailsEarly(u, m)
      BY <3>1
    <3>3. u = t
      BY <3>2, OthersWait DEF ChainInv
    <3>4. ~FailsOpen(t) /\ ~Fail(t) /\ ~\E m \in Msg : Evaluate(t, m) \/ FailsEarly(t, m)
      BY DEF FailsOpen, Fail, Evaluate, FailsEarly, ChainInv, TypeOK
    <3>5. ~GateR(t)
      BY DEF GateR, Goto, ChainInv, TypeOK
    <3>. QED
      BY <3>2, <3>3, <3>4, <3>5 DEF Step, HgetD, HgetR, Hset, Expire, TouchConversation,
         TouchPair, GateD, GateRefuses, GateAllows, Send, SendRejected
  <2>2. depth[t] \in Nat /\ depth[t] <= hops[cur[t]] /\ hops[cur[t]] \in Nat
    BY Current DEF ChainInv, Readings, Reading, TypeOK
  <2>. QED
    BY <2>1, <2>2, ChainConstants DEF GateRDrops, TooDeep
<1>. QED
  BY <1>1, InvHolds, PTL DEF Spec, DropJustified

-----------------------------------------------------------------------------
(* Leaks *)

\* The evaluations that will give m a TTL.
Guarded(m) == \E t \in Task : pc[t] = "expire" /\ cur[t] = m

\* A step that is no fault leaks nothing: HSET is followed by its EXPIRE, which
\* also covers what another evaluation has written to the hash meanwhile.
LEMMA NoLeak ==
  ASSUME ChainInv, Next, faults' = faults
  PROVE  Leaked' \subseteq Leaked
<1>. SUFFICES ASSUME NEW m \in Msg, rec'[m].ttl = Persistent, ~Guarded(m)'
              PROVE  rec[m].ttl = Persistent /\ ~Guarded(m)
  BY DEF Leaked, Guarded
<1>1. ASSUME UNCHANGED <<rec, pc, cur>>
      PROVE  rec[m].ttl = Persistent /\ ~Guarded(m)
  BY <1>1 DEF Guarded
<1>2. CASE Tick
  <2>1. rec[m].ttl \in Persistent .. DepthTtl /\ UNCHANGED <<pc, cur>>
    BY <1>2 DEF Tick, task, ChainInv, TypeOK
  <2>2. rec'[m] = IF rec[m].ttl = 1 THEN Missing ELSE [rec[m] EXCEPT !.ttl = Aged(@)]
    BY <1>2 DEF Tick
  <2>3. rec[m].ttl # 1 => rec'[m].ttl = Aged(rec[m].ttl)
    BY <2>2 DEF ChainInv, TypeOK
  <2>4. rec[m].ttl = Persistent
    BY <2>1, <2>2, <2>3, ChainConstants DEF Missing, Aged, Persistent
  <2>. QED
    BY <2>1, <2>4 DEF Guarded
<1>3. ASSUME NEW t \in Task, pc[t] # "expire", rec' = rec,
             \A u \in Task \ {t} : pc'[u] = pc[u] /\ cur'[u] = cur[u]
      PROVE  rec[m].ttl = Persistent /\ ~Guarded(m)
  BY <1>3 DEF Guarded
<1>4. ASSUME NEW t \in Task, Hset(t)
      PROVE  rec[m].ttl = Persistent /\ ~Guarded(m)
  <2>1. \A u \in Task \ {t} : pc'[u] = pc[u] /\ cur'[u] = cur[u]
    BY <1>4, OthersWait DEF Step, ChainInv
  <2>2. pc'[t] = "expire" /\ cur'[t] = cur[t] /\ pc[t] # "expire"
    BY <1>4 DEF Hset, Goto, ChainInv, TypeOK
  <2>3. m # cur[t]
    BY <2>2 DEF Guarded
  <2>4. rec'[m] = rec[m]
    BY <1>4, <2>3 DEF Hset, ChainInv, TypeOK
  <2>. QED
    BY <2>1, <2>2, <2>4 DEF Guarded
<1>5. ASSUME NEW t \in Task, Expire(t)
      PROVE  rec[m].ttl = Persistent /\ ~Guarded(m)
  <2>1. \A u \in Task \ {t} : pc'[u] = pc[u] /\ cur'[u] = cur[u]
    BY <1>5, OthersWait DEF Step, ChainInv
  <2>2. m # cur[t]
    <3>1. CASE m = cur[t]
      <4>1. rec'[m].ttl = Expiring(rec[m].ttl)
        BY <1>5, <3>1 DEF Expire, ChainInv, TypeOK
      <4>. QED
        BY <4>1, ChainConstants DEF Expiring, Persistent
    <3>. QED
      BY <3>1
  <2>3. rec'[m] = rec[m]
    BY <1>5, <2>2 DEF Expire, ChainInv, TypeOK
  <2>. QED
    BY <2>1, <2>2, <2>3 DEF Guarded
<1>6. ASSUME NEW t \in Task, \E n \in Msg : Evaluate(t, n)
      PROVE  rec[m].ttl = Persistent /\ ~Guarded(m)
  <2>1. pc[t] # "expire" /\ rec' = rec
    BY <1>6 DEF Evaluate, keys
  <2>. QED
    BY <1>3, <1>6, <2>1, OthersWait DEF ChainInv
<1>7. ASSUME NEW t \in Task, Step(t), ~Hset(t), ~Expire(t)
      PROVE  rec[m].ttl = Persistent /\ ~Guarded(m)
  <2>1. pc[t] # "expire" /\ rec' = rec
    BY <1>7 DEF Step, HgetD, HgetR, TouchConversation, TouchPair, GateD, GateRDrops, GateR,
                GateRefuses, GateAllows, Send, SendRejected, keys
  <2>. QED
    BY <1>3, <1>7, <2>1, OthersWait DEF ChainInv
<1>8. faults' # faults + 1
  BY DEF ChainInv, TypeOK
<1>9. CASE \/ \E p \in {NoMsg} \cup 1 .. last : PeerSends(p)
           \/ \E n \in Msg : PeerEdits(n) \/ Dropped(n)
  BY <1>1, <1>9 DEF PeerSends, PeerEdits, Dropped, keys, task
<1>. QED
  BY <1>2, <1>4, <1>5, <1>6, <1>7, <1>8, <1>9 DEF Next, FailsEarly, FailsOpen, Fail, Crash

\* A fault leaks what the evaluations it ends were about to guard.
LEMMA FaultLeaks ==
  ASSUME IsFiniteSet(Task), ChainInv, Next, faults' = faults + 1
  PROVE  /\ IsFiniteSet(Leaked) /\ IsFiniteSet(Leaked')
         /\ Cardinality(Leaked') <= Cardinality(Leaked) + Cardinality(Task)
<1> DEFINE held == {cur[t] : t \in Task}
<1>1. rec' = rec
  <2>1. faults' # faults
    BY DEF ChainInv, TypeOK
  <2>. QED
    BY <2>1 DEF Next, Step, PeerSends, PeerEdits, Dropped, Evaluate, HgetD, HgetR, Hset, Expire,
                TouchConversation, TouchPair, GateD, GateRDrops, GateR, GateRefuses,
                GateAllows, Send, SendRejected, FailsEarly, FailsOpen, Fail, Crash, Tick, keys
<1>2. Leaked' \subseteq Leaked \cup held
  BY <1>1 DEF Leaked
<1>3. IsFiniteSet(held) /\ Cardinality(held) <= Cardinality(Task)
  <2>1. cur \in Surjection(Task, held)
    BY DEF Surjection, ChainInv, TypeOK
  <2>. QED
    BY <2>1, FS_Surjection
<1>4. IsFiniteSet(Leaked) /\ IsFiniteSet(Leaked')
  <2>1. IsFiniteSet(Msg)
    BY FS_Interval, ChainConstants DEF Msg
  <2>2. Leaked \in SUBSET Msg /\ Leaked' \in SUBSET Msg
    BY DEF Leaked
  <2>. QED
    BY <2>1, <2>2, FS_Subset
<1>. HIDE DEF held
<1>5. IsFiniteSet(Leaked \cup held)
      /\ Cardinality(Leaked \cup held) <= Cardinality(Leaked) + Cardinality(held)
  <2>1. IsFiniteSet(Leaked \cap held)
    <3>1. Leaked \cap held \in SUBSET Leaked
      OBVIOUS
    <3>. QED
      BY <1>4, <3>1, FS_Subset
  <2>2. /\ Cardinality(Leaked \cap held) \in Nat
        /\ Cardinality(Leaked) \in Nat /\ Cardinality(held) \in Nat
    BY <1>3, <1>4, <2>1, FS_CardinalityType
  <2>3. /\ IsFiniteSet(Leaked \cup held)
        /\ Cardinality(Leaked \cup held)
             = Cardinality(Leaked) + Cardinality(held) - Cardinality(Leaked \cap held)
    BY <1>3, <1>4, FS_Union, Zenon
  <2>. QED
    BY <2>2, <2>3
<1>6. Cardinality(Leaked') <= Cardinality(Leaked \cup held)
  BY <1>2, <1>5, FS_Subset
<1>7. /\ Cardinality(Leaked) \in Nat /\ Cardinality(Leaked') \in Nat
      /\ Cardinality(held) \in Nat /\ Cardinality(Task) \in Nat
      /\ Cardinality(Leaked \cup held) \in Nat
  BY <1>3, <1>4, <1>5, FS_CardinalityType
<1>. QED
  BY <1>3, <1>4, <1>5, <1>6, <1>7

LEMMA LeakStep ==
  ASSUME IsFiniteSet(Task), ChainInv, LeakFree, [Next]_vars
  PROVE  LeakFree'
<1>1. IsFiniteSet(Leaked) /\ IsFiniteSet(Msg)
  <2>1. IsFiniteSet(Msg)
    BY FS_Interval, ChainConstants DEF Msg
  <2>2. Leaked \in SUBSET Msg
    BY DEF Leaked
  <2>. QED
    BY <2>1, <2>2, FS_Subset
<1>2. Cardinality(Task) \in Nat /\ Cardinality(Leaked) \in Nat /\ faults \in Nat
  BY <1>1, FS_CardinalityType, ChainConstants DEF ChainInv, TypeOK
<1>3. ASSUME Leaked' \subseteq Leaked, faults' = faults
      PROVE  LeakFree'
  <2>1. IsFiniteSet(Leaked') /\ Cardinality(Leaked') <= Cardinality(Leaked)
    BY <1>1, <1>3, FS_Subset
  <2>2. Cardinality(Leaked') \in Nat
    BY <2>1, FS_CardinalityType
  <2> DEFINE limit == faults * Cardinality(Task)
  <2>3. limit \in Nat /\ Cardinality(Leaked) <= limit
    BY <1>2 DEF LeakFree
  <2>4. LeakFree' <=> Cardinality(Leaked') <= limit
    BY <1>3 DEF LeakFree
  <2>. HIDE DEF limit
  <2>. QED
    BY <1>2, <2>1, <2>2, <2>3, <2>4
<1>4. CASE UNCHANGED vars
  BY <1>3, <1>4 DEF vars, keys, task, Leaked
<1>5. CASE Next /\ faults' = faults
  BY <1>3, <1>5, NoLeak
<1>6. CASE Next /\ faults' = faults + 1
  <2>1. /\ IsFiniteSet(Leaked')
        /\ Cardinality(Leaked') <= Cardinality(Leaked) + Cardinality(Task)
    BY <1>6, FaultLeaks
  <2>2. Cardinality(Leaked') \in Nat
    BY <2>1, FS_CardinalityType
  <2> DEFINE limit == faults * Cardinality(Task)
  <2>3. limit \in Nat /\ Cardinality(Leaked) <= limit
    BY <1>2 DEF LeakFree
  <2>4. (faults + 1) * Cardinality(Task) = limit + Cardinality(Task)
    BY <1>2
  <2>5. LeakFree' <=> Cardinality(Leaked') <= limit + Cardinality(Task)
    BY <1>6, <2>4 DEF LeakFree
  <2>. HIDE DEF limit
  <2>. QED
    BY <1>2, <2>1, <2>2, <2>3, <2>5
<1>7. faults' = faults \/ faults' = faults + 1 \/ UNCHANGED vars
  BY DEF Next, Step, PeerSends, PeerEdits, Dropped, Evaluate, HgetD, HgetR, Hset, Expire,
         TouchConversation, TouchPair, GateD, GateRDrops, GateR, GateRefuses, GateAllows, Send,
         SendRejected, FailsEarly, FailsOpen, Fail, Crash, Tick
<1>. QED
  BY <1>4, <1>5, <1>6, <1>7

\* Only faults leave depth records without a TTL, and each of them at most one
\* for every evaluation (depth_tracker.py:64-66).
THEOREM LeaksCounted == IsFiniteSet(Task) => (Spec => []LeakFree)
<1>. SUFFICES ASSUME IsFiniteSet(Task)
              PROVE  Spec => []LeakFree
  OBVIOUS
<1>1. Init => LeakFree
  <2>. SUFFICES ASSUME Init
                PROVE  LeakFree
    OBVIOUS
  <2>1. Leaked = {}
    BY DEF Init, Leaked, Missing, Persistent
  <2>2. Cardinality(Leaked) = 0 /\ Cardinality(Task) \in Nat
    BY <2>1, FS_EmptySet, FS_CardinalityType
  <2>. QED
    BY <2>2 DEF Init, LeakFree
<1>2. ChainInv /\ LeakFree /\ [Next]_vars => LeakFree'
  BY LeakStep
<1>. QED
  BY <1>1, <1>2, InvHolds, PTL DEF Spec

-----------------------------------------------------------------------------
(* The prompt peer *)

\* A chain starts at a message that replies to nothing, and all of it was sent.
Firsts ==
  /\ ours \subseteq 1 .. last
  /\ \A m \in 1 .. last : /\ parent[m] = NoMsg => hops[m] = 0
                          /\ above[m] \subseteq 1 .. last

\* The record of m, if it has one, holds its true depth and a first message.
ExactAt(m) == Exists(m) => rec[m].d = hops[m] /\ hops[rec[m].r] = 0

\* An update that waits replies to a recorded message, or to nothing.
Recorded == \A m \in pending : parent[m] # NoMsg => Exists(parent[m])

\* Only the first message of a chain is ever the root of a conversation.
Rooted == \A m \in Msg : convo[m] > 0 => m <= last /\ hops[m] = 0

\* A message that has a record, or whose answer needs none: the first of a chain.
Known(m) == Exists(m) \/ hops[m] = 0

\* An evaluation finds the records it needs and computes exact values; a
\* message without a record is only answered when it is the first of its chain.
Tracked(t) ==
  /\ pc[t] = "hget_d" => Known(parent[cur[t]])
  /\ pc[t] = "hget_r" => \/ Exists(parent[cur[t]]) /\ depth[t] = hops[parent[cur[t]]]
                         \/ depth[t] = Unseen /\ hops[parent[cur[t]]] = 0
  /\ pc[t] = "hset" => depth[t] = hops[cur[t]]
  /\ pc[t] \in {"hset", "expire", "touch"} => hops[root[t]] = 0
  /\ pc[t] \in {"expire", "gate_r"} => Exists(cur[t])
  /\ pc[t] = "gate_r" => depth[t] = hops[cur[t]]
  /\ pc[t] = "active" => \/ Exists(cur[t]) /\ hops[cur[t]] < MaxReplyDepth
                         \/ root[t] = cur[t]
  /\ pc[t] = "send" => Known(cur[t]) /\ hops[cur[t]] < MaxReplyDepth

Prompt ==
  /\ \A m \in Msg : ExactAt(m)
  /\ Recorded
  /\ Rooted
  /\ \A t \in Task : Tracked(t)
  /\ ChainBound

PromptInv == Firsts /\ (prompt => Prompt)

\* No record is lost.
Lasting == \A m \in Msg : rec[m].ttl # 0 => rec'[m].ttl # 0

LEMMA PostFirsts ==
  ASSUME ChainInv, Firsts, NEW p \in 0 .. last, Post(p),
         ours' = ours \/ ours' = ours \cup {last'}
  PROVE  Firsts'
<1>1. /\ Kept /\ last' \in Msg /\ last' = last + 1 /\ last \in Nat /\ parent'[last'] = p
  BY PostChains
<1>2. /\ hops'[last'] = IF p = NoMsg THEN 0 ELSE hops[p] + 1
      /\ above'[last'] = {last'} \cup (IF p = NoMsg THEN {} ELSE above[p])
  BY <1>1 DEF ChainInv, TypeOK, Post
<1>3. 1 .. last' = (1 .. last) \cup {last'}
  BY <1>1
<1>4. p # NoMsg => above[p] \subseteq 1 .. last
  BY <1>1 DEF Firsts, NoMsg
<1>5. \A m \in 1 .. last : (parent'[m] = NoMsg => hops'[m] = 0) /\ above'[m] \subseteq 1 .. last
  BY <1>1, Zenon DEF Kept, Firsts
<1>6. (parent'[last'] = NoMsg => hops'[last'] = 0) /\ above'[last'] \subseteq 1 .. last'
  BY <1>1, <1>2, <1>3, <1>4
<1>7. ours' \subseteq 1 .. last'
  BY <1>3 DEF Firsts
<1>. QED
  BY <1>3, <1>5, <1>6, <1>7 DEF Firsts

LEMMA SameFirsts ==
  ASSUME Firsts, UNCHANGED chat
  PROVE  Firsts'
  BY DEF Firsts, chat

\* A record that is not written stays exact.
LEMMA SameExact ==
  ASSUME ChainInv, Firsts, Kept, NEW m \in Msg, ExactAt(m),
         Exists(m)' => /\ Exists(m)
                       /\ rec'[m].d = rec[m].d /\ rec'[m].r = rec[m].r
  PROVE  ExactAt(m)'
<1>. SUFFICES ASSUME Exists(m)' PROVE rec'[m].d = hops'[m] /\ hops'[rec'[m].r] = 0
  BY DEF ExactAt
<1>1. m \in 1 .. last /\ rec[m].r \in above[m]
  <2>1. Exists(m)
    OBVIOUS
  <2>2. m <= last /\ rec[m].r \in above[m]
    BY <2>1 DEF ChainInv, Records
  <2>. QED
    BY <2>2 DEF ChainInv, TypeOK, Msg
<1>2. rec[m].r \in 1 .. last
  BY <1>1 DEF Firsts
<1>. QED
  BY <1>1, <1>2 DEF ExactAt, Kept

\* An evaluation that does not move is still tracked.
LEMMA SameTracked ==
  ASSUME ChainInv, Firsts, Kept, Lasting, NEW u \in Task, Tracked(u),
         pc'[u] = pc[u], cur'[u] = cur[u], depth'[u] = depth[u], root'[u] = root[u]
  PROVE  Tracked(u)'
<1>1. CASE pc[u] = "idle"
  BY <1>1 DEF Tracked
<1>2. CASE pc[u] # "idle"
  <2>1. cur[u] \in 1 .. last /\ cur[u] \in Msg
    BY <1>2, Current
  <2>2. parent[cur[u]] # NoMsg => parent[cur[u]] \in 1 .. last /\ parent[cur[u]] \in Msg
    BY <1>2, <2>1, Current DEF ChainInv, TypeOK, Chains, NoMsg
  <2>3. /\ hops'[cur[u]] = hops[cur[u]] /\ parent'[cur[u]] = parent[cur[u]]
        /\ parent[cur[u]] # NoMsg => hops'[parent[cur[u]]] = hops[parent[cur[u]]]
    BY <2>1, <2>2 DEF Kept
  <2>4. pc[u] \in {"hget_d", "hget_r"} => parent[cur[u]] # NoMsg
    BY DEF ChainInv, Readings, Reading
  <2>5. pc[u] \in {"hset", "expire", "touch"} => hops'[root[u]] = hops[root[u]]
    <3>1. pc[u] \in {"hset", "expire", "touch"} => root[u] \in 1 .. last
      BY <2>1 DEF ChainInv, Readings, Reading, Firsts
    <3>. QED
      BY <3>1 DEF Kept
  <2>6. rec[cur[u]].ttl # 0 => rec'[cur[u]].ttl # 0
    BY <2>1 DEF Lasting
  <2>7. parent[cur[u]] # NoMsg /\ rec[parent[cur[u]]].ttl # 0 => rec'[parent[cur[u]]].ttl # 0
    BY <2>2 DEF Lasting
  <2>. QED
    BY <2>3, <2>4, <2>5, <2>6, <2>7 DEF Tracked, Known, Exists
<1>. QED
  BY <1>1, <1>2

LEMMA SameRecorded ==
  ASSUME ChainInv, Kept, Lasting, Recorded, pending' \subseteq pending
  PROVE  Recorded'
<1>. SUFFICES ASSUME NEW m \in pending, parent'[m] # NoMsg
              PROVE  rec'[parent'[m]].ttl # 0
  BY DEF Recorded, Exists
<1>1. m \in 1 .. last
  BY DEF ChainInv, TypeOK
<1>2. parent'[m] = parent[m]
  BY <1>1 DEF Kept
<1>3. parent[m] \in Msg
  <2>1. m \in Msg
    BY <1>1, ChainConstants DEF ChainInv, TypeOK, Msg
  <2>2. parent[m] \in 0 .. MaxMsg /\ parent[m] # 0
    BY <1>2, <2>1 DEF ChainInv, TypeOK, NoMsg
  <2>. QED
    BY <2>2, ChainConstants DEF Msg
<1>4. rec[parent[m]].ttl # 0
  BY <1>2 DEF Recorded, Exists
<1>. QED
  BY <1>2, <1>3, <1>4 DEF Lasting

LEMMA SameRooted ==
  ASSUME ChainInv, Kept, Rooted, last' \in Nat, last' >= last,
         \A m \in Msg : convo'[m] > 0 => convo[m] > 0
  PROVE  Rooted'
<1>. SUFFICES ASSUME NEW m \in Msg, convo'[m] > 0 PROVE m <= last' /\ hops'[m] = 0
  BY DEF Rooted
<1>1. m <= last /\ hops[m] = 0
  BY DEF Rooted
<1>2. m \in 1 .. last /\ last \in Nat
  BY <1>1, ChainConstants DEF Msg, ChainInv, TypeOK
<1>. QED
  BY <1>1, <1>2, ChainConstants DEF Kept

LEMMA RootedStays ==
  ASSUME ChainInv, Rooted, UNCHANGED <<chat, convo>>
  PROVE  Rooted'
  BY DEF Rooted, chat

LEMMA SameBound ==
  ASSUME Firsts, Kept, ChainBound, ours' = ours
  PROVE  ChainBound'
  BY DEF Firsts, Kept, ChainBound

\* When one evaluation moves, and loses no record, the others are still tracked.
LEMMA OneTracked ==
  ASSUME ChainInv, Firsts, Kept, Lasting, \A u \in Task : Tracked(u),
         NEW t \in Task, Tracked(t)',
         Step(t) \/ FailsOpen(t) \/ Fail(t) \/ \E m \in Msg : Evaluate(t, m) \/ FailsEarly(t, m)
  PROVE  \A u \in Task : Tracked(u)'
<1>. SUFFICES ASSUME NEW u \in Task PROVE Tracked(u)'
  OBVIOUS
<1>1. CASE u = t
  BY <1>1
<1>2. CASE u # t
  BY <1>2, OthersWait, SameTracked DEF ChainInv
<1>. QED
  BY <1>1, <1>2

\* A step that writes no record, posts nothing and adds no update keeps all that
\* does not belong to an evaluation.
LEMMA SameRest ==
  ASSUME ChainInv, Firsts, Prompt, Kept, rec' = rec, ours' = ours, pending' \subseteq pending
  PROVE  Lasting /\ (\A m \in Msg : ExactAt(m)') /\ Recorded' /\ ChainBound'
<1>1. Lasting
  BY DEF Lasting
<1>2. ASSUME NEW m \in Msg PROVE ExactAt(m)'
  BY SameExact DEF Prompt, Exists
<1>. QED
  BY <1>1, <1>2, SameRecorded, SameBound DEF Prompt

\* A step of an evaluation that writes no record keeps a prompt peer's chains.
LEMMA StepPrompt ==
  ASSUME ChainInv, Firsts, Prompt, NEW t \in Task, Tracked(t)',
         Step(t) \/ FailsOpen(t) \/ Fail(t) \/ \E m \in Msg : Evaluate(t, m) \/ FailsEarly(t, m),
         UNCHANGED <<chat, rec>>, Rooted', pending' \subseteq pending
  PROVE  Prompt'
<1>1. Kept /\ ours' = ours
  BY SameChains DEF chat
<1>2. Lasting /\ (\A m \in Msg : ExactAt(m)') /\ Recorded' /\ ChainBound'
  BY <1>1, SameRest
<1>3. \A u \in Task : Tracked(u)'
  BY <1>1, <1>2, OneTracked DEF Prompt
<1>. QED
  BY <1>2, <1>3 DEF Prompt

\* The reads of record and get find the record, and it is exact, or they stand
\* at the first message of a chain.
LEMMA ReadPrompt ==
  ASSUME ChainInv, Firsts, Prompt, NEW t \in Task,
         HgetD(t) \/ HgetR(t) \/ GateD(t) \/ GateR(t)
  PROVE  Prompt'
<1>1. pc[t] # "idle" /\ UNCHANGED <<chat, rec, convo, cur, pending>>
  BY DEF HgetD, HgetR, GateD, GateR, keys
<1>2. UNCHANGED <<parent, hops>>
  BY <1>1 DEF chat
<1>3. cur[t] \in Msg /\ Tracked(t) /\ Reading(t)
  BY <1>1, Current DEF Prompt, ChainInv, Readings
<1>4. Tracked(t)'
  <2>1. CASE HgetD(t)
    <3>1. pc[t] = "hget_d" /\ pc'[t] = "hget_r"
      BY <2>1 DEF HgetD, Goto, ChainInv, TypeOK
    <3>2. parent[cur[t]] \in Msg /\ Known(parent[cur[t]])
      BY <1>1, <1>3, <3>1, Current DEF Tracked, Reading
    <3>3. depth'[t] = IF Exists(parent[cur[t]]) THEN rec[parent[cur[t]]].d ELSE Unseen
      BY <2>1 DEF HgetD, Info, ChainInv, TypeOK
    <3>4. Exists(parent[cur[t]]) => rec[parent[cur[t]]].d = hops[parent[cur[t]]]
      BY <3>2 DEF Prompt, ExactAt
    <3>5. \/ Exists(parent[cur[t]]) /\ depth'[t] = hops[parent[cur[t]]]
          \/ depth'[t] = Unseen /\ hops[parent[cur[t]]] = 0
      BY <3>2, <3>3, <3>4 DEF Known
    <3>. QED
      BY <1>1, <1>2, <3>1, <3>5 DEF Tracked, Exists
  <2>2. CASE HgetR(t)
    <3>1. pc[t] = "hget_r" /\ pc'[t] = "hset"
      BY <2>2 DEF HgetR, Goto, ChainInv, TypeOK
    <3>2. /\ parent[cur[t]] \in Msg /\ hops[parent[cur[t]]] \in Nat
          /\ hops[cur[t]] = hops[parent[cur[t]]] + 1
          /\ \/ Exists(parent[cur[t]]) /\ depth[t] = hops[parent[cur[t]]]
             \/ depth[t] = Unseen /\ hops[parent[cur[t]]] = 0
      BY <1>1, <1>3, <3>1, Current DEF Tracked, Reading, ChainInv, TypeOK
    <3>3. /\ depth'[t] = IF depth[t] = Unseen THEN 1 ELSE depth[t] + 1
          /\ root'[t] = IF depth[t] = Unseen \/ ~Exists(parent[cur[t]])
                        THEN parent[cur[t]] ELSE rec[parent[cur[t]]].r
      BY <2>2 DEF HgetR, ChildDepth, Info, ChainInv, TypeOK
    <3>4. Exists(parent[cur[t]]) => hops[rec[parent[cur[t]]].r] = 0
      BY <3>2 DEF Prompt, ExactAt
    <3>5. depth'[t] = hops[cur[t]]
      BY <3>2, <3>3 DEF Unseen
    <3>6. hops[root'[t]] = 0
      <4>1. CASE depth[t] = Unseen /\ hops[parent[cur[t]]] = 0
        BY <3>3, <4>1
      <4>2. CASE Exists(parent[cur[t]]) /\ depth[t] = hops[parent[cur[t]]]
        <5>1. depth[t] # Unseen
          BY <3>2, <4>2 DEF Unseen
        <5>. QED
          BY <3>3, <3>4, <4>2, <5>1
      <4>. QED
        BY <3>2, <4>1, <4>2
    <3>. QED
      BY <1>1, <1>2, <3>1, <3>5, <3>6 DEF Tracked
  <2>3. CASE GateD(t)
    <3>1. \/ /\ Exists(cur[t]) /\ pc'[t] = "gate_r" /\ depth'[t] = rec[cur[t]].d
          \/ pc'[t] = "active" /\ root'[t] = cur[t]
      BY <2>3 DEF GateD, Goto, Info, ChainInv, TypeOK
    <3>2. Exists(cur[t]) => rec[cur[t]].d = hops[cur[t]]
      BY <1>3 DEF Prompt, ExactAt
    <3>. QED
      BY <1>1, <1>2, <3>1, <3>2 DEF Tracked, Exists
  <2>4. CASE GateR(t)
    <3>1. pc[t] = "gate_r" /\ pc'[t] = "active" /\ ~TooDeep(depth[t])
      BY <2>4 DEF GateR, Goto, ChainInv, TypeOK
    <3>2. Exists(cur[t]) /\ depth[t] = hops[cur[t]] /\ hops[cur[t]] \in Nat
      BY <1>3, <3>1 DEF Tracked, ChainInv, TypeOK
    <3>3. hops[cur[t]] < MaxReplyDepth
      BY <3>1, <3>2, ChainConstants DEF TooDeep
    <3>. QED
      BY <1>1, <1>2, <3>1, <3>2, <3>3 DEF Tracked, Exists
  <2>. QED
    BY <2>1, <2>2, <2>3, <2>4
<1>5. Rooted'
  BY <1>1, RootedStays DEF Prompt
<1>. QED
  BY <1>1, <1>4, <1>5, StepPrompt DEF Step

\* HSET writes the exact record, and EXPIRE keeps it.
LEMMA WritePrompt ==
  ASSUME ChainInv, Firsts, Prompt, NEW t \in Task, Hset(t) \/ Expire(t)
  PROVE  Prompt'
<1>1. /\ pc[t] \in {"hset", "expire"} /\ UNCHANGED <<chat, convo, cur, root, pending>>
      /\ pc'[t] = IF Hset(t) THEN "expire" ELSE "touch"
  BY DEF Hset, Expire, Goto, ChainInv, TypeOK
<1>2. Kept /\ UNCHANGED <<parent, hops>> /\ ours' = ours
  BY <1>1, SameChains DEF chat
<1>3. cur[t] \in Msg /\ rec[cur[t]] \in [ttl : Int, d : Nat, r : 0 .. MaxMsg] /\ Tracked(t)
  BY <1>1, Current DEF Prompt, ChainInv, TypeOK
<1>4. /\ \A m \in Msg \ {cur[t]} : rec'[m] = rec[m]
      /\ Rooted'
  BY <1>1, RootedStays DEF Hset, Expire, ChainInv, TypeOK, Prompt
<1>5. CASE Hset(t)
  <2>1. /\ rec'[cur[t]].ttl = IF Exists(cur[t]) THEN rec[cur[t]].ttl ELSE Persistent
        /\ rec'[cur[t]].d = depth[t] /\ rec'[cur[t]].r = root[t]
    BY <1>3, <1>5 DEF Hset, ChainInv, TypeOK
  <2>2. rec'[cur[t]].ttl # 0
    BY <2>1 DEF Exists, Persistent
  <2>3. Lasting
    BY <1>4, <2>2 DEF Lasting
  <2>4. Tracked(t)'
    <3>1. hops[root[t]] = 0
      BY <1>3, <1>5 DEF Hset, Tracked
    <3>. QED
      BY <1>1, <1>2, <1>5, <2>2, <3>1 DEF Tracked, Exists
  <2>5. ASSUME NEW m \in Msg PROVE ExactAt(m)'
    <3>1. CASE m = cur[t]
      <4>1. depth[t] = hops[cur[t]] /\ hops[root[t]] = 0
        BY <1>3, <1>5 DEF Hset, Tracked
      <4>. QED
        BY <1>2, <2>1, <3>1, <4>1 DEF ExactAt
    <3>2. CASE m # cur[t]
      BY <1>2, <1>4, <3>2, SameExact DEF Prompt, Exists
    <3>. QED
      BY <3>1, <3>2
  <2>. QED
    BY <1>1, <1>2, <1>4, <1>5, <2>3, <2>4, <2>5, OneTracked, SameRecorded, SameBound DEF Prompt, Step
<1>6. CASE Expire(t)
  <2>1. /\ rec'[cur[t]].ttl = Expiring(rec[cur[t]].ttl)
        /\ rec'[cur[t]].d = rec[cur[t]].d /\ rec'[cur[t]].r = rec[cur[t]].r
    BY <1>3, <1>6 DEF Expire, ChainInv, TypeOK
  <2>2. rec[cur[t]].ttl # 0 /\ rec'[cur[t]].ttl # 0
    BY <1>3, <1>6, <2>1, ChainConstants DEF Expire, Tracked, Exists, Expiring
  <2>3. Lasting
    BY <1>4, <2>2 DEF Lasting
  <2>4. Tracked(t)'
    <3>1. pc[t] = "expire" /\ hops[root[t]] = 0
      BY <1>3, <1>6 DEF Expire, Tracked
    <3>2. pc'[t] = "touch"
      BY <1>6, <3>1 DEF Expire, Goto, ChainInv, TypeOK
    <3>. QED
      BY <1>1, <1>2, <3>1, <3>2 DEF Tracked
  <2>5. ASSUME NEW m \in Msg PROVE ExactAt(m)'
    BY <1>2, <1>4, <2>1, <2>2, SameExact DEF Prompt, Exists
  <2>. QED
    BY <1>1, <1>2, <1>4, <1>6, <2>3, <2>4, <2>5, OneTracked, SameRecorded, SameBound DEF Prompt, Step
<1>. QED
  BY <1>5, <1>6

\* The steps that only move an evaluation on, or end it.
LEMMA WayPrompt ==
  ASSUME ChainInv, Firsts, Prompt, NEW t \in Task,
         \/ TouchConversation(t) \/ TouchPair(t)
         \/ GateRDrops(t) \/ GateRefuses(t) \/ GateAllows(t) \/ SendRejected(t)
         \/ FailsOpen(t) \/ Fail(t)
  PROVE  Prompt'
<1>1. UNCHANGED <<chat, rec, pending>>
  BY DEF TouchConversation, TouchPair, GateRDrops, GateRefuses, GateAllows,
         SendRejected, FailsOpen, Fail, keys
<1>2. UNCHANGED <<parent, hops>>
  BY <1>1 DEF chat
<1>3. Tracked(t)'
  <2>1. CASE Finish(t)
    <3>1. pc'[t] = "idle"
      BY <2>1 DEF Finish, Goto, ChainInv, TypeOK
    <3>. QED
      BY <3>1 DEF Tracked
  <2>2. CASE Goto(t, "pair") \/ Goto(t, "gate_d")
    <3>1. pc'[t] \in {"pair", "gate_d"}
      BY <2>2 DEF Goto, ChainInv, TypeOK
    <3>. QED
      BY <3>1 DEF Tracked
  <2>3. CASE GateAllows(t)
    <3>1. /\ pc[t] = "active" /\ pc'[t] = "send" /\ convo[root[t]] > 0
          /\ UNCHANGED <<cur, rec>>
      BY <2>3 DEF GateAllows, Goto, ChainInv, TypeOK, keys
    <3>2. cur[t] \in Msg
      BY <3>1, Current
    <3>3. CASE Exists(cur[t]) /\ hops[cur[t]] < MaxReplyDepth
      BY <1>2, <3>1, <3>3 DEF Tracked, Known, Exists
    <3>4. CASE root[t] = cur[t]
      <4>1. hops[cur[t]] = 0
        BY <3>1, <3>2, <3>4 DEF Prompt, Rooted
      <4>. QED
        BY <1>2, <3>1, <4>1, ChainConstants DEF Tracked, Known
    <3>5. Tracked(t)
      BY DEF Prompt
    <3>. QED
      BY <3>1, <3>3, <3>4, <3>5 DEF Tracked
  <2>. QED
    BY <2>1, <2>2, <2>3 DEF TouchConversation, TouchPair, GateRDrops, GateRefuses,
         SendRejected, FailsOpen, Fail
<1>4. Rooted'
  <2>1. CASE TouchConversation(t)
    <3>1. hops[root[t]] = 0 /\ root[t] \in 1 .. last
      <4>1. pc[t] = "touch" /\ pc[t] # "idle" /\ Tracked(t) /\ Reading(t)
        BY <2>1 DEF TouchConversation, Prompt, ChainInv, Readings
      <4>2. cur[t] \in 1 .. last /\ root[t] \in above[cur[t]] /\ hops[root[t]] = 0
        BY <4>1, Current DEF Tracked, Reading
      <4>. QED
        BY <4>2 DEF Firsts
    <3>2. \A m \in Msg \ {root[t]} : convo'[m] = convo[m]
      BY <2>1 DEF TouchConversation, ChainInv, TypeOK
    <3>3. last' = last /\ last \in Nat
      BY <1>1 DEF chat, ChainInv, TypeOK
    <3>. QED
      BY <1>2, <3>1, <3>2, <3>3 DEF Rooted, Prompt
  <2>2. CASE UNCHANGED convo
    BY <1>1, <2>2, RootedStays DEF Prompt
  <2>. QED
    BY <2>1, <2>2 DEF TouchPair, GateRDrops, GateRefuses, GateAllows,
         SendRejected, FailsOpen, Fail, keys
<1>. QED
  BY <1>1, <1>3, <1>4, StepPrompt DEF Step

\* A message that starts to be recorded replies to a known message, or to none.
LEMMA StartTracked ==
  ASSUME ChainInv, NEW t \in Task, NEW m \in Msg, StartRecord(t, m),
         parent'[m] = NoMsg => hops'[m] = 0,
         parent'[m] # NoMsg => rec'[parent'[m]].ttl # 0 \/ hops'[parent'[m]] = 0
  PROVE  Tracked(t)'
<1>1. cur'[t] = m
  BY DEF StartRecord, ChainInv, TypeOK
<1>2. \/ parent'[m] = NoMsg /\ pc'[t] = "hset" /\ depth'[t] = 0 /\ root'[t] = m
      \/ parent'[m] # NoMsg /\ pc'[t] = "hget_d"
  BY DEF StartRecord, Info, Goto, ChainInv, TypeOK
<1>. QED
  BY <1>1, <1>2 DEF Tracked, Known, Exists

LEMMA EvaluatePrompt ==
  ASSUME ChainInv, Firsts, Prompt, NEW t \in Task, NEW m \in Msg, Evaluate(t, m)
  PROVE  Prompt'
<1>1. UNCHANGED <<chat, rec, convo>> /\ m \in pending /\ pending' \subseteq pending
      /\ StartRecord(t, m)
  BY DEF Evaluate, keys
<1>2. m \in 1 .. last /\ UNCHANGED <<parent, hops>>
  BY <1>1 DEF ChainInv, TypeOK, chat
<1>3. parent[m] = NoMsg => hops[m] = 0
  BY <1>2 DEF Firsts
<1>4. parent[m] # NoMsg => rec[parent[m]].ttl # 0
  BY <1>1 DEF Prompt, Recorded, Exists
<1>5. Tracked(t)'
  BY <1>1, <1>2, <1>3, <1>4, StartTracked
<1>6. Rooted'
  BY <1>1, RootedStays DEF Prompt
<1>. QED
  BY <1>1, <1>5, <1>6, StepPrompt

\* Nothing is known yet of a message whose evaluation failed early.
LEMMA EarlyPrompt ==
  ASSUME ChainInv, Firsts, Prompt, NEW t \in Task, NEW m \in Msg, FailsEarly(t, m)
  PROVE  Prompt'
<1>1. UNCHANGED <<chat, rec, convo>> /\ pending' \subseteq pending
  BY DEF FailsEarly, keys
<1>2. pc'[t] = "gate_d"
  BY DEF FailsEarly, Goto, ChainInv, TypeOK
<1>3. Tracked(t)'
  BY <1>2 DEF Tracked
<1>4. Rooted'
  BY <1>1, RootedStays DEF Prompt
<1>. QED
  BY <1>1, <1>3, <1>4, StepPrompt

\* An answer is one reply deeper than a message that is not too deep, and that
\* has a record or is the first of its chain.
LEMMA SendPrompt ==
  ASSUME ChainInv, Firsts, Prompt, NEW t \in Task, Send(t)
  PROVE  Prompt'
<1>1. /\ cur[t] \in 0 .. last /\ cur[t] # NoMsg /\ cur[t] \in 1 .. last
      /\ Post(cur[t]) /\ StartRecord(t, last') /\ hops[cur[t]] \in Nat
      /\ ours' = ours \cup {last'} /\ UNCHANGED <<rec, convo, pending>>
  BY Current DEF Send, keys, NoMsg, ChainInv, TypeOK
<1>2. /\ Kept /\ last' \in Msg /\ last' = last + 1 /\ last \in Nat
      /\ parent'[last'] = cur[t]
  BY <1>1, PostChains
<1>3. hops'[last'] = hops[cur[t]] + 1
  BY <1>1, <1>2 DEF Post, ChainInv, TypeOK
<1>4. Known(cur[t]) /\ hops[cur[t]] < MaxReplyDepth
  BY DEF Send, Prompt, Tracked
<1>5. Tracked(t)'
  <2>1. hops'[cur[t]] = hops[cur[t]]
    BY <1>1, <1>2 DEF Kept
  <2>2. rec'[cur[t]].ttl # 0 \/ hops'[cur[t]] = 0
    BY <1>1, <1>4, <2>1 DEF Known, Exists
  <2>. QED
    BY <1>1, <1>2, <2>2, StartTracked
<1>6. Lasting
  BY <1>1 DEF Lasting
<1>7. \A u \in Task : Tracked(u)'
  BY <1>2, <1>5, <1>6, OneTracked DEF Prompt, Step
<1>8. ASSUME NEW m \in Msg PROVE ExactAt(m)'
  BY <1>1, <1>2, SameExact DEF Prompt, Exists
<1>9. Recorded'
  BY <1>1, <1>2, <1>6, SameRecorded DEF Prompt
<1>10. ChainBound'
  <2>1. \A m \in ours : hops'[m] = hops[m] /\ hops[m] <= MaxReplyDepth
    BY <1>2 DEF Prompt, ChainBound, Firsts, Kept
  <2>2. hops'[last'] <= MaxReplyDepth
    BY <1>1, <1>3, <1>4, ChainConstants
  <2>. QED
    BY <1>1, <2>1, <2>2 DEF ChainBound
<1>11. Rooted'
  BY <1>1, <1>2, SameRooted DEF Prompt
<1>. QED
  BY <1>7, <1>8, <1>9, <1>10, <1>11 DEF Prompt

\* The peer stays prompt only by replying to a recorded message, or to none.
LEMMA PeerPrompt ==
  ASSUME ChainInv, Firsts, Prompt, prompt',
         (\E p \in {NoMsg} \cup 1 .. last : PeerSends(p))
           \/ \E m \in Msg : PeerEdits(m) \/ Dropped(m)
  PROVE  Prompt'
<1>1. UNCHANGED <<rec, convo, task, ours>>
  BY DEF PeerSends, PeerEdits, Dropped, keys, chat
<1>2. Kept /\ last' \in Nat /\ last' >= last
  <2>1. CASE \E p \in {NoMsg} \cup 1 .. last : PeerSends(p)
    <3>1. PICK p \in {NoMsg} \cup 1 .. last : PeerSends(p)
      BY <2>1
    <3>2. p \in 0 .. last /\ Post(p)
      BY <3>1 DEF PeerSends, NoMsg, ChainInv, TypeOK
    <3>. QED
      BY <3>2, PostChains
  <2>2. CASE \E m \in Msg : PeerEdits(m) \/ Dropped(m)
    <3>1. UNCHANGED chat
      BY <2>2 DEF PeerEdits, Dropped
    <3>. QED
      BY <3>1, SameChains DEF ChainInv, TypeOK
  <2>. QED
    BY <2>1, <2>2
<1>3. Lasting
  BY <1>1 DEF Lasting
<1>4. ASSUME NEW m \in Msg PROVE ExactAt(m)'
  BY <1>1, <1>2, SameExact DEF Prompt, Exists
<1>5. ChainBound'
  BY <1>1, <1>2, SameBound DEF Prompt
<1>6. ASSUME NEW u \in Task PROVE Tracked(u)'
  BY <1>1, <1>2, <1>3, SameTracked DEF Prompt, task
<1>7. Recorded'
  <2>1. CASE \E p \in {NoMsg} \cup 1 .. last : PeerSends(p)
    <3>1. PICK p \in {NoMsg} \cup 1 .. last : PeerSends(p)
      BY <2>1
    <3>2. p \in 0 .. last /\ Post(p)
      BY <3>1 DEF PeerSends, NoMsg, ChainInv, TypeOK
    <3>3. parent'[last'] = p
      BY <3>2, PostChains
    <3>4. p # NoMsg => rec[p].ttl # 0
      BY <3>1 DEF PeerSends, Exists
    <3>5. ASSUME NEW m \in pending, parent'[m] # NoMsg
          PROVE  rec'[parent'[m]].ttl # 0
      <4>1. m \in 1 .. last
        BY DEF ChainInv, TypeOK
      <4>2. parent'[m] = parent[m]
        BY <1>2, <4>1 DEF Kept
      <4>. QED
        BY <1>1, <3>5, <4>2 DEF Prompt, Recorded, Exists
    <3>6. pending' = pending \cup {last'}
      BY <3>1 DEF PeerSends
    <3>. QED
      BY <1>1, <3>3, <3>4, <3>5, <3>6 DEF Recorded, Exists
  <2>2. CASE \E m \in Msg : PeerEdits(m)
    <3>1. PICK m \in Msg : PeerEdits(m)
      BY <2>2
    <3>2. /\ parent[m] # NoMsg => rec[parent[m]].ttl # 0
          /\ pending' = pending \cup {m} /\ parent' = parent
      BY <3>1 DEF PeerEdits, Exists, chat
    <3>. QED
      BY <1>1, <3>2 DEF Prompt, Recorded, Exists
  <2>3. CASE \E m \in Msg : Dropped(m)
    <3>1. pending' \subseteq pending
      BY <2>3 DEF Dropped
    <3>. QED
      BY <1>2, <1>3, <3>1, SameRecorded DEF Prompt
  <2>. QED
    BY <2>1, <2>2, <2>3
<1>8. Rooted'
  BY <1>1, <1>2, SameRooted DEF Prompt
<1>. QED
  BY <1>4, <1>5, <1>6, <1>7, <1>8 DEF Prompt

LEMMA CrashPrompt ==
  ASSUME ChainInv, Firsts, Prompt, Crash
  PROVE  Prompt'
<1>1. UNCHANGED <<chat, rec, convo>> /\ pending' \subseteq pending /\ ours' = ours
  BY DEF Crash, keys, chat
<1>2. \A t \in Task : Tracked(t)'
  BY DEF Crash, Tracked
<1>3. Rooted'
  BY <1>1, RootedStays DEF Prompt
<1>. QED
  BY <1>1, <1>2, <1>3, SameChains, SameRest DEF Prompt

\* While an evaluation is under way or an update waits, time does not pass for
\* a prompt peer.
LEMMA TickPrompt ==
  ASSUME ChainInv, Firsts, Prompt, Tick, prompt'
  PROVE  Prompt'
<1>1. /\ UNCHANGED <<chat, task, pending>> /\ pending = {} /\ ours' = ours
      /\ \A t \in Task : pc[t] = "idle"
  BY DEF Tick, chat
<1>2. Kept
  BY <1>1, SameChains
<1>3. Recorded'
  BY <1>1 DEF Recorded
<1>4. \A t \in Task : Tracked(t)'
  BY <1>1 DEF task, Tracked
<1>5. ChainBound'
  BY <1>1, <1>2, SameBound DEF Prompt
<1>6. ASSUME NEW m \in Msg PROVE ExactAt(m)'
  <2>. SUFFICES ASSUME rec'[m].ttl # 0
                PROVE  rec[m].ttl # 0 /\ rec'[m].d = rec[m].d /\ rec'[m].r = rec[m].r
    BY <1>2, SameExact DEF Prompt, Exists, ExactAt
  <2>1. rec[m] \in [ttl : Int, d : Nat, r : 0 .. MaxMsg]
    BY DEF ChainInv, TypeOK
  <2>2. rec'[m] = IF rec[m].ttl = 1 THEN Missing ELSE [rec[m] EXCEPT !.ttl = Aged(@)]
    BY DEF Tick
  <2>3. rec'[m] # Missing
    BY DEF Missing
  <2>. QED
    BY <2>1, <2>2, <2>3 DEF Aged
<1>7. Rooted'
  <2>1. last' = last /\ last \in Nat
    BY <1>1 DEF chat, ChainInv, TypeOK
  <2>2. \A m \in Msg : convo[m] \in 0 .. ConvoTimeout /\ convo'[m] = Aged(convo[m])
    BY DEF Tick, ChainInv, TypeOK
  <2>3. \A m \in Msg : convo'[m] > 0 => convo[m] > 0
    BY <2>2, ChainConstants DEF Aged
  <2>. QED
    BY <1>2, <2>1, <2>3, SameRooted DEF Prompt
<1>. QED
  BY <1>3, <1>4, <1>5, <1>6, <1>7 DEF Prompt

LEMMA FirstsNext == ChainInv /\ Firsts /\ [Next]_vars => Firsts'
<1>. SUFFICES ASSUME ChainInv, Firsts, [Next]_vars PROVE Firsts'
  OBVIOUS
<1>1. CASE \E p \in {NoMsg} \cup 1 .. last : PeerSends(p)
  <2>1. PICK p \in {NoMsg} \cup 1 .. last : PeerSends(p)
    BY <1>1
  <2>2. p \in 0 .. last /\ Post(p) /\ ours' = ours
    BY <2>1 DEF PeerSends, NoMsg, ChainInv, TypeOK
  <2>. QED
    BY <2>2, PostFirsts
<1>2. ASSUME NEW t \in Task, Send(t) PROVE Firsts'
  <2>1. cur[t] \in 0 .. last /\ Post(cur[t]) /\ ours' = ours \cup {last'}
    BY <1>2, Current DEF Send
  <2>. QED
    BY <2>1, PostFirsts
<1>3. CASE UNCHANGED chat
  BY <1>3, SameFirsts
<1>. QED
  BY <1>1, <1>2, <1>3 DEF Next, Step, PeerEdits, Dropped, Evaluate, HgetD, HgetR, Hset, Expire,
     TouchConversation, TouchPair, GateD, GateRDrops, GateR, GateRefuses, GateAllows,
     SendRejected, FailsEarly, FailsOpen, Fail, Crash, Tick, vars

\* Once a peer was not prompt, it is never called prompt again.
LEMMA PromptBefore == ChainInv /\ [Next]_vars /\ prompt' => prompt
  BY DEF ChainInv, TypeOK, Next, Step, PeerSends, PeerEdits, Dropped, Evaluate, HgetD, HgetR,
     Hset, Expire, TouchConversation, TouchPair, GateD, GateRDrops, GateR, GateRefuses,
     GateAllows, Send, SendRejected, FailsEarly, FailsOpen, Fail, Crash, Tick, vars, ghosts

LEMMA PromptNext == ChainInv /\ PromptInv /\ [Next]_vars => PromptInv'
<1>. SUFFICES ASSUME ChainInv, Firsts, Prompt, [Next]_vars, prompt' PROVE Prompt'
  BY FirstsNext, PromptBefore DEF PromptInv
<1>1. CASE UNCHANGED vars
  BY <1>1 DEF vars, chat, keys, task, Prompt, ExactAt, Recorded, Rooted, Tracked, Known,
     ChainBound, Exists
<1>2. ASSUME NEW t \in Task, Step(t) PROVE Prompt'
  BY <1>2, ReadPrompt, WritePrompt, WayPrompt, SendPrompt DEF Step
<1>3. ASSUME NEW t \in Task, FailsOpen(t) \/ Fail(t) PROVE Prompt'
  BY <1>3, WayPrompt
<1>4. ASSUME NEW t \in Task, NEW m \in Msg, Evaluate(t, m) \/ FailsEarly(t, m) PROVE Prompt'
  BY <1>4, EvaluatePrompt, EarlyPrompt
<1>. QED
  BY <1>1, <1>2, <1>3, <1>4, PeerPrompt, CrashPrompt, TickPrompt DEF Next

LEMMA PromptInvariant == Spec => []PromptInv
<1>1. Init => PromptInv
  <2>. SUFFICES ASSUME Init PROVE Firsts /\ Prompt
    BY DEF PromptInv
  <2>1. Firsts
    BY DEF Init, Firsts
  <2>2. Recorded /\ Rooted /\ ChainBound
    BY DEF Init, Recorded, Rooted, ChainBound
  <2>3. \A t \in Task : Tracked(t)
    BY DEF Init, Tracked
  <2>4. \A m \in Msg : ExactAt(m)
    BY DEF Init, ExactAt, Exists, Missing
  <2>. QED
    BY <2>1, <2>2, <2>3, <2>4 DEF Prompt
<1>. QED
  BY <1>1, PromptNext, InvHolds, PTL DEF Spec

\* A peer that only touches recorded messages, while no update outlasts the
\* clock's step, is tracked exactly, whatever crashes or raises, though a message
\* whose evaluation raised may still be answered, and whichever evaluations
\* interleave (depth_tracker.py:34-67, handlers/guard.py:24).
THEOREM PromptPeerTracked == Spec => []Exact
<1>1. PromptInv => Exact
  BY DEF PromptInv, Prompt, ExactAt, Exact
<1>. QED
  BY <1>1, PromptInvariant, PTL

\* The loops of such a peer are broken: no answer is more than max_reply_depth
\* replies deep, though other commands run between the read of the depth and it,
\* and though messages are answered whose depth was never recorded
\* (depth_tracker.py:5-7, middleware.py:187-196, handlers/guard.py:24).
THEOREM PromptChainsBounded == Spec => []PromptChainBound
<1>1. PromptInv => PromptChainBound
  BY DEF PromptInv, Prompt, PromptChainBound
<1>. QED
  BY <1>1, PromptInvariant, PTL
=============================================================================
