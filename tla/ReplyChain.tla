------------------------------ MODULE ReplyChain ------------------------------
(***************************************************************************)
(* Reply chains in one chat between the bot and a peer bot: the depth      *)
(* records (depth_tracker.py), the conversation and pair keys (timeout.py),*)
(* the end of evaluate_inbound, gate_outbound and record_outbound          *)
(* (middleware.py) and a feature handler that answers with safe_reply      *)
(* (messages.py).                                                          *)
(*                                                                         *)
(* Every Redis command is a step; updates are evaluated concurrently; the  *)
(* peer may reply to any message at any time, and edit its own.  Keys are  *)
(* kept with their remaining TTL, in units of the clock's step.            *)
(***************************************************************************)
EXTENDS Integers, FiniteSets

CONSTANTS Task,          \* the updates that are evaluated at once
          MaxMsg,        \* bound on the messages of the chat
          MaxEdits,      \* bound on the peer's edits
          MaxFaults,     \* bound on failing evaluations and process crashes
          MaxReplyDepth, \* max_reply_depth
          ConvoTimeout,  \* convo_timeout_seconds
          PairTimeout    \* pair_timeout_seconds

ASSUME ChainAssumption ==
  /\ {MaxMsg, MaxReplyDepth, ConvoTimeout, PairTimeout} \subseteq Nat \ {0}
  /\ {MaxEdits, MaxFaults} \subseteq Nat

Msg        == 1 .. MaxMsg
NoMsg      == 0
Unseen     == -1   \* HGET found nothing
Persistent == -1   \* a key without a TTL; a TTL of 0 is a missing key
DepthTtl   == 2 * ConvoTimeout
Missing    == [ttl |-> 0, d |-> 0, r |-> NoMsg]

VARIABLES
  \* the chat
  last,     \* the id of the last message
  parent,   \* the message each message replies to
  ours,     \* the messages the bot sent
  pending,  \* the peer's messages with an update that was not yet evaluated
  edits, faults,
  \* Redis
  rec,      \* the depth hash of each message
  convo,    \* TTL of the conversation key of each root
  pair,     \* TTL of the pair key
  \* the evaluations
  pc,
  cur,      \* the message that is recorded, or answered
  depth,    \* depth read or computed
  root,     \* root read or computed
  \* history
  hops,     \* true length of the chain above each message
  above,    \* each message with the messages it descends from
  prompt,   \* has the peer only touched messages with a record, and did no
            \* time pass while an update was evaluated?
  engaged   \* time since the first of the answers to an active pair

chat    == <<last, parent, ours, hops, above>>
keys    == <<rec, convo, pair>>
task    == <<pc, cur, depth, root>>
ghosts  == <<prompt, engaged>>
vars    == <<chat, pending, edits, faults, keys, task, ghosts>>

Label == {"idle", "hget_d", "hget_r", "hset", "expire", "touch", "pair",
          "gate_d", "gate_r", "active", "send"}

TypeOK ==
  /\ last \in 0 .. MaxMsg
  /\ parent \in [Msg -> 0 .. MaxMsg]
  /\ ours \subseteq Msg
  /\ pending \subseteq 1 .. last
  /\ edits \in 0 .. MaxEdits
  /\ faults \in 0 .. MaxFaults
  /\ rec \in [Msg -> [ttl : Int, d : Nat, r : 0 .. MaxMsg]]
  /\ \A m \in Msg : rec[m].ttl \in Persistent .. DepthTtl
  /\ convo \in [Msg -> 0 .. ConvoTimeout]
  /\ pair \in 0 .. PairTimeout
  /\ pc \in [Task -> Label]
  /\ cur \in [Task -> 0 .. MaxMsg]
  /\ \A t \in Task : pc[t] # "idle" => cur[t] \in 1 .. last
  /\ depth \in [Task -> Nat \cup {Unseen}]
  /\ root \in [Task -> 0 .. MaxMsg]
  /\ hops \in [Msg -> Nat]
  /\ above \in [Msg -> SUBSET Msg]
  /\ prompt \in BOOLEAN
  /\ engaged \in -1 .. PairTimeout + 1

Init ==
  /\ last = 0
  /\ parent = [m \in Msg |-> NoMsg]
  /\ ours = {}
  /\ pending = {}
  /\ edits = 0
  /\ faults = 0
  /\ rec = [m \in Msg |-> Missing]
  /\ convo = [m \in Msg |-> 0]
  /\ pair = 0
  /\ pc = [t \in Task |-> "idle"]
  /\ cur = [t \in Task |-> NoMsg]
  /\ depth = [t \in Task |-> Unseen]
  /\ root = [t \in Task |-> NoMsg]
  /\ hops = [m \in Msg |-> 0]
  /\ above = [m \in Msg |-> {}]
  /\ prompt = TRUE
  /\ engaged = -1

Exists(m) == rec[m].ttl # 0

Goto(t, label) == pc' = [pc EXCEPT ![t] = label]

Finish(t) ==
  /\ Goto(t, "idle")
  /\ cur' = [cur EXCEPT ![t] = NoMsg]
  /\ depth' = [depth EXCEPT ![t] = Unseen]
  /\ root' = [root EXCEPT ![t] = NoMsg]

Info(t, d, r) ==
  /\ depth' = [depth EXCEPT ![t] = d]
  /\ root' = [root EXCEPT ![t] = r]

\* A new message, in reply to p or to nothing.
Post(p) ==
  /\ last < MaxMsg
  /\ last' = last + 1
  /\ parent' = [parent EXCEPT ![last'] = p]
  /\ hops' = [hops EXCEPT ![last'] = IF p = NoMsg THEN 0 ELSE hops[p] + 1]
  /\ above' = [above EXCEPT ![last'] = {last'} \cup (IF p = NoMsg THEN {} ELSE above[p])]

-----------------------------------------------------------------------------
(* The peer *)

PeerSends(p) ==
  /\ Post(p)
  /\ pending' = pending \cup {last'}
  /\ prompt' = (prompt /\ (p # NoMsg => Exists(p)))
  /\ UNCHANGED <<ours, edits, faults, keys, task, engaged>>

\* An edit is an update with the same message id.
PeerEdits(m) ==
  /\ edits < MaxEdits
  /\ m <= last /\ m \notin ours \cup pending
  /\ edits' = edits + 1
  /\ pending' = pending \cup {m}
  /\ prompt' = (prompt /\ (parent[m] # NoMsg => Exists(parent[m])))
  /\ UNCHANGED <<chat, faults, keys, task, engaged>>

-----------------------------------------------------------------------------
(* DepthTracker.record *)

\* Up to the first command: a message that replies to nothing needs no read.
StartRecord(t, m) ==
  /\ cur' = [cur EXCEPT ![t] = m]
  /\ IF parent'[m] = NoMsg
     THEN /\ Info(t, 0, m)
          /\ Goto(t, "hset")
     ELSE /\ Info(t, Unseen, NoMsg)
          /\ Goto(t, "hget_d")

\* evaluate_inbound drops the message in one of its steps 0 to 4 ...
Dropped(m) ==
  /\ m \in pending
  /\ pending' = pending \ {m}
  /\ UNCHANGED <<chat, edits, faults, keys, task, ghosts>>

\* ... or goes on to step 5.
Evaluate(t, m) ==
  /\ pc[t] = "idle"
  /\ m \in pending
  /\ pending' = pending \ {m}
  /\ UNCHANGED chat
  /\ StartRecord(t, m)
  /\ UNCHANGED <<edits, faults, keys, ghosts>>

HgetD(t) ==
  /\ pc[t] = "hget_d"
  /\ LET p == parent[cur[t]]
     IN  Info(t, IF Exists(p) THEN rec[p].d ELSE Unseen, NoMsg)
  /\ Goto(t, "hget_r")
  /\ UNCHANGED <<chat, pending, edits, faults, keys, cur, ghosts>>

ChildDepthNoneKept(d) == IF d = Unseen THEN d ELSE d + 1
ChildDepthTwice(d)    == IF d = Unseen THEN 1 ELSE d + 2
ChildDepthOfParent(d) == IF d = Unseen THEN 1 ELSE d

\* An unseen parent counts as a root.
ChildDepth(d) == IF d = Unseen THEN 1 ELSE d + 1

\* The two reads may be of different hashes.
HgetR(t) ==
  /\ pc[t] = "hget_r"
  /\ LET p == parent[cur[t]]
     IN  Info(t, ChildDepth(depth[t]),
                 IF depth[t] = Unseen \/ ~Exists(p) THEN p ELSE rec[p].r)
  /\ Goto(t, "hset")
  /\ UNCHANGED <<chat, pending, edits, faults, keys, cur, ghosts>>

\* HSET keeps the TTL of an existing hash and gives a new one none.
Hset(t) ==
  /\ pc[t] = "hset"
  /\ rec' = [rec EXCEPT ![cur[t]] =
       [ttl |-> IF Exists(cur[t]) THEN @.ttl ELSE Persistent,
        d   |-> depth[t],
        r   |-> root[t]]]
  /\ Goto(t, "expire")
  /\ UNCHANGED <<chat, pending, edits, faults, convo, pair, cur, depth, root, ghosts>>

Forgotten(ttl) == ttl

\* EXPIRE of a missing key does nothing.
Expiring(ttl) == IF ttl = 0 THEN 0 ELSE DepthTtl

Expire(t) ==
  /\ pc[t] = "expire"
  /\ rec' = [rec EXCEPT ![cur[t]].ttl = Expiring(@)]
  /\ Goto(t, "touch")
  /\ UNCHANGED <<chat, pending, edits, faults, convo, pair, cur, depth, root, ghosts>>

-----------------------------------------------------------------------------
(* The ends of evaluate_inbound and of record_outbound *)

TouchConversation(t) ==
  /\ pc[t] = "touch"
  /\ convo' = [convo EXCEPT ![root[t]] = ConvoTimeout]
  /\ IF cur[t] \in ours
     THEN Finish(t)
     ELSE Goto(t, "pair") /\ UNCHANGED <<cur, depth, root>>
  /\ UNCHANGED <<chat, pending, edits, faults, rec, pair, ghosts>>

\* The message is allowed; a handler may then answer it with safe_reply.
TouchPair(t) ==
  /\ pc[t] = "pair"
  /\ pair' = PairTimeout
  /\ \/ Finish(t)
     \/ Goto(t, "gate_d") /\ UNCHANGED <<cur, depth, root>>
  /\ UNCHANGED <<chat, pending, edits, faults, rec, convo, ghosts>>

-----------------------------------------------------------------------------
(* safe_reply: gate_outbound, reply_text, record_outbound *)

\* DepthTracker.get; with no record the message is its own root.
GateD(t) ==
  /\ pc[t] = "gate_d"
  /\ IF Exists(cur[t])
     THEN Info(t, rec[cur[t]].d, NoMsg) /\ Goto(t, "gate_r")
     ELSE Info(t, Unseen, cur[t]) /\ Goto(t, "active")
  /\ UNCHANGED <<chat, pending, edits, faults, keys, cur, ghosts>>

TooDeepEarly(d) == d + 1 >= MaxReplyDepth
TooDeepBeyond(d) == d > MaxReplyDepth
TooDeep(d) == d >= MaxReplyDepth

GateRDrops(t) ==
  /\ pc[t] = "gate_r"
  /\ TooDeep(depth[t])
  /\ Finish(t)
  /\ UNCHANGED <<chat, pending, edits, faults, keys, ghosts>>

GateR(t) ==
  /\ pc[t] = "gate_r"
  /\ ~TooDeep(depth[t])
  /\ Info(t, depth[t], IF Exists(cur[t]) THEN rec[cur[t]].r ELSE cur[t])
  /\ Goto(t, "active")
  /\ UNCHANGED <<chat, pending, edits, faults, keys, cur, ghosts>>

\* The conversation is not active, or a rate limit refuses the answer ...
GateRefuses(t) ==
  /\ pc[t] = "active"
  /\ Finish(t)
  /\ UNCHANGED <<chat, pending, edits, faults, keys, ghosts>>

\* ... or the conversation is active and both limits allow it.
GateAllows(t) ==
  /\ pc[t] = "active"
  /\ convo[root[t]] > 0
  /\ Goto(t, "send")
  /\ UNCHANGED <<chat, pending, edits, faults, keys, cur, depth, root, ghosts>>

\* reply_text, and the local part of record_outbound.
Send(t) ==
  /\ pc[t] = "send"
  /\ Post(cur[t])
  /\ ours' = ours \cup {last'}
  /\ StartRecord(t, last')
  /\ engaged' = IF engaged < 0 THEN 0 ELSE engaged
  /\ UNCHANGED <<pending, edits, faults, keys, prompt>>

\* Telegram refuses the answer: reply_text raises.
SendRejected(t) ==
  /\ pc[t] = "send"
  /\ Finish(t)
  /\ UNCHANGED <<chat, pending, edits, faults, keys, ghosts>>

-----------------------------------------------------------------------------
(* Faults and time *)

\* A command of evaluate_inbound raises in one of its steps 0 to 4: the handler
\* of the guard ends, the ones of the features still run, and one of them may
\* answer the message that was never recorded.
FailsEarly(t, m) ==
  /\ pc[t] = "idle"
  /\ m \in pending
  /\ pending' = pending \ {m}
  /\ faults < MaxFaults
  /\ faults' = faults + 1
  /\ cur' = [cur EXCEPT ![t] = m]
  /\ Goto(t, "gate_d")
  /\ UNCHANGED <<chat, edits, keys, depth, root, ghosts>>

\* Or it raises in step 5, with the message recorded or not.
FailsOpen(t) ==
  /\ pc[t] \in {"hget_d", "hget_r", "hset", "expire", "touch", "pair"}
  /\ cur[t] \notin ours
  /\ faults < MaxFaults
  /\ faults' = faults + 1
  /\ Goto(t, "gate_d")
  /\ UNCHANGED <<chat, pending, edits, keys, cur, depth, root, ghosts>>

\* A command of safe_reply raises, or one of evaluate_inbound and nobody
\* answers.
Fail(t) ==
  /\ pc[t] # "idle"
  /\ faults < MaxFaults
  /\ faults' = faults + 1
  /\ Finish(t)
  /\ UNCHANGED <<chat, pending, edits, keys, ghosts>>

\* The process stops and starts again: its evaluations and the updates it
\* has fetched are lost.
Crash ==
  /\ faults < MaxFaults
  /\ faults' = faults + 1
  /\ pending' = {}
  /\ pc' = [t \in Task |-> "idle"]
  /\ cur' = [t \in Task |-> NoMsg]
  /\ depth' = [t \in Task |-> Unseen]
  /\ root' = [t \in Task |-> NoMsg]
  /\ UNCHANGED <<chat, edits, keys, ghosts>>

Aged(ttl) == IF ttl > 0 THEN ttl - 1 ELSE ttl

Tick ==
  /\ rec' = [m \in Msg |-> IF rec[m].ttl = 1 THEN Missing
                           ELSE [rec[m] EXCEPT !.ttl = Aged(@)]]
  /\ convo' = [m \in Msg |-> Aged(convo[m])]
  /\ pair' = Aged(pair)
  /\ prompt' = (prompt /\ pending = {} /\ \A t \in Task : pc[t] = "idle")
  /\ engaged' = IF pair <= 1 THEN -1
                ELSE IF engaged \in 0 .. PairTimeout THEN engaged + 1
                ELSE engaged
  /\ UNCHANGED <<chat, pending, edits, faults, task>>

Step(t) ==
  \/ HgetD(t)
  \/ HgetR(t)
  \/ Hset(t)
  \/ Expire(t)
  \/ TouchConversation(t)
  \/ TouchPair(t)
  \/ GateD(t)
  \/ GateRDrops(t)
  \/ GateR(t)
  \/ GateRefuses(t)
  \/ GateAllows(t)
  \/ Send(t)
  \/ SendRejected(t)

Next ==
  \/ \E p \in {NoMsg} \cup 1 .. last : PeerSends(p)
  \/ \E m \in Msg : PeerEdits(m) \/ Dropped(m)
  \/ \E t \in Task : \/ Step(t) \/ FailsOpen(t) \/ Fail(t)
                     \/ \E m \in Msg : Evaluate(t, m) \/ FailsEarly(t, m)
  \/ Crash
  \/ Tick

Spec == Init /\ [][Next]_vars

-----------------------------------------------------------------------------
(* Properties *)

\* A record never overstates: its depth is at most the length of the true
\* chain and its root is one of the messages the record's message descends
\* from, though the two fields are read by two commands and may come from
\* different hashes (depth_tracker.py:45-65).
DepthSound ==
  \A m \in Msg : Exists(m) => rec[m].d <= hops[m] /\ rec[m].r \in above[m]

\* An answer is only refused as too deep in a chain that is as long as
\* max_reply_depth (middleware.py:187-196).
DropJustified ==
  [][\A t \in Task : pc[t] = "gate_r" /\ pc'[t] = "idle" /\ faults' = faults
       => hops[cur[t]] >= MaxReplyDepth]_vars

\* A peer that only touches recorded messages, while evaluations take less
\* than the clock's step, is tracked exactly: every record holds the true depth
\* and the first message of the chain (depth_tracker.py:3-10).
Exact ==
  prompt => \A m \in Msg : Exists(m) => rec[m].d = hops[m] /\ hops[rec[m].r] = 0

\* The bot never sends a message that is more than max_reply_depth replies deep.
ChainBound == \A m \in ours : hops[m] <= MaxReplyDepth

\* The bot breaks every loop with a peer that only ever replies to the bot's own
\* messages (depth_tracker.py:5-7).
LoopBound ==
  (\A m \in 1 .. last \ ours : parent[m] \in ours \cup {NoMsg}) => ChainBound

\* It does break the loops of a prompt peer, whatever that peer replies to.
PromptChainBound == prompt => ChainBound

\* The depth records without a TTL that no evaluation is about to give one.
Leaked ==
  {m \in Msg : /\ rec[m].ttl = Persistent
               /\ \A t \in Task : ~(pc[t] = "expire" /\ cur[t] = m)}

\* Records are left without a TTL by faults only, at most one for each evaluation
\* that a fault ends, though the old record may expire between the commands and
\* another evaluation may write it (depth_tracker.py:64-66).
LeakFree == Cardinality(Leaked) <= faults * Cardinality(Task)

\* The bot does not go on answering one peer, without a pause of the pair
\* timeout, for longer than the pair timeout (timeout.py:9-11).
PairBound ==
  [][last' # last /\ last' \in ours' => engaged <= PairTimeout]_vars
=============================================================================
