------------------------------ MODULE LoopGuard ------------------------------
(***************************************************************************)
(* The inbound path of an update: LoopGuard.evaluate_inbound               *)
(* (loop_guard/middleware.py) with the block-list, the deduplicator, the   *)
(* rate limiter and the circuit breaker, called by the guard handler of    *)
(* group -100 (handlers/guard.py) before any feature handler.              *)
(*                                                                         *)
(* Every message is evaluated by a task of its own.  A step ends at an     *)
(* await.  What the rate limiter and the breaker answer is free, for their *)
(* commands interleave with those of other evaluations: the modules        *)
(* TokenBucket and CircuitBreaker take them apart, and ReplyChain the      *)
(* recording of step 5.  The state is that of one chat the bot may         *)
(* operate in; messages of chats outside allowed_chat_ids touch no state.  *)
(***************************************************************************)
EXTENDS Integers

CONSTANTS Msg,        \* the messages of the chat
          Peer,       \* the other bots
          Human,      \* the human members
          Trusted,    \* trusted_bot_ids
          Listed,     \* contents with a text, a caption or one of the seven
                      \* media kinds that evaluate_inbound looks at
          Unlisted,   \* contents of other kinds: locations, polls, dice, ...
          DedupTtl,   \* dedup_ttl_seconds
          MaxFaults,  \* bound on failing commands and audit appends
          MaxTime     \* bound on the clock

Nobody     == "nobody"      \* from_user is None
NoContent  == "no content"  \* neither text nor media: all that is hashed
Never      == -1
Sender     == Peer \cup Human \cup {Nobody}
Content    == Listed \cup Unlisted

ASSUME GuardAssumption ==
  /\ DedupTtl \in Nat \ {0}
  /\ {MaxFaults, MaxTime} \subseteq Nat
  /\ Trusted \subseteq Peer
  /\ Peer \cap Human = {} /\ Nobody \notin Peer \cup Human
  /\ Listed \cap Unlisted = {} /\ NoContent \notin Listed \cup Unlisted

VARIABLES
  now,       \* in seconds
  sender, content,
  pc,        \* the next command of each message's evaluation
  verdict,
  limited,   \* did the rate limiter refuse the message?
  handled,   \* the messages that reached the feature handlers
  faults,
  \* Redis
  blocked,   \* the chat's block-list
  dedup,     \* expiry of each dedup key
  \* history
  passedAt,  \* when a message passed deduplication
  barred     \* the messages from chats the bot is not to operate in, and those
             \* whose sender was blocked ever since they arrived

message == <<sender, content>>
store   == <<blocked, dedup>>
history == <<passedAt, barred>>
vars    == <<now, message, pc, verdict, limited, handled, faults, store, history>>

Label   == {"unsent", "is_blocked", "audit_block", "is_open", "dedup", "limit",
            "observe", "audit_trip", "record", "dispatch", "done"}
Verdict == {"none", "allow", "drop_dedup", "drop_blocked", "drop_rate_limit",
            "drop_breaker_open", "drop_chat_not_allowed", "raised"}

FingerprintOfText(m) ==
  [of |-> sender[m], what |-> NoContent]

\* content_fingerprint(chat, sender, text, reply_to, media id); what has
\* neither a text nor a media id of a listed kind hashes like nothing.
FingerprintOfContent(m) ==
  [of |-> Nobody, what |-> IF content[m] \in Listed THEN content[m] ELSE NoContent]

Fingerprint(m) ==
  [of |-> sender[m], what |-> IF content[m] \in Listed THEN content[m] ELSE NoContent]

Fingerprints == [of : Sender, what : Listed \cup {NoContent}]

TypeOK ==
  /\ now \in 0 .. MaxTime
  /\ sender \in [Msg -> Sender]
  /\ content \in [Msg -> Content \cup {NoContent}]
  /\ pc \in [Msg -> Label]
  /\ verdict \in [Msg -> Verdict]
  /\ limited \in [Msg -> BOOLEAN]
  /\ handled \subseteq {m \in Msg : pc[m] = "done" /\ verdict[m] \in {"allow", "raised"}}
  /\ faults \in 0 .. MaxFaults
  /\ blocked \subseteq Peer
  /\ dedup \in [Fingerprints -> 0 .. MaxTime + DedupTtl]
  /\ passedAt \in [Msg -> {Never} \cup 0 .. now]
  /\ barred \subseteq {m \in Msg : sender[m] # Nobody}

Init ==
  /\ now = 0
  /\ sender = [m \in Msg |-> Nobody]
  /\ content = [m \in Msg |-> NoContent]
  /\ pc = [m \in Msg |-> "unsent"]
  /\ verdict = [m \in Msg |-> "none"]
  /\ limited = [m \in Msg |-> FALSE]
  /\ handled = {}
  /\ faults = 0
  /\ blocked = {}
  /\ dedup = [f \in Fingerprints |-> 0]
  /\ passedAt = [m \in Msg |-> Never]
  /\ barred = {}

Goto(m, label) == pc' = [pc EXCEPT ![m] = label]

Decide(m, v, label) ==
  /\ verdict' = [verdict EXCEPT ![m] = v]
  /\ Goto(m, label)

DropWithoutStop(m, v) == Decide(m, v, "dispatch")

\* A decision other than ALLOW raises ApplicationHandlerStop: no group follows.
Drop(m, v) == Decide(m, v, "done")

-----------------------------------------------------------------------------
\* A message arrives; one without a sender is allowed at once, whatever it is.
Receive(m, s, c) ==
  /\ pc[m] = "unsent"
  /\ sender' = [sender EXCEPT ![m] = s]
  /\ content' = [content EXCEPT ![m] = IF s = Nobody THEN NoContent ELSE c]
  /\ barred' = IF s \in blocked THEN barred \cup {m} ELSE barred
  /\ CASE s = Nobody  -> Decide(m, "allow", "dispatch")
       [] s \in Peer  -> Goto(m, "is_blocked") /\ UNCHANGED verdict
       [] s \in Human -> Goto(m, "dedup") /\ UNCHANGED verdict
  /\ UNCHANGED <<now, limited, handled, faults, store, passedAt>>

ChatAllowedToHumans(s) == s \notin Peer
ChatAllowed(s) == s = Nobody

\* Step 0, in a chat outside allowed_chat_ids: only a message without a sender,
\* which is allowed before the chat is asked for, gets past it.
ReceiveElsewhere(m, s) ==
  /\ pc[m] = "unsent"
  /\ sender' = [sender EXCEPT ![m] = s]
  /\ barred' = IF s = Nobody THEN barred ELSE barred \cup {m}
  /\ IF ChatAllowed(s) THEN Decide(m, "allow", "dispatch") ELSE Drop(m, "drop_chat_not_allowed")
  /\ UNCHANGED <<now, content, limited, handled, faults, store, passedAt>>

IsBlockedUnlessTrusted(p) == p \in blocked \ Trusted
IsBlocked(p) == p \in blocked

\* Step 1: the block-list.
CheckBlocked(m) ==
  /\ pc[m] = "is_blocked"
  /\ Goto(m, IF IsBlocked(sender[m]) THEN "audit_block" ELSE "is_open")
  /\ UNCHANGED <<now, message, verdict, limited, handled, faults, store, history>>

AuditBlock(m) ==
  /\ pc[m] = "audit_block"
  /\ Drop(m, "drop_blocked")
  /\ UNCHANGED <<now, message, limited, handled, faults, store, history>>

\* Step 2: the breaker; then trusted bots skip step 3.
CheckOpen(m) ==
  /\ pc[m] = "is_open"
  /\ \/ Drop(m, "drop_breaker_open")
     \/ Goto(m, IF sender[m] \in Trusted THEN "limit" ELSE "dedup") /\ UNCHANGED verdict
  /\ UNCHANGED <<now, message, limited, handled, faults, store, history>>

DedupExpiryEarly == now + DedupTtl - 1
DedupExpiry == now + DedupTtl

\* Step 3: SET dedup NX EX; only a first copy starts the key's TTL.
Dedup(m) ==
  /\ pc[m] = "dedup"
  /\ IF dedup[Fingerprint(m)] > now
     THEN Drop(m, "drop_dedup") /\ UNCHANGED <<dedup, passedAt>>
     ELSE /\ Goto(m, IF sender[m] \in Peer THEN "limit" ELSE "record")
          /\ dedup' = [dedup EXCEPT ![Fingerprint(m)] = DedupExpiry]
          /\ passedAt' = [passedAt EXCEPT ![m] = now]
          /\ UNCHANGED verdict
  /\ UNCHANGED <<now, message, limited, handled, faults, blocked, barred>>

\* Step 4: the limiter; its refusal is remembered and the breaker observes.
Limit(m) ==
  /\ pc[m] = "limit"
  /\ \E refused \in BOOLEAN : limited' = [limited EXCEPT ![m] = refused]
  /\ Goto(m, "observe")
  /\ UNCHANGED <<now, message, verdict, handled, faults, store, history>>

DropVerdict(m) == IF limited[m] THEN "drop_rate_limit" ELSE "drop_breaker_open"

\* The breaker observes: it trips, or is open already, or counts the message
\* and stays closed.  Either way a refused message is dropped.
Observe(m) ==
  /\ pc[m] = "observe"
  /\ \/ Goto(m, "audit_trip") /\ UNCHANGED verdict
     \/ Drop(m, DropVerdict(m))
     \/ ~limited[m] /\ Goto(m, "record") /\ UNCHANGED verdict
  /\ UNCHANGED <<now, message, limited, handled, faults, store, history>>

AuditTrip(m) ==
  /\ pc[m] = "audit_trip"
  /\ Drop(m, DropVerdict(m))
  /\ UNCHANGED <<now, message, limited, handled, faults, store, history>>

\* Step 5, of which module ReplyChain keeps the account.
Record(m) ==
  /\ pc[m] = "record"
  /\ Decide(m, "allow", "dispatch")
  /\ UNCHANGED <<now, message, limited, handled, faults, store, history>>

-----------------------------------------------------------------------------
\* A command or an append raises.  The dispatcher hands the exception to
\* on_error, which only logs it, and goes on with the next group.
Fail(m) ==
  /\ pc[m] \notin {"unsent", "dispatch", "done"}
  /\ faults < MaxFaults
  /\ faults' = faults + 1
  /\ Decide(m, "raised", "dispatch")
  /\ UNCHANGED <<now, message, limited, handled, store, history>>

\* The next group runs: the message reaches the feature handlers.
Dispatch(m) ==
  /\ pc[m] = "dispatch"
  /\ Goto(m, "done")
  /\ handled' = handled \cup {m}
  /\ UNCHANGED <<now, message, verdict, limited, faults, store, history>>

\* allowlist.block and unblock, called for the administrators' commands.
Block(p) ==
  /\ blocked' = blocked \cup {p}
  /\ UNCHANGED <<now, message, pc, verdict, limited, handled, faults, dedup, history>>

Unblock(p) ==
  /\ p \in blocked
  /\ blocked' = blocked \ {p}
  /\ barred' = {m \in barred : sender[m] # p \/ pc[m] = "done"}
  /\ UNCHANGED <<now, message, pc, verdict, limited, handled, faults, dedup, passedAt>>

Tick ==
  /\ now < MaxTime
  /\ now' = now + 1
  /\ UNCHANGED <<message, pc, verdict, limited, handled, faults, store, history>>

Step(m) ==
  \/ CheckBlocked(m)
  \/ AuditBlock(m)
  \/ CheckOpen(m)
  \/ Dedup(m)
  \/ Limit(m)
  \/ Observe(m)
  \/ AuditTrip(m)
  \/ Record(m)
  \/ Dispatch(m)

Next ==
  \/ \E m \in Msg : Step(m) \/ Fail(m)
  \/ \E m \in Msg, s \in Sender, c \in Content : Receive(m, s, c)
  \/ \E m \in Msg, s \in Sender : ReceiveElsewhere(m, s)
  \/ \E p \in Peer : Block(p) \/ Unblock(p)
  \/ Tick

Spec == Init /\ [][Next]_vars

-----------------------------------------------------------------------------
(* Properties *)

\* Two messages that hash alike pass deduplication a TTL apart, however their
\* evaluations interleave and whatever fails afterwards (dedup.py:3-9,
\* middleware.py:122-131).
DedupWindow ==
  \A m, n \in Msg :
    /\ m # n /\ passedAt[m] # Never /\ passedAt[n] # Never
    /\ Fingerprint(m) = Fingerprint(n)
    => passedAt[m] - passedAt[n] >= DedupTtl \/ passedAt[n] - passedAt[m] >= DedupTtl

\* A message dropped as a duplicate hashes like an earlier one of the same
\* sender that passed within the TTL (dedup.py:3-9,36-41).
DupJustified ==
  [][\A m \in Msg : verdict[m] = "none" /\ verdict'[m] = "drop_dedup"
       => \E n \in Msg : /\ sender[n] = sender[m] /\ passedAt[n] # Never
                         /\ Fingerprint(n) = Fingerprint(m)
                         /\ now - passedAt[n] < DedupTtl]_vars

\* A message of a kind that evaluate_inbound looks at is a duplicate only of an
\* identical one, also where messages of other kinds, which all hash alike, are
\* sent by the same sender (dedup.py:3, hashing.py:7-21, middleware.py:109-131).
ListedIdentical ==
  \A m \in Msg : verdict[m] = "drop_dedup" /\ content[m] \in Listed
    => \E n \in Msg \ {m} : sender[n] = sender[m] /\ content[n] = content[m]

\* No message that a sender wrote in a chat the bot is not to operate in, and
\* none of a bot that was blocked when it arrived and ever since, reaches a
\* handler, however /block and /allow race with its evaluation.  The guard only
\* fails open for a message whose own evaluation raised (middleware.py:95-103,
\* allowlist.py:11-12, guard.py:24-34).
BarredStaysOut == \A m \in handled \cap barred : verdict[m] = "raised"
=============================================================================
