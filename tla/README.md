# TGManagementBot in TLA+

TLA+ modules of the Telegram management bot of this repository, TLC
configurations that check them on small instances, and theorems about them
that TLAPS proves for all values of the constants. Paths below are relative to
`src/tgmgmt/` unless they start at the repository's root.

- [The system](#the-system)
- [Modules](#modules) and how they correspond to the code
- [Runs](#runs): what each one checks, its bounds, what it shows
- [Fairness](#fairness)
- [Proofs](#proofs)
- [Where the code and its documentation disagree](#where-the-code-and-its-documentation-disagree)
- [Not modelled](#not-modelled)
- [Plan](#plan)

Check a run with `tlc -config guard.cfg MCLoopGuard`, a proof with
`tlapm ReplyChainProofs.tla`.

## The system

One asyncio process polls Telegram. `app.py:60` sets `concurrent_updates(True)`:
every update is handled by a task of its own, and tasks interleave at every
`await`. All state that outlives an update is in Redis; no command is in a
transaction, so each Redis command is atomic and nothing larger is, the Lua
script excepted. Each update goes first to the loop guard (group -100) and, if
that does not stop it, to the command, member and message handlers (group 0).

| Component | State | Operations | What makes it correct |
|---|---|---|---|
| Token bucket (`loop_guard/rate_limiter.py`) | a Redis hash per bucket (tokens, ts) with an idle TTL; the server's script cache; `_sha` in the process | `acquire`: SCRIPT LOAD, EVALSHA, EVAL as a fallback | no window hands out more than burst plus refill, whatever is lost, retried or restarted; the wait it tells is right to a millisecond; the TTL gives no tokens away, at rates from 0.005/s on |
| Circuit breaker (`circuit_breaker.py`) | per (chat, bot) a sorted set of time stamps and an `open` key, both with TTLs | `is_open`, `observe` (four commands), `trip` | at most `cb_threshold` messages of a window pass; it trips only on a loud bot; openings are reported; it closes again |
| Depth tracker (`depth_tracker.py`) | per message a hash `d`, `r` with a TTL | `record` (two reads, two writes), `get`, `is_too_deep` | a record never overstates the chain; loops are broken at `max_reply_depth`; no hash stays for ever |
| Timeouts (`timeout.py`) | a TTL key per conversation, one per (chat, bot) | `touch_*`, `*_active` | a closed conversation stays silent; a pair is not engaged without end |
| Deduplicator (`dedup.py`, `utils/hashing.py`) | a TTL key per fingerprint | `seen`: SET NX EX | identical messages within a TTL pass once; others are not dropped |
| Allow- and block-list (`services/allowlist.py`) | two Redis sets per chat, no TTL | add, remove, is | blocked bots stay out, for a cause |
| Loop guard (`middleware.py`) | none of its own | `evaluate_inbound` (steps 0 to 5), `gate_outbound`, `record_outbound` | the steps' order and early returns keep the promises of the parts |
| Outbound gate (`middleware.py`, `rate_limiter.py`) | two buckets per answer: its target's, and the global one | steps 3 and 4 of `gate_outbound` | a hard ceiling on what is sent; a noisy target takes nothing from the others; who waits a millisecond longer than told gets through |
| Guard and error handler (`handlers/guard.py`, `errors.py`) | none | stop the update on a drop; log an exception | what was dropped reaches no feature |
| Answers (`handlers/messages.py`) | none | `safe_reply`: gate, send, record | every answer is gated and recorded |
| Administrators' commands (`handlers/admin.py`) | none; acts on the chat and on the lists | `/ban` `/kick` `/mute` `/allow` `/block` `/status` | a kick is no ban, a ban is on the block-list |
| Screening (`handlers/chat_member.py`) | none; acts on the chat and on the lists | `on_member` | no unknown bot whose joining is reported stays, no allowed one is banned |
| Audit log (`services/audit.py`) | an append-only file | `emit` | one line per event |
| Settings, Redis client, application, logging, deployment, tests | configuration and wiring | | |

What is hard here, and what a unit test would hardly reach:

- *interleaving at awaits*: a time stamp is taken before the command that uses
  it; a hash is read by two commands; a list is read, a ban awaited, a list
  written; a message is visible to the peer before its depth is recorded;
- *expiry* between two commands of one operation;
- *failure* between two steps: a lost reply followed by a retry, an exception
  out of the guard, a crash between a write and its report;
- *two resources of one operation*: the target's token is spent before the
  global bucket is asked, and may be spent for nothing;
- *numeric edges*: rounding of `retry_after_ms` and of the TTL, both computed in
  doubles; rates below the clamp of the TTL; clock stamps that run backwards; `>`
  or `>=` at a limit;
- *failing open*: an exception in the guard lets the message through, and its
  answer may go to a message that was never recorded;
- *liveness*: a breaker that closes, a bot that is screened though it comes and
  goes.

The list with lines is `hazards` in `PROJECT.json`. A hazard that no property
covers has a note there, which says that it does happen and why.

## Modules

```
BucketScript <- TokenBucket --refines--> TokenBudget
     ^    ^         ^                        ^
     |    |   TokenBucketProofs ----> TokenBudgetProofs
     |    |         |
     |  BucketScriptProofs <- OutboundProofs
     |                              |
     +------- Outbound <------------+

CircuitBreaker <- CircuitBreakerProofs      LoopGuard  <- LoopGuardProofs
ReplyChain     <- ReplyChainProofs          Membership <- MembershipProofs
```

Each module is extended by an `MC` module that adds what TLC needs (a symmetry
set). The operators next to a definition with a longer name of the same kind
(`DedupExpiry` and `DedupExpiryEarly`) are plausible mistakes; no specification
uses them, they stand beside the definition for the mutants of `PROJECT.json`.

**BucketScript** is the Lua script, and the TTL that is passed with it, as
operators on one hash. Rates are natural multiples of 1/(200·`Grain`) token a
second, and `Grain` is a parameter, so that every rational rate is an instance,
the ones below the clamp `max(rate_per_sec, 0.01)` of the TTL included. Tokens
are counted in units of 1/(200·`Grain`·1000), in which the refill
`elapsed_ms / 1000 * rate` is a whole number. The code computes it in doubles, and
the double may fall short of the sum: `hair`, which each run of the script is free
to choose, is the one unit by which what the code reads may be less than the exact
sum. It matters where exactly one token is left, which may be refused, and where
the missing part is refilled in a whole number of milliseconds, to which the code
may then add one: at rate 1 and 0.7 tokens it answers 301. The quotient of the TTL
may likewise come out one lower (17/0.017). Taken for granted is that the errors a
bucket gathers stay below one unit, which they do for all rates above some 10^-9
token a second. The two roundings that the code means (`retry_after_ms` up, the TTL
down) are exact.

The TTL leaves time for a refill at 0.005 tokens a second and no slower: the
clamp makes it at least `2 * 100 * capacity` seconds. Below that rate a bucket is
full again too early, when its key expires. `EffectiveRate`, the larger of the
rate and 0.005, is the rate at which it keeps its promises, and they are stated
with it.

**TokenBudget** is what a token bucket promises: a balance that is refilled for
credited time, capped, and pays for tokens.

**TokenBucket** is one bucket with concurrent callers. Actions are the awaited
commands of `acquire`; each may fail before or after it took effect. `stamp` is
the caller's `now_ms`. A Redis restart keeps the data and loses the script
cache; a restart of the bot loses `_sha` and the callers. History variables:
time credited, the time by which stamps ran behind (`skew`), and the credit at
each grant. The mapping to `TokenBudget` takes an absent key for a full bucket and
`EffectiveRate(Rate)` for the rate.

**Outbound** is an answer's way through steps 3 and 4 of `gate_outbound`: `gates`
are the buckets a task has still to ask, in the code's order, each by one call of
`acquire` with a clock sample of its own. A command may fail, its reply may be
lost and the script then run twice, the process may stop between the two buckets.
`Everyone` is the global bucket; its rate is capped by `abs_max_outbound_rps`.
History variables count the tokens each bucket handed out, the global tokens
spent for each target, and the answers that passed. `Asked` is what one undisturbed
call of both steps may answer, given the two hashes, for the property about
waiting. Steps 1 and 2 and the recording of what was sent are in ReplyChain.

**CircuitBreaker** is one (chat, bot) pair: every command of `is_open`,
`observe` and `trip`, with the part of `evaluate_inbound` around them. Time is
relative: entries are counted by age in seconds (`Count` adds up an interval of ages, as
the number of pairs of an age and a place in its count) and keys have their remaining
TTL. `MaxLag` bounds how long the commands of one `observe` may take after its
clock sample; without a bound no property of a window can hold.

**ReplyChain** is one chat of the bot and a peer: every command of
`DepthTracker.record` and `get`, `touch_conversation`, `touch_pair`,
steps 1 and 2 of `gate_outbound`, `record_outbound`, and `safe_reply` as the handler that answers
(the repository calls it nowhere, but documents that features do). The peer
replies to any message at any time and edits its own, also while an update is
evaluated. Steps 0 to 4 of `evaluate_inbound` are the action `Dropped`, and the
two rate limits of `gate_outbound` are free. An exception in `evaluate_inbound` does
not end the update: the features still run and one may answer the message, which is
then not recorded (`FailsEarly`) or perhaps half recorded (`FailsOpen`); `Fail` is an
exception in `safe_reply`, or one that nobody answers. `hops` and `above` are the true
chain, which only Telegram knows.

**LoopGuard** is `evaluate_inbound` with its order, early returns and failures,
called by the guard handler: one action per step. What the rate limiter and the
breaker answer is free in every step that asks them (`CheckOpen`, `Limit`,
`Observe`): their commands interleave with those of other evaluations, so no
condition on the state of one step is sound, and the modules that take them apart
are TokenBucket and CircuitBreaker. What LoopGuard says therefore holds whatever
they answer.
Contents are either *listed* (a text, a caption or one of the seven media kinds
that the code looks at) or *unlisted*. A sender is a bot, a human or, for a
channel, nobody. A message is either of the one chat whose state is kept, or of a
chat outside `allowed_chat_ids` (`ReceiveElsewhere`), which has no state: step 0
drops it, unless it has no sender. `Fail` is an exception at any step: `on_error` logs it and the
dispatcher goes on with the next group, so the message is handled.

**Membership** is who may be in a chat: the five commands and the screening,
each a sequence of awaited calls (`Calls`) that a task works off in order. `news` are the
reported status changes that were not taken up yet. A bot is added as a member or
as an administrator, and may be promoted and demoted. Telegram refuses to ban,
restrict or unban whom it protects (an administrator, the bot itself: `Protected`) and
whatever this bot has no rights to, any call may fail, the process may crash; updates
that wait at a start are dropped (`drop_pending_updates`, `__main__.py:9`). Of which
bots Telegram reports the changes is the constant `Reported`. `bans` remembers the
bans that were carried out, with the kind of handler that asked for them.

Data is abstracted to what the properties tell apart: keys to functions of what
they name, messages and bots to model values, texts and audit records away.
Numeric identifiers in ReplyChain are the order in which Telegram numbers them.

## Runs

Bounds on clocks, faults, edits, commands and messages are constants named
`Max...`. They are chosen so that every action and every disjunct fires and each
property has a mutation of the code, listed in `PROJECT.json`, that breaks it
within the same bounds.

| Run | Instance | Distinct states | Shows |
|---|---|---|---|
| `bucket_race` | 2 callers, burst 1, 0.004/s, 100 s steps up to 400 s, lossy link | 639 thousand | `BudgetSpec`: refines TokenBudget at the effective rate; `WindowBound`; `SkewedRateBound`; `WaitWithinAMillisecond` |
| `outbound` | 2 answers, 2 targets (one the target 0), bursts of 1, 0.005/s for a target and 0.02/s for all, capped to 0.004/s, 100 s steps up to 200 s, 1 fault | 497 thousand | `Ceiling`: what passes fits the global burst and the capped rate; `Isolation`: a target over its own limit takes nothing from the others; `ThreeWaits`: who waits a millisecond longer than told is through at the fourth attempt |
| `breaker` | 2 evaluations, threshold 2, window and cooldown 2 s, lag up to 1 s, 1 fault, fair | 949 thousand | `QuietBound`: without any lag no window holds more than `cb_threshold` messages judged CLOSED; `LaggedBound`: a lag costs at most one message per evaluation; `TripJustified`; `OpenIsAudited`; `ClosesAgain` |
| `chain_sound` | 2 evaluations, 3 messages, 1 edit, 1 fault, depth limit 1, timeouts 1 | 2.7 million | `DepthSound`, `DropJustified`, `Exact`, `PromptChainBound`, all with answers to messages whose evaluation raised; `LeakFree`: each fault leaves at most one hash per evaluation without a TTL |
| `guard` | 3 messages, listed and unlisted, of a bot, a trusted bot, a human or nobody, here or elsewhere; TTL 1 s, times 0 to 2, 1 fault | 6.0 million | `DedupWindow`, `DupJustified`, `ListedIdentical`, `BarredStaysOut` |
| `members` | 2 tasks, a bot and the bot itself, both reported; 2 commands, 3 joins, promotions and demotions, 1 fault, fair | 1.3 million | `KickIsNoBan`, `BannedIsBlocked`, `BlockedForCause`, `WelcomeNotBanned`, `ReportedScreened` |

`TypeOK` is checked of every module. The remaining six runs
(`bucket_double_credit`, `bucket_lost_reply`, `chain_eager`, `chain_pair`,
`members_admitted`, `members_unscreened`) each check one statement of the
documentation that the code violates; see below.

Why the bounds are enough:

- *Buckets*: the rate of 0.004/s lies below the 0.005/s that the TTL leaves time
  for, so the key expires (after 200 s) before the bucket is full (after 250 s):
  the case in which the rate and the effective rate differ. 400 s see the key
  expire and be written again; 100 s steps leave a fraction of a token at every
  step. Two callers reorder their stamps; a third adds no new pair.
- *Outbound*: with bursts of 1 both buckets run dry at once. The global bucket is
  at 0.004/s by the cap, so its key expires after 200 s, within the run, before
  it is full; a target's bucket is full again exactly when its key expires, after
  the same 200 s. Each can refuse where the other has a token. Two tasks are enough
  to have one between its two gates while the other passes both; the number of
  answers is not bounded, and the proofs are for any number of tasks.
- *Breaker*: the threshold is 2, so that two evaluations and an earlier message
  can see the count before any trips. A window of 2 s lets entries of two ages be
  pruned apart.
- *Chain*: three messages make a chain one longer than the limit; a timeout of
  one step makes every key expire between any two commands. What holds of longer
  chains is proved, not extrapolated.
- *Guard*: two messages race and a third meets what they left; times 0 to 2 and a
  TTL of 1 s let a dedup key expire between copies. One listed and one unlisted
  content tell apart what the fingerprint tells apart. The answers of limiter and
  breaker are free, so no threshold or rate bounds the instance.
- *Members*: two tasks are every pair of handlers; two commands are the pairs
  that undo each other; three changes let a bot come back, or be promoted and
  demoted while a handler is at work. The trusted bot is this bot itself, to save
  a third one: it is reported, screened and admitted for the setting's sake.

`members`, `members_admitted` and `members_unscreened` do not check for deadlock:
joins and commands are bounded, so the chat may come to rest. Every other run checks it.

Some properties are conditional, because the unconditional statement is false.
`OpenIsAudited`, `KickIsNoBan` and `BannedIsBlocked` hold as long as nothing
failed: a crash between two commands leaves a breaker open without a report, a
kicked bot banned, or a ban off the block-list. `BannedIsBlocked` and
`BlockedForCause` except the target of an authorised `/allow` or `/block`. What
these conditions leave out does happen, and is a hazard with a note of its own.
`LeakFree` and `Isolation` say what a fault costs. `BarredStaysOut` is about messages
that have a sender, and excepts the one whose own evaluation raised, for which the
guard fails open, and no other. `QuietBound` is about commands that take no time at
all after their clock sample, not even the millisecond in which Redis may expire the
key; `LaggedBound` says what is left otherwise. `ListedIdentical` is about contents
that the fingerprint looks at; unlisted ones of a sender do hash alike.
`ReportedScreened` is about bots whose change was reported; `members_unscreened` shows
what becomes of the others. `Exact` and `PromptChainBound` are about a *prompt* peer,
one that only replies to messages that are recorded already, while evaluations end
within the clock's step; `chain_eager` shows what another peer achieves. They survive
an exception in the guard: an answer to a message that was not recorded takes that
message for the root of its chain, and the gate refuses it unless it is, since no
conversation is active under the name of another.
`Ceiling`, `Isolation` and `SkewedRateBound` count the time by which scripts ran
behind their bucket, which `bucket_double_credit` shows to be credited twice, and
bound by the effective rate.

## Fairness

Liveness properties need it. `ClosesAgain` assumes that the event loop
runs every evaluation on and that time passes. An asyncio loop runs every ready
task, each awaited command returns or raises, and the TTL of the `open` key is
the server's own clock; nothing is assumed of the bot that floods, and the
action `Arrive` is not fair. `ReportedScreened` assumes that every handler that
was started is run on and every reported change is taken up, which the polling loop
does for each update it has fetched. No fairness is assumed of joins, departures,
promotions, commands, faults or crashes, and the property excepts what happens after
a fault: a crashed process forgets updates it has fetched, and then a bot does stay.
A stay that ends by itself also counts: the property says that no bot stays by coming
and going.

Which changes are reported is settled by `__main__.py:9`. It passes
`allowed_updates=None`, for which Telegram keeps its last setting; unless another
program asked for more, that leaves out `chat_member`, the updates about other bots.
`members` takes the most favourable case, in which they are reported, and
`ReportedScreened` says what the code makes of a report. `members_unscreened` takes
the program's own setting, in which only changes of this bot are reported: there,
under the same fairness, an unknown bot stays for ever.

## Proofs

| Theorem | Module | Statement |
|---|---|---|
| `BudgetSafety` | TokenBudgetProofs | for all natural burst and rate: any run of consecutive tokens fits the burst plus the refill between its ends |
| `TypeCorrect` | TokenBucketProofs | tokens stay in 0..capacity, no stamp is ahead of the clock |
| `BucketRefines` | TokenBucketProofs | TokenBucket implements TokenBudget at the effective rate |
| `WindowBoundHolds` | TokenBucketProofs | `[]WindowBound` |
| `SkewedRateBoundHolds` | TokenBucketProofs | `[]SkewedRateBound` |
| `RetriesInTime` | TokenBucketProofs | `[]WaitWithinAMillisecond` |
| `RateKeptInOrder` | TokenBucketProofs | `RateBound` as long as `skew = 0`, at rates from 0.005/s on |
| `ChargedAtMostTwice` | TokenBucketProofs | no call runs the script more than twice |
| `ChargedOnceHolds` | TokenBucketProofs | `[]ChargedOnce`, if no reply is lost |
| `TypeCorrect` | OutboundProofs | tokens stay in 0..burst, an answer asks its target's bucket and then the global one |
| `CeilingHolds` | OutboundProofs | `[]Ceiling` |
| `IsolationHolds` | OutboundProofs | `[]Isolation` |
| `ThreeWaitsAreEnough` | OutboundProofs | `[]ThreeWaits` |
| `TypeCorrect` | ReplyChainProofs | keys, TTLs and locals stay in their ranges |
| `RecordsSound` | ReplyChainProofs | `[]DepthSound` |
| `DropsJustified` | ReplyChainProofs | `DropJustified`, an action property |
| `LeaksCounted` | ReplyChainProofs | `[]LeakFree`, for finitely many evaluations |
| `PromptPeerTracked` | ReplyChainProofs | `[]Exact` |
| `PromptChainsBounded` | ReplyChainProofs | `[]PromptChainBound` |
| `TypeCorrect` | CircuitBreakerProofs | keys, counts and locals stay in their ranges |
| `OpeningsAudited` | CircuitBreakerProofs | `[]OpenIsAudited` |
| `QuietBoundHolds` | CircuitBreakerProofs | `[]QuietBound` |
| `LaggedBoundHolds` | CircuitBreakerProofs | `[]LaggedBound` |
| `TripJustifiedHolds` | CircuitBreakerProofs | `TripJustified`, an action property, for a lag shorter than the window |
| `TypeCorrect` | LoopGuardProofs | each message has one stage, no key outlives its TTL |
| `DedupWindowHolds` | LoopGuardProofs | `[]DedupWindow` |
| `DupsJustified` | LoopGuardProofs | `DupJustified`, an action property |
| `BarredHolds` | LoopGuardProofs | `[]BarredStaysOut` |
| `ListedOnlyIdentical` | LoopGuardProofs | `[]ListedIdentical` |
| `TypeCorrect` | MembershipProofs | what a handler has still to do is the rest of its list of calls |
| `WelcomeHolds` | MembershipProofs | `[]WelcomeNotBanned` |
| `KickHolds` | MembershipProofs | `[]KickIsNoBan` |
| `ListHolds` | MembershipProofs | `[]BannedIsBlocked` |
| `CauseHolds` | MembershipProofs | `[]BlockedForCause` |
| `AdmittedForCause` | MembershipProofs | the screening admits only whom the settings trust or an authorised /allow named |

They hold for any number of callers, answers, targets, evaluations, handlers,
messages and bots, any limits and timeouts, and any bounds on faults; those about
buckets for every rational rate, 0 included, and however the doubles round. The
assumptions are those the modules name (`GrainAssumption`, `BucketAssumption`,
`OutboundAssumption`, `ChainAssumption`, `BreakerAssumption`, `GuardAssumption`,
`MembershipAssumption`), which TLC evaluates in every run: knobs have the ranges
that `config.py` validates. `BreakerAssumption` and `LeaksCounted` take the
evaluations to be finitely many, since they are counted.

The bounds of the buckets name the effective rate, which is the rate itself from
0.005 tokens a second on. Below, and at rate 0, which `abs_max_outbound_rps = 0`
(`config.py:57`, `NonNegativeFloat`) permits, the bounds at the rate itself are false:
the key of a drained bucket expires before it is full, and an absent key is a full
bucket. The comment on the TTL, "long enough to refill from empty"
(`rate_limiter.py:103`), does not hold there.

`TripJustifiedHolds` assumes `MaxLag < Window`: no command of `observe` comes as late
after its clock sample as a whole window. Otherwise it is false. TLC finds, for a
window and a lag of 2 s and a threshold of 1, an evaluation whose ZADD comes so late
that its entry is already out of the window of another one, which has pruned and is
yet to count: the second trips on an entry that nobody would count any more.
`QuietBoundHolds` and `LaggedBoundHolds` need no such assumption.

*Token budget.* `WindowBound` is not inductive: it says nothing of the balance
that the next token is paid from. `Solvent` adds that for each past token `i` the
tokens since `i` **and** the present balance fit the burst plus the refill since
`i`. A refill keeps it, a grant turns it into the new window.

*Token bucket.* `RunScriptIsPayment` says that a run is one `Grant` or `Decline`
of the abstract budget: a run at the rate adds no more than one at the effective
rate, and a hair that the code misses can only refuse. Expiry is the delicate step:
it must be a capped refill up to `Burst`, which needs `TtlCoversRefill` (the TTL,
rounded and clamped as it is, covers a refill at the effective rate) and the
invariant `LivesOn` (a key that exists expires no sooner than an idle TTL after its
`ts`, although `ts` may be older than the clock). `CreditIsTime` relates the credited
time to the clock: what was credited beyond it is what moving `ts` back gained, the
`skew`. The bound in real time follows from that and the window from the first to the
last token.

*The wait.* `WaitIsRight` is about the script alone, whatever the hash: a refused run
leaves the hash at its level and at its own time, and answers the wait for what is
missing to a token, or for a unit more (`RefusedRun`); a later run is allowed exactly
when the code reads a token in what was left and refilled (`RefillAllows`); the wait in
whole milliseconds covers what is missing, and one less does not (`WaitIsExact`). A hair
at the first run or the later one shifts that by a millisecond at most, since a
millisecond refills at least a unit. `RetriesInTime` is this lemma with the types. That
the told wait itself suffices is false of the code, by the rounding of the doubles: it
may be one short or one long. `ThreeWaitsAreEnough` follows for two buckets: a wait for
the global bucket is the last one for it, since a refusal by the target's bucket leaves
the global one alone (`StaysReady`), so that only one wait for the target can follow
(`TwoWaitsLeft`); before it there is at most one more.

*Outbound gate.* BucketScriptProofs holds what both bucket modules need of the
script: its types, that a run pays for a token out of the balance and the refill
(`RunPays`), and that the TTL covers a refill (`TtlCoversRefill`). `Ceiling` is
proved from the books of the buckets: `Ledger(b)`, the tokens that `b` has handed
out **and** its balance fit its burst and the refill up to its own time at its
effective rate (`Pace`), which needs `LivesOn(b)` when the key expires. `Isolation` relates two buckets:
`Covered(g)` says that the global tokens spent for `g`, and the answers to `g` that
stand between the two gates (`AtGlobal(g)`), are at most the tokens of `g`'s own
bucket and one for each fault. Without the answers in between it would not be
inductive: a global token is paid for by a target's token taken in an earlier step.

*Reply chain.* `DepthSound` speaks of the records, but a record is written from
what an evaluation has read two commands earlier. The inductive invariant
`ChainInv` is `TypeOK`, `Chains` (a message descends from all its parent does, and
is one hop deeper), `Records` (`DepthSound`, and no record of a message that was
not sent) and `Readings` (whatever an evaluation has read or computed so far does
not overstate either). That the depth and the root may come from two different
hashes does no harm since both are bounded by the chain separately; that records
vanish does none since an unseen parent is counted as *less* deep.
`DropsJustified` follows from `Readings` at the gate.

`LeakFree` counts. A step that is no fault adds no leak (`NoLeak`): HSET on a hash
without a TTL is followed by the EXPIRE of the same evaluation, whoever else has
written or lost the hash in between. A fault ends at most every evaluation, and
each of these was to guard one hash (`FaultLeaks`).

`Exact` and `PromptChainBound` are proved together from `PromptInv`. While the peer is
prompt, every waiting update replies to a recorded message (`Recorded`) and every
evaluation finds the record it is about to read, so that what it has computed is not
merely bounded by the chain but equal to it (`Tracked`). The guard fails open, so a
message may be answered that has no record; the gate then takes it for its own root,
and because only the first message of a chain ever has a conversation key (`Rooted`),
what passes and has no record is the first of its chain (`Known`), whose answer counts as
depth 1 rightly; that a message posted by the bot
is not deeper than the limit is what the gate has read, and `hops` of a sent message never
changes (`Kept`). Records vanish only as time passes, and then a prompt peer has no
update waiting and no evaluation under way (`TickPrompt`). The root that HSET writes is the first
message of the chain because the parent's is, and `Firsts` says that a chain ends there.

*Circuit breaker.* `OpenIsAudited` is inductive with the types: an open key was set
by an evaluation that has reported it or stands between `trip` and the report
(`Reporting`). A second evaluation that trips meanwhile reports a second time, and
one that finds the key set reports nothing; neither takes the first report away. A
fault would, and excuses the property.

The bounds count. Were entries only lost by being pruned, the messages judged CLOSED would
be among the entries of their age, whose number was at most the threshold when the
last of them was judged. But the key itself may expire between the ZADD of one evaluation
and its EXPIRE, and take entries of the window with it. The invariant `Slips` therefore
gives each evaluation at most one *slip*, the age of the entry that it lost last:
what was recorded within a window and passed, or waits to be judged, is in the set or has slipped
(`Accounted`). A second loss of the same evaluation within the window is excluded because
each EXPIRE gives the key more than a window, so that it cannot expire again before the
entries it took are out of the window (`SlipsOnce`, `CountedLive`, `PassedLive`); and a
key can only take a fresh entry if its EXPIRE lags (`prompt`). Hence the threshold for a quiet loop,
and one message more for each evaluation otherwise. `TripJustified` rests on `Pruning`, no entry
older than the window is left between an evaluation's prune and its count,
and on `Seen`, every entry is a recorded message.

*Loop guard.* Each property has its own invariant over the stages of the messages
(`Typed`). `DedupInv` ties the dedup keys to the past in both directions: a key lives on for
a TTL after each message that passed by it (`Held`), which keeps passes a
TTL apart, and no longer than a TTL after one of them (`Owed`), which justifies
every duplicate. `KeptOut` says where a barred message can be: before the end of the
block-list's step, with its sender still on the list, or out of the pipeline, without a verdict
that lets it through unless it raised. `Copies` says that a message was dropped as a
duplicate only when another one with its fingerprint has passed: nobody else sets that
dedup key, and no message passes twice. The fingerprint tells listed contents apart, so
for them this is `ListedIdentical`, whatever unlisted ones are sent besides.

*Membership.* What a handler has still to do is the rest of the list of its kind
(`Shape`), so the call at which it stands tells which calls it has made, and each of
them has left its trace (`Reasons`): a command that is carried out was authorised,
a block by `/ban` or the screening follows a ban that Telegram carried out (`bans`),
although the bot may have been promoted or unbanned since, and who was vouched for at
the start still is, since no command takes a bot off the allow-list. `KickIsNoBan` and
`BannedIsBlocked` speak of a quiet state and are not inductive; `Unkicked` and `Listed` add
the handlers that still owe the unban or the block. Thus no interleaving of any number
of commands breaks them, not only of the two that the run has.

*What is left of the broken promises.* Six runs refute a statement of the
documentation (next section); for four of them theorems say what the code keeps.
`RateBound` holds until a script runs behind a younger stamp (`RateKeptInOrder`).
`ChargedOnce` holds if only NOSCRIPT makes EVALSHA fail, as the code expects
(`ChargedOnceHolds` assumes `~LossyLink`), and without that assumption a call pays for
two tokens at most (`ChargedAtMostTwice`): `Charges` says that a call comes to EVAL
with no run behind it, or with the one whose reply was lost. And although the screening does
not ask the block-list, it admits nobody but whom an administrator has allowed or the
settings trust (`AdmittedForCause`): the allow-list has no other writer (`AllowedForCause`),
and a handler that stands at the check and has then only to report has passed it
(`OnlyAdmits`). For `chain_eager` `PromptChainsBounded` plays this part; for
`members_unscreened` the run `members` does, with `ReportedScreened`.

Every safety property of the passing runs is a theorem. Only model-checked is
liveness (`ClosesAgain`, `ReportedScreened`), which is beyond this prover.

## Where the code and its documentation disagree

Each of the first six is a run whose counterexample is the disagreement.

1. `bucket_double_credit`: `now_ms` is sampled before the script is sent, and the
   script stores it even when it is older than the stored `ts`
   (`rate_limiter.py:61,107`). Two tasks whose scripts run in the other order have
   the same interval credited twice, so more tokens than the burst plus
   `rate_per_sec` times the time are handed out. `SkewedRateBound` says by how much.
2. `bucket_lost_reply`: `except Exception` around EVALSHA is meant for NOSCRIPT
   (`rate_limiter.py:113`) but catches a lost reply too; EVAL then takes a second
   token for the same call.
3. `chain_eager`: a reply to a message that is not recorded yet counts as a new
   chain of depth 1 (`depth_tracker.py:54`), and the bot records its own message
   only after it was sent (`handlers/messages.py:40-41`). A peer that replies to nothing
   but the bot's messages, and is fast enough to do so before the record, keeps the
   depth down for ever, against `depth_tracker.py:5-7`.
4. `chain_pair`: every message refreshes the pair key and no caller reads it:
   `pair_timeout_seconds` limits nothing, against `timeout.py:9-11`.
5. `members_admitted`: `on_member` asks only the allow-list, which `/block` and
   `/ban` do not touch; a bot that was allowed and then blocked is admitted again,
   against `allowlist.py:11-12`.
6. `members_unscreened`: with the update types that `__main__.py:9` asks for,
   Telegram does not report that another bot was added, so it is never screened,
   against `chat_member.py:3-5` ("Unknown bots are auto-banned").

Met while modelling, recorded as hazards with a note, not as runs:

- polls, locations, contacts, dice, video notes and service messages have no part
  in the fingerprint (`middleware.py:112`), so two different ones of a sender within
  `dedup_ttl_seconds` count as identical, humans' included, against `dedup.py:3` and
  `README.md:19`; `ListedIdentical` says that the others are spared;
- the comment "long enough to refill from empty" (`rate_limiter.py:103`) is wrong
  for rates below 0.005/s, which `config.py` permits; see *Proofs*;
- an exception in the guard does not stop the update: it fails open for that
  message (`handlers/guard.py:24`; `BarredStaysOut` says that it is only that one);
- dedup precedes limiter and breaker: a copy sent after `retry_after_ms` is
  dropped although the first was never handled, and a flood of copies is never
  counted by the breaker (`middleware.py:131`);
- a message after the conversation key expired creates it again
  (`middleware.py:170`, against `timeout.py:6-8`);
- `/mute` of a bot that is not on the allow-list is reported as a change to
  RESTRICTED, for which the screening bans it (`chat_member.py:25`);
- a bot that is added as an administrator is never screened (`chat_member.py:25`),
  and no ban of it would be carried out;
- an `/allow` that runs after the screening has asked for it is overruled: the bot is
  banned and blocked though it is on the allow-list (`chat_member.py:30`);
- `/kick` undoes a concurrent `/ban` by its `unban_member` (`admin.py:61`); the
  block-list still names the target (`BannedIsBlocked`);
- if the second call of a `/kick` fails, the target stays banned, and no list says so;
- a crash between `trip` and the audit event leaves a cooldown that nobody hears of
  (`middleware.py:153`);
- a message without a sender passes before the chat allow-list is asked
  (`middleware.py:86`);
- the target's token is spent even if the global limit refuses
  (`middleware.py:213`), so the wait that is told may end in the next refusal;
  `ThreeWaits` bounds how often;
- the told wait is a millisecond too short or too long now and then, being computed in
  doubles (`rate_limiter.py:43-58`; `WaitWithinAMillisecond`);
- `.env.example:42` says that trusted bots "may bypass certain limits, never
  dedup/global"; in the code they bypass dedup and nothing else
  (`middleware.py:122`, as `allowlist.py:5-8` says). LoopGuard follows the code.

## Not modelled

- *Settings, logging, Redis client, wiring*: no state that changes; each knob is a
  constant of the module that uses it.
- *Deployment and CI*: they settle what a crash leaves. With the Redis of
  `docker-compose.yml` data survives a restart; the managed Redis of
  `deploy/azure/container-apps/main.bicep` evicts under pressure (a hazard).
- *`remove_allowed`, `pair_active`, `end_pair`*: nobody calls them.
- *The hash of the fingerprint and the key names*: taken to be injective.
- *Two processes with one token*: Telegram refuses the second poller
  (`deploy/azure/README.md:11`).
- *The lock of the audit log*: each append is one step that may fail.

## Plan

Done: the modules above, in the order buckets, breaker, reply chain, guard,
membership, outbound gate; the proofs of each of them.

What is left, the most valuable first:

1. *Guard over its components*: the answers of limiter and breaker are free in
   LoopGuard, those of the two rate limits in ReplyChain. Each is thereby implemented
   by the module that takes the component apart, but no refinement states it. An
   abstract breaker that promises `LaggedBound` and `TripJustified`, refined by
   CircuitBreaker and composed with LoopGuard, would let the two be said of the
   messages that reach the handlers.
2. *Which rounding errors occur*: `hair` allows every run to fall short by a unit. The
   error that a bucket gathers over a long life is taken to stay below it, which the
   doubles would have to be modelled bit by bit to show.
3. *Screening in a chat that is not allowed*: `on_member` does not ask
   `allowed_chat_ids`; Membership has one chat.
4. *Audit log*: the lock, the threaded append and a cancelled `emit`, if an
   ordering property turns out to be worth it.
