------------------------------ MODULE Membership ------------------------------
(***************************************************************************)
(* Who may be in one chat: the administrators' commands                    *)
(* (handlers/admin.py), the screening of bots that join                    *)
(* (handlers/chat_member.py) and the allow- and block-list in Redis        *)
(* (services/allowlist.py).                                                *)
(*                                                                         *)
(* Every handler runs as a task of its own; each of its awaited calls is a *)
(* step.  The chat belongs to Telegram: of the bots in Reported it tells   *)
(* this bot the changes of status, also those that this bot brought about. *)
(* Which bots these are is settled by the update types that __main__.py:9  *)
(* asks for: with allowed_updates=None Telegram keeps its last setting,    *)
(* which is, unless another program changed it, to report changes of this  *)
(* bot itself and of no other.                                             *)
(***************************************************************************)
EXTENDS Integers, Sequences

CONSTANTS Task,         \* the updates that are handled at once
          Bot,          \* the bots
          Self,         \* this one
          Trusted,      \* trusted_bot_ids
          Reported,     \* the bots whose status changes Telegram reports
          MaxCommands,  \* bound on the administrators' commands
          MaxJoins,     \* bound on the times that bots are added, promoted or
                        \* demoted
          MaxFaults     \* bound on calls that fail and process crashes

ASSUME MembershipAssumption ==
  /\ Self \in Bot /\ Trusted \subseteq Bot /\ Reported \subseteq Bot
  /\ {MaxCommands, MaxJoins, MaxFaults} \subseteq Nat

VARIABLES
  status,     \* of each bot in the chat
  news,       \* the bots with a reported change to MEMBER or RESTRICTED,
              \* the only ones on_member does not return from at once
  allowed,    \* the Redis set of allowed bots
  blocked,    \* the Redis set of blocked bots
  job,        \* what each task handles, and the calls it has still to make;
              \* and, as history, whether its bot was allowed at the start
  commands, joins, faults,
  \* history
  issued,     \* the authorised commands, with their targets
  bans        \* the bans that Telegram carried out, with the handler's kind

redis   == <<allowed, blocked>>
bounds  == <<commands, joins, faults>>
history == <<issued, bans>>
vars    == <<status, news, redis, job, bounds, history>>

Status  == {"left", "member", "restricted", "administrator", "banned"}
Command == {"ban", "kick", "mute", "allow", "block"}
Call    == {"get_member", "ban_member", "unban_member", "restrict_member",
            "add_allowed", "unblock", "block", "is_allowed", "emit"}

NoJob == [kind |-> "none", target |-> Self, todo |-> <<>>, welcome |-> FALSE]

TypeOK ==
  /\ status \in [Bot -> Status]
  /\ news \subseteq Reported
  /\ allowed \subseteq Bot /\ blocked \subseteq Bot
  /\ job \in [Task -> [kind : Command \cup {"none", "screen"}, target : Bot,
                       todo : Seq(Call), welcome : BOOLEAN]]
  /\ \A t \in Task : job[t].todo = <<>> <=> job[t] = NoJob
  /\ commands \in 0 .. MaxCommands
  /\ joins \in 0 .. MaxJoins
  /\ faults \in 0 .. MaxFaults
  /\ issued \subseteq Command \X Bot
  /\ bans \subseteq {"ban", "kick", "screen"} \X (Bot \ {Self})

Init ==
  /\ status = [b \in Bot |-> "left"]
  /\ news = {}
  /\ allowed = {} /\ blocked = {}
  /\ job = [t \in Task |-> NoJob]
  /\ commands = 0 /\ joins = 0 /\ faults = 0
  /\ issued = {} /\ bans = {}

Plain(b)  == status[b] \in {"member", "restricted"}
InChat(b) == Plain(b) \/ status[b] = "administrator"
Idle(t)   == job[t] = NoJob
Quiet     == news = {} /\ \A t \in Task : Idle(t)
At(t, c)  == ~Idle(t) /\ Head(job[t].todo) = c

Starts(t, k, b, calls) ==
  job' = [job EXCEPT ![t] = [kind |-> k, target |-> b, todo |-> calls,
                              welcome |-> k = "screen" /\ b \in Trusted \cup allowed]]
Does(t, calls) ==
  IF calls = <<>> THEN job' = [job EXCEPT ![t] = NoJob]
                  ELSE job' = [job EXCEPT ![t].todo = calls]
GoesOn(t) == Does(t, Tail(job[t].todo))

\* The status of b changes, and Telegram reports it.
Becomes(b, s) ==
  /\ status' = [status EXCEPT ![b] = s]
  /\ news' = IF b \in Reported /\ s \in {"member", "restricted"} /\ status[b] # s
             THEN news \cup {b} ELSE news

-----------------------------------------------------------------------------
(* The chat *)

\* A bot is added to the chat, by whoever may, as one member more or at once as
\* an administrator.
Joins(b) ==
  /\ status[b] = "left" /\ joins < MaxJoins
  /\ joins' = joins + 1
  /\ Becomes(b, "member") \/ Becomes(b, "administrator")
  /\ UNCHANGED <<redis, job, commands, faults, history>>

Leaves(b) ==
  /\ InChat(b)
  /\ Becomes(b, "left")
  /\ UNCHANGED <<redis, job, bounds, history>>

Promoted(b) ==
  /\ Plain(b) /\ joins < MaxJoins
  /\ joins' = joins + 1
  /\ Becomes(b, "administrator")
  /\ UNCHANGED <<redis, job, commands, faults, history>>

Demoted(b) ==
  /\ status[b] = "administrator" /\ joins < MaxJoins
  /\ joins' = joins + 1
  /\ Becomes(b, "member")
  /\ UNCHANGED <<redis, job, commands, faults, history>>

\* A restriction ends; no change is reported.
Unmuted(b) ==
  /\ status[b] = "restricted"
  /\ status' = [status EXCEPT ![b] = "member"]
  /\ UNCHANGED <<news, redis, job, bounds, history>>

-----------------------------------------------------------------------------
(* The handlers *)

KickCallsBanOnly      == <<"ban_member", "emit">>
ScreenCallsUnrecorded == <<"is_allowed", "ban_member", "emit">>

KickCalls   == <<"ban_member", "unban_member", "emit">>
ScreenCalls == <<"is_allowed", "ban_member", "block", "emit">>

\* The calls each handler makes if nothing stops it.
Calls(k) ==
  CASE k = "ban"    -> <<"ban_member", "block", "emit">>
    [] k = "kick"   -> KickCalls
    [] k = "mute"   -> <<"restrict_member", "emit">>
    [] k = "allow"  -> <<"add_allowed", "unblock", "emit">>
    [] k = "block"  -> <<"block", "emit">>
    [] k = "screen" -> ScreenCalls

Commanded(t, k, b) ==
  /\ Idle(t) /\ commands < MaxCommands
  /\ commands' = commands + 1
  /\ Starts(t, k, b, <<"get_member">> \o Calls(k))
  /\ UNCHANGED <<status, news, redis, joins, faults, history>>

\* _is_admin
Authorised(t) ==
  /\ At(t, "get_member")
  /\ GoesOn(t)
  /\ issued' = issued \cup {<<job[t].kind, job[t].target>>}
  /\ UNCHANGED <<status, news, redis, bounds, bans>>

Refused(t) ==
  /\ At(t, "get_member")
  /\ Does(t, <<>>)
  /\ UNCHANGED <<status, news, redis, bounds, history>>

IsAllowedUnlessBlocked(b) == b \notin blocked
IsAllowedByListOnly(b) == b \in allowed
IsAllowed(b) == b \in Trusted \/ b \in allowed

\* on_member is called for a reported change.
Reports(t, b) ==
  /\ Idle(t) /\ b \in news
  /\ news' = news \ {b}
  /\ Starts(t, "screen", b, Calls("screen"))
  /\ UNCHANGED <<status, redis, bounds, history>>

Admits(t) ==
  /\ At(t, "is_allowed")
  /\ IsAllowed(job[t].target)
  /\ Does(t, <<"emit">>)
  /\ UNCHANGED <<status, news, redis, bounds, history>>

Suspects(t) ==
  /\ At(t, "is_allowed")
  /\ ~IsAllowed(job[t].target)
  /\ GoesOn(t)
  /\ UNCHANGED <<status, news, redis, bounds, history>>

\* Telegram lets nobody ban or restrict an administrator, or a bot itself.
Protected(b) == b = Self \/ status[b] = "administrator"

BanMember(t) ==
  /\ At(t, "ban_member") /\ ~Protected(job[t].target)
  /\ Becomes(job[t].target, "banned")
  /\ bans' = bans \cup {<<job[t].kind, job[t].target>>}
  /\ GoesOn(t)
  /\ UNCHANGED <<redis, bounds, issued>>

GoesOnBlocking(t) == Tail(job[t].todo)
AfterRefusal(t)   == IF job[t].kind = "screen" THEN <<"emit">> ELSE <<>>

\* Telegram refuses the ban: on_member reports that, a command is given up.
BanRefused(t) ==
  /\ At(t, "ban_member")
  /\ \/ Protected(job[t].target) /\ UNCHANGED faults
     \/ ~Protected(job[t].target) /\ faults < MaxFaults /\ faults' = faults + 1
  /\ Does(t, AfterRefusal(t))
  /\ UNCHANGED <<status, news, redis, commands, joins, history>>

\* After unban_member the bot is not in the chat and may join again; of one
\* that has become an administrator meanwhile it is refused.
UnbanMember(t) ==
  /\ At(t, "unban_member")
  /\ IF Protected(job[t].target)
     THEN Does(t, <<>>) /\ UNCHANGED <<status, news>>
     ELSE Becomes(job[t].target, "left") /\ GoesOn(t)
  /\ UNCHANGED <<redis, bounds, history>>

\* restrict_member, for an hour; Telegram refuses it of who is not there.
RestrictMember(t) ==
  /\ At(t, "restrict_member")
  /\ IF Plain(job[t].target) /\ ~Protected(job[t].target)
     THEN Becomes(job[t].target, "restricted") /\ GoesOn(t)
     ELSE Does(t, <<>>) /\ UNCHANGED <<status, news>>
  /\ UNCHANGED <<redis, bounds, history>>

AddedChat(t) == "chat"
Added(t)     == job[t].target

AddAllowed(t) ==
  /\ At(t, "add_allowed")
  /\ allowed' = allowed \cup {Added(t)}
  /\ GoesOn(t)
  /\ UNCHANGED <<status, news, blocked, bounds, history>>

Unblock(t) ==
  /\ At(t, "unblock")
  /\ blocked' = blocked \ {job[t].target}
  /\ GoesOn(t)
  /\ UNCHANGED <<status, news, allowed, bounds, history>>

Block(t) ==
  /\ At(t, "block")
  /\ blocked' = blocked \cup {job[t].target}
  /\ GoesOn(t)
  /\ UNCHANGED <<status, news, allowed, bounds, history>>

\* audit.emit; the reply that follows it changes nothing here.
Emit(t) ==
  /\ At(t, "emit")
  /\ GoesOn(t)
  /\ UNCHANGED <<status, news, redis, bounds, history>>

\* Any other call raises: the handler is given up where it is.
Fail(t) ==
  /\ ~Idle(t) /\ ~At(t, "ban_member")
  /\ faults < MaxFaults
  /\ faults' = faults + 1
  /\ Does(t, <<>>)
  /\ UNCHANGED <<status, news, redis, commands, joins, history>>

\* The process stops; the handlers and the updates it has fetched are lost,
\* and those sent meanwhile are dropped at the start.
Crash ==
  /\ faults < MaxFaults
  /\ faults' = faults + 1
  /\ news' = {}
  /\ job' = [t \in Task |-> NoJob]
  /\ UNCHANGED <<status, redis, commands, joins, history>>

Step(t) ==
  \/ Authorised(t)
  \/ Refused(t)
  \/ Admits(t)
  \/ Suspects(t)
  \/ BanMember(t)
  \/ BanRefused(t)
  \/ UnbanMember(t)
  \/ RestrictMember(t)
  \/ AddAllowed(t)
  \/ Unblock(t)
  \/ Block(t)
  \/ Emit(t)

Next ==
  \/ \E b \in Bot : Joins(b) \/ Leaves(b) \/ Promoted(b) \/ Demoted(b) \/ Unmuted(b)
  \/ \E t \in Task : Step(t) \/ Fail(t)
  \/ \E t \in Task, k \in Command, b \in Bot : Commanded(t, k, b)
  \/ \E t \in Task, b \in Bot : Reports(t, b)
  \/ Crash

Spec == Init /\ [][Next]_vars

\* The event loop runs every handler on and takes up every update.
FairSpec ==
  /\ Spec
  /\ \A t \in Task : WF_vars(Step(t))
  /\ \A b \in Bot : WF_vars(\E t \in Task : Reports(t, b))

-----------------------------------------------------------------------------
(* Properties *)

\* A bot that was trusted or on the allow-list when its change was reported is
\* not banned for that change, whatever commands run meanwhile
\* (chat_member.py:3-5,29-33).
WelcomeNotBanned ==
  \A t \in Task : job[t].welcome => ~At(t, "ban_member")

\* Who was banned for good, by /ban or by the screening.
BannedForGood(b) == {<<"ban", b>>, <<"screen", b>>} \cap bans # {}

\* A kick is no ban: when all is done and nothing failed, who is banned was
\* banned by /ban or by the screening, however the two calls of a kick
\* interleave with others (admin.py:60-61).
KickIsNoBan ==
  Quiet /\ faults = 0 => \A b \in Bot : status[b] = "banned" => BannedForGood(b)

\* The block-list follows the bans: when all is done and nothing failed, every
\* bot that /ban or the screening has banned is on it, unless it was the target
\* of /allow, even if a concurrent /kick has undone the ban in the chat
\* (admin.py:47-48,60-61, chat_member.py:36-43).
BannedIsBlocked ==
  Quiet /\ faults = 0
    => \A b \in Bot : BannedForGood(b) => b \in blocked \/ <<"allow", b>> \in issued

\* A bot is blocked for a cause: an administrator's /block, or a ban by /ban or
\* the screening that Telegram carried out, whatever fails and whoever is
\* promoted meanwhile (admin.py:47-48, chat_member.py:36-43).
BlockedForCause ==
  \A b \in blocked : BannedForGood(b) \/ <<"block", b>> \in issued

\* A bot that nobody vouches for and whose joining was reported does not stay
\* as a plain member, as long as nothing fails: it leaves, is banned, is put on
\* the allow-list, or escapes by becoming an administrator (chat_member.py:3-5).
ReportedScreened ==
  \A b \in Bot \ (Trusted \cup {Self}) :
    b \in news /\ Plain(b) ~> ~Plain(b) \/ b \in allowed \/ faults > 0

\* The same of every unknown bot, reported or not: "Unknown bots are
\* auto-banned" (chat_member.py:3-5).
Screened ==
  \A b \in Bot \ (Trusted \cup {Self}) :
    Plain(b) ~> ~Plain(b) \/ b \in allowed \/ faults > 0

\* A bot on the block-list is not welcomed back: it should be kicked on the
\* next encounter (allowlist.py:11-12).
BlockedNotAdmitted ==
  [][\A t \in Task : At(t, "is_allowed") /\ job'[t].todo = <<"emit">>
       => job[t].target \notin blocked]_vars
=============================================================================
