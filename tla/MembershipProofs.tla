-------------------------- MODULE MembershipProofs --------------------------
(***************************************************************************)
(* Proofs about Membership, for any number of tasks and bots, any set of   *)
(* reported bots and any bounds: its types, its safety properties, and     *)
(* what is left of BlockedNotAdmitted.                                     *)
(*                                                                         *)
(* The argument: what a handler has still to do is the rest of the list of *)
(* its kind (Shape), so the call it stands at tells which calls it has     *)
(* made, and each of these has left its trace in the history (Reasons).    *)
(* What the two properties of the quiet state promise is, before all is    *)
(* quiet, still owed by a task that stands at the call in question         *)
(* (Unkicked, Listed).                                                     *)
(***************************************************************************)
EXTENDS Membership, SequenceTheorems, TLAPS

Kind == Command \cup {"screen"}

\* What a handler of kind k may still have to do.
Rest(k) ==
  CASE k = "ban"    -> {<<"get_member", "ban_member", "block", "emit">>,
                        <<"ban_member", "block", "emit">>,
                        <<"block", "emit">>, <<"emit">>}
    [] k = "kick"   -> {<<"get_member", "ban_member", "unban_member", "emit">>,
                        <<"ban_member", "unban_member", "emit">>,
                        <<"unban_member", "emit">>, <<"emit">>}
    [] k = "mute"   -> {<<"get_member", "restrict_member", "emit">>,
                        <<"restrict_member", "emit">>, <<"emit">>}
    [] k = "allow"  -> {<<"get_member", "add_allowed", "unblock", "emit">>,
                        <<"add_allowed", "unblock", "emit">>,
                        <<"unblock", "emit">>, <<"emit">>}
    [] k = "block"  -> {<<"get_member", "block", "emit">>,
                        <<"block", "emit">>, <<"emit">>}
    [] k = "screen" -> {<<"is_allowed", "ban_member", "block", "emit">>,
                        <<"ban_member", "block", "emit">>,
                        <<"block", "emit">>, <<"emit">>}

\* What is left of each list after its next call.
LEMMA Tails ==
  /\ Tail(<<"get_member", "ban_member", "block", "emit">>) = <<"ban_member", "block", "emit">>
  /\ Tail(<<"is_allowed", "ban_member", "block", "emit">>) = <<"ban_member", "block", "emit">>
  /\ Tail(<<"ban_member", "block", "emit">>) = <<"block", "emit">>
  /\ Tail(<<"get_member", "ban_member", "unban_member", "emit">>)
       = <<"ban_member", "unban_member", "emit">>
  /\ Tail(<<"ban_member", "unban_member", "emit">>) = <<"unban_member", "emit">>
  /\ Tail(<<"unban_member", "emit">>) = <<"emit">>
  /\ Tail(<<"get_member", "restrict_member", "emit">>) = <<"restrict_member", "emit">>
  /\ Tail(<<"restrict_member", "emit">>) = <<"emit">>
  /\ Tail(<<"get_member", "add_allowed", "unblock", "emit">>)
       = <<"add_allowed", "unblock", "emit">>
  /\ Tail(<<"add_allowed", "unblock", "emit">>) = <<"unblock", "emit">>
  /\ Tail(<<"unblock", "emit">>) = <<"emit">>
  /\ Tail(<<"get_member", "block", "emit">>) = <<"block", "emit">>
  /\ Tail(<<"block", "emit">>) = <<"emit">>
  /\ Tail(<<"emit">>) = <<>>
  OBVIOUS

LEMMA PrependedToTwo == ASSUME NEW a, NEW b, NEW c PROVE <<a>> \o <<b, c>> = <<a, b, c>>
<1> DEFINE S == {a, b, c}
<1>1. <<a>> \in Seq(S) /\ <<b, c>> \in Seq(S) /\ <<a, b, c>> \in Seq(S)
  OBVIOUS
<1>2. /\ <<a>> \o <<b, c>> \in Seq(S)
      /\ Len(<<a>> \o <<b, c>>) = 3 /\ Len(<<a, b, c>>) = 3
      /\ \A i \in 1 .. 3 : (<<a>> \o <<b, c>>)[i] = <<a, b, c>>[i]
  BY <1>1
<1> HIDE DEF S
<1> QED
  BY <1>1, <1>2, SeqEqual

LEMMA PrependedToThree ==
  ASSUME NEW a, NEW b, NEW c, NEW d
  PROVE  <<a>> \o <<b, c, d>> = <<a, b, c, d>>
<1> DEFINE S == {a, b, c, d}
<1>1. <<a>> \in Seq(S) /\ <<b, c, d>> \in Seq(S) /\ <<a, b, c, d>> \in Seq(S)
  OBVIOUS
<1>2. /\ <<a>> \o <<b, c, d>> \in Seq(S)
      /\ Len(<<a>> \o <<b, c, d>>) = 4 /\ Len(<<a, b, c, d>>) = 4
      /\ \A i \in 1 .. 4 : (<<a>> \o <<b, c, d>>)[i] = <<a, b, c, d>>[i]
  BY <1>1
<1> HIDE DEF S
<1> QED
  BY <1>1, <1>2, SeqEqual

LEMMA Starting ==
  ASSUME NEW k \in Command
  PROVE  /\ <<"get_member">> \o Calls(k) \in Rest(k)
         /\ Head(<<"get_member">> \o Calls(k)) = "get_member"
<1>1. CASE k = "ban"
  BY <1>1, PrependedToThree DEF Calls, Rest
<1>2. CASE k = "kick"
  BY <1>2, PrependedToThree DEF Calls, Rest, KickCalls
<1>3. CASE k = "mute"
  BY <1>3, PrependedToTwo DEF Calls, Rest
<1>4. CASE k = "allow"
  BY <1>4, PrependedToThree DEF Calls, Rest
<1>5. CASE k = "block"
  BY <1>5, PrependedToTwo DEF Calls, Rest
<1> QED
  BY <1>1, <1>2, <1>3, <1>4, <1>5 DEF Command

LEMMA StartingScreen == Calls("screen") \in Rest("screen")
  BY DEF Calls, Rest, ScreenCalls

LEMMA ListsOfCalls ==
  /\ <<"get_member", "ban_member", "block", "emit">> \in Seq(Call)
  /\ <<"is_allowed", "ban_member", "block", "emit">> \in Seq(Call)
  /\ <<"ban_member", "block", "emit">> \in Seq(Call)
  /\ <<"get_member", "ban_member", "unban_member", "emit">> \in Seq(Call)
  /\ <<"ban_member", "unban_member", "emit">> \in Seq(Call)
  /\ <<"unban_member", "emit">> \in Seq(Call)
  /\ <<"get_member", "restrict_member", "emit">> \in Seq(Call)
  /\ <<"restrict_member", "emit">> \in Seq(Call)
  /\ <<"get_member", "add_allowed", "unblock", "emit">> \in Seq(Call)
  /\ <<"add_allowed", "unblock", "emit">> \in Seq(Call)
  /\ <<"unblock", "emit">> \in Seq(Call)
  /\ <<"get_member", "block", "emit">> \in Seq(Call)
  /\ <<"block", "emit">> \in Seq(Call)
  /\ <<"emit">> \in Seq(Call)
  BY DEF Call

\* What may be left is a list of calls that is not empty, and what is left
\* after the next of them is empty or may be left, too.
LEMMA RestIsCalls ==
  ASSUME NEW k \in Kind, NEW s \in Rest(k)
  PROVE  /\ s \in Seq(Call) /\ s # <<>>
         /\ Tail(s) = <<>> \/ Tail(s) \in Rest(k)
<1>1. CASE k = "ban"
  <2>1. s \in Seq(Call)
    BY <1>1, ListsOfCalls, Zenon DEF Rest
  <2>2. s # <<>>
    BY <1>1 DEF Rest
  <2>3. Tail(s) = <<>> \/ Tail(s) \in Rest(k)
    BY <1>1, Tails DEF Rest
  <2> QED
    BY <2>1, <2>2, <2>3
<1>2. CASE k = "kick"
  <2>1. s \in Seq(Call)
    BY <1>2, ListsOfCalls, Zenon DEF Rest
  <2>2. s # <<>>
    BY <1>2 DEF Rest
  <2>3. Tail(s) = <<>> \/ Tail(s) \in Rest(k)
    BY <1>2, Tails DEF Rest
  <2> QED
    BY <2>1, <2>2, <2>3
<1>3. CASE k = "mute"
  <2>1. s \in Seq(Call)
    BY <1>3, ListsOfCalls, Zenon DEF Rest
  <2>2. s # <<>>
    BY <1>3 DEF Rest
  <2>3. Tail(s) = <<>> \/ Tail(s) \in Rest(k)
    BY <1>3, Tails DEF Rest
  <2> QED
    BY <2>1, <2>2, <2>3
<1>4. CASE k = "allow"
  <2>1. s \in Seq(Call)
    BY <1>4, ListsOfCalls, Zenon DEF Rest
  <2>2. s # <<>>
    BY <1>4 DEF Rest
  <2>3. Tail(s) = <<>> \/ Tail(s) \in Rest(k)
    BY <1>4, Tails DEF Rest
  <2> QED
    BY <2>1, <2>2, <2>3
<1>5. CASE k = "block"
  <2>1. s \in Seq(Call)
    BY <1>5, ListsOfCalls, Zenon DEF Rest
  <2>2. s # <<>>
    BY <1>5 DEF Rest
  <2>3. Tail(s) = <<>> \/ Tail(s) \in Rest(k)
    BY <1>5, Tails DEF Rest
  <2> QED
    BY <2>1, <2>2, <2>3
<1>6. CASE k = "screen"
  <2>1. s \in Seq(Call)
    BY <1>6, ListsOfCalls, Zenon DEF Rest
  <2>2. s # <<>>
    BY <1>6 DEF Rest
  <2>3. Tail(s) = <<>> \/ Tail(s) \in Rest(k)
    BY <1>6, Tails DEF Rest
  <2> QED
    BY <2>1, <2>2, <2>3
<1> QED
  BY <1>1, <1>2, <1>3, <1>4, <1>5, <1>6 DEF Kind, Command

\* What the call that is next says of the kind of the handler.
LEMMA NextCallTells ==
  ASSUME NEW k \in Kind, NEW s \in Rest(k)
  PROVE  /\ Head(s) = "get_member"   => k \in Command
         /\ Head(s) = "is_allowed"   => k = "screen"
         /\ Head(s) = "ban_member"   => k \in {"ban", "kick", "screen"}
         /\ Head(s) = "unban_member" => k = "kick"
         /\ Head(s) = "add_allowed"  => k = "allow"
         /\ Head(s) = "unblock"      => k = "allow"
         /\ Head(s) = "block"        => k \in {"ban", "block", "screen"}
<1>1. CASE k = "ban"
  BY <1>1, Tails DEF Rest, Command
<1>2. CASE k = "kick"
  BY <1>2, Tails DEF Rest, Command
<1>3. CASE k = "mute"
  BY <1>3, Tails DEF Rest, Command
<1>4. CASE k = "allow"
  BY <1>4, Tails DEF Rest, Command
<1>5. CASE k = "block"
  BY <1>5, Tails DEF Rest, Command
<1>6. CASE k = "screen"
  BY <1>6, Tails DEF Rest, Command
<1> QED
  BY <1>1, <1>2, <1>3, <1>4, <1>5, <1>6 DEF Kind, Command

\* What the next call says of the one after it: a command starts with
\* get_member, a ban is followed by the block or by the unban, and the
\* screening bans and blocks only one after the other.
LEMMA CallAfter ==
  ASSUME NEW k \in Kind, NEW s \in Rest(k), Tail(s) # <<>>
  PROVE  /\ Head(Tail(s)) # "get_member"
         /\ k \in {"ban", "screen"} /\ Head(s) = "ban_member" => Head(Tail(s)) = "block"
         /\ k = "kick" /\ Head(s) = "ban_member" => Head(Tail(s)) = "unban_member"
         /\ k = "screen" /\ Head(Tail(s)) = "ban_member" => Head(s) = "is_allowed"
         /\ k \in {"ban", "screen"} /\ Head(Tail(s)) = "block" => Head(s) = "ban_member"
<1>1. CASE k = "ban"
  BY <1>1, Tails DEF Rest
<1>2. CASE k = "kick"
  BY <1>2, Tails DEF Rest
<1>3. CASE k = "mute"
  BY <1>3, Tails DEF Rest
<1>4. CASE k = "allow"
  BY <1>4, Tails DEF Rest
<1>5. CASE k = "block"
  BY <1>5, Tails DEF Rest
<1>6. CASE k = "screen"
  BY <1>6, Tails DEF Rest
<1> QED
  BY <1>1, <1>2, <1>3, <1>4, <1>5, <1>6 DEF Kind, Command

\* A ban is never the last call.
LEMMA BanGoesOn ==
  ASSUME NEW k \in Kind, NEW s \in Rest(k), Head(s) = "ban_member"
  PROVE  Tail(s) # <<>>
<1>1. s \in {<<"ban_member", "block", "emit">>, <<"ban_member", "unban_member", "emit">>}
  <2>1. CASE k = "ban"
    BY <2>1 DEF Rest
  <2>2. CASE k = "kick"
    BY <2>2 DEF Rest
  <2>3. CASE k = "screen"
    BY <2>3 DEF Rest
  <2> QED
    BY <2>1, <2>2, <2>3, NextCallTells
<1>2. <<"block", "emit">> # <<>> /\ <<"unban_member", "emit">> # <<>>
  OBVIOUS
<1> QED
  BY <1>1, <1>2, Tails

LEMMA AfterRefusalIsRest == <<"emit">> \in Rest("screen") /\ Head(<<"emit">>) = "emit"
  BY DEF Rest

-----------------------------------------------------------------------------
(* The inductive invariant *)

Job == [kind : Command \cup {"none", "screen"}, target : Bot, todo : Seq(Call),
        welcome : BOOLEAN]

\* The part of TypeOK that is not about job; nobody bans this bot.
Types ==
  /\ status \in [Bot -> Status] /\ status[Self] # "banned"
  /\ news \subseteq Reported
  /\ allowed \subseteq Bot /\ blocked \subseteq Bot
  /\ commands \in 0 .. MaxCommands
  /\ joins \in 0 .. MaxJoins
  /\ faults \in 0 .. MaxFaults
  /\ issued \subseteq Command \X Bot
  /\ bans \subseteq {"ban", "kick", "screen"} \X (Bot \ {Self})

\* What a handler is to do is the rest of what its kind has to do.
Shape ==
  /\ job \in [Task -> Job]
  /\ \A t \in Task : ~Idle(t) => job[t].kind \in Kind /\ job[t].todo \in Rest(job[t].kind)

\* What handler t has done has left its trace: it carries out a command that
\* was authorised, it blocks whom it has banned, and it does not ban a bot
\* that was vouched for, which is vouched for still.
Reasons(t) ==
  ~Idle(t) =>
    /\ job[t].welcome => /\ job[t].kind = "screen" /\ IsAllowed(job[t].target)
                         /\ Head(job[t].todo) # "ban_member"
    /\ job[t].kind # "screen" /\ Head(job[t].todo) # "get_member"
         => <<job[t].kind, job[t].target>> \in issued
    /\ job[t].kind \in {"ban", "screen"} /\ Head(job[t].todo) = "block"
         => <<job[t].kind, job[t].target>> \in bans

\* Who is banned, but not for good, is about to be unbanned.
Unkicked ==
  faults = 0 =>
    \A b \in Bot : status[b] = "banned" =>
      BannedForGood(b) \/ \E t \in Task : At(t, "unban_member") /\ job[t].target = b

\* Who was banned for good is on the block-list or about to be put there.
Listed ==
  faults = 0 =>
    \A b \in Bot : BannedForGood(b) =>
      \/ b \in blocked \/ <<"allow", b>> \in issued
      \/ \E t \in Task : At(t, "block") /\ job[t].target = b

-----------------------------------------------------------------------------
(* What a step does to the handlers *)

LEMMA NoJobIsJob == MembershipAssumption => NoJob \in Job
<1>1. <<>> \in Seq(Call)
  OBVIOUS
<1> QED
  BY <1>1 DEF NoJob, Job, MembershipAssumption

\* A step of handler t leaves the others alone, and leaves t what it says.
LEMMA DoesJob ==
  ASSUME Shape, NEW t \in Task, ~Idle(t), NEW calls,
         calls = <<>> \/ calls \in Rest(job[t].kind), Does(t, calls)
  PROVE  /\ Shape'
         /\ \A u \in Task \ {t} : job'[u] = job[u]
         /\ calls = <<>> => job'[t] = NoJob
         /\ calls # <<>> => /\ job'[t].kind = job[t].kind
                            /\ job'[t].target = job[t].target
                            /\ job'[t].welcome = job[t].welcome
                            /\ job'[t].todo = calls
                            /\ job'[t] # NoJob
<1>1. CASE calls = <<>>
  <2>1. job' = [job EXCEPT ![t] = NoJob]
    BY <1>1 DEF Does
  <2> QED
    BY <1>1, <2>1, NoJobIsJob, MembershipAssumption DEF Shape, Idle
<1>2. CASE calls # <<>>
  <2>1. job' = [job EXCEPT ![t].todo = calls]
    BY <1>2 DEF Does
  <2>2. calls \in Rest(job[t].kind) /\ job[t].kind \in Kind
    BY <1>2 DEF Shape
  <2>3. calls \in Seq(Call)
    BY <2>2, RestIsCalls
  <2>4. job' \in [Task -> Job]
    BY <2>1, <2>3 DEF Shape, Job
  <2>5. /\ \A u \in Task \ {t} : job'[u] = job[u]
        /\ job'[t].kind = job[t].kind
        /\ job'[t].target = job[t].target
        /\ job'[t].welcome = job[t].welcome
        /\ job'[t].todo = calls
    BY <2>1 DEF Shape, Job
  <2>6. job'[t] # NoJob
    BY <1>2, <2>5 DEF NoJob
  <2>7. Shape'
    BY <2>2, <2>4, <2>5 DEF Shape, Idle
  <2> QED
    BY <1>2, <2>5, <2>6, <2>7
<1> QED
  BY <1>1, <1>2

\* The next call of t is made, and t goes on.
LEMMA GoesOnJob ==
  ASSUME Shape, NEW t \in Task, ~Idle(t), GoesOn(t)
  PROVE  /\ Shape'
         /\ \A u \in Task \ {t} : job'[u] = job[u]
         /\ ~Idle(t)' => /\ job'[t].kind = job[t].kind
                         /\ job'[t].target = job[t].target
                         /\ job'[t].welcome = job[t].welcome
                         /\ job'[t].todo = Tail(job[t].todo)
                         /\ Tail(job[t].todo) # <<>>
         /\ Tail(job[t].todo) # <<>> => ~Idle(t)'
<1>1. Tail(job[t].todo) = <<>> \/ Tail(job[t].todo) \in Rest(job[t].kind)
  BY RestIsCalls DEF Shape
<1>2. Does(t, Tail(job[t].todo))
  BY DEF GoesOn
<1> DEFINE rest == Tail(job[t].todo)
<1>3. rest = <<>> \/ rest \in Rest(job[t].kind)
  BY <1>1
<1>4. Does(t, rest)
  BY <1>2
<1> HIDE DEF rest
<1>5. /\ Shape'
      /\ \A u \in Task \ {t} : job'[u] = job[u]
      /\ rest = <<>> => job'[t] = NoJob
      /\ rest # <<>> => /\ job'[t].kind = job[t].kind
                       /\ job'[t].target = job[t].target
                       /\ job'[t].welcome = job[t].welcome
                       /\ job'[t].todo = rest
                       /\ job'[t] # NoJob
  BY <1>3, <1>4, DoesJob
<1> QED
  BY <1>5 DEF Idle, rest

\* A handler starts.
LEMMA StartsJob ==
  ASSUME Shape, NEW t \in Task, NEW k \in Kind, NEW b \in Bot,
         NEW calls \in Rest(k), Starts(t, k, b, calls)
  PROVE  /\ Shape'
         /\ \A u \in Task \ {t} : job'[u] = job[u]
         /\ job'[t].kind = k /\ job'[t].target = b /\ job'[t].todo = calls
         /\ job'[t].welcome <=> (k = "screen" /\ b \in Trusted \cup allowed)
         /\ ~Idle(t)'
<1> DEFINE w == k = "screen" /\ b \in Trusted \cup allowed
<1>1. job' = [job EXCEPT ![t] = [kind |-> k, target |-> b, todo |-> calls, welcome |-> w]]
  BY DEF Starts
<1>2. w \in BOOLEAN
  OBVIOUS
<1>3. calls \in Seq(Call) /\ calls # <<>>
  BY RestIsCalls
<1>4. k \in Command \cup {"none", "screen"}
  BY DEF Kind
<1> HIDE DEF w
<1>5. [kind |-> k, target |-> b, todo |-> calls, welcome |-> w] \in Job
  BY <1>2, <1>3, <1>4 DEF Job
<1>6. job' \in [Task -> Job] /\ \A u \in Task \ {t} : job'[u] = job[u]
  BY <1>1, <1>5 DEF Shape
<1>7. job'[t] = [kind |-> k, target |-> b, todo |-> calls, welcome |-> w]
  BY <1>1 DEF Shape
<1>8. job'[t].kind = k /\ job'[t].target = b /\ job'[t].todo = calls /\ job'[t].welcome = w
  BY <1>7
<1>9. job'[t] # NoJob
  BY <1>3, <1>8 DEF NoJob
<1>10. Shape'
  BY <1>6, <1>8 DEF Shape, Idle
<1>11. job'[t].welcome <=> (k = "screen" /\ b \in Trusted \cup allowed)
  BY <1>8, Zenon DEF w
<1> QED
  BY <1>6, <1>8, <1>9, <1>10, <1>11, Zenon DEF Idle

-----------------------------------------------------------------------------
(* What keeps each part of the invariant *)

Inv == Types /\ Shape /\ (\A t \in Task : Reasons(t)) /\ Unkicked /\ Listed

\* Traces are never wiped off.
Traced == issued \subseteq issued' /\ bans \subseteq bans' /\ allowed \subseteq allowed'

LEMMA OthersKeepReasons ==
  ASSUME NEW u \in Task, job'[u] = job[u], Traced, Reasons(u)
  PROVE  Reasons(u)'
  BY DEF Reasons, Traced, IsAllowed, Idle

\* A handler that goes on keeps its reasons if each call leaves its trace.
LEMMA GoesOnReasons ==
  ASSUME Shape, Traced, NEW t \in Task, Reasons(t), ~Idle(t), GoesOn(t),
         At(t, "get_member") => <<job[t].kind, job[t].target>> \in issued',
         At(t, "is_allowed") => ~job[t].welcome,
         At(t, "ban_member") => <<job[t].kind, job[t].target>> \in bans'
  PROVE  Reasons(t)'
<1> SUFFICES ASSUME ~Idle(t)'
             PROVE  Reasons(t)'
  BY DEF Reasons
<1>1. /\ job'[t].kind = job[t].kind /\ job'[t].target = job[t].target
      /\ job'[t].welcome = job[t].welcome
      /\ job'[t].todo = Tail(job[t].todo) /\ Tail(job[t].todo) # <<>>
  BY GoesOnJob
<1>2. job[t].kind \in Kind /\ job[t].todo \in Rest(job[t].kind)
  BY DEF Shape
<1>3. job'[t].welcome => /\ job'[t].kind = "screen" /\ IsAllowed(job[t].target)'
                         /\ Head(job'[t].todo) # "ban_member"
  <2> SUFFICES ASSUME job'[t].welcome
               PROVE  /\ job'[t].kind = "screen" /\ IsAllowed(job[t].target)'
                      /\ Head(job'[t].todo) # "ban_member"
    OBVIOUS
  <2>1. job[t].kind = "screen" /\ IsAllowed(job[t].target)
    BY <1>1 DEF Reasons
  <2>2. Head(job[t].todo) # "is_allowed"
    BY <1>1 DEF At
  <2>3. Head(Tail(job[t].todo)) # "ban_member"
    BY <1>1, <1>2, <2>1, <2>2, CallAfter
  <2>4. IsAllowed(job[t].target)'
    BY <1>1, <2>1 DEF IsAllowed, Traced
  <2> QED
    BY <1>1, <2>1, <2>3, <2>4
<1>4. job'[t].kind # "screen" => <<job'[t].kind, job'[t].target>> \in issued'
  BY <1>1 DEF Reasons, At, Traced
<1>5. job'[t].kind \in {"ban", "screen"} /\ Head(job'[t].todo) = "block"
        => <<job'[t].kind, job'[t].target>> \in bans'
  BY <1>1, <1>2, CallAfter DEF At
<1> QED
  BY <1>3, <1>4, <1>5, Zenon DEF Reasons

LEMMA GoingOnKeepsReasons ==
  ASSUME Inv, Traced, NEW t \in Task, ~Idle(t), GoesOn(t),
         At(t, "get_member") => <<job[t].kind, job[t].target>> \in issued',
         At(t, "is_allowed") => ~job[t].welcome,
         At(t, "ban_member") => <<job[t].kind, job[t].target>> \in bans'
  PROVE  \A u \in Task : Reasons(u)'
<1>1. Reasons(t)'
  BY GoesOnReasons DEF Inv
<1>2. \A u \in Task \ {t} : job'[u] = job[u]
  BY GoesOnJob DEF Inv
<1> QED
  BY <1>1, <1>2, OthersKeepReasons DEF Inv

\* Who is banned for a kick has the unban before him.
LEMMA UnkickedKept ==
  ASSUME Inv, Traced, faults' = 0 => faults = 0,
         \A b \in Bot : status'[b] = "banned" =>
           \/ status[b] = "banned"
           \/ BannedForGood(b)'
           \/ \E u \in Task : At(u, "unban_member")' /\ job'[u].target = b,
         \A u \in Task : At(u, "unban_member") =>
           \/ At(u, "unban_member")' /\ job'[u].target = job[u].target
           \/ status'[job[u].target] # "banned"
  PROVE  Unkicked'
<1>1. \A b \in Bot : BannedForGood(b) => BannedForGood(b)'
  BY DEF BannedForGood, Traced
<1> QED
  BY <1>1 DEF Inv, Unkicked

\* A bot that is to be on the block-list is there, or a handler is about to
\* put it there.
LEMMA ListedKept ==
  ASSUME Inv, Traced, faults' = 0 => faults = 0,
         \A b \in Bot : BannedForGood(b)' =>
           BannedForGood(b) \/ \E u \in Task : At(u, "block")' /\ job'[u].target = b,
         \A b \in blocked : b \in blocked' \/ <<"allow", b>> \in issued',
         \A u \in Task : At(u, "block") =>
           \/ At(u, "block")' /\ job'[u].target = job[u].target
           \/ job[u].target \in blocked'
  PROVE  Listed'
  BY DEF Inv, Listed, Traced

-----------------------------------------------------------------------------
(* Types and shape *)

LEMMA AtIsBusy ==
  ASSUME Shape, NEW t \in Task, NEW c, At(t, c)
  PROVE  /\ ~Idle(t) /\ job[t].target \in Bot /\ job[t].welcome \in BOOLEAN
         /\ job[t].kind \in Kind /\ job[t].todo \in Rest(job[t].kind)
         /\ Head(job[t].todo) = c
  BY DEF At, Shape, Job

LEMMA BecomesTypes ==
  ASSUME Types, NEW b \in Bot, NEW s \in Status, s = "banned" => b # Self, Becomes(b, s)
  PROVE  status' \in [Bot -> Status] /\ status'[Self] # "banned" /\ news' \subseteq Reported
<1>1. status' = [status EXCEPT ![b] = s]
  BY DEF Becomes
<1>2. news' \subseteq Reported
  BY DEF Becomes, Types
<1> QED
  BY <1>1, <1>2, MembershipAssumption DEF Types, MembershipAssumption

LEMMA ChatTypes ==
  ASSUME Types, NEW b \in Bot,
         Joins(b) \/ Leaves(b) \/ Promoted(b) \/ Demoted(b) \/ Unmuted(b)
  PROVE  Types'
<1>1. CASE Joins(b)
  BY <1>1, MembershipAssumption
     DEF Joins, Becomes, Types, Status, redis, history, MembershipAssumption
<1>2. CASE Leaves(b)
  BY <1>2 DEF Leaves, Becomes, Types, Status, redis, history, bounds
<1>3. CASE Promoted(b)
  BY <1>3, MembershipAssumption
     DEF Promoted, Becomes, Types, Status, redis, history, MembershipAssumption
<1>4. CASE Demoted(b)
  BY <1>4, MembershipAssumption
     DEF Demoted, Becomes, Types, Status, redis, history, MembershipAssumption
<1>5. CASE Unmuted(b)
  BY <1>5 DEF Unmuted, Types, Status, redis, history, bounds
<1> QED
  BY <1>1, <1>2, <1>3, <1>4, <1>5

LEMMA StepTypes ==
  ASSUME Types, Shape, NEW t \in Task, Step(t)
  PROVE  Types'
<1>1. CASE Authorised(t)
  <2>1. job[t].kind \in Command /\ job[t].target \in Bot
    BY <1>1, AtIsBusy, NextCallTells DEF Authorised
  <2> QED
    BY <1>1, <2>1 DEF Authorised, Types, redis, bounds
<1>2. CASE Refused(t)
  BY <1>2 DEF Refused, Types, redis, bounds, history
<1>3. CASE Admits(t)
  BY <1>3 DEF Admits, Types, redis, bounds, history
<1>4. CASE Suspects(t)
  BY <1>4 DEF Suspects, Types, redis, bounds, history
<1>5. CASE BanMember(t)
  <2>1. job[t].target \in Bot \ {Self} /\ job[t].kind \in {"ban", "kick", "screen"}
    BY <1>5, AtIsBusy, NextCallTells DEF BanMember, Protected
  <2>2. /\ status' \in [Bot -> Status] /\ status'[Self] # "banned" /\ news' \subseteq Reported
        /\ bans' \subseteq {"ban", "kick", "screen"} \X (Bot \ {Self})
    BY <1>5, <2>1 DEF BanMember, Becomes, Types, Status
  <2> QED
    BY <1>5, <2>2 DEF BanMember, Types, redis, bounds
<1>6. CASE BanRefused(t)
  BY <1>6, MembershipAssumption DEF BanRefused, Types, redis, history, MembershipAssumption
<1>7. CASE UnbanMember(t)
  <2>1. job[t].target \in Bot
    BY <1>7, AtIsBusy DEF UnbanMember
  <2>2. status' \in [Bot -> Status] /\ status'[Self] # "banned" /\ news' \subseteq Reported
    BY <1>7, <2>1, BecomesTypes DEF UnbanMember, Types, Status
  <2> QED
    BY <1>7, <2>2 DEF UnbanMember, Types, redis, bounds, history
<1>8. CASE RestrictMember(t)
  <2>1. job[t].target \in Bot
    BY <1>8, AtIsBusy DEF RestrictMember
  <2>2. status' \in [Bot -> Status] /\ status'[Self] # "banned" /\ news' \subseteq Reported
    BY <1>8, <2>1, BecomesTypes DEF RestrictMember, Types, Status
  <2> QED
    BY <1>8, <2>2 DEF RestrictMember, Types, redis, bounds, history
<1>9. CASE AddAllowed(t)
  <2>1. job[t].target \in Bot
    BY <1>9, AtIsBusy DEF AddAllowed
  <2> QED
    BY <1>9, <2>1 DEF AddAllowed, Added, Types, bounds, history
<1>10. CASE Unblock(t)
  BY <1>10 DEF Unblock, Types, bounds, history
<1>11. CASE Block(t)
  <2>1. job[t].target \in Bot
    BY <1>11, AtIsBusy DEF Block
  <2> QED
    BY <1>11, <2>1 DEF Block, Types, bounds, history
<1>12. CASE Emit(t)
  BY <1>12 DEF Emit, Types, redis, bounds, history
<1> QED
  BY <1>1, <1>2, <1>3, <1>4, <1>5, <1>6, <1>7, <1>8, <1>9, <1>10, <1>11, <1>12 DEF Step

\* The handlers of a step keep their shape, and all but t are left alone.
LEMMA StepShape ==
  ASSUME Shape, NEW t \in Task, Step(t)
  PROVE  Shape' /\ \A u \in Task \ {t} : job'[u] = job[u]
<1>1. CASE ~Idle(t) /\ GoesOn(t)
  BY <1>1, GoesOnJob
<1>2. CASE ~Idle(t) /\ Does(t, <<>>)
  BY <1>2, DoesJob
<1>3. CASE ~Idle(t) /\ job[t].kind = "screen" /\ Does(t, <<"emit">>)
  BY <1>3, DoesJob, AfterRefusalIsRest
<1>4. CASE Authorised(t) \/ Suspects(t) \/ BanMember(t)
             \/ AddAllowed(t) \/ Unblock(t) \/ Block(t) \/ Emit(t)
  BY <1>1, <1>4
     DEF Authorised, Suspects, BanMember, AddAllowed, Unblock, Block, Emit, At
<1>5. CASE Refused(t)
  BY <1>2, <1>5 DEF Refused, At
<1>6. CASE RestrictMember(t) \/ UnbanMember(t)
  BY <1>1, <1>2, <1>6 DEF RestrictMember, UnbanMember, At
<1>7. CASE Admits(t)
  <2>1. job[t].kind = "screen" /\ ~Idle(t)
    BY <1>7, AtIsBusy, NextCallTells DEF Admits
  <2> QED
    BY <1>3, <1>7, <2>1 DEF Admits
<1>8. CASE BanRefused(t)
  BY <1>2, <1>3, <1>8 DEF BanRefused, AfterRefusal, At
<1> QED
  BY <1>4, <1>5, <1>6, <1>7, <1>8 DEF Step

-----------------------------------------------------------------------------
(* Each step keeps the invariant *)

\* A task that is to unban or to block is not disturbed by the others.
LEMMA OthersStand ==
  ASSUME NEW t \in Task, \A u \in Task \ {t} : job'[u] = job[u]
  PROVE  \A u \in Task \ {t} :
           /\ At(u, "unban_member") => At(u, "unban_member")' /\ job'[u].target = job[u].target
           /\ At(u, "block") => At(u, "block")' /\ job'[u].target = job[u].target
  BY DEF At, Idle

\* Steps that ban, block and undo nothing.
LEMMA PlainStep ==
  ASSUME Inv, Traced, NEW t \in Task, \A u \in Task \ {t} : job'[u] = job[u],
         faults' = 0 => faults = 0, blocked' = blocked, bans' = bans,
         \A b \in Bot : status'[b] = "banned" => status[b] = "banned",
         ~At(t, "block"),
         At(t, "unban_member") => status'[job[t].target] # "banned"
  PROVE  Unkicked' /\ Listed'
<1>1. \A u \in Task : At(u, "unban_member") =>
        \/ At(u, "unban_member")' /\ job'[u].target = job[u].target
        \/ status'[job[u].target] # "banned"
  BY OthersStand
<1>2. \A u \in Task : At(u, "block") => At(u, "block")' /\ job'[u].target = job[u].target
  BY OthersStand
<1>3. \A b \in Bot : BannedForGood(b)' => BannedForGood(b)
  BY DEF BannedForGood
<1>4. Unkicked'
  BY <1>1, UnkickedKept
<1>5. Listed'
  BY <1>2, <1>3, ListedKept
<1> QED
  BY <1>4, <1>5

LEMMA AuthorisedStep ==
  ASSUME Inv, NEW t \in Task, Authorised(t)
  PROVE  (\A u \in Task : Reasons(u)') /\ Unkicked' /\ Listed'
<1>1. At(t, "get_member") /\ ~Idle(t) /\ GoesOn(t) /\ Traced
  BY DEF Authorised, redis, Traced, At
<1>2. ~At(t, "ban_member") /\ ~At(t, "unban_member") /\ ~At(t, "block") /\ ~At(t, "is_allowed")
  BY <1>1 DEF At
<1>3. \A u \in Task \ {t} : job'[u] = job[u]
  BY <1>1, GoesOnJob DEF Inv
<1>4. /\ status' = status /\ blocked' = blocked /\ bans' = bans /\ faults' = faults
      /\ issued' = issued \cup {<<job[t].kind, job[t].target>>}
  BY DEF Authorised, redis, bounds
<1>5. \A u \in Task : Reasons(u)'
  BY <1>1, <1>2, <1>4, GoingOnKeepsReasons
<1> QED
  BY <1>1, <1>2, <1>3, <1>4, <1>5, PlainStep

LEMMA BanMemberStep ==
  ASSUME Inv, NEW t \in Task, BanMember(t)
  PROVE  (\A u \in Task : Reasons(u)') /\ Unkicked' /\ Listed'
<1>1. At(t, "ban_member") /\ ~Idle(t) /\ GoesOn(t)
  BY DEF BanMember, At
<1>2. /\ job[t].kind \in {"ban", "kick", "screen"} /\ job[t].kind \in Kind
      /\ job[t].todo \in Rest(job[t].kind) /\ job[t].target \in Bot
      /\ Head(job[t].todo) = "ban_member"
  BY <1>1, AtIsBusy, NextCallTells DEF Inv
<1>3. /\ blocked' = blocked /\ allowed' = allowed /\ faults' = faults /\ issued' = issued
      /\ bans' = bans \cup {<<job[t].kind, job[t].target>>}
      /\ status' = [status EXCEPT ![job[t].target] = "banned"]
  BY DEF BanMember, Becomes, redis, bounds
<1>4. Traced
  BY <1>3 DEF Traced
<1>5. \A u \in Task \ {t} : job'[u] = job[u]
  BY <1>1, GoesOnJob DEF Inv
<1>6. \A u \in Task : Reasons(u)'
  BY <1>1, <1>2, <1>3, <1>4, GoingOnKeepsReasons DEF At
<1>7. Tail(job[t].todo) # <<>>
  BY <1>2, BanGoesOn
<1>8. /\ ~Idle(t)' /\ job'[t].target = job[t].target /\ job'[t].kind = job[t].kind
      /\ job'[t].todo = Tail(job[t].todo)
  BY <1>1, <1>7, GoesOnJob DEF Inv
<1>9. job[t].kind \in {"ban", "screen"} => At(t, "block")'
  BY <1>2, <1>7, <1>8, CallAfter DEF At
<1>10. job[t].kind = "kick" => At(t, "unban_member")'
  BY <1>2, <1>7, <1>8, CallAfter DEF At
<1>11. ASSUME NEW b \in Bot, status'[b] = "banned"
       PROVE  \/ status[b] = "banned"
              \/ BannedForGood(b)'
              \/ \E u \in Task : At(u, "unban_member")' /\ job'[u].target = b
  <2>1. CASE b = job[t].target /\ job[t].kind = "kick"
    BY <1>8, <1>10, <2>1
  <2>2. CASE b = job[t].target /\ job[t].kind # "kick"
    BY <1>2, <1>3, <2>2 DEF BannedForGood
  <2>3. CASE b # job[t].target
    BY <1>3, <1>11, <2>3 DEF Inv, Types
  <2> QED
    BY <2>1, <2>2, <2>3
<1>12. \A u \in Task : At(u, "unban_member") => At(u, "unban_member")' /\ job'[u].target = job[u].target
  BY <1>2, <1>5, OthersStand DEF At
<1>13. Unkicked'
  BY <1>3, <1>4, <1>11, <1>12, UnkickedKept
<1>14. \A u \in Task : At(u, "block") => At(u, "block")' /\ job'[u].target = job[u].target
  BY <1>2, <1>5, OthersStand DEF At
<1>15. \A b \in Bot : BannedForGood(b)' =>
         BannedForGood(b) \/ \E u \in Task : At(u, "block")' /\ job'[u].target = b
  BY <1>3, <1>8, <1>9 DEF BannedForGood
<1>16. Listed'
  BY <1>3, <1>4, <1>14, <1>15, ListedKept
<1> QED
  BY <1>6, <1>13, <1>16

\* The steps of a list.
LEMMA BlockSteps ==
  ASSUME Inv, NEW t \in Task, Block(t) \/ Unblock(t)
  PROVE  (\A u \in Task : Reasons(u)') /\ Unkicked' /\ Listed'
<1>1. /\ ~Idle(t) /\ GoesOn(t) /\ Traced
      /\ At(t, "block") \/ At(t, "unblock")
  BY DEF Block, Unblock, At, bounds, history, Traced
<1>2. /\ job[t].kind \in Kind
      /\ At(t, "unblock") => job[t].kind = "allow"
      /\ ~At(t, "get_member") /\ ~At(t, "is_allowed") /\ ~At(t, "ban_member")
      /\ ~At(t, "unban_member")
  BY <1>1, AtIsBusy, NextCallTells DEF Inv, At
<1>3. faults' = faults /\ issued' = issued /\ bans' = bans /\ status' = status
  BY DEF Block, Unblock, bounds, history
<1>4. \A u \in Task \ {t} : job'[u] = job[u]
  BY <1>1, GoesOnJob DEF Inv
<1>5. \A u \in Task : Reasons(u)'
  BY <1>1, <1>2, GoingOnKeepsReasons
<1>6. \A u \in Task : At(u, "unban_member") => At(u, "unban_member")' /\ job'[u].target = job[u].target
  BY <1>2, <1>4, OthersStand
<1>7. Unkicked'
  BY <1>1, <1>3, <1>6, UnkickedKept
<1>8. \A b \in blocked : b \in blocked' \/ <<"allow", b>> \in issued'
  <2>1. CASE Block(t)
    BY <2>1 DEF Block
  <2>2. CASE Unblock(t)
    <3>1. <<"allow", job[t].target>> \in issued
      <4>1. At(t, "unblock")
        BY <2>2 DEF Unblock
      <4> QED
        BY <1>1, <1>2, <4>1 DEF Inv, Reasons, At
    <3> QED
      BY <1>3, <2>2, <3>1 DEF Unblock
  <2> QED
    BY <2>1, <2>2
<1>9. At(t, "block") => job[t].target \in blocked'
  BY <1>1, <1>2 DEF Block, Unblock, At
<1>10. \A u \in Task : At(u, "block") =>
         \/ At(u, "block")' /\ job'[u].target = job[u].target
         \/ job[u].target \in blocked'
  BY <1>4, <1>9, OthersStand
<1>11. \A b \in Bot : BannedForGood(b)' => BannedForGood(b)
  BY <1>3 DEF BannedForGood
<1>12. Listed'
  BY <1>1, <1>3, <1>8, <1>10, <1>11, ListedKept
<1> QED
  BY <1>5, <1>7, <1>12

LEMMA OtherCallSteps ==
  ASSUME Inv, NEW t \in Task, Suspects(t) \/ AddAllowed(t) \/ Emit(t)
  PROVE  (\A u \in Task : Reasons(u)') /\ Unkicked' /\ Listed'
<1>1. /\ ~Idle(t) /\ GoesOn(t) /\ Traced
      /\ At(t, "is_allowed") \/ At(t, "add_allowed") \/ At(t, "emit")
  BY DEF Suspects, AddAllowed, Emit, At, redis, bounds, history, Traced
<1>2. /\ faults' = faults /\ issued' = issued /\ bans' = bans
      /\ status' = status /\ blocked' = blocked
  BY DEF Suspects, AddAllowed, Emit, redis, bounds, history
<1>3. /\ ~At(t, "get_member") /\ ~At(t, "ban_member") /\ ~At(t, "unban_member")
      /\ ~At(t, "block")
  BY <1>1 DEF At
<1>4. At(t, "is_allowed") => ~job[t].welcome
  <2>1. At(t, "is_allowed") => ~IsAllowed(job[t].target)
    BY DEF Suspects, AddAllowed, Emit, At
  <2> QED
    BY <1>1, <2>1 DEF Inv, Reasons
<1>5. \A u \in Task : Reasons(u)'
  BY <1>1, <1>3, <1>4, GoingOnKeepsReasons
<1>6. \A u \in Task \ {t} : job'[u] = job[u]
  BY <1>1, GoesOnJob DEF Inv
<1> QED
  BY <1>1, <1>2, <1>3, <1>5, <1>6, PlainStep

\* A handler that is given up, but not at a ban or by a fault, leaves no trace.
LEMMA GivenUpKeepsReasons ==
  ASSUME Inv, Traced, NEW t \in Task, ~Idle(t), Does(t, <<>>)
  PROVE  \A u \in Task : Reasons(u)'
<1>1. (\A u \in Task \ {t} : job'[u] = job[u]) /\ job'[t] = NoJob
  BY DoesJob DEF Inv
<1>2. Reasons(t)'
  BY <1>1 DEF Reasons, Idle
<1> QED
  BY <1>1, <1>2, OthersKeepReasons DEF Inv

\* After the unban the bot is not banned, whether it was carried out or refused.
LEMMA UnbanMemberStep ==
  ASSUME Inv, NEW t \in Task, UnbanMember(t)
  PROVE  (\A u \in Task : Reasons(u)') /\ Unkicked' /\ Listed'
<1>1. At(t, "unban_member") /\ ~Idle(t) /\ Traced
  BY DEF UnbanMember, At, redis, history, Traced
<1>2. job[t].kind = "kick" /\ job[t].target \in Bot /\ Head(job[t].todo) = "unban_member"
  BY <1>1, AtIsBusy, NextCallTells DEF Inv
<1>3. /\ blocked' = blocked /\ faults' = faults /\ bans' = bans
      /\ ~At(t, "block") /\ ~At(t, "get_member") /\ ~At(t, "is_allowed") /\ ~At(t, "ban_member")
  BY <1>2 DEF UnbanMember, redis, bounds, history, At
<1>4. \A u \in Task \ {t} : job'[u] = job[u]
  BY StepShape DEF Inv, Step
<1>5. \A u \in Task : Reasons(u)'
  <2>1. CASE GoesOn(t)
    BY <1>1, <1>3, <2>1, GoingOnKeepsReasons
  <2>2. CASE Does(t, <<>>)
    BY <1>1, <2>2, GivenUpKeepsReasons
  <2> QED
    BY <2>1, <2>2 DEF UnbanMember
<1>6. /\ \A b \in Bot : status'[b] = "banned" => status[b] = "banned"
      /\ status'[job[t].target] # "banned"
  <2>1. CASE Protected(job[t].target)
    BY <2>1 DEF UnbanMember, Protected, Inv, Types
  <2>2. CASE ~Protected(job[t].target)
    BY <1>2, <2>2 DEF UnbanMember, Becomes, Inv, Types
  <2> QED
    BY <2>1, <2>2
<1> QED
  BY <1>1, <1>3, <1>4, <1>5, <1>6, PlainStep

\* What is left of the screening is its report.
LEMMA ReportOnlyKeepsReasons ==
  ASSUME Inv, Traced, NEW t \in Task, ~Idle(t), job[t].kind = "screen", Does(t, <<"emit">>)
  PROVE  \A u \in Task : Reasons(u)'
<1>1. /\ \A u \in Task \ {t} : job'[u] = job[u]
      /\ job'[t].kind = job[t].kind /\ job'[t].target = job[t].target
      /\ job'[t].welcome = job[t].welcome /\ job'[t].todo = <<"emit">>
  <2>1. <<"emit">> # <<>>
    OBVIOUS
  <2> QED
    BY <2>1, DoesJob, AfterRefusalIsRest DEF Inv
<1>2. job'[t].welcome => IsAllowed(job[t].target)'
  BY <1>1 DEF Inv, Reasons, IsAllowed, Traced
<1>3. Head(job'[t].todo) = "emit"
  BY <1>1
<1>4. Reasons(t)'
  BY <1>1, <1>2, <1>3 DEF Reasons, IsAllowed
<1> QED
  BY <1>1, <1>4, OthersKeepReasons DEF Inv

LEMMA AnsweredSteps ==
  ASSUME Inv, NEW t \in Task, Refused(t) \/ Admits(t) \/ RestrictMember(t)
  PROVE  (\A u \in Task : Reasons(u)') /\ Unkicked' /\ Listed'
<1>1. /\ ~Idle(t) /\ Traced
      /\ At(t, "get_member") \/ At(t, "is_allowed") \/ At(t, "restrict_member")
      /\ faults' = faults /\ issued' = issued /\ bans' = bans /\ blocked' = blocked
  BY DEF Refused, Admits, RestrictMember, At, redis, bounds, history, Traced
<1>2. /\ ~At(t, "ban_member") /\ ~At(t, "unban_member") /\ ~At(t, "block")
  BY <1>1 DEF At
<1>3. \A u \in Task \ {t} : job'[u] = job[u]
  BY StepShape DEF Inv, Step
<1>4. \A b \in Bot : status'[b] = "banned" => status[b] = "banned"
  BY DEF Refused, Admits, RestrictMember, Becomes, Inv, Types
<1>5. \A u \in Task : Reasons(u)'
  <2>1. CASE Does(t, <<>>)
    BY <1>1, <2>1, GivenUpKeepsReasons
  <2>2. CASE Admits(t)
    <3>1. job[t].kind = "screen" /\ Does(t, <<"emit">>)
      BY <2>2, AtIsBusy, NextCallTells DEF Inv, Admits
    <3> QED
      BY <1>1, <3>1, ReportOnlyKeepsReasons
  <2>3. CASE RestrictMember(t) /\ GoesOn(t)
    <3>1. ~At(t, "get_member") /\ ~At(t, "is_allowed")
      BY <2>3 DEF RestrictMember, At
    <3> QED
      BY <1>1, <1>2, <2>3, <3>1, GoingOnKeepsReasons
  <2> QED
    BY <2>1, <2>2, <2>3 DEF Refused, RestrictMember
<1> QED
  BY <1>1, <1>2, <1>3, <1>4, <1>5, PlainStep

\* A refused ban leaves nothing to be done.
LEMMA BanRefusedStep ==
  ASSUME Inv, NEW t \in Task, BanRefused(t)
  PROVE  (\A u \in Task : Reasons(u)') /\ Unkicked' /\ Listed'
<1>1. /\ At(t, "ban_member") /\ ~Idle(t) /\ Traced /\ Does(t, AfterRefusal(t))
      /\ issued' = issued /\ bans' = bans /\ status' = status /\ blocked' = blocked
  BY DEF BanRefused, At, redis, history, Traced
<1>2. faults' = 0 => faults = 0
  BY DEF BanRefused, Inv, Types
<1>3. \A u \in Task \ {t} : job'[u] = job[u]
  BY StepShape DEF Inv, Step
<1>4. \A u \in Task : Reasons(u)'
  <2>1. CASE job[t].kind = "screen"
    BY <1>1, <2>1, ReportOnlyKeepsReasons DEF AfterRefusal
  <2>2. CASE job[t].kind # "screen"
    BY <1>1, <2>2, GivenUpKeepsReasons DEF AfterRefusal
  <2> QED
    BY <2>1, <2>2
<1>5. ~At(t, "unban_member") /\ ~At(t, "block")
  BY <1>1 DEF At
<1> QED
  BY <1>1, <1>2, <1>3, <1>4, <1>5, PlainStep

LEMMA StepKeepsInv ==
  ASSUME Inv, NEW t \in Task, Step(t)
  PROVE  Inv'
<1>1. Types'
  BY StepTypes DEF Inv
<1>2. Shape'
  BY StepShape DEF Inv
<1>3. (\A u \in Task : Reasons(u)') /\ Unkicked' /\ Listed'
  BY AuthorisedStep, BanMemberStep, UnbanMemberStep, BlockSteps, OtherCallSteps,
     AnsweredSteps, BanRefusedStep DEF Step
<1> QED
  BY <1>1, <1>2, <1>3 DEF Inv

\* A fault excuses what is left undone.
LEMMA FailKeepsInv ==
  ASSUME Inv, NEW t \in Task, Fail(t)
  PROVE  Inv'
<1>1. /\ ~Idle(t) /\ Does(t, <<>>) /\ Traced /\ faults' = faults + 1 /\ faults < MaxFaults
      /\ UNCHANGED <<status, news, redis, commands, joins, history>>
  BY DEF Fail, Traced, redis, history
<1>2. Types'
  BY <1>1, MembershipAssumption DEF Inv, Types, redis, history, MembershipAssumption
<1>3. Shape'
  BY <1>1, DoesJob DEF Inv
<1>4. \A u \in Task : Reasons(u)'
  BY <1>1, GivenUpKeepsReasons
<1>5. faults' # 0
  BY <1>1 DEF Inv, Types
<1> QED
  BY <1>2, <1>3, <1>4, <1>5 DEF Inv, Unkicked, Listed

LEMMA CrashKeepsInv ==
  ASSUME Inv, Crash
  PROVE  Inv'
<1>1. /\ job' = [t \in Task |-> NoJob] /\ faults' = faults + 1 /\ faults < MaxFaults
      /\ news' = {} /\ UNCHANGED <<status, redis, commands, joins, history>>
  BY DEF Crash
<1>2. Types'
  BY <1>1, MembershipAssumption DEF Inv, Types, redis, history, MembershipAssumption
<1>3. \A t \in Task : Idle(t)'
  BY <1>1 DEF Idle
<1>4. Shape'
  BY <1>1, <1>3, NoJobIsJob, MembershipAssumption DEF Shape
<1>5. \A t \in Task : Reasons(t)'
  BY <1>3 DEF Reasons
<1>6. faults' # 0
  BY <1>1 DEF Inv, Types
<1> QED
  BY <1>2, <1>4, <1>5, <1>6 DEF Inv, Unkicked, Listed

\* A command or the screening starts: nothing else changes.
LEMMA StartKeepsInv ==
  ASSUME Inv, NEW t \in Task, NEW b \in Bot,
         (\E k \in Command : Commanded(t, k, b)) \/ Reports(t, b)
  PROVE  Inv'
<1>1. PICK k, calls :
        /\ k \in Kind /\ calls \in Rest(k) /\ Starts(t, k, b, calls)
        /\ k # "screen" => calls = <<"get_member">> \o Calls(k)
        /\ k = "screen" => calls = Calls(k)
  <2>1. ASSUME NEW k \in Command, Commanded(t, k, b)
        PROVE  /\ k \in Kind /\ k # "screen" /\ <<"get_member">> \o Calls(k) \in Rest(k)
               /\ Starts(t, k, b, <<"get_member">> \o Calls(k))
    BY <2>1, Starting DEF Commanded, Kind, Command
  <2>2. ASSUME Reports(t, b)
        PROVE  /\ "screen" \in Kind /\ Calls("screen") \in Rest("screen")
               /\ Starts(t, "screen", b, Calls("screen"))
    BY <2>2, StartingScreen DEF Reports, Kind
  <2> QED
    BY <2>1, <2>2
<1>2. /\ Idle(t) /\ status' = status /\ redis' = redis /\ history' = history
      /\ faults' = faults /\ joins' = joins /\ news' \subseteq news /\ Traced
      /\ commands' = commands \/ (commands < MaxCommands /\ commands' = commands + 1)
  BY DEF Commanded, Reports, redis, bounds, history, Traced
<1>3. Types'
  BY <1>2, MembershipAssumption DEF Inv, Types, redis, history, MembershipAssumption
<1>4. /\ Shape' /\ \A u \in Task \ {t} : job'[u] = job[u]
      /\ job'[t].kind = k /\ job'[t].target = b /\ job'[t].todo = calls
      /\ job'[t].welcome <=> (k = "screen" /\ b \in Trusted \cup allowed)
  BY <1>1, StartsJob, Zenon DEF Inv
<1>5. Head(calls) \in {"get_member", "is_allowed"} /\ (k # "screen" => Head(calls) = "get_member")
  <2>1. CASE k = "screen"
    BY <1>1, <2>1 DEF Calls, ScreenCalls
  <2>2. CASE k # "screen"
    <3>1. k \in Command
      BY <1>1, <2>2 DEF Kind
    <3>2. Head(<<"get_member">> \o Calls(k)) = "get_member"
      BY <3>1, Starting, Zenon
    <3> QED
      BY <1>1, <2>2, <3>2
  <2> QED
    BY <2>1, <2>2
<1>6. Reasons(t)'
  BY <1>2, <1>4, <1>5 DEF Reasons, IsAllowed, redis
<1>7. \A u \in Task : Reasons(u)'
  BY <1>2, <1>4, <1>6, OthersKeepReasons DEF Inv
<1>8. ~At(t, "unban_member") /\ ~At(t, "ban_member") /\ ~At(t, "block")
  BY <1>2 DEF At
<1>9. Unkicked' /\ Listed'
  BY <1>2, <1>4, <1>8, PlainStep DEF redis, history
<1> QED
  BY <1>3, <1>4, <1>7, <1>9 DEF Inv

\* Who joins or leaves is not banned, and whose restriction ends is a member.
LEMMA ChatKeepsInv ==
  ASSUME Inv, NEW b \in Bot,
         Joins(b) \/ Leaves(b) \/ Promoted(b) \/ Demoted(b) \/ Unmuted(b)
  PROVE  Inv'
<1>1. /\ job' = job /\ redis' = redis /\ history' = history /\ faults' = faults /\ Traced
      /\ \A c \in Bot : status'[c] = "banned" => status[c] = "banned"
  BY DEF Joins, Leaves, Promoted, Demoted, Unmuted, Becomes, redis, history, bounds, Traced,
         Inv, Types
<1>2. Types'
  BY ChatTypes DEF Inv
<1>3. Shape'
  BY <1>1 DEF Inv, Shape, Idle
<1>4. \A t \in Task : Reasons(t)'
  BY <1>1, OthersKeepReasons DEF Inv
<1>5. \A u \in Task : /\ At(u, "unban_member") => At(u, "unban_member")' /\ job'[u].target = job[u].target
                      /\ At(u, "block") => At(u, "block")' /\ job'[u].target = job[u].target
  BY <1>1 DEF At, Idle
<1>6. Unkicked'
  BY <1>1, <1>5, UnkickedKept
<1>7. Listed'
  BY <1>1, <1>5, ListedKept DEF redis, history, BannedForGood
<1> QED
  BY <1>2, <1>3, <1>4, <1>6, <1>7 DEF Inv

-----------------------------------------------------------------------------
(* The theorems *)

LEMMA InvInitially == Init => Inv
<1> SUFFICES ASSUME Init
             PROVE  Inv
  OBVIOUS
<1>1. Types
  BY MembershipAssumption DEF Init, Types, Status, MembershipAssumption
<1>2. \A t \in Task : Idle(t)
  BY DEF Init, Idle
<1>3. Shape
  BY <1>2, NoJobIsJob, MembershipAssumption DEF Init, Shape
<1>4. (\A t \in Task : Reasons(t)) /\ Unkicked /\ Listed
  BY <1>2 DEF Init, Reasons, Unkicked, Listed, BannedForGood
<1> QED
  BY <1>1, <1>3, <1>4 DEF Inv

LEMMA InvKept == Inv /\ [Next]_vars => Inv'
<1> SUFFICES ASSUME Inv, [Next]_vars
             PROVE  Inv'
  OBVIOUS
<1>1. CASE UNCHANGED vars
  BY <1>1 DEF vars, redis, bounds, history, Inv, Types, Shape, Reasons, Unkicked, Listed,
              BannedForGood, At, Idle, IsAllowed
<1>2. CASE Next
  BY <1>2, StepKeepsInv, FailKeepsInv, CrashKeepsInv, StartKeepsInv, ChatKeepsInv DEF Next
<1> QED
  BY <1>1, <1>2

LEMMA InvAlways == Spec => []Inv
  BY InvInitially, InvKept, PTL DEF Spec

\* The types of the chat, the lists and the handlers (TypeOK of Membership):
\* every handler has some call of its list to make until it is done.
THEOREM TypeCorrect == Spec => []TypeOK
<1>1. Inv => TypeOK
  <2> SUFFICES ASSUME Inv
               PROVE  TypeOK
    OBVIOUS
  <2>1. \A t \in Task : job[t].todo = <<>> <=> job[t] = NoJob
    <3> SUFFICES ASSUME NEW t \in Task
                 PROVE  job[t].todo = <<>> <=> job[t] = NoJob
      OBVIOUS
    <3>1. job[t] = NoJob => job[t].todo = <<>>
      BY DEF NoJob
    <3>2. ~Idle(t) => job[t].todo # <<>>
      BY RestIsCalls DEF Inv, Shape
    <3> QED
      BY <3>1, <3>2 DEF Idle
  <2> QED
    BY <2>1 DEF Inv, Types, Shape, Job, TypeOK
<1> QED
  BY <1>1, InvAlways, PTL

\* The screening does not ban a bot that was trusted or on the allow-list when
\* its change was reported, whatever commands run meanwhile
\* (chat_member.py:29-33): no command takes a bot off the allow-list.
THEOREM WelcomeHolds == Spec => []WelcomeNotBanned
<1>1. Inv => WelcomeNotBanned
  BY DEF Inv, Reasons, WelcomeNotBanned, At
<1> QED
  BY <1>1, InvAlways, PTL

\* However the two calls of /kick interleave with other handlers, who is banned
\* when all is done was the target of /ban or of the screening, if nothing
\* failed (admin.py:60-61).
THEOREM KickHolds == Spec => []KickIsNoBan
<1>1. Inv => KickIsNoBan
  BY DEF Inv, Unkicked, KickIsNoBan, Quiet, At
<1> QED
  BY <1>1, InvAlways, PTL

\* The block-list follows the bans, if nothing failed (admin.py:47-48,
\* chat_member.py:36-43).
THEOREM ListHolds == Spec => []BannedIsBlocked
<1>1. Inv => BannedIsBlocked
  BY DEF Inv, Listed, BannedIsBlocked, Quiet, At
<1> QED
  BY <1>1, InvAlways, PTL

LEMMA CauseKept == Inv /\ BlockedForCause /\ [Next]_vars => BlockedForCause'
<1> SUFFICES ASSUME Inv, BlockedForCause, [Next]_vars
             PROVE  BlockedForCause'
  OBVIOUS
<1>1. issued \subseteq issued' /\ bans \subseteq bans'
  BY DEF Next, Step, vars, redis, bounds, history, Joins, Leaves, Promoted, Demoted, Unmuted,
         Commanded, Reports,
         Authorised, Refused, Admits, Suspects, BanMember, BanRefused, UnbanMember,
         RestrictMember, AddAllowed, Unblock, Block, Emit, Fail, Crash
<1>2. blocked' \subseteq blocked \/ \E t \in Task : Block(t)
  BY DEF Next, Step, vars, redis, bounds, history, Joins, Leaves, Promoted, Demoted, Unmuted,
         Commanded, Reports,
         Authorised, Refused, Admits, Suspects, BanMember, BanRefused, UnbanMember,
         RestrictMember, AddAllowed, Unblock, Emit, Fail, Crash
<1>3. ASSUME NEW t \in Task, Block(t)
      PROVE  LET b == job[t].target
             IN  /\ blocked' = blocked \cup {b}
                 /\ BannedForGood(b) \/ <<"block", b>> \in issued
  <2>1. At(t, "block") /\ blocked' = blocked \cup {job[t].target}
    BY <1>3 DEF Block
  <2>2. job[t].kind \in {"ban", "block", "screen"} /\ ~Idle(t) /\ Head(job[t].todo) = "block"
    BY <2>1, AtIsBusy, NextCallTells DEF Inv
  <2> QED
    BY <2>1, <2>2 DEF Inv, Reasons, BannedForGood
<1>4. ASSUME NEW b \in blocked'
      PROVE  BannedForGood(b)' \/ <<"block", b>> \in issued'
  <2>1. CASE b \in blocked
    BY <1>1, <2>1 DEF BlockedForCause, BannedForGood
  <2>2. CASE b \notin blocked
    BY <1>1, <1>2, <1>3, <1>4, <2>2 DEF BannedForGood
  <2> QED
    BY <2>1, <2>2
<1> QED
  BY <1>4 DEF BlockedForCause

\* A bot is blocked for a cause: an administrator's /ban or /block, or a ban by
\* the screening that Telegram carried out (chat_member.py:36-43).
THEOREM CauseHolds == Spec => []BlockedForCause
<1>1. Init => BlockedForCause
  BY DEF Init, BlockedForCause
<1> QED
  BY <1>1, CauseKept, InvAlways, PTL DEF Spec

-----------------------------------------------------------------------------
(* What is left of BlockedNotAdmitted *)

\* Who is on the allow-list was put there by an authorised /allow.
AllowedForCause == \A b \in allowed : <<"allow", b>> \in issued

LEMMA AllowedKept == Inv /\ AllowedForCause /\ [Next]_vars => AllowedForCause'
<1> SUFFICES ASSUME Inv, AllowedForCause, [Next]_vars
             PROVE  AllowedForCause'
  OBVIOUS
<1>1. issued \subseteq issued'
  BY DEF Next, Step, vars, redis, bounds, history, Joins, Leaves, Promoted, Demoted, Unmuted,
         Commanded, Reports,
         Authorised, Refused, Admits, Suspects, BanMember, BanRefused, UnbanMember,
         RestrictMember, AddAllowed, Unblock, Block, Emit, Fail, Crash
<1>2. allowed' = allowed \/ \E t \in Task : AddAllowed(t)
  BY DEF Next, Step, vars, redis, bounds, history, Joins, Leaves, Promoted, Demoted, Unmuted,
         Commanded, Reports,
         Authorised, Refused, Admits, Suspects, BanMember, BanRefused, UnbanMember,
         RestrictMember, Unblock, Block, Emit, Fail, Crash
<1>3. ASSUME NEW t \in Task, AddAllowed(t)
      PROVE  /\ allowed' = allowed \cup {job[t].target}
             /\ <<"allow", job[t].target>> \in issued
  <2>1. At(t, "add_allowed") /\ allowed' = allowed \cup {job[t].target}
    BY <1>3 DEF AddAllowed, Added
  <2>2. job[t].kind = "allow" /\ ~Idle(t) /\ Head(job[t].todo) = "add_allowed"
    BY <2>1, AtIsBusy, NextCallTells DEF Inv
  <2> QED
    BY <2>1, <2>2 DEF Inv, Reasons
<1> QED
  BY <1>1, <1>2, <1>3 DEF AllowedForCause

\* A handler that stands at the check and has then only to report has admitted.
LEMMA OnlyAdmits ==
  ASSUME Inv, [Next]_vars, NEW t \in Task, At(t, "is_allowed"), job'[t].todo = <<"emit">>
  PROVE  Admits(t)
<1>1. /\ ~Idle(t) /\ job[t].kind = "screen" /\ job[t].todo \in Rest("screen")
      /\ Head(job[t].todo) = "is_allowed"
  BY AtIsBusy, NextCallTells DEF Inv
<1>2. job[t].todo # <<"emit">> /\ Head(<<"emit">>) = "emit" /\ <<"emit">> # <<>>
  BY <1>1
<1>3. job'[t] # job[t] /\ job'[t] # NoJob
  BY <1>2 DEF NoJob
<1>4. Next
  BY <1>3 DEF vars
<1>5. ASSUME NEW b \in Bot,
             Joins(b) \/ Leaves(b) \/ Promoted(b) \/ Demoted(b) \/ Unmuted(b)
      PROVE  FALSE
  BY <1>3, <1>5 DEF Joins, Leaves, Promoted, Demoted, Unmuted
<1>6. ASSUME NEW u \in Task, NEW b \in Bot, (\E k \in Command : Commanded(u, k, b)) \/ Reports(u, b)
      PROVE  FALSE
  <2>1. Idle(u)
    BY <1>6 DEF Commanded, Reports
  <2>2. job'[t] = job[t]
    <3>1. u # t
      BY <1>1, <2>1
    <3>2. PICK r : job' = [job EXCEPT ![u] = r]
      BY <1>6 DEF Commanded, Reports, Starts
    <3> QED
      BY <3>1, <3>2 DEF Inv, Shape
  <2> QED
    BY <1>3, <2>2
<1>7. ~Crash
  BY <1>3 DEF Crash
<1>8. ASSUME NEW u \in Task, Fail(u)
      PROVE  FALSE
  <2>1. ~Idle(u) /\ Does(u, <<>>)
    BY <1>8 DEF Fail
  <2>2. job'[u] = NoJob /\ \A w \in Task \ {u} : job'[w] = job[w]
    BY <2>1, DoesJob DEF Inv
  <2> QED
    BY <1>3, <2>2
<1>9. ~GoesOn(t)
  <2> SUFFICES ASSUME GoesOn(t)
               PROVE  FALSE
    OBVIOUS
  <2>1. job'[t].todo = Tail(job[t].todo)
    BY <1>1, <1>3, GoesOnJob DEF Inv, Idle
  <2>2. job[t].todo = <<"is_allowed", "ban_member", "block", "emit">>
    BY <1>1 DEF Rest
  <2>3. Head(job'[t].todo) = "ban_member"
    BY <2>1, <2>2, Tails
  <2> QED
    BY <1>2, <2>3
<1>10. ASSUME NEW u \in Task, Step(u)
       PROVE  Admits(t)
  <2>1. u = t
    BY <1>3, <1>10, StepShape DEF Inv
  <2>2. Admits(t) \/ Suspects(t)
    BY <1>1, <1>10, <2>1
       DEF Step, Authorised, Refused, BanMember, BanRefused, UnbanMember, RestrictMember,
           AddAllowed, Unblock, Block, Emit, At
  <2> QED
    BY <1>9, <2>2 DEF Suspects
<1> QED
  BY <1>4, <1>5, <1>6, <1>7, <1>8, <1>10 DEF Next

\* The screening asks only the allow-list, so that BlockedNotAdmitted is false.
\* What holds instead: nobody is admitted but whom the settings trust or an
\* administrator has allowed, whatever else runs meanwhile or fails
\* (chat_member.py:29-33, allowlist.py:32-38).
THEOREM AdmittedForCause ==
  Spec => [][\A t \in Task : At(t, "is_allowed") /\ job'[t].todo = <<"emit">>
               => \/ job[t].target \in Trusted
                  \/ <<"allow", job[t].target>> \in issued]_vars
<1> DEFINE Vouched(t) == \/ job[t].target \in Trusted
                         \/ <<"allow", job[t].target>> \in issued
           Admission == \A t \in Task : At(t, "is_allowed") /\ job'[t].todo = <<"emit">>
                                          => Vouched(t)
<1>1. Init => AllowedForCause
  BY DEF Init, AllowedForCause
<1>2. ASSUME Inv, AllowedForCause, [Next]_vars
      PROVE  [Admission]_vars
  <2> SUFFICES ASSUME NEW t \in Task, At(t, "is_allowed"), job'[t].todo = <<"emit">>
               PROVE  Vouched(t)
    OBVIOUS
  <2>1. IsAllowed(job[t].target)
    BY <1>2, OnlyAdmits DEF Admits
  <2> QED
    BY <1>2, <2>1 DEF IsAllowed, AllowedForCause
<1> QED
  BY <1>1, <1>2, AllowedKept, InvAlways, PTL DEF Spec
=============================================================================
