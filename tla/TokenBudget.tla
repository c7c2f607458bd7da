----------------------------- MODULE TokenBudget -----------------------------
(***************************************************************************)
(* What a token bucket promises, without Redis, callers or time stamps: a  *)
(* balance of at most Burst units that is refilled at Rate at most for the *)
(* time credited to it and pays Unit for every token it hands out.         *)
(***************************************************************************)
EXTENDS Integers, Sequences

CONSTANTS Burst, Rate, Unit

VARIABLES balance,   \* what may be spent now
          credited,  \* total time for which a refill was credited
          grants     \* the value of `credited' at each token handed out

budget == <<balance, credited, grants>>

Init ==
  /\ balance = Burst
  /\ credited = 0
  /\ grants = <<>>

Refilled(d) == IF balance + Rate * d <= Burst THEN balance + Rate * d ELSE Burst

Decline(d) ==
  /\ balance' \in 0 .. Refilled(d)
  /\ UNCHANGED grants

Grant(d) ==
  /\ Refilled(d) >= Unit
  /\ balance' \in 0 .. Refilled(d) - Unit
  /\ grants' = Append(grants, credited')

\* d is the time this step credits.
Next ==
  \E d \in {credited' - credited} :
    /\ d \in Nat
    /\ credited' = credited + d
    /\ Decline(d) \/ Grant(d)

Spec == Init /\ [][Next]_budget

\* Consecutive tokens i..j fit the burst plus the refill between them.
WindowBound ==
  \A i, j \in DOMAIN grants :
    i <= j => (j - i + 1) * Unit <= Burst + Rate * (grants[j] - grants[i])
=============================================================================
