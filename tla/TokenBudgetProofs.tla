-------------------------- MODULE TokenBudgetProofs --------------------------
(***************************************************************************)
(* Every window of grants fits the burst plus the refill, for all values   *)
(* of Burst, Rate and Unit.  WindowBound speaks of two past grants; it is  *)
(* inductive together with Solvent, which bounds what each past grant and  *)
(* the present balance leave to be granted next.                           *)
(***************************************************************************)
EXTENDS TokenBudget, TLAPS

\* A premise of every lemma: the abstract bucket is only used with such values.
BudgetParameters == Burst \in Nat /\ Rate \in Nat /\ Unit \in Nat \ {0}

\* k tokens and a balance of b are paid for by the burst and t ms of refill.
Paid(k, b, t) == k * Unit + b <= Burst + Rate * t

BudgetTypeOK ==
  /\ balance \in 0 .. Burst
  /\ credited \in Nat
  /\ grants \in Seq(Nat)
  /\ \A i \in DOMAIN grants : grants[i] <= credited

\* The tokens since grant i, and what may be spent now, were paid for.
Solvent ==
  \A i \in DOMAIN grants : Paid(Len(grants) - i + 1, balance, credited - grants[i])

Windows ==
  \A i, j \in DOMAIN grants : i <= j => Paid(j - i + 1, 0, grants[j] - grants[i])

BudgetInv == BudgetTypeOK /\ Solvent /\ Windows

\* A refill only adds: it is at most Rate * d and never exceeds the burst.
LEMMA RefilledBounds ==
  ASSUME BudgetParameters, balance \in 0 .. Burst, NEW d \in Nat
  PROVE  /\ Refilled(d) \in 0 .. Burst
         /\ Refilled(d) <= balance + Rate * d
<1>1. Rate * d \in Nat
  BY SMT DEF BudgetParameters
<1>. QED
  BY <1>1 DEF Refilled, BudgetParameters

\* What paid for k tokens over t ms still pays after d more ms, with the
\* refill of those d ms on the balance or spent on one token more.
LEMMA RefillPays ==
  ASSUME BudgetParameters,
         NEW k \in Int, NEW t \in Nat, NEW d \in Nat, NEW b \in Nat, NEW b2 \in Nat,
         Paid(k, b, t)
  PROVE  /\ b2 <= b + Rate * d => Paid(k, b2, t + d)
         /\ b2 + Unit <= b + Rate * d => Paid(k + 1, b2, t + d)
<1>1. /\ k * Unit \in Int
      /\ (k + 1) * Unit = k * Unit + Unit
  BY SMT DEF BudgetParameters
<1>2. /\ Rate * t \in Nat
      /\ Rate * d \in Nat
      /\ Rate * (t + d) = Rate * t + Rate * d
  BY SMT DEF BudgetParameters
<1>. DEFINE ku == k * Unit
            k1u == (k + 1) * Unit
            rt == Rate * t
            rd == Rate * d
            rtd == Rate * (t + d)
<1>3. /\ ku \in Int /\ k1u = ku + Unit
      /\ rt \in Nat /\ rd \in Nat /\ rtd = rt + rd
      /\ ku + b <= Burst + rt
  BY <1>1, <1>2 DEF Paid
<1>4. SUFFICES /\ b2 <= b + rd => ku + b2 <= Burst + rtd
               /\ b2 + Unit <= b + rd => k1u + b2 <= Burst + rtd
  BY DEF Paid
<1>. HIDE DEF ku, k1u, rt, rd, rtd
<1>. QED
  BY <1>3 DEF BudgetParameters

\* What is left of a filled balance once a token has been taken from it.
LEMMA TakeOne ==
  ASSUME NEW burst \in Nat, NEW unit \in Nat, NEW old \in Nat, NEW gain \in Nat,
         NEW filled \in 0 .. burst, filled <= old + gain, filled >= unit,
         NEW left \in 0 .. filled - unit
  PROVE  /\ left \in 0 .. burst /\ left \in Nat
         /\ left + unit <= old + gain
         /\ left + unit <= burst
  OBVIOUS

\* The first token is paid by the burst, and a smaller balance needs less.
LEMMA PaidBasics ==
  ASSUME BudgetParameters
  PROVE  /\ \A b \in Nat : b + Unit <= Burst => Paid(1, b, 0)
         /\ \A k \in Int, b \in Nat, t \in Nat : Paid(k, b, t) => Paid(k, 0, t)
<1>1. ASSUME NEW b \in Nat, b + Unit <= Burst
      PROVE  Paid(1, b, 0)
  BY <1>1 DEF Paid, BudgetParameters
<1>2. ASSUME NEW k \in Int, NEW b \in Nat, NEW t \in Nat, Paid(k, b, t)
      PROVE  Paid(k, 0, t)
  <2>1. k * Unit \in Int /\ Rate * t \in Int
    BY SMT DEF BudgetParameters
  <2>. QED
    BY <1>2, <2>1 DEF Paid, BudgetParameters
<1>. QED
  BY <1>1, <1>2

LEMMA BudgetInit ==
  ASSUME BudgetParameters PROVE Init => BudgetInv
  BY DEF Init, BudgetInv, BudgetTypeOK, Solvent, Windows, BudgetParameters

\* A refill without a grant keeps the books balanced.
LEMMA BudgetDecline ==
  ASSUME BudgetParameters, BudgetInv, NEW d \in Nat, credited' = credited + d, Decline(d)
  PROVE  BudgetInv'
<1>1. /\ credited \in Nat /\ credited' \in Nat
      /\ balance \in 0 .. Burst /\ balance \in Nat
  BY DEF BudgetInv, BudgetTypeOK, BudgetParameters
<1>2. balance' \in 0 .. Burst /\ balance' \in Nat /\ balance' <= balance + Rate * d
  BY <1>1, RefilledBounds DEF Decline, BudgetParameters
<1>3. BudgetTypeOK'
  BY <1>1, <1>2 DEF BudgetInv, BudgetTypeOK, Decline
<1>4. Solvent'
  <2>. SUFFICES ASSUME NEW i \in DOMAIN grants
                PROVE  Paid(Len(grants) - i + 1, balance', credited' - grants[i])
    BY DEF Solvent, Decline
  <2>1. /\ grants[i] \in Nat /\ grants[i] <= credited
        /\ Len(grants) - i + 1 \in Int
    BY DEF BudgetInv, BudgetTypeOK
  <2>2. /\ credited - grants[i] \in Nat
        /\ credited' - grants[i] = (credited - grants[i]) + d
    BY <1>1, <2>1
  <2>3. Paid(Len(grants) - i + 1, balance, credited - grants[i])
    BY DEF BudgetInv, Solvent
  <2>4. Paid(Len(grants) - i + 1, balance', (credited - grants[i]) + d)
    BY <1>1, <1>2, <2>1, <2>2, <2>3, RefillPays, Zenon
  <2>. QED
    BY <2>2, <2>4, Zenon
<1>5. Windows'
  BY DEF BudgetInv, Windows, Decline
<1>. QED
  BY <1>3, <1>4, <1>5 DEF BudgetInv

\* A grant is covered by the refilled balance it is taken from.
LEMMA BudgetGrant ==
  ASSUME BudgetParameters, BudgetInv, NEW d \in Nat, credited' = credited + d, Grant(d)
  PROVE  BudgetInv'
<1>. DEFINE n == Len(grants)
<1>1. /\ credited \in Nat /\ credited' \in Nat
      /\ balance \in 0 .. Burst /\ balance \in Nat
      /\ n \in Nat /\ DOMAIN grants = 1 .. n
  BY DEF BudgetInv, BudgetTypeOK, BudgetParameters
<1>2. /\ balance' \in 0 .. Burst
      /\ balance' \in Nat
      /\ balance' + Unit <= balance + Rate * d
      /\ balance' + Unit <= Burst
  <2>1. /\ Refilled(d) \in 0 .. Burst
        /\ Refilled(d) <= balance + Rate * d
    BY <1>1, RefilledBounds
  <2>2. Refilled(d) >= Unit /\ balance' \in 0 .. Refilled(d) - Unit
    BY DEF Grant
  <2>3. Rate * d \in Nat
    BY SMT DEF BudgetParameters
  <2>4. Burst \in Nat /\ Unit \in Nat /\ balance \in Nat
    BY <1>1 DEF BudgetParameters
  <2>. QED
    BY <2>1, <2>2, <2>3, <2>4, TakeOne, Zenon
<1>3. /\ grants' \in Seq(Nat) /\ Len(grants') = n + 1
      /\ DOMAIN grants' = 1 .. n + 1
      /\ grants'[n + 1] = credited'
      /\ \A i \in 1 .. n : grants'[i] = grants[i]
  BY <1>1 DEF BudgetInv, BudgetTypeOK, Grant
<1>4. \A i \in 1 .. n : grants[i] \in Nat /\ grants[i] <= credited
  BY <1>1 DEF BudgetInv, BudgetTypeOK
<1>5. BudgetTypeOK'
  BY <1>1, <1>2, <1>3, <1>4 DEF BudgetTypeOK
<1>6. ASSUME NEW i \in 1 .. n + 1
      PROVE  Paid(n + 1 - i + 1, balance', credited' - grants'[i])
  <2>1. CASE i = n + 1
    <3>1. n + 1 - i + 1 = 1 /\ credited' - grants'[i] = 0
      BY <1>1, <1>3, <2>1
    <3>2. Paid(1, balance', 0)
      BY <1>2, PaidBasics
    <3>. QED
      BY <3>1, <3>2, Zenon
  <2>2. CASE i \in 1 .. n
    <3>1. grants[i] \in Nat /\ grants[i] <= credited /\ grants'[i] = grants[i]
      BY <1>3, <1>4, <2>2
    <3>2. /\ n - i + 1 \in Int
          /\ n + 1 - i + 1 = (n - i + 1) + 1
          /\ credited - grants[i] \in Nat
          /\ credited' - grants'[i] = (credited - grants[i]) + d
      BY <1>1, <2>2, <3>1
    <3>3. Paid(n - i + 1, balance, credited - grants[i])
      BY <1>1, <2>2 DEF BudgetInv, Solvent
    <3>4. Paid((n - i + 1) + 1, balance', (credited - grants[i]) + d)
      BY <1>1, <1>2, <3>2, <3>3, RefillPays, Zenon
    <3>. QED
      BY <3>2, <3>4, Zenon
  <2>. QED
    BY <1>1, <2>1, <2>2
<1>7. Solvent'
  BY <1>3, <1>6 DEF Solvent
<1>8. Windows'
  <2>. SUFFICES ASSUME NEW i \in 1 .. n + 1, NEW j \in 1 .. n + 1, i <= j
                PROVE  Paid(j - i + 1, 0, grants'[j] - grants'[i])
    BY <1>3 DEF Windows
  <2>1. CASE j \in 1 .. n
    <3>1. i \in 1 .. n
      BY <1>1, <2>1
    <3>. QED
      BY <1>1, <1>3, <2>1, <3>1 DEF BudgetInv, Windows
  <2>2. CASE j = n + 1
    <3>1. Paid(j - i + 1, balance', grants'[j] - grants'[i])
      BY <1>3, <1>6, <2>2
    <3>2. j - i + 1 \in Int /\ grants'[j] - grants'[i] \in Nat
      BY <1>1, <1>3, <1>4, <2>2
    <3>. QED
      BY <1>2, <3>1, <3>2, PaidBasics, Zenon
  <2>. QED
    BY <1>1, <2>1, <2>2
<1>. QED
  BY <1>5, <1>7, <1>8 DEF BudgetInv

\* The invariant of the abstract bucket.
LEMMA BudgetNext ==
  ASSUME BudgetParameters PROVE BudgetInv /\ [Next]_budget => BudgetInv'
<1>1. ASSUME BudgetInv, Next
      PROVE  BudgetInv'
  <2>1. PICK d : /\ d \in Nat
                 /\ credited' = credited + d
                 /\ Decline(d) \/ Grant(d)
    BY <1>1 DEF Next
  <2>2. CASE Decline(d)
    BY <1>1, <2>1, <2>2, BudgetDecline
  <2>3. CASE Grant(d)
    BY <1>1, <2>1, <2>3, BudgetGrant
  <2>. QED
    BY <2>1, <2>2, <2>3
<1>2. ASSUME BudgetInv, UNCHANGED budget
      PROVE  BudgetInv'
  BY <1>2 DEF BudgetInv, BudgetTypeOK, Solvent, Windows, budget
<1>. QED
  BY <1>1, <1>2

\* The windows of the invariant are those of the property.
LEMMA WindowsBound ==
  ASSUME BudgetParameters PROVE BudgetInv => WindowBound
<1>. SUFFICES ASSUME BudgetInv, NEW i \in DOMAIN grants, NEW j \in DOMAIN grants, i <= j
              PROVE  (j - i + 1) * Unit <= Burst + Rate * (grants[j] - grants[i])
  BY DEF WindowBound
<1>1. Paid(j - i + 1, 0, grants[j] - grants[i])
  BY DEF BudgetInv, Windows
<1>2. j - i + 1 \in Int
  BY DEF BudgetInv, BudgetTypeOK
<1>3. (j - i + 1) * Unit \in Int
  BY <1>2, SMT DEF BudgetParameters
<1>4. (j - i + 1) * Unit + 0 = (j - i + 1) * Unit
  BY <1>3
<1>. QED
  BY <1>1, <1>4, Zenon DEF Paid

\* Every window of grants fits the burst plus the refill inside it.
THEOREM BudgetSafety ==
  ASSUME BudgetParameters PROVE Spec => []WindowBound
  BY BudgetInit, BudgetNext, WindowsBound, PTL DEF Spec
=============================================================================
