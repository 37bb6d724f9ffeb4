------------------------- MODULE GuestRefundProofs -------------------------
(***************************************************************************)
(* The money of a refund, for every amount, fee and number of commands,    *)
(* payouts, refunds by hand, lost answers, crashes and late failures: what *)
(* is recorded Stripe said succeeded, what is paid out was earned, and the *)
(* guest is told the truth about one refund (GuestRefund), until a retry   *)
(* overtakes a create.                                                     *)
(*                                                                         *)
(* GuestInv adds four parts to IInv of CardRefundProofs.  EarnedInv: the   *)
(* ledger's paid-out sum is that of the payouts kept, and a running start  *)
(* fits below what was earned.  BelongInv: every refund is of a command or *)
(* of staff, and the executor works for the pending command.  RecordInv:   *)
(* refunded_amount is the sum of the refunds recorded, none of them a      *)
(* command's before it is settled.  OneRefundInv, only while no create is  *)
(* overtaken: one refund of the commands stands or is on its way at most,  *)
(* and the pending command, the executor and Stripe mean the same one.     *)
(* Sums are folds of the library; the first section derives what the       *)
(* proofs need of them by induction on the size of the set.                *)
(***************************************************************************)
EXTENDS CardRefundProofs, FiniteSetTheorems, WellFoundedInduction

-----------------------------------------------------------------------------
(* Sums of amounts *)

\* Induction on the naturals, for a set of numbers.
LEMMA NumbersAll ==
  ASSUME NEW N \in SUBSET Nat, 0 \in N, \A n \in N : n + 1 \in N
  PROVE  \A n \in Nat : n \in N
<1> SUFFICES ASSUME Nat \ N # {} PROVE FALSE
  OBVIOUS
<1>1. \E x \in Nat \ N : \A y \in Nat \ N : ~(<<y, x>> \in OpToRel(<, Nat))
  BY NatLessThanWellFounded, WFMin
<1>2. PICK x \in Nat \ N : \A y \in Nat \ N : ~(<<y, x>> \in OpToRel(<, Nat))
  BY <1>1
<1>3. \A y \in Nat \ N : ~(y < x)
  BY <1>2 DEF OpToRel
<1>4. x \in Nat /\ x # 0 BY <1>2
<1>5. x - 1 \in Nat /\ x - 1 < x /\ (x - 1) + 1 = x BY <1>4
<1>6. x - 1 \notin N
  <2> SUFFICES ASSUME x - 1 \in N PROVE FALSE
    OBVIOUS
  <2>1. (x - 1) + 1 \in N OBVIOUS
  <2> QED BY <1>2, <1>5, <2>1
<1> QED BY <1>3, <1>5, <1>6

\* A property of sets that every set inherits from what one element less leaves
\* holds of all subsets of a finite set.
LEMMA SubsetsAll ==
  ASSUME NEW U, IsFiniteSet(U), NEW P,
         \A s \in SUBSET U : (\A x \in s : s \ {x} \in P) => s \in P
  PROVE  \A s \in SUBSET U : s \in P
<1> DEFINE N == {n \in Nat : \A s \in SUBSET U : Cardinality(s) <= n => s \in P}
<1>1. \A s \in SUBSET U : IsFiniteSet(s) /\ Cardinality(s) \in Nat
  BY FS_Subset, FS_CardinalityType
<1>2. 0 \in N
  <2>1. ASSUME NEW s \in SUBSET U, Cardinality(s) <= 0 PROVE s \in P
    <3>1. Cardinality(s) = 0 BY <1>1, <2>1
    <3>2. s = {} BY <1>1, <3>1, FS_EmptySet
    <3> QED BY <3>2
  <2> QED BY <2>1
<1>3. ASSUME NEW n \in N PROVE n + 1 \in N
  <2>1. ASSUME NEW s \in SUBSET U, Cardinality(s) <= n + 1 PROVE s \in P
    <3>1. ASSUME NEW x \in s PROVE s \ {x} \in P
      <4>1. Cardinality(s \ {x}) = Cardinality(s) - 1 BY <1>1, FS_RemoveElement
      <4>2. Cardinality(s \ {x}) <= n BY <1>1, <2>1, <4>1
      <4> QED BY <4>2
    <3> QED BY <3>1
  <2> QED BY <2>1
<1>4. N \in SUBSET Nat OBVIOUS
<1> HIDE DEF N
<1>5. \A n \in Nat : n \in N BY <1>2, <1>3, <1>4, NumbersAll
<1> USE DEF N
<1> TAKE s \in SUBSET U
<1>6. Cardinality(s) \in N BY <1>1, <1>5
<1> QED BY <1>1, <1>6

\* The sum of the amounts of the records r[i].
AmountOf(r, S) == MapThenSumSet(LAMBDA i : r[i].amount, S)

Pick(s) == CHOOSE x \in s : TRUE
SumStep(r, s, it) == IF s = {} THEN 0 ELSE r[Pick(s)].amount + it[s \ {Pick(s)}]
Adds(r, S, it) == it = [s \in SUBSET S |-> SumStep(r, s, it)]

\* What the fold of the library computes.
LEMMA AmountIs ==
  ASSUME NEW r, NEW S
  PROVE  AmountOf(r, S) = (CHOOSE it : Adds(r, S, it))[S]
BY DEF AmountOf, MapThenSumSet, MapThenFoldSet, Adds, SumStep, Pick

LEMMA PickIn ==
  ASSUME NEW s, s # {}
  PROVE  Pick(s) \in s
BY DEF Pick

\* The fold is defined on a finite set.
LEMMA SumExists ==
  ASSUME NEW r, NEW U, IsFiniteSet(U)
  PROVE  \E it : Adds(r, U, it)
<1> DEFINE L(n) == {s \in SUBSET U : Cardinality(s) <= n}
           N == {n \in Nat : \E f : f = [s \in L(n) |-> SumStep(r, s, f)]}
<1>1. \A s \in SUBSET U : IsFiniteSet(s) /\ Cardinality(s) \in Nat
  BY FS_Subset, FS_CardinalityType
<1>2. 0 \in N
  <2> DEFINE f == [s \in L(0) |-> 0]
  <2>1. \A s \in L(0) : s = {} BY <1>1, FS_EmptySet
  <2>2. f = [s \in L(0) |-> SumStep(r, s, f)] BY <2>1 DEF SumStep
  <2> HIDE DEF f
  <2> QED BY <2>2
<1>3. ASSUME NEW n \in N PROVE n + 1 \in N
  <2>1. PICK f : f = [s \in L(n) |-> SumStep(r, s, f)] OBVIOUS
  <2> DEFINE g == [s \in L(n + 1) |-> SumStep(r, s, f)]
  <2>2. ASSUME NEW s \in L(n + 1) PROVE SumStep(r, s, f) = SumStep(r, s, g)
    <3>1. CASE s = {} BY <3>1 DEF SumStep
    <3>2. CASE s # {}
      <4> DEFINE t == s \ {Pick(s)}
      <4>1. Cardinality(t) = Cardinality(s) - 1 /\ t \in SUBSET U
        BY <1>1, <3>2, PickIn, FS_RemoveElement
      <4>2. t \in L(n) /\ t \in L(n + 1) BY <1>1, <4>1
      <4>3. f[t] = SumStep(r, t, f) BY <2>1, <4>2
      <4>4. g[t] = SumStep(r, t, f) BY <4>2
      <4> HIDE DEF g
      <4> QED BY <3>2, <4>3, <4>4 DEF SumStep
    <3> QED BY <3>1, <3>2
  <2>3. g = [s \in L(n + 1) |-> SumStep(r, s, g)] BY <2>2
  <2>4. n + 1 \in Nat OBVIOUS
  <2> HIDE DEF g
  <2> QED BY <2>3, <2>4
<1>4. N \in SUBSET Nat OBVIOUS
<1> HIDE DEF N
<1>5. \A n \in Nat : n \in N BY <1>2, <1>3, <1>4, NumbersAll
<1> USE DEF N
<1>6. Cardinality(U) \in N BY <1>5, FS_CardinalityType
<1>7. L(Cardinality(U)) = SUBSET U BY FS_Subset
<1> QED BY <1>6, <1>7 DEF Adds

\* The folds over a set and over a part of it agree.
LEMMA SumAgrees ==
  ASSUME NEW r, NEW U, IsFiniteSet(U), NEW V \in SUBSET U,
         NEW f, Adds(r, U, f), NEW g, Adds(r, V, g)
  PROVE  f[V] = g[V]
<1> DEFINE P == {s \in SUBSET V : f[s] = g[s]}
<1>1. IsFiniteSet(V) BY FS_Subset
<1>2. ASSUME NEW s \in SUBSET V, \A x \in s : s \ {x} \in P PROVE s \in P
  <2>1. f[s] = SumStep(r, s, f)
    <3>1. f = [u \in SUBSET U |-> SumStep(r, u, f)] BY DEF Adds
    <3>2. s \in SUBSET U OBVIOUS
    <3> QED BY <3>1, <3>2
  <2>2. g[s] = SumStep(r, s, g)
    <3>1. g = [u \in SUBSET V |-> SumStep(r, u, g)] BY DEF Adds
    <3> QED BY <3>1
  <2>3. s # {} => f[s \ {Pick(s)}] = g[s \ {Pick(s)}] BY <1>2, PickIn
  <2> QED BY <2>1, <2>2, <2>3 DEF SumStep
<1> HIDE DEF P
<1>3. \A s \in SUBSET V : s \in P BY <1>1, <1>2, SubsetsAll
<1>4. V \in P BY <1>3
<1> QED BY <1>4 DEF P

\* The sum over a finite set, one element after the other.
LEMMA AmountPeels ==
  ASSUME NEW r, NEW S, IsFiniteSet(S)
  PROVE  /\ S = {} => AmountOf(r, S) = 0
         /\ S # {} => AmountOf(r, S) = r[Pick(S)].amount + AmountOf(r, S \ {Pick(S)})
<1> DEFINE T == S \ {Pick(S)}
           f == CHOOSE it : Adds(r, S, it)
           g == CHOOSE it : Adds(r, T, it)
<1>1. IsFiniteSet(T) BY FS_RemoveElement
<1>2. Adds(r, S, f) BY SumExists
<1>3. Adds(r, T, g) BY <1>1, SumExists
<1>4. AmountOf(r, S) = f[S] /\ AmountOf(r, T) = g[T] BY AmountIs
<1> HIDE DEF f, g
<1>5. f[S] = SumStep(r, S, f)
  <2>1. f = [u \in SUBSET S |-> SumStep(r, u, f)] BY <1>2 DEF Adds
  <2>2. S \in SUBSET S OBVIOUS
  <2> QED BY <2>1, <2>2
<1>6. f[T] = g[T]
  <2>1. T \in SUBSET S OBVIOUS
  <2> HIDE DEF T
  <2> QED BY <1>2, <1>3, <2>1, SumAgrees
<1> QED BY <1>4, <1>5, <1>6 DEF SumStep

Amounts(r, U) == IsFiniteSet(U) /\ \A i \in U : r[i].amount \in Nat

LEMMA AmountNat ==
  ASSUME NEW r, NEW U, Amounts(r, U)
  PROVE  AmountOf(r, U) \in Nat
<1> DEFINE P == {s \in SUBSET U : AmountOf(r, s) \in Nat}
<1>0. IsFiniteSet(U) BY DEF Amounts
<1>1. ASSUME NEW s \in SUBSET U, \A x \in s : s \ {x} \in P PROVE s \in P
  <2>1. IsFiniteSet(s) BY <1>0, FS_Subset
  <2>2. CASE s = {}
    <3>1. AmountOf(r, s) = 0 BY <2>1, <2>2, AmountPeels
    <3> QED BY <3>1
  <2>3. CASE s # {}
    <3>1. Pick(s) \in s /\ r[Pick(s)].amount \in Nat BY <2>3, PickIn DEF Amounts
    <3>2. AmountOf(r, s \ {Pick(s)}) \in Nat BY <1>1, <3>1
    <3> QED BY <2>1, <2>3, <3>1, <3>2, AmountPeels
  <2> QED BY <2>2, <2>3
<1> HIDE DEF P
<1>2. \A s \in SUBSET U : s \in P BY <1>0, <1>1, SubsetsAll
<1>3. U \in P BY <1>2
<1> QED BY <1>3 DEF P

\* Only the amounts of the set's own records count.
LEMMA AmountSame ==
  ASSUME NEW r, NEW q, NEW U, IsFiniteSet(U), \A i \in U : r[i].amount = q[i].amount
  PROVE  AmountOf(r, U) = AmountOf(q, U)
<1> DEFINE P == {s \in SUBSET U : AmountOf(r, s) = AmountOf(q, s)}
<1>1. ASSUME NEW s \in SUBSET U, \A x \in s : s \ {x} \in P PROVE s \in P
  <2>1. IsFiniteSet(s) BY FS_Subset
  <2>2. CASE s = {} BY <2>1, <2>2, AmountPeels
  <2>3. CASE s # {}
    <3>1. Pick(s) \in s /\ r[Pick(s)].amount = q[Pick(s)].amount BY <2>3, PickIn
    <3>2. AmountOf(r, s \ {Pick(s)}) = AmountOf(q, s \ {Pick(s)}) BY <1>1, <3>1
    <3> QED BY <2>1, <2>3, <3>1, <3>2, AmountPeels
  <2> QED BY <2>2, <2>3
<1> HIDE DEF P
<1>2. \A s \in SUBSET U : s \in P BY <1>1, SubsetsAll
<1>3. U \in P BY <1>2
<1> QED BY <1>3 DEF P

\* Whichever element is taken out first, the sum is the same.
LEMMA AmountWithout ==
  ASSUME NEW r, NEW U, Amounts(r, U), NEW y \in U
  PROVE  AmountOf(r, U) = AmountOf(r, U \ {y}) + r[y].amount
<1> DEFINE Splits(s) == \A x \in s : AmountOf(r, s) = AmountOf(r, s \ {x}) + r[x].amount
           P == {s \in SUBSET U : Splits(s)}
<1>0. IsFiniteSet(U) BY DEF Amounts
<1>n. ASSUME NEW s \in SUBSET U PROVE IsFiniteSet(s) /\ AmountOf(r, s) \in Nat
  <2>1. IsFiniteSet(s) BY <1>0, FS_Subset
  <2>2. Amounts(r, s) BY <2>1 DEF Amounts
  <2> QED BY <2>1, <2>2, AmountNat
<1>1. ASSUME NEW s \in SUBSET U, \A x \in s : s \ {x} \in P PROVE s \in P
  <2>1. ASSUME NEW x \in s PROVE AmountOf(r, s) = AmountOf(r, s \ {x}) + r[x].amount
    <3> DEFINE p == Pick(s)
    <3>1. p \in s BY PickIn
    <3>2. AmountOf(r, s) = r[p].amount + AmountOf(r, s \ {p}) BY <1>n, AmountPeels
    <3>3. r[p].amount \in Nat /\ r[x].amount \in Nat BY <3>1 DEF Amounts
    <3> HIDE DEF p
    <3>4. CASE x = p BY <1>n, <3>2, <3>3, <3>4
    <3>5. CASE x # p
      <4>1. AmountOf(r, s \ {p}) = AmountOf(r, (s \ {p}) \ {x}) + r[x].amount
        BY <1>1, <3>1, <3>5
      <4>2. AmountOf(r, s \ {x}) = AmountOf(r, (s \ {x}) \ {p}) + r[p].amount
        BY <1>1, <3>1, <3>5
      <4>3. (s \ {p}) \ {x} = (s \ {x}) \ {p} OBVIOUS
      <4> DEFINE rest == AmountOf(r, (s \ {x}) \ {p})
      <4>4. rest \in Nat BY <1>n
      <4>5. AmountOf(r, s \ {p}) = rest + r[x].amount BY <4>1, <4>3
      <4>6. AmountOf(r, s \ {x}) = rest + r[p].amount BY <4>2
      <4> HIDE DEF rest
      <4> QED BY <3>2, <3>3, <4>4, <4>5, <4>6
    <3> QED BY <3>4, <3>5
  <2> QED BY <2>1
<1> HIDE DEF P
<1>2. \A s \in SUBSET U : s \in P BY <1>0, <1>1, SubsetsAll
<1>3. U \in P BY <1>2
<1> QED BY <1>3 DEF P

\* The sum of a set with a new element.
LEMMA AmountWith ==
  ASSUME NEW r, NEW U, NEW x, x \notin U, Amounts(r, U), r[x].amount \in Nat
  PROVE  AmountOf(r, U \cup {x}) = AmountOf(r, U) + r[x].amount
<1>1. Amounts(r, U \cup {x}) BY FS_AddElement DEF Amounts
<1>2. (U \cup {x}) \ {x} = U OBVIOUS
<1> QED BY <1>1, <1>2, AmountWithout

-----------------------------------------------------------------------------
(* What is paid out and what was earned *)

Kept == {i \in PayoutIds : ~payouts[i].returned}

EarnedInv ==
    /\ ledger.planFeeBack <= payment.refunded
    /\ ledger.paidOut = AmountOf(payouts, Kept)
    /\ ledger.paidOut <= Paid - ChargeFee
    /\ \A i \in PayoutIds : payouts[i].amount = 0 => ~payouts[i].returned
    /\ starting # NoStart =>
           /\ payouts[starting.id].amount = 0
           /\ ledger.paidOut + starting.amount <= Paid - ChargeFee

\* The plan's fee given back for a refund is at most the refund.
LEMMA FeeBackWithin ==
  ASSUME NEW r \in 0 .. Paid
  PROVE  PlanFeeBack(r) \in 0 .. r
<1> USE LedgerAssumption
<1>1. PlanFee \in 0 .. Paid /\ Paid \in Nat \ {0} /\ r \in Nat OBVIOUS
<1>2. PlanFee * r \in Nat /\ PlanFee * r <= Paid * r BY <1>1, Z3
<1>3. (2 * Paid) * (r + 1) = 2 * (Paid * r) + 2 * Paid BY <1>1, Z3
<1>4. Paid * r \in Nat BY <1>1, Z3
<1>5. PlanFee * r * 2 + Paid \in Nat BY <1>1, <1>2
<1>6. PlanFee * r * 2 + Paid < (2 * Paid) * (r + 1)
  <2>1. PlanFee * r * 2 <= 2 * (Paid * r) BY <1>2, <1>4
  <2> QED BY <2>1, <1>1, <1>2, <1>3, <1>4
<1>7. 2 * Paid \in Nat \ {0} BY <1>1
<1> QED BY <1>1, <1>5, <1>6, <1>7, DivBound DEF PlanFeeBack

\* What the payment's own rows leave the hotel is at most what it earned.
LEMMA NetWithin ==
  ASSUME MoneyInv, EarnedInv
  PROVE  Net \in Int /\ Net <= Paid - ChargeFee
<1> USE LedgerAssumption
<1>1. /\ payment.refunded \in 0 .. Paid /\ ledger.taken \in 0 .. Paid
      /\ ledger.planFeeBack \in Nat /\ ledger.disputeFee \in Nat
      /\ stripeDispute.amount \in 0 .. Paid
  BY DEF MoneyInv, PaymentType, LedgerType
<1>2. payment.refunded <= ledger.taken BY <1>1 DEF MoneyInv, TakenExact, Lesser
<1>3. ledger.planFeeBack <= ledger.taken BY <1>1, <1>2 DEF EarnedInv
<1> QED BY <1>1, <1>3 DEF Net

LEMMA PayableWithin ==
  ASSUME MoneyInv, EarnedInv, NEW refundPending \in BOOLEAN, PayableNow(refundPending) > 0
  PROVE  ledger.paidOut + PayableNow(refundPending) <= Paid - ChargeFee
<1> USE LedgerAssumption
<1> DEFINE owed == IF refundPending THEN 0 ELSE Net
           p == owed - ledger.paidOut
<1>1. owed \in Int /\ owed <= Paid - ChargeFee
  <2>1. Net \in Int /\ Net <= Paid - ChargeFee BY NetWithin
  <2>2. CASE refundPending
    <3>1. owed = 0 BY <2>2
    <3> HIDE DEF owed
    <3> QED BY <3>1
  <2>3. CASE ~refundPending
    <3>1. owed = Net BY <2>3
    <3> HIDE DEF owed
    <3> QED BY <2>1, <3>1
  <2> QED BY <2>2, <2>3
<1>2. ledger.paidOut \in Int BY NetInt
<1>3. PayableNow(refundPending) = vayadaPayNow(p) BY DEF PayableNow
<1> HIDE DEF owed
<1>4. p \in Int BY <1>1, <1>2
<1>5. p > 0 /\ vayadaPayNow(p) = p - (p % PayUnit)
  BY <1>3, <1>4 DEF vayadaPayNow
<1>6. p % PayUnit \in Nat BY <1>4
<1> QED BY <1>1, <1>2, <1>3, <1>5, <1>6

LEMMA KeptAmounts == PayoutInv => Amounts(payouts, Kept)
<1> SUFFICES ASSUME PayoutInv PROVE Amounts(payouts, Kept)
  OBVIOUS
<1>1. IsFiniteSet(PayoutIds) BY FS_Interval, LedgerAssumption DEF PayoutIds
<1>2. IsFiniteSet(Kept) BY <1>1, FS_Subset DEF Kept
<1> QED BY <1>2 DEF Amounts, PayoutInv, PayoutType, Kept

\* A step that changes no payout.
LEMMA EarnedKept ==
  ASSUME EarnedInv, UNCHANGED payouts,
         ledger'.paidOut = ledger.paidOut,
         ledger'.planFeeBack <= payment'.refunded,
         starting' \in {starting, NoStart}
  PROVE  EarnedInv'
<1>1. UNCHANGED Kept BY DEF Kept
<1>2. (AmountOf(payouts, Kept))' = AmountOf(payouts, Kept) BY <1>1
<1> QED BY <1>2 DEF EarnedInv

LEMMA EarnedRefund ==
  ASSUME MoneyInv, EarnedInv, NEW amount \in Nat, ApplyCardRefundMoney(amount),
         UNCHANGED payoutVars
  PROVE  EarnedInv'
<1> USE LedgerAssumption
<1> DEFINE r == payment.refunded + amount
           d == disputed
<1>1. /\ payment.refunded \in 0 .. Paid /\ ledger \in LedgerType
      /\ ledger.planFeeBack \in Nat
  BY DEF MoneyInv, PaymentType, LedgerType
<1>2. r \in 0 .. Paid BY <1>1 DEF ApplyCardRefundMoney
<1>3. payment'.refunded = r BY DEF ApplyCardRefundMoney
<1>4. ledger' = [ledger EXCEPT
          !.taken = @ + Positive(Lesser(Paid, r + d) - @),
          !.planFeeBack = @ + Positive(PlanFeeBack(r) - @)]
  BY DEF ApplyCardRefundMoney, LedgerAfterRefund
<1>5. PlanFeeBack(r) \in 0 .. r BY <1>2, FeeBackWithin
<1>6. ledger.planFeeBack <= r BY <1>1 DEF EarnedInv
<1>7. ledger.planFeeBack + Positive(PlanFeeBack(r) - ledger.planFeeBack) <= r
  BY <1>1, <1>2, <1>5, <1>6 DEF Positive
<1>8. /\ ledger'.paidOut = ledger.paidOut
      /\ ledger'.planFeeBack
            = ledger.planFeeBack + Positive(PlanFeeBack(r) - ledger.planFeeBack)
  BY <1>1, <1>4 DEF LedgerType
<1>9. ledger'.planFeeBack <= payment'.refunded BY <1>3, <1>7, <1>8
<1> QED BY <1>8, <1>9, EarnedKept DEF payoutVars

LEMMA EarnedDispute ==
  ASSUME MoneyInv, EarnedInv, RecordCharge \/ DisputeNext, UNCHANGED payoutVars
  PROVE  EarnedInv'
<1>1. ledger \in LedgerType /\ payment \in PaymentType BY DEF MoneyInv
<1>2. /\ payment'.refunded = payment.refunded
      /\ ledger'.paidOut = ledger.paidOut
      /\ ledger'.planFeeBack = ledger.planFeeBack
  <2>1. CASE RecordCharge BY <1>1, <2>1 DEF RecordCharge, LedgerType, PaymentType
  <2>2. CASE StripeWithdraws \/ StripeReinstates
    BY <2>2 DEF StripeWithdraws, StripeReinstates
  <2>3. CASE DisputeWithdrawn
    <3>1. \E t, f : ledger' = [ledger EXCEPT !.taken = t, !.disputeFee = f]
      BY <2>3 DEF DisputeWithdrawn
    <3> QED BY <1>1, <2>3, <3>1 DEF DisputeWithdrawn, LedgerType
  <2>4. CASE DisputeReinstated
    <3>1. \E t, f : ledger' = [ledger EXCEPT !.taken = t, !.disputeFee = f]
      BY <2>4 DEF DisputeReinstated
    <3> QED BY <1>1, <2>4, <3>1 DEF DisputeReinstated, LedgerType
  <2> QED BY <2>1, <2>2, <2>3, <2>4 DEF DisputeNext
<1>3. ledger'.planFeeBack <= payment'.refunded BY <1>2 DEF EarnedInv
<1> QED BY <1>2, <1>3, EarnedKept DEF payoutVars

LEMMA EarnedPayout ==
  ASSUME MoneyInv, PayoutInv, EarnedInv, NEW refundPending \in BOOLEAN, PayoutNext(refundPending)
  PROVE  EarnedInv'
<1> USE LedgerAssumption
<1>0. /\ payouts \in [PayoutIds -> PayoutType] /\ Amounts(payouts, Kept)
      /\ ledger \in LedgerType /\ ledger.paidOut \in Int
  BY KeptAmounts DEF PayoutInv, MoneyInv, LedgerType
<1>1. ASSUME NEW i \in PayoutIds, StartPayout(i, refundPending) PROVE EarnedInv'
  <2>1. starting' = [id |-> i, amount |-> PayableNow(refundPending),
                     destination |-> destination.id]
    BY <1>1 DEF StartPayout
  <2>2. starting'.id = i /\ starting'.amount = PayableNow(refundPending) BY <2>1
  <2>3. ledger.paidOut + starting'.amount <= Paid - ChargeFee
    BY <1>1, <2>2, PayableWithin DEF StartPayout
  <2>4. UNCHANGED <<payouts, ledger, payment>> /\ payouts[i].amount = 0
    BY <1>1 DEF StartPayout, ledgerVars
  <2>5. UNCHANGED Kept BY <2>4 DEF Kept
  <2>6. (AmountOf(payouts, Kept))' = AmountOf(payouts, Kept) BY <2>4, <2>5
  <2> QED BY <2>2, <2>3, <2>4, <2>6 DEF EarnedInv
<1>2. ASSUME NEW i \in PayoutIds, MarkSent(i) PROVE EarnedInv'
  <2>1. /\ payouts' = [payouts EXCEPT ![i].sent = TRUE]
        /\ UNCHANGED <<ledger, payment, starting>>
    BY <1>2 DEF MarkSent, ledgerVars
  <2>2. \A j \in PayoutIds : /\ payouts'[j].amount = payouts[j].amount
                             /\ payouts'[j].returned = payouts[j].returned
    BY <1>0, <2>1 DEF PayoutType
  <2>3. UNCHANGED Kept BY <2>2 DEF Kept
  <2>4. AmountOf(payouts', Kept) = AmountOf(payouts, Kept)
    <3>1. \A j \in Kept : payouts'[j].amount = payouts[j].amount BY <2>2 DEF Kept
    <3>2. IsFiniteSet(Kept) BY <1>0 DEF Amounts
    <3> QED BY <3>1, <3>2, AmountSame
  <2>5. (AmountOf(payouts, Kept))' = AmountOf(payouts, Kept) BY <2>3, <2>4
  <2>6. starting = NoStart BY <1>2 DEF MarkSent
  <2> QED BY <2>1, <2>2, <2>5, <2>6 DEF EarnedInv
<1>3. ASSUME NEW i \in PayoutIds, MarkReturned(i) PROVE EarnedInv'
  <2>1. /\ payouts' = [payouts EXCEPT ![i].returned = TRUE]
        /\ ledger' = [ledger EXCEPT !.paidOut = @ - payouts[i].amount]
        /\ UNCHANGED <<payment, starting>> /\ starting = NoStart
        /\ payouts[i].amount > 0 /\ ~payouts[i].returned
    BY <1>3 DEF MarkReturned
  <2>2. \A j \in PayoutIds : /\ payouts'[j].amount = payouts[j].amount
                             /\ payouts'[j].returned = (j = i \/ payouts[j].returned)
    BY <1>0, <2>1 DEF PayoutType
  <2>3. Kept' = Kept \ {i} /\ i \in Kept BY <2>1, <2>2 DEF Kept
  <2>4. AmountOf(payouts', Kept \ {i}) = AmountOf(payouts, Kept \ {i})
    <3>1. \A j \in Kept \ {i} : payouts'[j].amount = payouts[j].amount BY <2>2 DEF Kept
    <3>2. IsFiniteSet(Kept \ {i}) BY <1>0, FS_RemoveElement DEF Amounts
    <3> QED BY <3>1, <3>2, AmountSame
  <2>5. AmountOf(payouts, Kept) = AmountOf(payouts, Kept \ {i}) + payouts[i].amount
    BY <1>0, <2>3, AmountWithout
  <2>6. Amounts(payouts, Kept \ {i}) BY <1>0, FS_RemoveElement DEF Amounts
  <2>7. AmountOf(payouts, Kept \ {i}) \in Nat BY <2>6, AmountNat
  <2>8. payouts[i].amount \in Nat BY <1>0 DEF PayoutType
  <2>9. /\ ledger'.paidOut = ledger.paidOut - payouts[i].amount
        /\ ledger'.planFeeBack = ledger.planFeeBack
    BY <1>0, <2>1 DEF LedgerType
  <2>10. (AmountOf(payouts, Kept))' = AmountOf(payouts, Kept \ {i}) BY <2>3, <2>4
  <2>11. /\ ledger'.paidOut = AmountOf(payouts, Kept \ {i})
         /\ ledger'.paidOut <= Paid - ChargeFee
    BY <1>0, <2>5, <2>7, <2>8, <2>9 DEF EarnedInv
  <2> QED BY <2>1, <2>2, <2>9, <2>10, <2>11 DEF EarnedInv
<1>4. CASE RecordPayout
  <2> DEFINE i == starting.id
             new == [NoPayout EXCEPT !.amount = starting.amount,
                                     !.destination = starting.destination]
  <2>1. /\ i \in PayoutIds /\ starting.amount \in Nat
        /\ payouts[i].amount = 0 /\ ~payouts[i].returned
        /\ ledger.paidOut + starting.amount <= Paid - ChargeFee
    BY <1>4 DEF RecordPayout, PayoutInv, EarnedInv
  <2>2. new.amount = starting.amount /\ new.returned = FALSE
    BY DEF NoPayout
  <2>3. /\ payouts' = [payouts EXCEPT ![i] = new]
        /\ ledger' = [ledger EXCEPT !.paidOut = @ + starting.amount]
        /\ starting' = NoStart /\ UNCHANGED payment
    BY <1>4 DEF RecordPayout
  <2> HIDE DEF new
  <2>4. /\ \A j \in PayoutIds \ {i} : payouts'[j] = payouts[j]
        /\ payouts'[i].amount = starting.amount /\ ~payouts'[i].returned
    BY <1>0, <2>1, <2>2, <2>3
  <2>5. Kept' = Kept /\ i \in Kept BY <2>1, <2>4 DEF Kept
  <2>6. AmountOf(payouts', Kept \ {i}) = AmountOf(payouts, Kept \ {i})
    <3>1. \A j \in Kept \ {i} : payouts'[j].amount = payouts[j].amount BY <2>4 DEF Kept
    <3>2. IsFiniteSet(Kept \ {i}) BY <1>0, FS_RemoveElement DEF Amounts
    <3> QED BY <3>1, <3>2, AmountSame
  <2>7. AmountOf(payouts, Kept) = AmountOf(payouts, Kept \ {i}) + payouts[i].amount
    BY <1>0, <2>5, AmountWithout
  <2>8. Amounts(payouts', Kept)
    <3>1. \A j \in Kept : payouts'[j].amount \in Nat
      BY <1>0, <2>1, <2>4 DEF Amounts, Kept
    <3> QED BY <1>0, <3>1 DEF Amounts
  <2>9. AmountOf(payouts', Kept) = AmountOf(payouts', Kept \ {i}) + payouts'[i].amount
    BY <2>5, <2>8, AmountWithout
  <2>10. Amounts(payouts, Kept \ {i}) BY <1>0, FS_RemoveElement DEF Amounts
  <2>11. AmountOf(payouts, Kept \ {i}) \in Nat BY <2>10, AmountNat
  <2>12. /\ ledger'.paidOut = ledger.paidOut + starting.amount
         /\ ledger'.planFeeBack = ledger.planFeeBack
    BY <1>0, <2>3 DEF LedgerType
  <2>13. (AmountOf(payouts, Kept))' = AmountOf(payouts', Kept) BY <2>5
  <2>14. ledger'.paidOut = AmountOf(payouts', Kept)
    BY <1>0, <2>1, <2>4, <2>6, <2>7, <2>9, <2>11, <2>12 DEF EarnedInv
  <2>15. \A j \in PayoutIds : payouts'[j].amount = 0 => ~payouts'[j].returned
    BY <2>4 DEF EarnedInv
  <2> QED BY <2>1, <2>3, <2>12, <2>13, <2>14, <2>15 DEF EarnedInv
<1>5. CASE StartLost \/ ReplaceDestination \/ DeleteDestination \/ ApproveDestination
  <2>1. /\ UNCHANGED <<payouts, ledger, payment>>
        /\ starting' \in {starting, NoStart}
    BY <1>5 DEF StartLost, ReplaceDestination, DeleteDestination, ApproveDestination, ledgerVars
  <2>2. ledger'.planFeeBack <= payment'.refunded BY <2>1 DEF EarnedInv
  <2> QED BY <2>1, <2>2, EarnedKept
<1> QED BY <1>1, <1>2, <1>3, <1>4, <1>5 DEF PayoutNext

-----------------------------------------------------------------------------
(* The commands, the executor and Stripe's refunds belong together *)

Used(c) == commands[c].status # "none"
IsLast(c) == c \in Commands /\ Used(c) /\ \A d \in Commands : d > c => ~Used(d)

\* A command follows only failed ones, and asks for what they asked for.
QueueInv ==
    /\ \A c, d \in Commands : c < d /\ Used(d) => commands[c].status = "failed"
    /\ ~canceled => \A c \in Commands : ~Used(c)
    /\ \A c \in Commands : commands[c].waiting => commands[c].status = "pending"
    /\ \A c \in Commands : commands[c].status = "failed" <=> commands[c].why # "none"
    /\ \A c, d \in Commands : Used(c) /\ Used(d) => commands[c].amount = commands[d].amount

\* A refund that staff did not make is a command's, of the command's amount.
OwnerInv ==
    \A i \in DOMAIN refunds : refunds[i].command # Dashboard =>
        /\ Used(refunds[i].command)
        /\ refunds[i].amount = commands[refunds[i].command].amount

\* The executor works for the pending command, commands and executor follow
\* commands' refunds, and what the executor was told of one was true.
WorkInv ==
    /\ \A c \in Commands :
           commands[c].status \in {"pending", "succeeded"} /\ commands[c].refund # 0 =>
               refunds[commands[c].refund].command # Dashboard
    /\ exec # Idle => commands[exec.command].status = "pending" /\ ~commands[exec.command].waiting
    /\ exec.pc = "answered" =>
           /\ refunds[exec.refund].command # Dashboard
           /\ exec.seen = "succeeded" => Arrived(exec.refund)
           /\ exec.seen = "failed" => exec.refund \notin Live

BelongInv == QueueInv /\ OwnerInv /\ WorkInv

LEMMA CommandNumbers == \A c \in Commands : c \in Nat /\ c # 0
  BY RefundAssumption DEF Commands

LEMMA RefundIsOf ==
  ASSUME RefundInv, NEW i \in DOMAIN refunds
  PROVE  /\ refunds[i] \in RefundType
         /\ refunds[i].command # Dashboard => refunds[i].command \in Commands
<1>1. refunds[i] \in RefundType BY DEF RefundInv, StripeInv
<1>2. refunds[i].command \in 0 .. MaxCommands BY <1>1 DEF RefundType
<1> QED BY <1>1, <1>2, RefundAssumption DEF Commands, Dashboard

LEMMA LiveIsLast ==
  ASSUME RefundInv, QueueInv, NEW c \in Commands, commands[c].status \in {"pending", "succeeded"}
  PROVE  IsLast(c)
  BY CommandNumbers DEF QueueInv, IsLast, Used

LEMMA LastIsOne ==
  ASSUME NEW c, NEW d, IsLast(c), IsLast(d)
  PROVE  c = d
  BY CommandNumbers DEF IsLast

\* What the executor works on.
LEMMA Running ==
  ASSUME RefundInv, BelongInv, exec # Idle
  PROVE  /\ exec.command \in Commands /\ IsLast(exec.command)
         /\ commands[exec.command] \in CommandType
         /\ commands[exec.command].status = "pending" /\ ~commands[exec.command].waiting
         /\ commands[exec.command].why = "none"
<1>1. exec.command \in Commands BY DEF RefundInv, ExecInv
<1>2. commands[exec.command].status = "pending" /\ ~commands[exec.command].waiting
  BY DEF BelongInv, WorkInv
<1>3. commands[exec.command].why = "none" BY <1>1, <1>2 DEF BelongInv, QueueInv
<1> QED BY <1>1, <1>2, <1>3, LiveIsLast DEF BelongInv, RefundInv, CommandsInv

-----------------------------------------------------------------------------
(* What a step writes *)

\* The executor's command becomes new, and the executor ends.
Written(new) ==
    /\ exec # Idle /\ exec' = Idle
    /\ commands' = [commands EXCEPT ![exec.command] = new]
    /\ inflight' \subseteq inflight
    /\ UNCHANGED <<canceled, refunds, refusals, overtaken>>
    /\ new.amount = commands[exec.command].amount
    /\ new.waiting <=> new.status = "pending"
    /\ \/ new.status = "failed" /\ new.why = "blocked"
       \/ /\ new.status = "pending" /\ new.why = "none"
          /\ new.refund = commands[exec.command].refund
       \/ /\ new.status = "failed" /\ new.why = "refused"
          /\ exec.pc = "creating" /\ Key(exec.command) \in refusals
       \/ /\ exec.pc = "answered" /\ new.refund = exec.refund
          /\ \/ new.status = "pending" /\ new.why = "none"
             \/ new.status = "failed" /\ new.why = "stripe" /\ exec.seen = "failed"
             \/ new.status = "succeeded" /\ new.why = "none" /\ exec.seen = "succeeded"

LEMMA Writes ==
  ASSUME RefundInv, BelongInv,
         ListBlocks \/ CreateRefused \/ AnswerLost \/ FollowLater \/ FailRefund \/ SettleRefund
  PROVE  \E new \in CommandType : Written(new) /\ (new.status = "succeeded" => SettleRefund)
<1> DEFINE Goal == \E new \in CommandType :
                       Written(new) /\ (new.status = "succeeded" => SettleRefund)
<1>i. Idle.pc = "idle" BY DEF Idle
<1>0. exec # Idle
  BY <1>i DEF ListBlocks, CreateRefused, AnswerLost, FollowLater, FailRefund, SettleRefund
<1>c. PICK c \in Commands : c = exec.command BY <1>0, Running
<1>1. /\ commands[c] \in CommandType
      /\ commands[c].status = "pending" /\ commands[c].waiting = FALSE /\ commands[c].why = "none"
      /\ Attempts(c) \in 0 .. AttemptsCap /\ exec.refund \in Nat
  BY <1>0, <1>c, Running, AttemptsType DEF RefundInv, ExecInv, ExecType, CommandType
<1>2. /\ UNCHANGED <<canceled, refunds, refusals, overtaken>> /\ exec' = Idle
      /\ inflight' \subseteq inflight
  BY DEF ListBlocks, CreateRefused, AnswerLost, FollowLater, FailRefund, SettleRefund,
         ExecutorUnchanged
<1>3. CASE ListBlocks
  <2> DEFINE new == [commands[c] EXCEPT !.status = "failed", !.why = "blocked",
                                        !.attempts = Attempts(c)]
  <2>1. /\ new \in CommandType /\ new.status = "failed" /\ new.why = "blocked"
        /\ new.amount = commands[c].amount /\ new.waiting = FALSE
    BY <1>1 DEF CommandType, Statuses
  <2>2. commands' = [commands EXCEPT ![c] = new] BY <1>3, <1>c DEF ListBlocks
  <2> HIDE DEF new
  <2>3. Written(new) BY <1>0, <1>c, <1>2, <2>1, <2>2 DEF Written
  <2> QED BY <2>1, <2>3
<1>4. ASSUME NEW giveUp \in BOOLEAN, AttemptFails(c, giveUp),
             giveUp => exec.pc = "creating" /\ Key(c) \in refusals
      PROVE  Goal
  <2> DEFINE status == IF giveUp THEN "failed" ELSE commands[c].status
             why == IF giveUp THEN "refused" ELSE commands[c].why
             new == [commands[c] EXCEPT !.attempts = Attempts(c), !.waiting = ~giveUp,
                                        !.status = status, !.why = why]
  <2>1. commands' = [commands EXCEPT ![c] = new] BY <1>4 DEF AttemptFails
  <2>2. /\ status = IF giveUp THEN "failed" ELSE "pending"
        /\ why = IF giveUp THEN "refused" ELSE "none"
    BY <1>1
  <2> HIDE DEF status, why
  <2>3. /\ new \in CommandType /\ new.status = status /\ new.why = why
        /\ new.waiting = ~giveUp
        /\ new.amount = commands[c].amount /\ new.refund = commands[c].refund
    BY <1>1, <2>2 DEF CommandType, Statuses
  <2> HIDE DEF new
  <2>4. CASE giveUp
    <3>1. Written(new) BY <1>0, <1>c, <1>2, <1>4, <2>1, <2>2, <2>3, <2>4 DEF Written
    <3> QED BY <2>2, <2>3, <2>4, <3>1
  <2>5. CASE ~giveUp
    <3>1. Written(new) BY <1>0, <1>c, <1>2, <2>1, <2>2, <2>3, <2>5 DEF Written
    <3> QED BY <2>2, <2>3, <2>5, <3>1
  <2> QED BY <2>4, <2>5
<1>5. CASE CreateRefused
  <2> DEFINE giveUp == commands[c].attempts + 1 >= MAX_ATTEMPTS
  <2>1. giveUp \in BOOLEAN OBVIOUS
  <2>2. exec.pc = "creating" /\ Key(c) \in refusals /\ AttemptFails(c, giveUp)
    BY <1>5, <1>c DEF CreateRefused
  <2> HIDE DEF giveUp
  <2> QED BY <1>4, <2>1, <2>2
<1>6. CASE AnswerLost BY <1>4, <1>6, <1>c DEF AnswerLost
<1>7. CASE FollowLater
  <2> DEFINE new == [commands[c] EXCEPT !.refund = exec.refund, !.attempts = Attempts(c),
                                        !.waiting = TRUE]
  <2>1. /\ new \in CommandType /\ new.status = "pending" /\ new.waiting /\ new.why = "none"
        /\ new.amount = commands[c].amount /\ new.refund = exec.refund
    BY <1>1 DEF CommandType
  <2>2. commands' = [commands EXCEPT ![c] = new] /\ exec.pc = "answered"
    BY <1>7, <1>c DEF FollowLater, KeepRefund
  <2> HIDE DEF new
  <2>3. Written(new) BY <1>0, <1>c, <1>2, <2>1, <2>2 DEF Written
  <2> QED BY <2>1, <2>3
<1>8. CASE FailRefund
  <2> DEFINE new == [commands[c] EXCEPT !.status = "failed", !.why = "stripe",
                                        !.refund = exec.refund]
  <2>1. /\ new \in CommandType /\ new.status = "failed" /\ new.why = "stripe"
        /\ new.amount = commands[c].amount /\ new.waiting = FALSE /\ new.refund = exec.refund
    BY <1>1 DEF CommandType, Statuses
  <2>2. /\ commands' = [commands EXCEPT ![c] = new]
        /\ exec.pc = "answered" /\ exec.seen = "failed"
    BY <1>8, <1>c DEF FailRefund
  <2> HIDE DEF new
  <2>3. Written(new) BY <1>0, <1>c, <1>2, <2>1, <2>2 DEF Written
  <2> QED BY <2>1, <2>3
<1>9. CASE SettleRefund
  <2> DEFINE new == [commands[c] EXCEPT !.status = "succeeded", !.refund = exec.refund]
  <2>1. /\ new \in CommandType /\ new.status = "succeeded" /\ new.why = "none"
        /\ new.amount = commands[c].amount /\ new.waiting = FALSE /\ new.refund = exec.refund
    BY <1>1 DEF CommandType, Statuses
  <2>2. /\ commands' = [commands EXCEPT ![c] = new]
        /\ exec.pc = "answered" /\ exec.seen = "succeeded"
    BY <1>9, <1>c DEF SettleRefund
  <2> HIDE DEF new
  <2>3. Written(new) BY <1>0, <1>c, <1>2, <2>1, <2>2 DEF Written
  <2> QED BY <1>9, <2>1, <2>3
<1> QED BY <1>3, <1>5, <1>6, <1>7, <1>8, <1>9

\* A written command leaves the others and their order alone.
LEMMA WrittenOne ==
  ASSUME RefundInv, BelongInv, NEW new \in CommandType, Written(new)
  PROVE  /\ \A d \in Commands : commands'[d] = IF d = exec.command THEN new ELSE commands[d]
         /\ \A d \in Commands : commands'[d].amount = commands[d].amount
         /\ \A d \in Commands : Used(d)' = Used(d)
         /\ \A d : IsLast(d)' = IsLast(d)
<1>1. \A d \in Commands : commands'[d] = IF d = exec.command THEN new ELSE commands[d]
  BY DEF RefundInv, CommandsInv, Written
<1>2. commands[exec.command].status = "pending" /\ new.status # "none"
  BY Running DEF Written
<1>3. \A d \in Commands : Used(d)' = Used(d) BY <1>1, <1>2 DEF Used
<1>4. \A d : IsLast(d)' = IsLast(d) BY <1>3 DEF IsLast
<1> QED BY <1>1, <1>3, <1>4 DEF Written

\* The wait of a command ends.
LEMMA WaitWrites ==
  ASSUME RefundInv, NEW c \in Commands, WaitOver(c)
  PROVE  /\ \A d \in Commands :
                /\ commands'[d].status = commands[d].status /\ commands'[d].amount = commands[d].amount
                /\ commands'[d].refund = commands[d].refund /\ commands'[d].why = commands[d].why
                /\ commands'[d].attempts = commands[d].attempts
                /\ commands'[d].waiting => commands[d].waiting
         /\ UNCHANGED <<canceled, exec, refunds, inflight, refusals, overtaken>>
<1> DEFINE new == [commands[c] EXCEPT !.waiting = FALSE]
<1>1. commands \in [Commands -> CommandType] BY DEF RefundInv, CommandsInv
<1>2. /\ new.status = commands[c].status /\ new.amount = commands[c].amount
      /\ new.refund = commands[c].refund /\ new.attempts = commands[c].attempts
      /\ new.why = commands[c].why /\ new.waiting = FALSE
  BY <1>1 DEF CommandType
<1>3. commands' = [commands EXCEPT ![c] = new] BY DEF WaitOver
<1> HIDE DEF new
<1>4. \A d \in Commands : commands'[d] = IF d = c THEN new ELSE commands[d] BY <1>1, <1>3
<1> QED BY <1>2, <1>4 DEF WaitOver, ExecutorUnchanged

\* What a refund Stripe makes adds.
LEMMA MakeAppends ==
  ASSUME RefundInv, NEW c, NEW attempt, NEW amount, MakeRefund(c, attempt, amount)
  PROVE  \E n \in Nat :
             /\ n \notin DOMAIN refunds /\ DOMAIN refunds' = DOMAIN refunds \cup {n}
             /\ \A i \in DOMAIN refunds : refunds'[i] = refunds[i]
             /\ refunds'[n].command = c /\ refunds'[n].amount = amount
             /\ refunds'[n].status \in {"pending", "succeeded"}
<1>1. PICK status \in {"pending", "succeeded"} :
          refunds' = Append(refunds, [command |-> c, attempt |-> attempt,
                                      amount |-> amount, status |-> status])
  BY DEF MakeRefund
<1> DEFINE new == [command |-> c, attempt |-> attempt, amount |-> amount, status |-> status]
           n == Len(refunds) + 1
<1>2. new.command = c /\ new.amount = amount /\ new.status = status OBVIOUS
<1>3. refunds \in Seq(RefundType) BY DEF RefundInv, StripeInv
<1> HIDE DEF new
<1>4. /\ n \in Nat /\ n \notin DOMAIN refunds /\ DOMAIN refunds' = DOMAIN refunds \cup {n}
      /\ \A i \in DOMAIN refunds : refunds'[i] = refunds[i]
      /\ refunds'[n] = new
  <2>1. refunds' = Append(refunds, new) BY <1>1 DEF new
  <2> QED BY <1>3, <2>1
<1> HIDE DEF n
<1> QED BY <1>2, <1>4

\* Stripe changes the status of refund i: what arrived has arrived, and what
\* does not stand will not stand.
Turned(i) ==
    /\ DOMAIN refunds' = DOMAIN refunds
    /\ \A j \in DOMAIN refunds : j # i => refunds'[j] = refunds[j]
    /\ refunds'[i].command = refunds[i].command /\ refunds'[i].amount = refunds[i].amount
    /\ \/ refunds[i].status = "pending" /\ refunds'[i].status \in {"succeeded", "failed"}
       \/ refunds[i].status = "succeeded" /\ refunds'[i].status = "returned"
    /\ UNCHANGED <<canceled, commands, exec, inflight, refusals, overtaken>>

LEMMA Turns ==
  ASSUME RefundInv, NEW i \in DOMAIN refunds, StripeEnds(i) \/ StripeFailsLate(i)
  PROVE  Turned(i)
<1>0. refunds \in Seq(RefundType) /\ refunds[i] \in RefundType
  BY RefundIsOf DEF RefundInv, StripeInv
<1>1. PICK status :
          /\ refunds' = [refunds EXCEPT ![i].status = status]
          /\ \/ refunds[i].status = "pending" /\ status \in {"succeeded", "failed"}
             \/ refunds[i].status = "succeeded" /\ status = "returned"
  BY DEF StripeEnds, StripeFailsLate
<1>2. /\ DOMAIN refunds' = DOMAIN refunds
      /\ \A j \in DOMAIN refunds : j # i => refunds'[j] = refunds[j]
      /\ refunds'[i] = [refunds[i] EXCEPT !.status = status]
  BY <1>0, <1>1
<1>3. /\ refunds'[i].command = refunds[i].command /\ refunds'[i].amount = refunds[i].amount
      /\ refunds'[i].status = status
  BY <1>0, <1>2 DEF RefundType
<1>4. UNCHANGED <<canceled, commands, exec, inflight, refusals, overtaken>>
  BY DEF StripeEnds, StripeFailsLate, StripeUnchanged
<1> QED BY <1>1, <1>2, <1>3, <1>4 DEF Turned

\* A new command comes when all before it failed.
LEMMA Inserts ==
  ASSUME RefundInv, BelongInv, NEW c \in Commands, NextCommand(c), NEW amount,
         InsertCommand(c, amount)
  PROVE  /\ exec = Idle
         /\ \A d \in Commands : d # c => commands'[d] = commands[d]
         /\ commands'[c].status = "pending" /\ commands'[c].amount = amount
         /\ ~commands'[c].waiting /\ commands'[c].refund = 0 /\ commands'[c].why = "none"
         /\ \A d \in Commands : commands[d].status \in {"none", "failed"}
         /\ \A d \in Commands : Used(d)' <=> (d = c \/ Used(d))
         /\ ~Used(c) /\ \A d \in Commands : Used(d) <=> d < c
         /\ IsLast(c)'
<1> DEFINE new == [NoCommand EXCEPT !.status = "pending", !.amount = amount]
<1>0. commands \in [Commands -> CommandType] BY DEF RefundInv, CommandsInv
<1>1. /\ new.status = "pending" /\ new.amount = amount /\ new.waiting = FALSE
      /\ new.refund = 0 /\ new.why = "none"
  BY DEF NoCommand
<1>2. commands' = [commands EXCEPT ![c] = new] BY DEF InsertCommand
<1> HIDE DEF new
<1>3. \A d \in Commands : commands'[d] = IF d = c THEN new ELSE commands[d] BY <1>0, <1>2
<1>4. ~Used(c) /\ \A d \in Commands : d < c => Used(d)
  BY CommandNumbers DEF NextCommand, Unused, Used
<1>5. \A d \in Commands : d > c => ~Used(d)
  BY <1>4, CommandNumbers DEF BelongInv, QueueInv, Used
<1>6. \A d \in Commands : commands[d].status \in {"none", "failed"}
  BY <1>0 DEF InsertCommand, LiveCommands, CommandType, Statuses
<1>7. \A d \in Commands : Used(d)' <=> (d = c \/ Used(d)) BY <1>1, <1>3, <1>4 DEF Used
<1>8. exec = Idle BY <1>6, Running
<1>9. \A d \in Commands : Used(d) <=> d < c BY <1>4, <1>5, CommandNumbers
<1>10. IsLast(c)'
  <2>1. \A d \in Commands : d > c => d # c BY CommandNumbers
  <2>2. \A d \in Commands : d > c => ~Used(d)' BY <1>5, <1>7, <2>1
  <2>3. Used(c)' BY <1>7
  <2> QED BY <2>2, <2>3 DEF IsLast, Used
<1> QED BY <1>1, <1>3, <1>4, <1>6, <1>7, <1>8, <1>9, <1>10

\* How the guest's or the host's cancel, and the host's retry, insert one.
LEMMA Asked ==
  ASSUME RefundInv, BelongInv, CancelStay \/ RetryRefund
  PROVE  \/ UNCHANGED <<commands, overtaken>> /\ CancelStay
         \/ \E c \in Commands, amount \in 1 .. Paid :
                /\ NextCommand(c) /\ InsertCommand(c, amount)
                /\ \A d \in Commands : Used(d) => commands[d].amount = amount
                /\ canceled'
                /\ overtaken' = (overtaken \/ inflight # {})
<1> USE LedgerAssumption, RefundAssumption
<1>1. CASE CancelStay
  <2>1. PICK retained \in Retained, c \in Commands :
            /\ ~canceled /\ NextCommand(c)
            /\ IF pricingCardRefundMinor(retained) = 0
               THEN UNCHANGED commands
               ELSE InsertCommand(c, pricingCardRefundMinor(retained))
            /\ canceled' = TRUE /\ UNCHANGED overtaken
    BY <1>1 DEF CancelStay
  <2>2. pricingCardRefundMinor(retained) \in 0 .. Paid BY RefundMinorBound
  <2>3. \A d \in Commands : ~Used(d) BY <2>1 DEF BelongInv, QueueInv
  <2>4. inflight = {} BY <2>3 DEF RefundInv, StripeInv, KeyType, Used
  <2>5. CASE pricingCardRefundMinor(retained) = 0 BY <1>1, <2>1, <2>5
  <2>6. CASE pricingCardRefundMinor(retained) # 0
    <3>1. pricingCardRefundMinor(retained) \in 1 .. Paid BY <2>2, <2>6
    <3>2. overtaken' = (overtaken \/ inflight # {}) BY <2>1, <2>4 DEF RefundInv
    <3> QED BY <2>1, <2>3, <2>6, <3>1, <3>2
  <2> QED BY <2>5, <2>6
<1>2. CASE RetryRefund
  <2>1. PICK c, failed \in Commands :
            /\ NextCommand(c)
            /\ commands[failed].status = "failed"
            /\ InsertCommand(c, commands[failed].amount)
            /\ overtaken' = (overtaken \/ inflight # {})
            /\ UNCHANGED canceled
    BY <1>2 DEF RetryRefund
  <2>2. Used(failed) BY <2>1 DEF Used
  <2>3. commands[failed].amount \in 1 .. Paid
    BY <2>1 DEF RefundInv, CommandsInv, CommandType
  <2>4. \A d \in Commands : Used(d) => commands[d].amount = commands[failed].amount
    BY <2>2 DEF BelongInv, QueueInv
  <2>5. canceled = TRUE BY <2>2 DEF BelongInv, QueueInv, RefundInv
  <2> QED BY <2>1, <2>3, <2>4, <2>5
<1> QED BY <1>1, <1>2

-----------------------------------------------------------------------------
(* BelongInv is kept *)

LEMMA BelongStutter ==
  ASSUME BelongInv, UNCHANGED <<canceled, commands, exec, refunds>>
  PROVE  BelongInv'
  BY DEF BelongInv, QueueInv, OwnerInv, WorkInv, Used, Arrived, Live

\* A step that moves the executor only.
LEMMA BelongMoves ==
  ASSUME BelongInv, UNCHANGED <<canceled, commands, refunds>>,
         exec' # Idle =>
             commands[exec'.command].status = "pending" /\ ~commands[exec'.command].waiting,
         exec'.pc = "answered" =>
             /\ refunds[exec'.refund].command # Dashboard
             /\ exec'.seen = "succeeded" => Arrived(exec'.refund)
             /\ exec'.seen = "failed" => exec'.refund \notin Live
  PROVE  BelongInv'
<1>1. QueueInv' /\ OwnerInv' BY DEF BelongInv, QueueInv, OwnerInv, Used
<1>2. WorkInv' BY DEF BelongInv, WorkInv, Arrived, Live
<1> QED BY <1>1, <1>2 DEF BelongInv

LEMMA BelongAnswered ==
  ASSUME RefundInv, BelongInv, exec # Idle, NEW i \in DOMAIN refunds, Answered(i),
         refunds[i].command # Dashboard, UNCHANGED <<canceled, commands, refunds>>
  PROVE  BelongInv'
<1>1. exec \in ExecType BY DEF RefundInv, ExecInv
<1>2. exec'.command = exec.command /\ exec'.refund = i /\ exec'.seen = StripeSays(i)
  BY <1>1 DEF Answered, ExecType
<1>3. exec'.seen = "succeeded" => Arrived(i) BY <1>2 DEF StripeSays, Arrived
<1>4. exec'.seen = "failed" => i \notin Live BY <1>2 DEF StripeSays, Live
<1> QED BY <1>2, <1>3, <1>4, Running, BelongMoves

LEMMA BelongLooking ==
  ASSUME RefundInv, BelongInv,
         \/ \E c \in Commands : ExecuteBegin(c)
         \/ RetrieveRefund \/ ListFinds \/ CreateRefund \/ CreateAnswered \/ ExecutorCrash
  PROVE  BelongInv'
<1>i. Idle.pc = "idle" BY DEF Idle
<1>0. UNCHANGED <<canceled, commands, refunds>>
  BY DEF ExecuteBegin, RetrieveRefund, ListFinds, CreateRefund, CreateAnswered, ExecutorCrash,
         ExecutorUnchanged
<1>d. exec # Idle => exec.command # Dashboard BY Running, CommandNumbers DEF Dashboard
<1>1. ASSUME NEW c \in Commands, ExecuteBegin(c) PROVE BelongInv'
  <2>1. exec' = [pc |-> "looking", command |-> c, refund |-> 0, seen |-> "none"]
    BY <1>1 DEF ExecuteBegin, Idle
  <2>2. exec'.pc # "answered" /\ exec'.command = c BY <2>1
  <2> QED BY <1>0, <1>1, <2>2, BelongMoves DEF ExecuteBegin
<1>2. CASE RetrieveRefund
  <2>1. exec # Idle BY <1>2, <1>i DEF RetrieveRefund
  <2>c. PICK c \in Commands : c = exec.command BY <2>1, Running
  <2>2. commands[c].status = "pending" /\ commands[c].refund # 0 /\ Answered(commands[c].refund)
    BY <1>2, <2>1, <2>c, Running DEF RetrieveRefund
  <2>3. /\ commands[c].refund \in DOMAIN refunds
        /\ refunds[commands[c].refund].command # Dashboard
    BY <2>2 DEF RefundInv, CommandsInv, BelongInv, WorkInv
  <2> QED BY <1>0, <2>1, <2>2, <2>3, BelongAnswered
<1>3. CASE ListFinds
  <2>1. exec # Idle BY <1>3, <1>i DEF ListFinds
  <2>2. PICK i \in IF Own # {} THEN Own ELSE Live : Answered(i) BY <1>3 DEF ListFinds
  <2>3. i \in DOMAIN refunds /\ refunds[i].command # Dashboard
    <3>1. CASE Own # {} BY <1>d, <2>1, <2>2, <3>1 DEF Own
    <3>2. CASE Own = {}
      <4>1. i \in Live /\ Followable(i) BY <1>3, <2>2, <3>2 DEF ListFinds, Blocked
      <4> QED BY <4>1, CommandNumbers DEF Live, Followable, Dashboard
    <3> QED BY <3>1, <3>2
  <2> QED BY <1>0, <2>1, <2>2, <2>3, BelongAnswered
<1>4. CASE CreateRefund
  <2>1. exec # Idle BY <1>4, <1>i DEF CreateRefund
  <2>2. exec'.pc = "creating" /\ exec'.command = exec.command
    BY <1>4 DEF CreateRefund, RefundInv, ExecInv, ExecType
  <2> QED BY <1>0, <2>1, <2>2, Running, BelongMoves
<1>5. CASE CreateAnswered
  <2>1. exec # Idle BY <1>5, <1>i DEF CreateAnswered
  <2>2. PICK i \in DOMAIN refunds : refunds[i].command = exec.command /\ Answered(i)
    BY <1>5 DEF CreateAnswered
  <2> QED BY <1>0, <1>d, <2>1, <2>2, BelongAnswered
<1>6. CASE ExecutorCrash
  <2>1. exec' = Idle BY <1>6 DEF ExecutorCrash
  <2> QED BY <1>0, <1>i, <2>1, BelongMoves
<1> QED BY <1>1, <1>2, <1>3, <1>4, <1>5, <1>6

LEMMA BelongWritten ==
  ASSUME RefundInv, BelongInv, NEW new \in CommandType, Written(new)
  PROVE  BelongInv'
<1>c. PICK c \in Commands : c = exec.command BY Running DEF Written
<1>1. commands[c].status = "pending" /\ IsLast(c) BY <1>c, Running DEF Written
<1>2. /\ \A d \in Commands : commands'[d] = IF d = c THEN new ELSE commands[d]
      /\ \A d \in Commands : commands'[d].amount = commands[d].amount
      /\ \A d \in Commands : Used(d)' = Used(d)
  BY <1>c, WrittenOne
<1>3. UNCHANGED <<canceled, refunds>> /\ exec' = Idle BY DEF Written
<1>4. QueueInv'
  <2>1. ASSUME NEW d \in Commands, NEW e \in Commands, d < e, Used(e)'
        PROVE  commands'[d].status = "failed"
    <3>1. commands[d].status = "failed" BY <1>2, <2>1 DEF BelongInv, QueueInv
    <3> QED BY <1>1, <1>2, <3>1
  <2>2. ~canceled' => \A d \in Commands : ~Used(d)'
    BY <1>2, <1>3 DEF BelongInv, QueueInv
  <2>3. \A d \in Commands : commands'[d].waiting => commands'[d].status = "pending"
    BY <1>2 DEF BelongInv, QueueInv, Written
  <2>4. \A d \in Commands : commands'[d].status = "failed" <=> commands'[d].why # "none"
    BY <1>2 DEF BelongInv, QueueInv, Written
  <2>5. \A d, e \in Commands : Used(d)' /\ Used(e)' => commands'[d].amount = commands'[e].amount
    BY <1>2 DEF BelongInv, QueueInv
  <2> QED BY <2>1, <2>2, <2>3, <2>4, <2>5 DEF QueueInv, Used
<1>5. OwnerInv'
  <2>1. \A i \in DOMAIN refunds : refunds[i].command # Dashboard => refunds[i].command \in Commands
    BY RefundIsOf
  <2>2. \A i \in DOMAIN refunds : refunds[i].command # Dashboard =>
            /\ Used(refunds[i].command)'
            /\ refunds[i].amount = commands'[refunds[i].command].amount
    BY <1>2, <1>3, <2>1 DEF BelongInv, OwnerInv
  <2> QED BY <1>3, <2>2 DEF OwnerInv, Used
<1>6. WorkInv'
  <2>1. new.status \in {"pending", "succeeded"} /\ new.refund # 0 =>
            refunds[new.refund].command # Dashboard
    BY <1>1, <1>c DEF Written, BelongInv, WorkInv
  <2>2. \A d \in Commands :
            commands'[d].status \in {"pending", "succeeded"} /\ commands'[d].refund # 0 =>
                refunds[commands'[d].refund].command # Dashboard
    BY <1>2, <2>1 DEF BelongInv, WorkInv
  <2> QED BY <1>3, <2>2 DEF WorkInv, Idle
<1> QED BY <1>4, <1>5, <1>6 DEF BelongInv

LEMMA BelongWait ==
  ASSUME RefundInv, BelongInv, NEW c \in Commands, WaitOver(c)
  PROVE  BelongInv'
<1>1. /\ \A d \in Commands :
             /\ commands'[d].status = commands[d].status /\ commands'[d].amount = commands[d].amount
             /\ commands'[d].refund = commands[d].refund /\ commands'[d].why = commands[d].why
             /\ commands'[d].waiting => commands[d].waiting
      /\ UNCHANGED <<canceled, exec, refunds>>
  BY WaitWrites
<1>2. QueueInv' BY <1>1 DEF BelongInv, QueueInv, Used
<1>3. OwnerInv'
  <2>1. \A i \in DOMAIN refunds : refunds[i].command # Dashboard => refunds[i].command \in Commands
    BY RefundIsOf
  <2> QED BY <1>1, <2>1 DEF BelongInv, OwnerInv, Used
<1>4. WorkInv'
  <2>1. exec # Idle => exec.command \in Commands BY Running
  <2> QED BY <1>1, <2>1 DEF BelongInv, WorkInv, Arrived, Live
<1> QED BY <1>2, <1>3, <1>4 DEF BelongInv

\* Stripe makes a refund for a command that was asked for, or changes one.
LEMMA BelongStripe ==
  ASSUME RefundInv, BelongInv, StripeStep \/ StripeDashboard
  PROVE  BelongInv'
<1>0. UNCHANGED <<canceled, commands, exec>>
  BY DEF StripeStep, StripeDashboard, StripeCreates, StripeRefuses, StripeEnds, StripeFailsLate,
         StripeUnchanged
<1>1. QueueInv' BY <1>0 DEF BelongInv, QueueInv, Used
<1>2. ASSUME DOMAIN refunds \subseteq DOMAIN refunds',
             \A i \in DOMAIN refunds :
                 /\ refunds'[i].command = refunds[i].command
                 /\ Arrived(i) => Arrived(i)'
                 /\ i \notin Live => i \notin Live'
      PROVE  WorkInv'
  <2>1. \A c \in Commands : commands[c].refund # 0 => commands[c].refund \in DOMAIN refunds
    BY DEF RefundInv, CommandsInv
  <2>2. exec.pc = "answered" => exec.refund \in DOMAIN refunds BY DEF RefundInv, ExecInv
  <2>3. ASSUME NEW c \in Commands,
               commands[c].status \in {"pending", "succeeded"}, commands[c].refund # 0
        PROVE  refunds'[commands[c].refund].command # Dashboard
    BY <1>2, <2>1, <2>3 DEF BelongInv, WorkInv
  <2>4. exec.pc = "answered" =>
            /\ refunds'[exec.refund].command # Dashboard
            /\ exec.seen = "succeeded" => Arrived(exec.refund)'
            /\ exec.seen = "failed" => exec.refund \notin Live'
    BY <1>0, <1>2, <2>2 DEF BelongInv, WorkInv, Arrived
  <2> QED BY <1>0, <2>3, <2>4 DEF BelongInv, WorkInv, Arrived
<1>3. ASSUME NEW c, NEW attempt, NEW amount, MakeRefund(c, attempt, amount),
             c # Dashboard => Used(c) /\ amount = commands[c].amount
      PROVE  BelongInv'
  <2>1. PICK n \in Nat :
            /\ n \notin DOMAIN refunds /\ DOMAIN refunds' = DOMAIN refunds \cup {n}
            /\ \A i \in DOMAIN refunds : refunds'[i] = refunds[i]
            /\ refunds'[n].command = c /\ refunds'[n].amount = amount
    BY <1>3, MakeAppends
  <2>2. OwnerInv' BY <1>0, <1>3, <2>1 DEF BelongInv, OwnerInv, Used
  <2>3. WorkInv' BY <1>2, <2>1 DEF Arrived, Live
  <2> QED BY <1>1, <2>2, <2>3 DEF BelongInv
<1>4. ASSUME NEW k \in inflight, StripeCreates(k) PROVE BelongInv'
  <2>1. Used(k.command) BY DEF RefundInv, StripeInv, Used
  <2> QED BY <1>3, <1>4, <2>1 DEF StripeCreates
<1>5. CASE StripeDashboard BY <1>3, <1>5 DEF StripeDashboard
<1>6. ASSUME NEW k \in inflight, StripeRefuses(k) PROVE BelongInv'
  BY <1>0, <1>6, BelongStutter DEF StripeRefuses
<1>7. ASSUME NEW i \in DOMAIN refunds, StripeEnds(i) \/ StripeFailsLate(i) PROVE BelongInv'
  <2>1. Turned(i) BY <1>7, Turns
  <2>2. OwnerInv' BY <1>0, <2>1 DEF BelongInv, OwnerInv, Used, Turned
  <2>3. \A j \in DOMAIN refunds : Arrived(j) => Arrived(j)' BY <2>1 DEF Turned, Arrived
  <2>4. \A j \in DOMAIN refunds : j \notin Live => j \notin Live' BY <2>1 DEF Turned, Live
  <2>5. /\ DOMAIN refunds \subseteq DOMAIN refunds'
        /\ \A j \in DOMAIN refunds : refunds'[j].command = refunds[j].command
    BY <2>1 DEF Turned
  <2>6. WorkInv' BY <1>2, <2>3, <2>4, <2>5
  <2> QED BY <1>1, <2>2, <2>6 DEF BelongInv
<1> QED BY <1>4, <1>5, <1>6, <1>7 DEF StripeStep

LEMMA BelongAsk ==
  ASSUME RefundInv, BelongInv, CancelStay \/ RetryRefund
  PROVE  BelongInv'
<1>0. UNCHANGED <<exec, refunds>> BY DEF CancelStay, RetryRefund
<1>1. CASE UNCHANGED commands /\ CancelStay
  <2>1. QueueInv' BY <1>1 DEF CancelStay, BelongInv, QueueInv, Used
  <2>2. OwnerInv' /\ WorkInv'
    BY <1>0, <1>1 DEF BelongInv, OwnerInv, WorkInv, Used, Arrived, Live
  <2> QED BY <2>1, <2>2 DEF BelongInv
<1>2. ASSUME NEW c \in Commands, NEW amount \in 1 .. Paid, NextCommand(c), InsertCommand(c, amount),
             \A d \in Commands : Used(d) => commands[d].amount = amount, canceled'
      PROVE  BelongInv'
  <2>1. /\ exec = Idle
        /\ \A d \in Commands : d # c => commands'[d] = commands[d]
        /\ commands'[c].status = "pending" /\ commands'[c].amount = amount
        /\ ~commands'[c].waiting /\ commands'[c].refund = 0 /\ commands'[c].why = "none"
        /\ \A d \in Commands : commands[d].status \in {"none", "failed"}
        /\ \A d \in Commands : Used(d)' <=> (d = c \/ Used(d))
        /\ ~Used(c) /\ \A d \in Commands : Used(d) <=> d < c
    BY <1>2, Inserts
  <2>2. QueueInv'
    <3>1. ASSUME NEW d \in Commands, NEW e \in Commands, d < e, Used(e)'
          PROVE  commands'[d].status = "failed"
      <4>1. e = c \/ e < c BY <2>1, <3>1
      <4>2. d < c /\ d # c BY <3>1, <4>1, CommandNumbers
      <4> QED BY <2>1, <4>2 DEF Used
    <3>2. \A d \in Commands : commands'[d].waiting => commands'[d].status = "pending"
      BY <2>1 DEF BelongInv, QueueInv
    <3>3. \A d \in Commands : Used(d)' => commands'[d].amount = amount BY <1>2, <2>1
    <3>4. \A d \in Commands : commands'[d].status = "failed" <=> commands'[d].why # "none"
      BY <2>1 DEF BelongInv, QueueInv
    <3> QED BY <1>2, <3>1, <3>2, <3>3, <3>4 DEF QueueInv, Used
  <2>3. OwnerInv'
    <3>1. \A i \in DOMAIN refunds : refunds[i].command # Dashboard =>
              /\ Used(refunds[i].command)'
              /\ refunds[i].amount = commands'[refunds[i].command].amount
      BY <1>0, <2>1, RefundIsOf DEF BelongInv, OwnerInv
    <3> QED BY <1>0, <3>1 DEF OwnerInv, Used
  <2>4. WorkInv'
    <3>1. \A d \in Commands : commands'[d].status \in {"pending", "succeeded"} => d = c BY <2>1
    <3> QED BY <1>0, <2>1, <3>1 DEF WorkInv, Idle
  <2> QED BY <2>2, <2>3, <2>4 DEF BelongInv
<1> QED BY <1>1, <1>2, Asked

-----------------------------------------------------------------------------
(* One refund at most, until a retry overtakes a create *)

\* The commands have one refund standing at most, none that was reported as not
\* made, and once the last command has made its own no other stands or comes.
MadeInv ==
    /\ \A i, j \in CommandMade : i = j
    /\ \A i \in CommandMade : Open(refunds[i].command)
    /\ \A i \in DOMAIN refunds : IsLast(refunds[i].command) =>
           CommandMade \subseteq {i} /\ inflight = {}

\* A request on its way is the last command's only one, nothing stands, and the
\* command is still pending or was handed to a person.
RequestInv ==
    /\ \A k, l \in inflight : k = l
    /\ \A k \in inflight :
           /\ IsLast(k.command) /\ k \notin refusals /\ CommandMade = {}
           /\ \/ commands[k.command].status = "pending"
              \/ commands[k.command].status = "failed" /\ commands[k.command].why = "blocked"
           /\ commands[k.command].status = "pending" /\ ~commands[k.command].waiting =>
                  k.attempt = commands[k.command].attempts

\* Refund i is the only one that stands or may come to stand.
Follows(i) == /\ i \in DOMAIN refunds /\ refunds[i].command # Dashboard
              /\ CommandMade \subseteq {i} /\ inflight = {}
              /\ Open(refunds[i].command)

FollowInv ==
    \A c \in Commands :
        commands[c].status \in {"pending", "succeeded"} /\ commands[c].refund # 0 =>
            Follows(commands[c].refund)

RunInv ==
    /\ exec.pc = "answered" => Follows(exec.refund)
    /\ exec.pc = "creating" /\ Key(exec.command) \in refusals => CommandMade = {}

OneRefundInv == MadeInv /\ RequestInv /\ FollowInv /\ RunInv

\* A request on its way is for the pending command.
LEMMA RequestOfLast ==
  ASSUME RefundInv, QueueInv, RequestInv, NEW c \in Commands, commands[c].status = "pending",
         NEW k \in inflight
  PROVE  /\ k.command = c
         /\ ~commands[c].waiting => k = Key(c)
<1>1. IsLast(c) BY LiveIsLast
<1>2. k.command = c BY <1>1, LastIsOne DEF RequestInv
<1>3. k \in KeyType BY DEF RefundInv, StripeInv
<1>4. ~commands[c].waiting => k.attempt = commands[c].attempts BY <1>2 DEF RequestInv
<1>5. k = [command |-> k.command, attempt |-> k.attempt] BY <1>3 DEF KeyType
<1> QED BY <1>2, <1>4, <1>5 DEF Key

LEMMA RunningRequest ==
  ASSUME RefundInv, BelongInv, OneRefundInv, exec # Idle
  PROVE  \A k \in inflight : k = Key(exec.command)
  BY Running, RequestOfLast DEF BelongInv, OneRefundInv

\* Nobody has been told "not refunded" of a last command that is pending, handed
\* over or done.
LEMMA LastIsOpen ==
  ASSUME BelongInv, NEW c, IsLast(c), commands[c].why \notin {"refused", "stripe"}
  PROVE  Open(c)
<1>1. c \in Commands /\ \A d \in Commands : d > c => commands[d].why = "none"
  BY DEF IsLast, Used, BelongInv, QueueInv
<1>2. \A d \in Commands : d >= c => d = c \/ d > c BY <1>1, CommandNumbers
<1> QED BY <1>1, <1>2 DEF Open

LEMMA MadeSame == UNCHANGED refunds => UNCHANGED CommandMade
  BY DEF CommandMade, Live

\* A step that moves the executor only.
LEMMA OnlyExecMoves ==
  ASSUME OneRefundInv, UNCHANGED <<commands, refunds, inflight, refusals>>
  PROVE  MadeInv' /\ RequestInv' /\ FollowInv'
<1>1. UNCHANGED CommandMade BY MadeSame
<1> QED
  BY <1>1 DEF OneRefundInv, MadeInv, RequestInv, FollowInv, Follows, Used, IsLast, Open

LEMMA OneRefundStutter ==
  ASSUME OneRefundInv, UNCHANGED <<commands, exec, refunds, inflight, refusals>>
  PROVE  OneRefundInv'
<1>1. UNCHANGED CommandMade BY MadeSame
<1>2. RunInv' BY <1>1 DEF OneRefundInv, RunInv, Follows, Key, Open
<1> QED BY <1>2, OnlyExecMoves DEF OneRefundInv

\* Stripe's answer is about the only refund that stands or may come to stand.
LEMMA AnsweredStep ==
  ASSUME RefundInv, OneRefundInv, NEW i, Follows(i), Answered(i),
         UNCHANGED <<commands, refunds, inflight, refusals>>
  PROVE  OneRefundInv'
<1>1. exec \in ExecType BY DEF RefundInv, ExecInv
<1>2. exec'.pc = "answered" /\ exec'.refund = i BY <1>1 DEF Answered, ExecType
<1>3. UNCHANGED CommandMade BY MadeSame
<1>4. Follows(i)' BY <1>3 DEF Follows, Open
<1>5. RunInv' BY <1>2, <1>4 DEF RunInv
<1> QED BY <1>5, OnlyExecMoves DEF OneRefundInv

LEMMA LookingSteps ==
  ASSUME RefundInv, BelongInv, OneRefundInv,
         \/ \E c \in Commands : ExecuteBegin(c)
         \/ RetrieveRefund \/ ListFinds \/ CreateAnswered
  PROVE  OneRefundInv'
<1>i. Idle.pc = "idle" BY DEF Idle
<1>0. UNCHANGED <<commands, refunds, inflight, refusals>>
  BY DEF ExecuteBegin, RetrieveRefund, ListFinds, CreateAnswered
<1>1. ASSUME NEW c \in Commands, ExecuteBegin(c) PROVE OneRefundInv'
  <2>1. exec' = [pc |-> "looking", command |-> c, refund |-> 0, seen |-> "none"]
    BY <1>1 DEF ExecuteBegin, Idle
  <2>2. RunInv' BY <2>1 DEF RunInv
  <2> QED BY <1>0, <2>2, OnlyExecMoves DEF OneRefundInv
<1>2. CASE RetrieveRefund
  <2>1. exec # Idle BY <1>2, <1>i DEF RetrieveRefund
  <2>2. Follows(commands[exec.command].refund)
    BY <1>2, <2>1, Running DEF RetrieveRefund, OneRefundInv, FollowInv
  <2> QED BY <1>0, <1>2, <2>2, AnsweredStep DEF RetrieveRefund
<1>o. ASSUME exec # Idle, NEW i \in DOMAIN refunds, refunds[i].command = exec.command
      PROVE  Follows(i)
  <2>1. /\ exec.command \in Commands /\ IsLast(exec.command)
        /\ commands[exec.command].why = "none"
    BY <1>o, Running
  <2>2. exec.command # Dashboard BY <2>1, CommandNumbers DEF Dashboard
  <2>3. Open(exec.command) BY <2>1, LastIsOpen
  <2> QED BY <1>o, <2>1, <2>2, <2>3 DEF Follows, OneRefundInv, MadeInv
<1>3. CASE ListFinds
  <2>1. exec # Idle BY <1>3, <1>i DEF ListFinds
  <2>2. PICK i \in IF Own # {} THEN Own ELSE Live : Answered(i) BY <1>3 DEF ListFinds
  <2>3. Follows(i)
    <3>1. CASE Own # {} BY <1>o, <2>1, <2>2, <3>1 DEF Own
    <3>2. CASE Own = {}
      <4>1. i \in Live /\ Followable(i) BY <1>3, <2>2, <3>2 DEF ListFinds, Blocked
      <4>2. refunds[i].command # Dashboard BY <4>1, CommandNumbers DEF Followable, Dashboard
      <4>3. i \in CommandMade /\ i \in DOMAIN refunds BY <4>1, <4>2 DEF CommandMade, Live
      <4>4. CommandMade \subseteq {i} /\ Open(refunds[i].command)
        BY <4>3 DEF OneRefundInv, MadeInv
      <4>5. inflight = {} BY <4>3 DEF OneRefundInv, RequestInv
      <4> QED BY <4>2, <4>3, <4>4, <4>5 DEF Follows
    <3> QED BY <3>1, <3>2
  <2> QED BY <1>0, <2>2, <2>3, AnsweredStep
<1>4. CASE CreateAnswered
  <2>1. exec # Idle BY <1>4, <1>i DEF CreateAnswered
  <2>2. PICK i \in DOMAIN refunds : refunds[i].command = exec.command /\ Answered(i)
    BY <1>4 DEF CreateAnswered
  <2> QED BY <1>0, <1>o, <2>1, <2>2, AnsweredStep
<1> QED BY <1>1, <1>2, <1>3, <1>4

\* A create is asked only with nothing standing, nothing made by the command
\* and no other request on its way.
LEMMA CreateStep ==
  ASSUME RefundInv, BelongInv, OneRefundInv, CreateRefund
  PROVE  OneRefundInv'
<1>1. exec # Idle BY DEF CreateRefund, Idle
<1>c. PICK c \in Commands : c = exec.command BY <1>1, Running
<1>2. /\ IsLast(c) /\ commands[c].status = "pending" /\ ~commands[c].waiting
      /\ \A k \in inflight : k = Key(c)
  BY <1>1, <1>c, Running, RunningRequest
<1>3. UNCHANGED <<commands, refunds, refusals>> BY DEF CreateRefund
<1>4. UNCHANGED CommandMade /\ CommandMade = {}
  BY <1>3, MadeSame DEF CreateRefund, CommandMade
<1>5. exec'.pc = "creating" /\ exec'.command = c
  BY <1>c DEF CreateRefund, RefundInv, ExecInv, ExecType
<1>7. \A k \in inflight' : k = Key(c) /\ k \notin refusals
  BY <1>2, <1>c DEF CreateRefund, OneRefundInv, RequestInv
<1>8. \A i \in DOMAIN refunds : ~IsLast(refunds[i].command)
  <2> SUFFICES ASSUME NEW i \in DOMAIN refunds, IsLast(refunds[i].command) PROVE FALSE
    OBVIOUS
  <2>1. refunds[i].command = c BY <1>2, LastIsOne
  <2> QED BY <1>c, <2>1 DEF CreateRefund, Own
<1>9. Key(c).command = c /\ Key(c).attempt = commands[c].attempts BY DEF Key
<1>11. MadeInv' BY <1>3, <1>4, <1>8 DEF MadeInv, Used, IsLast
<1>12. RequestInv'
  <2>1. ASSUME NEW k \in inflight'
        PROVE  /\ k.command = c /\ k.attempt = commands[c].attempts /\ k \notin refusals
    BY <1>7, <1>9
  <2>2. IsLast(c)' BY <1>2, <1>3 DEF IsLast, Used
  <2>3. \A k, l \in inflight' : k = l BY <1>7
  <2> QED BY <1>2, <1>3, <1>4, <2>1, <2>2, <2>3 DEF RequestInv
<1>13. FollowInv'
  <2>1. ASSUME NEW d \in Commands, commands[d].status \in {"pending", "succeeded"} PROVE d = c
    BY <1>2, <2>1, LiveIsLast, LastIsOne DEF BelongInv
  <2>2. commands[c].refund = 0 BY <1>c DEF CreateRefund
  <2> QED BY <1>3, <2>1, <2>2 DEF FollowInv
<1>14. RunInv' BY <1>4, <1>5 DEF RunInv
<1> QED BY <1>11, <1>12, <1>13, <1>14 DEF OneRefundInv

\* "Not refunded" is written only when nothing stands.
LEMMA ReportedNone ==
  ASSUME BelongInv, OneRefundInv, NEW new \in CommandType, Written(new),
         new.why \in {"refused", "stripe"}
  PROVE  CommandMade = {} /\ new.status = "failed" /\ inflight' \subseteq inflight
<1>1. CASE exec.pc = "creating" /\ Key(exec.command) \in refusals /\ new.status = "failed"
  BY <1>1 DEF OneRefundInv, RunInv, Written
<1>2. CASE exec.pc = "answered" /\ exec.seen = "failed" /\ new.status = "failed"
  <2>1. CommandMade \subseteq {exec.refund} /\ exec.refund \notin Live
    BY <1>2 DEF OneRefundInv, RunInv, Follows, BelongInv, WorkInv
  <2> QED BY <1>2, <2>1 DEF CommandMade, Written
<1> QED BY <1>1, <1>2 DEF Written

\* ... and every command stays as open as it was otherwise.
LEMMA StaysOpen ==
  ASSUME RefundInv, BelongInv, NEW new \in CommandType, Written(new),
         new.why \notin {"refused", "stripe"}
  PROVE  \A d : Open(d)' = Open(d)
<1>1. \A d \in Commands : commands'[d] = IF d = exec.command THEN new ELSE commands[d]
  BY WrittenOne
<1>2. commands[exec.command].why = "none" BY Running DEF Written
<1>3. \A d \in Commands : commands'[d].why \in {"refused", "stripe"} <=>
                          commands[d].why \in {"refused", "stripe"}
  BY <1>1, <1>2
<1> QED BY <1>3 DEF Open

LEMMA WritingSteps ==
  ASSUME RefundInv, BelongInv, OneRefundInv, NEW new \in CommandType, Written(new)
  PROVE  OneRefundInv'
<1>c. PICK c \in Commands : c = exec.command BY Running DEF Written
<1>1. /\ IsLast(c) /\ commands[c].status = "pending"
      /\ \A k \in inflight : k = Key(c)
  BY <1>c, Running, RunningRequest DEF Written
<1>2. UNCHANGED <<refunds, refusals>> /\ exec' = Idle /\ inflight' \subseteq inflight
  BY DEF Written
<1>3. UNCHANGED CommandMade BY <1>2, MadeSame
<1>4. /\ \A d \in Commands : commands'[d] = IF d = c THEN new ELSE commands[d]
      /\ \A d : IsLast(d)' = IsLast(d)
  BY <1>c, WrittenOne
<1>5. MadeInv'
  <2>1. \A i \in CommandMade : Open(refunds[i].command)'
    <3>1. CASE new.why \in {"refused", "stripe"} BY <3>1, ReportedNone
    <3>2. CASE new.why \notin {"refused", "stripe"}
      BY <1>2, <3>2, StaysOpen DEF OneRefundInv, MadeInv
    <3> QED BY <3>1, <3>2
  <2>2. \A i \in DOMAIN refunds : IsLast(refunds[i].command)' =>
            CommandMade \subseteq {i} /\ inflight' = {}
    BY <1>2, <1>4 DEF OneRefundInv, MadeInv
  <2> QED BY <1>2, <1>3, <2>1, <2>2 DEF OneRefundInv, MadeInv
<1>6. RequestInv'
  <2>1. ASSUME NEW k \in inflight'
        PROVE  /\ IsLast(k.command)' /\ k \notin refusals /\ CommandMade = {}
               /\ k.command = c /\ commands'[c] = new
    <3>1. k.command = c BY <1>1, <1>2 DEF Key
    <3>2. IsLast(c)' BY <1>1, <1>4
    <3> QED BY <1>2, <1>4, <3>1, <3>2 DEF OneRefundInv, RequestInv
  <2>2. \A k, l \in inflight' : k = l BY <1>2 DEF OneRefundInv, RequestInv
  <2>3. inflight' # {} => \/ new.status = "pending" /\ new.waiting
                          \/ new.status = "failed" /\ new.why = "blocked"
    <3>1. CASE exec.pc = "answered"
      BY <1>2, <3>1 DEF OneRefundInv, RunInv, Follows
    <3>2. CASE Key(exec.command) \in refusals
      BY <1>1, <1>2, <1>c, <3>2 DEF OneRefundInv, RequestInv
    <3> QED BY <3>1, <3>2 DEF Written
  <2> QED BY <1>2, <1>3, <2>1, <2>2, <2>3 DEF RequestInv
<1>7. FollowInv'
  <2> SUFFICES ASSUME NEW d \in Commands, commands'[d].status \in {"pending", "succeeded"},
                      commands'[d].refund # 0
               PROVE  Follows(commands[d].refund)'
    BY DEF FollowInv
  <2>1. d = c
    <3> SUFFICES ASSUME d # c PROVE FALSE
      OBVIOUS
    <3>1. commands[d].status \in {"pending", "succeeded"} BY <1>4
    <3> QED BY <1>1, <3>1, LiveIsLast, LastIsOne DEF BelongInv
  <2>2. commands'[d] = new BY <1>4, <2>1
  <2>3. new.why = "none" /\ Follows(new.refund)
    BY <1>1, <1>c, <2>2 DEF Written, OneRefundInv, FollowInv, RunInv
  <2>4. \A e : Open(e)' = Open(e) BY <2>3, StaysOpen
  <2>5. refunds'[new.refund].command = refunds[new.refund].command BY <1>2
  <2> QED BY <1>2, <1>3, <2>2, <2>3, <2>4, <2>5 DEF Follows
<1>8. RunInv' BY <1>2 DEF RunInv, Idle
<1> QED BY <1>5, <1>6, <1>7, <1>8 DEF OneRefundInv

LEMMA CrashStep ==
  ASSUME OneRefundInv, ExecutorCrash
  PROVE  OneRefundInv'
<1>1. UNCHANGED <<commands, refunds, refusals>> /\ exec' = Idle BY DEF ExecutorCrash
<1>2. inflight' \subseteq inflight BY DEF ExecutorCrash
<1>3. UNCHANGED CommandMade BY <1>1, MadeSame
<1>5. MadeInv' BY <1>1, <1>2, <1>3 DEF OneRefundInv, MadeInv, Used, IsLast, Open
<1>6. RequestInv' BY <1>1, <1>2, <1>3 DEF OneRefundInv, RequestInv, Used, IsLast
<1>7. FollowInv' BY <1>1, <1>2, <1>3 DEF OneRefundInv, FollowInv, Follows, Open
<1>8. RunInv' BY <1>1 DEF RunInv, Idle
<1> QED BY <1>5, <1>6, <1>7, <1>8 DEF OneRefundInv

LEMMA WaitStep ==
  ASSUME RefundInv, BelongInv, OneRefundInv, NEW c \in Commands, WaitOver(c)
  PROVE  OneRefundInv'
<1>1. /\ \A d \in Commands :
             /\ commands'[d].status = commands[d].status /\ commands'[d].why = commands[d].why
             /\ commands'[d].refund = commands[d].refund
             /\ commands'[d].attempts = commands[d].attempts
      /\ UNCHANGED <<exec, refunds, inflight, refusals>>
  BY WaitWrites
<1>2. UNCHANGED CommandMade BY <1>1, MadeSame
<1>3. commands[c].status = "pending" BY DEF WaitOver, BelongInv, QueueInv
<1>4. inflight = {}
  <2> SUFFICES ASSUME NEW k \in inflight PROVE FALSE
    OBVIOUS
  <2>1. k.command = c BY <1>3, RequestOfLast DEF BelongInv, OneRefundInv
  <2> QED BY <2>1 DEF WaitOver
<1>5. \A d : IsLast(d)' = IsLast(d) /\ Open(d)' = Open(d) BY <1>1 DEF IsLast, Used, Open
<1>6. MadeInv' BY <1>1, <1>2, <1>5 DEF OneRefundInv, MadeInv
<1>7. RequestInv' BY <1>1, <1>4 DEF RequestInv
<1>f. ASSUME NEW i, Follows(i) PROVE Follows(i)' BY <1>1, <1>2, <1>5, <1>f DEF Follows
<1>8. FollowInv' BY <1>1, <1>f DEF OneRefundInv, FollowInv
<1>9. RunInv'
  <2>1. exec.pc = "creating" => exec.command \in Commands BY Running DEF Idle
  <2>2. exec.pc = "creating" => UNCHANGED Key(exec.command) BY <1>1, <2>1 DEF Key
  <2> QED BY <1>1, <1>2, <1>f, <2>2 DEF OneRefundInv, RunInv
<1> QED BY <1>6, <1>7, <1>8, <1>9 DEF OneRefundInv

\* A step of Stripe that makes no refund for a command.
LEMMA QuietStripe ==
  ASSUME OneRefundInv, DOMAIN refunds \subseteq DOMAIN refunds',
         \A i \in DOMAIN refunds : refunds'[i].command = refunds[i].command,
         \A i \in DOMAIN refunds' : i \in DOMAIN refunds \/ refunds'[i].command = Dashboard,
         CommandMade' \subseteq CommandMade,
         UNCHANGED <<commands, exec, inflight, refusals>>
  PROVE  OneRefundInv'
<1>1. ~IsLast(Dashboard) BY CommandNumbers DEF IsLast, Dashboard
<1>2. \A d : IsLast(d)' = IsLast(d) /\ Open(d)' = Open(d) BY DEF IsLast, Used, Open
<1>3. MadeInv'
  <2>1. \A i \in CommandMade : i \in DOMAIN refunds BY DEF CommandMade, Live
  <2>2. \A i \in CommandMade' : Open(refunds'[i].command) BY <2>1 DEF OneRefundInv, MadeInv
  <2>3. \A i \in DOMAIN refunds' : IsLast(refunds'[i].command) =>
            CommandMade' \subseteq {i} /\ inflight = {}
    BY <1>1 DEF OneRefundInv, MadeInv
  <2>4. \A i, j \in CommandMade' : i = j BY DEF OneRefundInv, MadeInv
  <2> QED BY <2>2, <2>3, <2>4 DEF MadeInv, IsLast, Used, Open
<1>4. RequestInv' BY DEF OneRefundInv, RequestInv, Used, IsLast
<1>5. ASSUME NEW i, Follows(i) PROVE Follows(i)' BY <1>2, <1>5 DEF Follows
<1>6. FollowInv' BY <1>5 DEF OneRefundInv, FollowInv
<1>7. RunInv' BY <1>5 DEF OneRefundInv, RunInv, Key
<1> QED BY <1>3, <1>4, <1>6, <1>7 DEF OneRefundInv

LEMMA TurnStep ==
  ASSUME OneRefundInv, NEW i \in DOMAIN refunds, Turned(i)
  PROVE  OneRefundInv'
<1>1. CommandMade' \subseteq CommandMade BY DEF Turned, CommandMade, Live
<1> QED BY <1>1, QuietStripe DEF Turned

LEMMA DashboardStep ==
  ASSUME RefundInv, OneRefundInv, StripeDashboard
  PROVE  OneRefundInv'
<1>1. PICK amount \in DashboardAmounts : MakeRefund(Dashboard, 0, amount)
  BY DEF StripeDashboard
<1>2. PICK n \in Nat :
          /\ n \notin DOMAIN refunds /\ DOMAIN refunds' = DOMAIN refunds \cup {n}
          /\ \A i \in DOMAIN refunds : refunds'[i] = refunds[i]
          /\ refunds'[n].command = Dashboard
  BY <1>1, MakeAppends
<1>3. CommandMade' \subseteq CommandMade BY <1>2 DEF CommandMade, Live
<1> QED BY <1>2, <1>3, QuietStripe DEF StripeDashboard, StripeUnchanged

LEMMA RefusesStep ==
  ASSUME OneRefundInv, NEW k \in inflight, StripeRefuses(k)
  PROVE  OneRefundInv'
<1>1. UNCHANGED <<commands, exec, refunds>> BY DEF StripeRefuses, StripeUnchanged
<1>2. inflight' = {} BY DEF StripeRefuses, OneRefundInv, RequestInv
<1>3. UNCHANGED CommandMade /\ CommandMade = {} BY <1>1, MadeSame DEF OneRefundInv, RequestInv
<1>5. MadeInv' BY <1>1, <1>2, <1>3 DEF OneRefundInv, MadeInv, Used, IsLast
<1>6. RequestInv' BY <1>2 DEF RequestInv
<1>7. FollowInv' BY <1>1, <1>2, <1>3 DEF OneRefundInv, FollowInv, Follows, Open
<1>8. RunInv' BY <1>1, <1>2, <1>3 DEF OneRefundInv, RunInv, Follows, Open
<1> QED BY <1>5, <1>6, <1>7, <1>8 DEF OneRefundInv

LEMMA CreatesStep ==
  ASSUME RefundInv, BelongInv, OneRefundInv, NEW k \in inflight, StripeCreates(k)
  PROVE  OneRefundInv'
<1>1. UNCHANGED <<commands, exec, refusals>> BY DEF StripeCreates, StripeUnchanged
<1>2. inflight' = {} BY DEF StripeCreates, OneRefundInv, RequestInv
<1>3. /\ CommandMade = {} /\ IsLast(k.command) /\ k \notin refusals
      /\ commands[k.command].why \notin {"refused", "stripe"}
  BY DEF OneRefundInv, RequestInv, BelongInv, QueueInv, IsLast
<1>4. PICK n \in Nat :
          /\ n \notin DOMAIN refunds /\ DOMAIN refunds' = DOMAIN refunds \cup {n}
          /\ \A i \in DOMAIN refunds : refunds'[i] = refunds[i]
          /\ refunds'[n].command = k.command
  BY MakeAppends DEF StripeCreates
<1>5. CommandMade' \subseteq {n} BY <1>3, <1>4 DEF CommandMade, Live
<1>7. \A i \in DOMAIN refunds : ~IsLast(refunds[i].command) BY DEF OneRefundInv, MadeInv
<1>9. MadeInv'
  <2>1. Open(refunds'[n].command) BY <1>3, <1>4, LastIsOpen
  <2>2. \A i \in DOMAIN refunds' : IsLast(refunds'[i].command) => i = n BY <1>4, <1>7
  <2> QED BY <1>1, <1>2, <1>5, <2>1, <2>2 DEF MadeInv, IsLast, Used, Open
<1>10. RequestInv' BY <1>2 DEF RequestInv
<1>11. FollowInv'
  <2>1. \A i : ~Follows(i) BY DEF Follows
  <2>2. \A c \in Commands : commands[c].status \in {"pending", "succeeded"} =>
                                commands[c].refund = 0
    BY <2>1 DEF OneRefundInv, FollowInv
  <2> QED BY <1>1, <2>2 DEF FollowInv
<1>12. RunInv'
  <2>1. exec.pc # "answered" BY DEF OneRefundInv, RunInv, Follows
  <2>2. exec.pc = "creating" => Key(exec.command) \notin refusals
    <3> SUFFICES ASSUME exec.pc = "creating" PROVE Key(exec.command) \notin refusals
      OBVIOUS
    <3>1. exec # Idle BY DEF Idle
    <3> QED BY <1>3, <3>1, RunningRequest
  <2> QED BY <1>1, <2>1, <2>2 DEF RunInv, Key
<1> QED BY <1>9, <1>10, <1>11, <1>12 DEF OneRefundInv

\* A new command while nothing is on its way.
LEMMA InsertStep ==
  ASSUME RefundInv, BelongInv, OneRefundInv, NEW c \in Commands, NextCommand(c), NEW amount,
         InsertCommand(c, amount), inflight = {}, UNCHANGED <<exec, refunds, inflight, refusals>>
  PROVE  OneRefundInv' /\ \A d : Open(d)' = Open(d)
<1>1. /\ exec = Idle
      /\ \A d \in Commands : d # c => commands'[d] = commands[d]
      /\ commands'[c].refund = 0 /\ commands'[c].why = "none"
      /\ \A d \in Commands : commands[d].status \in {"none", "failed"}
      /\ ~Used(c) /\ IsLast(c)'
  BY Inserts
<1>2. commands[c].why = "none" BY <1>1 DEF BelongInv, QueueInv, Used
<1>3. \A d \in Commands : commands'[d].why = commands[d].why BY <1>1, <1>2
<1>4. \A d : Open(d)' = Open(d) BY <1>3 DEF Open
<1>5. UNCHANGED CommandMade BY MadeSame
<1>6. MadeInv'
  <2>1. \A i \in DOMAIN refunds : ~IsLast(refunds[i].command)'
    <3> SUFFICES ASSUME NEW i \in DOMAIN refunds, IsLast(refunds[i].command)' PROVE FALSE
      OBVIOUS
    <3>1. refunds[i].command = c
      <4>1. IsLast(refunds[i].command)' /\ IsLast(c)' BY <1>1
      <4>2. refunds[i].command \in Commands BY DEF IsLast
      <4> QED BY <4>1, <4>2, CommandNumbers DEF IsLast
    <3>2. c # Dashboard BY CommandNumbers DEF Dashboard
    <3> QED BY <1>1, <3>1, <3>2 DEF BelongInv, OwnerInv
  <2> QED BY <1>4, <1>5, <2>1 DEF OneRefundInv, MadeInv
<1>7. RequestInv' BY DEF RequestInv
<1>8. FollowInv'
  <2>1. \A d \in Commands : commands'[d].status \in {"pending", "succeeded"} => d = c BY <1>1
  <2> QED BY <1>1, <2>1 DEF FollowInv
<1>9. RunInv' BY <1>1 DEF RunInv, Idle
<1> QED BY <1>4, <1>6, <1>7, <1>8, <1>9 DEF OneRefundInv

LEMMA AskedStep ==
  ASSUME RefundInv, BelongInv, OneRefundInv, CancelStay \/ RetryRefund, ~overtaken'
  PROVE  OneRefundInv'
<1>0. UNCHANGED <<exec, refunds, inflight, refusals>> BY DEF CancelStay, RetryRefund
<1>1. CASE UNCHANGED commands BY <1>0, <1>1, OneRefundStutter
<1>2. ASSUME NEW c \in Commands, NEW amount, NextCommand(c), InsertCommand(c, amount),
             overtaken' = (overtaken \/ inflight # {})
      PROVE  OneRefundInv'
  BY <1>0, <1>2, InsertStep
<1> QED BY <1>1, <1>2, Asked

-----------------------------------------------------------------------------
(* What is recorded as refunded *)

\* Beyond RefundedIsStripes: a command's refund is recorded only by settling it.
RecordInv ==
    /\ payment.refunded = AmountOf(refunds, recorded)
    /\ \A i \in recorded : Arrived(i)
    /\ \A c \in Commands : commands[c].status = "succeeded" => commands[c].refund \in recorded
    /\ (\E i \in recorded : refunds[i].command # Dashboard) =>
           \E c \in Commands : commands[c].status = "succeeded"

LEMMA RecordedAmounts == RefundInv => Amounts(refunds, recorded)
<1> SUFFICES ASSUME RefundInv PROVE Amounts(refunds, recorded)
  OBVIOUS
<1>1. recorded \subseteq DOMAIN refunds /\ refunds \in Seq(RefundType) BY DEF RefundInv, StripeInv
<1>2. DOMAIN refunds = 1 .. Len(refunds) /\ Len(refunds) \in Nat BY <1>1
<1>3. IsFiniteSet(DOMAIN refunds) BY <1>2, FS_Interval
<1>4. IsFiniteSet(recorded) BY <1>1, <1>3, FS_Subset
<1>5. ASSUME NEW i \in recorded PROVE refunds[i].amount \in Nat
  <2>1. refunds[i] \in RefundType BY <1>1, RefundIsOf
  <2> QED BY <2>1, LedgerAssumption DEF RefundType
<1> QED BY <1>4, <1>5 DEF Amounts

\* A step that settles nothing.
LEMMA RecordKept ==
  ASSUME RefundInv, RecordInv, payment'.refunded = payment.refunded, UNCHANGED recorded,
         \A i \in DOMAIN refunds :
             /\ refunds'[i].command = refunds[i].command /\ refunds'[i].amount = refunds[i].amount
             /\ Arrived(i) => Arrived(i)',
         \A c \in Commands :
             /\ commands'[c].status = "succeeded" <=> commands[c].status = "succeeded"
             /\ commands[c].status = "succeeded" => commands'[c].refund = commands[c].refund
  PROVE  RecordInv'
<1>1. recorded \subseteq DOMAIN refunds BY DEF RefundInv, StripeInv
<1>2. AmountOf(refunds', recorded) = AmountOf(refunds, recorded)
  <2>1. \A i \in recorded : refunds'[i].amount = refunds[i].amount BY <1>1
  <2>2. IsFiniteSet(recorded) BY RecordedAmounts DEF Amounts
  <2> QED BY <2>1, <2>2, AmountSame
<1>3. (AmountOf(refunds, recorded))' = AmountOf(refunds', recorded) OBVIOUS
<1>4. \A i \in recorded : Arrived(i)' BY <1>1 DEF RecordInv
<1>5. (\E i \in recorded : refunds'[i].command # Dashboard) =>
          \E c \in Commands : commands'[c].status = "succeeded"
  BY <1>1 DEF RecordInv
<1> QED BY <1>2, <1>3, <1>4, <1>5 DEF RecordInv

\* A step that writes one command and settles nothing.
LEMMA RecordWrite ==
  ASSUME RefundInv, RecordInv, payment'.refunded = payment.refunded, UNCHANGED <<recorded, refunds>>,
         NEW c \in Commands, NEW new, commands' = [commands EXCEPT ![c] = new],
         commands[c].status # "succeeded", new.status # "succeeded"
  PROVE  RecordInv'
<1>1. \A d \in Commands : commands'[d] = IF d = c THEN new ELSE commands[d]
  BY DEF RefundInv, CommandsInv
<1> QED BY <1>1, RecordKept DEF Arrived

\* The amount is added for a refund that was not recorded.
LEMMA RecordOne ==
  ASSUME RefundInv, RecordInv, NEW i \in DOMAIN refunds, i \notin recorded,
         payment'.refunded = payment.refunded + refunds[i].amount,
         recorded' = recorded \cup {i}, UNCHANGED refunds
  PROVE  payment'.refunded = (AmountOf(refunds, recorded))'
<1>1. Amounts(refunds, recorded) BY RecordedAmounts
<1>2. refunds[i].amount \in Nat BY RefundIsOf, LedgerAssumption DEF RefundType
<1>3. AmountOf(refunds, recorded \cup {i}) = AmountOf(refunds, recorded) + refunds[i].amount
  BY <1>1, <1>2, AmountWith
<1>4. (AmountOf(refunds, recorded))' = AmountOf(refunds, recorded \cup {i}) OBVIOUS
<1> QED BY <1>3, <1>4 DEF RecordInv

LEMMA RecordSettle ==
  ASSUME RefundInv, BelongInv, RecordInv, SettleRefund
  PROVE  RecordInv'
<1>1. exec # Idle BY DEF SettleRefund, Idle
<1>c. PICK c \in Commands : c = exec.command BY <1>1, Running
<1>i. PICK i \in DOMAIN refunds : i = exec.refund BY DEF SettleRefund, RefundInv, ExecInv
<1>2. /\ commands[c].status = "pending" /\ IsLast(c) /\ commands[c] \in CommandType
  BY <1>1, <1>c, Running
<1>3. /\ refunds[i].command \in Commands /\ refunds[i].command # Dashboard /\ Arrived(i)
  BY <1>i, RefundIsOf DEF SettleRefund, BelongInv, WorkInv
<1>4. \A d \in Commands : commands[d].status # "succeeded"
  BY <1>2, LiveIsLast, LastIsOne DEF BelongInv
<1>5. i \notin recorded BY <1>3, <1>4 DEF RecordInv
<1>6. refunds[i].amount = commands[c].amount
  <2>1. Used(c) /\ Used(refunds[i].command)
        /\ refunds[i].amount = commands[refunds[i].command].amount
    BY <1>2, <1>3 DEF IsLast, BelongInv, OwnerInv
  <2> QED BY <1>3, <2>1 DEF BelongInv, QueueInv
<1>7. /\ payment'.refunded = payment.refunded + refunds[i].amount
      /\ recorded' = recorded \cup {i} /\ UNCHANGED refunds
  BY <1>c, <1>i, <1>6 DEF SettleRefund, ApplyCardRefundMoney
<1> DEFINE new == [commands[c] EXCEPT !.status = "succeeded", !.refund = i]
<1>8. new.status = "succeeded" /\ new.refund = i BY <1>2 DEF CommandType
<1>9. commands' = [commands EXCEPT ![c] = new] BY <1>c, <1>i DEF SettleRefund
<1> HIDE DEF new
<1>10. \A d \in Commands : commands'[d] = IF d = c THEN new ELSE commands[d]
  BY <1>9 DEF RefundInv, CommandsInv
<1>11. payment'.refunded = (AmountOf(refunds, recorded))' BY <1>5, <1>7, RecordOne
<1>12. \A j \in recorded' : Arrived(j)' BY <1>3, <1>7 DEF RecordInv, Arrived
<1>13. \A d \in Commands : commands'[d].status = "succeeded" => commands'[d].refund \in recorded'
  BY <1>4, <1>7, <1>8, <1>10
<1>14. \E d \in Commands : commands'[d].status = "succeeded" BY <1>8, <1>10
<1> QED BY <1>11, <1>12, <1>13, <1>14 DEF RecordInv

LEMMA RecordDashboard ==
  ASSUME RefundInv, RecordInv, NEW i \in DOMAIN refunds, RecordDashboardRefund(i)
  PROVE  RecordInv'
<1>1. /\ payment'.refunded = payment.refunded + refunds[i].amount
      /\ recorded' = recorded \cup {i} /\ UNCHANGED <<refunds, commands>>
      /\ i \notin recorded /\ refunds[i].command = Dashboard /\ Arrived(i)
  BY DEF RecordDashboardRefund, ApplyCardRefundMoney
<1>2. payment'.refunded = (AmountOf(refunds, recorded))' BY <1>1, RecordOne
<1> QED BY <1>1, <1>2 DEF RecordInv, Arrived

\* What Stripe does and what the executor writes before it settles records
\* nothing, and what arrived has arrived.
LEMMA RecordStripe ==
  ASSUME RefundInv, RecordInv, StripeStep \/ StripeDashboard
  PROVE  RecordInv'
<1>0. UNCHANGED <<payment, commands, recorded>>
  BY DEF StripeStep, StripeDashboard, StripeCreates, StripeRefuses, StripeEnds, StripeFailsLate,
         StripeUnchanged, ledgerVars
<1>1. ASSUME NEW c, NEW attempt, NEW amount, MakeRefund(c, attempt, amount)
      PROVE  RecordInv'
  <2>1. \A i \in DOMAIN refunds : refunds'[i] = refunds[i] BY <1>1, MakeAppends
  <2> QED BY <1>0, <2>1, RecordKept DEF Arrived
<1>2. ASSUME NEW k \in inflight, StripeRefuses(k) PROVE RecordInv'
  <2>1. UNCHANGED refunds BY <1>2 DEF StripeRefuses
  <2> QED BY <1>0, <2>1, RecordKept DEF Arrived
<1>3. ASSUME NEW i \in DOMAIN refunds, StripeEnds(i) \/ StripeFailsLate(i) PROVE RecordInv'
  <2>1. Turned(i) BY <1>3, Turns
  <2>2. \A j \in DOMAIN refunds :
            /\ refunds'[j].command = refunds[j].command /\ refunds'[j].amount = refunds[j].amount
            /\ Arrived(j) => Arrived(j)'
    BY <2>1 DEF Turned, Arrived
  <2> QED BY <1>0, <2>2, RecordKept
<1> QED BY <1>1, <1>2, <1>3 DEF StripeStep, StripeDashboard, StripeCreates

LEMMA RecordExecutor ==
  ASSUME RefundInv, BelongInv, RecordInv,
         ExecutorStep \/ AnswerLost \/ ExecutorCrash \/ \E c \in Commands : WaitOver(c),
         ~SettleRefund
  PROVE  RecordInv'
<1>0. UNCHANGED <<payment, refunds, recorded>>
  BY DEF ExecutorStep, AnswerLost, ExecutorCrash, WaitOver, ExecuteBegin, RetrieveRefund,
         ListFinds, ListBlocks, CreateRefund, CreateAnswered, CreateRefused, FollowLater,
         FailRefund, ExecutorUnchanged, ledgerVars
<1>1. CASE UNCHANGED commands BY <1>0, <1>1, RecordKept DEF Arrived
<1>2. ASSUME NEW c \in Commands, WaitOver(c) PROVE RecordInv'
  <2>1. \A d \in Commands : /\ commands'[d].status = commands[d].status
                            /\ commands'[d].refund = commands[d].refund
    BY <1>2, WaitWrites
  <2> QED BY <1>0, <2>1, RecordKept DEF Arrived
<1>3. CASE ListBlocks \/ CreateRefused \/ AnswerLost \/ FollowLater \/ FailRefund
  <2>1. PICK new \in CommandType : Written(new) /\ new.status # "succeeded" BY <1>3, Writes
  <2>2. exec.command \in Commands /\ commands[exec.command].status = "pending"
    BY <2>1, Running DEF Written
  <2> QED BY <1>0, <2>1, <2>2, RecordWrite DEF Written
<1>4. CASE \/ \E c \in Commands : ExecuteBegin(c)
           \/ RetrieveRefund \/ ListFinds \/ CreateRefund \/ CreateAnswered \/ ExecutorCrash
  BY <1>1, <1>4 DEF ExecuteBegin, RetrieveRefund, ListFinds, CreateRefund, CreateAnswered,
                    ExecutorCrash
<1> QED BY <1>2, <1>3, <1>4 DEF ExecutorStep

LEMMA RecordAsk ==
  ASSUME RefundInv, BelongInv, RecordInv, CancelStay \/ RetryRefund
  PROVE  RecordInv'
<1>0. UNCHANGED <<payment, refunds, recorded>> BY DEF CancelStay, RetryRefund, ledgerVars
<1>1. CASE UNCHANGED commands BY <1>0, <1>1, RecordKept DEF Arrived
<1>2. ASSUME NEW c \in Commands, NEW amount, NextCommand(c), InsertCommand(c, amount)
      PROVE  RecordInv'
  <2>1. /\ \A d \in Commands : d # c => commands'[d] = commands[d]
        /\ commands'[c].status = "pending" /\ commands[c].status # "succeeded"
    BY <1>2, Inserts
  <2>2. \A d \in Commands :
            /\ commands'[d].status = "succeeded" <=> commands[d].status = "succeeded"
            /\ commands[d].status = "succeeded" => commands'[d].refund = commands[d].refund
    BY <2>1
  <2> QED BY <1>0, <2>2, RecordKept DEF Arrived
<1> QED BY <1>1, <1>2, Asked

-----------------------------------------------------------------------------
(* The invariant *)

GuestInv == IInv /\ EarnedInv /\ BelongInv /\ RecordInv /\ (~overtaken => OneRefundInv)

LEMMA GuestInit == Init => GuestInv
<1> SUFFICES ASSUME Init PROVE GuestInv
  OBVIOUS
<1> USE LedgerAssumption, RefundAssumption DEF Init, LedgerInit, RefundInit
<1>1. IInv BY InitIInv
<1>2. EarnedInv
  <2>1. \A i \in PayoutIds : payouts[i].amount = 0 /\ ~payouts[i].returned BY DEF NoPayout
  <2>2. IsFiniteSet(Kept) /\ Amounts(payouts, Kept) BY <1>1, KeptAmounts DEF IInv, Amounts
  <2> DEFINE P == {s \in SUBSET Kept : AmountOf(payouts, s) = 0}
  <2>3. ASSUME NEW s \in SUBSET Kept, \A x \in s : s \ {x} \in P PROVE s \in P
    <3>1. IsFiniteSet(s) BY <2>2, FS_Subset
    <3>2. CASE s = {}
      <4>1. AmountOf(payouts, s) = 0 BY <3>1, <3>2, AmountPeels
      <4> QED BY <4>1
    <3>3. CASE s # {}
      <4>1. Pick(s) \in s BY <3>3, PickIn
      <4>2. payouts[Pick(s)].amount = 0 BY <2>1, <4>1 DEF Kept
      <4>3. AmountOf(payouts, s \ {Pick(s)}) = 0 BY <2>3, <4>1
      <4>4. AmountOf(payouts, s) = 0 + 0 BY <3>1, <3>3, <4>2, <4>3, AmountPeels
      <4> QED BY <4>4
    <3> QED BY <3>2, <3>3
  <2> HIDE DEF P
  <2>4. \A s \in SUBSET Kept : s \in P BY <2>2, <2>3, SubsetsAll
  <2>5. Kept \in P BY <2>4
  <2>6. AmountOf(payouts, Kept) = 0 BY <2>5 DEF P
  <2> QED BY <2>1, <2>6 DEF EarnedInv
<1>3. BelongInv /\ OneRefundInv
  <2>1. \A c \in Commands : commands[c] = NoCommand OBVIOUS
  <2>2. CommandMade = {} BY DEF CommandMade, Live
  <2>3. NoCommand.status = "none" /\ ~NoCommand.waiting /\ NoCommand.why = "none"
    BY DEF NoCommand
  <2>4. Idle.pc = "idle" BY DEF Idle
  <2>5. BelongInv BY <2>1, <2>3, <2>4 DEF BelongInv, QueueInv, OwnerInv, WorkInv, Used
  <2>6. OneRefundInv
    BY <2>1, <2>2, <2>3, <2>4 DEF OneRefundInv, MadeInv, RequestInv, FollowInv, RunInv
  <2> QED BY <2>5, <2>6
<1>4. RecordInv
  <2>1. AmountOf(refunds, {}) = 0 BY FS_EmptySet, AmountPeels
  <2>2. \A c \in Commands : commands[c].status = "none" BY DEF NoCommand
  <2> QED BY <2>1, <2>2 DEF RecordInv
<1> QED BY <1>1, <1>2, <1>3, <1>4 DEF GuestInv

LEMMA GuestStep == GuestInv /\ [Next]_vars => GuestInv'
<1> SUFFICES ASSUME GuestInv, [Next]_vars PROVE GuestInv'
  OBVIOUS
<1>0. /\ IInv /\ MoneyInv /\ PayoutInv /\ RefundInv
      /\ EarnedInv /\ BelongInv /\ RecordInv
      /\ ~overtaken => OneRefundInv
  BY DEF GuestInv, IInv
<1>i. IInv' BY <1>0, StepIInv
<1>e. ASSUME UNCHANGED <<ledgerVars, payoutVars>> PROVE EarnedInv'
  <2>1. UNCHANGED <<ledger, payment, payouts, starting>> BY <1>e DEF ledgerVars, payoutVars
  <2>2. ledger'.planFeeBack <= payment'.refunded BY <1>0, <2>1 DEF EarnedInv
  <2> QED BY <1>0, <2>1, <2>2, EarnedKept
<1>1. CASE CancelStay \/ RetryRefund
  <2>1. UNCHANGED <<ledgerVars, payoutVars>> BY <1>1 DEF CancelStay, RetryRefund
  <2>2. ~overtaken' => ~overtaken BY <1>1 DEF CancelStay, RetryRefund
  <2>3. ~overtaken' => OneRefundInv' BY <1>0, <1>1, <2>2, AskedStep
  <2> QED BY <1>0, <1>1, <1>e, <1>i, <2>1, <2>3, BelongAsk, RecordAsk DEF GuestInv
<1>2. CASE StripeStep \/ StripeDashboard
  <2>1. UNCHANGED <<ledgerVars, payoutVars, overtaken>>
    BY <1>2 DEF StripeStep, StripeDashboard, StripeCreates, StripeRefuses, StripeEnds,
                StripeFailsLate, StripeUnchanged
  <2>2. ~overtaken => OneRefundInv'
    BY <1>0, <1>2, CreatesStep, RefusesStep, Turns, TurnStep, DashboardStep DEF StripeStep
  <2> QED BY <1>0, <1>2, <1>e, <1>i, <2>1, <2>2, BelongStripe, RecordStripe DEF GuestInv
<1>w. CASE ListBlocks \/ CreateRefused \/ AnswerLost \/ FollowLater \/ FailRefund \/ SettleRefund
  <2>1. PICK new \in CommandType : Written(new) BY <1>0, <1>w, Writes
  <2>2. BelongInv' BY <1>0, <2>1, BelongWritten
  <2>3. ~overtaken' => OneRefundInv' BY <1>0, <2>1, WritingSteps DEF Written
  <2>4. EarnedInv' /\ RecordInv'
    <3>1. CASE SettleRefund
      <4>1. EarnedInv' BY <1>0, <3>1, SettleAmount, EarnedRefund DEF SettleRefund
      <4> QED BY <1>0, <3>1, <4>1, RecordSettle
    <3>2. CASE ~SettleRefund
      <4>1. UNCHANGED <<ledgerVars, payoutVars>>
        BY <1>w, <3>2 DEF ListBlocks, CreateRefused, AnswerLost, FollowLater, FailRefund,
                          ExecutorUnchanged
      <4> QED BY <1>0, <1>e, <1>w, <3>2, <4>1, RecordExecutor DEF ExecutorStep
    <3> QED BY <3>1, <3>2
  <2> QED BY <1>i, <2>2, <2>3, <2>4 DEF GuestInv
<1>4. CASE \/ \E c \in Commands : ExecuteBegin(c) \/ WaitOver(c)
           \/ RetrieveRefund \/ ListFinds \/ CreateRefund \/ CreateAnswered \/ ExecutorCrash
  <2>1. UNCHANGED <<ledgerVars, payoutVars, overtaken>>
    BY <1>4 DEF ExecutorCrash, WaitOver, ExecuteBegin, RetrieveRefund, ListFinds, CreateRefund,
                CreateAnswered, ExecutorUnchanged
  <2>2. BelongInv' BY <1>0, <1>4, BelongLooking, BelongWait
  <2>3. ~overtaken' => OneRefundInv'
    BY <1>0, <1>4, <2>1, LookingSteps, CreateStep, CrashStep, WaitStep
  <2>4. RecordInv'
    <3>1. CASE SettleRefund BY <1>0, <3>1, RecordSettle
    <3>2. CASE ~SettleRefund BY <1>0, <1>4, <3>2, RecordExecutor DEF ExecutorStep
    <3> QED BY <3>1, <3>2
  <2> QED BY <1>e, <1>i, <2>1, <2>2, <2>3, <2>4 DEF GuestInv
<1>q. ASSUME UNCHANGED <<canceled, commands, exec, refunds, inflight, refusals, overtaken>>
      PROVE  BelongInv' /\ (~overtaken' => OneRefundInv')
  BY <1>0, <1>q, BelongStutter, OneRefundStutter
<1>5. CASE \E i \in DOMAIN refunds : RecordDashboardRefund(i)
  <2>1. PICK i \in DOMAIN refunds : RecordDashboardRefund(i) BY <1>5
  <2>2. refunds[i].amount \in Nat BY <1>0, RefundIsOf, LedgerAssumption DEF RefundType
  <2>3. EarnedInv' BY <1>0, <2>1, <2>2, EarnedRefund DEF RecordDashboardRefund
  <2>4. BelongInv' /\ (~overtaken' => OneRefundInv') BY <1>q, <2>1 DEF RecordDashboardRefund
  <2> QED BY <1>0, <1>i, <2>1, <2>3, <2>4, RecordDashboard DEF GuestInv
<1>f. CASE \E i \in DOMAIN refunds : FlagDashboardFailure(i)
  <2>1. /\ UNCHANGED <<ledgerVars, payoutVars, recorded>>
        /\ UNCHANGED <<canceled, commands, exec, refunds, inflight, refusals, overtaken>>
    BY <1>f DEF FlagDashboardFailure
  <2>2. UNCHANGED payment BY <2>1 DEF ledgerVars
  <2>3. RecordInv' BY <1>0, <2>1, <2>2, RecordKept DEF Arrived
  <2> QED BY <1>e, <1>i, <1>q, <2>1, <2>3 DEF GuestInv
<1>6. CASE LedgerStep
  <2>1. UNCHANGED refundVars BY <1>6 DEF LedgerStep
  <2>2. BelongInv' /\ (~overtaken' => OneRefundInv') BY <1>q, <2>1 DEF refundVars
  <2>3. EarnedInv' /\ payment'.refunded = payment.refunded
    <3>1. CASE (RecordCharge \/ DisputeNext) /\ UNCHANGED payoutVars
      <4>1. payment'.refunded = payment.refunded
        BY <1>0, <3>1 DEF RecordCharge, DisputeNext, StripeWithdraws, StripeReinstates,
                          DisputeWithdrawn, DisputeReinstated, MoneyInv, PaymentType
      <4> QED BY <1>0, <3>1, <4>1, EarnedDispute
    <3>2. CASE PayoutNext(RefundPending)
      <4>1. RefundPending \in BOOLEAN BY DEF RefundPending
      <4>2. UNCHANGED payment
        BY <3>2 DEF PayoutNext, StartPayout, MarkSent, MarkReturned, RecordPayout, StartLost,
                    ReplaceDestination, DeleteDestination, ApproveDestination, ledgerVars
      <4> QED BY <1>0, <3>2, <4>1, <4>2, EarnedPayout
    <3> QED BY <1>6, <3>1, <3>2 DEF LedgerStep
  <2>4. RecordInv' BY <1>0, <2>1, <2>3, RecordKept DEF refundVars, Arrived
  <2> QED BY <1>i, <2>2, <2>3, <2>4 DEF GuestInv
<1>7. CASE UNCHANGED vars
  <2>1. UNCHANGED <<ledgerVars, payoutVars, refundVars, payment>> BY <1>7 DEF vars, ledgerVars
  <2>2. BelongInv' /\ (~overtaken' => OneRefundInv') BY <1>q, <2>1 DEF refundVars
  <2>3. RecordInv' BY <1>0, <2>1, RecordKept DEF refundVars, Arrived
  <2> QED BY <1>e, <1>i, <2>1, <2>2, <2>3 DEF GuestInv
<1> QED BY <1>1, <1>2, <1>w, <1>4, <1>5, <1>f, <1>6, <1>7 DEF Next, ExecutorStep

\* The inductive invariant of refunds, ledger and payouts together: commands,
\* executor and records agree on whose each refund is, the payouts are within
\* what was earned, and until a retry overtakes a create at most one refund of
\* the commands stands or is on its way.
THEOREM GuestInvariant == Spec => []GuestInv
  BY GuestInit, GuestStep, PTL DEF Spec

\* settleRefund and recordDashboardRefund: refunded_amount is the sum of the
\* refunds recorded, each recorded once and only after Stripe said it succeeded,
\* for any number of commands, refunds by hand, lost answers and crashes, though
\* any of them may fail late and a retry may overtake a create.
THEOREM RefundedAlwaysStripes == Spec => []RefundedIsStripes
<1>1. GuestInv => RefundedIsStripes BY DEF GuestInv, RecordInv, RefundedIsStripes, AmountOf
<1> QED BY <1>1, GuestInvariant, PTL

\* start, markReturned and the balance: what went out and was not sent back is
\* within what the hotel earned, for every fee, amount, bank unit and number of
\* payouts, whatever refunds and disputes come in between.
THEOREM PaidOutWithinEarned == Spec => []PaidOutAtMostEarned
<1>1. GuestInv => PaidOutAtMostEarned
  BY DEF GuestInv, EarnedInv, PaidOutAtMostEarned, AmountOf, Kept
<1> QED BY <1>1, GuestInvariant, PTL


-----------------------------------------------------------------------------
(* The promise to the guest *)

SaidOf(c) == IF commands[c].status = "pending" THEN "asked"
             ELSE IF commands[c].status = "succeeded" THEN "refunded"
             ELSE IF commands[c].why = "blocked" THEN "handed" ELSE "notRefunded"

LEMMA LastExists ==
  ASSUME NEW c \in Commands, Used(c)
  PROVE  \E d \in Commands : IsLast(d)
<1> USE RefundAssumption
<1> DEFINE N == {n \in Nat : \A e \in Commands :
                     Used(e) /\ MaxCommands - e <= n => \E d \in Commands : IsLast(d)}
<1>0. \A e \in Commands : e \in 1 .. MaxCommands BY DEF Commands
<1>1. 0 \in N
  <2> SUFFICES ASSUME NEW e \in Commands, Used(e), MaxCommands - e <= 0
               PROVE  \E d \in Commands : IsLast(d)
    OBVIOUS
  <2>1. \A d \in Commands : ~(d > e) BY <1>0
  <2> QED BY <2>1 DEF IsLast
<1>2. ASSUME NEW n \in N PROVE n + 1 \in N
  <2> SUFFICES ASSUME NEW e \in Commands, Used(e), MaxCommands - e <= n + 1
               PROVE  \E d \in Commands : IsLast(d)
    OBVIOUS
  <2>1. CASE IsLast(e) BY <2>1
  <2>2. CASE ~IsLast(e)
    <3>1. PICK d \in Commands : d > e /\ Used(d) BY <2>2 DEF IsLast
    <3>2. MaxCommands - d <= n BY <1>0, <3>1
    <3> QED BY <3>1, <3>2
  <2> QED BY <2>1, <2>2
<1>3. N \in SUBSET Nat OBVIOUS
<1> HIDE DEF N
<1>4. \A n \in Nat : n \in N BY <1>1, <1>2, <1>3, NumbersAll
<1>5. MaxCommands - c \in N BY <1>0, <1>4
<1> QED BY <1>5 DEF N

LEMMA LatestLast ==
  ASSUME NEW c \in Commands, IsLast(c)
  PROVE  Latest = c
<1>1. c \in Commands \ Unused /\ \A d \in Commands \ Unused : c >= d
  BY CommandNumbers DEF IsLast, Used, Unused
<1>2. Max(Commands \ Unused) = c
  <2>1. \A d \in Commands \ Unused : (\A e \in Commands \ Unused : d >= e) => d = c
    BY <1>1, CommandNumbers
  <2> QED BY <1>1, <2>1 DEF Max
<1> QED BY <1>1, <1>2 DEF Latest

SaidRight == \A c \in Commands : RefundInv /\ ~overtaken /\ IsLast(c) => Said = SaidOf(c)

\* What is said is about the last command, if there is one, ...
LEMMA SaidOfLast == SaidRight
<1> SUFFICES ASSUME NEW c \in Commands, RefundInv, ~overtaken, IsLast(c) PROVE Said = SaidOf(c)
  BY DEF SaidRight
<1>3. Latest = c /\ c # 0 BY LatestLast, CommandNumbers
<1>4. commands[c].status \in {"pending", "succeeded", "failed"}
  BY DEF RefundInv, CommandsInv, CommandType, Statuses, IsLast, Used
<1> QED BY <1>3, <1>4 DEF Said, SaidOf

\* ... before a step and after it.
LEMMA SaidOfLastNext == SaidRight'
  BY SaidOfLast, PTL

LEMMA SaidNothing ==
  ASSUME ~overtaken, \A c \in Commands : ~Used(c)
  PROVE  Said = "none"
<1>1. Unused = Commands BY DEF Unused, Used
<1> QED BY <1>1 DEF Said, Latest

MovedRight ==
    ~overtaken => /\ CommandMade = {} => Moved = 0
                  /\ \A i : CommandMade = {i} => Moved = 1

LEMMA MovedIs == MovedRight
  BY FS_EmptySet, FS_Singleton DEF Moved, MovedRight

LEMMA MovedIsNext == MovedRight'
  BY MovedIs, PTL

\* Once a create is overtaken nothing is promised any more.
LEMMA NothingPromised ==
  ASSUME RefundInv, [Next]_vars, overtaken
  PROVE  overtaken' /\ UNCHANGED <<Said, Moved, Reached>>
<1>1. overtaken'
  <2>1. CASE RetryRefund BY <2>1 DEF RetryRefund
  <2>2. CASE UNCHANGED overtaken BY <2>2
  <2> QED
    BY <2>1, <2>2
       DEF Next, ExecutorStep, StripeStep, CancelStay, ExecuteBegin, RetrieveRefund, ListFinds,
           ListBlocks, CreateRefund, CreateAnswered, CreateRefused, FollowLater, FailRefund,
           SettleRefund, StripeCreates, StripeRefuses, StripeEnds, StripeFailsLate,
           StripeDashboard, StripeUnchanged, AnswerLost, ExecutorCrash, WaitOver,
           ExecutorUnchanged, RecordDashboardRefund, FlagDashboardFailure, LedgerStep,
           refundVars, vars
<1>2. Said = "overtaken" /\ Moved = 0 /\ Reached = FALSE BY DEF Said, Moved, Reached
<1>3. Said' = "overtaken" /\ Moved' = 0 /\ Reached' = FALSE BY <1>1 DEF Said, Moved, Reached
<1> QED BY <1>1, <1>2, <1>3

\* What arrived counts as long as its command is open.
LEMMA ReachedSame ==
  ASSUME UNCHANGED <<refunds, overtaken>>, \A d : Open(d)' = Open(d)
  PROVE  UNCHANGED <<Moved, Reached>>
<1>1. UNCHANGED Moved BY MadeSame DEF Moved
<1>2. \A i \in DOMAIN refunds : Open(refunds[i].command)' <=> Open(refunds[i].command)
  OBVIOUS
<1>3. Reached' <=> Reached BY <1>2 DEF Reached, Arrived
<1> QED BY <1>1, <1>3 DEF Reached

\* The executor's steps: it says "refunded" of a refund that arrived, and "not
\* refunded" when none stands or is on its way.
LEMMA PromiseWrite ==
  ASSUME GuestInv, ~overtaken, RefundInv',
         ListBlocks \/ CreateRefused \/ AnswerLost \/ FollowLater \/ FailRefund \/ SettleRefund
  PROVE  Promise!GRNext \/ UNCHANGED <<Said, Moved, Reached>>
<1>g. RefundInv /\ BelongInv /\ OneRefundInv BY DEF GuestInv, IInv
<1>n. PICK new \in CommandType : Written(new) BY <1>g, Writes
<1>c. PICK c \in Commands : c = exec.command BY <1>g, <1>n, Running DEF Written
<1>1. IsLast(c) /\ commands[c].status = "pending" BY <1>c, <1>g, <1>n, Running DEF Written
<1>2. UNCHANGED <<refunds, overtaken>> BY <1>n DEF Written
<1>3. UNCHANGED Moved BY <1>2, MadeSame DEF Moved
<1>4. Said = "asked" BY <1>1, <1>g, SaidOfLast DEF SaidOf, SaidRight
<1>5. /\ IsLast(c)' /\ commands'[c] = new
      /\ Said' = IF new.status = "pending" THEN "asked"
                 ELSE IF new.status = "succeeded" THEN "refunded"
                 ELSE IF new.why = "blocked" THEN "handed" ELSE "notRefunded"
  <2>1. IsLast(c)' /\ commands'[c] = new BY <1>1, <1>c, <1>g, <1>n, WrittenOne
  <2> QED BY <1>2, <2>1, SaidOfLastNext DEF SaidOf, SaidRight
<1>6. new.why \notin {"refused", "stripe"} => UNCHANGED Reached
  <2> SUFFICES ASSUME new.why \notin {"refused", "stripe"} PROVE UNCHANGED Reached
    OBVIOUS
  <2>1. \A d : Open(d)' = Open(d) BY <1>g, <1>n, StaysOpen
  <2> QED BY <1>2, <2>1, ReachedSame
<1>7. CASE new.status = "pending" /\ new.why = "none" BY <1>3, <1>4, <1>5, <1>6, <1>7
<1>8. CASE new.status = "failed" /\ new.why = "blocked"
  BY <1>3, <1>4, <1>5, <1>6, <1>8 DEF Promise!GRNext, Promise!HandOver
<1>9. CASE new.status = "failed" /\ new.why \in {"refused", "stripe"}
  <2>1. CommandMade = {} BY <1>9, <1>g, <1>n, ReportedNone
  <2>2. Moved = 0 BY <2>1, MovedIs DEF MovedRight
  <2>3. ASSUME NEW i \in DOMAIN refunds PROVE ~Open(refunds[i].command)'
    <3>1. CASE refunds[i].command = Dashboard
      <4>1. refunds[i].command \notin Commands BY <3>1, CommandNumbers DEF Dashboard
      <4> QED BY <1>2, <4>1 DEF Open
    <3>2. CASE refunds[i].command # Dashboard
      <4>1. refunds[i].command \in Commands /\ Used(refunds[i].command)
        BY <1>g, <3>2, RefundIsOf DEF BelongInv, OwnerInv
      <4>2. c >= refunds[i].command BY <1>1, <4>1, CommandNumbers DEF IsLast
      <4> QED BY <1>2, <1>5, <1>9, <4>1, <4>2 DEF Open
    <3> QED BY <3>1, <3>2
  <2>4. Reached' = FALSE BY <1>2, <2>3 DEF Reached
  <2>5. Said' = "notRefunded" BY <1>5, <1>9
  <2> QED BY <1>3, <1>4, <2>2, <2>4, <2>5 DEF Promise!GRNext, Promise!SayNotRefunded
<1>10. CASE new.status = "succeeded" /\ new.why = "none"
  <2>1. exec.pc = "answered" /\ exec.seen = "succeeded" BY <1>10, <1>n DEF Written
  <2>2. /\ exec.refund \in DOMAIN refunds /\ Arrived(exec.refund)
        /\ Open(refunds[exec.refund].command)
    BY <1>g, <2>1 DEF OneRefundInv, RunInv, Follows, BelongInv, WorkInv
  <2>3. Reached BY <2>2 DEF Reached
  <2>4. Said' = "refunded" BY <1>5, <1>10
  <2> QED BY <1>3, <1>4, <1>6, <1>10, <2>3, <2>4 DEF Promise!GRNext, Promise!SayRefunded
<1> QED BY <1>7, <1>8, <1>9, <1>10, <1>n DEF Written

\* A new command follows ones that failed; only when a person had taken over
\* may a create still be on its way, and then it is overtaken.
LEMMA PromiseAsk ==
  ASSUME GuestInv, ~overtaken, RefundInv', CancelStay \/ RetryRefund
  PROVE  Promise!GRNext \/ UNCHANGED <<Said, Moved, Reached>>
<1>g. RefundInv /\ BelongInv /\ OneRefundInv BY DEF GuestInv, IInv
<1>0. UNCHANGED <<exec, refunds, inflight, refusals>> BY DEF CancelStay, RetryRefund
<1>2. CASE UNCHANGED <<commands, overtaken>>
  <2>1. UNCHANGED Said BY <1>2 DEF Said, Latest, Unused
  <2>2. \A d : Open(d)' = Open(d) BY <1>2 DEF Open
  <2> QED BY <1>0, <1>2, <2>1, <2>2, ReachedSame
<1>3. ASSUME NEW c \in Commands, NEW amount, NextCommand(c), InsertCommand(c, amount),
             overtaken' = (overtaken \/ inflight # {})
      PROVE  Promise!GRNext
  <2>1. /\ IsLast(c)' /\ commands'[c].status = "pending"
        /\ \A d \in Commands : commands[d].status \in {"none", "failed"}
    BY <1>3, <1>g, Inserts
  <2>2. CASE inflight = {}
    <3>1. ~overtaken' /\ UNCHANGED overtaken BY <1>3, <1>g, <2>2 DEF RefundInv
    <3>2. Said' = "asked" BY <2>1, <3>1, SaidOfLastNext DEF SaidRight, SaidOf
    <3>3. Said \in {"none", "notRefunded", "handed"}
      <4>1. CASE \A d \in Commands : ~Used(d) BY <4>1, SaidNothing
      <4>2. ASSUME NEW d \in Commands, IsLast(d) PROVE Said \in {"notRefunded", "handed"}
        BY <1>g, <2>1, <4>2, SaidOfLast DEF SaidRight, SaidOf
      <4> QED BY <4>1, <4>2, LastExists
    <3>4. \A d : Open(d)' = Open(d) BY <1>0, <1>3, <1>g, <2>2, InsertStep
    <3>5. UNCHANGED <<Moved, Reached>> BY <1>0, <3>1, <3>4, ReachedSame
    <3> QED BY <3>2, <3>3, <3>5 DEF Promise!GRNext, Promise!Ask
  <2>3. CASE inflight # {}
    <3>1. PICK k \in inflight : TRUE BY <2>3
    <3>2. /\ IsLast(k.command) /\ k.command \in Commands
          /\ commands[k.command].status = "failed" /\ commands[k.command].why = "blocked"
      BY <1>g, <2>1, <3>1 DEF OneRefundInv, RequestInv, IsLast
    <3>3. Said = "handed" BY <1>g, <3>2, SaidOfLast DEF SaidRight, SaidOf
    <3>4. overtaken' BY <1>3, <2>3
    <3>5. Said' = "overtaken" /\ Moved' = 0 /\ Reached' = FALSE
      BY <3>4 DEF Said, Moved, Reached
    <3> QED BY <3>3, <3>5 DEF Promise!GRNext, Promise!Overtake
  <2> QED BY <2>2, <2>3
<1> QED BY <1>2, <1>3, <1>g, Asked

\* A refund comes to stand, or arrives, only while the last command is pending
\* or handed over; what stands may come back at any time.
LEMMA PromiseTurn ==
  ASSUME GuestInv, ~overtaken, NEW i \in DOMAIN refunds, Turned(i)
  PROVE  Promise!GRNext \/ UNCHANGED <<Said, Moved, Reached>>
<1>g. RefundInv /\ BelongInv /\ RecordInv /\ OneRefundInv BY DEF GuestInv, IInv
<1>0. UNCHANGED <<commands, overtaken>> /\ DOMAIN refunds' = DOMAIN refunds BY DEF Turned
<1>1. UNCHANGED Said BY <1>0 DEF Said, Latest, Unused
<1>2. \A d : Open(d)' = Open(d) BY <1>0 DEF Open
<1>3. \A j \in DOMAIN refunds : refunds'[j].command = refunds[j].command BY DEF Turned
<1>4. \A j : j # i => (j \in CommandMade' <=> j \in CommandMade)
  BY DEF Turned, CommandMade, Live
<1>5. CASE refunds[i].command = Dashboard
  <2>1. CommandMade' = CommandMade BY <1>0, <1>3, <1>4, <1>5 DEF CommandMade
  <2>2. UNCHANGED Moved BY <1>0, <2>1 DEF Moved
  <2>3. ~Open(Dashboard) BY CommandNumbers DEF Open, Dashboard
  <2>4. Reached' <=> Reached
    <3>1. \A j \in DOMAIN refunds : j # i => Arrived(j)' = Arrived(j) BY DEF Turned, Arrived
    <3>2. Reached <=> \E j \in DOMAIN refunds : Arrived(j) /\ refunds[j].command # Dashboard
                                                /\ Open(refunds[j].command)
      BY <2>3 DEF Reached
    <3>3. Reached' <=> \E j \in DOMAIN refunds : Arrived(j)' /\ refunds[j].command # Dashboard
                                                 /\ Open(refunds[j].command)
      BY <1>0, <1>3, <2>3 DEF Reached, Open
    <3> QED BY <1>5, <3>1, <3>2, <3>3
  <2> QED BY <1>1, <2>2, <2>4 DEF Reached
<1>6. CASE refunds[i].command # Dashboard
  <2>1. i \in CommandMade BY <1>6 DEF Turned, CommandMade, Live
  <2>2. CommandMade = {i} /\ Open(refunds[i].command)
    BY <1>g, <2>1 DEF OneRefundInv, MadeInv
  <2>3. Moved = 1 BY <2>2, MovedIs DEF MovedRight
  <2>4. CASE refunds[i].status = "pending" /\ refunds'[i].status = "succeeded"
    <3>1. i \in CommandMade' BY <1>0, <1>3, <1>6, <2>4 DEF CommandMade, Live
    <3>2. CommandMade' = {i} BY <1>4, <2>2, <3>1
    <3>3. Moved' = 1 BY <1>0, <3>2, MovedIsNext DEF MovedRight
    <3>4. Reached' = TRUE
      <4>1. Arrived(i)' BY <2>4 DEF Arrived
      <4>2. Open(refunds[i].command)' BY <1>0, <1>3, <2>2 DEF Open
      <4> QED BY <1>0, <4>1, <4>2 DEF Reached
    <3>5. refunds[i].command \in Commands /\ Used(refunds[i].command)
      BY <1>6, <1>g, RefundIsOf DEF BelongInv, OwnerInv
    <3>6. PICK c \in Commands : IsLast(c) BY <3>5, LastExists
    <3>7. commands[c].why \notin {"refused", "stripe"}
      <4>1. c >= refunds[i].command BY <3>5, <3>6, CommandNumbers DEF IsLast
      <4> QED BY <2>2, <4>1 DEF Open
    <3>8. commands[c].status # "succeeded"
      <4> SUFFICES ASSUME commands[c].status = "succeeded" PROVE FALSE
        OBVIOUS
      <4>1. commands[c].refund \in recorded /\ Arrived(commands[c].refund)
        BY <1>g DEF RecordInv
      <4>2. commands[c].refund # 0
        BY <1>g, <4>1 DEF RefundInv, StripeInv
      <4>3. commands[c].refund = i
        BY <1>g, <2>2, <4>2 DEF OneRefundInv, FollowInv, Follows
      <4> QED BY <2>4, <4>1, <4>3 DEF Arrived
    <3>9. \/ commands[c].status = "pending"
          \/ commands[c].status = "failed" /\ commands[c].why = "blocked"
      <4>1. commands[c] \in CommandType BY <1>g DEF RefundInv, CommandsInv
      <4> QED BY <1>g, <3>6, <3>7, <3>8, <4>1
              DEF CommandType, Statuses, IsLast, Used, BelongInv, QueueInv
    <3>10. Said \in {"asked", "handed"} BY <1>g, <3>6, <3>9, SaidOfLast DEF SaidRight, SaidOf
    <3> QED BY <1>1, <2>3, <3>3, <3>4, <3>10 DEF Promise!GRNext, Promise!Arrive
  <2>5. CASE \/ refunds[i].status = "pending" /\ refunds'[i].status = "failed"
             \/ refunds[i].status = "succeeded" /\ refunds'[i].status = "returned"
    <3>1. i \notin CommandMade' BY <2>5 DEF CommandMade, Live
    <3>2. CommandMade' = {} BY <1>4, <2>2, <3>1
    <3>3. Moved' = 0 BY <1>0, <3>2, MovedIsNext DEF MovedRight
    <3>4. \A j \in DOMAIN refunds : Arrived(j)' <=> Arrived(j) BY <2>5 DEF Turned, Arrived
    <3>5. Reached' <=> Reached BY <1>0, <1>3, <3>4 DEF Reached, Open
    <3> QED BY <1>1, <2>3, <3>3, <3>5 DEF Promise!GRNext, Promise!Bounce, Reached
  <2> QED BY <2>4, <2>5 DEF Turned
<1> QED BY <1>5, <1>6

LEMMA PromiseStripe ==
  ASSUME GuestInv, ~overtaken, StripeStep \/ StripeDashboard
  PROVE  Promise!GRNext \/ UNCHANGED <<Said, Moved, Reached>>
<1>g. RefundInv /\ BelongInv /\ OneRefundInv BY DEF GuestInv, IInv
<1>0. UNCHANGED <<commands, overtaken>>
  BY DEF StripeStep, StripeDashboard, StripeCreates, StripeRefuses, StripeEnds, StripeFailsLate,
         StripeUnchanged
<1>1. UNCHANGED Said BY <1>0 DEF Said, Latest, Unused
<1>2. \A d : Open(d)' = Open(d) BY <1>0 DEF Open
<1>3. ASSUME NEW k \in inflight, StripeCreates(k) PROVE Promise!GRNext
  <2>1. /\ IsLast(k.command) /\ k.command \in Commands /\ CommandMade = {}
        /\ \/ commands[k.command].status = "pending"
           \/ commands[k.command].status = "failed" /\ commands[k.command].why = "blocked"
    BY <1>g DEF OneRefundInv, RequestInv, IsLast
  <2>2. Said \in {"asked", "handed"} BY <1>g, <2>1, SaidOfLast DEF SaidRight, SaidOf
  <2>3. PICK n \in Nat :
            /\ n \notin DOMAIN refunds /\ DOMAIN refunds' = DOMAIN refunds \cup {n}
            /\ \A i \in DOMAIN refunds : refunds'[i] = refunds[i]
            /\ refunds'[n].command = k.command
            /\ refunds'[n].status \in {"pending", "succeeded"}
    BY <1>3, <1>g, MakeAppends DEF StripeCreates
  <2>4. k.command # Dashboard BY <2>1, CommandNumbers DEF Dashboard
  <2>5. CommandMade' = {n} BY <2>1, <2>3, <2>4 DEF CommandMade, Live
  <2>6. Moved = 0 BY <2>1, MovedIs DEF MovedRight
  <2>7. Moved' = 1 BY <1>0, <2>5, MovedIsNext DEF MovedRight
  <2>8. Reached => Reached'
    <3> SUFFICES ASSUME Reached PROVE Reached'
      OBVIOUS
    <3>1. PICK i \in DOMAIN refunds : Arrived(i) /\ Open(refunds[i].command) BY DEF Reached
    <3>2. i \in DOMAIN refunds' /\ Arrived(i)' BY <2>3, <3>1 DEF Arrived
    <3>3. Open(refunds[i].command)' BY <1>0, <2>3, <3>1 DEF Open
    <3> QED BY <1>0, <3>2, <3>3 DEF Reached
  <2>9. Reached' \in {Reached, TRUE} BY <2>8 DEF Reached
  <2> QED BY <1>1, <2>2, <2>6, <2>7, <2>9 DEF Promise!GRNext, Promise!Move
<1>4. ASSUME NEW k \in inflight, StripeRefuses(k) PROVE UNCHANGED <<Said, Moved, Reached>>
  <2>1. UNCHANGED refunds BY <1>4 DEF StripeRefuses
  <2> QED BY <1>0, <1>1, <1>2, <2>1, ReachedSame
<1>5. CASE StripeDashboard
  <2>1. PICK amount : MakeRefund(Dashboard, 0, amount) BY <1>5 DEF StripeDashboard
  <2>2. PICK n \in Nat :
            /\ n \notin DOMAIN refunds /\ DOMAIN refunds' = DOMAIN refunds \cup {n}
            /\ \A i \in DOMAIN refunds : refunds'[i] = refunds[i]
            /\ refunds'[n].command = Dashboard
    BY <1>g, <2>1, MakeAppends
  <2>3. CommandMade' = CommandMade BY <2>2 DEF CommandMade, Live
  <2>4. UNCHANGED Moved BY <1>0, <2>3 DEF Moved
  <2>5. ~Open(Dashboard) BY CommandNumbers DEF Open, Dashboard
  <2>6. Reached' <=> Reached
    <3>1. Reached' <=> \E i \in DOMAIN refunds' : Arrived(i)' /\ Open(refunds[i].command)
                                                  /\ i \in DOMAIN refunds
      BY <1>0, <2>2, <2>5 DEF Reached, Open
    <3>2. \A i \in DOMAIN refunds : Arrived(i)' <=> Arrived(i) BY <2>2 DEF Arrived
    <3> QED BY <2>2, <3>1, <3>2 DEF Reached
  <2> QED BY <1>1, <2>4, <2>6 DEF Reached
<1> QED BY <1>3, <1>4, <1>5, <1>g, Turns, PromiseTurn DEF StripeStep

\* The steps that neither write a command's outcome nor change what stands.
LEMMA PromiseQuiet ==
  ASSUME GuestInv,
         \/ \E c \in Commands : ExecuteBegin(c) \/ WaitOver(c)
         \/ RetrieveRefund \/ ListFinds \/ CreateRefund \/ CreateAnswered \/ ExecutorCrash
         \/ \E i \in DOMAIN refunds : RecordDashboardRefund(i) \/ FlagDashboardFailure(i)
         \/ LedgerStep \/ UNCHANGED vars
  PROVE  UNCHANGED <<Said, Moved, Reached>>
<1>0. UNCHANGED <<refunds, overtaken>>
  BY DEF ExecuteBegin, WaitOver, RetrieveRefund, ListFinds, CreateRefund, CreateAnswered,
         ExecutorCrash, ExecutorUnchanged, RecordDashboardRefund, FlagDashboardFailure,
         LedgerStep, refundVars, vars
<1>1. CASE UNCHANGED commands
  <2>1. UNCHANGED Said BY <1>0, <1>1 DEF Said, Latest, Unused
  <2>2. \A d : Open(d)' = Open(d) BY <1>1 DEF Open
  <2> QED BY <1>0, <2>1, <2>2, ReachedSame
<1>2. ASSUME NEW c \in Commands, WaitOver(c) PROVE UNCHANGED <<Said, Moved, Reached>>
  <2>0. RefundInv BY DEF GuestInv, IInv
  <2>1. \A d \in Commands : /\ commands'[d].status = commands[d].status
                            /\ commands'[d].why = commands[d].why
    BY <1>2, <2>0, WaitWrites
  <2>2. \A d : Open(d)' = Open(d) BY <2>1 DEF Open
  <2>3. UNCHANGED Latest /\ \A d : IsLast(d)' = IsLast(d)
    <3>1. UNCHANGED Unused BY <2>1 DEF Unused
    <3> QED BY <2>1, <3>1 DEF Latest, IsLast, Used
  <2>4. Latest \in Commands \/ Latest = 0
    <3>1. CASE \A d \in Commands : ~Used(d)
      <4>1. Unused = Commands BY <3>1 DEF Unused, Used
      <4> QED BY <4>1 DEF Latest
    <3>2. ASSUME NEW d \in Commands, Used(d) PROVE Latest \in Commands
      BY <2>0, <3>2, LastExists, LatestLast
    <3> QED BY <3>1, <3>2
  <2>5. UNCHANGED Said BY <1>0, <2>1, <2>3, <2>4 DEF Said
  <2> QED BY <1>0, <2>2, <2>5, ReachedSame
<1> QED
  BY <1>1, <1>2
     DEF ExecuteBegin, RetrieveRefund, ListFinds, CreateRefund, CreateAnswered, ExecutorCrash,
         RecordDashboardRefund, FlagDashboardFailure, LedgerStep, refundVars, vars

LEMMA PromiseStep ==
  GuestInv /\ GuestInv' /\ [Next]_vars => Promise!GRNext \/ UNCHANGED <<Said, Moved, Reached>>
<1> SUFFICES ASSUME GuestInv, GuestInv', [Next]_vars
             PROVE  Promise!GRNext \/ UNCHANGED <<Said, Moved, Reached>>
  OBVIOUS
<1>1. RefundInv /\ RefundInv' BY DEF GuestInv, IInv
<1>2. CASE overtaken BY <1>1, <1>2, NothingPromised
<1>3. CASE ~overtaken
  BY <1>1, <1>3, PromiseAsk, PromiseStripe, PromiseWrite, PromiseQuiet DEF Next, ExecutorStep
<1> QED BY <1>2, <1>3

\* executePricingCardRefund, retryPricingCardRefund and Stripe keep the promise
\* of GuestRefund for any number of commands, lost answers, crashes, late
\* failures and refunds by hand: one refund stands at most, and the guest is told
\* the truth about it, until a retry after a hand-over overtakes a create.
THEOREM RefundKeepsPromise == Spec => RefundPromise
<1>1. Init => Promise!GRInit
  <2> SUFFICES ASSUME Init PROVE Promise!GRInit
    OBVIOUS
  <2>1. ~overtaken /\ \A c \in Commands : ~Used(c)
    BY DEF Init, RefundInit, NoCommand, Used
  <2>2. CommandMade = {} BY DEF Init, RefundInit, CommandMade, Live
  <2>3. ~Reached BY DEF Init, RefundInit, Reached
  <2> QED BY <2>1, <2>2, <2>3, SaidNothing, MovedIs DEF Promise!GRInit, MovedRight
<1>2. GuestInv /\ GuestInv' /\ [Next]_vars => [Promise!GRNext]_<<Said, Moved, Reached>>
  BY PromiseStep
<1> QED BY <1>1, <1>2, GuestInvariant, PTL DEF Spec, RefundPromise, Promise!GRSpec
=============================================================================
