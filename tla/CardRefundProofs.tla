-------------------------- MODULE CardRefundProofs --------------------------
(***************************************************************************)
(* The hotel's ledger and its payouts under every refund, dispute and      *)
(* payout the system can make, for every amount, fee, rounding step and    *)
(* number of commands, payouts and faults.                                 *)
(*                                                                         *)
(* The inductive invariant has one part per group of variables.  MoneyInv  *)
(* needs, beyond TakenExact, how what a dispute took relates to what Stripe *)
(* withdrew (a refund may have taken a part of it first); PayoutInv, that  *)
(* the account a running start has read is still the approved one;         *)
(* RefundInv, that commands and requests under way belong to refunds that  *)
(* were asked for.                                                         *)
(***************************************************************************)
EXTENDS CardRefund, TLAPS

Phases == {"none", "withdrawn", "reinstated"}
PaymentType == [status : {"open", "paid", "partially_refunded", "refunded"},
                refunded : 0 .. Paid]
LedgerType == [charged : BOOLEAN, taken : 0 .. Paid, planFeeBack : 0 .. PlanFee,
               disputeFee : 0 .. DisputeFee, paidOut : Int]
DisputeType == [phase : Phases, taken : 0 .. Paid, fee : 0 .. DisputeFee]

MoneyInv ==
    /\ payment \in PaymentType
    /\ ledger \in LedgerType
    /\ dispute \in DisputeType
    /\ stripeDispute \in [phase : Phases, amount : 0 .. Paid]
    /\ dispute.phase # "none" => stripeDispute.phase # "none"
    /\ dispute.phase = "none" => ledger.disputeFee = 0
    /\ dispute.phase = "withdrawn" =>
           /\ ledger.disputeFee = dispute.fee
           /\ dispute.taken <= stripeDispute.amount
           /\ ledger.taken = Lesser(Paid, payment.refunded + dispute.taken)
    /\ TakenExact

PayoutType == [amount : Nat, destination : DestinationIds, sent : BOOLEAN, returned : BOOLEAN]

PayoutInv ==
    /\ payouts \in [PayoutIds -> PayoutType]
    /\ destination \in [id : DestinationIds, enabled : BOOLEAN, approved : BOOLEAN]
    /\ starting \in [id : 0 .. MaxPayouts, amount : Nat, destination : DestinationIds]
    /\ starting # NoStart =>
           /\ starting.id \in PayoutIds
           /\ destination.enabled /\ destination.approved
           /\ starting.destination = destination.id

Statuses == {"none", "pending", "succeeded", "failed"}
CommandType == [status : Statuses, amount : 0 .. Paid, attempts : 0 .. AttemptsCap,
                waiting : BOOLEAN, refund : Nat, why : {"none", "refused", "stripe", "blocked"}]
ExecType == [pc : {"idle", "looking", "creating", "answered"}, command : 0 .. MaxCommands,
             refund : Nat, seen : {"none", "pending", "succeeded", "failed"}]
RefundType == [command : 0 .. MaxCommands, attempt : 0 .. AttemptsCap, amount : 1 .. Paid,
               status : {"pending", "succeeded", "failed", "returned"}]
KeyType == [command : Commands, attempt : 0 .. AttemptsCap]
FaultType == [errors : 0 .. MaxErrors, crashes : 0 .. MaxCrashes, dashboard : 0 .. MaxDashboard]

CommandsInv ==
    /\ commands \in [Commands -> CommandType]
    /\ \A c \in Commands :
           /\ commands[c].status # "none" => commands[c].amount > 0
           /\ commands[c].refund # 0 => commands[c].refund \in DOMAIN refunds

ExecInv ==
    /\ exec \in ExecType
    /\ exec # Idle => exec.command \in Commands /\ commands[exec.command].status # "none"
    /\ exec.pc = "answered" => exec.refund \in DOMAIN refunds

StripeInv ==
    /\ refunds \in Seq(RefundType)
    /\ inflight \subseteq KeyType
    /\ \A k \in inflight : commands[k.command].status # "none"
    /\ refusals \subseteq KeyType
    /\ recorded \subseteq DOMAIN refunds /\ flagged \subseteq recorded

RefundInv ==
    /\ canceled \in BOOLEAN /\ overtaken \in BOOLEAN
    /\ faults \in FaultType
    /\ CommandsInv /\ ExecInv /\ StripeInv

IInv == MoneyInv /\ PayoutInv /\ RefundInv

-----------------------------------------------------------------------------
(* The arithmetic of the operators *)

LEMMA DivBound ==
  ASSUME NEW n \in Nat, NEW d \in Nat \ {0}, NEW m \in Nat, n < d * (m + 1)
  PROVE  n \div d \in 0 .. m
<1>1. n \div d \in Int /\ n \div d >= 0 OBVIOUS
<1>2. d * (n \div d) <= n OBVIOUS
<1>3. ASSUME n \div d >= m + 1 PROVE FALSE
  <2>1. d * (n \div d) >= d * (m + 1) BY <1>1, <1>3, Z3
  <2> QED BY <1>1, <1>2, <2>1
<1> QED BY <1>1, <1>3

LEMMA PlanFeeBackBound ==
  ASSUME NEW r \in 0 .. Paid
  PROVE  PlanFeeBack(r) \in 0 .. PlanFee
<1> USE LedgerAssumption
<1>1. PlanFee \in Nat /\ Paid \in Nat /\ r \in Nat OBVIOUS
<1>2. PlanFee * r \in Nat /\ PlanFee * r <= PlanFee * Paid BY <1>1, Z3
<1>3. (2 * Paid) * (PlanFee + 1) = 2 * (PlanFee * Paid) + 2 * Paid BY <1>1, Z3
<1>4. PlanFee * Paid \in Nat BY <1>1, Z3
<1>5. PlanFee * r * 2 + Paid \in Nat BY <1>1, <1>2
<1>6. PlanFee * r * 2 + Paid < (2 * Paid) * (PlanFee + 1)
  <2>1. PlanFee * r * 2 <= 2 * (PlanFee * Paid) BY <1>2, <1>4
  <2> QED BY <2>1, <1>1, <1>2, <1>3, <1>4
<1>7. 2 * Paid \in Nat \ {0} BY <1>1
<1> QED BY <1>1, <1>5, <1>6, <1>7, DivBound DEF PlanFeeBack

LEMMA RefundMinorBound ==
  ASSUME NEW retained \in 0 .. Paid
  PROVE  pricingCardRefundMinor(retained) \in 0 .. Paid
<1> USE LedgerAssumption, RefundAssumption
<1> DEFINE x == Paid - retained + AmountStep - 1
<1>1. x \in Nat OBVIOUS
<1>2. x \div AmountStep \in Nat BY <1>1
<1>3. (x \div AmountStep) * AmountStep \in Nat BY <1>2, Z3
<1> QED BY <1>1, <1>3 DEF pricingCardRefundMinor, Lesser

LEMMA PayNowNat ==
  ASSUME NEW p \in Int
  PROVE  vayadaPayNow(p) \in Nat
  BY LedgerAssumption DEF vayadaPayNow

-----------------------------------------------------------------------------
(* The money: the steps of HotelLedger that change it *)

LEMMA ChargeStep == MoneyInv /\ RecordCharge => MoneyInv'
  BY LedgerAssumption DEF MoneyInv, RecordCharge, TakenExact, PaymentType, LedgerType

\* A refund takes what neither an earlier refund nor an open dispute took.
LEMMA RefundMoneyStep ==
  ASSUME MoneyInv, NEW amount \in Nat, ApplyCardRefundMoney(amount)
  PROVE  MoneyInv'
<1> USE LedgerAssumption
<1> DEFINE r == payment.refunded + amount
           d == disputed
<1>1. /\ payment \in PaymentType /\ ledger \in LedgerType /\ dispute \in DisputeType
      /\ stripeDispute \in [phase : Phases, amount : 0 .. Paid]
  BY DEF MoneyInv
<1>2. r \in 0 .. Paid BY <1>1 DEF ApplyCardRefundMoney, PaymentType
<1>3. d \in 0 .. Paid BY <1>1 DEF disputed, DisputeType
<1>4. UNCHANGED <<dispute, stripeDispute>> BY DEF ApplyCardRefundMoney
<1>5. payment' \in PaymentType /\ payment'.refunded = r
  BY <1>2 DEF ApplyCardRefundMoney, PaymentType
<1>6. ledger.taken = Lesser(Paid, payment.refunded + d)
  BY <1>1 DEF MoneyInv, TakenExact, disputed, DisputeType
<1>7. ledger.taken + Positive(Lesser(Paid, r + d) - ledger.taken) = Lesser(Paid, r + d)
  BY <1>1, <1>2, <1>3, <1>6 DEF Lesser, Positive, PaymentType
<1>8. ledger.planFeeBack + Positive(PlanFeeBack(r) - ledger.planFeeBack) \in 0 .. PlanFee
  BY <1>1, <1>2, PlanFeeBackBound DEF Positive, LedgerType
<1>9. ledger' = [ledger EXCEPT
          !.taken = @ + Positive(Lesser(Paid, r + d) - @),
          !.planFeeBack = @ + Positive(PlanFeeBack(r) - @)]
  BY DEF ApplyCardRefundMoney, LedgerAfterRefund
<1>10. /\ ledger' \in LedgerType
       /\ ledger'.taken = Lesser(Paid, r + d)
       /\ ledger'.disputeFee = ledger.disputeFee
  <2>1. Lesser(Paid, r + d) \in 0 .. Paid BY <1>2, <1>3 DEF Lesser
  <2> QED BY <1>1, <1>7, <1>8, <1>9, <2>1 DEF LedgerType
<1>11. TakenExact'
  <2>1. CASE dispute.phase = "withdrawn"
    <3>1. d = dispute.taken BY <2>1 DEF disputed
    <3>2. /\ d <= stripeDispute.amount
          /\ Lesser(Paid, payment.refunded + d)
                = Lesser(Paid, payment.refunded + stripeDispute.amount)
      BY <2>1, <3>1, <1>6 DEF MoneyInv, TakenExact
    <3>3. stripeDispute.amount \in 0 .. Paid /\ payment.refunded \in 0 .. Paid
      BY <1>1 DEF PaymentType
    <3>4. Lesser(Paid, r + d) = Lesser(Paid, r + stripeDispute.amount)
      BY <1>2, <1>3, <3>2, <3>3 DEF Lesser
    <3> QED BY <1>4, <1>5, <1>10, <2>1, <3>4 DEF TakenExact
  <2>2. CASE dispute.phase # "withdrawn"
    BY <1>4, <1>5, <1>10, <2>2 DEF TakenExact, disputed
  <2> QED BY <2>1, <2>2
<1> QED BY <1>1, <1>4, <1>5, <1>10, <1>11 DEF MoneyInv, disputed

LEMMA WithdrawnStep == MoneyInv /\ DisputeWithdrawn => MoneyInv'
<1> SUFFICES ASSUME MoneyInv, DisputeWithdrawn PROVE MoneyInv'
  OBVIOUS
<1> USE LedgerAssumption
<1> DEFINE took == Positive(Lesser(Paid, payment.refunded + disputed + stripeDispute.amount)
                            - ledger.taken)
           fee == IF took > 0 THEN DisputeFee ELSE 0
<1>1. /\ payment \in PaymentType /\ ledger \in LedgerType /\ dispute \in DisputeType
      /\ stripeDispute \in [phase : Phases, amount : 0 .. Paid]
  BY DEF MoneyInv
<1>2. /\ payment.refunded \in 0 .. Paid /\ stripeDispute.amount \in 0 .. Paid
      /\ ledger.taken \in 0 .. Paid
  BY <1>1 DEF PaymentType, LedgerType
<1>3. dispute.phase = "none" /\ disputed = 0 BY DEF DisputeWithdrawn, disputed
<1>4. ledger.taken = payment.refunded /\ ledger.disputeFee = 0
  BY <1>2, <1>3 DEF MoneyInv, TakenExact, Lesser
<1>5. /\ took \in 0 .. Paid /\ took <= stripeDispute.amount
      /\ ledger.taken + took = Lesser(Paid, payment.refunded + stripeDispute.amount)
      /\ ledger.taken + took = Lesser(Paid, payment.refunded + took)
  BY <1>2, <1>3, <1>4 DEF Lesser, Positive
<1>6. fee \in 0 .. DisputeFee BY <1>5
<1>7. /\ dispute' = [phase |-> "withdrawn", taken |-> took, fee |-> fee]
      /\ ledger' = [ledger EXCEPT !.taken = @ + took, !.disputeFee = @ + fee]
      /\ UNCHANGED <<payment, stripeDispute>>
      /\ stripeDispute.phase # "none"
  BY DEF DisputeWithdrawn
<1>8. ledger.taken + took \in 0 .. Paid BY <1>2, <1>5 DEF Lesser
<1> HIDE DEF took, fee
<1>9. /\ ledger' \in LedgerType
      /\ ledger'.taken = ledger.taken + took
      /\ ledger'.disputeFee = fee
  <2>1. ledger.disputeFee + fee = fee BY <1>4, <1>6
  <2>2. ledger' = [ledger EXCEPT !.taken = ledger.taken + took, !.disputeFee = fee]
    BY <1>7, <2>1
  <2> QED BY <1>1, <1>6, <1>8, <2>2 DEF LedgerType
<1>10. dispute' \in DisputeType BY <1>5, <1>6, <1>7 DEF DisputeType, Phases
<1> QED BY <1>1, <1>5, <1>7, <1>9, <1>10 DEF MoneyInv, TakenExact

LEMMA ReinstatedStep == MoneyInv /\ DisputeReinstated => MoneyInv'
<1> SUFFICES ASSUME MoneyInv, DisputeReinstated PROVE MoneyInv'
  OBVIOUS
<1> USE LedgerAssumption
<1> DEFINE target == Lesser(Paid, payment.refunded + disputed - dispute.taken)
           back == Lesser(stripeDispute.amount, Positive(ledger.taken - target))
<1>1. /\ payment \in PaymentType /\ ledger \in LedgerType /\ dispute \in DisputeType
      /\ stripeDispute \in [phase : Phases, amount : 0 .. Paid]
  BY DEF MoneyInv
<1>2. /\ payment.refunded \in 0 .. Paid /\ stripeDispute.amount \in 0 .. Paid
      /\ ledger.taken \in 0 .. Paid /\ dispute.taken \in 0 .. Paid
      /\ dispute.fee \in 0 .. DisputeFee
  BY <1>1 DEF PaymentType, LedgerType, DisputeType
<1>3. dispute.phase = "withdrawn" /\ disputed = dispute.taken
  BY DEF DisputeReinstated, disputed
<1>4. /\ ledger.taken = Lesser(Paid, payment.refunded + stripeDispute.amount)
      /\ ledger.disputeFee = dispute.fee
  BY <1>3 DEF MoneyInv, TakenExact
<1>5. ledger.taken - back = payment.refunded
  BY <1>2, <1>3, <1>4 DEF Lesser, Positive
<1>6. PICK fee \in {0, DisputeFee} :
          ledger' = [ledger EXCEPT !.taken = @ - back,
                                   !.disputeFee = @ - Lesser(fee, dispute.fee)]
  BY DEF DisputeReinstated
<1>7. /\ dispute' = [dispute EXCEPT !.phase = "reinstated"]
      /\ UNCHANGED <<payment, stripeDispute>>
      /\ stripeDispute.phase # "none"
  BY DEF DisputeReinstated
<1>8. ledger.disputeFee - Lesser(fee, dispute.fee) \in 0 .. DisputeFee
  BY <1>2, <1>4 DEF Lesser
<1> HIDE DEF target, back
<1>9. ledger' \in LedgerType /\ ledger'.taken = payment.refunded
  BY <1>1, <1>2, <1>5, <1>6, <1>8 DEF LedgerType
<1>10. dispute' \in DisputeType /\ dispute'.phase = "reinstated"
  BY <1>1, <1>7 DEF DisputeType, Phases
<1>11. TakenExact' BY <1>2, <1>7, <1>9, <1>10 DEF TakenExact, Lesser
<1> QED BY <1>1, <1>7, <1>9, <1>10, <1>11 DEF MoneyInv

LEMMA StripeDisputeStep == MoneyInv /\ (StripeWithdraws \/ StripeReinstates) => MoneyInv'
<1> USE LedgerAssumption DEF MoneyInv, TakenExact, Phases
<1>1. MoneyInv /\ StripeWithdraws => MoneyInv' BY DEF StripeWithdraws, DisputeType
<1>2. MoneyInv /\ StripeReinstates => MoneyInv' BY DEF StripeReinstates, DisputeType
<1> QED BY <1>1, <1>2

LEMMA MoneyStutter == MoneyInv /\ UNCHANGED ledgerVars => MoneyInv'
  BY DEF MoneyInv, TakenExact, ledgerVars

LEMMA PaidOutStep ==
  ASSUME MoneyInv, UNCHANGED <<payment, dispute, stripeDispute>>,
         NEW n \in Int, ledger' = [ledger EXCEPT !.paidOut = n]
  PROVE  MoneyInv'
<1>1. /\ ledger' \in LedgerType
      /\ ledger'.taken = ledger.taken
      /\ ledger'.disputeFee = ledger.disputeFee
  BY DEF MoneyInv, LedgerType
<1> QED BY <1>1 DEF MoneyInv, TakenExact

-----------------------------------------------------------------------------
(* Payouts *)

LEMMA NetInt == MoneyInv => Net \in Int /\ ledger.paidOut \in Int
  BY LedgerAssumption DEF MoneyInv, Net, LedgerType

LEMMA PayableNat ==
  ASSUME MoneyInv, NEW refundPending \in BOOLEAN
  PROVE  PayableNow(refundPending) \in Nat
<1>1. (IF refundPending THEN 0 ELSE Net) - ledger.paidOut \in Int BY NetInt
<1> QED BY <1>1, PayNowNat DEF PayableNow

LEMMA PayoutStep ==
  ASSUME MoneyInv, PayoutInv, NEW refundPending \in BOOLEAN, PayoutNext(refundPending)
  PROVE  MoneyInv' /\ PayoutInv'
<1> USE LedgerAssumption DEF PayoutIds, DestinationIds, NoStart, ledgerVars
<1>1. ASSUME NEW i \in PayoutIds, StartPayout(i, refundPending) PROVE MoneyInv' /\ PayoutInv'
  <2>1. MoneyInv' BY <1>1, MoneyStutter DEF StartPayout
  <2>2. PayableNow(refundPending) \in Nat BY PayableNat
  <2>3. starting' \in [id : 0 .. MaxPayouts, amount : Nat, destination : DestinationIds]
    BY <1>1, <2>2 DEF StartPayout, PayoutInv
  <2> QED BY <1>1, <2>1, <2>3 DEF StartPayout, PayoutInv
<1>2. ASSUME NEW i \in PayoutIds, MarkSent(i) PROVE MoneyInv' /\ PayoutInv'
  <2>1. MoneyInv' BY <1>2, MoneyStutter DEF MarkSent
  <2>2. payouts' \in [PayoutIds -> PayoutType] BY <1>2 DEF MarkSent, PayoutInv, PayoutType
  <2> QED BY <1>2, <2>1, <2>2 DEF MarkSent, PayoutInv
<1>3. ASSUME NEW i \in PayoutIds, MarkReturned(i) PROVE MoneyInv' /\ PayoutInv'
  <2>1. ledger.paidOut - payouts[i].amount \in Int
    BY NetInt DEF PayoutInv, PayoutType
  <2>2. MoneyInv' BY <1>3, <2>1, PaidOutStep DEF MarkReturned
  <2>3. payouts' \in [PayoutIds -> PayoutType] BY <1>3 DEF MarkReturned, PayoutInv, PayoutType
  <2> QED BY <1>3, <2>2, <2>3 DEF MarkReturned, PayoutInv
<1>4. CASE RecordPayout
  <2>1. ledger.paidOut + starting.amount \in Int BY NetInt DEF PayoutInv
  <2>2. MoneyInv' BY <1>4, <2>1, PaidOutStep DEF RecordPayout
  <2>3. [NoPayout EXCEPT !.amount = starting.amount, !.destination = starting.destination]
            \in PayoutType
    BY DEF PayoutInv, PayoutType, NoPayout
  <2>4. payouts' \in [PayoutIds -> PayoutType] BY <1>4, <2>3 DEF RecordPayout, PayoutInv
  <2> QED BY <1>4, <2>2, <2>4 DEF RecordPayout, PayoutInv
<1>5. CASE StartLost BY <1>5, MoneyStutter DEF StartLost, PayoutInv
<1>6. CASE ReplaceDestination BY <1>6, MoneyStutter DEF ReplaceDestination, PayoutInv
<1>7. CASE DeleteDestination BY <1>7, MoneyStutter DEF DeleteDestination, PayoutInv
<1>8. CASE ApproveDestination BY <1>8, MoneyStutter DEF ApproveDestination, PayoutInv
<1> QED BY <1>1, <1>2, <1>3, <1>4, <1>5, <1>6, <1>7, <1>8 DEF PayoutNext

LEMMA PayoutStutter == PayoutInv /\ UNCHANGED payoutVars => PayoutInv'
  BY DEF PayoutInv, payoutVars

-----------------------------------------------------------------------------
(* Commands, the executor and Stripe *)

LEMMA RefundStutter == RefundInv /\ UNCHANGED refundVars => RefundInv'
  BY DEF RefundInv, CommandsInv, ExecInv, StripeInv, refundVars

LEMMA AttemptsType ==
  ASSUME RefundInv, NEW c \in Commands
  PROVE  Attempts(c) \in 0 .. AttemptsCap
  BY RefundAssumption
     DEF RefundInv, CommandsInv, CommandType, Attempts, Lesser, AttemptsCap

\* A step of the executor that only moves it, or ends it.
LEMMA ExecStep ==
  ASSUME RefundInv, exec' \in ExecType,
         exec' # Idle => exec'.command \in Commands /\ commands[exec'.command].status # "none",
         exec'.pc = "answered" => exec'.refund \in DOMAIN refunds,
         UNCHANGED <<canceled, commands, refunds, inflight, refusals, recorded, flagged, overtaken,
                     faults>>
  PROVE  RefundInv'
  BY DEF RefundInv, CommandsInv, ExecInv, StripeInv

\* A step that writes one command, and may end the executor.
LEMMA CommandStep ==
  ASSUME RefundInv, NEW c \in Commands, NEW new \in CommandType,
         commands' = [commands EXCEPT ![c] = new],
         new.status # "none", new.amount > 0,
         new.refund # 0 => new.refund \in DOMAIN refunds,
         exec' = exec \/ exec' = Idle,
         canceled' \in BOOLEAN, overtaken' \in BOOLEAN, faults' \in FaultType,
         inflight' \subseteq inflight,
         recorded \subseteq recorded', recorded' \subseteq DOMAIN refunds,
         UNCHANGED <<refunds, refusals, flagged>>
  PROVE  RefundInv'
<1>1. commands' \in [Commands -> CommandType] BY DEF RefundInv, CommandsInv
<1>2. \A d \in Commands : commands'[d] = IF d = c THEN new ELSE commands[d]
  BY DEF RefundInv, CommandsInv
<1>3. CommandsInv' BY <1>1, <1>2 DEF RefundInv, CommandsInv
<1>4. ExecInv'
  BY <1>2, RefundAssumption DEF RefundInv, ExecInv, ExecType, Idle
<1>5. StripeInv'
  <2>1. \A k \in inflight' : k.command \in Commands /\ commands'[k.command].status # "none"
    BY <1>2 DEF RefundInv, StripeInv, KeyType
  <2> QED BY <2>1 DEF RefundInv, StripeInv
<1> QED BY <1>3, <1>4, <1>5 DEF RefundInv

\* A step of Stripe that makes a refund or changes one.
LEMMA RefundsStep ==
  ASSUME RefundInv, refunds' \in Seq(RefundType), DOMAIN refunds \subseteq DOMAIN refunds',
         inflight' \subseteq inflight, faults' \in FaultType,
         UNCHANGED <<canceled, commands, exec, refusals, recorded, flagged, overtaken>>
  PROVE  RefundInv'
  BY DEF RefundInv, CommandsInv, ExecInv, StripeInv

LEMMA AskStep ==
  ASSUME RefundInv, CancelStay \/ RetryRefund
  PROVE  RefundInv'
<1> USE LedgerAssumption, RefundAssumption
<1>1. ASSUME NEW c \in Commands, NEW amount \in 1 .. Paid, InsertCommand(c, amount),
             canceled' \in BOOLEAN, overtaken' \in BOOLEAN,
             UNCHANGED <<exec, refunds, inflight, refusals, recorded, flagged, faults>>
      PROVE  RefundInv'
  <2> DEFINE new == [NoCommand EXCEPT !.status = "pending", !.amount = amount]
  <2>1. /\ new \in CommandType
        /\ new.status = "pending" /\ new.amount = amount /\ new.refund = 0
    <3>1. 0 \in 0 .. AttemptsCap BY DEF AttemptsCap
    <3>2. NoCommand \in CommandType BY <3>1 DEF NoCommand, CommandType, Statuses
    <3>3. NoCommand.refund = 0 BY DEF NoCommand
    <3>4. amount \in 0 .. Paid OBVIOUS
    <3> QED BY <3>2, <3>3, <3>4 DEF CommandType, Statuses
  <2>2. commands' = [commands EXCEPT ![c] = new] BY <1>1 DEF InsertCommand
  <2>3. recorded' \subseteq DOMAIN refunds /\ faults' \in FaultType
    BY <1>1 DEF RefundInv, StripeInv
  <2>4. new.amount > 0 BY <2>1
  <2> HIDE DEF new
  <2> QED BY <1>1, <2>1, <2>2, <2>3, <2>4, CommandStep
<1>2. CASE CancelStay
  <2>1. PICK retained \in Retained, c \in Commands :
            /\ IF pricingCardRefundMinor(retained) = 0
               THEN UNCHANGED commands
               ELSE InsertCommand(c, pricingCardRefundMinor(retained))
            /\ canceled' = TRUE
            /\ UNCHANGED <<exec, refunds, inflight, refusals, recorded, flagged, overtaken, faults>>
    BY <1>2 DEF CancelStay
  <2>2. pricingCardRefundMinor(retained) \in 0 .. Paid BY RefundMinorBound
  <2>3. CASE pricingCardRefundMinor(retained) = 0
    BY <2>1, <2>3 DEF RefundInv, CommandsInv, ExecInv, StripeInv
  <2>4. CASE pricingCardRefundMinor(retained) # 0
    BY <2>1, <2>2, <2>4, <1>1 DEF RefundInv
  <2> QED BY <2>3, <2>4
<1>3. CASE RetryRefund
  <2>1. PICK c, failed \in Commands :
            /\ commands[failed].status = "failed"
            /\ InsertCommand(c, commands[failed].amount)
            /\ overtaken' = (overtaken \/ inflight # {})
            /\ UNCHANGED <<canceled, exec, refunds, inflight, refusals, recorded, flagged, faults>>
    BY <1>3 DEF RetryRefund
  <2>2. commands[failed].amount \in 1 .. Paid BY <2>1 DEF RefundInv, CommandsInv, CommandType
  <2>3. canceled' \in BOOLEAN /\ overtaken' \in BOOLEAN BY <2>1 DEF RefundInv
  <2> QED BY <2>1, <2>2, <2>3, <1>1
<1> QED BY <1>2, <1>3

LEMMA StripeStepInv ==
  ASSUME RefundInv, StripeStep \/ StripeDashboard
  PROVE  RefundInv'
<1> USE LedgerAssumption, RefundAssumption
<1>0. /\ refunds \in Seq(RefundType) /\ inflight \subseteq KeyType
      /\ faults \in FaultType
      /\ \A k \in inflight : commands[k.command].amount \in 1 .. Paid
  BY DEF RefundInv, StripeInv, CommandsInv, CommandType, KeyType
<1>1. ASSUME NEW c \in 0 .. MaxCommands, NEW attempt \in 0 .. AttemptsCap,
             NEW amount \in 1 .. Paid, MakeRefund(c, attempt, amount)
      PROVE  refunds' \in Seq(RefundType) /\ DOMAIN refunds \subseteq DOMAIN refunds'
  <2>1. PICK status \in {"pending", "succeeded"} :
            refunds' = Append(refunds, [command |-> c, attempt |-> attempt,
                                        amount |-> amount, status |-> status])
    BY <1>1 DEF MakeRefund
  <2>2. [command |-> c, attempt |-> attempt, amount |-> amount, status |-> status] \in RefundType
    BY DEF RefundType
  <2> QED BY <1>0, <2>1, <2>2
<1>2. ASSUME NEW k \in inflight, StripeCreates(k) PROVE RefundInv'
  <2>1. k.command \in 0 .. MaxCommands /\ k.attempt \in 0 .. AttemptsCap
    BY <1>0 DEF KeyType, Commands
  <2>2. refunds' \in Seq(RefundType) /\ DOMAIN refunds \subseteq DOMAIN refunds'
    BY <1>0, <1>1, <1>2, <2>1 DEF StripeCreates
  <2> QED BY <1>0, <1>2, <2>2, RefundsStep DEF StripeCreates, StripeUnchanged
<1>3. ASSUME NEW k \in inflight, StripeRefuses(k) PROVE RefundInv'
  BY <1>0, <1>3
     DEF StripeRefuses, StripeUnchanged, RefundInv, CommandsInv, ExecInv, StripeInv
<1>4. ASSUME NEW i \in DOMAIN refunds, StripeEnds(i) \/ StripeFailsLate(i) PROVE RefundInv'
  <2>1. PICK status \in {"succeeded", "failed", "returned"} :
            refunds' = [refunds EXCEPT ![i].status = status]
    BY <1>4 DEF StripeEnds, StripeFailsLate
  <2>2. refunds[i] \in RefundType BY <1>0
  <2>3. [refunds[i] EXCEPT !.status = status] \in RefundType BY <2>2 DEF RefundType
  <2>4. refunds' = [refunds EXCEPT ![i] = [refunds[i] EXCEPT !.status = status]] BY <2>1
  <2>5. refunds' \in Seq(RefundType) /\ DOMAIN refunds' = DOMAIN refunds
    BY <1>0, <2>3, <2>4
  <2> QED BY <1>0, <1>4, <2>5, RefundsStep DEF StripeEnds, StripeFailsLate, StripeUnchanged
<1>5. CASE StripeDashboard
  <2>1. PICK amount \in DashboardAmounts : MakeRefund(Dashboard, 0, amount)
    BY <1>5 DEF StripeDashboard
  <2>2. Dashboard \in 0 .. MaxCommands /\ 0 \in 0 .. AttemptsCap /\ amount \in 1 .. Paid
    BY DEF Dashboard, AttemptsCap
  <2>3. refunds' \in Seq(RefundType) /\ DOMAIN refunds \subseteq DOMAIN refunds'
    BY <1>1, <2>1, <2>2
  <2>4. faults' \in FaultType
    <3>1. faults.dashboard < MaxDashboard /\ faults' = [faults EXCEPT !.dashboard = @ + 1]
      BY <1>5 DEF StripeDashboard
    <3>2. faults \in FaultType BY <1>0
    <3>3. faults.dashboard + 1 \in 0 .. MaxDashboard BY <3>1, <3>2 DEF FaultType
    <3> QED BY <3>1, <3>2, <3>3 DEF FaultType
  <2> QED BY <1>5, <2>3, <2>4, RefundsStep DEF StripeDashboard, StripeUnchanged
<1> QED BY <1>2, <1>3, <1>4, <1>5 DEF StripeStep

LEMMA ExecutorStepInv ==
  ASSUME RefundInv,
         ExecutorStep \/ AnswerLost \/ ExecutorCrash \/ \E c \in Commands : WaitOver(c)
  PROVE  RefundInv'
<1> USE RefundAssumption
<1>0. /\ commands \in [Commands -> CommandType] /\ exec \in ExecType
      /\ refunds \in Seq(RefundType) /\ faults \in FaultType /\ canceled \in BOOLEAN
      /\ recorded \subseteq DOMAIN refunds /\ overtaken \in BOOLEAN
      /\ exec # Idle => exec.command \in Commands /\ commands[exec.command].status # "none"
      /\ exec.pc = "answered" => exec.refund \in DOMAIN refunds
  BY DEF RefundInv, CommandsInv, ExecInv, StripeInv
<1>i. Idle \in ExecType /\ Idle.pc = "idle" BY DEF Idle, ExecType
<1>c. ASSUME NEW c \in Commands
      PROVE  /\ commands[c] \in CommandType
             /\ commands[c].status # "none" => commands[c].amount > 0
             /\ commands[c].refund # 0 => commands[c].refund \in DOMAIN refunds
             /\ Attempts(c) \in 0 .. AttemptsCap
  BY AttemptsType DEF RefundInv, CommandsInv
<1>d. DOMAIN refunds \subseteq Nat BY <1>0
<1>a. ASSUME NEW i \in DOMAIN refunds, exec # Idle, Answered(i),
             UNCHANGED <<canceled, commands, refunds, inflight, refusals, recorded, flagged,
                         overtaken, faults>>
      PROVE  RefundInv'
  <2>0. refunds[i] \in RefundType BY <1>0
  <2>1. StripeSays(i) \in {"pending", "succeeded", "failed"} BY <2>0 DEF RefundType, StripeSays
  <2>2. /\ exec' \in ExecType
        /\ exec'.refund = i /\ exec'.command = exec.command
    BY <1>a, <1>0, <1>d, <2>1 DEF Answered, ExecType
  <2> QED BY <1>0, <1>a, <2>2, ExecStep
\* The executor's commands: each way it writes its own.
<1>w. ASSUME exec # Idle, NEW new \in CommandType,
             commands' = [commands EXCEPT ![exec.command] = new],
             new.status # "none", new.amount = commands[exec.command].amount,
             new.refund # 0 => new.refund \in DOMAIN refunds,
             exec' = Idle, canceled' = canceled, faults' \in FaultType,
             inflight' \subseteq inflight,
             recorded \subseteq recorded', recorded' \subseteq DOMAIN refunds,
             UNCHANGED <<refunds, refusals, flagged, overtaken>>
      PROVE  RefundInv'
  <2>1. exec.command \in Commands /\ commands[exec.command].amount > 0 BY <1>0, <1>w, <1>c
  <2>2. exec' = exec \/ exec' = Idle BY <1>w
  <2>3. new.amount > 0 BY <1>w, <2>1
  <2>4. canceled' \in BOOLEAN /\ overtaken' \in BOOLEAN BY <1>w, <1>0
  <2> QED BY <1>w, <2>1, <2>2, <2>3, <2>4, CommandStep
<1>1. ASSUME NEW c \in Commands, ExecuteBegin(c) PROVE RefundInv'
  <2>1. exec' = [pc |-> "looking", command |-> c, refund |-> 0, seen |-> "none"]
    BY <1>1 DEF ExecuteBegin, Idle
  <2>2. exec' \in ExecType /\ exec'.command = c /\ exec'.pc # "answered"
    BY <2>1 DEF ExecType, Commands
  <2> QED BY <1>1, <2>2, ExecStep DEF ExecuteBegin, ExecutorUnchanged
<1>2. CASE RetrieveRefund
  <2>1. exec # Idle BY <1>2, <1>i DEF RetrieveRefund
  <2>2. commands[exec.command].refund \in DOMAIN refunds
    BY <1>0, <1>2, <1>c, <2>1 DEF RetrieveRefund
  <2> QED BY <1>2, <1>a, <2>1, <2>2 DEF RetrieveRefund, ExecutorUnchanged
<1>3. CASE ListFinds
  <2>1. exec # Idle BY <1>3, <1>i DEF ListFinds
  <2>2. PICK i \in DOMAIN refunds : Answered(i) BY <1>3 DEF ListFinds, Own, Live
  <2> QED BY <1>3, <1>a, <2>1, <2>2 DEF ListFinds, ExecutorUnchanged
<1>4. CASE ListBlocks
  <2>1. exec # Idle BY <1>4, <1>i DEF ListBlocks
  <2> DEFINE c == exec.command
             new == [commands[c] EXCEPT !.status = "failed", !.why = "blocked",
                                        !.attempts = Attempts(c)]
  <2>2. c \in Commands BY <1>0, <2>1
  <2>3. /\ new \in CommandType /\ new.status = "failed"
        /\ new.amount = commands[c].amount /\ new.refund = commands[c].refund
    <3>1. commands[c] \in CommandType /\ Attempts(c) \in 0 .. AttemptsCap BY <1>c, <2>2
    <3> QED BY <3>1 DEF CommandType, Statuses
  <2>4. commands' = [commands EXCEPT ![exec.command] = new] BY <1>4, <1>0, <2>2 DEF ListBlocks
  <2>5. new.refund # 0 => new.refund \in DOMAIN refunds BY <1>c, <2>2, <2>3
  <2> HIDE DEF new
  <2> QED BY <1>0, <1>4, <1>w, <2>1, <2>3, <2>4, <2>5 DEF ListBlocks, ExecutorUnchanged
<1>5. CASE CreateRefund
  <2>1. exec # Idle BY <1>5, <1>i DEF CreateRefund
  <2>2. exec' = [exec EXCEPT !.pc = "creating"] BY <1>5 DEF CreateRefund
  <2>3. /\ exec' \in ExecType /\ exec'.pc = "creating" /\ exec'.command = exec.command
    BY <1>0, <2>2 DEF ExecType
  <2>4. /\ Key(exec.command) \in KeyType
        /\ Key(exec.command).command = exec.command
    BY <1>0, <1>c, <2>1 DEF Key, KeyType, CommandType
  <2>5. inflight' \subseteq inflight \cup {Key(exec.command)} BY <1>5 DEF CreateRefund
  <2>6. StripeInv' /\ CommandsInv'
    BY <1>0, <1>5, <2>1, <2>4, <2>5
       DEF CreateRefund, ExecutorUnchanged, RefundInv, StripeInv, CommandsInv
  <2> QED
    BY <1>0, <1>5, <2>1, <2>3, <2>6 DEF CreateRefund, ExecutorUnchanged, RefundInv, ExecInv
<1>6. CASE CreateAnswered
  <2>1. exec # Idle BY <1>6, <1>i DEF CreateAnswered
  <2> QED BY <1>6, <1>a, <2>1 DEF CreateAnswered, ExecutorUnchanged
<1>f. ASSUME exec # Idle, NEW giveUp \in BOOLEAN, AttemptFails(exec.command, giveUp),
             exec' = Idle, canceled' = canceled, faults' \in FaultType,
             inflight' \subseteq inflight,
             UNCHANGED <<refunds, refusals, recorded, flagged, overtaken>>
      PROVE  RefundInv'
  <2> DEFINE c == exec.command
             new == [commands[c] EXCEPT !.attempts = Attempts(c),
                         !.waiting = ~giveUp,
                         !.status = IF giveUp THEN "failed" ELSE @,
                         !.why = IF giveUp THEN "refused" ELSE @]
  <2>1. c \in Commands /\ commands[c].status # "none" BY <1>0, <1>f
  <2>2. /\ new \in CommandType /\ new.status # "none"
        /\ new.amount = commands[c].amount /\ new.refund = commands[c].refund
    <3>1. commands[c] \in CommandType /\ Attempts(c) \in 0 .. AttemptsCap BY <1>c, <2>1
    <3> QED BY <2>1, <3>1 DEF CommandType, Statuses
  <2>3. commands' = [commands EXCEPT ![exec.command] = new]
    <3>1. CASE giveUp BY <1>f, <3>1 DEF AttemptFails
    <3>2. CASE ~giveUp BY <1>f, <3>2 DEF AttemptFails
    <3> QED BY <3>1, <3>2
  <2>4. new.refund # 0 => new.refund \in DOMAIN refunds BY <1>c, <2>1, <2>2
  <2> HIDE DEF new
  <2> QED BY <1>0, <1>f, <1>w, <2>2, <2>3, <2>4
<1>7. CASE CreateRefused
  <2>1. exec # Idle BY <1>7, <1>i DEF CreateRefused
  <2>2. (commands[exec.command].attempts + 1 >= MAX_ATTEMPTS) \in BOOLEAN OBVIOUS
  <2> QED BY <1>0, <1>7, <1>f, <2>1, <2>2 DEF CreateRefused, ExecutorUnchanged
<1>8. CASE AnswerLost
  <2>1. exec # Idle BY <1>8, <1>i DEF AnswerLost
  <2>2. faults' \in FaultType BY <1>0, <1>8 DEF AnswerLost, FaultType
  <2>3. inflight' \subseteq inflight BY <1>8 DEF AnswerLost
  <2> QED BY <1>8, <1>f, <2>1, <2>2, <2>3 DEF AnswerLost, ExecutorUnchanged
<1>9. ASSUME NEW c \in Commands, WaitOver(c) PROVE RefundInv'
  <2> DEFINE new == [commands[c] EXCEPT !.waiting = FALSE]
  <2>1. /\ new \in CommandType /\ new.status = commands[c].status
        /\ new.amount = commands[c].amount /\ new.refund = commands[c].refund
    BY <1>c DEF CommandType
  <2>2. commands' = [commands EXCEPT ![c] = new] BY <1>0, <1>9 DEF WaitOver
  <2>3. \A d \in Commands : commands'[d] = IF d = c THEN new ELSE commands[d] BY <1>0, <2>2
  <2>4. commands' \in [Commands -> CommandType] BY <1>0, <2>1, <2>2
  <2> HIDE DEF new
  <2>5. CommandsInv'
    BY <1>9, <2>1, <2>3, <2>4 DEF WaitOver, RefundInv, CommandsInv
  <2>6. ExecInv'
    BY <1>9, <2>1, <2>3 DEF WaitOver, RefundInv, ExecInv
  <2>7. \A k \in inflight : k.command \in Commands BY DEF RefundInv, StripeInv, KeyType
  <2>8. StripeInv'
    BY <1>9, <2>1, <2>3, <2>7 DEF WaitOver, ExecutorUnchanged, RefundInv, StripeInv
  <2> QED BY <1>9, <2>5, <2>6, <2>8 DEF WaitOver, ExecutorUnchanged, RefundInv
<1>10. CASE FollowLater
  <2>1. exec # Idle /\ exec.refund \in DOMAIN refunds BY <1>0, <1>10, <1>i DEF FollowLater
  <2> DEFINE c == exec.command
             new == [commands[c] EXCEPT !.refund = exec.refund, !.attempts = Attempts(c),
                                        !.waiting = TRUE]
  <2>2. c \in Commands /\ commands[c].status # "none" BY <1>0, <2>1
  <2>3. /\ new \in CommandType /\ new.status = commands[c].status
        /\ new.amount = commands[c].amount /\ new.refund = exec.refund
    <3>1. commands[c] \in CommandType /\ Attempts(c) \in 0 .. AttemptsCap BY <1>c, <2>2
    <3>2. exec.refund \in Nat BY <1>0 DEF ExecType
    <3> QED BY <3>1, <3>2 DEF CommandType
  <2>4. commands' = [commands EXCEPT ![exec.command] = new]
    BY <1>10, <1>0, <2>2 DEF FollowLater, KeepRefund
  <2>5. faults' \in FaultType BY <1>0, <1>10 DEF FollowLater, FaultType
  <2> HIDE DEF new
  <2> QED BY <1>0, <1>10, <1>w, <2>1, <2>2, <2>3, <2>4, <2>5 DEF FollowLater, ExecutorUnchanged
<1>11. CASE FailRefund
  <2>1. exec # Idle /\ exec.refund \in DOMAIN refunds BY <1>0, <1>11, <1>i DEF FailRefund
  <2> DEFINE c == exec.command
             new == [commands[c] EXCEPT !.status = "failed", !.why = "stripe",
                                        !.refund = exec.refund]
  <2>2. c \in Commands BY <1>0, <2>1
  <2>3. /\ new \in CommandType /\ new.status = "failed"
        /\ new.amount = commands[c].amount /\ new.refund = exec.refund
    <3>1. commands[c] \in CommandType BY <1>c, <2>2
    <3>2. exec.refund \in Nat BY <1>0 DEF ExecType
    <3> QED BY <3>1, <3>2 DEF CommandType, Statuses
  <2>4. commands' = [commands EXCEPT ![exec.command] = new] BY <1>11, <1>0, <2>2 DEF FailRefund
  <2> HIDE DEF new
  <2> QED BY <1>0, <1>11, <1>w, <2>1, <2>3, <2>4 DEF FailRefund, ExecutorUnchanged
<1>12. CASE SettleRefund
  <2>1. exec # Idle /\ exec.refund \in DOMAIN refunds BY <1>0, <1>12, <1>i DEF SettleRefund
  <2> DEFINE c == exec.command
             new == [commands[c] EXCEPT !.status = "succeeded", !.refund = exec.refund]
  <2>2. c \in Commands BY <1>0, <2>1
  <2>3. /\ new \in CommandType /\ new.status = "succeeded"
        /\ new.amount = commands[c].amount /\ new.refund = exec.refund
    <3>1. commands[c] \in CommandType BY <1>c, <2>2
    <3>2. exec.refund \in Nat BY <1>0 DEF ExecType
    <3> QED BY <3>1, <3>2 DEF CommandType, Statuses
  <2>4. commands' = [commands EXCEPT ![exec.command] = new] BY <1>12, <1>0, <2>2 DEF SettleRefund
  <2>5. recorded \subseteq recorded' /\ recorded' \subseteq DOMAIN refunds
    BY <1>0, <1>12, <2>1 DEF SettleRefund
  <2> HIDE DEF new
  <2> QED BY <1>0, <1>12, <1>w, <2>1, <2>3, <2>4, <2>5 DEF SettleRefund
<1>13. CASE ExecutorCrash
  <2>1. faults' \in FaultType BY <1>0, <1>13 DEF ExecutorCrash, FaultType
  <2>2. inflight' \subseteq inflight BY <1>13 DEF ExecutorCrash
  <2> QED
    BY <1>13, <1>i, <2>1, <2>2
       DEF ExecutorCrash, ExecutorUnchanged, RefundInv, CommandsInv, ExecInv, StripeInv
<1> QED
  BY <1>1, <1>2, <1>3, <1>4, <1>5, <1>6, <1>7, <1>8, <1>9, <1>10, <1>11, <1>12, <1>13
     DEF ExecutorStep

LEMMA RecordStep ==
  ASSUME RefundInv, NEW i \in DOMAIN refunds, RecordDashboardRefund(i) \/ FlagDashboardFailure(i)
  PROVE  RefundInv'
  BY DEF RecordDashboardRefund, FlagDashboardFailure, RefundInv, CommandsInv, ExecInv, StripeInv

-----------------------------------------------------------------------------
(* The whole step *)

LEMMA InitIInv == Init => IInv
<1> SUFFICES ASSUME Init PROVE IInv
  OBVIOUS
<1> USE LedgerAssumption, RefundAssumption DEF Init, LedgerInit, RefundInit
<1>1. MoneyInv
  BY DEF MoneyInv, TakenExact, Lesser, PaymentType, LedgerType, DisputeType, Phases
<1>2. PayoutInv
  <2>1. NoPayout \in PayoutType BY DEF NoPayout, PayoutType, DestinationIds
  <2> QED BY <2>1 DEF PayoutInv, DestinationIds, NoStart
<1>3. RefundInv
  <2>1. 0 \in 0 .. AttemptsCap BY DEF AttemptsCap
  <2>2. NoCommand \in CommandType /\ NoCommand.status = "none" /\ NoCommand.refund = 0
    BY <2>1 DEF NoCommand, CommandType, Statuses
  <2>3. CommandsInv BY <2>2 DEF CommandsInv
  <2>4. ExecInv BY DEF ExecInv, ExecType, Idle
  <2>5. StripeInv BY DEF StripeInv
  <2>6. faults \in FaultType BY DEF FaultType
  <2>7. canceled \in BOOLEAN /\ overtaken \in BOOLEAN OBVIOUS
  <2> QED BY <2>3, <2>4, <2>5, <2>6, <2>7 DEF RefundInv
<1> QED BY <1>1, <1>2, <1>3 DEF IInv

LEMMA SettleAmount ==
  ASSUME RefundInv, SettleRefund
  PROVE  commands[exec.command].amount \in Nat
<1>1. exec # Idle BY DEF SettleRefund, Idle
<1>2. exec.command \in Commands BY <1>1 DEF RefundInv, ExecInv
<1>3. commands[exec.command] \in CommandType BY <1>2 DEF RefundInv, CommandsInv
<1> QED BY <1>3, LedgerAssumption DEF CommandType

LEMMA StepIInv == IInv /\ [Next]_vars => IInv'
<1> SUFFICES ASSUME IInv, [Next]_vars PROVE IInv'
  OBVIOUS
<1> USE DEF IInv
<1>m. UNCHANGED ledgerVars => MoneyInv' BY MoneyStutter
<1>p. UNCHANGED payoutVars => PayoutInv' BY PayoutStutter
<1>1. CASE CancelStay \/ RetryRefund
  <2>1. UNCHANGED <<ledgerVars, payoutVars>> BY <1>1 DEF CancelStay, RetryRefund
  <2> QED BY <1>1, <1>m, <1>p, <2>1, AskStep
<1>2. CASE StripeStep \/ StripeDashboard
  <2>1. UNCHANGED <<ledgerVars, payoutVars>>
    BY <1>2 DEF StripeStep, StripeDashboard, StripeCreates, StripeRefuses, StripeEnds,
                StripeFailsLate, StripeUnchanged
  <2> QED BY <1>2, <1>m, <1>p, <2>1, StripeStepInv
<1>3. CASE SettleRefund
  <2>1. MoneyInv' BY <1>3, SettleAmount, RefundMoneyStep DEF SettleRefund
  <2>2. RefundInv' BY <1>3, ExecutorStepInv DEF ExecutorStep
  <2> QED BY <1>3, <1>p, <2>1, <2>2 DEF SettleRefund
<1>4. CASE /\ ExecutorStep \/ AnswerLost \/ ExecutorCrash \/ \E c \in Commands : WaitOver(c)
           /\ ~SettleRefund
  <2>1. UNCHANGED <<ledgerVars, payoutVars>>
    BY <1>4 DEF ExecutorStep, AnswerLost, ExecutorCrash, WaitOver, ExecuteBegin, RetrieveRefund,
                ListFinds, ListBlocks, CreateRefund, CreateAnswered, CreateRefused,
                FollowLater, FailRefund, ExecutorUnchanged
  <2>2. RefundInv' BY <1>4, ExecutorStepInv
  <2> QED BY <1>m, <1>p, <2>1, <2>2
<1>5. CASE \E i \in DOMAIN refunds : RecordDashboardRefund(i)
  <2>1. PICK i \in DOMAIN refunds : RecordDashboardRefund(i) BY <1>5
  <2>2. refunds[i] \in RefundType BY DEF RefundInv, StripeInv
  <2>3. refunds[i].amount \in Nat BY <2>2, LedgerAssumption DEF RefundType
  <2>4. MoneyInv' BY <2>1, <2>3, RefundMoneyStep DEF RecordDashboardRefund
  <2>5. RefundInv' BY <2>1, RecordStep
  <2> QED BY <1>p, <2>1, <2>4, <2>5 DEF RecordDashboardRefund
<1>f. CASE \E i \in DOMAIN refunds : FlagDashboardFailure(i)
  <2>1. UNCHANGED <<ledgerVars, payoutVars>> BY <1>f DEF FlagDashboardFailure
  <2> QED BY <1>f, <1>m, <1>p, <2>1, RecordStep
<1>6. CASE LedgerStep
  <2>1. RefundInv' BY <1>6, RefundStutter DEF LedgerStep
  <2>2. CASE (RecordCharge \/ DisputeNext) /\ UNCHANGED payoutVars
    BY <1>p, <2>1, <2>2, ChargeStep, StripeDisputeStep, WithdrawnStep, ReinstatedStep
       DEF DisputeNext
  <2>3. CASE PayoutNext(RefundPending)
    <3>1. RefundPending \in BOOLEAN BY DEF RefundPending
    <3>2. MoneyInv' /\ PayoutInv' BY <2>3, <3>1, PayoutStep
    <3> QED BY <2>1, <3>2
  <2> QED BY <1>6, <2>2, <2>3 DEF LedgerStep
<1>7. CASE UNCHANGED vars
  BY <1>7, <1>m, <1>p, RefundStutter DEF vars
<1> QED BY <1>1, <1>2, <1>3, <1>4, <1>5, <1>f, <1>6, <1>7 DEF Next

LEMMA SpecIInv == Spec => []IInv
  BY InitIInv, StepIInv, PTL DEF Spec

\* Records keep their shape and refunded_amount its bound, for every amount,
\* step and number of commands (the whole of CardRefund).
THEOREM TypeCorrect == Spec => []TypeOK
<1>1. IInv => TypeOK
  BY DEF IInv, MoneyInv, PayoutInv, RefundInv, CommandsInv, ExecInv, StripeInv, TypeOK,
         PaymentType, LedgerType, DisputeType, Phases, PayoutType, CommandType, Statuses,
         ExecType, RefundType, KeyType, FaultType
<1> QED BY <1>1, SpecIInv, PTL

\* recordVayadaPaymentRefund and recordVayadaPaymentDispute take from the hotel
\* exactly what left Vayada's account, for all amounts and orders of events.
THEOREM TakenExactAlways == Spec => []TakenExact
<1>1. IInv => TakenExact BY DEF IInv, MoneyInv
<1> QED BY <1>1, SpecIInv, PTL

\* start's share lock: for any number of accounts and payouts, what is recorded
\* goes to the account in use and approved at that moment.
THEOREM PayoutApprovedAlways == Spec => PayoutToApprovedAccount
<1> DEFINE ToApproved ==
        \A i \in PayoutIds : payouts'[i].amount # payouts[i].amount =>
            /\ destination.enabled /\ destination.approved
            /\ payouts'[i].destination = destination.id
<1>1. IInv /\ [Next]_vars => [ToApproved]_vars
  <2> SUFFICES ASSUME IInv, Next PROVE ToApproved
    OBVIOUS
  <2>1. payouts \in [PayoutIds -> PayoutType] BY DEF IInv, PayoutInv
  <2>2. CASE RecordPayout
    <3>1. /\ starting.id \in PayoutIds /\ destination.enabled /\ destination.approved
          /\ starting.destination = destination.id
      BY <2>2 DEF RecordPayout, IInv, PayoutInv
    <3> DEFINE new == [NoPayout EXCEPT !.amount = starting.amount,
                                       !.destination = starting.destination]
    <3>2. payouts' = [payouts EXCEPT ![starting.id] = new] BY <2>2 DEF RecordPayout
    <3>3. NoPayout \in PayoutType BY LedgerAssumption DEF NoPayout, PayoutType, DestinationIds
    <3>4. new.destination = starting.destination BY <3>3 DEF PayoutType
    <3> HIDE DEF new
    <3> QED BY <2>1, <3>1, <3>2, <3>4
  <2>3. ASSUME NEW j \in PayoutIds, MarkSent(j) \/ MarkReturned(j) PROVE ToApproved
    <3>1. payouts' = [payouts EXCEPT ![j].sent = TRUE]
          \/ payouts' = [payouts EXCEPT ![j].returned = TRUE]
      BY <2>3 DEF MarkSent, MarkReturned
    <3>2. \A i \in PayoutIds : payouts'[i].amount = payouts[i].amount
      BY <2>1, <3>1 DEF PayoutType
    <3> QED BY <3>2
  <2>4. CASE UNCHANGED payouts BY <2>4
  <2>5. RecordPayout \/ (\E j \in PayoutIds : MarkSent(j) \/ MarkReturned(j)) \/ UNCHANGED payouts
    BY DEF Next, CancelStay, RetryRefund, StripeStep, StripeDashboard, StripeCreates,
           StripeRefuses, StripeEnds, StripeFailsLate, StripeUnchanged, ExecutorStep, AnswerLost, ExecutorCrash,
           WaitOver, ExecuteBegin, RetrieveRefund, ListFinds, ListBlocks, CreateRefund,
           CreateAnswered, CreateRefused, FollowLater, FailRefund, SettleRefund,
           ExecutorUnchanged, RecordDashboardRefund, FlagDashboardFailure, LedgerStep, PayoutNext, StartPayout,
           StartLost, ReplaceDestination, DeleteDestination, ApproveDestination, payoutVars
  <2> QED BY <2>2, <2>3, <2>4, <2>5
<1> QED BY <1>1, SpecIInv, PTL DEF Spec, PayoutToApprovedAccount
=============================================================================
