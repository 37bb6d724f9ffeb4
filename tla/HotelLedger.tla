---------------------------- MODULE HotelLedger ----------------------------
(***************************************************************************)
(* What Vayada owes a hotel for one card payment taken on Vayada's own     *)
(* Stripe account: the payout ledger of vayadaPaymentLedger.ts and the     *)
(* payouts staff start from it in vayadaPaymentPayouts.ts.                 *)
(*                                                                         *)
(* The ledger's rows are kept as the sums paymentExposure and BALANCE read *)
(* from them, in Stripe's minor units; rows are only ever inserted, so the *)
(* sums carry the same information.  The payment row's lock serialises     *)
(* refunds and disputes, so each of them is one step; a payout start is    *)
(* two, because only the hotel's advisory lock is held across it.          *)
(***************************************************************************)
EXTENDS Integers, FiniteSets

CONSTANTS
    Paid,            \* what the guest paid
    ChargeFee,       \* Vayada's whole fee on the charge
    PlanFee,         \* the part of it that belongs to the hotel's plan
    DisputeFee,      \* Stripe's fee for a dispute, in the stay's currency
    DisputeAmounts,  \* the amounts a guest may dispute
    PayUnit,         \* the smallest amount the banks pay (100 for IDR)
    MaxPayouts,      \* bound: payout commands
    MaxDestinations  \* bound: payout accounts the hotel saves

ASSUME LedgerAssumption ==
    /\ Paid \in Nat \ {0}
    /\ ChargeFee \in 0 .. Paid
    /\ PlanFee \in 0 .. ChargeFee
    /\ DisputeFee \in Nat
    /\ DisputeAmounts \subseteq 1 .. Paid
    /\ PayUnit \in Nat \ {0}
    /\ MaxPayouts \in Nat
    /\ MaxDestinations \in Nat

VARIABLES
    payment,        \* finance.payments: status and refunded_amount
    ledger,         \* sums of the payment's rows in hotel_payout_ledger
    dispute,        \* its dispute rows: last phase recorded, what it took
    stripeDispute,  \* the dispute as Stripe has it, whose events may be late
    payouts,        \* finance.hotel_payouts, by command id
    destination,    \* finance.payout_destinations: the account in use
    starting        \* the payout start under the hotel's advisory lock

ledgerVars == <<payment, ledger, dispute, stripeDispute>>
payoutVars == <<payouts, destination, starting>>

PayoutIds == 1 .. MaxPayouts
DestinationIds == 0 .. MaxDestinations
NoStart == [id |-> 0, amount |-> 0, destination |-> 0]
NoPayout == [amount |-> 0, destination |-> 0, sent |-> FALSE, returned |-> FALSE]

Lesser(a, b) == IF a < b THEN a ELSE b
Positive(n) == IF n > 0 THEN n ELSE 0

LedgerInit ==
    /\ payment = [status |-> "open", refunded |-> 0]
    /\ ledger = [charged |-> FALSE, taken |-> 0, planFeeBack |-> 0,
                 disputeFee |-> 0, paidOut |-> 0]
    /\ dispute = [phase |-> "none", taken |-> 0, fee |-> 0]
    /\ stripeDispute = [phase |-> "none", amount |-> 0]
    /\ payouts = [i \in PayoutIds |-> NoPayout]
    /\ destination = [id |-> 0, enabled |-> FALSE, approved |-> FALSE]
    /\ starting = NoStart

-----------------------------------------------------------------------------
(* The charge, its refunds and its disputes *)

\* paymentExposure: what open disputes took.
disputed == IF dispute.phase = "withdrawn" THEN dispute.taken ELSE 0

\* Where the card payment becomes paid: applyCardPayment writes the charge.
RecordCharge ==
    /\ payment.status = "open"
    /\ payment' = [payment EXCEPT !.status = "paid"]
    /\ ledger' = [ledger EXCEPT !.charged = TRUE]
    /\ UNCHANGED <<dispute, stripeDispute>>

\* The plan's fee on everything refunded so far, rounded half up.
PlanFeeBack(refunded) == (PlanFee * refunded * 2 + Paid) \div (2 * Paid)

\* recordVayadaPaymentRefund's row, for a payment whose refunded amount now
\* is `refunded`: the hotel is owed less by what was not taken already.
LedgerAfterRefund(refunded) ==
    [ledger EXCEPT
        !.taken = @ + Positive(Lesser(Paid, refunded + disputed) - @),
        !.planFeeBack = @ + Positive(PlanFeeBack(refunded) - @)]

\* applyCardRefundMoney: a refund Stripe made becomes money here.  It throws,
\* and changes nothing, above what was paid or without a charge row.
ApplyCardRefundMoney(amount) ==
    LET refunded == payment.refunded + amount IN
    /\ refunded <= Paid
    /\ ledger.charged
    /\ payment' = [status |-> IF refunded = Paid THEN "refunded" ELSE "partially_refunded",
                   refunded |-> refunded]
    /\ ledger' = LedgerAfterRefund(refunded)
    /\ UNCHANGED <<dispute, stripeDispute>>

\* The bank takes the disputed amount at Stripe, and may give it back.
StripeWithdraws ==
    /\ stripeDispute.phase = "none"
    /\ \E amount \in DisputeAmounts :
           stripeDispute' = [phase |-> "withdrawn", amount |-> amount]
    /\ UNCHANGED <<payment, ledger, dispute>>

StripeReinstates ==
    /\ stripeDispute.phase = "withdrawn"
    /\ stripeDispute' = [stripeDispute EXCEPT !.phase = "reinstated"]
    /\ UNCHANGED <<payment, ledger, dispute>>

\* charge.dispute.funds_withdrawn, however late and however often: the source
\* key stops a second row, and without a charge row nothing is recorded.
DisputeWithdrawn ==
    LET took == Positive(Lesser(Paid, payment.refunded + disputed + stripeDispute.amount)
                         - ledger.taken)
        fee == IF took > 0 THEN DisputeFee ELSE 0
    IN
    /\ stripeDispute.phase # "none"
    /\ dispute.phase = "none"
    /\ ledger.charged
    /\ dispute' = [phase |-> "withdrawn", taken |-> took, fee |-> fee]
    /\ ledger' = [ledger EXCEPT !.taken = @ + took, !.disputeFee = @ + fee]
    /\ UNCHANGED <<payment, stripeDispute>>

\* Mutation: a reinstatement gives back all the dispute took, although a
\* refund made meanwhile took it over.
ReinstatedInFull ==
    /\ stripeDispute.phase = "reinstated"
    /\ dispute.phase = "withdrawn"
    /\ dispute' = [dispute EXCEPT !.phase = "reinstated"]
    /\ ledger' = [ledger EXCEPT !.taken = @ - dispute.taken,
                                !.disputeFee = @ - dispute.fee]
    /\ UNCHANGED <<payment, stripeDispute>>

\* charge.dispute.funds_reinstated: refused (Stripe retries it) until the
\* withdrawal is recorded.  Stripe gives back its fee or keeps it.
DisputeReinstated ==
    LET target == Lesser(Paid, payment.refunded + disputed - dispute.taken)
        back == Lesser(stripeDispute.amount, Positive(ledger.taken - target))
    IN
    /\ stripeDispute.phase = "reinstated"
    /\ dispute.phase = "withdrawn"
    /\ dispute' = [dispute EXCEPT !.phase = "reinstated"]
    /\ \E fee \in {0, DisputeFee} :
           ledger' = [ledger EXCEPT !.taken = @ - back,
                                    !.disputeFee = @ - Lesser(fee, dispute.fee)]
    /\ UNCHANGED <<payment, stripeDispute>>

-----------------------------------------------------------------------------
(* Payouts *)

\* The rows of the payment itself: what the hotel is owed for it before payouts.
Net == IF ledger.charged
       THEN Paid - ChargeFee - ledger.taken + ledger.planFeeBack - ledger.disputeFee
       ELSE 0

\* vayadaPayNow: the banks' unit, never a debt.
vayadaPayNow(payable) == IF payable <= 0 THEN 0 ELSE payable - (payable % PayUnit)

\* BALANCE, once the stay has checked out by the operator's cut-off: before
\* that the payment's rows do not count, nothing is payable and start is
\* refused.  A payment with a pending refund waits; payout rows always count.
PayableNow(refundPending) ==
    vayadaPayNow((IF refundPending THEN 0 ELSE Net) - ledger.paidOut)

\* start, up to the balance: no row of this command yet, the account in use is
\* approved (and share-locked), something is owed and it is what the operator
\* was shown.
StartPayout(i, refundPending) ==
    /\ starting = NoStart
    /\ payouts[i].amount = 0
    /\ destination.enabled /\ destination.approved
    /\ PayableNow(refundPending) > 0
    /\ starting' = [id |-> i, amount |-> PayableNow(refundPending),
                    destination |-> destination.id]
    /\ UNCHANGED <<ledgerVars, payouts, destination>>

\* The payout and its ledger row, committed: from here the balance is without it.
RecordPayout ==
    /\ starting # NoStart
    /\ payouts' = [payouts EXCEPT ![starting.id] =
                      [NoPayout EXCEPT !.amount = starting.amount,
                                       !.destination = starting.destination]]
    /\ ledger' = [ledger EXCEPT !.paidOut = @ + starting.amount]
    /\ starting' = NoStart
    /\ UNCHANGED <<payment, dispute, stripeDispute, destination>>

\* The transaction is rolled back (the connection or the process dies).
StartLost ==
    /\ starting # NoStart
    /\ starting' = NoStart
    /\ UNCHANGED <<ledgerVars, payouts, destination>>

\* markSent: once, never after a return.  It waits for the advisory lock.
MarkSent(i) ==
    /\ starting = NoStart
    /\ payouts[i].amount > 0
    /\ ~payouts[i].sent /\ ~payouts[i].returned
    /\ payouts' = [payouts EXCEPT ![i].sent = TRUE]
    /\ UNCHANGED <<ledgerVars, destination, starting>>

\* Mutation: a second return command credits the hotel again.
ReturnedAgain(i) ==
    /\ starting = NoStart
    /\ payouts[i].amount > 0
    /\ payouts' = [payouts EXCEPT ![i].returned = TRUE]
    /\ ledger' = [ledger EXCEPT !.paidOut = @ - payouts[i].amount]
    /\ UNCHANGED <<payment, dispute, stripeDispute, destination, starting>>

\* markReturned: a payout cancelled before sending or sent back by the bank.
MarkReturned(i) ==
    /\ starting = NoStart
    /\ payouts[i].amount > 0
    /\ ~payouts[i].returned
    /\ payouts' = [payouts EXCEPT ![i].returned = TRUE]
    /\ ledger' = [ledger EXCEPT !.paidOut = @ - payouts[i].amount]
    /\ UNCHANGED <<payment, dispute, stripeDispute, destination, starting>>

\* Mutation: a replacement does not wait for the account a start reads.
ReplaceUnderStart ==
    /\ destination.id < MaxDestinations
    /\ destination' = [id |-> destination.id + 1, enabled |-> TRUE, approved |-> FALSE]
    /\ UNCHANGED <<ledgerVars, payouts, starting>>

\* The hotel saves a new account: the one in use is disabled and a new row is
\* inserted, unapproved.  The update waits for a start's share lock.
ReplaceDestination ==
    /\ starting = NoStart
    /\ destination.id < MaxDestinations
    /\ destination' = [id |-> destination.id + 1, enabled |-> TRUE, approved |-> FALSE]
    /\ UNCHANGED <<ledgerVars, payouts, starting>>

DeleteDestination ==
    /\ starting = NoStart
    /\ destination.enabled
    /\ destination' = [destination EXCEPT !.enabled = FALSE]
    /\ UNCHANGED <<ledgerVars, payouts, starting>>

\* approveDestination: the account in use, under the hotel's advisory lock.
ApproveDestination ==
    /\ starting = NoStart
    /\ destination.enabled /\ ~destination.approved
    /\ destination' = [destination EXCEPT !.approved = TRUE]
    /\ UNCHANGED <<ledgerVars, payouts, starting>>

DisputeNext ==
    StripeWithdraws \/ StripeReinstates \/ DisputeWithdrawn \/ DisputeReinstated

PayoutNext(refundPending) ==
    \/ \E i \in PayoutIds :
           StartPayout(i, refundPending) \/ MarkSent(i) \/ MarkReturned(i)
    \/ RecordPayout \/ StartLost
    \/ ReplaceDestination \/ DeleteDestination \/ ApproveDestination
=============================================================================
