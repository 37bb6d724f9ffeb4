---------------------------- MODULE CardPayment ----------------------------
(***************************************************************************)
(* One card booking from its acceptance to its end: the guest pays at      *)
(* Stripe, and the page's completion, Stripe's webhooks, the hotel's       *)
(* answer, the guest's withdrawal and the expiry sweep all try to move the *)
(* booking on (pricingCardPaymentCompletion.ts, pricingRequestAcceptance,  *)
(* financeHostBookingPayments, bookingLifecycle, bookingWebPublic).        *)
(*                                                                         *)
(* Every handler holds the booking row while it talks to Stripe, so one    *)
(* transaction runs at a time, but the guest and the bank act at Stripe    *)
(* between its steps, Stripe keeps what a rolled back transaction did      *)
(* there, and three readers look at the booking before they lock it.       *)
(* Once the card is charged, the job that hands the stay over to the PMS   *)
(* is staged; the accepted pricing worker runs it at any later time.       *)
(***************************************************************************)
EXTENDS Naturals

CONSTANTS
    Modes,         \* acceptance modes of the quote: "instant", "request"
    ChargeTypes,   \* whose Stripe account is charged: "direct", "vayada_payment"
    MaxAttempts,   \* attempts of the hand-off job (5 in the code)
    MaxTries,      \* bound: how often the guest tries to pay
    MaxFaults      \* bound: crashes, failed calls and lost answers

ASSUME PaymentAssumption ==
    /\ Modes # {} /\ Modes \subseteq {"instant", "request"}
    /\ ChargeTypes # {} /\ ChargeTypes \subseteq {"direct", "vayada_payment"}
    /\ MaxAttempts \in Nat \ {0}
    /\ MaxTries \in Nat
    /\ MaxFaults \in Nat

VARIABLES
    mode,     \* the accepted quote's acceptanceMode
    chargeType,  \* the hotel's own account, or Vayada's (paid out later)
    booking,  \* booking.guest_bookings: lifecycle_status and payment_status
    payment,  \* finance.payments.status of the active card payment
    rooms,    \* its inventory receipt, and its PMS assignments
    books,    \* charges in the payout ledger, nightly revenue evidence:
              \* "recorded" in full, "cleared", or "retained" in part
    job,      \* the accepted pricing job in platform.jobs
    due,      \* the deadlines that passed: "pay" (pendingExpiresAt) and
              \* "answer" (hostResponseDeadlineAt)
    reads,    \* who has read the booking and not locked it yet: "withdraw",
              \* "replay", or the sweep with an "unpaid" or "authorized" candidate
    txn,      \* the transaction that holds the booking row
    intent,   \* the PaymentIntent at Stripe
    events,   \* what Stripe has sent webhooks about
    tries, faults

quote == <<mode, chargeType>>
stay == <<booking, payment, rooms, books, job>>
stripe == <<intent, events, tries>>
vars == <<quote, stay, due, reads, txn, stripe, faults>>

NoTxn == [kind |-> "none", pc |-> "none", seen |-> "none"]

Init ==
    /\ mode \in Modes /\ chargeType \in ChargeTypes
    /\ booking = [lifecycle |-> "none", payment |-> "unpaid"]
    /\ payment = "none"
    /\ rooms = [receipt |-> "none", assigned |-> "none"]
    /\ books = [charges |-> 0, evidence |-> "none"]
    /\ job = [status |-> "none", attempts |-> 0]
    /\ due = {} /\ reads = {}
    /\ txn = NoTxn
    /\ intent = "none" /\ events = {}
    /\ tries = 0 /\ faults = 0

-----------------------------------------------------------------------------
(* What a card booking can be (decodeCardRow) *)

Pending == booking.lifecycle = "pending_payment"
Paid == booking.lifecycle = "confirmed" /\ booking.payment # "unpaid"
Authorized ==
    mode = "request" /\ Pending /\ booking.payment = "authorized" /\ payment = "authorized"
AwaitingPayment == Pending /\ booking.payment = "unpaid" /\ payment = "requires_action"

-----------------------------------------------------------------------------
(* The three ways a transaction changes the stay *)

\* The hotel's ledger is of money on Vayada's account only.
LedgerCharge == IF chargeType = "vayada_payment" THEN 1 ELSE 0

\* Mutation: the accepted pricing job is left to be staged by somebody else.
ConfirmWithoutJob(status) ==
    /\ status = "succeeded"
    /\ Pending /\ booking.payment = (IF mode = "request" THEN "authorized" ELSE "unpaid")
    /\ booking' = [lifecycle |-> "confirmed", payment |-> "paid"]
    /\ payment' = "paid"
    /\ books' = [charges |-> books.charges + LedgerCharge, evidence |-> "recorded"]
    /\ UNCHANGED <<rooms, job>>

applyCardPayment(status) ==
    LET request == mode = "request"
    IN  /\ status = "succeeded"
        /\ Pending
        /\ booking.payment = (IF request THEN "authorized" ELSE "unpaid")
        /\ books.evidence = "none"
        /\ payment' = IF payment = (IF request THEN "authorized" ELSE "requires_action")
                      THEN "paid" ELSE payment
        /\ booking' = [lifecycle |-> "confirmed", payment |-> "paid"]
        /\ books' = [charges |-> books.charges + LedgerCharge, evidence |-> "recorded"]
        /\ job' = IF job.status = "none" THEN [status |-> "pending", attempts |-> 0] ELSE job
        /\ UNCHANGED rooms

authorizeCardRequest(status) ==
    /\ mode = "request"
    /\ status = "requires_capture"
    /\ AwaitingPayment
    /\ payment' = "authorized"
    /\ booking' = [booking EXCEPT !.payment = "authorized"]
    /\ UNCHANGED <<rooms, books, job>>

\* The receipts' release, which leaves a handed off receipt alone.
Released(r) == [r EXCEPT !.receipt = IF @ = "reserved" THEN "released" ELSE @]

\* A booking that was not paid ends: its payment is canceled, a hold has
\* failed, and its rooms are released.
CloseUnpaid(lifecycle) ==
    /\ Pending
    /\ payment' = "canceled"
    /\ booking' = [lifecycle |-> lifecycle,
                   payment |-> IF booking.payment = "authorized" THEN "failed"
                               ELSE booking.payment]
    /\ rooms' = Released(rooms)
    /\ UNCHANGED <<books, job>>

-----------------------------------------------------------------------------
(* A transaction's steps with Stripe *)

Begin(kind) ==
    /\ txn = NoTxn
    /\ txn' = [kind |-> kind, pc |-> "locked", seen |-> "none"]

\* ROLLBACK, or a COMMIT that changed nothing.
EndUnchanged == txn' = NoTxn /\ UNCHANGED stay

Fault == faults < MaxFaults /\ faults' = faults + 1

RetrievePaymentIntent ==
    /\ txn.pc \in {"locked", "failed"}
    /\ txn' = [kind |-> txn.kind, seen |-> intent,
               pc |-> IF txn.pc = "locked" THEN "retrieved" ELSE "answered"]
    /\ UNCHANGED <<quote, stay, due, reads, stripe, faults>>

\* The statuses from which each handler asks Stripe to cancel.
Cancels == [withdraw |-> {"open", "requires_capture"}, expire |-> {"open"},
            lapse |-> {"requires_capture"}, reject |-> {"requires_capture"}]

Calls == \/ txn.kind \in DOMAIN Cancels /\ txn.seen \in Cancels[txn.kind]
         \/ txn.kind = "accept" /\ txn.seen = "requires_capture"

\* Stripe has said all the transaction will ask of it.
Answered == txn.pc = "answered" \/ (txn.pc = "retrieved" /\ ~Calls)

StripeCancels == intent \in {"open", "requires_capture"}

\* Mutation: a cancel that failed is taken for one that worked.
CancelErrorIgnored ==
    /\ txn.kind \in DOMAIN Cancels
    /\ txn.pc = "retrieved" /\ Calls
    /\ intent' = IF StripeCancels THEN "canceled" ELSE intent
    /\ txn' = [kind |-> txn.kind, pc |-> "answered", seen |-> "canceled"]
    /\ UNCHANGED <<quote, stay, due, reads, events, tries, faults>>

\* cancelPaymentIntent: it works, Stripe refuses because the payment moved on,
\* or the call or its answer is lost.  After an error the intent is read again.
CancelPaymentIntent ==
    /\ txn.kind \in DOMAIN Cancels
    /\ txn.pc = "retrieved" /\ Calls
    /\ \/ /\ StripeCancels
          /\ intent' = "canceled"
          /\ txn' = [kind |-> txn.kind, pc |-> "answered", seen |-> "canceled"]
          /\ UNCHANGED faults
       \/ /\ ~StripeCancels
          /\ txn' = [txn EXCEPT !.pc = "failed"]
          /\ UNCHANGED <<intent, faults>>
       \/ /\ Fault
          /\ intent' \in {intent, IF StripeCancels THEN "canceled" ELSE intent}
          /\ txn' = [txn EXCEPT !.pc = "failed"]
    /\ UNCHANGED <<quote, stay, due, reads, events, tries>>

\* capturePaymentIntent of acceptPricingRequest, whose errors roll it back.
CapturePaymentIntent ==
    /\ txn.kind = "accept"
    /\ txn.pc = "retrieved" /\ Calls
    /\ \/ /\ intent = "requires_capture"
          /\ intent' = "succeeded" /\ events' = events \union {"succeeded"}
          /\ txn' = [kind |-> txn.kind, pc |-> "answered", seen |-> "succeeded"]
          /\ UNCHANGED faults
       \/ /\ intent # "requires_capture"
          /\ txn' = NoTxn
          /\ UNCHANGED <<intent, events, faults>>
       \/ /\ Fault /\ txn' = NoTxn
          /\ IF intent = "requires_capture"
             THEN intent' = "succeeded" /\ events' = events \union {"succeeded"}
             ELSE UNCHANGED <<intent, events>>
    /\ UNCHANGED <<quote, stay, due, reads, tries>>

\* The process dies, or a retrieve fails: the transaction rolls back.
Crash ==
    /\ txn # NoTxn
    /\ Fault
    /\ EndUnchanged
    /\ UNCHANGED <<quote, due, reads, stripe>>

-----------------------------------------------------------------------------
(* Acceptance *)

\* Mutation: a replayed acceptance makes a PaymentIntent of its own.
StartPaymentAgain ==
    /\ txn = NoTxn
    /\ txn' = [kind |-> "start", pc |-> "answered", seen |-> "open"]
    /\ intent' = "open"
    /\ UNCHANGED <<quote, stay, due, reads, events, tries, faults>>

\* startPricingCardPayment creates the intent inside the acceptance; a retry
\* after a rollback gets the same intent back.
StartPayment ==
    /\ booking.lifecycle = "none"
    /\ txn = NoTxn
    /\ txn' = [kind |-> "start", pc |-> "answered", seen |-> "open"]
    /\ intent' = "open"
    /\ UNCHANGED <<quote, stay, due, reads, events, tries, faults>>

CommitAcceptance ==
    /\ txn.kind = "start"
    /\ txn' = NoTxn
    /\ booking' = [lifecycle |-> "pending_payment", payment |-> "unpaid"]
    /\ payment' = "requires_action"
    /\ rooms' = [rooms EXCEPT !.receipt = "reserved"]
    /\ UNCHANGED <<quote, books, job, due, reads, stripe, faults>>

-----------------------------------------------------------------------------
(* The page's completion, the acceptance's replay and the webhooks *)

CompleteBegin ==
    /\ AwaitingPayment
    /\ Begin("complete")
    /\ UNCHANGED <<quote, stay, due, reads, stripe, faults>>

\* Mutation: any payment Stripe did not turn down confirms the booking.
CompleteProcessing ==
    /\ txn.kind = "complete" /\ Answered
    /\ \/ /\ mode = "request" /\ txn.seen = "requires_capture"
          /\ authorizeCardRequest(txn.seen) /\ txn' = NoTxn
       \/ /\ mode = "instant" /\ txn.seen \in {"processing", "succeeded"}
          /\ applyCardPayment("succeeded") /\ txn' = NoTxn
       \/ /\ txn.seen \notin {"requires_capture", "processing", "succeeded"}
          /\ EndUnchanged
    /\ UNCHANGED <<quote, due, reads, stripe, faults>>

CompleteFinish ==
    /\ txn.kind = "complete" /\ Answered
    /\ \/ mode = "request" /\ authorizeCardRequest(txn.seen) /\ txn' = NoTxn
       \/ mode = "instant" /\ applyCardPayment(txn.seen) /\ txn' = NoTxn
       \/ txn.seen # (IF mode = "request" THEN "requires_capture" ELSE "succeeded")
          /\ EndUnchanged
    /\ UNCHANGED <<quote, due, reads, stripe, faults>>

\* The replayed acceptance reads booking and intent without the row's lock ...
ReplayReads ==
    /\ "replay" \notin reads
    /\ mode = "request" /\ AwaitingPayment
    /\ intent = "requires_capture"
    /\ reads' = reads \union {"replay"}
    /\ UNCHANGED <<quote, stay, due, txn, stripe, faults>>

\* ... and records the authorisation under it, if the booking still waits.
ReplayAuthorizes ==
    /\ "replay" \in reads
    /\ txn = NoTxn
    /\ reads' = reads \ {"replay"}
    /\ \/ authorizeCardRequest("requires_capture")
       \/ ~AwaitingPayment /\ UNCHANGED stay
    /\ UNCHANGED <<quote, due, txn, stripe, faults>>

\* Mutation: a repeated event settles a payment that is settled already.
SettleAgain ==
    /\ "succeeded" \in events
    /\ txn = NoTxn
    /\ \/ (AwaitingPayment \/ Authorized) /\ applyCardPayment("succeeded")
       \/ Paid /\ books' = [books EXCEPT !.charges = @ + LedgerCharge]
          /\ UNCHANGED <<booking, payment, rooms, job>>
    /\ UNCHANGED <<quote, due, reads, txn, stripe, faults>>

\* payment_intent.succeeded.  Events may come late, again and again, or never;
\* one for a booking that is paid or over changes nothing.
settlePricingCardPayment ==
    /\ "succeeded" \in events
    /\ txn = NoTxn
    /\ AwaitingPayment \/ Authorized
    /\ applyCardPayment("succeeded")
    /\ UNCHANGED <<quote, due, reads, txn, stripe, faults>>

\* payment_intent.amount_capturable_updated, for which the hotel's own account
\* has no handler (authorizeStripeBookingPayment leaves pricing requests alone).
authorizePricingCardRequest ==
    /\ chargeType = "vayada_payment"
    /\ "capturable" \in events
    /\ txn = NoTxn
    /\ authorizeCardRequest("requires_capture")
    /\ UNCHANGED <<quote, due, reads, txn, stripe, faults>>

-----------------------------------------------------------------------------
(* The hotel's answer *)

AcceptBegin ==
    /\ Authorized /\ "answer" \notin due
    /\ Begin("accept")
    /\ UNCHANGED <<quote, stay, due, reads, stripe, faults>>

AcceptFinish ==
    /\ txn.kind = "accept" /\ Answered
    /\ \/ applyCardPayment(txn.seen) /\ txn' = NoTxn
       \/ txn.seen # "succeeded" /\ EndUnchanged
    /\ UNCHANGED <<quote, due, reads, stripe, faults>>

RejectBegin ==
    /\ Authorized
    /\ Begin("reject")
    /\ UNCHANGED <<quote, stay, due, reads, stripe, faults>>

RejectFinish ==
    /\ txn.kind = "reject" /\ Answered
    /\ \/ txn.seen = "canceled" /\ CloseUnpaid("declined") /\ txn' = NoTxn
       \/ txn.seen # "canceled" /\ EndUnchanged
    /\ UNCHANGED <<quote, due, reads, stripe, faults>>

-----------------------------------------------------------------------------
(* The guest's withdrawal, and the cancellation of a paid stay *)

WithdrawLoad ==
    /\ Pending /\ "withdraw" \notin reads
    /\ reads' = reads \union {"withdraw"}
    /\ UNCHANGED <<quote, stay, due, txn, stripe, faults>>

\* voidPricingCardPayment refuses a payment that was taken since.  A payment
\* canceled since needs no call, but then the booking's status has changed.
WithdrawBegin ==
    /\ "withdraw" \in reads
    /\ reads' = reads \ {"withdraw"}
    /\ txn = NoTxn
    /\ \/ payment \in {"requires_action", "authorized"} /\ Begin("withdraw")
       \/ payment \in {"paid", "canceled"} /\ UNCHANGED txn
    /\ UNCHANGED <<quote, stay, due, stripe, faults>>

WithdrawFinish ==
    /\ txn.kind = "withdraw" /\ Answered
    /\ \/ txn.seen = "canceled" /\ CloseUnpaid("canceled") /\ txn' = NoTxn
       \/ txn.seen # "canceled" /\ EndUnchanged
    /\ UNCHANGED <<quote, due, reads, stripe, faults>>

\* cancelAcceptedPricingStay: reserved rooms are released, adopted ones given up.
GivenBack(r) == [Released(r) EXCEPT !.assigned = IF @ = "live" THEN "canceled" ELSE @]

\* recordPricingRetainedRevenue: what the hotel keeps goes back onto the nights
\* that the cancellation cleared; nothing does when nothing is kept of them.
RetainedRevenue(evidence, kept) == IF evidence = "cleared" /\ kept THEN "retained" ELSE evidence

\* The guest or the hotel cancels a paid stay: its refund is staged (module
\* CardRefund), its nights' revenue is cleared and what the booked terms keep
\* recorded again, and its rooms are given back.
CancelPaidStay ==
    \E kept \in BOOLEAN :
        /\ Paid
        /\ txn = NoTxn
        /\ booking' = [booking EXCEPT !.lifecycle = "canceled"]
        /\ books' = [books EXCEPT !.evidence = RetainedRevenue("cleared", kept)]
        /\ rooms' = GivenBack(rooms)
        /\ UNCHANGED <<quote, payment, job, due, reads, txn, stripe, faults>>

-----------------------------------------------------------------------------
(* The pending booking expiry sweep *)

\* The candidates are selected for the whole run, before any is locked.
SweepSelect ==
    /\ reads \intersect {"unpaid", "authorized"} = {}
    /\ Pending
    /\ (IF booking.payment = "authorized" THEN "answer" ELSE "pay") \in due
    /\ reads' = reads \union {booking.payment}
    /\ UNCHANGED <<quote, stay, due, txn, stripe, faults>>

SweepBegin ==
    /\ txn = NoTxn
    /\ \E candidate \in reads \intersect {"unpaid", "authorized"} :
           /\ reads' = reads \ {candidate}
           /\ \/ candidate = "authorized" /\ Authorized /\ Begin("lapse")
              \/ candidate = "unpaid" /\ Pending /\ booking.payment = "unpaid" /\ Begin("expire")
              \/ ~(Pending /\ booking.payment = candidate) /\ UNCHANGED txn
    /\ UNCHANGED <<quote, stay, due, stripe, faults>>

\* expirePricingCardBooking: a payment that came in time confirms or is
\* recorded; a hold met only after a failed cancel waits for the next run.
ExpireFinish ==
    /\ txn.kind = "expire" /\ Answered
    /\ \/ applyCardPayment(txn.seen) /\ txn' = NoTxn
       \/ txn.pc = "retrieved" /\ authorizeCardRequest(txn.seen) /\ txn' = NoTxn
       \/ txn.seen = "canceled" /\ CloseUnpaid("expired") /\ txn' = NoTxn
       \/ /\ \/ txn.seen \in {"open", "processing"}
             \/ txn.seen = "requires_capture" /\ txn.pc = "answered"
          /\ EndUnchanged
    /\ UNCHANGED <<quote, due, reads, stripe, faults>>

\* Mutation: a request captured at the last moment is left alone.
LapseIgnoresCapture ==
    /\ txn.kind = "lapse" /\ Answered
    /\ \/ txn.seen = "canceled" /\ CloseUnpaid("expired") /\ txn' = NoTxn
       \/ txn.seen # "canceled" /\ EndUnchanged
    /\ UNCHANGED <<quote, due, reads, stripe, faults>>

\* resolveExpiredStripeAuthorization and updateBookingLifecycleStatus.
LapseFinish ==
    /\ txn.kind = "lapse" /\ Answered
    /\ \/ applyCardPayment(txn.seen) /\ txn' = NoTxn
       \/ txn.seen = "canceled" /\ CloseUnpaid("expired") /\ txn' = NoTxn
       \/ txn.seen \notin {"succeeded", "canceled"} /\ EndUnchanged
    /\ UNCHANGED <<quote, due, reads, stripe, faults>>

\* Only a booking that waits has a deadline; the hotel's starts with the hold.
DeadlinePasses ==
    /\ Pending
    /\ due' = due \union {IF booking.payment = "authorized" THEN "answer" ELSE "pay"}
    /\ due' # due
    /\ UNCHANGED <<quote, stay, reads, txn, stripe, faults>>

-----------------------------------------------------------------------------
(* The accepted pricing worker: claim and work are one transaction, so a    *)
(* crash leaves the job as it was.                                          *)

\* The worker waits for the property's inventory lock, which every handler
\* holds but the hotel's acceptance and the sweep of an authorised request.
InventoryFree == txn.kind \in {"none", "accept", "lapse"}

Claim == job.status = "pending" /\ job.attempts < MaxAttempts /\ InventoryFree

\* Mutation: the receipts' state is not looked at.
AdoptReleased ==
    /\ Claim
    /\ job' = [status |-> "succeeded", attempts |-> job.attempts + 1]
    /\ rooms' = [receipt |-> "handed_off", assigned |-> "live"]
    /\ UNCHANGED <<quote, booking, payment, books, due, reads, txn, stripe, faults>>

\* Released rooms are a conflict, which no retry can mend.
AdoptReservation ==
    /\ Claim
    /\ \/ /\ rooms.receipt = "reserved"
          /\ rooms' = [receipt |-> "handed_off", assigned |-> "live"]
          /\ job' = [status |-> "succeeded", attempts |-> job.attempts + 1]
       \/ /\ rooms.receipt # "reserved"
          /\ job' = [status |-> "dead_lettered", attempts |-> job.attempts + 1]
          /\ UNCHANGED rooms
    /\ UNCHANGED <<quote, booking, payment, books, due, reads, txn, stripe, faults>>

\* Mutation: the last failed attempt leaves the job pending, not dead-lettered.
NeverDeadLettered ==
    /\ Claim
    /\ job' = [job EXCEPT !.attempts = @ + 1]
    /\ UNCHANGED <<quote, booking, payment, rooms, books, due, reads, txn, stripe, faults>>

AdoptFails ==
    /\ Claim
    /\ job' = [status |-> IF job.attempts + 1 >= MaxAttempts THEN "dead_lettered" ELSE "pending",
               attempts |-> job.attempts + 1]
    /\ UNCHANGED <<quote, booking, payment, rooms, books, due, reads, txn, stripe, faults>>

-----------------------------------------------------------------------------
(* The guest and the bank at Stripe *)

Charged == IF mode = "request" THEN "requires_capture" ELSE "succeeded"
Event == IF mode = "request" THEN "capturable" ELSE "succeeded"

\* The guest pays with the secret the acceptance answered with, at any time.
GuestPays ==
    /\ booking.lifecycle # "none"
    /\ intent = "open" /\ tries < MaxTries
    /\ intent' = "processing" /\ tries' = tries + 1
    /\ UNCHANGED <<quote, stay, due, reads, txn, events, faults>>

BankAnswers ==
    /\ intent = "processing"
    /\ \/ intent' = Charged /\ events' = events \union {Event}
       \/ intent' = "open" /\ UNCHANGED events
    /\ UNCHANGED <<quote, stay, due, reads, txn, tries, faults>>

\* The bank lets go of its hold, days later or earlier than promised.
HoldLapses ==
    /\ intent = "requires_capture"
    /\ intent' = "canceled"
    /\ UNCHANGED <<quote, stay, due, reads, txn, events, tries, faults>>

-----------------------------------------------------------------------------
TxnStep ==
    \/ RetrievePaymentIntent \/ CancelPaymentIntent \/ CapturePaymentIntent
    \/ CommitAcceptance \/ CompleteFinish \/ AcceptFinish \/ RejectFinish
    \/ WithdrawFinish \/ ExpireFinish \/ LapseFinish

Worker == AdoptReservation \/ AdoptFails

Next ==
    \/ StartPayment \/ TxnStep \/ Crash
    \/ CompleteBegin \/ ReplayReads \/ ReplayAuthorizes
    \/ settlePricingCardPayment \/ authorizePricingCardRequest
    \/ AcceptBegin \/ RejectBegin \/ WithdrawLoad \/ WithdrawBegin \/ CancelPaidStay
    \/ SweepSelect \/ SweepBegin \/ DeadlinePasses
    \/ Worker
    \/ GuestPays \/ BankAnswers \/ HoldLapses

\* Transactions run on, the lifecycle sweep and the worker run every minute,
\* clocks advance and banks answer.  The sweep gets the row's lock in its turn
\* however often others take it, since PostgreSQL queues them.  Nothing is
\* assumed of the guest, the hotel or Stripe's webhooks.
Fairness ==
    /\ WF_vars(TxnStep)
    /\ WF_vars(SweepSelect) /\ SF_vars(SweepBegin)
    /\ WF_vars(DeadlinePasses) /\ WF_vars(BankAnswers)
    /\ SF_vars(Worker)

Spec == Init /\ [][Next]_vars
FairSpec == Spec /\ Fairness

-----------------------------------------------------------------------------
(* Properties *)

\* Every record stays in its shape; one charge at most is in the ledger.
TypeOK ==
    /\ mode \in Modes /\ chargeType \in ChargeTypes
    /\ booking \in [lifecycle : {"none", "pending_payment", "confirmed", "expired",
                                 "declined", "canceled"},
                    payment : {"unpaid", "authorized", "paid", "failed"}]
    /\ payment \in {"none", "requires_action", "authorized", "paid", "canceled"}
    /\ rooms \in [receipt : {"none", "reserved", "released", "handed_off"},
                  assigned : {"none", "live", "canceled"}]
    /\ books \in [charges : 0 .. 1, 
                  evidence : {"none", "recorded", "cleared", "retained"}]
    /\ job \in [status : {"none", "pending", "succeeded", "dead_lettered"},
                attempts : 0 .. MaxAttempts]
    /\ due \subseteq {"pay", "answer"}
    /\ reads \subseteq {"withdraw", "replay", "unpaid", "authorized"}
    /\ txn \in [kind : {"none", "start", "complete", "accept", "reject", "withdraw",
                        "expire", "lapse"},
                pc : {"none", "locked", "retrieved", "failed", "answered"},
                seen : {"none", "open", "processing", "requires_capture", "succeeded",
                        "canceled"}]
    /\ intent \in {"none", "open", "processing", "requires_capture", "succeeded", "canceled"}
    /\ events \subseteq {"capturable", "succeeded"}
    /\ tries \in 0 .. MaxTries /\ faults \in 0 .. MaxFaults

\* The stay was paid for and confirmed, though it may be cancelled by now.
Settled == booking.payment = "paid"

\* The booking ended without being paid for.
Over == booking.lifecycle \in {"expired", "declined", "canceled"} /\ ~Settled

\* A booking is confirmed only with money Stripe took: whichever handler
\* confirms it, on an answer or an event however old, the charge stands.
ConfirmedIsCharged == booking.lifecycle = "confirmed" \/ Settled => intent = "succeeded"

\* A booking that expired, was declined or withdrawn has left nothing behind
\* at Stripe: no hold, no charge and no way to pay it any more, though the
\* guest was free to pay until the very moment it ended.
EndedIsVoid == Over => intent = "canceled" /\ payment = "canceled"

\* The rooms are held from acceptance on for as long as the stay stands, and
\* are free once it is over, whether the hand-off job ran before the stay was
\* cancelled, after it, or never.
RoomsFollowStay ==
    /\ Pending => rooms = [receipt |-> "reserved", assigned |-> "none"]
    /\ booking.lifecycle = "confirmed" =>
           \/ rooms = [receipt |-> "reserved", assigned |-> "none"]
           \/ rooms = [receipt |-> "handed_off", assigned |-> "live"]
    /\ booking.lifecycle \in {"expired", "declined", "canceled"} =>
           rooms.receipt # "reserved" /\ rooms.assigned # "live"

\* Money, revenue and hand-off go together, whoever confirms and whoever
\* cancels: the payment is paid and the hand-off job exists exactly when the
\* stay was confirmed, the hotel's ledger has its one charge exactly when that
\* money is on Vayada's account, the nights are revenue in full exactly while
\* the stay stands, and cleared or down to what is kept exactly once a paid stay
\* was cancelled (applyCardPayment, recordPricingRetainedRevenue).
BooksFollowStay ==
    /\ Settled <=> payment = "paid"
    /\ books.charges = 1 <=> Settled /\ chargeType = "vayada_payment"
    /\ Settled <=> job.status # "none"
    /\ booking.lifecycle = "confirmed" <=> books.evidence = "recorded"
    /\ Settled /\ booking.lifecycle = "canceled" <=> books.evidence \in {"cleared", "retained"}

StateOfStay ==
    CASE booking.lifecycle = "none" -> "none"
      [] booking.lifecycle = "pending_payment" -> "waiting"
      [] booking.lifecycle = "confirmed" -> "standing"
      [] booking.lifecycle \in {"expired", "declined", "canceled"} ->
             IF Settled THEN "cancelled" ELSE "over"

MoneyAtStripe ==
    CASE intent \in {"none", "open", "processing"} -> "none"
      [] intent = "requires_capture" -> "held"
      [] intent = "succeeded" -> "taken"
      [] intent = "canceled" -> "void"

Promise == INSTANCE PaidStay WITH state <- StateOfStay, money <- MoneyAtStripe

\* All handlers together keep the promise of PaidStay: no step of any of them
\* confirms before the money is taken, ends a booking before its money is void,
\* or touches the card of a booking that no longer waits.
StayPromise == Promise!PSSpec

\* A booking does not stay pending, and its rooms held, for ever: even when
\* the guest closes the page, the hotel never answers and every webhook is
\* lost, a charged guest is confirmed and every other booking ends.
PendingEnds == Pending ~> ~Pending

\* A staged hand-off is carried out or set aside for a person.
HandOffEnds == job.status = "pending" ~> job.status # "pending"
=============================================================================
