----------------------------- MODULE CardRefund -----------------------------
(***************************************************************************)
(* The automatic card refund of a cancelled, paid pricing-v2 stay          *)
(* (pricingCardRefund.ts): the cancel stages a command, an executor asks   *)
(* Stripe for it or finds what Stripe already made, follows it to the end  *)
(* and settles it in the payment and the hotel's ledger (HotelLedger).     *)
(* Refunds made by hand in Stripe's dashboard come in through webhooks     *)
(* (vayadaPaymentWebhookEvents.ts) and share the settlement.               *)
(*                                                                         *)
(* The executor holds its command's row lock over all its Stripe calls, so *)
(* one runs at a time for the payment's only pending command.  A crash     *)
(* rolls its transaction back and leaves at Stripe what was asked.         *)
(***************************************************************************)
EXTENDS HotelLedger, Sequences, FiniteSetsExt

CONSTANTS
    Retained,          \* what the booked terms may keep
    AmountStep,        \* the currency's rounding step
    MAX_ATTEMPTS,      \* refused attempts before a refund is given up
    MaxCommands,       \* bound: the cancel's command and the host's retries
    MaxErrors,         \* bound: Stripe calls that fail or lose their answer
    MaxCrashes,        \* bound: executor crashes
    DashboardAmounts,  \* the amounts staff may refund by hand
    MaxDashboard       \* bound: refunds by hand

ASSUME RefundAssumption ==
    /\ Retained \subseteq 0 .. Paid
    /\ AmountStep \in Nat \ {0}
    /\ MAX_ATTEMPTS \in Nat \ {0}
    /\ MaxCommands \in Nat \ {0}
    /\ MaxErrors \in Nat /\ MaxCrashes \in Nat /\ MaxDashboard \in Nat
    /\ DashboardAmounts \subseteq 1 .. Paid

VARIABLES
    canceled,  \* the stay is cancelled
    commands,  \* finance.card_refund_commands, in the order of created_at
    exec,      \* the running executor: where it is and what Stripe told it
    refunds,   \* the refunds of the payment at Stripe, in the order made
    inflight,  \* create requests Stripe has not answered yet, by key
    refusals,  \* keys whose create Stripe refused: replayed for a day
    recorded,  \* refunds settled as money here (source keys)
    flagged,   \* recorded refunds by hand that a person is told failed since
    overtaken, \* history: a retry came before Stripe was done with an earlier create
    faults     \* errors, crashes and refunds by hand so far

refundVars == <<canceled, commands, exec, refunds, inflight, refusals, recorded, flagged,
                overtaken, faults>>
vars == <<ledgerVars, payoutVars, refundVars>>

Commands == 1 .. MaxCommands
Dashboard == 0
Idle == [pc |-> "idle", command |-> 0, refund |-> 0, seen |-> "none"]
NoCommand == [status |-> "none", amount |-> 0, attempts |-> 0, waiting |-> FALSE,
              refund |-> 0, why |-> "none"]
AttemptsCap == MAX_ATTEMPTS + MaxErrors

RefundInit ==
    /\ canceled = FALSE
    /\ commands = [c \in Commands |-> NoCommand]
    /\ exec = Idle
    /\ refunds = << >>
    /\ inflight = {} /\ refusals = {} /\ recorded = {} /\ flagged = {}
    /\ overtaken = FALSE
    /\ faults = [errors |-> 0, crashes |-> 0, dashboard |-> 0]

Init == LedgerInit /\ RefundInit

-----------------------------------------------------------------------------
(* Asking for the refund *)

\* Mutation: rounded up in the guest's favour, beyond what was paid.
RefundUncapped(retained) ==
    LET owed == Paid - retained IN
    IF owed <= 0 THEN 0 ELSE ((owed + AmountStep - 1) \div AmountStep) * AmountStep

\* What a cancelled stay gets back, rounded up to the step, at most what was paid.
pricingCardRefundMinor(retained) ==
    LET owed == Paid - retained
        rounded == ((owed + AmountStep - 1) \div AmountStep) * AmountStep
    IN IF owed <= 0 THEN 0 ELSE Lesser(rounded, Paid)

\* 0494's unique index: at most one refund of the payment that hasn't failed.
LiveCommands == {c \in Commands : commands[c].status \in {"pending", "succeeded"}}
Unused == {c \in Commands : commands[c].status = "none"}
RefundPending == \E c \in Commands : commands[c].status = "pending"

NextCommand(c) == c \in Unused /\ \A d \in Unused : c <= d

InsertCommand(c, amount) ==
    /\ LiveCommands = {}
    /\ commands' = [commands EXCEPT ![c] = [NoCommand EXCEPT !.status = "pending",
                                                             !.amount = amount]]

\* stagePricingCardRefund in the guest's or the host's cancel transaction: a
\* payment refunded in part is "unavailable", which refuses the cancel.
CancelStay ==
    \E retained \in Retained, c \in Commands :
        LET amount == pricingCardRefundMinor(retained) IN
        /\ ~canceled
        /\ payment.status = "paid" /\ payment.refunded = 0
        /\ NextCommand(c)
        /\ IF amount = 0 THEN UNCHANGED commands ELSE InsertCommand(c, amount)
        /\ canceled' = TRUE
        /\ UNCHANGED <<ledgerVars, payoutVars, exec, refunds, inflight, refusals, recorded, flagged,
                       overtaken, faults>>

\* retryPricingCardRefund: the host asks again, only for the stay's latest
\* refund and only once it failed, whatever Stripe is still about to make.
RetryRefund ==
    \E c, failed \in Commands :
        /\ NextCommand(c) /\ failed = c - 1
        /\ commands[failed].status = "failed"
        /\ InsertCommand(c, commands[failed].amount)
        /\ overtaken' = (overtaken \/ inflight # {})
        /\ UNCHANGED <<ledgerVars, payoutVars, canceled, exec, refunds, inflight, refusals,
                       recorded, flagged, faults>>

-----------------------------------------------------------------------------
(* Stripe: create requests, refunds and their ends *)

Live == {i \in DOMAIN refunds : refunds[i].status \in {"pending", "succeeded"}}
Unrefunded == Paid - MapThenSumSet(LAMBDA i : refunds[i].amount, Live)

\* A key is a command's attempt; the dashboard's refunds carry no command.
Key(c) == [command |-> c, attempt |-> commands[c].attempts]

StripeUnchanged ==
    UNCHANGED <<ledgerVars, payoutVars, canceled, commands, exec, recorded, flagged, overtaken>>

MakeRefund(c, attempt, amount) ==
    /\ amount <= Unrefunded
    /\ \E status \in {"pending", "succeeded"} :
           refunds' = Append(refunds, [command |-> c, attempt |-> attempt,
                                       amount |-> amount, status |-> status])

\* Stripe makes what it was asked, once per key and within the charge, ...
StripeCreates(k) ==
    /\ MakeRefund(k.command, k.attempt, commands[k.command].amount)
    /\ inflight' = inflight \ {k}
    /\ StripeUnchanged /\ UNCHANGED <<refusals, faults>>

\* ... or refuses it (a 4xx answer), ...
StripeRefuses(k) ==
    /\ inflight' = inflight \ {k}
    /\ refusals' = refusals \cup {k}
    /\ StripeUnchanged /\ UNCHANGED <<refunds, faults>>

\* ... and brings a refund under way to its end, ...
StripeEnds(i) ==
    /\ refunds[i].status = "pending"
    /\ \E status \in {"succeeded", "failed"} :
           refunds' = [refunds EXCEPT ![i].status = status]
    /\ StripeUnchanged /\ UNCHANGED <<inflight, refusals, faults>>

\* ... which is not always the last word: the money of a refund that succeeded
\* can come back.  Stripe calls it failed then; here it is "returned".
StripeFailsLate(i) ==
    /\ refunds[i].status = "succeeded"
    /\ refunds' = [refunds EXCEPT ![i].status = "returned"]
    /\ StripeUnchanged /\ UNCHANGED <<inflight, refusals, faults>>

StripeSays(i) == IF refunds[i].status = "returned" THEN "failed" ELSE refunds[i].status

\* Stripe has said of refund i that it succeeded, now or earlier.
Arrived(i) == refunds[i].status \in {"succeeded", "returned"}

\* Staff refund a part by hand in Stripe's dashboard.
StripeDashboard ==
    /\ faults.dashboard < MaxDashboard
    /\ \E amount \in DashboardAmounts : MakeRefund(Dashboard, 0, amount)
    /\ faults' = [faults EXCEPT !.dashboard = @ + 1]
    /\ StripeUnchanged /\ UNCHANGED <<inflight, refusals>>

-----------------------------------------------------------------------------
(* executePricingCardRefund *)

ExecutorUnchanged == UNCHANGED <<ledgerVars, payoutVars, canceled, flagged, overtaken>>
Attempts(c) == Lesser(commands[c].attempts + 1, AttemptsCap)

\* The command's row lock, a pending command, its wait over.
ExecuteBegin(c) ==
    /\ exec = Idle
    /\ commands[c].status = "pending" /\ ~commands[c].waiting
    /\ exec' = [Idle EXCEPT !.pc = "looking", !.command = c]
    /\ ExecutorUnchanged
    /\ UNCHANGED <<commands, refunds, inflight, refusals, recorded, faults>>

Answered(i) == exec' = [exec EXCEPT !.pc = "answered", !.refund = i, !.seen = StripeSays(i)]

\* A refund Stripe is known to have is followed.
RetrieveRefund ==
    /\ exec.pc = "looking" /\ commands[exec.command].refund # 0
    /\ Answered(commands[exec.command].refund)
    /\ ExecutorUnchanged
    /\ UNCHANGED <<commands, refunds, inflight, refusals, recorded, faults>>

\* The list of refunds Stripe has for the payment, read for this command.
Own == {i \in DOMAIN refunds : refunds[i].command = exec.command}
Followable(i) == /\ refunds[i].command \in Commands
                 /\ refunds[i].amount = commands[exec.command].amount
Blocked == Own = {} /\ (Cardinality(Live) > 1 \/ \E i \in Live : ~Followable(i))

ListFinds ==
    /\ exec.pc = "looking" /\ commands[exec.command].refund = 0
    /\ ~Blocked
    /\ \E i \in IF Own # {} THEN Own ELSE Live :
           (\A j \in Own : i >= j) /\ Answered(i)
    /\ ExecutorUnchanged
    /\ UNCHANGED <<commands, refunds, inflight, refusals, recorded, faults>>

\* RefundAlreadyAtStripe: given up at once, a person looks into it.
ListBlocks ==
    /\ exec.pc = "looking" /\ commands[exec.command].refund = 0
    /\ Blocked
    /\ commands' = [commands EXCEPT ![exec.command] =
                       [@ EXCEPT !.status = "failed", !.why = "blocked",
                                 !.attempts = Attempts(exec.command)]]
    /\ exec' = Idle
    /\ ExecutorUnchanged
    /\ UNCHANGED <<refunds, inflight, refusals, recorded, faults>>

\* Nothing there: createRefund with this attempt's key.  Stripe answers a key
\* it has answered before with the same answer.
CreateRefund ==
    /\ exec.pc = "looking" /\ commands[exec.command].refund = 0
    /\ Own = {} /\ Live = {}
    /\ exec' = [exec EXCEPT !.pc = "creating"]
    /\ inflight' = inflight \cup ({Key(exec.command)} \ refusals)
    /\ ExecutorUnchanged
    /\ UNCHANGED <<commands, refunds, refusals, recorded, faults>>

CreateAnswered ==
    /\ exec.pc = "creating"
    /\ \E i \in DOMAIN refunds :
           /\ refunds[i].command = exec.command
           /\ refunds[i].attempt = commands[exec.command].attempts
           /\ Answered(i)
    /\ ExecutorUnchanged
    /\ UNCHANGED <<commands, refunds, inflight, refusals, recorded, faults>>

\* The attempt ends in an error: a later retry, or the end.
AttemptFails(c, giveUp) ==
    commands' = [commands EXCEPT ![c] =
        [@ EXCEPT !.attempts = Attempts(c),
                  !.waiting = ~giveUp,
                  !.status = IF giveUp THEN "failed" ELSE commands[c].status,
                  !.why = IF giveUp THEN "refused" ELSE commands[c].why]]

\* Mutation: a refund Stripe refuses is asked for ever.
NeverGivenUp ==
    /\ exec.pc = "creating" /\ Key(exec.command) \in refusals
    /\ AttemptFails(exec.command, FALSE)
    /\ exec' = Idle
    /\ ExecutorUnchanged
    /\ UNCHANGED <<refunds, inflight, refusals, recorded, faults>>

\* A definite refusal counts towards giving up.
CreateRefused ==
    /\ exec.pc = "creating" /\ Key(exec.command) \in refusals
    /\ AttemptFails(exec.command, commands[exec.command].attempts + 1 >= MAX_ATTEMPTS)
    /\ exec' = Idle
    /\ ExecutorUnchanged
    /\ UNCHANGED <<refunds, inflight, refusals, recorded, faults>>

\* Mutation: a lost answer counts towards giving up like a refusal.
LostAnswerRefused ==
    /\ exec.pc \in {"looking", "creating"}
    /\ faults.errors < MaxErrors
    /\ AttemptFails(exec.command, exec.pc = "creating" /\
                                  commands[exec.command].attempts + 1 >= MAX_ATTEMPTS)
    /\ exec' = Idle
    /\ faults' = [faults EXCEPT !.errors = @ + 1]
    /\ ExecutorUnchanged
    /\ UNCHANGED <<refunds, inflight, refusals, recorded>>

\* Stripe's answer is lost, or the call failed on its way: never given up on.
\* A create that did not get there is never made.
AnswerLost ==
    /\ exec.pc \in {"looking", "creating"}
    /\ faults.errors < MaxErrors
    /\ AttemptFails(exec.command, FALSE)
    /\ inflight' \in {inflight, inflight \ {Key(exec.command)}}
    /\ exec' = Idle
    /\ faults' = [faults EXCEPT !.errors = @ + 1]
    /\ ExecutorUnchanged
    /\ UNCHANGED <<refunds, refusals, recorded>>

\* next_attempt_at passes.  LOST_ANSWER_WAIT_MINUTES is longer than Stripe
\* takes over a create, so by then the list shows what it made.
WaitOver(c) ==
    /\ commands[c].waiting
    /\ \A k \in inflight : k.command # c
    /\ commands' = [commands EXCEPT ![c].waiting = FALSE]
    /\ ExecutorUnchanged
    /\ UNCHANGED <<exec, refunds, inflight, refusals, recorded, faults>>

\* The refund id and a later look: keepPending, and a settlement that failed and
\* was rolled back to settle_refund (a deadlock, a lock or a statement timeout,
\* or a refund on top of one that was recorded and came back since).
KeepRefund(c) ==
    commands' = [commands EXCEPT ![c] = [@ EXCEPT !.refund = exec.refund,
                                                  !.attempts = Attempts(c),
                                                  !.waiting = TRUE]]

Exceeds == payment.refunded + commands[exec.command].amount > Paid

FollowLater ==
    /\ exec.pc = "answered"
    /\ \/ exec.seen = "pending" /\ UNCHANGED faults
       \/ exec.seen = "succeeded" /\ Exceeds /\ UNCHANGED faults
       \/ /\ exec.seen = "succeeded" /\ faults.errors < MaxErrors
          /\ faults' = [faults EXCEPT !.errors = @ + 1]
    /\ KeepRefund(exec.command)
    /\ exec' = Idle
    /\ ExecutorUnchanged
    /\ UNCHANGED <<refunds, inflight, refusals, recorded>>

\* failRefund: Stripe says the refund came to nothing.
FailRefund ==
    /\ exec.pc = "answered" /\ exec.seen = "failed"
    /\ commands' = [commands EXCEPT ![exec.command] =
                       [@ EXCEPT !.status = "failed", !.why = "stripe",
                                 !.refund = exec.refund]]
    /\ exec' = Idle
    /\ ExecutorUnchanged
    /\ UNCHANGED <<refunds, inflight, refusals, recorded, faults>>

\* settleRefund: the money, the command and its ledger row in one transaction.
SettleRefund ==
    /\ exec.pc = "answered" /\ exec.seen = "succeeded"
    /\ ApplyCardRefundMoney(commands[exec.command].amount)
    /\ commands' = [commands EXCEPT ![exec.command] =
                       [@ EXCEPT !.status = "succeeded", !.refund = exec.refund]]
    /\ recorded' = recorded \cup {exec.refund}
    /\ exec' = Idle
    /\ UNCHANGED <<payoutVars, canceled, refunds, inflight, refusals, flagged, overtaken, faults>>

\* The process or its connection dies: the transaction is rolled back, a
\* create that was asked may still arrive.
ExecutorCrash ==
    /\ exec # Idle
    /\ faults.crashes < MaxCrashes
    /\ inflight' \in {inflight, inflight \ {Key(exec.command)}}
    /\ exec' = Idle
    /\ faults' = [faults EXCEPT !.crashes = @ + 1]
    /\ ExecutorUnchanged
    /\ UNCHANGED <<commands, refunds, refusals, recorded>>

-----------------------------------------------------------------------------
(* recordDashboardRefund *)

\* Mutation: the event that a refund was made is taken for its success.
RecordDashboardMade(i) ==
    /\ refunds[i].command = Dashboard
    /\ i \notin recorded
    /\ payment.status # "open"
    /\ ApplyCardRefundMoney(refunds[i].amount)
    /\ recorded' = recorded \cup {i}
    /\ UNCHANGED <<payoutVars, canceled, commands, exec, refunds, inflight, refusals, flagged,
                   overtaken, faults>>

\* A refund event without a command id that says it succeeded, which may be news
\* of yesterday: recorded once, and only after the payment is settled here
\* (until then Stripe sends it again).
RecordDashboardRefund(i) ==
    /\ refunds[i].command = Dashboard /\ Arrived(i)
    /\ i \notin recorded
    /\ payment.status # "open"
    /\ ApplyCardRefundMoney(refunds[i].amount)
    /\ recorded' = recorded \cup {i}
    /\ UNCHANGED <<payoutVars, canceled, commands, exec, refunds, inflight, refusals, flagged,
                   overtaken, faults>>

\* The event that a recorded one failed after all: a person corrects the books.
FlagDashboardFailure(i) ==
    /\ refunds[i].command = Dashboard /\ refunds[i].status = "returned"
    /\ i \in recorded \ flagged
    /\ flagged' = flagged \cup {i}
    /\ UNCHANGED <<ledgerVars, payoutVars, canceled, commands, exec, refunds, inflight, refusals,
                   recorded, overtaken, faults>>

-----------------------------------------------------------------------------
LedgerStep ==
    /\ \/ (RecordCharge \/ DisputeNext) /\ UNCHANGED payoutVars
       \/ PayoutNext(RefundPending)
    /\ UNCHANGED refundVars

ExecutorStep ==
    \/ \E c \in Commands : ExecuteBegin(c)
    \/ RetrieveRefund \/ ListFinds \/ ListBlocks \/ CreateRefund
    \/ CreateAnswered \/ CreateRefused
    \/ FollowLater \/ FailRefund \/ SettleRefund

StripeStep ==
    \/ \E k \in inflight : StripeCreates(k) \/ StripeRefuses(k)
    \/ \E i \in DOMAIN refunds : StripeEnds(i) \/ StripeFailsLate(i)

Next ==
    \/ CancelStay \/ RetryRefund
    \/ ExecutorStep \/ StripeStep \/ StripeDashboard
    \/ AnswerLost \/ ExecutorCrash
    \/ \E c \in Commands : WaitOver(c)
    \/ \E i \in DOMAIN refunds : RecordDashboardRefund(i) \/ FlagDashboardFailure(i)
    \/ LedgerStep

\* The sweep runs every minute, time passes, and Stripe answers and brings its
\* refunds to an end.
Fairness ==
    /\ WF_vars(ExecutorStep)
    /\ WF_vars(\E k \in inflight : StripeCreates(k) \/ StripeRefuses(k))
    /\ WF_vars(\E i \in DOMAIN refunds : StripeEnds(i))
    /\ WF_vars(\E c \in Commands : WaitOver(c))

Spec == Init /\ [][Next]_vars
FairSpec == Spec /\ Fairness

-----------------------------------------------------------------------------
(* Properties *)

\* Every record stays in its shape, and refunded_amount within what was paid.
TypeOK ==
    /\ payment \in [status : {"open", "paid", "partially_refunded", "refunded"},
                    refunded : 0 .. Paid]
    /\ ledger \in [charged : BOOLEAN, taken : 0 .. Paid, planFeeBack : 0 .. PlanFee,
                   disputeFee : 0 .. DisputeFee, paidOut : Int]
    /\ dispute \in [phase : {"none", "withdrawn", "reinstated"}, taken : 0 .. Paid,
                    fee : 0 .. DisputeFee]
    /\ stripeDispute \in [phase : {"none", "withdrawn", "reinstated"}, amount : 0 .. Paid]
    /\ payouts \in [PayoutIds -> [amount : Nat, destination : DestinationIds,
                                  sent : BOOLEAN, returned : BOOLEAN]]
    /\ destination \in [id : DestinationIds, enabled : BOOLEAN, approved : BOOLEAN]
    /\ starting \in [id : 0 .. MaxPayouts, amount : Nat, destination : DestinationIds]
    /\ canceled \in BOOLEAN
    /\ commands \in [Commands -> [status : {"none", "pending", "succeeded", "failed"},
                                  amount : 0 .. Paid, attempts : 0 .. AttemptsCap,
                                  waiting : BOOLEAN, refund : Nat,
                                  why : {"none", "refused", "stripe", "blocked"}]]
    /\ exec \in [pc : {"idle", "looking", "creating", "answered"}, command : 0 .. MaxCommands,
                 refund : Nat, seen : {"none", "pending", "succeeded", "failed"}]
    /\ refunds \in Seq([command : 0 .. MaxCommands, attempt : 0 .. AttemptsCap,
                        amount : 1 .. Paid,
                        status : {"pending", "succeeded", "failed", "returned"}])
    /\ inflight \subseteq [command : Commands, attempt : 0 .. AttemptsCap]
    /\ refusals \subseteq [command : Commands, attempt : 0 .. AttemptsCap]
    /\ recorded \subseteq DOMAIN refunds /\ flagged \subseteq recorded
    /\ overtaken \in BOOLEAN
    /\ faults \in [errors : 0 .. MaxErrors, crashes : 0 .. MaxCrashes, dashboard : 0 .. MaxDashboard]

\* The payment's refunded_amount is exactly the refunds recorded, each of them
\* once and only after Stripe said it succeeded, whichever of the sweep and the
\* webhook recorded it, in whatever order the news came and though the money may
\* have come back since (settleRefund, recordDashboardRefund).
RefundedIsStripes ==
    /\ payment.refunded = MapThenSumSet(LAMBDA i : refunds[i].amount, recorded)
    /\ \A i \in recorded : Arrived(i)
    /\ \A c \in Commands : commands[c].status = "succeeded" => commands[c].refund \in recorded

\* Refunds and a dispute of one payment take from the hotel exactly what left
\* Vayada's account and never more than was paid, in whatever order Stripe
\* reports them and however often (recordVayadaPaymentRefund and -Dispute).
TakenExact ==
    ledger.taken = Lesser(Paid, payment.refunded +
                          IF dispute.phase = "withdrawn" THEN stripeDispute.amount ELSE 0)

\* Payouts that went out and were not sent back never exceed what the hotel
\* earned with the charge, over starts, replays, cancellations and returns.
PaidOutAtMostEarned ==
    MapThenSumSet(LAMBDA i : payouts[i].amount, {i \in PayoutIds : ~payouts[i].returned})
        <= Paid - ChargeFee

\* A payout is recorded only for the account that is in use and approved at
\* that very moment, though it was read before (start's share lock).
PayoutToApprovedAccount ==
    [][\A i \in PayoutIds : payouts'[i].amount # payouts[i].amount =>
           /\ destination.enabled /\ destination.approved
           /\ payouts'[i].destination = destination.id]_vars

\* A staged refund does not stay pending: it is settled or reported as failed,
\* unless the books are wrong already, with a refund in them that came back.
RefundResolves ==
    \A c \in Commands : commands[c].status = "pending" ~>
        \/ commands[c].status # "pending"
        \/ \E i \in recorded : refunds[i].status = "returned"

CommandMade == {i \in Live : refunds[i].command # Dashboard}

\* The guest is never refunded twice: of all the refunds the commands asked for,
\* one stands at Stripe at most (findOrCreateRefund's list before each create).
NeverRefundedTwice == Cardinality(CommandMade) <= 1

Latest == IF Unused = Commands THEN 0 ELSE Max(Commands \ Unused)

\* What the stay's latest command tells the guest and the host.
Said ==
    CASE overtaken -> "overtaken"
      [] ~overtaken /\ Latest = 0 -> "none"
      [] ~overtaken /\ Latest # 0 /\ commands[Latest].status = "pending" -> "asked"
      [] ~overtaken /\ Latest # 0 /\ commands[Latest].status = "succeeded" -> "refunded"
      [] ~overtaken /\ Latest # 0 /\ commands[Latest].status = "failed" ->
             IF commands[Latest].why = "blocked" THEN "handed" ELSE "notRefunded"

Moved == IF overtaken THEN 0 ELSE Cardinality(CommandMade)

\* Nobody was told "not refunded" of command c or of one that came after it.
Open(c) == c \in Commands /\ \A d \in Commands : d >= c => commands[d].why \notin {"refused", "stripe"}

Reached == ~overtaken /\ \E i \in DOMAIN refunds : Arrived(i) /\ Open(refunds[i].command)

Promise == INSTANCE GuestRefund WITH refund <- Said, moved <- Moved, reached <- Reached

\* The commands, the executor and Stripe together keep the promise of
\* GuestRefund, after lost answers, crashes and retries.  A refund reported as
\* failed, which the hotel then pays some other way, does not stand and never
\* will; one reported as made had reached the guest; and one at most stands at
\* Stripe.  Only a retry that overtakes a create, once a person had taken over,
\* ends the promise (findOrCreateRefund, executePricingCardRefund).
RefundPromise == Promise!GRSpec
=============================================================================
