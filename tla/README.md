# Verification of the vayada target API: room inventory, card money and guest messages

This directory models three parts of the vayada monorepo in TLA+: the canonical
room inventory of a property (what may be sold on which night), the money of a
card booking (payment, refund, what the hotel is owed and paid), and the delivery
of replies from the PMS Inbox to guests. TLC checks small instances, TLAPS
proves every safety property and every refinement that a passing run checks for
all instances, and `PROJECT.json` lists the runs, the mutants, the map from definitions to source lines, the
hazards and the theorems. Paths below are relative to the repository; `domains/`,
`jobs/`, `integrations/` and `platform/` are under `apps/api/src/`.

## 1. Inventory of the system

vayada has two products on one platform: a booking engine for direct guest
bookings and a property management system (PMS). `apps/api` (TypeScript,
Fastify, PostgreSQL) is the target backend; `apps/booking-api` and
`apps/pms-api` (FastAPI) are legacy and being retired; the web applications are
user interfaces. The logic lives in the domains and jobs of `apps/api`, which
work almost only through database transactions, advisory locks, an outbox and a
job table (`platform.outbox_events`, `platform.jobs`, `platform.job_attempts`),
so that the hard behaviour is: which whole transactions may follow one another,
and what happens between a transaction and a provider call.

| Component | State it keeps | Operations | Hard behaviour | What makes it correct |
| --- | --- | --- | --- | --- |
| Reservation lifecycle (`domains/pmsInventoryReservationLifecycleRepository.ts`) | receipts and their lifecycle, `pms.inventory_days`, idempotency rows | reserve, reserve a quote bundle, release | retries, shared keys, stale watermarks, multi-line bundles | counts equal live demand, no oversale, a key reserves once |
| Accepted-pricing hand-off (`domains/pmsAcceptedPricingReservationRepository.ts`) | receipts, operational assignments | adopt the receipts of a quote | a room counted twice or not at all in the hand-off | no gap, no double count |
| Occupied-inventory reconcile (`domains/pmsOccupiedInventory.ts`) | `assigned_count` | recount | capacity check against mixed block counts | physical rooms suffice |
| Linked inventory (`domains/pmsLinkedInventoryReconciler.ts`, `pmsLinkedInventoryGroupMutations.ts`) | groups, derived block rows, `linked_stop_sell`, `blocked_count` | put and delete a group, reconcile | incremental rewriting of dirty days, saturation | derived rows and stop-sell exact, no double sale |
| Room blocks (`domains/pmsOperationsCommandRepository.ts`, `pmsRoomBlockInventory.ts`) | manual block rows | create, update, release | recount mixed with saturated counts | releasable, never displaces a stay |
| Cancellation and OTA revisions (`domains/pmsHostBookingCancellation.ts`, `channexBookingAssignments.ts`) | assignments | cancel, save, alter | late and reordered revisions | counts follow, cancelled stays cancelled |
| Inbox reply (`domains/pmsInboxReplyCommand.ts`) | thread version, message, outbox row, idempotency row | reply | duplicated and concurrent requests | one key, one message |
| Delivery (`jobs/pmsInboxDeliveryOutbox.ts`, `pmsInboxDeliveryPg.ts`, `pmsInboxDeliveryWorker.ts`, `domains/pmsInboxDelivery.ts`) | jobs, leases, attempts, delivery state | relay, claim, prepare, send, complete | crash, takeover, late answer, lost answer | the guest gets it at most once, the shown state is true, everything settles |
| Providers (`integrations/channexMessageDelivery.ts`, `resendPmsInboxDelivery.ts`) | none | post a message | ambiguous answers, partial posts | answers are classified safely |
| Message ingestion (`jobs/channexMessages.ts`) | messages, threads | ingest | the echo of a message races its own delivery record | an echo is never a second message |
| Card payment (`domains/pricingCardPayment.ts`, `pricingCardPaymentCompletion.ts`, `pricingRequestAcceptance.ts`, `financeHostBookingPayments.ts`) | booking and payment status, receipt, revenue evidence, ledger charge | start, complete, replay, webhook, hotel accepts or rejects, withdraw | handlers race around Stripe calls; a rollback does not undo Stripe | confirmed means charged, ended means nothing left at Stripe, rooms and books follow |
| Booking expiry (`jobs/bookingLifecycle.ts`) | deadlines, candidates | sweep of unpaid and authorised bookings | candidates stale when locked, guest pays meanwhile | every pending booking ends |
| Accepted-pricing worker (`domains/pmsAcceptedPricingReservationWorker.ts`) | hand-off job, attempts | claim, adopt, fail | runs after the stay was cancelled, or at its last attempt | rooms of a cancelled stay stay free, every job ends |
| Card refund (`domains/pricingCardRefund.ts`) | refund commands, attempts | stage, retry, execute, sweep | lost answers, expired idempotency keys, refunds by hand, refunds that fail after they succeeded | one refund stands at most, and what is said of it is true |
| Payout ledger (`domains/vayadaPaymentLedger.ts`, `vayadaPaymentWebhookEvents.ts`) | ledger rows per payment | charge, refund, dispute withdrawn and reinstated | events in any order, together more than was paid | the hotel bears each loss once |
| Payouts (`domains/vayadaPaymentPayouts.ts`, `financePayoutDestinationRepository.ts`) | payouts, payout account | start, sent, returned, approve, replace and remove the account | the account or the balance changes under a start | never more than earned, only to the approved account |
| Channex availability, follow-up release, sessions, materialization | jobs of their own | | claims, provider calls, retries | planned, section 6 |
| Pricing and publication, media, HTTP routes, shared packages, web and legacy applications, deployment | | | pure computation, I/O or user interface | not modelled |

Interactions. Every inventory command takes the property's advisory lock
(`lockPmsInventoryMutationScope`), changes its own rows, brings
`assigned_count` or `blocked_count` up to date (a delta for reserve and
release, a recount for the others) and ends in `reconcilePmsLinkedInventory`.
Availability that changes is queued for the channels. A reply commits message
and outbox row together; the relay turns the row into a job; a worker claims it,
calls the provider outside any transaction and records the answer; Channex then
reports the sent message back through a webhook, which ingestion must recognize.
A card acceptance holds the rooms and makes a PaymentIntent in one transaction;
whichever handler first sees Stripe's answer confirms the booking, records its
nights as revenue, writes the charge to the payout ledger (for vayada Payment) and
stages the hand-off job, which turns the receipt into assignments (the step
`AdoptAcceptedPricingReservation` of the inventory). A cancellation of a paid stay
frees the rooms, clears the nights' revenue, records what is kept of it as retained
and stages a refund command in the same transaction; the refund, refunds by hand and disputes are written to the
ledger that payouts are started from.

## 2. Modules

* **PropertyInventory** is one property. One action is one command, as the lock
  serializes them: `ReadWatermarks`, `Reserve`, `ReserveQuoteBundle`, `Release`,
  `AdoptAcceptedPricingReservation`, `CancelHostBookingAssignments`,
  `PersistChannexAssignment`, `CancelChannexAssignment`,
  `RoomBlockCreate/Update/Release`, `PutLinkedInventoryGroup`,
  `DeleteLinkedInventoryGroup`. Each includes its reconcile: `day'` and
  `derived'` are computed by `ReconcileLinkedInventory` from the rows the command
  leaves behind, exactly on the days in `Dirty`. A command that rolls back is no
  step; one that stores a failure under its key (`Reserve`, `Release`) is.
* **RoomLedger** is what the inventory promises without its machinery: a booking
  is booked once, may move while held, is dropped once, and no night is oversold.
  `ImplementsLedger` states that PropertyInventory refines it.
* **InboxDelivery** has one action per database transaction and one for the
  provider call. A worker is `idle`, `claimed`, `sending` or `answered`; between
  any two steps it may crash, or lose its lease and go on later.
* **GuestDelivery** is what the Inbox promises of a message: at most once,
  final outcomes, `sent` means received. `ImplementsGuestDelivery` is the
  refinement.
* **CardPayment** is one card booking, instant or on request, from acceptance to
  its end. A handler that talks to Stripe is a transaction `txn` of several steps
  (lock, each Stripe call, commit), because guest, bank and faults act in between;
  it holds the booking row, so only one runs at a time. The three readers that
  look before they lock (a withdrawal, an acceptance that is replayed, the sweep's
  candidate list) are steps of their own, remembered in `reads`. The hand-off job
  and its worker are part of it.
* **PaidStay** is what such a booking promises: it stands only once the money was
  taken, ends unpaid only once it can never be taken, and the card is touched only
  while it waits. `StayPromise` is the refinement.
* **HotelLedger** is the payout ledger of one payment and the payouts started from
  it: charge, refund, disputes, payout start in two steps, account changes.
* **CardRefund** extends it with the refund commands, the executor step by step
  (row, list, create, answer, settle), Stripe's refunds, refunds by hand, and the
  refunds of either kind that fail after they succeeded.
* **GuestRefund** is what a cancelled stay promises its guest: one refund stands at
  most, "refunded" is said of money that reached the guest (and may come back), "not
  refunded" only when none stands or will. The promise ends when a retry, after the
  refund was handed to a person, overtakes an earlier create. `RefundPromise` is the
  refinement.
* **MCPropertyInventory**, **MCInboxDelivery**, **MCCardPayment**, **MCCardRefund**
  hold the instances for TLC.
* The theorems: **PropertyInventoryProofs** (types, revisions, keys),
  **LinkedInventoryProofs** (derived rows, stop-sell, double sale),
  **InventoryCountProofs** (the counts of a day) and **RoomLedgerProofs** (the
  refinement), each extending the one before; **InboxDeliveryProofs**;
  **CardPaymentProofs**; **CardRefundProofs** (types, what the hotel bears) and
  **GuestRefundProofs** (sums and the refinement), which extends it.

Abstractions of PropertyInventory, beyond data that no property needs:

* A watermark (revisions of each night) is the set of nights not revised since it
  was read, because the code only compares revisions for equality.
* Room units have no identity. The unit checks of room blocks and assignments
  (`roomBlockRoomsAreAvailable`, `expectedVersion`, `expectedRevision` of groups)
  only refuse more commands, so leaving them out only adds behaviours. A create
  for several rooms is several creates.
* Whether the operating calendar is current is a nondeterministic answer; total
  units, sell limits and open or closed nights are constant, since
  materialization is not modelled yet.
* An OTA booking has one room; which revision arrives when is arbitrary.
* Group ids are reused after deletion. Assignments whose stay does not match
  their receipt and legacy days without a calendar revision are left out.

Abstractions of InboxDelivery: backoff delays (a pending job may run at any
time), attention state, attachment rows and audits. Time is two events: the
first email attempt becomes older than 23 hours, after which the code refuses to
send again, and Resend forgets its idempotency key, which it keeps for 24
hours. The model assumes that a post that passed the check reaches Resend within
that hour. Channex has no such key. Rows of messages are removed only from
outside (`DeleteMessage`). A message has one echo. A worker id used again after
a crash is the same worker.

Abstractions of CardPayment:

* Amounts and currency of the evidence always match (`checkCardEvidence`); a
  deposit (`partially_paid`) and a full payment are one status, `paid`, which also
  stands for what refunds later make of it (CardRefund).
* Whose Stripe account is charged (`chargeType`) is fixed with the quote. Only a
  `vayada_payment` charge is written to the payout ledger; a direct charge on the
  hotel's own account is not, and the capturable event is handled for vayada Payment
  only.
* Revenue evidence is `recorded`, `cleared` by a cancellation, or `retained` when the
  hotel keeps something; whether it does is a free choice, how the kept part is split
  over the nights is left out. The guest's and the host's cancellation
  (`bookingHostActions.ts:547`) do the same here and are one action.
* A lock conflict or a deadlock that Postgres breaks is a `Crash`: the transaction
  rolls back and Stripe keeps what was done there. A failed or lost Stripe call is
  a fault that may or may not have had its effect.
* Stripe's replay of a key's first error leads to the same re-read as a fresh error
  and is not told apart from it. The bank may drop a hold at any time.
* The worker claims and works in one transaction, so its crash is a stutter.
* Webhooks may come late, repeatedly or never. Deadlines only pass.
* Requests paid at the property, by bank transfer or PayPal, date changes, drafts
  and the sweep of stale unpaid bookings are left out, as is the older settlement
  for bookings without a pricing quote.

Abstractions of HotelLedger and CardRefund:

* One payment of one hotel in one currency on Vayada's own Stripe account; a
  check-out that lies in the past. Ledger rows are the sums the code reads.
* A payment has at most one dispute. A withdrawal reported before the charge is
  ignored, a reinstatement before its withdrawal is retried, as in the code.
* Stripe refuses or makes each create it received; a refund may be pending, ends as
  succeeded or failed, and one that succeeded may fail late (`StripeFailsLate`;
  `pricingCardReconciliation.ts:137`). The model calls that `returned`; `StripeSays`
  is what the executor reads. Nothing here hears of it for a command's refund; for a
  recorded refund by hand a person is told (`FlagDashboardFailure`). Webhook events
  may be out of date: the success of a refund by hand can be recorded after it failed,
  and a failure that is reported before its success is never flagged.
* One assumption about time, stated in the code's comments: Stripe has finished a
  create when the five minutes after a lost answer are over (`WaitOver`). A crash and
  a retry of the host have no such wait, in the code and in the model. `overtaken`
  remembers that a retry came while a create of an earlier command was still under
  way; then two refunds are possible (section 5, `refunded_twice`).
* A refund by hand that is made between the executor's list and its create stands
  beside the command's refund; GuestRefund promises only that the commands never
  make two.
* A settlement that fails (for instance in a deadlock with a cancellation) keeps
  the refund's id and is tried again: `FollowLater`. One that would exceed the payment
  (`Exceeds`), because a refund recorded before it came back and made room at Stripe,
  fails each time. Only a person ends that, so `RefundResolves` excepts it.

## 3. Runs

Deadlock is not checked: in every instance the commands can all be used up, and
a settled conversation, booking or refund has nothing left to do.

| Run | Instance | Shows |
| --- | --- | --- |
| `inventory_direct` | three types of 2, 1 and 1 rooms that a group may join in any combination, 2 nights, two commands under one key, a quote of two rooms and one room in two lines | assigned counts equal demand through retries, failures, hand-off and release; one receipt per key; no double sale of linked types; derived rows and stop-sell stay exact while the group is formed, replaced and deleted around live stays; a change always invalidates watermarks; refinement of RoomLedger |
| `inventory_channel` | types of 3 and 1 rooms, 2 nights, an OTA booking that may move between them, a manual block, a two-room quote | physical rooms suffice, saturated `blocked_count` exact, days coherent, a sale needs a free group, refinement |
| `inbox_ota` | two replies of one Channex thread, 2 workers, 2 attempts, 1 fault | GuestDelivery, echoes never doubled, a failed message was not delivered |
| `inbox_email` | one email reply submitted twice under one key, 2 workers, 2 attempts, 2 faults, fairness | one copy at the guest, message, job and outbox agree, no attempt outlives its job, everything settles |
| `card_payment` | both acceptance modes, both charge types, 2 payment tries of the guest, 3 faults, 3 job attempts, fairness | charge, rooms, books and hand-off agree in every interleaving; PaidStay; a pending booking and a staged hand-off end |
| `card_refund` | 5 units paid, 3 retained, rounding step 2, two commands, refused twice at most, one lost answer, one crash, one refund by hand of 4, late failures, fairness | GuestRefund; what is recorded had succeeded at Stripe; a refund is settled or reported as failed |
| `hotel_payouts` | a refund, a refund by hand of 1 and a dispute of 3 of 4 units paid, two payouts in units of 2, two accounts | records keep their shape and `refunded_amount` within what was paid; each loss borne once, payouts within what was earned, only to the approved account |
| `linked_block_conflict`, `linked_block_release`, `linked_ota_refused`, `inbox_email_exhausted`, `refunded_twice` | the smallest instances that show a disagreement | section 5 |

Why the bounds suffice to be interesting. Two types are the least that can be
linked, three the least at which replacing a group takes one type out and keeps
another linked. Two nights let stays overlap in part, so that dirty ranges
differ from the stay of the command; with capacities 1 to 3 a derived row both
saturates and does not. Two attempts make a first, a last, and a takeover of
either; two workers are needed for a takeover and suffice, as a job has one
owner and at most one other worker believes to be it. `MaxFaults` bounds crashes
and leases lost by live workers: two faults are a crash of the worker that took
over. Workers are symmetric where no liveness is checked.

In `card_payment` three faults suffice for a crash after the capture, a failed
cancel and a lost answer in one behaviour; two tries are a declined card and a
second payment, and the second may meet the sweep. Three job attempts stand for
the five of the code: a first, a middle and a last. In `card_refund` two commands
are the cancellation's and a retry and `MAX_ATTEMPTS` is 2 instead of 30; the
command's two units fit into the payment twice but not beside the four refunded
by hand, so that a second refund, a block, and a settlement that exceeds the payment
all happen. In `hotel_payouts` the rounding step makes the refund of 2 round up to 3
and that of 4 stop at what was paid. The passing runs have 15,000 to 1.7 million
distinct states and take up to two and a half minutes. In
`hotel_payouts` refund, refund by hand and dispute together exceed what was paid,
so that the order of the reports matters; a unit of 2 leaves a rest owed.

Fairness (`InboxDelivery!Fairness`). `startPmsInboxDeliveryWorker` runs relay and
worker on a two-second timer and a failed run does not stop the timer: weak
fairness of `Relay` and of each worker's steps. Provider calls have timeouts, so
`Send` ends. The lease of a worker that no longer works on a job runs out after
five minutes: weak fairness of `LeaseExpires` for such jobs, none for live
workers. Guests, hosts and the provider's memory have no fairness.

Fairness of CardPayment: a transaction that runs goes on (weak fairness of
`TxnStep`; Stripe calls have timeouts); deadlines pass and banks answer (weak);
`runBookingLifecycle` selects candidates every minute (weak) and gets a
candidate's row in its turn in Postgres's lock queue although other handlers take
it again and again (strong fairness of `SweepBegin`); likewise the hand-off worker,
which runs every two seconds (strong). Nothing is assumed of the guest, the
hotel, the page and the webhooks, so `PendingEnds` holds when all of them are
silent.

Fairness of CardRefund: `runPendingPricingCardRefunds` runs every minute
(`ExecutorStep`), Stripe answers creates and ends pending refunds, and the wait
after a lost answer passes; all weak. Hosts, staff, disputes and webhooks have
none.

Every property of a passing run has a mutant in `PROJECT.json`: a plausible
change of one mapped definition under which TLC finds that property violated.
The mutated forms stand before the definitions they replace and are marked
`Mutation`.

## 4. Proofs

The inventory proofs hold for arbitrary room types, nights, capacities, bookings, blocks and
groups, under the named assumptions of PropertyInventory: finite sets, sell
limits within capacities, each receipt a well-formed stay with at least one
room, receipts and OTA bookings disjoint, the lines of a quote on the same nights
and of different types.

1. `NextShape`: every step is *Quiet* (tables of stays, blocks, days and derived
   rows unchanged) or *Reconciles* (it ends in `ReconcileLinkedInventory` from an
   intermediate calendar `mid` that keeps every stop-sell flag and every
   unrevised day). Thirteen commands become two cases.
2. `TypeCorrect` (`[]TypeOK`) and `ChangesRevise` follow from it. The non-trivial
   part of typing is that a release never takes `assigned_count` below zero.
3. `KeysReserveOnce` uses `KeyInv`: a receipt exists only under a key that has a
   result.
4. `LinkedInv` is `TypeOK`, `GroupsNotSingle`, `DerivedExact`, `StopSellExact`,
   `AdoptedStay` and `SalesApart`, and is inductive. `StopSellExact` alone is not:
   a day outside `Dirty` keeps its flag, and that this flag is still right needs
   that every live cause in a group has exact derived rows (`DerivedExact`), and
   that a cause in a group has at least one sibling to derive a row for
   (`GroupsNotSingle`), so that a cause that appears, moves or ends changes some
   row and makes its days dirty (`CleanDay`). `NoDoubleSale` needs
   `StopSellExact`, for a reserve is refused only because the stop-sell it reads
   is exact, and `AdoptedStay`, for an adopted booking must still be where its
   receipt was. From it: `DerivedRowsExact`, `StopSellIsExact`, `NeverSoldTwice`,
   `SalesNeedFreeGroup`.
5. `CountInv` adds `KeyInv`, `ReceiptLife` and `CountsRight` (`AssignedIsDemand`,
   `RoomsSuffice`, `BlockedExact` and the sellable count of each day). A delta is
   right only if the rooms it adds were not counted before: a reserve must meet an
   unused receipt, which follows from its key (`KeyInv`) or from its quote having
   no bundle, and an assignment of a receipt must exist only after the hand-off
   (`ReceiptLife`), so that receipt and assignments never count at once. A recount
   is right by itself, but it is checked against a `blocked_count` in which manual
   and derived rows are mixed and cut; `RoomsSuffice` needs `BlockedExact`, by which
   a command that takes more rooms passes its check only where nothing was cut and
   the count holds every manual row. The room units of a day are
   counted as sets, so that a step's effect is a union or a difference of finite
   sets. From it: `AssignedCountIsDemand`, `RoomsAlwaysSuffice`,
   `BlockedCountExact`, `DaysAlwaysCoherent`.
6. `InventoryImplementsLedger`: every command is a step of RoomLedger or leaves it
   alone. That no night is oversold after the step is `RoomsSuffice` in the new
   state; that a booking is booked and dropped once is `ReceiptLife`.

**InboxDeliveryProofs**, for any messages, keys, channels, workers, number of
attempts and faults. `InboxInv` is `TypeOK`, `NoOrphanAttempt` and
`JobMatchesMessage` with nine parts that say why they last:

* `KeysTaken`, `OutboxRows`, `JobRows`: one message per key, the order of outbox
  row and job, and that a running job and its job attempt name one owner.
* `SenderRows` and `AnswerRows`: at most one worker sends a message. Its attempt is
  running, or a takeover has closed it as held, after which nobody sends again; an
  answer of a worker that still has the lease is about the running attempt.
  Without this a worker that lost its lease could deliver a second copy.
* `CopyRows`, `OtaCopies`, `EmailCopies`: what a copy at the guest leaves behind. A
  message that went out over Channex can only be closed as accepted or unknown,
  hence never as failed; over Resend the key is remembered for as long as anyone
  may send again.
* `EchoRows`: an imported echo belongs to a message that stays held.

From it: `InboxTypeOK`, `AttemptsNeverOrphaned`, `JobAlwaysMatches`,
`GuestReachedOnce`, `EchoNeverDoubled`, `FailedOtaNeverDelivered` and
`InboxImplementsGuestDelivery`: a reply is `Accept`, a post that arrives is
`Deliver`, a completion or takeover that ends the message is `Settle`, and every
other step is a stutter.

**CardPaymentProofs**, for every set of modes and every bound. The inductive
invariant is `TypeOK`, `StayShape` and `StripeSaid`. `StripeSaid` says what a
transaction may conclude from what it has seen: Stripe's `succeeded` and
`canceled` are final, so an answer of these stays true until the commit, while
`requires_capture` or `open` may be out of date. `StayShape` lists which
combinations of booking, payment, receipt, job and books exist, among them that the
ledger has a charge only for vayada Payment and that a cancelled stay's nights are
cleared or retained. Neither the
charge nor the void properties are inductive without `StripeSaid`, because the
commit acts on an answer given some steps before. From it: `TypeCorrect`,
`ConfirmedIsChargedAlways`, `EndedIsVoidAlways`, `RoomsFollowStayAlways`,
`BooksFollowStayAlways`, and `KeepsPromise`, the refinement of PaidStay, one step
of the detailed specification at a time.

**CardRefundProofs**, for every amount, fee, rounding step, unit and bound. The
inductive invariant is `MoneyInv`, `PayoutInv` and `RefundInv`. `MoneyInv` relates
what a dispute took from the hotel to the amount at Stripe and to the refunds
recorded meanwhile, which is what makes a reinstatement give back the right part:
`TakenExactAlways`. `PayoutInv` says that the account a running start has read is
still the one in use and approved: `PayoutApprovedAlways`. `RefundInv` is the
typing of commands, executor and Stripe's refunds, with the facts that an
executor's command is staged and has a positive amount and that every refund id
kept is one Stripe made. The non-trivial part of `TypeCorrect` is that amounts
stay within what was paid: `RefundMinorBound` (rounding in the guest's favour is
cut at the amount paid) and `PlanFeeBackBound` (the plan's fee given back never
passes the fee).

**GuestRefundProofs**, for every amount and any number of commands, attempts,
payouts, refunds by hand, lost answers, crashes and late failures. `GuestInv` adds
four parts to the invariant of CardRefundProofs. TLC checked it first on the instance
of `card_refund` and on one with three commands and no lost answers (890,029 states).

* `EarnedInv`: the ledger's paid-out sum is that of the payouts not returned, and a
  start that is under way still fits below what was earned.
* `BelongInv`: commands follow one another, only after failed ones and for the same
  amount (`QueueInv`); a refund that staff did not make is a command's (`OwnerInv`);
  the executor works for the pending command, and "succeeded" is only ever said of a
  refund that arrived (`WorkInv`).
* `RecordInv`: `refunded_amount` is the sum of the refunds recorded, each of which
  arrived, and a command's refund is recorded only by settling the command.
* `OneRefundInv`, only while no create is overtaken: at most one refund of the
  commands stands (`MadeInv`); a request on its way is the last command's only one,
  and then none stands (`RequestInv`); a refund id that is kept, and an answer the
  executor has, are still right (`FollowInv`, `RunInv`). That one refund stands at
  most is not inductive without `RequestInv`: between a lost answer and the next list
  the refund exists only as a request. The first three parts hold without that
  condition, so the books are right even when the guest is refunded twice.

What the proofs need of the library's fold (the sum of a set with an element added,
removed or changed) is derived first. The library's induction theorems take an
operator, so induction goes over sets: the least element outside a set of numbers
(`NumbersAll`), and from it the subsets of a finite set (`SubsetsAll`). From
`GuestInv`: `RefundedAlwaysStripes`, `PaidOutWithinEarned`, and
`RefundKeepsPromise`, the refinement of GuestRefund under `Said` (what the last
command says), `Moved` (refunds of the commands that stand) and `Reached` (one has
arrived since "not refunded" was last said): a cancellation and a retry are `Ask`,
Stripe making a refund is `Move`, bringing it to the guest `Arrive` and failing it,
early or late, `Bounce`; settling is `SayRefunded`, giving up is `SayNotRefunded`, a
list that finds a refund by hand is `HandOver`, and a retry with a create still under
way is `Overtake`, after which nothing is promised. `RequestInv` shows that this
happens only after a `HandOver`.

Only model-checked: `Settles`, `PendingEnds`, `HandOffEnds` and `RefundResolves`,
which rest on fairness, and the two properties with `ENABLED` among the five of
section 5, which are violated. These are out of the prover's reach.

## 5. Where code and documents disagree

Five runs are expected to end in a violation; each states what a document or a
comment says and shows that the code does otherwise.

* `linked_block_conflict`: a manual block on a type of several units commits a
  second cause in its group, because `roomBlockCapacityIsAvailable` does not
  read the stop-sell (`engineering/linked-inventory-contract.md:124`).
* `linked_block_release`: a block cannot be released while the uncapped recount of
  block rows exceeds the capacity, because `reconcileRoomBlockInventory` runs
  before the saturating reconciler (`linked-inventory-contract.md:73`).
* `linked_ota_refused`: an OTA booking on a stop-sell night of a one-unit type is
  refused although the room is free, because the derived row fills
  `blocked_count` (`domains/channexBookingAssignments.ts:171`).
* `inbox_email_exhausted`: an email whose answers were lost ends as `failed`
  although the guest has it (`engineering/native-guest-inbox-contract.md:650`).
* `refunded_twice`: the executor dies while its create is under way, a refund by hand
  blocks the next attempt, the host retries, and the refund by hand fails late. The
  retry's list shows nothing, so it creates a second refund under a key of its own
  while Stripe still makes the first; both stand if the payment holds them.
  `domains/pricingCardRefund.ts:494` says "the guest is never refunded twice". The
  window is as long as Stripe takes over the create; `retryPricingCardRefund` does not
  wait for it as the executor does after a lost answer.

Seen while modelling and not made into runs: the same contract (line 650) has
every 5xx retried while `channexMessageDelivery.ts:143` holds it as ambiguous;
`engineering/jobs-events-contract.md:134` has dead letters for non-retryable
failures while `pmsInboxDelivery.ts:167` writes none; and in
`channexMessages.ts:528` the disjunct on `acceptedProviderReferences` is guarded
by an accepted outcome, so the echoes of a message delivered in part are imported
as messages of their own.

## 6. Plan

Done: PropertyInventory with RoomLedger, InboxDelivery with GuestDelivery,
CardPayment with PaidStay, HotelLedger and CardRefund with GuestRefund, their runs,
and the proofs of section 4.

Every safety property and refinement of a passing run has a theorem; liveness stays
with TLC.

Models that would come next: Channex availability upload
(`domains/channexRoomAvailabilityCoordinator.ts`) fed by PropertyInventory, so that
the channel eventually shows the last availability; materialization, which makes
the constants `Capacity` and `SellLimit` state; follow-up release and provider
actions of the Inbox.

### Not modelled

* Finance payout dispatch (`jobs/financePayoutDispatcher.ts`): no entry of
  `server.ts` starts it and no payment provider implements
  `dispatchPropertyPayout`, so there is no behaviour to check.
* Session hand-offs (`platform/authSessionHandoffs.ts`): a redemption is one
  conditional UPDATE, which a model would only restate.
* The card reconciliation report changes nothing (the late failures it reports are
  steps of CardRefund); delivery receipts only move a
  timestamp forward.
* Booking emails: a delivery loop of the shape of the Inbox worker, without echoes.
* Manual bookings, stay corrections and date amendments: further producers of
  assignments that end in the reconcilers of PropertyInventory.
* Pricing and publication (pure computation over money and policy), media, HTTP
  routes, shared packages, user interfaces, legacy services, deployment: by far the
  most lines of the repository.
