------------------------- MODULE CardPaymentProofs -------------------------
(***************************************************************************)
(* The safety invariants of CardPayment for every number of attempts,      *)
(* tries and faults.                                                       *)
(*                                                                         *)
(* None of them is inductive alone.  What a handler does is right because  *)
(* of what it read, so the inductive invariant says that every answer and  *)
(* event that can still be acted on is still true at Stripe (StripeSaid),  *)
(* and which combinations of booking, payment, rooms, books and job the    *)
(* handlers leave behind (StayShape).                                      *)
(***************************************************************************)
EXTENDS CardPayment, TLAPS

Held == rooms.receipt = "reserved" /\ rooms.assigned = "none"
Adopted == rooms.receipt = "handed_off" /\ rooms.assigned = "live"
Freed == rooms.receipt \in {"released", "handed_off"} /\ rooms.assigned # "live"
NothingBooked == books.charges = 0 /\ books.evidence = "none" /\ job.status = "none"

StayShape ==
    /\ booking.lifecycle = "none" =>
           /\ booking.payment = "unpaid" /\ payment = "none"
           /\ rooms.receipt = "none" /\ rooms.assigned = "none"
           /\ NothingBooked
           /\ intent \in {"none", "open"}
    /\ booking.lifecycle = "pending_payment" =>
           /\ \/ booking.payment = "unpaid" /\ payment = "requires_action"
              \/ booking.payment = "authorized" /\ payment = "authorized"
           /\ Held /\ NothingBooked
    /\ booking.lifecycle = "confirmed" =>
           /\ booking.payment = "paid" /\ payment = "paid" /\ intent = "succeeded"
           /\ Held \/ Adopted
           /\ books.charges = LedgerCharge /\ books.evidence = "recorded" /\ job.status # "none"
    /\ booking.lifecycle \in {"expired", "declined", "canceled"} =>
           /\ Freed
           /\ \/ /\ booking.lifecycle = "canceled"
                 /\ booking.payment = "paid" /\ payment = "paid" /\ intent = "succeeded"
                 /\ books.charges = LedgerCharge /\ books.evidence \in {"cleared", "retained"}
                 /\ job.status # "none"
              \/ /\ booking.payment \in {"unpaid", "failed"} /\ payment = "canceled"
                 /\ intent = "canceled" /\ NothingBooked

StripeSaid ==
    /\ "succeeded" \in events => intent = "succeeded"
    /\ txn.seen = "succeeded" => intent = "succeeded"
    /\ txn.seen = "canceled" => intent = "canceled"
    /\ txn.kind = "start" => booking.lifecycle = "none" /\ txn.pc = "answered"
    /\ txn.kind \notin {"none", "start"} => booking.lifecycle # "none"

IInv == TypeOK /\ StayShape /\ StripeSaid

LEMMA InitIInv == Init => IInv
  BY PaymentAssumption
     DEF Init, IInv, TypeOK, StayShape, StripeSaid, NothingBooked, NoTxn

LEMMA StutterIInv == IInv /\ UNCHANGED vars => IInv'
  BY DEF IInv, TypeOK, StayShape, StripeSaid, Held, Adopted, Freed, NothingBooked,
         LedgerCharge, vars, quote, stay, stripe

LEMMA TypeStep == IInv /\ Next => TypeOK'
<1> USE PaymentAssumption DEF quote, stay, stripe, EndUnchanged, Fault, NoTxn
<1> SUFFICES ASSUME IInv, Next PROVE TypeOK'
  OBVIOUS
<1> USE DEF IInv, TypeOK, StayShape, NothingBooked, LedgerCharge
<1>1. CASE StartPayment BY <1>1 DEF StartPayment
<1>2. CASE RetrievePaymentIntent BY <1>2 DEF RetrievePaymentIntent
<1>3. CASE CancelPaymentIntent BY <1>3 DEF CancelPaymentIntent
<1>4. CASE CapturePaymentIntent
  <2>1. events' \subseteq {"capturable", "succeeded"} BY <1>4 DEF CapturePaymentIntent
  <2> QED BY <1>4, <2>1 DEF CapturePaymentIntent
<1>5. CASE CommitAcceptance BY <1>5 DEF CommitAcceptance
<1>6. CASE CompleteFinish
  BY <1>6 DEF CompleteFinish, authorizeCardRequest, applyCardPayment, Pending
<1>7. CASE AcceptFinish BY <1>7 DEF AcceptFinish, applyCardPayment, Pending
<1>8. CASE RejectFinish BY <1>8 DEF RejectFinish, CloseUnpaid, Released
<1>9. CASE WithdrawFinish BY <1>9 DEF WithdrawFinish, CloseUnpaid, Released
<1>10. CASE ExpireFinish
  BY <1>10 DEF ExpireFinish, applyCardPayment, authorizeCardRequest, CloseUnpaid, Released, Pending
<1>11. CASE LapseFinish
  BY <1>11 DEF LapseFinish, applyCardPayment, CloseUnpaid, Released, Pending
<1>12. CASE Crash BY <1>12 DEF Crash
<1>13. CASE CompleteBegin BY <1>13 DEF CompleteBegin, Begin
<1>14. CASE ReplayReads BY <1>14 DEF ReplayReads
<1>15. CASE ReplayAuthorizes BY <1>15 DEF ReplayAuthorizes, authorizeCardRequest
<1>16. CASE settlePricingCardPayment
  BY <1>16 DEF settlePricingCardPayment, applyCardPayment, Pending
<1>17. CASE authorizePricingCardRequest
  BY <1>17 DEF authorizePricingCardRequest, authorizeCardRequest
<1>18. CASE AcceptBegin BY <1>18 DEF AcceptBegin, Begin
<1>19. CASE RejectBegin BY <1>19 DEF RejectBegin, Begin
<1>20. CASE WithdrawLoad BY <1>20 DEF WithdrawLoad
<1>21. CASE WithdrawBegin BY <1>21 DEF WithdrawBegin, Begin
<1>22. CASE CancelPaidStay
  <2>1. PICK kept \in BOOLEAN : books' = [books EXCEPT !.evidence = RetainedRevenue("cleared", kept)]
    BY <1>22 DEF CancelPaidStay
  <2>2. RetainedRevenue("cleared", kept) \in {"cleared", "retained"} BY DEF RetainedRevenue
  <2>3. rooms' \in [receipt : {"none", "reserved", "released", "handed_off"},
                    assigned : {"none", "live", "canceled"}]
    BY <1>22 DEF CancelPaidStay, GivenBack, Released
  <2> QED BY <1>22, <2>1, <2>2, <2>3 DEF CancelPaidStay
<1>23. CASE SweepSelect
  <2>1. booking.payment \in {"unpaid", "authorized"} BY <1>23 DEF SweepSelect, Pending
  <2>2. reads' \subseteq {"withdraw", "replay", "unpaid", "authorized"}
    BY <1>23, <2>1 DEF SweepSelect
  <2> QED BY <1>23, <2>2 DEF SweepSelect
<1>24. CASE SweepBegin BY <1>24 DEF SweepBegin, Begin
<1>25. CASE DeadlinePasses BY <1>25 DEF DeadlinePasses
<1>26. CASE AdoptReservation BY <1>26 DEF AdoptReservation, Claim
<1>27. CASE AdoptFails BY <1>27 DEF AdoptFails, Claim
<1>28. CASE GuestPays BY <1>28 DEF GuestPays
<1>29. CASE BankAnswers
  <2>1. Event \in {"capturable", "succeeded"} BY DEF Event
  <2>2. events' \subseteq {"capturable", "succeeded"} BY <1>29, <2>1 DEF BankAnswers
  <2> QED BY <1>29, <2>2 DEF BankAnswers, Charged
<1>30. CASE HoldLapses BY <1>30 DEF HoldLapses
<1> QED
  BY <1>1, <1>2, <1>3, <1>4, <1>5, <1>6, <1>7, <1>8, <1>9, <1>10, <1>11, <1>12, <1>13,
     <1>14, <1>15, <1>16, <1>17, <1>18, <1>19, <1>20, <1>21, <1>22, <1>23, <1>24, <1>25,
     <1>26, <1>27, <1>28, <1>29, <1>30
     DEF Next, TxnStep, Worker

LEMMA SaidStep == IInv /\ Next => StripeSaid'
<1> USE DEF quote, stay, stripe, EndUnchanged, NoTxn, Pending
<1> SUFFICES ASSUME IInv, Next PROVE StripeSaid'
  OBVIOUS
<1> USE DEF IInv, TypeOK, StayShape, StripeSaid
<1>1. CASE StartPayment BY <1>1 DEF StartPayment
<1>2. CASE RetrievePaymentIntent BY <1>2 DEF RetrievePaymentIntent
<1>3. CASE CancelPaymentIntent BY <1>3 DEF CancelPaymentIntent, StripeCancels, Cancels
<1>4. CASE CapturePaymentIntent BY <1>4 DEF CapturePaymentIntent
<1>5. CASE CommitAcceptance BY <1>5 DEF CommitAcceptance
<1>6. CASE CompleteFinish
  BY <1>6 DEF CompleteFinish, authorizeCardRequest, applyCardPayment, AwaitingPayment
<1>7. CASE AcceptFinish BY <1>7 DEF AcceptFinish, applyCardPayment
<1>8. CASE RejectFinish BY <1>8 DEF RejectFinish, CloseUnpaid, Released
<1>9. CASE WithdrawFinish BY <1>9 DEF WithdrawFinish, CloseUnpaid, Released
<1>10. CASE ExpireFinish
  BY <1>10 DEF ExpireFinish, applyCardPayment, authorizeCardRequest, CloseUnpaid, Released, AwaitingPayment
<1>11. CASE LapseFinish BY <1>11 DEF LapseFinish, applyCardPayment, CloseUnpaid, Released
<1>12. CASE Crash BY <1>12 DEF Crash
<1>13. CASE CompleteBegin BY <1>13 DEF CompleteBegin, Begin, AwaitingPayment
<1>14. CASE ReplayReads BY <1>14 DEF ReplayReads
<1>15. CASE ReplayAuthorizes
  BY <1>15 DEF ReplayAuthorizes, authorizeCardRequest, AwaitingPayment
<1>16. CASE settlePricingCardPayment
  BY <1>16 DEF settlePricingCardPayment, applyCardPayment
<1>17. CASE authorizePricingCardRequest
  BY <1>17 DEF authorizePricingCardRequest, authorizeCardRequest, AwaitingPayment
<1>18. CASE AcceptBegin BY <1>18 DEF AcceptBegin, Begin, Authorized
<1>19. CASE RejectBegin BY <1>19 DEF RejectBegin, Begin, Authorized
<1>20. CASE WithdrawLoad BY <1>20 DEF WithdrawLoad
<1>21. CASE WithdrawBegin BY <1>21 DEF WithdrawBegin, Begin
<1>22. CASE CancelPaidStay BY <1>22 DEF CancelPaidStay, Paid, GivenBack, RetainedRevenue, Released
<1>23. CASE SweepSelect BY <1>23 DEF SweepSelect
<1>24. CASE SweepBegin BY <1>24 DEF SweepBegin, Begin, Authorized
<1>25. CASE DeadlinePasses BY <1>25 DEF DeadlinePasses
<1>26. CASE AdoptReservation BY <1>26 DEF AdoptReservation, Claim
<1>27. CASE AdoptFails BY <1>27 DEF AdoptFails, Claim
<1>28. CASE GuestPays BY <1>28 DEF GuestPays
<1>29. CASE BankAnswers BY <1>29 DEF BankAnswers, Charged, Event
<1>30. CASE HoldLapses BY <1>30 DEF HoldLapses
<1> QED
  BY <1>1, <1>2, <1>3, <1>4, <1>5, <1>6, <1>7, <1>8, <1>9, <1>10, <1>11, <1>12, <1>13,
     <1>14, <1>15, <1>16, <1>17, <1>18, <1>19, <1>20, <1>21, <1>22, <1>23, <1>24, <1>25,
     <1>26, <1>27, <1>28, <1>29, <1>30
     DEF Next, TxnStep, Worker

LEMMA StayStep == IInv /\ Next => StayShape'
<1> USE DEF quote, stay, stripe, EndUnchanged, NoTxn, Pending, LedgerCharge, Held, Adopted, Freed, NothingBooked
<1> SUFFICES ASSUME IInv, Next PROVE StayShape'
  OBVIOUS
<1> USE DEF IInv, TypeOK, StayShape, StripeSaid
<1>1. CASE StartPayment BY <1>1 DEF StartPayment
<1>2. CASE RetrievePaymentIntent BY <1>2 DEF RetrievePaymentIntent
<1>3. CASE CancelPaymentIntent BY <1>3 DEF CancelPaymentIntent, StripeCancels, Cancels
<1>4. CASE CapturePaymentIntent BY <1>4 DEF CapturePaymentIntent
<1>5. CASE CommitAcceptance BY <1>5 DEF CommitAcceptance
<1>6. CASE CompleteFinish
  BY <1>6 DEF CompleteFinish, authorizeCardRequest, applyCardPayment, AwaitingPayment
<1>7. CASE AcceptFinish BY <1>7 DEF AcceptFinish, applyCardPayment
<1>8. CASE RejectFinish BY <1>8 DEF RejectFinish, CloseUnpaid, Released
<1>9. CASE WithdrawFinish BY <1>9 DEF WithdrawFinish, CloseUnpaid, Released
<1>10. CASE ExpireFinish
  BY <1>10 DEF ExpireFinish, applyCardPayment, authorizeCardRequest, CloseUnpaid, Released, AwaitingPayment
<1>11. CASE LapseFinish BY <1>11 DEF LapseFinish, applyCardPayment, CloseUnpaid, Released
<1>12. CASE Crash BY <1>12 DEF Crash
<1>13. CASE CompleteBegin BY <1>13 DEF CompleteBegin, Begin, AwaitingPayment
<1>14. CASE ReplayReads BY <1>14 DEF ReplayReads
<1>15. CASE ReplayAuthorizes
  BY <1>15 DEF ReplayAuthorizes, authorizeCardRequest, AwaitingPayment
<1>16. CASE settlePricingCardPayment
  BY <1>16 DEF settlePricingCardPayment, applyCardPayment
<1>17. CASE authorizePricingCardRequest
  BY <1>17 DEF authorizePricingCardRequest, authorizeCardRequest, AwaitingPayment
<1>18. CASE AcceptBegin BY <1>18 DEF AcceptBegin, Begin, Authorized
<1>19. CASE RejectBegin BY <1>19 DEF RejectBegin, Begin, Authorized
<1>20. CASE WithdrawLoad BY <1>20 DEF WithdrawLoad
<1>21. CASE WithdrawBegin BY <1>21 DEF WithdrawBegin, Begin
<1>22. CASE CancelPaidStay BY <1>22 DEF CancelPaidStay, Paid, GivenBack, RetainedRevenue, Released
<1>23. CASE SweepSelect BY <1>23 DEF SweepSelect
<1>24. CASE SweepBegin BY <1>24 DEF SweepBegin, Begin, Authorized
<1>25. CASE DeadlinePasses BY <1>25 DEF DeadlinePasses
<1>26. CASE AdoptReservation BY <1>26 DEF AdoptReservation, Claim
<1>27. CASE AdoptFails BY <1>27 DEF AdoptFails, Claim
<1>28. CASE GuestPays BY <1>28 DEF GuestPays
<1>29. CASE BankAnswers BY <1>29 DEF BankAnswers, Charged, Event
<1>30. CASE HoldLapses BY <1>30 DEF HoldLapses
<1> QED
  BY <1>1, <1>2, <1>3, <1>4, <1>5, <1>6, <1>7, <1>8, <1>9, <1>10, <1>11, <1>12, <1>13,
     <1>14, <1>15, <1>16, <1>17, <1>18, <1>19, <1>20, <1>21, <1>22, <1>23, <1>24, <1>25,
     <1>26, <1>27, <1>28, <1>29, <1>30
     DEF Next, TxnStep, Worker

LEMMA SpecIInv == Spec => []IInv
<1>1. IInv /\ [Next]_vars => IInv'
  BY TypeStep, StayStep, SaidStep, StutterIInv DEF IInv
<1> QED BY InitIInv, <1>1, PTL DEF Spec

\* The shapes of booking, payment, rooms, books, job and transaction, and that
\* a payment's charge is never written to the ledger twice.
THEOREM TypeCorrect == Spec => []TypeOK
  BY SpecIInv, PTL DEF IInv

\* No handler confirms a booking whose charge Stripe did not take.
THEOREM ConfirmedIsChargedAlways == Spec => []ConfirmedIsCharged
<1>1. IInv => ConfirmedIsCharged
  BY DEF IInv, TypeOK, StayShape, ConfirmedIsCharged, Settled
<1> QED BY SpecIInv, <1>1, PTL

\* A booking ended by expiry, decline or withdrawal leaves no hold, no charge
\* and no way to pay at Stripe.
THEOREM EndedIsVoidAlways == Spec => []EndedIsVoid
<1>1. IInv => EndedIsVoid
  BY DEF IInv, StayShape, EndedIsVoid, Over, Settled
<1> QED BY SpecIInv, <1>1, PTL

\* The rooms are held while the stay stands and free once it is over, wherever
\* the hand-off job runs.
THEOREM RoomsFollowStayAlways == Spec => []RoomsFollowStay
<1>1. IInv => RoomsFollowStay
  BY DEF IInv, TypeOK, StayShape, RoomsFollowStay, Pending, Held, Adopted, Freed
<1> QED BY SpecIInv, <1>1, PTL

\* Payment, ledger charge, hand-off job and the nights' revenue go together, for
\* either charge type and whatever is kept of a cancelled stay.
THEOREM BooksFollowStayAlways == Spec => []BooksFollowStay
<1>1. ASSUME IInv PROVE BooksFollowStay
  <2> USE <1>1 DEF IInv, TypeOK, StayShape, NothingBooked
  <2>1. Settled <=> payment = "paid" BY DEF Settled
  <2>2. books.charges = 1 <=> Settled /\ chargeType = "vayada_payment"
    BY DEF Settled, LedgerCharge
  <2>3. Settled <=> job.status # "none" BY DEF Settled
  <2>4. booking.lifecycle = "confirmed" <=> books.evidence = "recorded" BY DEF Settled
  <2>5. Settled /\ booking.lifecycle = "canceled" <=> books.evidence \in {"cleared", "retained"}
    BY DEF Settled
  <2> QED BY <2>1, <2>2, <2>3, <2>4, <2>5 DEF BooksFollowStay
<1> QED BY SpecIInv, <1>1, PTL

-----------------------------------------------------------------------------
(* CardPayment implements PaidStay.  Every step leaves either the booking or  *)
(* the intent alone as PaidStay sees them, and IInv says which of the two     *)
(* may move.                                                                  *)

LEMMA InitPromise == Init => Promise!PSInit
  BY DEF Init, Promise!PSInit, StateOfStay, MoneyAtStripe

\* One step of any handler, of the guest or of the bank is a step of PaidStay,
\* or none at all.
LEMMA PromiseStep == IInv /\ Next => Promise!PSNext \/ UNCHANGED <<StateOfStay, MoneyAtStripe>>
<1> USE DEF quote, stay, stripe, EndUnchanged, NoTxn, Pending, Settled
<1> SUFFICES ASSUME IInv, Next
             PROVE  Promise!PSNext \/ UNCHANGED <<StateOfStay, MoneyAtStripe>>
  OBVIOUS
<1> USE DEF IInv, TypeOK, StayShape, StripeSaid, StateOfStay, MoneyAtStripe,
            Promise!PSNext, Promise!Ask, Promise!Hold, Promise!Take, Promise!Void,
            Promise!Confirm, Promise!End, Promise!Cancel
<1>1. CASE StartPayment BY <1>1 DEF StartPayment
<1>2. CASE RetrievePaymentIntent BY <1>2 DEF RetrievePaymentIntent
<1>3. CASE CancelPaymentIntent BY <1>3 DEF CancelPaymentIntent, StripeCancels, Cancels
<1>4. CASE CapturePaymentIntent BY <1>4 DEF CapturePaymentIntent
<1>5. CASE CommitAcceptance BY <1>5 DEF CommitAcceptance
<1>6. CASE CompleteFinish
  BY <1>6 DEF CompleteFinish, authorizeCardRequest, applyCardPayment, AwaitingPayment
<1>7. CASE AcceptFinish BY <1>7 DEF AcceptFinish, applyCardPayment
<1>8. CASE RejectFinish BY <1>8 DEF RejectFinish, CloseUnpaid, Released
<1>9. CASE WithdrawFinish BY <1>9 DEF WithdrawFinish, CloseUnpaid, Released
<1>10. CASE ExpireFinish
  BY <1>10 DEF ExpireFinish, applyCardPayment, authorizeCardRequest, CloseUnpaid, Released, AwaitingPayment
<1>11. CASE LapseFinish BY <1>11 DEF LapseFinish, applyCardPayment, CloseUnpaid, Released
<1>12. CASE Crash BY <1>12 DEF Crash
<1>13. CASE CompleteBegin BY <1>13 DEF CompleteBegin, Begin, AwaitingPayment
<1>14. CASE ReplayReads BY <1>14 DEF ReplayReads
<1>15. CASE ReplayAuthorizes
  BY <1>15 DEF ReplayAuthorizes, authorizeCardRequest, AwaitingPayment
<1>16. CASE settlePricingCardPayment
  BY <1>16 DEF settlePricingCardPayment, applyCardPayment
<1>17. CASE authorizePricingCardRequest
  BY <1>17 DEF authorizePricingCardRequest, authorizeCardRequest, AwaitingPayment
<1>18. CASE AcceptBegin BY <1>18 DEF AcceptBegin, Begin, Authorized
<1>19. CASE RejectBegin BY <1>19 DEF RejectBegin, Begin, Authorized
<1>20. CASE WithdrawLoad BY <1>20 DEF WithdrawLoad
<1>21. CASE WithdrawBegin BY <1>21 DEF WithdrawBegin, Begin
<1>22. CASE CancelPaidStay BY <1>22 DEF CancelPaidStay, Paid, GivenBack, RetainedRevenue, Released
<1>23. CASE SweepSelect BY <1>23 DEF SweepSelect
<1>24. CASE SweepBegin BY <1>24 DEF SweepBegin, Begin, Authorized
<1>25. CASE DeadlinePasses BY <1>25 DEF DeadlinePasses
<1>26. CASE AdoptReservation BY <1>26 DEF AdoptReservation, Claim
<1>27. CASE AdoptFails BY <1>27 DEF AdoptFails, Claim
<1>28. CASE GuestPays BY <1>28 DEF GuestPays
<1>29. CASE BankAnswers BY <1>29 DEF BankAnswers, Charged, Event
<1>30. CASE HoldLapses BY <1>30 DEF HoldLapses
<1> QED
  BY <1>1, <1>2, <1>3, <1>4, <1>5, <1>6, <1>7, <1>8, <1>9, <1>10, <1>11, <1>12, <1>13,
     <1>14, <1>15, <1>16, <1>17, <1>18, <1>19, <1>20, <1>21, <1>22, <1>23, <1>24, <1>25,
     <1>26, <1>27, <1>28, <1>29, <1>30
     DEF Next, TxnStep, Worker

\* The handlers, the guest and Stripe together implement PaidStay.
THEOREM KeepsPromise == Spec => StayPromise
<1>1. UNCHANGED vars => UNCHANGED <<StateOfStay, MoneyAtStripe>>
  BY DEF vars, quote, stay, stripe, StateOfStay, MoneyAtStripe, Settled
<1>2. IInv /\ [Next]_vars => [Promise!PSNext]_<<StateOfStay, MoneyAtStripe>>
  BY PromiseStep, <1>1
<1> QED BY SpecIInv, InitPromise, <1>2, PTL DEF Spec, StayPromise, Promise!PSSpec
=============================================================================
