-------------------------- MODULE RoomLedgerProofs --------------------------
(***************************************************************************)
(* The inventory of a property implements RoomLedger: every booking is     *)
(* booked once, held through its hand-off, dropped once, and no night is   *)
(* oversold.                                                               *)
(***************************************************************************)
EXTENDS InventoryCountProofs

(* Ledger!Moves, said of the entries themselves.                           *)
EntriesMove(H, from, to) ==
    \A h \in Holders :
        IF h \in H THEN LedgerEntry(h).state = from /\ LedgerEntry(h)'.state = to
                   ELSE LedgerEntry(h)' = LedgerEntry(h)

LedgerStep ==
    \E H \in SUBSET Holders : \/ EntriesMove(H, "unbooked", "held")
                              \/ EntriesMove(H, "held", "held")
                              \/ EntriesMove(H, "held", "gone")

(* The entry of a holder in each phase of its booking.                     *)
LEMMA EntryPhases ==
    ASSUME TypeOK, ReceiptLife, NEW h \in Holders
    PROVE  /\ h \in Receipts /\ receipt[h] = "none" => LedgerEntry(h).state = "unbooked"
           /\ h \in Receipts /\ receipt[h] = "reserved" => LedgerEntry(h) =
                 [state |-> "held", type |-> Stay[h].type, nights |-> Stay[h].nights]
           /\ assignment[h].status = "active" => LedgerEntry(h) =
                 [state |-> "held", type |-> assignment[h].stay.type,
                  nights |-> assignment[h].stay.nights]
           /\ h \in Otas /\ assignment[h].status = "none" => LedgerEntry(h).state = "unbooked"
           /\ assignment[h].status = "canceled" => LedgerEntry(h).state = "gone"
           /\ h \in Receipts /\ receipt[h] = "released" => LedgerEntry(h).state = "gone"
<1>1. \A r \in Receipts : r \notin Otas
  BY HolderAssumption
<1>2. h \in Receipts => (assignment[h].status # "none" => receipt[h] = "handed_off")
  BY DEF ReceiptLife
<1>3. assignment[h].status \in {"none", "active", "canceled"}
  BY DEF TypeOK, AssignmentRows
<1>4. CASE h \in Receipts
  BY <1>1, <1>2, <1>3, <1>4 DEF LedgerEntry
<1>5. CASE h \notin Receipts
  BY <1>3, <1>5 DEF LedgerEntry
<1> QED BY <1>4, <1>5

(* An entry depends on the receipt and the assignment of its holder only.  *)
LEMMA SameEntry ==
    ASSUME NEW h \in Holders, h \in Receipts => receipt'[h] = receipt[h],
           assignment'[h] = assignment[h]
    PROVE  LedgerEntry(h)' = LedgerEntry(h)
BY DEF LedgerEntry

(* After a step, a holder holds the days its entry says.                   *)
LEMMA EntryHoldsAfter ==
    ASSUME TypeOK', ReceiptLife', NEW h \in Holders, NEW t, NEW n
    PROVE  Holds(h, <<t, n>>)' <=> /\ LedgerEntry(h)'.state = "held"
                                   /\ LedgerEntry(h)'.type = t /\ n \in LedgerEntry(h)'.nights
<1>1. h \in Receipts => (assignment'[h].status # "none" => receipt'[h] = "handed_off")
  BY DEF ReceiptLife
<1>2. CASE h \in Receipts /\ receipt'[h] = "reserved"
  <2>1. LedgerEntry(h)' = [state |-> "held", type |-> Stay[h].type, nights |-> Stay[h].nights]
    BY <1>2 DEF LedgerEntry
  <2> QED BY <1>1, <1>2, <2>1 DEF Holds, Covers
<1>3. CASE ~(h \in Receipts /\ receipt'[h] = "reserved") /\ assignment'[h].status = "active"
  <2>1. LedgerEntry(h)' = [state |-> "held", type |-> assignment'[h].stay.type,
                           nights |-> assignment'[h].stay.nights]
    BY <1>3 DEF LedgerEntry
  <2> QED BY <1>3, <2>1 DEF Holds, Covers
<1>4. CASE ~(h \in Receipts /\ receipt'[h] = "reserved") /\ assignment'[h].status # "active"
  <2>1. LedgerEntry(h)'.state # "held"
    BY <1>4 DEF LedgerEntry
  <2> QED BY <1>4, <2>1 DEF Holds
<1> QED BY <1>2, <1>3, <1>4

(* Every command moves the entries as the ledger allows.                   *)
LEMMA EntriesStep ==
    ASSUME TypeOK, TypeOK', KeyInv, ReceiptLife, ReceiptLife', AdoptedStay, Next
    PROVE  LedgerStep
<1>0. /\ Receipts \subseteq Holders /\ Otas \subseteq Holders /\ {} \in SUBSET Holders
      /\ \A o \in Otas : o \notin Receipts
  BY HolderAssumption DEF Holders
<1>1. ASSUME NEW R \in SUBSET Receipts, FreshReserve(R) PROVE LedgerStep
  <2>1. /\ assignment' = assignment /\ \A r \in R : receipt[r] = "none"
        /\ receipt' = [r \in Receipts |-> IF r \in R THEN "reserved" ELSE receipt[r]]
    BY <1>1 DEF FreshReserve, RecordReserved, PersistReceipts
  <2>2. ASSUME NEW h \in Holders, h \in R
        PROVE  LedgerEntry(h).state = "unbooked" /\ LedgerEntry(h)'.state = "held"
    <3>1. LedgerEntry(h).state = "unbooked"
      BY <2>1, <2>2, EntryPhases
    <3>2. receipt'[h] = "reserved"
      BY <2>1, <2>2
    <3> QED BY <2>2, <3>1, <3>2 DEF LedgerEntry
  <2>3. ASSUME NEW h \in Holders, h \notin R PROVE LedgerEntry(h)' = LedgerEntry(h)
    BY <2>1, <2>3, SameEntry
  <2>4. EntriesMove(R, "unbooked", "held")
    BY <2>2, <2>3 DEF EntriesMove
  <2> QED BY <1>0, <2>4 DEF LedgerStep
<1>2. ASSUME NEW r \in Receipts, Release(r) PROVE LedgerStep
  <2>1. CASE receipt[r] = "reserved" /\ ReleaseDaysValid(r)
    <3>1. assignment' = assignment /\ receipt' = [receipt EXCEPT ![r] = "released"]
      BY <1>2, <2>1 DEF Release, ReleaseReserved
    <3>2. receipt'[r] = "released" /\ \A x \in Receipts : x # r => receipt'[x] = receipt[x]
      BY <3>1 DEF TypeOK
    <3>3. LedgerEntry(r).state = "held"
      BY <2>1, <1>0, EntryPhases
    <3>4. LedgerEntry(r)'.state = "gone"
      <4>1. assignment'[r].status # "active"
        BY <3>2 DEF ReceiptLife
      <4> QED BY <3>2, <4>1 DEF LedgerEntry
    <3>5. ASSUME NEW h \in Holders, h # r PROVE LedgerEntry(h)' = LedgerEntry(h)
      BY <3>1, <3>2, <3>5, SameEntry
    <3>6. EntriesMove({r}, "held", "gone")
      BY <3>3, <3>4, <3>5 DEF EntriesMove
    <3> QED BY <1>0, <3>6 DEF LedgerStep
  <2>2. CASE ~(receipt[r] = "reserved" /\ ReleaseDaysValid(r))
    <3>1. UNCHANGED <<receipt, assignment>>
      BY <1>2, <2>2 DEF Release
    <3>2. EntriesMove({}, "held", "held")
      BY <3>1, SameEntry DEF EntriesMove
    <3> QED BY <1>0, <3>2 DEF LedgerStep
  <2> QED BY <2>1, <2>2
<1>3. ASSUME NEW q \in Quotes, AdoptAcceptedPricingReservation(q) PROVE LedgerStep
  <2> DEFINE R == ReceiptsOf(q)
  <2>1. /\ R \subseteq Receipts /\ \A r \in R : receipt[r] = "reserved"
        /\ assignment' = [h \in Holders |->
              IF h \in R THEN [status |-> "active", stay |-> Stay[h]] ELSE assignment[h]]
        /\ receipt' = [r \in Receipts |-> IF r \in R THEN "handed_off" ELSE receipt[r]]
    BY <1>3 DEF AdoptAcceptedPricingReservation, ReceiptsOf, Receipts
  <2>2. ASSUME NEW h \in Holders PROVE LedgerEntry(h)' = LedgerEntry(h)
    <3>1. CASE h \in R
      <4>1. LedgerEntry(h) = [state |-> "held", type |-> Stay[h].type, nights |-> Stay[h].nights]
        BY <2>1, <3>1, EntryPhases
      <4>2. receipt'[h] = "handed_off" /\ assignment'[h] = [status |-> "active", stay |-> Stay[h]]
        BY <2>1, <3>1
      <4> QED BY <4>1, <4>2 DEF LedgerEntry
    <3>2. CASE h \notin R
      BY <2>1, <3>2, SameEntry
    <3> QED BY <3>1, <3>2
  <2>3. EntriesMove({}, "held", "held")
    BY <2>2 DEF EntriesMove
  <2> QED BY <1>0, <2>3 DEF LedgerStep
<1>4. ASSUME NEW q \in Quotes, CancelHostBookingAssignments(q) PROVE LedgerStep
  <2> DEFINE live == {r \in ReceiptsOf(q) : assignment[r].status = "active"}
  <2>1. /\ live \subseteq Holders /\ receipt' = receipt
        /\ assignment' = [h \in Holders |->
              IF h \in live THEN [assignment[h] EXCEPT !.status = "canceled"] ELSE assignment[h]]
    BY <1>0, <1>4 DEF CancelHostBookingAssignments, ReceiptsOf, Receipts
  <2>2. ASSUME NEW h \in Holders, h \in live
        PROVE  LedgerEntry(h).state = "held" /\ LedgerEntry(h)'.state = "gone"
    <3>1. LedgerEntry(h).state = "held" /\ (h \in Receipts => receipt[h] = "handed_off")
      BY <2>2, EntryPhases DEF ReceiptLife
    <3>2. assignment'[h].status = "canceled"
      BY <2>1, <2>2 DEF TypeOK, AssignmentRows
    <3> QED BY <2>1, <3>1, <3>2 DEF LedgerEntry
  <2>3. ASSUME NEW h \in Holders, h \notin live PROVE LedgerEntry(h)' = LedgerEntry(h)
    BY <2>1, <2>3, SameEntry
  <2> HIDE DEF live
  <2>4. EntriesMove(live, "held", "gone")
    BY <2>2, <2>3 DEF EntriesMove
  <2> QED BY <2>1, <2>4 DEF LedgerStep
<1>5. ASSUME NEW o \in Otas, NEW s \in OtaStays, PersistChannexAssignment(o, s) PROVE LedgerStep
  <2>1. /\ receipt' = receipt /\ assignment[o].status # "canceled"
        /\ assignment' = [assignment EXCEPT ![o] = [status |-> "active", stay |-> s]]
    BY <1>5 DEF PersistChannexAssignment
  <2>2. /\ assignment'[o] = [status |-> "active", stay |-> s]
        /\ \A h \in Holders : h # o => assignment'[h] = assignment[h]
    BY <1>0, <2>1 DEF TypeOK
  <2>3. LedgerEntry(o)'.state = "held"
    BY <1>0, <2>2 DEF LedgerEntry
  <2>4. LedgerEntry(o).state \in {"unbooked", "held"}
    <3>1. assignment[o].status \in {"none", "active"}
      BY <1>0, <2>1 DEF TypeOK, AssignmentRows
    <3> QED BY <1>0, <3>1 DEF LedgerEntry
  <2>5. ASSUME NEW h \in Holders, h # o PROVE LedgerEntry(h)' = LedgerEntry(h)
    BY <2>1, <2>2, <2>5, SameEntry
  <2>6. EntriesMove({o}, "unbooked", "held") \/ EntriesMove({o}, "held", "held")
    BY <2>3, <2>4, <2>5 DEF EntriesMove
  <2> QED BY <1>0, <2>6 DEF LedgerStep
<1>6. ASSUME NEW o \in Otas, CancelChannexAssignment(o) PROVE LedgerStep
  <2>1. /\ receipt' = receipt /\ assignment[o].status = "active"
        /\ assignment' = [assignment EXCEPT ![o].status = "canceled"]
    BY <1>6 DEF CancelChannexAssignment
  <2>2. /\ assignment'[o].status = "canceled"
        /\ \A h \in Holders : h # o => assignment'[h] = assignment[h]
    BY <1>0, <2>1 DEF TypeOK, AssignmentRows
  <2>3. LedgerEntry(o).state = "held" /\ LedgerEntry(o)'.state = "gone"
    BY <1>0, <2>1, <2>2 DEF LedgerEntry
  <2>4. ASSUME NEW h \in Holders, h # o PROVE LedgerEntry(h)' = LedgerEntry(h)
    BY <2>1, <2>2, <2>4, SameEntry
  <2>5. EntriesMove({o}, "held", "gone")
    BY <2>3, <2>4 DEF EntriesMove
  <2> QED BY <1>0, <2>5 DEF LedgerStep
<1>7. CASE UNCHANGED <<receipt, assignment, bundles>>
  <2>1. EntriesMove({}, "held", "held")
    BY <1>7, SameEntry DEF EntriesMove
  <2> QED BY <1>0, <2>1 DEF LedgerStep
<1>8. ASSUME NEW c \in Commands, NEW current \in ConfigurationAnswers,
             Reserve(c, current), ReserveValid(c, current)
      PROVE  LedgerStep
  BY <1>1, <1>8, SingleFresh DEF Receipts
<1>9. ASSUME NEW q \in Quotes, ReserveQuoteBundle(q) PROVE LedgerStep
  BY <1>1, <1>9, BundleFresh DEF Receipts, ReceiptsOf
<1> QED BY <1>2, <1>3, <1>4, <1>5, <1>6, <1>7, <1>8, <1>9, BookingChange

(* An entry has one of the shapes of the ledger.                           *)
LEMMA EntryTypes ==
    ASSUME TypeOK', NEW h \in Holders
    PROVE  LedgerEntry(h)' \in Ledger!Entries
<1>1. assignment'[h].stay \in Stays /\ (h \in Receipts => Stay[h] \in Stays)
  BY HolderAssumption DEF TypeOK, AssignmentRows
<1>2. NoStay.type \in RoomTypes
  BY RoomAssumption DEF NoStay
<1> QED BY <1>1, <1>2 DEF LedgerEntry, Ledger!Entries, Ledger!Vacant, Stays

(* The ledger counts as the inventory does.                                *)
LEMMA SameCount == \A S : Ledger!Cardinality(S) = Cardinality(S)
BY DEF Ledger!Cardinality, Cardinality

(* The ledger's bookings of a night are the rooms held on the day.         *)
LEMMA LedgerFits ==
    ASSUME TypeOK', ReceiptLife', RoomsSuffice', NEW t \in RoomTypes, NEW n \in Nights
    PROVE  Cardinality(Ledger!HeldRooms(t, n)') <= Capacity[t]
<1> DEFINE d == <<t, n>>
           held == Cardinality(HeldUnits(d)')
           manual == Cardinality(ManualBlocksOn(d)')
<1>1. Ledger!HeldRooms(t, n)' = HeldUnits(d)'
  <2>1. \A u \in Units : u[1] \in Holders
    BY DEF Units
  <2>2. \A u \in Units : Holds(u[1], d)' <=> /\ LedgerEntry(u[1])'.state = "held"
                                             /\ LedgerEntry(u[1])'.type = t
                                             /\ n \in LedgerEntry(u[1])'.nights
    BY <2>1, EntryHoldsAfter
  <2> QED BY <2>1, <2>2 DEF Ledger!HeldRooms, HeldUnits
<1>2. d \in Days /\ d[1] = t
  BY DEF Days
<1>3. held \in Nat /\ manual \in Nat /\ held + manual <= Capacity[t]
  BY <1>2, HeldAfter, ManualAmongRowsAfter DEF RoomsSuffice
<1>4. Capacity[t] \in Nat
  BY RoomAssumption
<1> HIDE DEF held, manual
<1>5. held <= Capacity[t]
  BY <1>3, <1>4
<1> QED BY <1>1, <1>5 DEF held

(* The empty calendar maps to an empty ledger.                             *)
LEMMA LedgerInit == Init => Ledger!Init
<1> SUFFICES ASSUME Init PROVE Ledger!Init
  OBVIOUS
<1>1. NoStay.type \in RoomTypes
  BY RoomAssumption DEF NoStay
<1>2. Receipts \subseteq Holders
  BY DEF Holders
<1>3. ASSUME NEW h \in Holders
      PROVE  LedgerEntry(h) = [state |-> "unbooked", type |-> NoStay.type, nights |-> {}]
  BY <1>2 DEF LedgerEntry, Init
<1> QED BY <1>1, <1>3 DEF Ledger!Init, Ledger!Vacant

(* Every command is a step of the ledger.                                  *)
LEMMA LedgerNext ==
    ASSUME CountInv, CountInv', Next
    PROVE  Ledger!Next
<1>1. /\ TypeOK /\ TypeOK' /\ KeyInv /\ ReceiptLife /\ ReceiptLife' /\ AdoptedStay
      /\ RoomsSuffice'
  BY DEF CountInv, LinkedInv, CountsRight
<1>2. LedgerStep
  BY <1>1, EntriesStep
<1>3. \E H \in SUBSET Holders : \/ Ledger!Moves(H, "unbooked", "held")
                                \/ Ledger!Moves(H, "held", "held")
                                \/ Ledger!Moves(H, "held", "gone")
  BY <1>2 DEF LedgerStep, EntriesMove, Ledger!Moves
<1>4. [h \in Holders |-> LedgerEntry(h)]' \in [Holders -> Ledger!Entries]
  BY <1>1, EntryTypes
<1>5. Ledger!NeverOverbooked'
  BY <1>1, LedgerFits, SameCount DEF Ledger!NeverOverbooked
<1> QED BY <1>3, <1>4, <1>5 DEF Ledger!Next

(* The inventory implements the ledger.                                    *)
THEOREM InventoryImplementsLedger == Spec => ImplementsLedger
<1>1. CountInv /\ CountInv' /\ [Next]_vars => [Ledger!Next]_([h \in Holders |-> LedgerEntry(h)])
  <2> SUFFICES ASSUME CountInv, CountInv', [Next]_vars
               PROVE  [Ledger!Next]_([h \in Holders |-> LedgerEntry(h)])
    OBVIOUS
  <2>1. CASE Next
    BY <2>1, LedgerNext
  <2>2. CASE UNCHANGED vars
    <3>1. \A h \in Holders : LedgerEntry(h)' = LedgerEntry(h)
      BY <2>2, SameEntry DEF vars
    <3> QED BY <3>1
  <2> QED BY <2>1, <2>2
<1> QED BY <1>1, LedgerInit, CountInvariant, PTL DEF Spec, ImplementsLedger, Ledger!Spec
=============================================================================
