---------------------- MODULE PropertyInventoryProofs ----------------------
(***************************************************************************)
(* Proofs about PropertyInventory, for every property, calendar, set of    *)
(* bookings and grouping of its room types.                                *)
(***************************************************************************)
EXTENDS PropertyInventory, FiniteSetTheorems, TLAPS

-----------------------------------------------------------------------------
(* Constant facts.                                                         *)

(* A cause is a receipt, a room of an assignment, or a manual block.       *)
LEMMA CauseKinds ==
    ASSUME NEW c \in Causes
    PROVE  \/ c[1] = "receipt" /\ Source(c) \in Receipts
           \/ c[1] = "assignment" /\ Source(c) \in Holders
           \/ c[1] = "manual" /\ Source(c) \in Blocks
BY DEF Causes, Units, Source

(* There are finitely many rooms of stays to count.                        *)
LEMMA UnitsFinite == IsFiniteSet(Units)
<1>1. IsFiniteSet(Holders)
  BY HolderAssumption, FS_Union DEF Holders
<1>2. IsFiniteSet(1..MaxRooms)
  BY HolderAssumption, FS_Interval
<1>3. IsFiniteSet(Holders \X (1..MaxRooms))
  BY <1>1, <1>2, FS_Product
<1> QED BY <1>3, FS_Subset DEF Units

(* The rooms of one receipt on a day it covers are its room count.         *)
LEMMA ReceiptUnits ==
    ASSUME NEW r \in Receipts, NEW d \in Days, Covers(Stay[r], d)
    PROVE  Cardinality(UnitsOf({r}, d)) = RoomCount[r]
<1>1. RoomCount[r] \in 1..MaxRooms /\ MaxRooms \in Nat
  BY HolderAssumption
<1>2. r \notin Otas
  BY HolderAssumption
<1>3. UnitsOf({r}, d) = {r} \X (1..RoomCount[r])
  BY <1>1, <1>2 DEF UnitsOf, Units, RoomsOf, Holders
<1>4. IsFiniteSet({r}) /\ Cardinality({r}) = 1
  BY FS_Singleton
<1>5. IsFiniteSet(1..RoomCount[r]) /\ Cardinality(1..RoomCount[r]) = RoomCount[r]
  BY <1>1, FS_Interval
<1>6. Cardinality({r} \X (1..RoomCount[r])) = 1 * RoomCount[r]
  <2> DEFINE I == 1..RoomCount[r]
  <2>1. Cardinality({r} \X I) = Cardinality({r}) * Cardinality(I)
    <3> HIDE DEF I
    <3> QED BY <1>4, <1>5, FS_Product DEF I
  <2> QED BY <2>1, <1>4, <1>5
<1>7. 1 * RoomCount[r] = RoomCount[r]
  BY <1>1
<1> QED BY <1>3, <1>6, <1>7

(* The counts of rooms held are natural numbers.                           *)
LEMMA UnitCounts ==
    ASSUME NEW R, NEW d
    PROVE  /\ IsFiniteSet(UnitsOf(R, d)) /\ Cardinality(UnitsOf(R, d)) \in Nat
           /\ IsFiniteSet(HeldUnits(d)) /\ Cardinality(HeldUnits(d)) \in Nat
BY UnitsFinite, FS_Subset, FS_CardinalityType DEF UnitsOf, HeldUnits

(* There are finitely many causes.                                         *)
LEMMA CausesFinite == IsFiniteSet(Causes)
<1>1. IsFiniteSet({1}) /\ IsFiniteSet({"receipt"}) /\ IsFiniteSet({"assignment"})
      /\ IsFiniteSet({"manual"})
  BY FS_Singleton
<1>2. IsFiniteSet(Receipts \X {1}) /\ IsFiniteSet(Blocks \X {1})
  BY <1>1, HolderAssumption, BlockAssumption, FS_Product
<1>3. IsFiniteSet({"receipt"} \X (Receipts \X {1}))
  BY <1>1, <1>2, FS_Product
<1>4. IsFiniteSet({"assignment"} \X Units)
  BY <1>1, UnitsFinite, FS_Product
<1>5. IsFiniteSet({"manual"} \X (Blocks \X {1}))
  BY <1>1, <1>2, FS_Product
<1> QED BY <1>3, <1>4, <1>5, FS_Union DEF Causes

(* The count of block rows is a natural number.                            *)
LEMMA BlockRowCounts ==
    ASSUME NEW manual, NEW der, NEW d
    PROVE  /\ IsFiniteSet(BlockRows(manual, der, d))
           /\ Cardinality(BlockRows(manual, der, d)) \in Nat
BY CausesFinite, FS_Subset, FS_CardinalityType DEF BlockRows

(* A computed inventory day has non-negative counts.                       *)
LEMMA DayRowType ==
    ASSUME NEW t \in RoomTypes, NEW a \in Nat, NEW b \in Nat, NEW s \in BOOLEAN
    PROVE  DayRow(t, a, b, s) \in DayRows
<1>1. SellLimit[t] \in Nat
  BY RoomAssumption
<1>2. AvailableCount(t, a, b, s) \in Nat
  BY <1>1 DEF AvailableCount, AtLeastZero
<1> QED BY <1>2 DEF DayRow, DayRows

-----------------------------------------------------------------------------
(* Types.                                                                  *)

(* The part of TypeOK that commands set before they reconcile.             *)
SourcesOK ==
    /\ receipt \in [Receipts -> ReceiptStates]
    /\ assignment \in [Holders -> AssignmentRows]
    /\ block \in [Blocks -> [status: BlockStates, stay: Stays]]
    /\ \A b \in Blocks : block[b].stay.type = BlockType[b]
    /\ group \in [RoomTypes -> Groups \cup {NoGroup}]

(* The stay of a cause is well typed.                                      *)
LEMMA CauseStayType ==
    ASSUME SourcesOK, NEW c \in Causes
    PROVE  CauseStay(c) \in Stays
<1>1. CASE c[1] = "receipt"
  BY <1>1, CauseKinds, HolderAssumption DEF CauseStay
<1>2. CASE c[1] = "assignment"
  BY <1>2, CauseKinds DEF CauseStay, SourcesOK, AssignmentRows
<1>3. CASE c[1] = "manual"
  BY <1>3, CauseKinds DEF CauseStay, SourcesOK
<1> QED BY <1>1, <1>2, <1>3, CauseKinds

(* The reconciler keeps the types of the tables it writes.                 *)
LEMMA ReconcileType ==
    ASSUME TypeOK, SourcesOK',
           NEW mid \in [Days -> DayRows], NEW revised, NEW requested,
           ReconcileLinkedInventory(mid, revised, requested)
    PROVE  /\ derived' \in [Causes \X RoomTypes -> [status: BlockStates, stay: Stays]]
           /\ day' \in [Days -> DayRows]
           /\ watermark' \in [Commands -> [read: BOOLEAN, nights: SUBSET Nights]]
<1> DEFINE Row == [status: BlockStates, stay: Stays]
<1>1. \A c \in Causes, t \in RoomTypes : UpsertDerivedBlocks(c, t) \in Row
  <2> TAKE c \in Causes, t \in RoomTypes
  <2>1. CauseStay(c)' \in Stays
    <3>1. CASE c[1] = "receipt"
      BY <3>1, CauseKinds, HolderAssumption DEF CauseStay
    <3>2. CASE c[1] = "assignment"
      BY <3>2, CauseKinds DEF CauseStay, SourcesOK, AssignmentRows
    <3>3. CASE c[1] = "manual"
      BY <3>3, CauseKinds DEF CauseStay, SourcesOK
    <3> QED BY <3>1, <3>2, <3>3, CauseKinds
  <2>2. derived[<<c, t>>] \in Row
    BY DEF TypeOK
  <2> QED BY <2>1, <2>2 DEF UpsertDerivedBlocks, BlockStates
<1>2. \A row \in Row : \A c \in Causes, t \in RoomTypes :
         ReleaseStaleDerivedBlocks(row, c, t) \in Row
  BY DEF ReleaseStaleDerivedBlocks, BlockStates
<1>3. derived' \in [Causes \X RoomTypes -> Row]
  BY <1>1, <1>2 DEF ReconcileLinkedInventory
<1>4. \A d \in Days : RecomputedDay(d, mid[d].assigned) \in DayRows
  <2> TAKE d \in Days
  <2>1. mid[d].assigned \in Nat /\ d[1] \in RoomTypes
    BY DEF DayRows, Days
  <2>2. Capacity[d[1]] \in Nat
    BY <2>1, RoomAssumption
  <2> DEFINE n == Cardinality(BlockRows(block', derived', d))
  <2>3. n \in Nat
    BY BlockRowCounts
  <2> HIDE DEF n
  <2>4. Lesser(n, AtLeastZero(Capacity[d[1]] - mid[d].assigned)) \in Nat
    BY <2>1, <2>2, <2>3 DEF Lesser, AtLeastZero
  <2>5. GroupHasCause(d[1], d[2])' \in BOOLEAN
    BY DEF GroupHasCause
  <2> QED BY <2>1, <2>4, <2>5, DayRowType DEF RecomputedDay, n
<1>5. day' \in [Days -> DayRows]
  BY <1>4 DEF ReconcileLinkedInventory
<1>6. watermark' \in [Commands -> [read: BOOLEAN, nights: SUBSET Nights]]
  BY DEF ReconcileLinkedInventory, TypeOK
<1> QED BY <1>3, <1>5, <1>6

(* The days a command hands to the reconciler are well typed.              *)
LEMMA WithAssignedType ==
    ASSUME TypeOK, NEW d \in Days, NEW a \in Nat
    PROVE  WithAssigned(d, a) \in DayRows
<1>1. d[1] \in RoomTypes
  BY DEF Days
<1>2. day[d].blocked \in Nat /\ day[d].linkedStopSell \in BOOLEAN
  BY DEF TypeOK, DayRows
<1> QED BY <1>1, <1>2, DayRowType DEF WithAssigned

(* A reserve hands well-typed days to the reconciler.                      *)
LEMMA ReserveDeltaType ==
    ASSUME TypeOK, NEW R
    PROVE  ApplyBookingDelta(R, 1) \in [Days -> DayRows]
<1>1. ASSUME NEW d \in Days
      PROVE  WithAssigned(d, day[d].assigned + 1 * Cardinality(UnitsOf(R, d))) \in DayRows
  <2>1. day[d].assigned \in Nat
    BY DEF TypeOK, DayRows
  <2> DEFINE n == Cardinality(UnitsOf(R, d))
  <2>2. n \in Nat
    BY UnitCounts
  <2> HIDE DEF n
  <2>3. day[d].assigned + 1 * n \in Nat
    BY <2>1, <2>2
  <2> QED BY <2>3, WithAssignedType DEF n
<1> QED BY <1>1 DEF ApplyBookingDelta, TypeOK

(* A release takes away no more rooms than were assigned.                  *)
LEMMA ReleaseDeltaType ==
    ASSUME TypeOK, NEW r \in Receipts, ReleaseDaysValid(r)
    PROVE  ApplyBookingDelta({r}, -1) \in [Days -> DayRows]
<1>1. ASSUME NEW d \in DaysOfAll({r})
      PROVE  WithAssigned(d, day[d].assigned + (-1) * Cardinality(UnitsOf({r}, d))) \in DayRows
  <2>1. d \in Days /\ Covers(Stay[r], d)
    BY DEF DaysOfAll
  <2>2. day[d].assigned \in Nat
    BY <2>1 DEF TypeOK, DayRows
  <2>3. day[d].assigned >= RoomCount[r]
    BY <2>1 DEF ReleaseDaysValid, DaysOf, Covers, Days
  <2>4. RoomCount[r] \in Nat
    BY HolderAssumption
  <2>5. Cardinality(UnitsOf({r}, d)) = RoomCount[r]
    BY <2>1, ReceiptUnits
  <2>6. day[d].assigned + (-1) * RoomCount[r] \in Nat
    BY <2>2, <2>3, <2>4
  <2> QED BY <2>1, <2>5, <2>6, WithAssignedType
<1> QED BY <1>1 DEF ApplyBookingDelta, TypeOK, DaysOfAll

(* So does the recount of assigned rooms.                                  *)
LEMMA OccupiedType ==
    ASSUME TypeOK, NEW spans
    PROVE  ReconcileOccupiedInventory(spans) \in [Days -> DayRows]
<1>1. ASSUME NEW d \in Days
      PROVE  WithAssigned(d, ExpectedAssigned(d)') \in DayRows
  <2>1. IsFiniteSet(HeldUnits(d)')
    BY UnitsFinite, FS_Subset DEF HeldUnits
  <2>2. ExpectedAssigned(d)' \in Nat
    BY <2>1, FS_CardinalityType DEF ExpectedAssigned
  <2> QED BY <2>2, WithAssignedType
<1> QED BY <1>1 DEF ReconcileOccupiedInventory, TypeOK

(* So does the recount of blocks.                                          *)
LEMMA RecountType ==
    ASSUME TypeOK, NEW affected
    PROVE  ReconcileRoomBlockInventory(affected) \in [Days -> DayRows]
<1>1. ASSUME NEW d \in Days
      PROVE  DayRow(d[1], day[d].assigned, Cardinality(BlockRows(block', derived, d)),
                    day[d].linkedStopSell) \in DayRows
  <2>1. d[1] \in RoomTypes
    BY DEF Days
  <2>2. day[d].assigned \in Nat /\ day[d].linkedStopSell \in BOOLEAN
    BY DEF TypeOK, DayRows
  <2> QED BY <2>1, <2>2, BlockRowCounts, DayRowType
<1> QED BY <1>1 DEF ReconcileRoomBlockInventory, TypeOK

-----------------------------------------------------------------------------
(* Every command either leaves the inventory alone or sets its sources and *)
(* then runs the reconciler, on days that keep their stop-sell and differ  *)
(* from the stored ones only where the command has revised them.           *)

WatermarkRows == [read: BOOLEAN, nights: SUBSET Nights]

Quiet == /\ UNCHANGED <<receipt, assignment, block, group, derived, day>>
         /\ watermark' \in [Commands -> WatermarkRows]

KeepsStopSell(mid) == \A d \in Days : mid[d].linkedStopSell = day[d].linkedStopSell
KeepsUnrevised(mid, revised) == \A d \in Days \ revised : mid[d] = day[d]

Reconciles ==
    \E mid \in [Days -> DayRows] : \E revised, requested :
        /\ SourcesOK'
        /\ KeepsStopSell(mid)
        /\ KeepsUnrevised(mid, revised)
        /\ ReconcileLinkedInventory(mid, revised, requested)

(* The days handed to the reconciler keep their stop-sell flag.            *)
LEMMA MidStopSell ==
    ASSUME TypeOK, NEW R, NEW sign, NEW spans, NEW affected
    PROVE  /\ KeepsStopSell(day)
           /\ KeepsStopSell(ApplyBookingDelta(R, sign))
           /\ KeepsStopSell(ReconcileOccupiedInventory(spans))
           /\ KeepsStopSell(ReconcileRoomBlockInventory(affected))
BY DEF KeepsStopSell, ApplyBookingDelta, ReconcileOccupiedInventory,
       ReconcileRoomBlockInventory, WithAssigned, DayRow

(* A day that was not revised was not changed.                             *)
LEMMA MidUnrevised ==
    ASSUME TypeOK, NEW R, NEW sign, NEW spans, NEW affected
    PROVE  /\ KeepsUnrevised(day, {})
           /\ KeepsUnrevised(ApplyBookingDelta(R, sign), DaysOfAll(R))
           /\ KeepsUnrevised(ReconcileOccupiedInventory(spans), Reassigned(spans))
           /\ KeepsUnrevised(ReconcileRoomBlockInventory(affected), RecountedBlocks(affected))
BY DEF KeepsUnrevised, ApplyBookingDelta, ReconcileOccupiedInventory,
       ReconcileRoomBlockInventory

(* A reserve is a reconciler step.                                         *)
LEMMA ReserveShape ==
    ASSUME TypeOK, NEW R \in SUBSET Receipts, RecordReserved(R)
    PROVE  Reconciles
<1>1. SourcesOK'
  BY DEF RecordReserved, PersistReceipts, SourcesOK, TypeOK, ReceiptStates
<1> QED BY <1>1, ReserveDeltaType, MidStopSell, MidUnrevised DEF RecordReserved, Reconciles

(* A release is quiet or a reconciler step.                                *)
LEMMA ReleaseShape ==
    ASSUME TypeOK, NEW r \in Receipts, Release(r)
    PROVE  Quiet \/ Reconciles
<1>1. CASE receipt[r] = "reserved" /\ ReleaseDaysValid(r)
  <2>1. SourcesOK'
    BY <1>1 DEF Release, ReleaseReserved, SourcesOK, TypeOK, ReceiptStates
  <2>2. KeepsUnrevised(ApplyBookingDelta({r}, -1), DaysOf(Stay[r]))
    BY DEF KeepsUnrevised, ApplyBookingDelta, DaysOfAll, DaysOf, Covers, Days
  <2> QED BY <1>1, <2>1, <2>2, ReleaseDeltaType, MidStopSell
         DEF Release, ReleaseReserved, Reconciles
<1>2. CASE ~(receipt[r] = "reserved" /\ ReleaseDaysValid(r))
  BY <1>2 DEF Release, Quiet, TypeOK, WatermarkRows
<1> QED BY <1>1, <1>2

(* An adoption is a reconciler step.                                       *)
LEMMA AdoptShape ==
    ASSUME TypeOK, NEW q \in Quotes, AdoptAcceptedPricingReservation(q)
    PROVE  Reconciles
<1> DEFINE spans == {Stay[r] : r \in ReceiptsOf(q)}
<1>1. ReceiptsOf(q) \subseteq Receipts
  BY DEF ReceiptsOf, Receipts
<1>2. \A r \in ReceiptsOf(q) : Stay[r] \in Stays
  BY <1>1, HolderAssumption
<1>3. receipt' \in [Receipts -> ReceiptStates]
  BY DEF AdoptAcceptedPricingReservation, TypeOK, ReceiptStates
<1>4. assignment' \in [Holders -> AssignmentRows]
  BY <1>2 DEF AdoptAcceptedPricingReservation, TypeOK, AssignmentRows
<1>5. SourcesOK'
  BY <1>3, <1>4 DEF AdoptAcceptedPricingReservation, TypeOK, SourcesOK
<1>6. ReconcileLinkedInventory(ReconcileOccupiedInventory(spans), Reassigned(spans), spans)
  BY DEF AdoptAcceptedPricingReservation
<1> QED BY <1>5, <1>6, OccupiedType, MidStopSell, MidUnrevised DEF Reconciles

(* A host cancellation is a reconciler step.                               *)
LEMMA CancelHostShape ==
    ASSUME TypeOK, NEW q \in Quotes, CancelHostBookingAssignments(q)
    PROVE  Reconciles
<1> DEFINE live == {r \in ReceiptsOf(q) : assignment[r].status = "active"}
           spans == {assignment[r].stay : r \in live}
<1>1. assignment' \in [Holders -> AssignmentRows]
  BY DEF CancelHostBookingAssignments, TypeOK, AssignmentRows
<1>2. SourcesOK'
  BY <1>1 DEF CancelHostBookingAssignments, TypeOK, SourcesOK
<1>3. ReconcileLinkedInventory(ReconcileOccupiedInventory(spans), Reassigned(spans), {})
  BY DEF CancelHostBookingAssignments
<1> QED BY <1>2, <1>3, OccupiedType, MidStopSell, MidUnrevised DEF Reconciles

(* Saving an OTA revision is a reconciler step.                            *)
LEMMA PersistChannexShape ==
    ASSUME TypeOK, NEW o \in Otas, NEW s \in OtaStays, PersistChannexAssignment(o, s)
    PROVE  Reconciles
<1> DEFINE prior == IF assignment[o].status = "active" THEN {assignment[o].stay} ELSE {}
           spans == {s} \cup prior
<1>1. s \in Stays /\ o \in Holders
  BY HolderAssumption DEF Holders
<1>2. assignment' \in [Holders -> AssignmentRows]
  BY <1>1 DEF PersistChannexAssignment, TypeOK, AssignmentRows
<1>3. SourcesOK'
  BY <1>2 DEF PersistChannexAssignment, TypeOK, SourcesOK
<1>4. ReconcileLinkedInventory(ReconcileOccupiedInventory(spans), Reassigned(spans), {})
  BY DEF PersistChannexAssignment
<1> QED BY <1>3, <1>4, OccupiedType, MidStopSell, MidUnrevised DEF Reconciles

(* Cancelling an OTA booking is a reconciler step.                         *)
LEMMA CancelChannexShape ==
    ASSUME TypeOK, NEW o \in Otas, CancelChannexAssignment(o)
    PROVE  Reconciles
<1> DEFINE spans == {assignment[o].stay}
<1>1. assignment' \in [Holders -> AssignmentRows]
  BY DEF CancelChannexAssignment, TypeOK, AssignmentRows
<1>2. SourcesOK'
  BY <1>1 DEF CancelChannexAssignment, TypeOK, SourcesOK
<1>3. ReconcileLinkedInventory(ReconcileOccupiedInventory(spans), Reassigned(spans), {})
  BY DEF CancelChannexAssignment
<1> QED BY <1>2, <1>3, OccupiedType, MidStopSell, MidUnrevised DEF Reconciles

(* A change of one manual block is a reconciler step.                      *)
LEMMA BlockShape ==
    ASSUME TypeOK, NEW b \in Blocks, NEW affected,
           NEW row \in [status: BlockStates, stay: Stays],
           row.stay.type = BlockType[b],
           ApplyRoomBlockMutation(b, row, affected)
    PROVE  Reconciles
<1> DEFINE days == {BlockType[b]} \X affected
<1>1. SourcesOK'
  BY DEF ApplyRoomBlockMutation, TypeOK, SourcesOK
<1>2. ReconcileLinkedInventory(ReconcileRoomBlockInventory(days), RecountedBlocks(days), {})
  BY DEF ApplyRoomBlockMutation
<1> QED BY <1>1, <1>2, RecountType, MidStopSell, MidUnrevised DEF Reconciles

(* Creating and updating a block are reconciler steps.                     *)
LEMMA RoomBlockShape ==
    ASSUME TypeOK, NEW b \in Blocks, NEW nights \in Spans,
           RoomBlockCreate(b, nights) \/ RoomBlockUpdate(b, nights)
    PROVE  Reconciles
<1>1. nights \in SUBSET Nights
  BY DEF Spans
<1>2. RoomBlockRow(b, nights) \in [status: BlockStates, stay: Stays]
      /\ RoomBlockRow(b, nights).stay.type = BlockType[b]
  BY <1>1, BlockAssumption DEF RoomBlockRow, BlockStates, Stays
<1>3. CASE RoomBlockCreate(b, nights)
  BY <1>2, <1>3, BlockShape DEF RoomBlockCreate
<1>4. CASE RoomBlockUpdate(b, nights)
  BY <1>2, <1>4, BlockShape DEF RoomBlockUpdate
<1> QED BY <1>3, <1>4

(* Releasing a block is a reconciler step.                                 *)
LEMMA ReleaseBlockShape ==
    ASSUME TypeOK, NEW b \in Blocks, RoomBlockRelease(b)
    PROVE  Reconciles
<1> DEFINE row == [block[b] EXCEPT !.status = "released"]
<1>1. row \in [status: BlockStates, stay: Stays] /\ row.stay.type = BlockType[b]
  BY DEF TypeOK, BlockStates
<1>2. ApplyRoomBlockMutation(b, row, block[b].stay.nights)
  BY DEF RoomBlockRelease
<1> HIDE DEF row
<1> QED BY <1>1, <1>2, BlockShape

(* Putting and deleting a group are reconciler steps.                      *)
LEMMA GroupShape ==
    ASSUME TypeOK, NEW g \in Groups, NEW members \in SUBSET RoomTypes,
           PutLinkedInventoryGroup(g, members) \/ DeleteLinkedInventoryGroup(g)
    PROVE  Reconciles
<1>1. SourcesOK'
  BY DEF PutLinkedInventoryGroup, DeleteLinkedInventoryGroup, TypeOK, SourcesOK
<1>2. ReconcileLinkedInventory(day, {}, {})
  BY DEF PutLinkedInventoryGroup, DeleteLinkedInventoryGroup
<1>3. day \in [Days -> DayRows]
  BY DEF TypeOK
<1> QED BY <1>1, <1>2, <1>3, MidStopSell, MidUnrevised DEF Reconciles

(* Every command is quiet or a reconciler step.                            *)
LEMMA NextShape ==
    ASSUME TypeOK, Next
    PROVE  Quiet \/ Reconciles
<1>1. ASSUME NEW c \in Commands, ReadWatermarks(c) PROVE Quiet
  <2>1. Stay[c].nights \in SUBSET Nights
    BY HolderAssumption DEF Receipts, Stays
  <2> QED BY <1>1, <2>1 DEF ReadWatermarks, Quiet, TypeOK, WatermarkRows
<1>2. ASSUME NEW c \in Commands, NEW current \in ConfigurationAnswers, Reserve(c, current)
      PROVE  Quiet \/ Reconciles
  <2>1. {c} \in SUBSET Receipts
    BY DEF Receipts
  <2>2. CASE ReserveValid(c, current)
    BY <1>2, <2>1, <2>2, ReserveShape DEF Reserve
  <2>3. CASE ~ReserveValid(c, current)
    BY <1>2, <2>3 DEF Reserve, Quiet, TypeOK, WatermarkRows
  <2> QED BY <2>2, <2>3
<1>3. ASSUME NEW q \in Quotes, ReserveQuoteBundle(q) PROVE Reconciles
  <2>1. ReceiptsOf(q) \in SUBSET Receipts
    BY DEF ReceiptsOf, Receipts
  <2> QED BY <1>3, <2>1, ReserveShape DEF ReserveQuoteBundle
<1> QED BY <1>1, <1>2, <1>3, ReleaseShape, AdoptShape, CancelHostShape, PersistChannexShape,
           CancelChannexShape, RoomBlockShape, ReleaseBlockShape, GroupShape DEF Next

(* The idempotency tables, which no reconcile touches.                     *)
LEMMA IdempotencyType ==
    ASSUME TypeOK, Next
    PROVE  /\ reserveIdem' \in [Keys -> {"none", "reserved", "failed"}]
           /\ releaseIdem' \in [Keys -> {"none", "completed"}]
           /\ bundles' \in SUBSET Quotes
BY DEF TypeOK, Next, ReadWatermarks, Reserve, ReserveQuoteBundle, Release,
       FinalizeReserve, FinalizeRelease, StoreResult,
       AdoptAcceptedPricingReservation, CancelHostBookingAssignments,
       PersistChannexAssignment, CancelChannexAssignment, RoomBlockCreate,
       RoomBlockUpdate, RoomBlockRelease, ApplyRoomBlockMutation,
       PutLinkedInventoryGroup, DeleteLinkedInventoryGroup

(* The empty calendar is well typed.                                       *)
LEMMA TypeInit == Init => TypeOK
<1> SUFFICES ASSUME Init PROVE TypeOK
  OBVIOUS
<1>1. NoStay \in Stays
  BY RoomAssumption DEF NoStay, Stays
<1>2. \A d \in Days : DayRow(d[1], 0, 0, FALSE) \in DayRows
  BY DayRowType DEF Days
<1>3. \A b \in Blocks : [NoStay EXCEPT !.type = BlockType[b]] \in Stays
                       /\ [NoStay EXCEPT !.type = BlockType[b]].type = BlockType[b]
  BY <1>1, BlockAssumption DEF Stays
<1> QED BY <1>1, <1>2, <1>3
        DEF Init, TypeOK, ReceiptStates, AssignmentRows, BlockStates

(* Every command keeps the types.                                          *)
LEMMA TypeStep == TypeOK /\ [Next]_vars => TypeOK'
<1> SUFFICES ASSUME TypeOK, [Next]_vars PROVE TypeOK'
  OBVIOUS
<1>1. CASE Next
  <2>1. CASE Quiet
    BY <1>1, <2>1, IdempotencyType DEF Quiet, TypeOK, WatermarkRows
  <2>2. CASE Reconciles
    <3>1. /\ derived' \in [Causes \X RoomTypes -> [status: BlockStates, stay: Stays]]
          /\ day' \in [Days -> DayRows]
          /\ watermark' \in [Commands -> [read: BOOLEAN, nights: SUBSET Nights]]
          /\ SourcesOK'
      BY <2>2, ReconcileType DEF Reconciles
    <3> QED BY <1>1, <3>1, IdempotencyType DEF SourcesOK, TypeOK
  <2> QED BY <1>1, <2>1, <2>2, NextShape
<1>2. CASE UNCHANGED vars
  BY <1>2 DEF vars, TypeOK
<1> QED BY <1>1, <1>2

(* Every table keeps its shape; in particular no count ever goes below     *)
(* zero, although release and the other commands subtract from it.         *)
THEOREM TypeCorrect == Spec => []TypeOK
BY TypeInit, TypeStep, PTL DEF Spec

-----------------------------------------------------------------------------
(* Watermarks and idempotency keys.                                        *)

(* A reserve that passes the watermark check sells at the counts its       *)
(* client was shown: whatever command changes a day revises it, the days   *)
(* of linked siblings included.                                            *)
THEOREM ChangesRevise == Spec => ChangeRevises
<1> DEFINE Shown ==
      \A c \in Commands : \A n \in watermark'[c].nights :
         watermark[c].read => day'[<<Stay[c].type, n>>] = day[<<Stay[c].type, n>>]
<1>1. ASSUME TypeOK, [Next]_vars PROVE [Shown]_vars
  <2>1. CASE UNCHANGED vars
    BY <2>1
  <2>2. CASE Quiet
    BY <2>2 DEF Quiet
  <2>3. CASE Reconciles
    <3>1. PICK mid \in [Days -> DayRows] : \E revised, requested :
             /\ KeepsUnrevised(mid, revised)
             /\ ReconcileLinkedInventory(mid, revised, requested)
      BY <2>3 DEF Reconciles
    <3>2. PICK revised, requested :
             /\ KeepsUnrevised(mid, revised)
             /\ ReconcileLinkedInventory(mid, revised, requested)
      BY <3>1
    <3> SUFFICES ASSUME NEW c \in Commands, NEW n \in watermark'[c].nights
                 PROVE  day'[<<Stay[c].type, n>>] = day[<<Stay[c].type, n>>]
      BY DEF Shown
    <3> DEFINE d == <<Stay[c].type, n>>
    <3>3. n \in watermark[c].nights /\ d \notin revised \cup Dirty(requested)
      BY <1>1, <3>2 DEF ReconcileLinkedInventory, TypeOK
    <3>4. d \in Days
      BY <1>1, <3>3, HolderAssumption DEF TypeOK, Days, Receipts, Stays
    <3>5. day'[d] = mid[d]
      BY <3>2, <3>3, <3>4 DEF ReconcileLinkedInventory
    <3> QED BY <3>2, <3>3, <3>4, <3>5 DEF KeepsUnrevised
  <2> QED BY <1>1, <2>1, <2>2, <2>3, NextShape
<1>2. Spec => [][Shown]_vars
  BY <1>1, TypeCorrect, PTL DEF Spec
<1> QED BY <1>2 DEF ChangeRevises

(* A command's receipt exists only under a key with a stored result.       *)
KeyInv ==
    /\ TypeOK
    /\ \A c \in Commands : receipt[c] # "none" => reserveIdem[ReserveKey[c]] # "none"
    /\ KeyReservesOnce

(* Every command keeps the receipts tied to their keys.                    *)
LEMMA KeyStep == KeyInv /\ [Next]_vars => KeyInv'
<1> SUFFICES ASSUME KeyInv, [Next]_vars PROVE KeyInv'
  OBVIOUS
<1> USE DEF KeyInv, KeyReservesOnce
<1>0. TypeOK'
  BY TypeStep
<1>1. \A c \in Commands : ReserveKey[c] \in Keys /\ c \in Receipts /\ c \notin QuoteReceipts
  BY KeyAssumption, HolderAssumption DEF Receipts
<1>2. ASSUME NEW c \in Commands, NEW current \in ConfigurationAnswers, Reserve(c, current)
      PROVE  KeyInv'
  <2>1. \A e \in Commands : receipt[e] # "none" => ReserveKey[e] # ReserveKey[c]
    BY <1>2 DEF Reserve, FindReserveReplay, KeyUsed
  <2>2. \A e \in Commands : receipt'[e] # "none" => e = c \/ receipt[e] # "none"
    BY <1>1, <1>2 DEF Reserve, RecordReserved, PersistReceipts
  <2>3. /\ reserveIdem'[ReserveKey[c]] # "none"
        /\ \A e \in Commands : ReserveKey[e] # ReserveKey[c] =>
              reserveIdem'[ReserveKey[e]] = reserveIdem[ReserveKey[e]]
    BY <1>1, <1>2 DEF Reserve, FinalizeReserve, StoreResult, TypeOK
  <2> QED BY <1>0, <2>1, <2>2, <2>3
<1>3. CASE UNCHANGED reserveIdem /\ \A c \in Commands : receipt'[c] # "none" => receipt[c] # "none"
  BY <1>0, <1>3
<1>4. ASSUME NEW q \in Quotes, ReserveQuoteBundle(q)
      PROVE  UNCHANGED reserveIdem /\ \A c \in Commands : receipt'[c] = receipt[c]
  BY <1>1, <1>4 DEF ReserveQuoteBundle, RecordReserved, PersistReceipts, ReceiptsOf
<1>5. ASSUME NEW r \in Receipts, Release(r)
      PROVE  UNCHANGED reserveIdem
             /\ \A c \in Commands : receipt'[c] # "none" => receipt[c] # "none"
  BY <1>1, <1>5 DEF Release, ReleaseReserved, TypeOK
<1>6. ASSUME NEW q \in Quotes, AdoptAcceptedPricingReservation(q)
      PROVE  UNCHANGED reserveIdem
             /\ \A c \in Commands : receipt'[c] # "none" => receipt[c] # "none"
  BY <1>1, <1>6 DEF AdoptAcceptedPricingReservation, ReceiptsOf
<1>7. \/ UNCHANGED <<receipt, reserveIdem>>
      \/ \E c \in Commands, current \in ConfigurationAnswers : Reserve(c, current)
      \/ \E q \in Quotes : ReserveQuoteBundle(q)
      \/ \E r \in Receipts : Release(r)
      \/ \E q \in Quotes : AdoptAcceptedPricingReservation(q)
  BY DEF vars, Next, ReadWatermarks, CancelHostBookingAssignments, PersistChannexAssignment,
         CancelChannexAssignment, RoomBlockCreate, RoomBlockUpdate, RoomBlockRelease,
         ApplyRoomBlockMutation, PutLinkedInventoryGroup, DeleteLinkedInventoryGroup
<1> QED BY <1>2, <1>3, <1>4, <1>5, <1>6, <1>7

(* One idempotency key reserves at most one receipt.                       *)
THEOREM KeysReserveOnce == Spec => []KeyReservesOnce
<1>1. Init => KeyInv
  BY TypeInit DEF Init, KeyInv, KeyReservesOnce, Receipts
<1>2. KeyInv => KeyReservesOnce
  BY DEF KeyInv
<1> QED BY <1>1, <1>2, KeyStep, PTL DEF Spec
=============================================================================
