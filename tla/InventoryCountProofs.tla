------------------------ MODULE InventoryCountProofs ------------------------
(***************************************************************************)
(* The counts of pms.inventory_days: assigned_count is the rooms held,     *)
(* blocked_count the block rows saturated at the rooms left, and the rooms *)
(* held and blocked by hand fit in the physical rooms.                     *)
(***************************************************************************)
EXTENDS LinkedInventoryProofs

-----------------------------------------------------------------------------
(* Counting.                                                               *)

(* Counts of disjoint sets add up.                                         *)
LEMMA DisjointCount ==
    ASSUME NEW S, NEW T, IsFiniteSet(S), IsFiniteSet(T), S \cap T = {}
    PROVE  Cardinality(S \cup T) = Cardinality(S) + Cardinality(T)
<1>1. Cardinality(S \cap T) = 0
  BY FS_EmptySet
<1>2. Cardinality(S) \in Nat /\ Cardinality(T) \in Nat
  BY FS_CardinalityType
<1>3. Cardinality(S \cup T) = Cardinality(S) + Cardinality(T) - Cardinality(S \cap T)
  BY FS_Union
<1> QED BY <1>1, <1>2, <1>3

(* Removing a subset removes its count.                                    *)
LEMMA RemovedCount ==
    ASSUME NEW S, NEW T, IsFiniteSet(S), T \subseteq S
    PROVE  Cardinality(S \ T) = Cardinality(S) - Cardinality(T)
<1>1. S \cap T = T
  OBVIOUS
<1> QED BY <1>1, FS_Difference

(* The manual rows of a day are among its block rows.                      *)
LEMMA ManualAmongRows ==
    ASSUME NEW der, NEW d
    PROVE  /\ IsFiniteSet(ManualBlocksOn(d)) /\ Cardinality(ManualBlocksOn(d)) \in Nat
           /\ Cardinality(ManualBlocksOn(d)) <= Cardinality(BlockRows(block, der, d))
<1>1. ManualBlocksOn(d) \subseteq BlockRows(block, der, d)
  BY DEF ManualBlocksOn, BlockRows
<1>2. IsFiniteSet(BlockRows(block, der, d))
  BY BlockRowCounts
<1> QED BY <1>1, <1>2, FS_Subset, FS_CardinalityType

(* The same after a step.                                                  *)
LEMMA ManualAmongRowsAfter ==
    ASSUME NEW der, NEW d
    PROVE  /\ Cardinality(ManualBlocksOn(d)') \in Nat
           /\ Cardinality(ManualBlocksOn(d)') <= Cardinality(BlockRows(block', der, d))
<1>1. ManualBlocksOn(d)' \subseteq BlockRows(block', der, d)
  BY DEF ManualBlocksOn, BlockRows
<1>2. IsFiniteSet(BlockRows(block', der, d))
  BY BlockRowCounts
<1> QED BY <1>1, <1>2, FS_Subset, FS_CardinalityType

(* The rooms held after a step are a count.                                *)
LEMMA HeldAfter ==
    ASSUME NEW d
    PROVE  IsFiniteSet(HeldUnits(d)') /\ Cardinality(HeldUnits(d)') \in Nat
<1>1. IsFiniteSet(HeldUnits(d)')
  BY UnitsFinite, FS_Subset DEF HeldUnits
<1> QED BY <1>1, FS_CardinalityType

(* The stored numbers of a day.                                            *)
LEMMA DayNumbers ==
    ASSUME TypeOK, NEW d \in Days
    PROVE  /\ d[1] \in RoomTypes /\ d[2] \in Nights /\ d = <<d[1], d[2]>>
           /\ Capacity[d[1]] \in Nat
           /\ day[d].assigned \in Nat /\ day[d].blocked \in Nat
           /\ day[d].linkedStopSell \in BOOLEAN
<1>1. d[1] \in RoomTypes /\ d[2] \in Nights /\ d = <<d[1], d[2]>>
  BY DEF Days
<1>2. Capacity[d[1]] \in Nat
  BY <1>1, RoomAssumption
<1>3. day[d] \in DayRows
  BY DEF TypeOK
<1> QED BY <1>1, <1>2, <1>3 DEF DayRows

-----------------------------------------------------------------------------
(* The life of a receipt: a booking's rooms are held by its receipt or by  *)
(* its assignments and never by both, and a bundle is reserved once.       *)

ReceiptLife ==
    /\ \A r \in Receipts : assignment[r].status # "none" => receipt[r] = "handed_off"
    /\ \A r \in QuoteReceipts : receipt[r] # "none" => QuoteOf[r] \in bundles

(* A reserve of receipts that were never used, for distinct room types,    *)
(* with rooms left for each.                                               *)
FreshReserve(R) ==
    /\ RecordReserved(R)
    /\ \A r \in R : RoomsAvailable(r) /\ receipt[r] = "none"
    /\ \A r, s \in R : r # s => Stay[r].type # Stay[s].type

(* A valid single reserve is fresh: its key was unused.                    *)
LEMMA SingleFresh ==
    ASSUME KeyInv, NEW c \in Commands, NEW current \in ConfigurationAnswers,
           Reserve(c, current), ReserveValid(c, current)
    PROVE  FreshReserve({c})
<1>1. receipt[c] = "none"
  BY DEF KeyInv, Reserve, FindReserveReplay, KeyUsed
<1> QED BY <1>1 DEF Reserve, ReserveValid, FreshReserve

(* A bundle is fresh: it has no completed row.                             *)
LEMMA BundleFresh ==
    ASSUME ReceiptLife, NEW q \in Quotes, ReserveQuoteBundle(q)
    PROVE  FreshReserve(ReceiptsOf(q))
<1>1. \A r \in ReceiptsOf(q) : receipt[r] = "none" /\ r \in QuoteReceipts /\ QuoteOf[r] = q
  BY DEF ReceiptLife, ReserveQuoteBundle, ReceiptsOf
<1> QED BY <1>1, QuoteAssumption DEF ReserveQuoteBundle, LinesReservable, FreshReserve

(* What a command may do to the booking tables.                            *)
LEMMA BookingChange ==
    ASSUME Next
    PROVE  \/ UNCHANGED <<receipt, assignment, bundles>>
           \/ \E c \in Commands, current \in ConfigurationAnswers :
                 Reserve(c, current) /\ ReserveValid(c, current)
           \/ \E q \in Quotes : ReserveQuoteBundle(q)
           \/ \E r \in Receipts : Release(r)
           \/ \E q \in Quotes : AdoptAcceptedPricingReservation(q)
           \/ \E q \in Quotes : CancelHostBookingAssignments(q)
           \/ \E o \in Otas, s \in OtaStays : PersistChannexAssignment(o, s)
           \/ \E o \in Otas : CancelChannexAssignment(o)
BY DEF Next, ReadWatermarks, Reserve, RoomBlockCreate, RoomBlockUpdate,
       RoomBlockRelease, ApplyRoomBlockMutation, PutLinkedInventoryGroup,
       DeleteLinkedInventoryGroup

(* Every command keeps the life of receipts.                               *)
LEMMA LifeStep ==
    ASSUME TypeOK, KeyInv, ReceiptLife, Next
    PROVE  ReceiptLife'
<1> USE DEF ReceiptLife
<1>0. /\ Receipts \subseteq Holders /\ \A o \in Otas : o \notin Receipts
      /\ QuoteReceipts \subseteq Receipts /\ \A c \in Commands : c \notin QuoteReceipts
  BY HolderAssumption DEF Holders, Receipts
<1>1. CASE UNCHANGED <<receipt, assignment, bundles>>
  BY <1>1
<1>2. ASSUME NEW c \in Commands, NEW current \in ConfigurationAnswers,
             Reserve(c, current), ReserveValid(c, current)
      PROVE  ReceiptLife'
  <2>1. receipt[c] = "none"
    BY <1>2, SingleFresh DEF FreshReserve
  <2> QED BY <1>0, <1>2, <2>1 DEF Reserve, RecordReserved, PersistReceipts
<1>3. ASSUME NEW q \in Quotes, ReserveQuoteBundle(q) PROVE ReceiptLife'
  <2>1. \A r \in ReceiptsOf(q) : receipt[r] = "none"
    BY <1>3, BundleFresh DEF FreshReserve
  <2> QED BY <1>0, <1>3, <2>1 DEF ReserveQuoteBundle, RecordReserved, PersistReceipts, ReceiptsOf
<1>4. ASSUME NEW r \in Receipts, Release(r) PROVE ReceiptLife'
  BY <1>0, <1>4 DEF Release, ReleaseReserved, TypeOK
<1>5. ASSUME NEW q \in Quotes, AdoptAcceptedPricingReservation(q) PROVE ReceiptLife'
  BY <1>0, <1>5 DEF AdoptAcceptedPricingReservation, ReceiptsOf
<1>6. ASSUME NEW q \in Quotes, CancelHostBookingAssignments(q) PROVE ReceiptLife'
  BY <1>0, <1>6 DEF CancelHostBookingAssignments, ReceiptsOf, TypeOK, AssignmentRows
<1>7. ASSUME NEW o \in Otas, NEW s \in OtaStays, PersistChannexAssignment(o, s)
      PROVE  ReceiptLife'
  BY <1>0, <1>7 DEF PersistChannexAssignment, TypeOK
<1>8. ASSUME NEW o \in Otas, CancelChannexAssignment(o) PROVE ReceiptLife'
  BY <1>0, <1>8 DEF CancelChannexAssignment, TypeOK
<1> QED
  <2> HIDE DEF ReceiptLife
  <2> QED BY <1>1, <1>2, <1>3, <1>4, <1>5, <1>6, <1>7, <1>8, BookingChange

-----------------------------------------------------------------------------
(* What a command hands to the reconciler.                                 *)

(* The sellable count of every day follows from its other columns.         *)
AvailableOf(rows) ==
    \A d \in Days : rows[d].available =
        AvailableCount(d[1], rows[d].assigned, rows[d].blocked, rows[d].linkedStopSell)

(* The counts of pms.inventory_days are right.                             *)
CountsRight ==
    /\ AssignedIsDemand
    /\ RoomsSuffice
    /\ BlockedExact
    /\ AvailableOf(day)

(* mid counts the rooms held after the command, and they fit.              *)
Counted(mid) ==
    /\ \A d \in Days : mid[d].assigned = Cardinality(HeldUnits(d)')
    /\ AvailableOf(mid)
    /\ RoomsSuffice'

(* A command on bookings leaves blocked_count to the reconciler.           *)
BookingMid(mid) ==
    /\ Counted(mid)
    /\ UNCHANGED <<block, group>>
    /\ \A d \in Days : mid[d].blocked = day[d].blocked

(* A command on blocks or groups leaves the bookings, and counts the rows  *)
(* that it found or wrote itself.                                          *)
BlockMid(mid) ==
    /\ Counted(mid)
    /\ UNCHANGED <<receipt, assignment>>
    /\ \A d \in Days : mid[d].blocked =
          Lesser(Cardinality(BlockRows(block', derived, d)), Capacity[d[1]] - mid[d].assigned)

(* Where blocked_count is below the rooms left, it counts the manual rows. *)
LEMMA BlockedCountsManual ==
    ASSUME TypeOK, CountsRight, NEW d \in Days,
           day[d].assigned + day[d].blocked < Capacity[d[1]]
    PROVE  Cardinality(ManualBlocksOn(d)) <= day[d].blocked
<1> DEFINE n == Cardinality(BlockRows(block, derived, d))
<1>1. n \in Nat
  BY BlockRowCounts
<1>2. Cardinality(ManualBlocksOn(d)) <= n /\ Cardinality(ManualBlocksOn(d)) \in Nat
  BY ManualAmongRows
<1>3. day[d].blocked = Lesser(n, Capacity[d[1]] - day[d].assigned)
  BY DEF CountsRight, BlockedExact
<1> HIDE DEF n
<1>4. day[d].blocked = n
  BY <1>1, <1>3, DayNumbers DEF Lesser
<1> QED BY <1>2, <1>4

(* The bookings of a day that no command touches still fit.                *)
LEMMA SameHeldFits ==
    ASSUME CountsRight, UNCHANGED block, NEW d \in Days, HeldUnits(d)' = HeldUnits(d)
    PROVE  /\ day[d].assigned = Cardinality(HeldUnits(d)')
           /\ Cardinality(HeldUnits(d)') + Cardinality(ManualBlocksOn(d)') <= Capacity[d[1]]
<1>1. ManualBlocksOn(d)' = ManualBlocksOn(d)
  BY DEF ManualBlocksOn
<1> QED BY <1>1 DEF CountsRight, AssignedIsDemand, RoomsSuffice

(* The recount of a command on assignments, which touches the bookings of  *)
(* its spans only.                                                         *)
LEMMA RecountMid ==
    ASSUME TypeOK, CountsRight, NEW spans, OccupiedFits(spans),
           UNCHANGED <<block, group>>,
           \A d \in Days : (~\E s \in spans : Covers(s, d)) => HeldUnits(d)' = HeldUnits(d)
    PROVE  BookingMid(ReconcileOccupiedInventory(spans))
<1> DEFINE mid == ReconcileOccupiedInventory(spans)
<1>1. ASSUME NEW d \in Days
      PROVE  /\ mid[d].assigned = Cardinality(HeldUnits(d)')
             /\ mid[d].blocked = day[d].blocked
             /\ mid[d].available = AvailableCount(d[1], mid[d].assigned, mid[d].blocked,
                                                  mid[d].linkedStopSell)
  <2>1. CASE d \in Reassigned(spans)
    <3>1. mid[d] = WithAssigned(d, ExpectedAssigned(d)')
      BY <2>1 DEF ReconcileOccupiedInventory
    <3> QED BY <3>1 DEF WithAssigned, DayRow, ExpectedAssigned
  <2>2. CASE d \notin Reassigned(spans)
    <3>1. mid[d] = day[d]
      BY <2>2 DEF ReconcileOccupiedInventory
    <3>2. day[d].assigned = Cardinality(HeldUnits(d)')
      <4>1. CASE \E s \in spans : Covers(s, d)
        BY <2>2, <4>1 DEF Reassigned, ExpectedAssigned
      <4>2. CASE ~\E s \in spans : Covers(s, d)
        BY <4>2, SameHeldFits
      <4> QED BY <4>1, <4>2
    <3> QED BY <3>1, <3>2 DEF CountsRight, AvailableOf
  <2> QED BY <2>1, <2>2
<1>2. ASSUME NEW d \in Days
      PROVE  Cardinality(HeldUnits(d)') + Cardinality(ManualBlocksOn(d)') <= Capacity[d[1]]
  <2>1. CASE ~\E s \in spans : Covers(s, d)
    BY <2>1, SameHeldFits
  <2>2. CASE \E s \in spans : Covers(s, d)
    <3> DEFINE held == Cardinality(HeldUnits(d)')
               manual == Cardinality(ManualBlocksOn(d))
               before == Cardinality(HeldUnits(d))
    <3>1. PICK s \in spans : Covers(s, d)
      BY <2>2
    <3>2. d \in DaysOf(s)
      BY <3>1, DayNumbers DEF DaysOf, Covers
    <3>3. held + day[d].blocked <= Capacity[d[1]]
      BY <3>2 DEF OccupiedFits, ExpectedAssigned
    <3>4. ManualBlocksOn(d)' = ManualBlocksOn(d)
      BY DEF ManualBlocksOn
    <3>5. held \in Nat /\ manual \in Nat /\ before \in Nat
      BY HeldAfter, UnitCounts, ManualAmongRows
    <3>6. day[d].assigned = before /\ before + manual <= Capacity[d[1]]
      BY DEF CountsRight, AssignedIsDemand, RoomsSuffice
    <3>7. day[d].assigned + day[d].blocked < Capacity[d[1]] => manual <= day[d].blocked
      BY BlockedCountsManual
    <3> HIDE DEF held, manual, before
    <3>8. held + manual <= Capacity[d[1]]
      BY <3>3, <3>5, <3>6, <3>7, DayNumbers
    <3> QED BY <3>4, <3>8 DEF held, manual
  <2> QED BY <2>1, <2>2
<1> HIDE DEF mid
<1>3. Counted(mid) /\ \A d \in Days : mid[d].blocked = day[d].blocked
  BY <1>1, <1>2 DEF Counted, AvailableOf, RoomsSuffice
<1> QED BY <1>3 DEF BookingMid, mid

(* The rooms of a day change only with what its holders hold.              *)
LEMMA SameHolds ==
    ASSUME NEW d, \A h \in Holders : Holds(h, d)' <=> Holds(h, d)
    PROVE  HeldUnits(d)' = HeldUnits(d)
<1>1. \A u \in Units : u[1] \in Holders
  BY DEF Units
<1> QED BY <1>1 DEF HeldUnits

(* An adoption hands the rooms of its receipts to assignments.             *)
LEMMA AdoptMid ==
    ASSUME TypeOK, CountsRight, NEW q \in Quotes, AdoptAcceptedPricingReservation(q)
    PROVE  BookingMid(ReconcileOccupiedInventory({Stay[r] : r \in ReceiptsOf(q)}))
<1> DEFINE R == ReceiptsOf(q)
           spans == {Stay[r] : r \in R}
<1>0. R \subseteq Receipts /\ Receipts \subseteq Holders
  BY DEF ReceiptsOf, Receipts, Holders
<1>1. /\ OccupiedFits(spans) /\ UNCHANGED <<block, group>>
      /\ \A r \in R : receipt[r] = "reserved" /\ assignment[r].status = "none"
      /\ assignment' = [h \in Holders |->
            IF h \in R THEN [status |-> "active", stay |-> Stay[h]] ELSE assignment[h]]
      /\ receipt' = [r \in Receipts |-> IF r \in R THEN "handed_off" ELSE receipt[r]]
  BY DEF AdoptAcceptedPricingReservation
<1>2. ASSUME NEW d \in Days PROVE HeldUnits(d)' = HeldUnits(d)
  <2>1. \A h \in Holders : Holds(h, d)' <=> Holds(h, d)
    BY <1>0, <1>1 DEF Holds, Covers
  <2> QED BY <2>1, SameHolds
<1> QED BY <1>1, <1>2, RecountMid

(* A host cancellation frees the rooms of its live assignments.            *)
LEMMA CancelHostMid ==
    ASSUME TypeOK, CountsRight, NEW q \in Quotes, CancelHostBookingAssignments(q)
    PROVE  BookingMid(ReconcileOccupiedInventory(
               {assignment[r].stay : r \in {x \in ReceiptsOf(q) : assignment[x].status = "active"}}))
<1> DEFINE live == {x \in ReceiptsOf(q) : assignment[x].status = "active"}
           spans == {assignment[r].stay : r \in live}
<1>1. /\ OccupiedFits(spans) /\ UNCHANGED <<receipt, block, group>>
      /\ assignment' = [h \in Holders |->
            IF h \in live THEN [assignment[h] EXCEPT !.status = "canceled"] ELSE assignment[h]]
  BY DEF CancelHostBookingAssignments
<1>2. ASSUME NEW d \in Days, ~\E s \in spans : Covers(s, d) PROVE HeldUnits(d)' = HeldUnits(d)
  <2>1. \A h \in live : ~Covers(assignment[h].stay, d)
    BY <1>2
  <2>2. \A h \in Holders : Holds(h, d)' <=> Holds(h, d)
    <3> TAKE h \in Holders
    <3>1. assignment[h] \in AssignmentRows
      BY DEF TypeOK
    <3> QED BY <1>1, <2>1, <3>1 DEF Holds, AssignmentRows
  <2> QED BY <2>2, SameHolds
<1> QED BY <1>1, <1>2, RecountMid

(* An OTA revision moves a booking between the spans it names.             *)
LEMMA PersistChannexMid ==
    ASSUME TypeOK, CountsRight, NEW o \in Otas, NEW s \in OtaStays,
           PersistChannexAssignment(o, s)
    PROVE  BookingMid(ReconcileOccupiedInventory({s} \cup
               (IF assignment[o].status = "active" THEN {assignment[o].stay} ELSE {})))
<1> DEFINE prior == IF assignment[o].status = "active" THEN {assignment[o].stay} ELSE {}
           spans == {s} \cup prior
<1>1. /\ OccupiedFits(spans) /\ UNCHANGED <<receipt, block, group>>
      /\ assignment' = [assignment EXCEPT ![o] = [status |-> "active", stay |-> s]]
  BY DEF PersistChannexAssignment
<1>2. ASSUME NEW d \in Days, ~\E x \in spans : Covers(x, d) PROVE HeldUnits(d)' = HeldUnits(d)
  <2>1. ~Covers(s, d) /\ (assignment[o].status = "active" => ~Covers(assignment[o].stay, d))
    BY <1>2
  <2>2. \A h \in Holders : Holds(h, d)' <=> Holds(h, d)
    <3> TAKE h \in Holders
    <3>1. assignment'[h] = IF h = o THEN [status |-> "active", stay |-> s] ELSE assignment[h]
      BY <1>1 DEF TypeOK
    <3> QED BY <1>1, <2>1, <3>1 DEF Holds
  <2> QED BY <2>2, SameHolds
<1> QED BY <1>1, <1>2, RecountMid

(* So does the cancellation of an OTA booking.                             *)
LEMMA CancelChannexMid ==
    ASSUME TypeOK, CountsRight, NEW o \in Otas, CancelChannexAssignment(o)
    PROVE  BookingMid(ReconcileOccupiedInventory({assignment[o].stay}))
<1> DEFINE spans == {assignment[o].stay}
<1>1. /\ OccupiedFits(spans) /\ UNCHANGED <<receipt, block, group>>
      /\ assignment' = [assignment EXCEPT ![o].status = "canceled"]
  BY DEF CancelChannexAssignment
<1>2. ASSUME NEW d \in Days, ~\E x \in spans : Covers(x, d) PROVE HeldUnits(d)' = HeldUnits(d)
  <2>1. ~Covers(assignment[o].stay, d)
    BY <1>2
  <2>2. \A h \in Holders : Holds(h, d)' <=> Holds(h, d)
    <3> TAKE h \in Holders
    <3>1. assignment[h] \in AssignmentRows
      BY DEF TypeOK
    <3>2. h # o => assignment'[h] = assignment[h]
      BY <1>1 DEF TypeOK
    <3>3. h = o => assignment'[h].status # "active"
      BY <1>1, <3>1 DEF TypeOK, AssignmentRows
    <3>4. CASE h # o
      BY <1>1, <3>2, <3>4 DEF Holds
    <3>5. CASE h = o
      BY <1>1, <2>1, <3>3, <3>5 DEF Holds
    <3> QED BY <3>4, <3>5
  <2> QED BY <2>2, SameHolds
<1> QED BY <1>1, <1>2, RecountMid

(* A fresh reserve adds the rooms of its receipts, and they were free.     *)
LEMMA ReserveMid ==
    ASSUME TypeOK, ReceiptLife, CountsRight, NEW R \in SUBSET Receipts, FreshReserve(R)
    PROVE  BookingMid(ApplyBookingDelta(R, 1))
<1> DEFINE mid == ApplyBookingDelta(R, 1)
<1>0. Receipts \subseteq Holders
  BY DEF Holders
<1>1. /\ UNCHANGED <<assignment, block, group>>
      /\ receipt' = [r \in Receipts |-> IF r \in R THEN "reserved" ELSE receipt[r]]
      /\ \A r \in R : receipt[r] = "none" /\ assignment[r].status = "none"
  BY DEF FreshReserve, RecordReserved, PersistReceipts, ReceiptLife
<1>2. ASSUME NEW d \in Days
      PROVE  /\ HeldUnits(d)' = HeldUnits(d) \cup UnitsOf(R, d)
             /\ HeldUnits(d) \cap UnitsOf(R, d) = {}
  <2>1. \A u \in Units : u[1] \in Holders
    BY DEF Units
  <2>2. \A h \in Holders : Holds(h, d)' <=> Holds(h, d) \/ (h \in R /\ Covers(Stay[h], d))
    BY <1>0, <1>1 DEF Holds
  <2>3. \A h \in R : ~Holds(h, d)
    BY <1>1 DEF Holds
  <2> QED BY <2>1, <2>2, <2>3 DEF HeldUnits, UnitsOf
<1>3. ASSUME NEW d \in Days
      PROVE  Cardinality(HeldUnits(d)') = day[d].assigned + Cardinality(UnitsOf(R, d))
  <2>1. Cardinality(HeldUnits(d) \cup UnitsOf(R, d))
           = Cardinality(HeldUnits(d)) + Cardinality(UnitsOf(R, d))
    BY <1>2, UnitCounts, DisjointCount
  <2>2. day[d].assigned = Cardinality(HeldUnits(d))
    BY DEF CountsRight, AssignedIsDemand
  <2> QED BY <1>2, <2>1, <2>2
<1>4. ASSUME NEW d \in Days, d \notin DaysOfAll(R) PROVE HeldUnits(d)' = HeldUnits(d)
  BY <1>2, <1>4 DEF UnitsOf, DaysOfAll
<1>5. ASSUME NEW d \in Days
      PROVE  /\ mid[d].assigned = Cardinality(HeldUnits(d)')
             /\ mid[d].blocked = day[d].blocked
             /\ mid[d].available = AvailableCount(d[1], mid[d].assigned, mid[d].blocked,
                                                  mid[d].linkedStopSell)
  <2>1. CASE d \in DaysOfAll(R)
    <3> DEFINE n == Cardinality(UnitsOf(R, d))
    <3>1. mid[d] = WithAssigned(d, day[d].assigned + 1 * n)
      BY <2>1 DEF ApplyBookingDelta
    <3>2. n \in Nat /\ day[d].assigned \in Nat
      BY UnitCounts, DayNumbers
    <3>3. Cardinality(HeldUnits(d)') = day[d].assigned + n
      BY <1>3
    <3> HIDE DEF n
    <3>4. day[d].assigned + 1 * n = day[d].assigned + n
      BY <3>2
    <3>5. mid[d] = WithAssigned(d, Cardinality(HeldUnits(d)'))
      BY <3>1, <3>3, <3>4
    <3> QED BY <3>5 DEF WithAssigned, DayRow
  <2>2. CASE d \notin DaysOfAll(R)
    <3>1. mid[d] = day[d]
      BY <2>2 DEF ApplyBookingDelta
    <3>2. day[d].assigned = Cardinality(HeldUnits(d)')
      BY <1>1, <1>4, <2>2, SameHeldFits
    <3> QED BY <3>1, <3>2 DEF CountsRight, AvailableOf
  <2> QED BY <2>1, <2>2
<1>6. ASSUME NEW d \in Days
      PROVE  Cardinality(HeldUnits(d)') + Cardinality(ManualBlocksOn(d)') <= Capacity[d[1]]
  <2>1. CASE d \notin DaysOfAll(R)
    BY <1>1, <1>4, <2>1, SameHeldFits
  <2>2. CASE d \in DaysOfAll(R)
    <3> DEFINE manual == Cardinality(ManualBlocksOn(d))
    <3>1. PICK r \in R : Covers(Stay[r], d)
      BY <2>2 DEF DaysOfAll
    <3>2. UnitsOf(R, d) = UnitsOf({r}, d)
      BY <3>1 DEF UnitsOf, Covers, FreshReserve
    <3>3. Cardinality(UnitsOf(R, d)) = RoomCount[r]
      BY <3>1, <3>2, ReceiptUnits
    <3>4. d \in DaysOf(Stay[r])
      BY <3>1, DayNumbers DEF DaysOf, Covers
    <3>5. day[d].assigned + day[d].blocked + RoomCount[r] <= Capacity[d[1]]
      BY <3>4 DEF FreshReserve, RoomsAvailable
    <3>6. RoomCount[r] \in Nat /\ RoomCount[r] >= 1
      BY HolderAssumption
    <3>7. manual <= day[d].blocked
      BY <3>5, <3>6, BlockedCountsManual, DayNumbers
    <3>8. manual \in Nat
      BY ManualAmongRows
    <3>9. ManualBlocksOn(d)' = ManualBlocksOn(d)
      BY <1>1 DEF ManualBlocksOn
    <3>10. Cardinality(HeldUnits(d)') = day[d].assigned + RoomCount[r]
      BY <1>3, <3>3
    <3> HIDE DEF manual
    <3>11. day[d].assigned + RoomCount[r] + manual <= Capacity[d[1]]
      BY <3>5, <3>6, <3>7, <3>8, DayNumbers
    <3> QED BY <3>9, <3>10, <3>11 DEF manual
  <2> QED BY <2>1, <2>2
<1> HIDE DEF mid
<1>7. Counted(mid) /\ \A d \in Days : mid[d].blocked = day[d].blocked
  BY <1>5, <1>6 DEF Counted, AvailableOf, RoomsSuffice
<1> QED BY <1>1, <1>7 DEF BookingMid, mid

(* A release takes back exactly the rooms of its receipt.                  *)
LEMMA ReleaseMid ==
    ASSUME TypeOK, ReceiptLife, CountsRight, NEW r \in Receipts, receipt[r] = "reserved",
           ReleaseReserved(r)
    PROVE  BookingMid(ApplyBookingDelta({r}, -1))
<1> DEFINE mid == ApplyBookingDelta({r}, -1)
<1>0. Receipts \subseteq Holders
  BY DEF Holders
<1>1. /\ UNCHANGED <<assignment, block, group>>
      /\ receipt' = [receipt EXCEPT ![r] = "released"]
      /\ assignment[r].status # "active"
  BY DEF ReleaseReserved, ReceiptLife
<1>2. ASSUME NEW d \in Days
      PROVE  /\ HeldUnits(d)' = HeldUnits(d) \ UnitsOf({r}, d)
             /\ UnitsOf({r}, d) \subseteq HeldUnits(d)
  <2>1. \A u \in Units : u[1] \in Holders
    BY DEF Units
  <2>2. \A h \in Holders : Holds(h, d)' <=> Holds(h, d) /\ ~(h = r /\ Covers(Stay[h], d))
    <3> TAKE h \in Holders
    <3>1. CASE h = r
      BY <1>1, <3>1 DEF Holds, TypeOK
    <3>2. CASE h # r
      BY <1>1, <3>2 DEF Holds, TypeOK
    <3> QED BY <3>1, <3>2
  <2>3. Covers(Stay[r], d) => Holds(r, d)
    BY DEF Holds
  <2> QED BY <2>1, <2>2, <2>3 DEF HeldUnits, UnitsOf
<1>3. ASSUME NEW d \in Days
      PROVE  Cardinality(HeldUnits(d)') = day[d].assigned - Cardinality(UnitsOf({r}, d))
  <2>1. Cardinality(HeldUnits(d) \ UnitsOf({r}, d))
           = Cardinality(HeldUnits(d)) - Cardinality(UnitsOf({r}, d))
    BY <1>2, UnitCounts, RemovedCount
  <2>2. day[d].assigned = Cardinality(HeldUnits(d))
    BY DEF CountsRight, AssignedIsDemand
  <2> QED BY <1>2, <2>1, <2>2
<1>4. ASSUME NEW d \in Days
      PROVE  /\ mid[d].assigned = Cardinality(HeldUnits(d)')
             /\ mid[d].blocked = day[d].blocked
             /\ mid[d].available = AvailableCount(d[1], mid[d].assigned, mid[d].blocked,
                                                  mid[d].linkedStopSell)
  <2>1. CASE d \in DaysOfAll({r})
    <3> DEFINE n == Cardinality(UnitsOf({r}, d))
    <3>1. mid[d] = WithAssigned(d, day[d].assigned + (-1) * n)
      BY <2>1 DEF ApplyBookingDelta
    <3>2. n \in Nat /\ day[d].assigned \in Nat
      BY UnitCounts, DayNumbers
    <3>3. Cardinality(HeldUnits(d)') = day[d].assigned - n
      BY <1>3
    <3> HIDE DEF n
    <3>4. day[d].assigned + (-1) * n = day[d].assigned - n
      BY <3>2
    <3>5. mid[d] = WithAssigned(d, Cardinality(HeldUnits(d)'))
      BY <3>1, <3>3, <3>4
    <3> QED BY <3>5 DEF WithAssigned, DayRow
  <2>2. CASE d \notin DaysOfAll({r})
    <3>1. mid[d] = day[d]
      BY <2>2 DEF ApplyBookingDelta
    <3>2. HeldUnits(d)' = HeldUnits(d)
      BY <1>2, <2>2 DEF UnitsOf, DaysOfAll
    <3>3. day[d].assigned = Cardinality(HeldUnits(d)')
      BY <1>1, <3>2, SameHeldFits
    <3> QED BY <3>1, <3>3 DEF CountsRight, AvailableOf
  <2> QED BY <2>1, <2>2
<1>5. ASSUME NEW d \in Days
      PROVE  Cardinality(HeldUnits(d)') + Cardinality(ManualBlocksOn(d)') <= Capacity[d[1]]
  <2> DEFINE before == Cardinality(HeldUnits(d))
             held == Cardinality(HeldUnits(d)')
             manual == Cardinality(ManualBlocksOn(d))
  <2>1. held <= before
    <3>1. HeldUnits(d)' \subseteq HeldUnits(d)
      BY <1>2
    <3> QED BY <3>1, UnitCounts, FS_Subset
  <2>2. before + manual <= Capacity[d[1]]
    BY DEF CountsRight, RoomsSuffice
  <2>3. ManualBlocksOn(d)' = ManualBlocksOn(d)
    BY <1>1 DEF ManualBlocksOn
  <2>4. held \in Nat /\ before \in Nat /\ manual \in Nat
    BY HeldAfter, UnitCounts, ManualAmongRows
  <2> HIDE DEF before, held, manual
  <2>5. held + manual <= Capacity[d[1]]
    BY <2>1, <2>2, <2>4, DayNumbers
  <2> QED BY <2>3, <2>5 DEF held, manual
<1> HIDE DEF mid
<1>6. Counted(mid) /\ \A d \in Days : mid[d].blocked = day[d].blocked
  BY <1>4, <1>5 DEF Counted, AvailableOf, RoomsSuffice
<1> QED BY <1>1, <1>6 DEF BookingMid, mid

(* A change of one block recounts the rows of its type on the nights it    *)
(* affects; the table's CHECK makes the recount fit.                       *)
LEMMA BlockMutationMid ==
    ASSUME TypeOK, CountsRight, NEW b \in Blocks, NEW affected \in SUBSET Nights,
           NEW row \in [status: BlockStates, stay: Stays], row.stay.type = BlockType[b],
           block[b].status = "active" => block[b].stay.nights \subseteq affected,
           row.status = "active" => row.stay.nights \subseteq affected,
           ApplyRoomBlockMutation(b, row, affected)
    PROVE  BlockMid(ReconcileRoomBlockInventory({BlockType[b]} \X affected))
<1> DEFINE days == {BlockType[b]} \X affected
           mid == ReconcileRoomBlockInventory(days)
<1>1. /\ block' = [block EXCEPT ![b] = row]
      /\ UNCHANGED <<receipt, assignment, group>>
      /\ CapacityCheckHolds(mid)
  BY DEF ApplyRoomBlockMutation
<1>2. ASSUME NEW d \in Days
      PROVE  /\ HeldUnits(d)' = HeldUnits(d)
             /\ day[d].assigned = Cardinality(HeldUnits(d)')
  <2>1. \A h \in Holders : Holds(h, d)' <=> Holds(h, d)
    BY <1>1 DEF Holds
  <2>2. HeldUnits(d)' = HeldUnits(d)
    BY <2>1, SameHolds
  <2> QED BY <2>2 DEF CountsRight, AssignedIsDemand
<1>3. ASSUME NEW d \in Days, d \notin days
      PROVE  /\ BlockRows(block', derived, d) = BlockRows(block, derived, d)
             /\ ManualBlocksOn(d)' = ManualBlocksOn(d)
  <2>1. \A x \in Blocks : /\ block'[x].status = "active" /\ Covers(block'[x].stay, d)
                           <=> /\ block[x].status = "active" /\ Covers(block[x].stay, d)
    <3> TAKE x \in Blocks
    <3>1. CASE x = b
      <4>1. block'[x] = row /\ block[x].stay.type = BlockType[b]
        BY <1>1, <3>1 DEF TypeOK
      <4>2. ~(d[1] = BlockType[b] /\ d[2] \in affected)
        BY <1>3, DayNumbers
      <4> QED BY <3>1, <4>1, <4>2 DEF Covers
    <3>2. CASE x # b
      BY <1>1, <3>2 DEF TypeOK
    <3> QED BY <3>1, <3>2
  <2>2. \A c \in Causes : c[1] = "manual" => Source(c) \in Blocks
    BY CauseKinds
  <2> QED BY <2>1, <2>2 DEF BlockRows, ManualBlocksOn
<1>4. ASSUME NEW d \in Days
      PROVE  /\ mid[d].assigned = Cardinality(HeldUnits(d)')
             /\ mid[d].available = AvailableCount(d[1], mid[d].assigned, mid[d].blocked,
                                                  mid[d].linkedStopSell)
             /\ mid[d].blocked = Lesser(Cardinality(BlockRows(block', derived, d)),
                                        Capacity[d[1]] - mid[d].assigned)
             /\ Cardinality(HeldUnits(d)') + Cardinality(ManualBlocksOn(d)') <= Capacity[d[1]]
  <2> DEFINE rows == Cardinality(BlockRows(block', derived, d))
             manual == Cardinality(ManualBlocksOn(d)')
  <2>0. rows \in Nat /\ manual \in Nat /\ manual <= rows
    BY BlockRowCounts, ManualAmongRowsAfter
  <2>1. CASE d \in days
    <3>1. mid[d].blocked = rows /\ mid[d].assigned = day[d].assigned
      BY <2>1 DEF ReconcileRoomBlockInventory, RecountedBlocks, DayRow
    <3>2. mid[d].available = AvailableCount(d[1], mid[d].assigned, mid[d].blocked,
                                            mid[d].linkedStopSell)
      <4>1. CASE d \in RecountedBlocks(days)
        BY <4>1 DEF ReconcileRoomBlockInventory, DayRow
      <4>2. CASE d \notin RecountedBlocks(days)
        BY <4>2 DEF ReconcileRoomBlockInventory, CountsRight, AvailableOf
      <4> QED BY <4>1, <4>2
    <3>3. day[d].assigned + rows <= Capacity[d[1]]
      BY <1>1, <3>1 DEF CapacityCheckHolds
    <3> HIDE DEF rows, manual, mid
    <3>4. rows = Lesser(rows, Capacity[d[1]] - day[d].assigned)
          /\ day[d].assigned + manual <= Capacity[d[1]]
      BY <2>0, <3>3, DayNumbers DEF Lesser
    <3> QED BY <1>2, <3>1, <3>2, <3>4 DEF rows, manual
  <2>2. CASE d \notin days
    <3>1. mid[d] = day[d]
      BY <2>2 DEF ReconcileRoomBlockInventory, RecountedBlocks
    <3>2. /\ day[d].available = AvailableCount(d[1], day[d].assigned, day[d].blocked,
                                               day[d].linkedStopSell)
          /\ day[d].blocked = Lesser(rows, Capacity[d[1]] - day[d].assigned)
          /\ Cardinality(HeldUnits(d)) + manual <= Capacity[d[1]]
      BY <1>3, <2>2 DEF CountsRight, AvailableOf, BlockedExact, RoomsSuffice
    <3> QED BY <1>2, <3>1, <3>2
  <2> QED BY <2>1, <2>2
<1> HIDE DEF mid
<1>5. Counted(mid)
  BY <1>4 DEF Counted, AvailableOf, RoomsSuffice
<1> QED BY <1>1, <1>4, <1>5 DEF BlockMid, mid

(* A group change leaves the counts to the reconciler.                     *)
LEMMA GroupMid ==
    ASSUME CountsRight, UNCHANGED <<receipt, assignment, block>>
    PROVE  BlockMid(day)
<1>1. ASSUME NEW d \in Days
      PROVE  /\ HeldUnits(d)' = HeldUnits(d)
             /\ ManualBlocksOn(d)' = ManualBlocksOn(d)
             /\ BlockRows(block', derived, d) = BlockRows(block, derived, d)
  <2>1. \A h \in Holders : Holds(h, d)' <=> Holds(h, d)
    BY DEF Holds
  <2> QED BY <2>1, SameHolds DEF ManualBlocksOn, BlockRows
<1> QED BY <1>1 DEF CountsRight, BlockMid, Counted, AssignedIsDemand, RoomsSuffice,
                    BlockedExact

(* Creating and updating a block recount the old and the new nights.       *)
LEMMA RoomBlockMid ==
    ASSUME TypeOK, CountsRight, NEW b \in Blocks, NEW nights \in Spans,
           RoomBlockCreate(b, nights) \/ RoomBlockUpdate(b, nights)
    PROVE  \E mid : BlockMid(mid) /\ \E revised, requested :
               ReconcileLinkedInventory(mid, revised, requested)
<1> DEFINE row == RoomBlockRow(b, nights)
           old == block[b].stay.nights
<1>1. nights \in SUBSET Nights
  BY DEF Spans
<1>2. row \in [status: BlockStates, stay: Stays] /\ row.stay.type = BlockType[b]
      /\ row.stay.nights = nights
  BY <1>1, BlockAssumption DEF RoomBlockRow, BlockStates, Stays
<1>3. CASE RoomBlockCreate(b, nights)
  <2>1. block[b].status # "active" /\ ApplyRoomBlockMutation(b, row, nights)
    BY <1>3 DEF RoomBlockCreate, RoomBlockCommandIsNew
  <2>2. BlockMid(ReconcileRoomBlockInventory({BlockType[b]} \X nights))
    BY <1>1, <1>2, <2>1, BlockMutationMid
  <2> QED BY <2>1, <2>2 DEF ApplyRoomBlockMutation
<1>4. CASE RoomBlockUpdate(b, nights)
  <2> DEFINE affected == Hull(old \cup nights)
  <2>1. ApplyRoomBlockMutation(b, row, affected)
    BY <1>4 DEF RoomBlockUpdate
  <2>2. old \in SUBSET Nights
    BY DEF TypeOK, Stays
  <2>3. affected \in SUBSET Nights /\ old \subseteq affected /\ nights \subseteq affected
    <3>1. \A n \in Nights : n <= n
      BY RoomAssumption
    <3> QED BY <1>1, <2>2, <3>1 DEF Hull
  <2> HIDE DEF affected
  <2>4. BlockMid(ReconcileRoomBlockInventory({BlockType[b]} \X affected))
    BY <1>2, <2>1, <2>3, BlockMutationMid
  <2> QED BY <2>1, <2>4 DEF ApplyRoomBlockMutation
<1> QED BY <1>3, <1>4

(* So does releasing one.                                                  *)
LEMMA ReleaseBlockMid ==
    ASSUME TypeOK, CountsRight, NEW b \in Blocks, RoomBlockRelease(b)
    PROVE  \E mid : BlockMid(mid) /\ \E revised, requested :
               ReconcileLinkedInventory(mid, revised, requested)
<1> DEFINE row == [block[b] EXCEPT !.status = "released"]
           old == block[b].stay.nights
<1>1. row \in [status: BlockStates, stay: Stays] /\ row.stay.type = BlockType[b]
      /\ row.status # "active"
  BY DEF TypeOK, BlockStates
<1>2. old \in SUBSET Nights
  BY DEF TypeOK, Stays
<1>3. ApplyRoomBlockMutation(b, row, old)
  BY DEF RoomBlockRelease
<1> HIDE DEF row
<1>4. BlockMid(ReconcileRoomBlockInventory({BlockType[b]} \X old))
  BY <1>1, <1>2, <1>3, BlockMutationMid
<1> QED BY <1>3, <1>4 DEF ApplyRoomBlockMutation

(* Every command leaves the inventory alone, or counts and reconciles.     *)
Recounts ==
    \E mid : /\ BookingMid(mid) \/ BlockMid(mid)
             /\ \E revised, requested : ReconcileLinkedInventory(mid, revised, requested)

(* The counting steps of the commands on bookings.                         *)
LEMMA BookingRecounts ==
    ASSUME TypeOK, KeyInv, ReceiptLife, CountsRight
    PROVE  /\ \A c \in Commands, current \in ConfigurationAnswers :
                 Reserve(c, current) /\ ReserveValid(c, current) => Recounts
           /\ \A q \in Quotes : ReserveQuoteBundle(q) => Recounts
           /\ \A r \in Receipts : Release(r) => Recounts \/ Quiet
           /\ \A q \in Quotes : AdoptAcceptedPricingReservation(q) => Recounts
           /\ \A q \in Quotes : CancelHostBookingAssignments(q) => Recounts
           /\ \A o \in Otas, s \in OtaStays : PersistChannexAssignment(o, s) => Recounts
           /\ \A o \in Otas : CancelChannexAssignment(o) => Recounts
<1>1. ASSUME NEW c \in Commands, NEW current \in ConfigurationAnswers,
             Reserve(c, current), ReserveValid(c, current)
      PROVE  Recounts
  <2>1. FreshReserve({c})
    BY <1>1, SingleFresh
  <2>2. BookingMid(ApplyBookingDelta({c}, 1))
    BY <2>1, ReserveMid DEF Receipts
  <2> QED BY <2>1, <2>2 DEF FreshReserve, RecordReserved, Recounts
<1>2. ASSUME NEW q \in Quotes, ReserveQuoteBundle(q) PROVE Recounts
  <2>1. FreshReserve(ReceiptsOf(q))
    BY <1>2, BundleFresh
  <2>2. BookingMid(ApplyBookingDelta(ReceiptsOf(q), 1))
    BY <2>1, ReserveMid DEF Receipts, ReceiptsOf
  <2> QED BY <2>1, <2>2 DEF FreshReserve, RecordReserved, Recounts
<1>3. ASSUME NEW r \in Receipts, Release(r) PROVE Recounts \/ Quiet
  <2>1. CASE receipt[r] = "reserved" /\ ReleaseDaysValid(r)
    <3>1. ReleaseReserved(r)
      BY <1>3, <2>1 DEF Release
    <3>2. BookingMid(ApplyBookingDelta({r}, -1))
      BY <2>1, <3>1, ReleaseMid
    <3> QED BY <3>1, <3>2 DEF ReleaseReserved, Recounts
  <2>2. CASE ~(receipt[r] = "reserved" /\ ReleaseDaysValid(r))
    BY <1>3, <2>2 DEF Release, Quiet, TypeOK, WatermarkRows
  <2> QED BY <2>1, <2>2
<1>4. ASSUME NEW q \in Quotes, AdoptAcceptedPricingReservation(q) PROVE Recounts
  BY <1>4, AdoptMid DEF AdoptAcceptedPricingReservation, Recounts
<1>5. ASSUME NEW q \in Quotes, CancelHostBookingAssignments(q) PROVE Recounts
  BY <1>5, CancelHostMid DEF CancelHostBookingAssignments, Recounts
<1>6. ASSUME NEW o \in Otas, NEW s \in OtaStays, PersistChannexAssignment(o, s) PROVE Recounts
  BY <1>6, PersistChannexMid DEF PersistChannexAssignment, Recounts
<1>7. ASSUME NEW o \in Otas, CancelChannexAssignment(o) PROVE Recounts
  BY <1>7, CancelChannexMid DEF CancelChannexAssignment, Recounts
<1> QED BY <1>1, <1>2, <1>3, <1>4, <1>5, <1>6, <1>7

(* Every command is quiet or a counting step.                              *)
LEMMA NextRecounts ==
    ASSUME TypeOK, KeyInv, ReceiptLife, CountsRight, Next
    PROVE  Quiet \/ Recounts
<1>1. ASSUME NEW c \in Commands, ReadWatermarks(c) PROVE Quiet
  <2>1. Stay[c].nights \in SUBSET Nights
    BY HolderAssumption DEF Receipts, Stays
  <2> QED BY <1>1, <2>1 DEF ReadWatermarks, Quiet, TypeOK, WatermarkRows
<1>2. ASSUME NEW c \in Commands, NEW current \in ConfigurationAnswers, Reserve(c, current)
      PROVE  Quiet \/ Recounts
  <2>1. CASE ReserveValid(c, current)
    BY <1>2, <2>1, BookingRecounts
  <2>2. CASE ~ReserveValid(c, current)
    BY <1>2, <2>2 DEF Reserve, Quiet, TypeOK, WatermarkRows
  <2> QED BY <2>1, <2>2
<1>3. ASSUME NEW g \in Groups, NEW members \in SUBSET RoomTypes,
             PutLinkedInventoryGroup(g, members) \/ DeleteLinkedInventoryGroup(g)
      PROVE  Recounts
  BY <1>3, GroupMid DEF PutLinkedInventoryGroup, DeleteLinkedInventoryGroup, Recounts
<1>4. ASSUME NEW b \in Blocks, NEW nights \in Spans,
             RoomBlockCreate(b, nights) \/ RoomBlockUpdate(b, nights)
      PROVE  Recounts
  BY <1>4, RoomBlockMid DEF Recounts
<1>5. ASSUME NEW b \in Blocks, RoomBlockRelease(b) PROVE Recounts
  BY <1>5, ReleaseBlockMid DEF Recounts
<1> QED BY <1>1, <1>2, <1>3, <1>4, <1>5, BookingRecounts DEF Next

-----------------------------------------------------------------------------
(* What the reconciler leaves on the days it does not recompute.           *)

(* A derived row of a day that is not dirty is the one it was.             *)
LEMMA CleanRows ==
    ASSUME NEW requested, NEW d \in Days, d \notin Dirty(requested), NEW manual
    PROVE  BlockRows(manual, derived', d) = BlockRows(manual, derived, d)
<1>0. d[1] \in RoomTypes
  BY DEF Days
<1>1. ASSUME NEW c \in Causes,
             \/ d[2] \in derived[<<c, d[1]>>].stay.nights
             \/ d[2] \in derived'[<<c, d[1]>>].stay.nights
      PROVE  derived'[<<c, d[1]>>] = derived[<<c, d[1]>>]
  BY <1>0, <1>1 DEF Dirty, Reaches
<1> QED BY <1>1 DEF BlockRows

(* A booking that holds a day of a linked type is a cause with a derived   *)
(* row for a sibling, so on a day that is not dirty it did not change.     *)
LEMMA HoldsIsCause ==
    ASSUME NEW u \in Units, NEW d, Holds(u[1], d)
    PROVE  \E c \in Causes : /\ CauseIsActive(c) /\ Covers(CauseStay(c), d)
                             /\ c[1] \in {"receipt", "assignment"} /\ Source(c) = u[1]
<1>1. CASE u[1] \in Receipts /\ receipt[u[1]] = "reserved" /\ Covers(Stay[u[1]], d)
  <2> DEFINE c == <<"receipt", <<u[1], 1>>>>
  <2>1. c \in Causes /\ c[1] = "receipt" /\ Source(c) = u[1]
    BY <1>1 DEF Causes, Source
  <2> QED BY <1>1, <2>1 DEF CauseIsActive, CauseStay
<1>2. CASE assignment[u[1]].status = "active" /\ Covers(assignment[u[1]].stay, d)
  <2> DEFINE c == <<"assignment", u>>
  <2>1. c \in Causes /\ c[1] = "assignment" /\ Source(c) = u[1]
    BY DEF Causes, Source
  <2> QED BY <1>2, <2>1 DEF CauseIsActive, CauseStay
<1> QED BY <1>1, <1>2 DEF Holds

(* The same after a step.                                                  *)
LEMMA HoldsIsCauseAfter ==
    ASSUME NEW u \in Units, NEW d, Holds(u[1], d)'
    PROVE  \E c \in Causes : /\ CauseIsActive(c)' /\ Covers(CauseStay(c)', d)
                             /\ c[1] \in {"receipt", "assignment"} /\ Source(c) = u[1]
<1>1. CASE u[1] \in Receipts /\ receipt'[u[1]] = "reserved" /\ Covers(Stay[u[1]], d)
  <2> DEFINE c == <<"receipt", <<u[1], 1>>>>
  <2>1. c \in Causes /\ c[1] = "receipt" /\ Source(c) = u[1]
    BY <1>1 DEF Causes, Source
  <2> QED BY <1>1, <2>1 DEF CauseIsActive, CauseStay
<1>2. CASE assignment'[u[1]].status = "active" /\ Covers(assignment'[u[1]].stay, d)
  <2> DEFINE c == <<"assignment", u>>
  <2>1. c \in Causes /\ c[1] = "assignment" /\ Source(c) = u[1]
    BY DEF Causes, Source
  <2> QED BY <1>2, <2>1 DEF CauseIsActive, CauseStay
<1> QED BY <1>1, <1>2 DEF Holds

(* A live booking cause that covers a day makes its source hold the day.   *)
LEMMA CauseHolds ==
    ASSUME NEW c \in Causes, c[1] \in {"receipt", "assignment"}, NEW d
    PROVE  /\ CauseIsActive(c) /\ Covers(CauseStay(c), d) => Holds(Source(c), d)
           /\ CauseIsActive(c)' /\ Covers(CauseStay(c)', d) => Holds(Source(c), d)'
<1>1. CASE c[1] = "receipt"
  BY <1>1, CauseKinds DEF CauseIsActive, CauseStay, Holds
<1>2. CASE c[1] = "assignment"
  BY <1>2, CauseKinds DEF CauseIsActive, CauseStay, Holds
<1> QED BY <1>1, <1>2

(* On a day of a linked type that is not dirty the rooms held are the      *)
(* same.                                                                   *)
LEMMA CleanHeld ==
    ASSUME TypeOK, GroupsNotSingle, DerivedExact, DerivedExact', UNCHANGED group,
           NEW requested, NEW d \in Days, d \notin Dirty(requested),
           group[d[1]] # NoGroup
    PROVE  HeldUnits(d)' = HeldUnits(d)
<1>0. d[1] \in RoomTypes /\ d[2] \in Nights
  BY DEF Days
<1>1. PICK v \in RoomTypes : v # d[1] /\ group[v] = group[d[1]]
  BY <1>0 DEF GroupsNotSingle
<1>2. ASSUME NEW c \in Causes,
             NEW s \in {derived[<<c, v>>].stay, derived'[<<c, v>>].stay}, Covers(s, d)
      PROVE  derived'[<<c, v>>] = derived[<<c, v>>]
  BY <1>0, <1>2 DEF Dirty, Reaches, Covers
<1>3. ASSUME NEW u \in Units, Holds(u[1], d) PROVE Holds(u[1], d)'
  <2>1. PICK c \in Causes : /\ CauseIsActive(c) /\ Covers(CauseStay(c), d)
                            /\ c[1] \in {"receipt", "assignment"} /\ Source(c) = u[1]
    BY <1>3, HoldsIsCause
  <2>2. Wanted(c, v)
    BY <1>1, <2>1 DEF Wanted, Covers, Linked, LinkedIn
  <2>3. derived[<<c, v>>].status = "active" /\ derived[<<c, v>>].stay = CauseStay(c)
    BY <2>2 DEF DerivedExact
  <2>4. derived'[<<c, v>>] = derived[<<c, v>>]
    BY <1>2, <2>1, <2>3
  <2>5. Wanted(c, v)' /\ CauseStay(c)' = CauseStay(c)
    BY <2>3, <2>4 DEF DerivedExact
  <2>6. CauseIsActive(c)' /\ Covers(CauseStay(c)', d)
    BY <2>1, <2>5 DEF Wanted
  <2> QED BY <2>1, <2>6, CauseHolds
<1>4. ASSUME NEW u \in Units, Holds(u[1], d)' PROVE Holds(u[1], d)
  <2>1. PICK c \in Causes : /\ CauseIsActive(c)' /\ Covers(CauseStay(c)', d)
                            /\ c[1] \in {"receipt", "assignment"} /\ Source(c) = u[1]
    BY <1>4, HoldsIsCauseAfter
  <2>2. Wanted(c, v)'
    BY <1>1, <2>1 DEF Wanted, Covers, Linked, LinkedIn
  <2>3. derived'[<<c, v>>].status = "active" /\ derived'[<<c, v>>].stay = CauseStay(c)'
    BY <2>2 DEF DerivedExact
  <2>4. derived'[<<c, v>>] = derived[<<c, v>>]
    BY <1>2, <2>1, <2>3
  <2>5. Wanted(c, v) /\ CauseStay(c)' = CauseStay(c)
    BY <2>3, <2>4 DEF DerivedExact
  <2>6. CauseIsActive(c) /\ Covers(CauseStay(c), d)
    BY <2>1, <2>5 DEF Wanted
  <2> QED BY <2>1, <2>6, CauseHolds
<1> QED BY <1>3, <1>4 DEF HeldUnits

(* A type without a group has no derived rows, so only manual ones.        *)
LEMMA UnlinkedRows ==
    ASSUME DerivedExact, NEW d \in Days, group[d[1]] = NoGroup
    PROVE  BlockRows(block, derived, d) = ManualBlocksOn(d)
<1>1. ASSUME NEW c \in Causes PROVE derived[<<c, d[1]>>].status # "active"
  BY DEF DerivedExact, Wanted, Linked, LinkedIn, Days
<1> QED BY <1>1 DEF BlockRows, ManualBlocksOn

(* After the reconciler the counts are right again.                        *)
LEMMA CountsStep ==
    ASSUME TypeOK, LinkedInv, DerivedExact', CountsRight, Recounts
    PROVE  CountsRight'
<1>1. PICK mid : /\ BookingMid(mid) \/ BlockMid(mid)
                 /\ \E revised, requested : ReconcileLinkedInventory(mid, revised, requested)
  BY DEF Recounts
<1>2. PICK revised, requested : ReconcileLinkedInventory(mid, revised, requested)
  BY <1>1
<1>3. Counted(mid)
  BY <1>1 DEF BookingMid, BlockMid
<1> DEFINE held(d) == Cardinality(HeldUnits(d)')
           manual(d) == Cardinality(ManualBlocksOn(d)')
           rows(d) == Cardinality(BlockRows(block', derived', d))
<1>4. ASSUME NEW d \in Days
      PROVE  /\ held(d) \in Nat /\ manual(d) \in Nat /\ rows(d) \in Nat
             /\ manual(d) <= rows(d) /\ held(d) + manual(d) <= Capacity[d[1]]
             /\ mid[d].assigned = held(d)
  BY <1>3, HeldAfter, ManualAmongRowsAfter, BlockRowCounts DEF Counted, RoomsSuffice
<1>5. ASSUME NEW d \in Days, d \in Dirty(requested)
      PROVE  /\ day'[d].assigned = held(d)
             /\ day'[d].blocked = Lesser(rows(d), Capacity[d[1]] - held(d))
             /\ day'[d].available = AvailableCount(d[1], day'[d].assigned, day'[d].blocked,
                                                   day'[d].linkedStopSell)
  <2>1. day'[d] = RecomputedDay(d, held(d))
    BY <1>2, <1>4, <1>5 DEF ReconcileLinkedInventory
  <2>2. AtLeastZero(Capacity[d[1]] - held(d)) = Capacity[d[1]] - held(d)
    <3> HIDE DEF held, manual
    <3> QED BY <1>4, DayNumbers DEF AtLeastZero
  <2> QED BY <2>1, <2>2 DEF RecomputedDay, DayRow
<1>6. ASSUME NEW d \in Days, d \notin Dirty(requested)
      PROVE  /\ day'[d] = mid[d]
             /\ day'[d].blocked = Lesser(rows(d), Capacity[d[1]] - held(d))
  <2>1. day'[d] = mid[d]
    BY <1>2, <1>6 DEF ReconcileLinkedInventory
  <2>2. rows(d) = Cardinality(BlockRows(block', derived, d))
    BY <1>6, CleanRows
  <2>3. CASE BlockMid(mid)
    BY <1>4, <2>1, <2>2, <2>3 DEF BlockMid
  <2>4. CASE BookingMid(mid)
    <3>1. block' = block /\ group' = group /\ mid[d].blocked = day[d].blocked
      BY <2>4 DEF BookingMid
    <3>2. day[d].blocked = Lesser(rows(d), Capacity[d[1]] - day[d].assigned)
      BY <2>2, <3>1 DEF CountsRight, BlockedExact
    <3>3. CASE group[d[1]] # NoGroup
      <4>1. HeldUnits(d)' = HeldUnits(d)
        BY <1>6, <3>1, <3>3, CleanHeld DEF LinkedInv
      <4>2. day[d].assigned = held(d)
        BY <4>1 DEF CountsRight, AssignedIsDemand
      <4> QED BY <2>1, <3>1, <3>2, <4>2
    <3>4. CASE group[d[1]] = NoGroup
      <4>1. rows(d) = Cardinality(ManualBlocksOn(d)) /\ rows(d) = manual(d)
        BY <2>2, <3>1, <3>4, UnlinkedRows DEF LinkedInv, ManualBlocksOn
      <4>2. day[d].assigned + rows(d) <= Capacity[d[1]]
        BY <4>1 DEF CountsRight, AssignedIsDemand, RoomsSuffice
      <4>3. held(d) + rows(d) <= Capacity[d[1]]
        BY <1>4, <4>1
      <4>4. day[d].blocked = rows(d)
            /\ rows(d) = Lesser(rows(d), Capacity[d[1]] - held(d))
        <5> HIDE DEF rows, held
        <5> QED BY <1>4, <3>2, <4>2, <4>3, DayNumbers DEF Lesser
      <4> QED BY <2>1, <3>1, <4>4
    <3> QED BY <3>3, <3>4
  <2> QED BY <1>1, <2>1, <2>3, <2>4
<1>7. ASSUME NEW d \in Days
      PROVE  /\ day'[d].assigned = held(d)
             /\ day'[d].blocked = Lesser(rows(d), Capacity[d[1]] - day'[d].assigned)
             /\ day'[d].available = AvailableCount(d[1], day'[d].assigned, day'[d].blocked,
                                                   day'[d].linkedStopSell)
  BY <1>3, <1>4, <1>5, <1>6 DEF Counted, AvailableOf
<1>8. RoomsSuffice'
  BY <1>3 DEF Counted
<1> QED BY <1>7, <1>8 DEF CountsRight, AssignedIsDemand, BlockedExact, AvailableOf

-----------------------------------------------------------------------------
(* The inductive invariant and the theorems.                               *)

CountInv ==
    /\ LinkedInv
    /\ KeyInv
    /\ ReceiptLife
    /\ CountsRight

(* The empty calendar has right counts.                                    *)
LEMMA CountInit == Init => CountInv
<1> SUFFICES ASSUME Init PROVE CountInv
  OBVIOUS
<1>1. LinkedInv /\ TypeOK
  BY LinkedInit DEF LinkedInv
<1>2. KeyInv
  BY <1>1 DEF Init, KeyInv, KeyReservesOnce, Receipts
<1>3. Receipts \subseteq Holders /\ QuoteReceipts \subseteq Receipts
  BY DEF Holders, Receipts
<1>4. ReceiptLife
  BY <1>3 DEF Init, ReceiptLife
<1>5. ASSUME NEW d \in Days
      PROVE  /\ HeldUnits(d) = {} /\ ManualBlocksOn(d) = {} /\ BlockRows(block, derived, d) = {}
             /\ day[d] = DayRow(d[1], 0, 0, FALSE)
  <2>1. \A u \in Units : u[1] \in Holders
    BY DEF Units
  <2>2. HeldUnits(d) = {}
    BY <2>1, <1>3 DEF Init, HeldUnits, Holds
  <2>3. d[1] \in RoomTypes /\ \A c \in Causes : c[1] = "manual" => Source(c) \in Blocks
    BY CauseKinds DEF Days
  <2>4. ManualBlocksOn(d) = {} /\ BlockRows(block, derived, d) = {}
    BY <2>3 DEF Init, ManualBlocksOn, BlockRows
  <2> QED BY <2>2, <2>4 DEF Init
<1>6. Cardinality({}) = 0
  BY FS_EmptySet
<1>7. ASSUME NEW d \in Days
      PROVE  /\ day[d].assigned = 0 /\ day[d].blocked = 0
             /\ 0 = Lesser(0, Capacity[d[1]] - 0) /\ 0 + 0 <= Capacity[d[1]]
             /\ day[d].available = AvailableCount(d[1], day[d].assigned, day[d].blocked,
                                                  day[d].linkedStopSell)
  <2>1. day[d] = DayRow(d[1], 0, 0, FALSE)
    BY <1>5
  <2>2. Capacity[d[1]] \in Nat
    BY <1>1, DayNumbers
  <2>3. 0 = Lesser(0, Capacity[d[1]] - 0) /\ 0 + 0 <= Capacity[d[1]]
    BY <2>2 DEF Lesser
  <2> QED BY <2>1, <2>3 DEF DayRow
<1>8. CountsRight
  BY <1>5, <1>6, <1>7
     DEF CountsRight, AssignedIsDemand, RoomsSuffice, BlockedExact, AvailableOf
<1> QED BY <1>1, <1>2, <1>4, <1>8 DEF CountInv

(* Every command keeps the counts right.                                   *)
LEMMA CountStep == CountInv /\ [Next]_vars => CountInv'
<1> SUFFICES ASSUME CountInv, [Next]_vars PROVE CountInv'
  OBVIOUS
<1>0. LinkedInv /\ KeyInv /\ ReceiptLife /\ CountsRight /\ TypeOK
  BY DEF CountInv, LinkedInv
<1>1. LinkedInv' /\ KeyInv' /\ DerivedExact'
  BY <1>0, LinkedStep, KeyStep DEF LinkedInv
<1>2. ASSUME UNCHANGED <<receipt, assignment, block, group, derived, day>>
      PROVE  CountsRight'
  <2>1. \A d \in Days : HeldUnits(d)' = HeldUnits(d) /\ ManualBlocksOn(d)' = ManualBlocksOn(d)
    <3> TAKE d \in Days
    <3>1. \A h \in Holders : Holds(h, d)' <=> Holds(h, d)
      BY <1>2 DEF Holds
    <3> QED BY <1>2, <3>1, SameHolds DEF ManualBlocksOn
  <2> QED BY <1>0, <1>2, <2>1
          DEF CountsRight, AssignedIsDemand, RoomsSuffice, BlockedExact, AvailableOf
<1>3. CASE Next
  <2>1. ReceiptLife'
    BY <1>0, <1>3, LifeStep
  <2>2. CASE Quiet
    BY <1>1, <1>2, <2>1, <2>2 DEF CountInv, Quiet
  <2>3. CASE Recounts
    BY <1>0, <1>1, <2>1, <2>3, CountsStep DEF CountInv
  <2> QED BY <1>0, <1>3, <2>2, <2>3, NextRecounts
<1>4. CASE UNCHANGED vars
  <2>1. ReceiptLife'
    BY <1>0, <1>4 DEF vars, ReceiptLife
  <2> QED BY <1>1, <1>2, <1>4, <2>1 DEF vars, CountInv
<1> QED BY <1>3, <1>4

(* The counts are right in every state.                                    *)
THEOREM CountInvariant == Spec => []CountInv
BY CountInit, CountStep, PTL DEF Spec

(* assigned_count is at all times the rooms that live receipts and         *)
(* assignments hold, whether a command moved it by a delta or recounted.   *)
THEOREM AssignedCountIsDemand == Spec => []AssignedIsDemand
<1>1. CountInv => AssignedIsDemand
  BY DEF CountInv, CountsRight
<1> QED BY <1>1, CountInvariant, PTL

(* The rooms held and the rooms blocked by hand always fit in the physical *)
(* rooms, although each command checks counts with saturated derived       *)
(* blocks mixed in.                                                        *)
THEOREM RoomsAlwaysSuffice == Spec => []RoomsSuffice
<1>1. CountInv => RoomsSuffice
  BY DEF CountInv, CountsRight
<1> QED BY <1>1, CountInvariant, PTL

(* blocked_count is the block rows of the day, saturated at the rooms that *)
(* are not assigned, on the days the reconciler skipped as well.           *)
THEOREM BlockedCountExact == Spec => []BlockedExact
<1>1. CountInv => BlockedExact
  BY DEF CountInv, CountsRight
<1> QED BY <1>1, CountInvariant, PTL

(* dayInvariant holds of every day, so reserve and release never refuse a  *)
(* day for being broken.                                                   *)
THEOREM DaysAlwaysCoherent == Spec => []DaysCoherent
<1>1. ASSUME CountInv PROVE DaysCoherent
  <2> SUFFICES ASSUME NEW d \in Days PROVE DayInvariant(d)
    BY DEF DaysCoherent
  <2> DEFINE n == Cardinality(BlockRows(block, derived, d))
  <2>1. TypeOK
    BY <1>1 DEF CountInv, LinkedInv
  <2>2. /\ day[d].blocked = Lesser(n, Capacity[d[1]] - day[d].assigned)
        /\ day[d].available = AvailableCount(d[1], day[d].assigned, day[d].blocked,
                                             day[d].linkedStopSell)
    BY <1>1 DEF CountInv, CountsRight, BlockedExact, AvailableOf
  <2>3. n \in Nat
    BY BlockRowCounts
  <2> HIDE DEF n
  <2>4. day[d].assigned + day[d].blocked <= Capacity[d[1]]
    BY <2>1, <2>2, <2>3, DayNumbers DEF Lesser
  <2> QED BY <2>2, <2>4 DEF DayInvariant
<1> QED BY <1>1, CountInvariant, PTL
=============================================================================
