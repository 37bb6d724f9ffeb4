------------------------- MODULE PropertyInventory -------------------------
(***************************************************************************)
(* The canonical room inventory of ONE property of the PMS, as the target  *)
(* API keeps it in pms.inventory_days and the tables around it.            *)
(*                                                                         *)
(* Every command below runs in one database transaction that first takes   *)
(* the property's advisory lock (lockPmsInventoryMutationScope), so one    *)
(* command is one step.  What can go wrong is not a torn write but an      *)
(* unlucky ORDER of whole commands: a retry, a command built on counts     *)
(* read earlier, an OTA booking that lands on a stop-sell night, a group   *)
(* of linked room types formed around existing stays, a hand-off from a    *)
(* receipt to assignments, a cancellation.                                 *)
(*                                                                         *)
(* Only equality of revisions is ever tested and revisions only grow, so a *)
(* watermark is represented by the nights whose day has not been revised   *)
(* since the watermark was read.  Reads, audits, domain events and outbox  *)
(* rows are left out.  A command that fails and rolls back changes         *)
(* nothing and is no step.                                                 *)
(***************************************************************************)
EXTENDS Integers, FiniteSets

CONSTANTS
    RoomTypes,      \* pms.room_types of the property
    Nights,         \* the stay dates of the materialized calendar
    Capacity,       \* [RoomTypes -> Nat]: total_count = active physical units
    SellLimit,      \* [RoomTypes -> Nat]: effective_sellable_limit_count
    Commands,       \* single reserve commands, identified by their receipt
    QuoteReceipts,  \* the receipts of quote bundles, one per room type
    Quotes,         \* pricing quotes
    QuoteOf,        \* [QuoteReceipts -> Quotes]
    Stay,           \* [Receipts -> Stays]: what a receipt reserves
    RoomCount,      \* [Receipts -> Nat]: how many rooms of that type
    MaxRooms,       \* a stay has at most 99 rooms in the code
    Keys,           \* idempotency keys
    ReserveKey,     \* [Commands -> Keys]
    ReleaseKey,     \* [Receipts -> Keys]
    Otas,           \* OTA bookings delivered by Channex, one room each
    OtaStays,       \* the stays an OTA revision may ask for
    Blocks,         \* manual room blocks (blocked_count is always 1)
    BlockType,      \* [Blocks -> RoomTypes]
    Groups,         \* ids of linked inventory groups
    NoGroup         \* a NULL linked_inventory_group_id

Stays == [type: RoomTypes, nights: SUBSET Nights]
Receipts == Commands \cup QuoteReceipts
Holders == Receipts \cup Otas
Days == RoomTypes \X Nights
ReceiptsOf(q) == {r \in QuoteReceipts : QuoteOf[r] = q}

ASSUME RoomAssumption ==
    /\ IsFiniteSet(RoomTypes) /\ RoomTypes # {}
    /\ Nights \subseteq Int /\ IsFiniteSet(Nights)
    /\ Capacity \in [RoomTypes -> Nat]
    /\ SellLimit \in [RoomTypes -> Nat]
    /\ \A t \in RoomTypes : SellLimit[t] <= Capacity[t]

ASSUME HolderAssumption ==
    /\ IsFiniteSet(Receipts) /\ IsFiniteSet(Otas)
    /\ Commands \cap QuoteReceipts = {} /\ Receipts \cap Otas = {}
    /\ Stay \in [Receipts -> Stays]
    /\ MaxRooms \in Nat
    /\ RoomCount \in [Receipts -> 1..MaxRooms]
    /\ QuoteOf \in [QuoteReceipts -> Quotes]
    /\ OtaStays \subseteq Stays

ASSUME KeyAssumption ==
    /\ ReserveKey \in [Commands -> Keys]
    /\ ReleaseKey \in [Receipts -> Keys]

(* The lines of a quote share the stay dates and name each type once.      *)
ASSUME QuoteAssumption ==
    \A r, s \in QuoteReceipts : QuoteOf[r] = QuoteOf[s] =>
        /\ Stay[r].nights = Stay[s].nights
        /\ r # s => Stay[r].type # Stay[s].type

ASSUME BlockAssumption ==
    /\ IsFiniteSet(Blocks)
    /\ \A b \in Blocks : BlockType[b] \in RoomTypes
    /\ NoGroup \notin Groups

VARIABLES
    receipt,     \* [Receipts -> lifecycle_state], "none" before the insert
    assignment,  \* operational_booking_assignments of a direct or OTA booking
    block,       \* the manual rows of pms.room_blocks
    group,       \* [RoomTypes -> linked_inventory_group_id]
    derived,     \* the derived rows of pms.room_blocks, by cause and target
    day,         \* pms.inventory_days
    watermark,   \* per command: was it read, and which nights still match
    reserveIdem, \* idempotency rows of the reserve operation
    releaseIdem, \* idempotency rows of the release operation
    bundles      \* quotes with a completed bundle idempotency row

vars == <<receipt, assignment, block, group, derived, day, watermark,
          reserveIdem, releaseIdem, bundles>>

-----------------------------------------------------------------------------
(* Rooms held, and the causes that close a group of linked room types.     *)

(* One room of a stay: the unit of assigned_count.                         *)
RoomsOf(h) == IF h \in Otas THEN 1 ELSE RoomCount[h]
Units == {u \in Holders \X (1..MaxRooms) : u[2] <= RoomsOf(u[1])}

Covers(s, d) == s.type = d[1] /\ d[2] \in s.nights
DaysOf(s) == {s.type} \X s.nights

(* A receipt occupies its rooms until it is released or its rooms are      *)
(* adopted by assignments; a live assignment occupies one.                 *)
Holds(h, d) ==
    \/ h \in Receipts /\ receipt[h] = "reserved" /\ Covers(Stay[h], d)
    \/ assignment[h].status = "active" /\ Covers(assignment[h].stay, d)

HeldUnits(d) == {u \in Units : Holds(u[1], d)}

(* What readPmsOccupiedInventory counts for one day.                       *)
ExpectedAssigned(d) == Cardinality(HeldUnits(d))

(* A cause is a reserved receipt, a live assignment row, or a manual block.*)
(* An assignment row is one room of its booking.                           *)
Causes == ({"receipt"} \X (Receipts \X {1}))
          \cup ({"assignment"} \X Units)
          \cup ({"manual"} \X (Blocks \X {1}))
Source(c) == c[2][1]

CauseIsActive(c) ==
    \/ c[1] = "receipt" /\ receipt[Source(c)] = "reserved"
    \/ c[1] = "assignment" /\ assignment[Source(c)].status = "active"
    \/ c[1] = "manual" /\ block[Source(c)].status = "active"

CauseStay(c) ==
    CASE c[1] = "receipt" -> Stay[Source(c)]
      [] c[1] = "assignment" -> assignment[Source(c)].stay
      [] OTHER -> block[Source(c)].stay

(* Two members of one group, or the same linked type.                      *)
LinkedIn(grp, t, u) == grp[t] # NoGroup /\ grp[t] = grp[u]
Linked(t, u) == LinkedIn(group, t, u)

(* The EXISTS of the reconciler: a cause in any member, t itself included. *)
GroupHasCause(t, n) ==
    \E c \in Causes : /\ CauseIsActive(c)
                      /\ n \in CauseStay(c).nights
                      /\ Linked(CauseStay(c).type, t)

-----------------------------------------------------------------------------
(* pms.room_blocks and the columns computed from it.                       *)

(* The active rows of pms.room_blocks on day d, one cause each: a manual   *)
(* block of the type itself or a row derived from a cause elsewhere.       *)
BlockRows(manual, der, d) ==
    {c \in Causes :
        \/ /\ c[1] = "manual"
           /\ manual[Source(c)].status = "active"
           /\ Covers(manual[Source(c)].stay, d)
        \/ /\ der[<<c, d[1]>>].status = "active"
           /\ d[2] \in der[<<c, d[1]>>].stay.nights}

(* Mutation: the count is stored without its floor at zero.                 *)
Unfloored(x) == x

AtLeastZero(x) == IF x > 0 THEN x ELSE 0
Lesser(x, y) == IF x < y THEN x ELSE y

(* Mutation: the linked gate is not part of the sellable count.             *)
AvailableIgnoringGate(t, assigned, blocked, stopSell) ==
    AtLeastZero(SellLimit[t] - assigned - blocked)

AvailableCount(t, assigned, blocked, stopSell) ==
    IF stopSell THEN 0 ELSE AtLeastZero(SellLimit[t] - assigned - blocked)

DayRow(t, assigned, blocked, stopSell) ==
    [assigned |-> assigned, blocked |-> blocked, linkedStopSell |-> stopSell,
     available |-> AvailableCount(t, assigned, blocked, stopSell)]

(* dayInvariant: reserve and release refuse a day that fails it.           *)
DayInvariant(d) ==
    /\ day[d].assigned + day[d].blocked <= Capacity[d[1]]
    /\ day[d].available = AvailableCount(d[1], day[d].assigned, day[d].blocked,
                                         day[d].linkedStopSell)

-----------------------------------------------------------------------------
(* reconcilePmsLinkedInventory, the last data change of every command.     *)

Wanted(c, t) ==
    /\ CauseIsActive(c)
    /\ t # CauseStay(c).type
    /\ Linked(CauseStay(c).type, t)

(* upsertDerivedBlocks, evaluated on the causes the command leaves behind. *)
UpsertDerivedBlocks(c, t) ==
    IF Wanted(c, t)' THEN [status |-> "active", stay |-> CauseStay(c)']
                     ELSE derived[<<c, t>>]

(* Mutation: a row goes stale only when its cause ends.                    *)
ReleaseRowsOfEndedCauses(row, c, t) ==
    IF row.status = "active" /\ ~CauseIsActive(c)'
    THEN [row EXCEPT !.status = "released"]
    ELSE row

(* releaseStaleDerivedBlocks; only an assignment can have changed type.    *)
ReleaseStaleDerivedBlocks(row, c, t) ==
    IF /\ row.status = "active"
       /\ ~ /\ LinkedIn(group', row.stay.type, t)
            /\ CauseIsActive(c)'
            /\ c[1] = "assignment" => CauseStay(c)'.type = row.stay.type
    THEN [row EXCEPT !.status = "released"]
    ELSE row

(* Mutation: only the type that received the derived row is rewritten.     *)
ReachesTargetOnly(source, target, t) == t = target

(* A range reaches its source and target types and their groups.           *)
Reaches(source, target, t) ==
    \/ t \in {source, target}
    \/ LinkedIn(group', source, t)
    \/ LinkedIn(group', target, t)

(* Mutation: the old range of a changed row is forgotten.                  *)
DirtyNewRanges(requested) ==
    {d \in Days : \E c \in Causes, t \in RoomTypes :
        /\ derived'[<<c, t>>] # derived[<<c, t>>]
        /\ d[2] \in derived'[<<c, t>>].stay.nights
        /\ Reaches(derived'[<<c, t>>].stay.type, t, d[1])}

(* The days of changed derived rows, over their old and their new range,   *)
(* and the requested ranges of linked types.                               *)
Dirty(requested) ==
    {d \in Days :
        \/ \E c \in Causes, t \in RoomTypes :
              /\ derived'[<<c, t>>] # derived[<<c, t>>]
              /\ \E s \in {derived[<<c, t>>].stay, derived'[<<c, t>>].stay} :
                    d[2] \in s.nights /\ Reaches(s.type, t, d[1])
        \/ \E s \in requested :
              /\ group'[s.type] # NoGroup
              /\ d[2] \in s.nights
              /\ Reaches(s.type, s.type, d[1])}

(* A dirty day is recomputed whole: blocked_count saturates at the rooms   *)
(* that are not assigned.                                                  *)
RecomputedDay(d, assigned) ==
    DayRow(d[1], assigned,
           Lesser(Cardinality(BlockRows(block', derived', d)),
                  AtLeastZero(Capacity[d[1]] - assigned)),
           GroupHasCause(d[1], d[2])')

(* Mutation: the days of linked siblings are rewritten without a revision. *)
ReconcileWithoutRevision(mid, revised, requested) ==
    /\ derived' = [k \in Causes \X RoomTypes |->
          ReleaseStaleDerivedBlocks(UpsertDerivedBlocks(k[1], k[2]), k[1], k[2])]
    /\ day' = [d \in Days |-> IF d \in Dirty(requested)
                              THEN RecomputedDay(d, mid[d].assigned) ELSE mid[d]]
    /\ watermark' = [c \in Commands |-> [watermark[c] EXCEPT
          !.nights = {n \in @ : <<Stay[c].type, n>> \notin revised}]]

(* mid is pms.inventory_days, and revised the days already revised, when   *)
(* the command reaches the reconciler.                                     *)
ReconcileLinkedInventory(mid, revised, requested) ==
    /\ derived' = [k \in Causes \X RoomTypes |->
          ReleaseStaleDerivedBlocks(UpsertDerivedBlocks(k[1], k[2]), k[1], k[2])]
    /\ LET dirty == Dirty(requested) IN
       /\ day' = [d \in Days |->
             IF d \in dirty THEN RecomputedDay(d, mid[d].assigned) ELSE mid[d]]
       /\ watermark' = [c \in Commands |-> [watermark[c] EXCEPT
             !.nights = {n \in @ : <<Stay[c].type, n>> \notin revised \cup dirty}]]

-----------------------------------------------------------------------------
(* applyBookingDelta and reconcilePmsOccupiedInventory.                    *)

(* Mutation: assigned_count moves, available_count stays.                  *)
WithAssignedOnly(d, assigned) == [day[d] EXCEPT !.assigned = assigned]

(* One row of pms.inventory_days with a new assigned_count.                *)
WithAssigned(d, assigned) ==
    DayRow(d[1], assigned, day[d].blocked, day[d].linkedStopSell)

UnitsOf(R, d) == {u \in Units : u[1] \in R /\ Covers(Stay[u[1]], d)}
DaysOfAll(R) == {d \in Days : \E r \in R : Covers(Stay[r], d)}

ApplyBookingDelta(R, sign) ==
    [d \in Days |->
        IF d \in DaysOfAll(R)
        THEN WithAssigned(d, day[d].assigned + sign * Cardinality(UnitsOf(R, d)))
        ELSE day[d]]

(* The days whose assigned_count the reconcile changes.                    *)
Reassigned(spans) ==
    {d \in Days : /\ \E s \in spans : Covers(s, d)
                  /\ day[d].assigned # ExpectedAssigned(d)'}

ReconcileOccupiedInventory(spans) ==
    [d \in Days |-> IF d \in Reassigned(spans)
                    THEN WithAssigned(d, ExpectedAssigned(d)') ELSE day[d]]

(* Mutation: blocked rooms are not counted against the capacity.           *)
OccupiedFitsUnblocked(spans) ==
    \A s \in spans : \A d \in DaysOf(s) : ExpectedAssigned(d)' <= Capacity[d[1]]

(* Otherwise PmsOccupiedInventoryInvariantError rolls the command back.    *)
OccupiedFits(spans) ==
    \A s \in spans : \A d \in DaysOf(s) :
        ExpectedAssigned(d)' + day[d].blocked <= Capacity[d[1]]

-----------------------------------------------------------------------------
(* Reserve and release.                                                    *)

(* Mutation: a request for several rooms is checked as one for a room.     *)
OneRoomAvailable(r) ==
    \A d \in DaysOf(Stay[r]) :
        /\ day[d].available >= 1
        /\ day[d].assigned + day[d].blocked + 1 <= Capacity[d[1]]

(* validateReserveDays without the watermark.                              *)
RoomsAvailable(r) ==
    \A d \in DaysOf(Stay[r]) :
        /\ DayInvariant(d)
        /\ day[d].available >= RoomCount[r]
        /\ day[d].assigned + day[d].blocked + RoomCount[r] <= Capacity[d[1]]

WatermarksMatch(c) == watermark[c].nights = Stay[c].nights

(* Is the operating calendar the command was built on still current, and   *)
(* does the materialized calendar cover it?  It is not modelled.           *)
ConfigurationAnswers == BOOLEAN

ReserveValid(c, configurationCurrent) ==
    configurationCurrent /\ WatermarksMatch(c) /\ RoomsAvailable(c)

(* platform.idempotency_keys: a key that has a row replays; the row stores *)
(* what the first command under the key came to.                           *)
KeyUsed(idem, key) == idem[key] # "none"
StoreResult(idem, key, result) == [idem EXCEPT ![key] = result]

FindReserveReplay(c) == KeyUsed(reserveIdem, ReserveKey[c])
FindReleaseReplay(r) == KeyUsed(releaseIdem, ReleaseKey[r])
FinalizeReserve(c, result) ==
    reserveIdem' = StoreResult(reserveIdem, ReserveKey[c], result)
FinalizeRelease(r) ==
    releaseIdem' = StoreResult(releaseIdem, ReleaseKey[r], "completed")

PersistReceipts(R) ==
    receipt' = [r \in Receipts |-> IF r \in R THEN "reserved" ELSE receipt[r]]

RecordReserved(R) ==
    /\ PersistReceipts(R)
    /\ UNCHANGED <<assignment, block, group>>
    /\ ReconcileLinkedInventory(ApplyBookingDelta(R, 1), DaysOfAll(R), {})

(* A client reads the inventory days that its reserve command will carry.  *)
ReadWatermarks(c) ==
    /\ ~watermark[c].read
    /\ watermark' = [watermark EXCEPT ![c] = [read |-> TRUE, nights |-> Stay[c].nights]]
    /\ UNCHANGED <<receipt, assignment, block, group, derived, day, reserveIdem,
                   releaseIdem, bundles>>

(* Mutation: no replay lookup before the reservation.                      *)
ReserveWithoutReplay(c, configurationCurrent) ==
    /\ watermark[c].read
    /\ receipt[c] = "none"
    /\ ReserveValid(c, configurationCurrent)
    /\ RecordReserved({c})
    /\ FinalizeReserve(c, "reserved")
    /\ UNCHANGED <<releaseIdem, bundles>>

(* A retry, and another command under the same key, find the stored row    *)
(* and change nothing; a failed validation is stored as the key's result.  *)
Reserve(c, configurationCurrent) ==
    /\ watermark[c].read
    /\ ~FindReserveReplay(c)
    /\ IF ReserveValid(c, configurationCurrent)
       THEN RecordReserved({c}) /\ FinalizeReserve(c, "reserved")
       ELSE /\ FinalizeReserve(c, "failed")
            /\ UNCHANGED <<receipt, assignment, block, group, derived, day, watermark>>
    /\ UNCHANGED <<releaseIdem, bundles>>

(* Mutation: all lines are checked against the days read before the first. *)
LinesCheckedUpFront(q) == TRUE

(* An earlier line of the bundle in the same group has just put a stop-    *)
(* sell on this line's nights.                                             *)
LinesNotLinked(q) ==
    \A r, s \in ReceiptsOf(q) : r # s => ~Linked(Stay[r].type, Stay[s].type)

(* reservePmsInventoryInTransaction for every line.                        *)
LinesReservable(q) ==
    /\ \A r \in ReceiptsOf(q) : RoomsAvailable(r)
    /\ LinesNotLinked(q)

(* All lines or none: a sold-out line rolls back to the savepoint, with    *)
(* the idempotency row.                                                    *)
ReserveQuoteBundle(q) ==
    /\ ReceiptsOf(q) # {}
    /\ q \notin bundles
    /\ LinesReservable(q)
    /\ RecordReserved(ReceiptsOf(q))
    /\ bundles' = bundles \cup {q}
    /\ UNCHANGED <<reserveIdem, releaseIdem>>

(* readReservationStatus finds the receipt.                                *)
ReceiptExists(r) == receipt[r] # "none"

ReleaseDaysValid(r) ==
    \A d \in DaysOf(Stay[r]) : DayInvariant(d) /\ day[d].assigned >= RoomCount[r]

ReleaseReserved(r) ==
    /\ receipt' = [receipt EXCEPT ![r] = "released"]
    /\ UNCHANGED <<assignment, block, group>>
    /\ ReconcileLinkedInventory(ApplyBookingDelta({r}, -1), DaysOf(Stay[r]), {})

(* Mutation: a receipt is released whatever its lifecycle state.           *)
ReleaseAnyState(r) ==
    /\ ReceiptExists(r)
    /\ ~FindReleaseReplay(r)
    /\ FinalizeRelease(r)
    /\ ReleaseDaysValid(r)
    /\ ReleaseReserved(r)
    /\ UNCHANGED <<reserveIdem, bundles>>

(* The release key is stored in every case but a replay; a receipt that is *)
(* no longer reserved is only reported.                                    *)
Release(r) ==
    /\ ReceiptExists(r)
    /\ ~FindReleaseReplay(r)
    /\ FinalizeRelease(r)
    /\ IF receipt[r] = "reserved" /\ ReleaseDaysValid(r)
       THEN ReleaseReserved(r)
       ELSE UNCHANGED <<receipt, assignment, block, group, derived, day, watermark>>
    /\ UNCHANGED <<reserveIdem, bundles>>

-----------------------------------------------------------------------------
(* Bookings: adoption of a bundle, host cancellation, OTA revisions.       *)

(* Assignments are inserted and the receipts handed off in one             *)
(* transaction; a replay of an adopted booking changes nothing.            *)
AdoptAcceptedPricingReservation(q) ==
    LET R == ReceiptsOf(q)
        spans == {Stay[r] : r \in R}
    IN  /\ R # {}
        /\ \A r \in R : receipt[r] = "reserved" /\ assignment[r].status = "none"
        /\ assignment' = [h \in Holders |->
              IF h \in R THEN [status |-> "active", stay |-> Stay[h]] ELSE assignment[h]]
        /\ receipt' = [r \in Receipts |-> IF r \in R THEN "handed_off" ELSE receipt[r]]
        /\ UNCHANGED <<block, group, reserveIdem, releaseIdem, bundles>>
        /\ OccupiedFits(spans)
        /\ ReconcileLinkedInventory(ReconcileOccupiedInventory(spans),
                                    Reassigned(spans), spans)

CancelHostBookingAssignments(q) ==
    LET live == {r \in ReceiptsOf(q) : assignment[r].status = "active"}
        spans == {assignment[r].stay : r \in live}
    IN  /\ live # {}
        /\ assignment' = [h \in Holders |->
              IF h \in live THEN [assignment[h] EXCEPT !.status = "canceled"]
                            ELSE assignment[h]]
        /\ UNCHANGED <<receipt, block, group, reserveIdem, releaseIdem, bundles>>
        /\ OccupiedFits(spans)
        /\ ReconcileLinkedInventory(ReconcileOccupiedInventory(spans),
                                    Reassigned(spans), {})

(* Mutation: a late revision revives a cancelled OTA booking.              *)
PersistAfterCancellation(o, s) ==
    /\ assignment[o].stay # s \/ assignment[o].status # "active"
    /\ assignment' = [assignment EXCEPT ![o] = [status |-> "active", stay |-> s]]
    /\ UNCHANGED <<receipt, block, group, reserveIdem, releaseIdem, bundles>>
    /\ OccupiedFits({s, assignment[o].stay})
    /\ ReconcileLinkedInventory(ReconcileOccupiedInventory({s, assignment[o].stay}),
                                Reassigned({s, assignment[o].stay}), {})

(* A first or an altering revision.  A stop-sell night is only warned      *)
(* about; physical capacity is left to the occupied-inventory reconcile.   *)
PersistChannexAssignment(o, s) ==
    LET prior == IF assignment[o].status = "active" THEN {assignment[o].stay} ELSE {}
        spans == {s} \cup prior
    IN  /\ assignment[o].status # "canceled"
        /\ s \notin prior
        /\ assignment' = [assignment EXCEPT ![o] = [status |-> "active", stay |-> s]]
        /\ UNCHANGED <<receipt, block, group, reserveIdem, releaseIdem, bundles>>
        /\ OccupiedFits(spans)
        /\ ReconcileLinkedInventory(ReconcileOccupiedInventory(spans),
                                    Reassigned(spans), {})

CancelChannexAssignment(o) ==
    LET spans == {assignment[o].stay}
    IN  /\ assignment[o].status = "active"
        /\ assignment' = [assignment EXCEPT ![o].status = "canceled"]
        /\ UNCHANGED <<receipt, block, group, reserveIdem, releaseIdem, bundles>>
        /\ OccupiedFits(spans)
        /\ ReconcileLinkedInventory(ReconcileOccupiedInventory(spans),
                                    Reassigned(spans), {})

-----------------------------------------------------------------------------
(* Manual room blocks.                                                     *)

(* roomBlockCapacityIsAvailable, for one room; own is the range the block  *)
(* already occupies.                                                       *)
RoomBlockCapacityIsAvailable(s, own) ==
    \A d \in DaysOf(s) :
        Capacity[d[1]] - day[d].assigned - day[d].blocked
            + (IF d[2] \in own THEN 1 ELSE 0) >= 1

(* reconcileRoomBlockInventory recounts EVERY active row, uncapped; the    *)
(* table's capacity CHECK aborts the command when the count does not fit.  *)
RecountedBlocks(affected) ==
    {d \in affected : day[d].blocked # Cardinality(BlockRows(block', derived, d))}

ReconcileRoomBlockInventory(affected) ==
    [d \in Days |->
        IF d \in RecountedBlocks(affected)
        THEN DayRow(d[1], day[d].assigned,
                    Cardinality(BlockRows(block', derived, d)), day[d].linkedStopSell)
        ELSE day[d]]

CapacityCheckHolds(rows) ==
    \A d \in Days : rows[d].assigned + rows[d].blocked <= Capacity[d[1]]

(* affectedFrom..affectedTo spans the old and the new range.               *)
Hull(nights) == {n \in Nights : \E a, b \in nights : a <= n /\ n <= b}
Spans == {{n \in Nights : a <= n /\ n <= b} : a, b \in Nights} \ {{}}

ApplyRoomBlockMutation(b, row, affected) ==
    LET days == {BlockType[b]} \X affected
    IN  /\ block' = [block EXCEPT ![b] = row]
        /\ UNCHANGED <<receipt, assignment, group, reserveIdem, releaseIdem, bundles>>
        /\ CapacityCheckHolds(ReconcileRoomBlockInventory(days))
        /\ ReconcileLinkedInventory(ReconcileRoomBlockInventory(days),
                                    RecountedBlocks(days), {})

RoomBlockRow(b, nights) ==
    [status |-> "active", stay |-> [type |-> BlockType[b], nights |-> nights]]

(* A retried create finds its idempotency row and replays.                 *)
RoomBlockCommandIsNew(b) == block[b].status = "none"

RoomBlockCreate(b, nights) ==
    /\ RoomBlockCommandIsNew(b)
    /\ RoomBlockCapacityIsAvailable([type |-> BlockType[b], nights |-> nights], {})
    /\ ApplyRoomBlockMutation(b, RoomBlockRow(b, nights), nights)

RoomBlockUpdate(b, nights) ==
    /\ block[b].status = "active"
    /\ RoomBlockCapacityIsAvailable([type |-> BlockType[b], nights |-> nights],
                                    block[b].stay.nights)
    /\ ApplyRoomBlockMutation(b, RoomBlockRow(b, nights),
                              Hull(block[b].stay.nights \cup nights))

RoomBlockRelease(b) ==
    /\ block[b].status = "active"
    /\ ApplyRoomBlockMutation(b, [block[b] EXCEPT !.status = "released"],
                              block[b].stay.nights)

-----------------------------------------------------------------------------
(* Linked inventory groups.                                                *)

Members(g) == {t \in RoomTypes : group[t] = g}

ActiveCausesOf(members) ==
    {c \in Causes : CauseIsActive(c) /\ CauseStay(c).type \in members}

LinkedInventoryOverlap(members) ==
    \E c, e \in ActiveCausesOf(members) :
        /\ CauseStay(c).type # CauseStay(e).type
        /\ CauseStay(c).nights \cap CauseStay(e).nights # {}

(* Create when g has no members, else replace.                             *)
PutLinkedInventoryGroup(g, members) ==
    /\ \E t, u \in members : t # u
    /\ \A t \in members : group[t] \in {NoGroup, g}
    /\ ~LinkedInventoryOverlap(members)
    /\ group' = [t \in RoomTypes |-> IF t \in members THEN g
                                     ELSE IF group[t] = g THEN NoGroup ELSE group[t]]
    /\ UNCHANGED <<receipt, assignment, block, reserveIdem, releaseIdem, bundles>>
    /\ ReconcileLinkedInventory(day, {}, {})

DeleteLinkedInventoryGroup(g) ==
    /\ Members(g) # {}
    /\ group' = [t \in RoomTypes |-> IF group[t] = g THEN NoGroup ELSE group[t]]
    /\ UNCHANGED <<receipt, assignment, block, reserveIdem, releaseIdem, bundles>>
    /\ ReconcileLinkedInventory(day, {}, {})

-----------------------------------------------------------------------------
NoStay == [type |-> CHOOSE t \in RoomTypes : TRUE, nights |-> {}]

Init ==
    /\ receipt = [r \in Receipts |-> "none"]
    /\ assignment = [h \in Holders |-> [status |-> "none", stay |-> NoStay]]
    /\ block = [b \in Blocks |-> [status |-> "none", stay |-> [NoStay EXCEPT !.type = BlockType[b]]]]
    /\ group = [t \in RoomTypes |-> NoGroup]
    /\ derived = [k \in Causes \X RoomTypes |-> [status |-> "none", stay |-> NoStay]]
    /\ day = [d \in Days |-> DayRow(d[1], 0, 0, FALSE)]
    /\ watermark = [c \in Commands |-> [read |-> FALSE, nights |-> {}]]
    /\ reserveIdem = [k \in Keys |-> "none"]
    /\ releaseIdem = [k \in Keys |-> "none"]
    /\ bundles = {}

Next ==
    \/ \E c \in Commands : ReadWatermarks(c)
    \/ \E c \in Commands, current \in ConfigurationAnswers : Reserve(c, current)
    \/ \E q \in Quotes : ReserveQuoteBundle(q)
    \/ \E r \in Receipts : Release(r)
    \/ \E q \in Quotes : AdoptAcceptedPricingReservation(q)
    \/ \E q \in Quotes : CancelHostBookingAssignments(q)
    \/ \E o \in Otas, s \in OtaStays : PersistChannexAssignment(o, s)
    \/ \E o \in Otas : CancelChannexAssignment(o)
    \/ \E b \in Blocks, nights \in Spans : RoomBlockCreate(b, nights)
    \/ \E b \in Blocks, nights \in Spans : RoomBlockUpdate(b, nights)
    \/ \E b \in Blocks : RoomBlockRelease(b)
    \/ \E g \in Groups, members \in SUBSET RoomTypes : PutLinkedInventoryGroup(g, members)
    \/ \E g \in Groups : DeleteLinkedInventoryGroup(g)

Spec == Init /\ [][Next]_vars

-----------------------------------------------------------------------------
(* Properties.                                                             *)

ReceiptStates == {"none", "reserved", "released", "handed_off"}
AssignmentRows == [status: {"none", "active", "canceled"}, stay: Stays]
BlockStates == {"none", "active", "released"}
DayRows == [assigned: Nat, blocked: Nat, available: Nat, linkedStopSell: BOOLEAN]

(* Every table holds rows of its shape; counts are never negative.         *)
TypeOK ==
    /\ receipt \in [Receipts -> ReceiptStates]
    /\ assignment \in [Holders -> AssignmentRows]
    /\ block \in [Blocks -> [status: BlockStates, stay: Stays]]
    /\ \A b \in Blocks : block[b].stay.type = BlockType[b]
    /\ group \in [RoomTypes -> Groups \cup {NoGroup}]
    /\ derived \in [Causes \X RoomTypes -> [status: BlockStates, stay: Stays]]
    /\ day \in [Days -> DayRows]
    /\ watermark \in [Commands -> [read: BOOLEAN, nights: SUBSET Nights]]
    /\ reserveIdem \in [Keys -> {"none", "reserved", "failed"}]
    /\ releaseIdem \in [Keys -> {"none", "completed"}]
    /\ bundles \in SUBSET Quotes

(* The manual rows of pms.room_blocks on day d.                            *)
ManualBlocksOn(d) ==
    {c \in Causes : /\ c[1] = "manual"
                    /\ block[Source(c)].status = "active"
                    /\ Covers(block[Source(c)].stay, d)}

(* assigned_count, which reserve and release move by a delta and the other *)
(* commands recount, is at all times the number of rooms that live         *)
(* receipts and assignments hold: no retry, failed command, hand-off or    *)
(* cancellation counts a room twice or forgets one.                        *)
AssignedIsDemand == \A d \in Days : day[d].assigned = Cardinality(HeldUnits(d))

(* The rooms held and the rooms blocked by hand fit in the physical rooms. *)
(* No command checks this sum: reserve, OTA save and room block each check *)
(* the stored counts, where saturated derived blocks are mixed in.         *)
RoomsSuffice ==
    \A d \in Days :
        Cardinality(HeldUnits(d)) + Cardinality(ManualBlocksOn(d)) <= Capacity[d[1]]

(* A night is under linked stop-sell exactly when some member of the       *)
(* type's group has a live cause, although the reconciler rewrites only    *)
(* the days its changed rows reach: no sellable gap in a hand-off, no      *)
(* stop-sell left behind by a group change.                                *)
StopSellExact ==
    \A d \in Days : day[d].linkedStopSell <=> GroupHasCause(d[1], d[2])

(* The derived rows are those of the live causes and no others, with the   *)
(* stay their cause has now.                                               *)
DerivedExact ==
    \A c \in Causes, t \in RoomTypes :
        /\ derived[<<c, t>>].status = "active" <=> Wanted(c, t)
        /\ Wanted(c, t) => derived[<<c, t>>].stay = CauseStay(c)

(* blocked_count is the number of active block rows, saturated at the      *)
(* rooms that are not assigned, on days no command recomputed as well.     *)
BlockedExact ==
    \A d \in Days :
        day[d].blocked = Lesser(Cardinality(BlockRows(block, derived, d)),
                                Capacity[d[1]] - day[d].assigned)

(* A night's sellable count follows from the other columns (dayInvariant), *)
(* so no reserve or release is ever refused for a broken day.              *)
DaysCoherent == \A d \in Days : DayInvariant(d)

(* The direct sales of a receipt: reserved, or adopted and not cancelled.  *)
DirectSale(r, t, n) ==
    /\ r \in Receipts
    /\ Holds(r, <<t, n>>)

(* Two different members of a linked group are never sold directly for the *)
(* same night, however the group was formed and in whatever order commands *)
(* arrive.                                                                 *)
NoDoubleSale ==
    \A t, u \in RoomTypes, n \in Nights : \A r, s \in Receipts :
        (t # u /\ Linked(t, u)) => ~(DirectSale(r, t, n) /\ DirectSale(s, u, n))

(* A receipt is only ever reserved on nights on which no member of its     *)
(* group had a booking, an OTA stay or a manual block.                     *)
SaleNeedsFreeGroup ==
    [][\A r \in Receipts :
         (receipt[r] = "none" /\ receipt'[r] = "reserved") =>
            \A n \in Stay[r].nights : ~GroupHasCause(Stay[r].type, n)]_vars

(* A day that changes loses every watermark taken of it, so a reserve that *)
(* passes the watermark check sells at the counts its client was shown.    *)
ChangeRevises ==
    [][\A c \in Commands : \A n \in watermark'[c].nights :
         watermark[c].read => day'[<<Stay[c].type, n>>] = day[<<Stay[c].type, n>>]]_vars

(* One idempotency key reserves at most one receipt, whatever commands are *)
(* sent under it.                                                          *)
KeyReservesOnce ==
    \A c, e \in Commands :
        /\ receipt[c] # "none" /\ receipt[e] # "none"
        /\ ReserveKey[c] = ReserveKey[e]
        => c = e

(* The later of two commands on different members of a group is refused,   *)
(* so two members never have a live cause on one night: stated by          *)
(* engineering/linked-inventory-contract.md, and not what a room block     *)
(* does, whose capacity check does not read the stop-sell.                 *)
OneMemberPerNight ==
    \A c, e \in Causes :
        /\ CauseIsActive(c) /\ CauseIsActive(e)
        /\ CauseStay(c).type # CauseStay(e).type
        /\ Linked(CauseStay(c).type, CauseStay(e).type)
        => CauseStay(c).nights \cap CauseStay(e).nights = {}

(* A manual block can be released whenever it is active, as the linked     *)
(* inventory contract has blocked_count saturate on release as well; the   *)
(* recount before the reconciler does not saturate.                        *)
BlockReleasable ==
    \A b \in Blocks : block[b].status = "active" => ENABLED RoomBlockRelease(b)

(* An OTA booking that the physical rooms can take is saved even on a      *)
(* linked stop-sell night, as persistChannexAssignments says of itself.    *)
OtaAcceptedOnStopSell ==
    \A o \in Otas, s \in OtaStays :
        /\ assignment[o].status = "none"
        /\ \A d \in DaysOf(s) : Cardinality(HeldUnits(d))
               + Cardinality(ManualBlocksOn(d)) + 1 <= Capacity[d[1]]
        => ENABLED PersistChannexAssignment(o, s)

-----------------------------------------------------------------------------
(* Refinement: hand-offs, group changes, blocks and retries are stutters   *)
(* of the ledger.                                                          *)
LedgerEntry(h) ==
    IF h \in Receipts /\ receipt[h] = "reserved"
    THEN [state |-> "held", type |-> Stay[h].type, nights |-> Stay[h].nights]
    ELSE IF assignment[h].status = "active"
    THEN [state |-> "held", type |-> assignment[h].stay.type,
          nights |-> assignment[h].stay.nights]
    ELSE [state |-> IF assignment[h].status = "none"
                       /\ (h \in Receipts => receipt[h] = "none")
                    THEN "unbooked" ELSE "gone",
          type |-> NoStay.type, nights |-> {}]

Ledger == INSTANCE RoomLedger WITH ledger <- [h \in Holders |-> LedgerEntry(h)]

(* The inventory implements the ledger: every booking is booked once, held *)
(* through its hand-off, dropped once, and no night is oversold.           *)
ImplementsLedger == Ledger!Spec
=============================================================================
