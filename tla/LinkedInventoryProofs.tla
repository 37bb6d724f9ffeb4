----------------------- MODULE LinkedInventoryProofs -----------------------
(***************************************************************************)
(* Linked room types: the derived blocks and the stop-sell are exact, and  *)
(* two members of a group are never sold for the same night.               *)
(***************************************************************************)
EXTENDS PropertyInventoryProofs

-----------------------------------------------------------------------------
(* The derived rows.                                                       *)

(* Only the stay of an assignment can move to another type.                *)
LEMMA CauseTypeFixed ==
    ASSUME TypeOK, SourcesOK', NEW c \in Causes, c[1] # "assignment"
    PROVE  CauseStay(c)'.type = CauseStay(c).type
<1>1. CASE c[1] = "receipt"
  BY <1>1 DEF CauseStay, Source
<1>2. CASE c[1] = "manual"
  <2>1. Source(c) \in Blocks
    BY <1>2, CauseKinds
  <2> QED BY <1>2, <2>1 DEF CauseStay, TypeOK, SourcesOK, Source
<1> QED BY <1>1, <1>2, CauseKinds

(* One derived row after the reconciler.                                   *)
LEMMA DerivedRow ==
    ASSUME NEW mid, NEW revised, NEW requested,
           ReconcileLinkedInventory(mid, revised, requested),
           NEW c \in Causes, NEW t \in RoomTypes
    PROVE  derived'[<<c, t>>] = ReleaseStaleDerivedBlocks(UpsertDerivedBlocks(c, t), c, t)
BY DEF ReconcileLinkedInventory

(* After the reconciler the derived rows are again those of the causes.    *)
LEMMA DerivedStep ==
    ASSUME TypeOK, DerivedExact, Reconciles
    PROVE  DerivedExact'
<1> SUFFICES ASSUME NEW c \in Causes, NEW t \in RoomTypes
             PROVE  /\ derived'[<<c, t>>].status = "active" <=> Wanted(c, t)'
                    /\ Wanted(c, t)' => derived'[<<c, t>>].stay = CauseStay(c)'
  BY DEF DerivedExact
<1>1. SourcesOK'
  BY DEF Reconciles
<1>2. derived'[<<c, t>>] = ReleaseStaleDerivedBlocks(UpsertDerivedBlocks(c, t), c, t)
  BY DerivedRow DEF Reconciles
<1>3. CASE Wanted(c, t)'
  <2> DEFINE row == [status |-> "active", stay |-> CauseStay(c)']
  <2>1. UpsertDerivedBlocks(c, t) = row
    BY <1>3 DEF UpsertDerivedBlocks
  <2>2. LinkedIn(group', row.stay.type, t) /\ CauseIsActive(c)'
    BY <1>3 DEF Wanted, Linked
  <2>3. ReleaseStaleDerivedBlocks(row, c, t) = row
    BY <2>2 DEF ReleaseStaleDerivedBlocks
  <2> QED BY <1>2, <1>3, <2>1, <2>3
<1>4. CASE ~Wanted(c, t)'
  <2>1. UpsertDerivedBlocks(c, t) = derived[<<c, t>>]
    BY <1>4 DEF UpsertDerivedBlocks
  <2>2. SUFFICES ASSUME derived'[<<c, t>>].status = "active" PROVE FALSE
    BY <1>4
  <2>3. derived[<<c, t>>].status = "active"
    BY <1>2, <2>1, <2>2 DEF ReleaseStaleDerivedBlocks
  <2>4. Wanted(c, t) /\ derived[<<c, t>>].stay = CauseStay(c)
    BY <2>3 DEF DerivedExact
  <2>5. /\ LinkedIn(group', derived[<<c, t>>].stay.type, t)
        /\ CauseIsActive(c)'
        /\ c[1] = "assignment" => CauseStay(c)'.type = derived[<<c, t>>].stay.type
    <3>1. derived[<<c, t>>] \in [status: BlockStates, stay: Stays]
      BY DEF TypeOK
    <3> QED BY <1>2, <2>1, <2>2, <2>3, <3>1 DEF ReleaseStaleDerivedBlocks, BlockStates
  <2>6. CauseStay(c)'.type = CauseStay(c).type
    BY <1>1, <2>4, <2>5, CauseTypeFixed
  <2>7. Wanted(c, t)'
    BY <2>4, <2>5, <2>6 DEF Wanted, Linked
  <2> QED BY <1>4, <2>7
<1> QED BY <1>3, <1>4

-----------------------------------------------------------------------------
(* Groups have two members at least.                                       *)

GroupsNotSingle ==
    \A t \in RoomTypes : group[t] # NoGroup =>
        \E u \in RoomTypes : u # t /\ group[u] = group[t]

(* A put or a delete changes only which group the types belong to.         *)
LEMMA GroupChange ==
    ASSUME Next
    PROVE  \/ UNCHANGED group
           \/ \E g \in Groups : DeleteLinkedInventoryGroup(g)
           \/ \E g \in Groups, members \in SUBSET RoomTypes : PutLinkedInventoryGroup(g, members)
BY DEF Next, ReadWatermarks, Reserve, ReserveQuoteBundle, RecordReserved, Release,
       ReleaseReserved,
       AdoptAcceptedPricingReservation, CancelHostBookingAssignments,
       PersistChannexAssignment, CancelChannexAssignment, RoomBlockCreate,
       RoomBlockUpdate, RoomBlockRelease, ApplyRoomBlockMutation

(* No command leaves a group with a single member.                         *)
LEMMA GroupsStep ==
    ASSUME TypeOK, GroupsNotSingle, Next
    PROVE  GroupsNotSingle'
<1>1. CASE UNCHANGED group
  BY <1>1 DEF GroupsNotSingle
<1>2. ASSUME NEW g \in Groups, DeleteLinkedInventoryGroup(g)
      PROVE  GroupsNotSingle'
  BY <1>2, BlockAssumption DEF GroupsNotSingle, DeleteLinkedInventoryGroup, TypeOK
<1>3. ASSUME NEW g \in Groups, NEW members \in SUBSET RoomTypes,
             PutLinkedInventoryGroup(g, members)
      PROVE  GroupsNotSingle'
  <2> SUFFICES ASSUME NEW t \in RoomTypes, group'[t] # NoGroup
               PROVE  \E u \in RoomTypes : u # t /\ group'[u] = group'[t]
    BY DEF GroupsNotSingle
  <2>0. /\ group' = [x \in RoomTypes |-> IF x \in members THEN g
                        ELSE IF group[x] = g THEN NoGroup ELSE group[x]]
        /\ \A x \in members : group[x] \in {NoGroup, g}
        /\ \E x, y \in members : x # y
    BY <1>3 DEF PutLinkedInventoryGroup
  <2>1. CASE t \in members
    BY <2>0, <2>1
  <2>2. CASE t \notin members
    <3>1. group[t] # NoGroup /\ group[t] # g /\ group'[t] = group[t]
      BY <2>0, <2>2
    <3>2. PICK u \in RoomTypes : u # t /\ group[u] = group[t]
      BY <3>1 DEF GroupsNotSingle
    <3>3. u \notin members
      BY <2>0, <3>1, <3>2
    <3> QED BY <2>0, <3>1, <3>2, <3>3
  <2> QED BY <2>1, <2>2
<1> QED BY <1>1, <1>2, <1>3, GroupChange

-----------------------------------------------------------------------------
(* The stop-sell.  A day that is not recomputed keeps its flag; were its   *)
(* cause new or gone, the row derived from that cause for another member   *)
(* would have changed and made the day dirty.                              *)

(* A live cause of a linked type has a derived row whose target reaches    *)
(* every day the cause closes: the day's own type, or a second member.     *)
LEMMA Witness ==
    ASSUME TypeOK, GroupsNotSingle, NEW c \in Causes, CauseIsActive(c),
           NEW t \in RoomTypes, CauseStay(c) \in Stays, Linked(CauseStay(c).type, t)
    PROVE  \E u \in RoomTypes : Wanted(c, u) /\ t \in {CauseStay(c).type, u}
<1> DEFINE s == CauseStay(c).type
<1>1. s \in RoomTypes /\ group[s] # NoGroup
  BY DEF Stays, Linked, LinkedIn
<1>2. CASE t # s
  BY <1>2 DEF Wanted
<1>3. CASE t = s
  <2>1. PICK u \in RoomTypes : u # s /\ group[u] = group[s]
    BY <1>1 DEF GroupsNotSingle
  <2> QED BY <1>1, <1>3, <2>1 DEF Wanted, Linked, LinkedIn
<1> QED BY <1>2, <1>3

(* The same in the state after a step.                                     *)
LEMMA WitnessAfter ==
    ASSUME GroupsNotSingle', NEW c \in Causes, CauseIsActive(c)',
           NEW t \in RoomTypes, CauseStay(c)' \in Stays, Linked(CauseStay(c).type, t)'
    PROVE  \E u \in RoomTypes : Wanted(c, u)' /\ t \in {CauseStay(c)'.type, u}
<1> DEFINE s == CauseStay(c)'.type
<1>1. s \in RoomTypes /\ group'[s] # NoGroup /\ group'[s] = group'[t]
  BY DEF Stays, Linked, LinkedIn
<1>2. CASE t # s
  BY <1>1, <1>2 DEF Wanted, Linked, LinkedIn
<1>3. CASE t = s
  <2>1. PICK u \in RoomTypes : u # s /\ group'[u] = group'[s]
    BY <1>1 DEF GroupsNotSingle
  <2> QED BY <1>1, <1>3, <2>1 DEF Wanted, Linked, LinkedIn
<1> QED BY <1>2, <1>3

(* The stay of a cause is well typed after a step.                         *)
LEMMA CauseStayTypeAfter ==
    ASSUME SourcesOK', NEW c \in Causes
    PROVE  CauseStay(c)' \in Stays
<1>1. CASE c[1] = "receipt"
  BY <1>1, CauseKinds, HolderAssumption DEF CauseStay
<1>2. CASE c[1] = "assignment"
  BY <1>2, CauseKinds DEF CauseStay, SourcesOK, AssignmentRows
<1>3. CASE c[1] = "manual"
  BY <1>3, CauseKinds DEF CauseStay, SourcesOK
<1> QED BY <1>1, <1>2, <1>3, CauseKinds

(* On a day that is not dirty, no cause of its group came or went.         *)
LEMMA CleanDay ==
    ASSUME TypeOK, SourcesOK', GroupsNotSingle, GroupsNotSingle',
           DerivedExact, DerivedExact',
           NEW requested, NEW d \in Days, d \notin Dirty(requested)
    PROVE  GroupHasCause(d[1], d[2])' <=> GroupHasCause(d[1], d[2])
<1>0. d[1] \in RoomTypes /\ d[2] \in Nights
  BY DEF Days
<1>1. SourcesOK
  BY DEF TypeOK, SourcesOK
<1>2. ASSUME NEW c \in Causes, NEW u \in RoomTypes,
             NEW s \in {derived[<<c, u>>].stay, derived'[<<c, u>>].stay},
             d[2] \in s.nights, d[1] \in {s.type, u}
      PROVE  derived'[<<c, u>>] = derived[<<c, u>>]
  BY <1>0, <1>2 DEF Dirty, Reaches
<1>3. ASSUME GroupHasCause(d[1], d[2])
      PROVE  GroupHasCause(d[1], d[2])'
  <2>1. PICK c \in Causes : /\ CauseIsActive(c) /\ d[2] \in CauseStay(c).nights
                            /\ Linked(CauseStay(c).type, d[1])
    BY <1>3 DEF GroupHasCause
  <2>2. CauseStay(c) \in Stays
    BY <1>1, CauseStayType
  <2>3. PICK u \in RoomTypes : Wanted(c, u) /\ d[1] \in {CauseStay(c).type, u}
    BY <1>0, <2>1, <2>2, Witness
  <2>4. derived[<<c, u>>].status = "active" /\ derived[<<c, u>>].stay = CauseStay(c)
    BY <2>3 DEF DerivedExact
  <2>5. derived'[<<c, u>>] = derived[<<c, u>>]
    BY <1>2, <2>1, <2>3, <2>4
  <2>6. Wanted(c, u)' /\ CauseStay(c)' = CauseStay(c)
    BY <2>4, <2>5 DEF DerivedExact
  <2>7. CauseIsActive(c)' /\ Linked(CauseStay(c).type, d[1])'
    BY <2>3, <2>6 DEF Wanted, Linked, LinkedIn
  <2> QED BY <2>1, <2>6, <2>7 DEF GroupHasCause
<1>4. ASSUME GroupHasCause(d[1], d[2])'
      PROVE  GroupHasCause(d[1], d[2])
  <2>1. PICK c \in Causes : /\ CauseIsActive(c)' /\ d[2] \in CauseStay(c)'.nights
                            /\ Linked(CauseStay(c).type, d[1])'
    BY <1>4 DEF GroupHasCause
  <2>2. CauseStay(c)' \in Stays
    BY CauseStayTypeAfter
  <2>3. PICK u \in RoomTypes : Wanted(c, u)' /\ d[1] \in {CauseStay(c)'.type, u}
    BY <1>0, <2>1, <2>2, WitnessAfter
  <2>4. derived'[<<c, u>>].status = "active" /\ derived'[<<c, u>>].stay = CauseStay(c)'
    BY <2>3 DEF DerivedExact
  <2>5. derived'[<<c, u>>] = derived[<<c, u>>]
    BY <1>2, <2>1, <2>3, <2>4
  <2>6. Wanted(c, u) /\ CauseStay(c)' = CauseStay(c)
    BY <2>4, <2>5 DEF DerivedExact
  <2>7. CauseIsActive(c) /\ Linked(CauseStay(c).type, d[1])
    BY <2>3, <2>6 DEF Wanted, Linked, LinkedIn
  <2> QED BY <2>1, <2>6, <2>7 DEF GroupHasCause
<1> QED BY <1>3, <1>4

(* The stop-sell flags stay exact over a reconciler step.                  *)
LEMMA StopSellStep ==
    ASSUME TypeOK, GroupsNotSingle, GroupsNotSingle', DerivedExact, StopSellExact, Reconciles
    PROVE  StopSellExact'
<1>1. DerivedExact'
  BY DerivedStep
<1>2. PICK mid \in [Days -> DayRows] : \E revised, requested :
         /\ SourcesOK'
         /\ KeepsStopSell(mid)
         /\ ReconcileLinkedInventory(mid, revised, requested)
  BY DEF Reconciles
<1>3. PICK revised, requested :
         /\ SourcesOK'
         /\ KeepsStopSell(mid)
         /\ ReconcileLinkedInventory(mid, revised, requested)
  BY <1>2
<1> SUFFICES ASSUME NEW d \in Days
             PROVE  day'[d].linkedStopSell <=> GroupHasCause(d[1], d[2])'
  BY DEF StopSellExact
<1>4. CASE d \in Dirty(requested)
  <2>1. day'[d] = RecomputedDay(d, mid[d].assigned)
    BY <1>3, <1>4 DEF ReconcileLinkedInventory
  <2> QED BY <2>1 DEF RecomputedDay, DayRow
<1>5. CASE d \notin Dirty(requested)
  <2>1. day'[d].linkedStopSell = day[d].linkedStopSell
    BY <1>3, <1>5 DEF ReconcileLinkedInventory, KeepsStopSell
  <2>2. day[d].linkedStopSell <=> GroupHasCause(d[1], d[2])
    BY DEF StopSellExact
  <2> QED BY <1>1, <1>3, <1>5, <2>1, <2>2, CleanDay
<1> QED BY <1>4, <1>5

-----------------------------------------------------------------------------
(* Direct sales.                                                           *)

(* An assignment that adopted a receipt has the stay of the receipt.       *)
AdoptedStay ==
    \A r \in Receipts : assignment[r].status = "active" => assignment[r].stay = Stay[r]

Sold(r) == receipt[r] = "reserved" \/ assignment[r].status = "active"

(* A reserve of one receipt or of the lines of a bundle, after its checks. *)
CheckedReserve(R) ==
    /\ RecordReserved(R)
    /\ \A r \in R : RoomsAvailable(r)
    /\ \A r, s \in R : r # s => ~Linked(Stay[r].type, Stay[s].type)

(* Only a reserve adds to the direct sales.                                *)
LEMMA SaleChange ==
    ASSUME TypeOK, AdoptedStay, Next
    PROVE  /\ AdoptedStay'
           /\ \/ \A r \in Receipts : Sold(r)' => Sold(r)
              \/ \E R \in SUBSET Receipts : CheckedReserve(R)
<1> USE DEF AdoptedStay, Sold
<1>0. Receipts \subseteq Holders /\ \A o \in Otas : o \notin Receipts
  BY HolderAssumption DEF Holders
<1>1. CASE UNCHANGED <<receipt, assignment>>
  BY <1>1
<1>2. ASSUME NEW c \in Commands, NEW current \in ConfigurationAnswers, Reserve(c, current)
      PROVE  /\ AdoptedStay'
             /\ \/ \A r \in Receipts : Sold(r)' => Sold(r)
                \/ CheckedReserve({c})
  BY <1>2 DEF Reserve, ReserveValid, RecordReserved, CheckedReserve
<1>3. ASSUME NEW q \in Quotes, ReserveQuoteBundle(q)
      PROVE  AdoptedStay' /\ CheckedReserve(ReceiptsOf(q))
  BY <1>3 DEF ReserveQuoteBundle, LinesReservable, LinesNotLinked, RecordReserved,
              CheckedReserve
<1>4. ASSUME NEW r \in Receipts, Release(r)
      PROVE  AdoptedStay' /\ \A x \in Receipts : Sold(x)' => Sold(x)
  BY <1>4 DEF Release, ReleaseReserved, TypeOK
<1>5. ASSUME NEW q \in Quotes, AdoptAcceptedPricingReservation(q)
      PROVE  AdoptedStay' /\ \A x \in Receipts : Sold(x)' => Sold(x)
  BY <1>0, <1>5 DEF AdoptAcceptedPricingReservation, TypeOK
<1>6. ASSUME NEW q \in Quotes, CancelHostBookingAssignments(q)
      PROVE  AdoptedStay' /\ \A x \in Receipts : Sold(x)' => Sold(x)
  BY <1>0, <1>6 DEF CancelHostBookingAssignments, TypeOK, AssignmentRows
<1>7. ASSUME NEW o \in Otas, NEW s \in OtaStays, PersistChannexAssignment(o, s)
      PROVE  AdoptedStay' /\ \A x \in Receipts : Sold(x)' => Sold(x)
  BY <1>0, <1>7 DEF PersistChannexAssignment, TypeOK
<1>8. ASSUME NEW o \in Otas, CancelChannexAssignment(o)
      PROVE  AdoptedStay' /\ \A x \in Receipts : Sold(x)' => Sold(x)
  BY <1>0, <1>8 DEF CancelChannexAssignment, TypeOK
<1>9. \/ UNCHANGED <<receipt, assignment>>
      \/ \E c \in Commands, current \in ConfigurationAnswers : Reserve(c, current)
      \/ \E q \in Quotes : ReserveQuoteBundle(q)
      \/ \E r \in Receipts : Release(r)
      \/ \E q \in Quotes : AdoptAcceptedPricingReservation(q)
      \/ \E q \in Quotes : CancelHostBookingAssignments(q)
      \/ \E o \in Otas, s \in OtaStays : PersistChannexAssignment(o, s)
      \/ \E o \in Otas : CancelChannexAssignment(o)
  BY DEF Next, ReadWatermarks, RoomBlockCreate, RoomBlockUpdate, RoomBlockRelease,
         ApplyRoomBlockMutation, PutLinkedInventoryGroup, DeleteLinkedInventoryGroup
<1>10. /\ \A c \in Commands : {c} \in SUBSET Receipts
       /\ \A q \in Quotes : ReceiptsOf(q) \in SUBSET Receipts
  BY DEF Receipts, ReceiptsOf
<1> QED
  <2> HIDE DEF AdoptedStay, Sold
  <2> QED BY <1>1, <1>2, <1>3, <1>4, <1>5, <1>6, <1>7, <1>8, <1>9, <1>10
     
(* A checked night had no stop-sell, hence no cause in its group.          *)
LEMMA CheckedNightsFree ==
    ASSUME TypeOK, StopSellExact, NEW r \in Receipts, RoomsAvailable(r),
           NEW n \in Stay[r].nights
    PROVE  ~GroupHasCause(Stay[r].type, n)
<1> DEFINE d == <<Stay[r].type, n>>
<1>1. d \in Days /\ d \in DaysOf(Stay[r]) /\ d[1] = Stay[r].type /\ d[2] = n
  BY HolderAssumption DEF Days, DaysOf, Stays
<1>2. RoomCount[r] \in Nat /\ RoomCount[r] >= 1
  BY HolderAssumption
<1>3. DayInvariant(d) /\ day[d].available >= RoomCount[r]
  BY <1>1 DEF RoomsAvailable
<1>4. day[d].linkedStopSell => day[d].available = 0
  BY <1>3 DEF DayInvariant, AvailableCount
<1>5. ~day[d].linkedStopSell
  BY <1>2, <1>3, <1>4
<1> QED BY <1>1, <1>5 DEF StopSellExact

(* A direct sale is a live cause.                                          *)
LEMMA SaleIsCause ==
    ASSUME TypeOK, AdoptedStay, NEW r \in Receipts, Sold(r)
    PROVE  \E c \in Causes : CauseIsActive(c) /\ CauseStay(c) = Stay[r]
<1>1. CASE receipt[r] = "reserved"
  <2> DEFINE c == <<"receipt", <<r, 1>>>>
  <2>1. c \in Causes /\ c[1] = "receipt" /\ Source(c) = r
    BY DEF Causes, Source
  <2> QED BY <1>1, <2>1 DEF CauseIsActive, CauseStay
<1>2. CASE assignment[r].status = "active"
  <2> DEFINE c == <<"assignment", <<r, 1>>>>
  <2>1. <<r, 1>> \in Units
    BY HolderAssumption DEF Units, Holders, RoomsOf
  <2>2. c \in Causes /\ c[1] = "assignment" /\ Source(c) = r
    BY <2>1 DEF Causes, Source
  <2> QED BY <1>2, <2>2 DEF CauseIsActive, CauseStay, AdoptedStay
<1> QED BY <1>1, <1>2 DEF Sold

(* A direct sale is a reserved receipt or its adopted assignment.          *)
LEMMA DirectSales ==
    ASSUME AdoptedStay, NEW r \in Receipts, NEW t, NEW n
    PROVE  DirectSale(r, t, n) <=> Sold(r) /\ Stay[r].type = t /\ n \in Stay[r].nights
BY DEF AdoptedStay, DirectSale, Sold, Holds, Covers

(* NoDoubleSale, said of receipts.                                         *)
SalesApart ==
    \A r, s \in Receipts :
        /\ Sold(r) /\ Sold(s)
        /\ Stay[r].type # Stay[s].type /\ Linked(Stay[r].type, Stay[s].type)
        => Stay[r].nights \cap Stay[s].nights = {}

(* The invariant on sales gives NoDoubleSale.                              *)
LEMMA SalesApartSuffices ==
    ASSUME AdoptedStay, SalesApart
    PROVE  NoDoubleSale
BY DirectSales DEF SalesApart, NoDoubleSale

(* No command sells a second member of a group for a night.                *)
LEMMA SalesStep ==
    ASSUME TypeOK, AdoptedStay, StopSellExact, SalesApart, Next
    PROVE  SalesApart'
<1> SUFFICES ASSUME NEW r \in Receipts, NEW s \in Receipts, Sold(r)', Sold(s)',
                    Stay[r].type # Stay[s].type,
                    group'[Stay[r].type] # NoGroup,
                    group'[Stay[r].type] = group'[Stay[s].type],
                    NEW n \in Stay[r].nights, n \in Stay[s].nights
             PROVE  FALSE
  BY DEF SalesApart, Linked, LinkedIn
<1>0. Stay[r] \in Stays /\ Stay[s] \in Stays
  BY HolderAssumption
<1>1. ASSUME NEW R \in SUBSET Receipts, CheckedReserve(R) PROVE FALSE
  <2>0. /\ group' = group /\ assignment' = assignment
        /\ receipt' = [x \in Receipts |-> IF x \in R THEN "reserved" ELSE receipt[x]]
    BY <1>1 DEF CheckedReserve, RecordReserved, PersistReceipts
  <2>1. Linked(Stay[r].type, Stay[s].type) /\ Linked(Stay[s].type, Stay[r].type)
    BY <2>0 DEF Linked, LinkedIn
  <2>2. r \in R \/ Sold(r)
    BY <2>0 DEF Sold
  <2>3. s \in R \/ Sold(s)
    BY <2>0 DEF Sold
  <2>4. ~(r \in R /\ s \in R)
    BY <1>1, <2>1 DEF CheckedReserve
  <2>5. ASSUME NEW x \in Receipts, NEW y \in Receipts, x \in R, Sold(y),
               n \in Stay[x].nights, n \in Stay[y].nights,
               Linked(Stay[y].type, Stay[x].type)
        PROVE  FALSE
    <3>1. ~GroupHasCause(Stay[x].type, n)
      BY <1>1, <2>5, CheckedNightsFree DEF CheckedReserve
    <3>2. PICK c \in Causes : CauseIsActive(c) /\ CauseStay(c) = Stay[y]
      BY <2>5, SaleIsCause
    <3> QED BY <2>5, <3>1, <3>2 DEF GroupHasCause
  <2>6. ~(r \in R /\ Sold(s))
    BY <2>1, <2>5
  <2>7. ~(s \in R /\ Sold(r))
    BY <2>1, <2>5
  <2>8. ~(Sold(r) /\ Sold(s))
    BY <2>1 DEF SalesApart
  <2> QED BY <2>2, <2>3, <2>4, <2>6, <2>7, <2>8
<1>2. CASE \A x \in Receipts : Sold(x)' => Sold(x)
  <2>1. Sold(r) /\ Sold(s)
    BY <1>2
  <2>2. CASE Linked(Stay[r].type, Stay[s].type)
    BY <2>1, <2>2 DEF SalesApart
  <2>3. CASE ~Linked(Stay[r].type, Stay[s].type)
    <3>1. ~UNCHANGED group
      BY <2>3 DEF Linked, LinkedIn
    <3>2. ASSUME NEW g \in Groups, DeleteLinkedInventoryGroup(g) PROVE FALSE
      BY <1>0, <2>3, <3>2 DEF DeleteLinkedInventoryGroup, Linked, LinkedIn, Stays, TypeOK
    <3>3. ASSUME NEW g \in Groups, NEW members \in SUBSET RoomTypes,
                 PutLinkedInventoryGroup(g, members)
          PROVE  FALSE
      <4>1. Stay[r].type \in members /\ Stay[s].type \in members
        BY <1>0, <2>3, <3>3 DEF PutLinkedInventoryGroup, Linked, LinkedIn, Stays, TypeOK
      <4>2. PICK c \in Causes : CauseIsActive(c) /\ CauseStay(c) = Stay[r]
        BY <2>1, SaleIsCause
      <4>3. PICK e \in Causes : CauseIsActive(e) /\ CauseStay(e) = Stay[s]
        BY <2>1, SaleIsCause
      <4>4. c \in ActiveCausesOf(members) /\ e \in ActiveCausesOf(members)
        BY <4>1, <4>2, <4>3 DEF ActiveCausesOf
      <4>5. LinkedInventoryOverlap(members)
        BY <4>2, <4>3, <4>4 DEF LinkedInventoryOverlap
      <4> QED BY <3>3, <4>5 DEF PutLinkedInventoryGroup
    <3> QED BY <3>1, <3>2, <3>3, GroupChange
  <2> QED BY <2>2, <2>3
<1> QED BY <1>1, <1>2, SaleChange

-----------------------------------------------------------------------------
(* The inductive invariant and the theorems.                               *)

LinkedInv ==
    /\ TypeOK
    /\ GroupsNotSingle
    /\ DerivedExact
    /\ StopSellExact
    /\ AdoptedStay
    /\ SalesApart

(* The empty calendar satisfies the inductive invariant.                   *)
LEMMA LinkedInit == Init => LinkedInv
<1> SUFFICES ASSUME Init PROVE LinkedInv
  OBVIOUS
<1>1. TypeOK
  BY TypeInit
<1>2. \A t \in RoomTypes : group[t] = NoGroup
  BY DEF Init
<1>3. GroupsNotSingle
  BY <1>2 DEF GroupsNotSingle
<1>4. \A r \in Holders : assignment[r].status = "none"
  BY DEF Init
<1>5. \A c \in Causes : ~CauseIsActive(c)
  <2> TAKE c \in Causes
  <2>1. CASE c[1] = "receipt" /\ Source(c) \in Receipts
    BY <2>1 DEF Init, CauseIsActive
  <2>2. CASE c[1] = "assignment" /\ Source(c) \in Holders
    BY <2>2, <1>4 DEF CauseIsActive
  <2>3. CASE c[1] = "manual" /\ Source(c) \in Blocks
    BY <2>3 DEF Init, CauseIsActive
  <2> QED BY <2>1, <2>2, <2>3, CauseKinds
<1>6. DerivedExact
  BY <1>5 DEF Init, DerivedExact, Wanted
<1>7. StopSellExact
  BY <1>5 DEF Init, StopSellExact, GroupHasCause, DayRow
<1>8. Receipts \subseteq Holders
  BY DEF Holders
<1>9. AdoptedStay
  BY <1>4, <1>8 DEF AdoptedStay
<1>10. SalesApart
  BY <1>4, <1>8 DEF SalesApart, Sold, Init
<1> QED BY <1>1, <1>3, <1>6, <1>7, <1>9, <1>10 DEF LinkedInv

(* Steps that leave the sources alone leave what is derived from them.     *)
LEMMA SameCauses ==
    ASSUME UNCHANGED <<receipt, assignment, block, group>>
    PROVE  /\ \A c \in Causes : CauseStay(c)' = CauseStay(c)
           /\ \A c \in Causes : CauseIsActive(c)' <=> CauseIsActive(c)
           /\ \A t, u : Linked(t, u)' <=> Linked(t, u)
<1>1. ASSUME NEW c \in Causes PROVE CauseStay(c)' = CauseStay(c)
  BY DEF CauseStay
<1>2. ASSUME NEW c \in Causes PROVE CauseIsActive(c)' <=> CauseIsActive(c)
  BY DEF CauseIsActive
<1>3. \A t, u : Linked(t, u)' <=> Linked(t, u)
  BY DEF Linked, LinkedIn
<1> QED BY <1>1, <1>2, <1>3

(* A step that leaves the tables alone keeps the invariant.                *)
LEMMA SameLinkedInv ==
    ASSUME DerivedExact, StopSellExact,
           UNCHANGED <<receipt, assignment, block, group, derived, day>>
    PROVE  DerivedExact' /\ StopSellExact'
<1>1. \A c \in Causes, t \in RoomTypes : Wanted(c, t)' <=> Wanted(c, t)
  BY SameCauses DEF Wanted
<1>2. \A d \in Days : GroupHasCause(d[1], d[2])' <=> GroupHasCause(d[1], d[2])
  BY SameCauses DEF GroupHasCause
<1>3. DerivedExact'
  BY <1>1, SameCauses DEF DerivedExact
<1>4. StopSellExact'
  BY <1>2 DEF StopSellExact
<1> QED BY <1>3, <1>4

(* Every command keeps the inductive invariant.                            *)
LEMMA LinkedStep == LinkedInv /\ [Next]_vars => LinkedInv'
<1> SUFFICES ASSUME LinkedInv, [Next]_vars PROVE LinkedInv'
  OBVIOUS
<1>0. /\ TypeOK /\ GroupsNotSingle /\ DerivedExact /\ StopSellExact /\ AdoptedStay
      /\ SalesApart
  BY DEF LinkedInv
<1>1. CASE Next
  <2>1. TypeOK'
    BY <1>0, TypeStep
  <2>2. GroupsNotSingle'
    BY <1>0, <1>1, GroupsStep
  <2>3. AdoptedStay' /\ SalesApart'
    BY <1>0, <1>1, SaleChange, SalesStep
  <2>4. CASE Quiet
    <3>1. UNCHANGED <<receipt, assignment, block, group, derived, day>>
      BY <2>4 DEF Quiet
    <3> QED BY <1>0, <2>1, <2>2, <2>3, <3>1, SameLinkedInv DEF LinkedInv
  <2>5. CASE Reconciles
    BY <1>0, <2>1, <2>2, <2>3, <2>5, DerivedStep, StopSellStep DEF LinkedInv
  <2> QED BY <1>0, <1>1, <2>4, <2>5, NextShape
<1>2. CASE UNCHANGED vars
  <2>1. UNCHANGED <<receipt, assignment, block, group, derived, day>>
    BY <1>2 DEF vars
  <2>2. TypeOK'
    BY <1>0, <1>2, TypeStep
  <2>3. GroupsNotSingle' /\ AdoptedStay' /\ SalesApart'
    BY <1>0, <2>1 DEF GroupsNotSingle, AdoptedStay, SalesApart, Sold, Linked, LinkedIn
  <2> QED BY <1>0, <2>1, <2>2, <2>3, SameLinkedInv DEF LinkedInv
<1> QED BY <1>1, <1>2

(* Derived rows, stop-sell flags and direct sales agree in every state.    *)
THEOREM LinkedInvariant == Spec => []LinkedInv
BY LinkedInit, LinkedStep, PTL DEF Spec

(* The rows of reconcilePmsLinkedInventory are at all times those of the   *)
(* live causes, with their stays.                                          *)
THEOREM DerivedRowsExact == Spec => []DerivedExact
<1>1. LinkedInv => DerivedExact
  BY DEF LinkedInv
<1> QED BY <1>1, LinkedInvariant, PTL

(* A night is under stop-sell exactly while its group has a live cause,    *)
(* although the reconciler rewrites only dirty days.                       *)
THEOREM StopSellIsExact == Spec => []StopSellExact
<1>1. LinkedInv => StopSellExact
  BY DEF LinkedInv
<1> QED BY <1>1, LinkedInvariant, PTL

(* Two members of a linked group are never sold directly for one night.    *)
THEOREM NeverSoldTwice == Spec => []NoDoubleSale
<1>1. LinkedInv => NoDoubleSale
  BY SalesApartSuffices DEF LinkedInv
<1> QED BY <1>1, LinkedInvariant, PTL

(* A receipt is only ever reserved on nights on which its group is free of *)
(* bookings, OTA stays and manual blocks.                                  *)
THEOREM SalesNeedFreeGroup == Spec => SaleNeedsFreeGroup
<1> DEFINE Free ==
      \A r \in Receipts :
         (receipt[r] = "none" /\ receipt'[r] = "reserved") =>
            \A n \in Stay[r].nights : ~GroupHasCause(Stay[r].type, n)
<1>1. ASSUME LinkedInv, [Next]_vars PROVE [Free]_vars
  <2>1. TypeOK /\ AdoptedStay /\ StopSellExact
    BY <1>1 DEF LinkedInv
  <2>2. ASSUME Next, NEW r \in Receipts, receipt[r] = "none", receipt'[r] = "reserved",
               NEW n \in Stay[r].nights
        PROVE  ~GroupHasCause(Stay[r].type, n)
    <3>1. RoomsAvailable(r)
      <4>1. ASSUME NEW c \in Commands, NEW current \in ConfigurationAnswers, Reserve(c, current)
            PROVE  RoomsAvailable(r)
        BY <2>2, <4>1 DEF Reserve, ReserveValid, RecordReserved, PersistReceipts
      <4>2. ASSUME NEW q \in Quotes, ReserveQuoteBundle(q) PROVE RoomsAvailable(r)
        BY <2>2, <4>2 DEF ReserveQuoteBundle, LinesReservable, RecordReserved, PersistReceipts
      <4>3. ASSUME NEW x \in Receipts, Release(x) PROVE FALSE
        BY <2>1, <2>2, <4>3 DEF Release, ReleaseReserved, TypeOK
      <4>4. ASSUME NEW q \in Quotes, AdoptAcceptedPricingReservation(q) PROVE FALSE
        BY <2>1, <2>2, <4>4 DEF AdoptAcceptedPricingReservation, TypeOK
      <4>5. receipt' # receipt
        BY <2>2
      <4> QED BY <2>2, <4>1, <4>2, <4>3, <4>4, <4>5
              DEF Next, ReadWatermarks, CancelHostBookingAssignments,
                  PersistChannexAssignment, CancelChannexAssignment, RoomBlockCreate,
                  RoomBlockUpdate, RoomBlockRelease, ApplyRoomBlockMutation,
                  PutLinkedInventoryGroup, DeleteLinkedInventoryGroup
    <3> QED BY <2>1, <2>2, <3>1, CheckedNightsFree
  <2> QED BY <1>1, <2>2
<1>2. Spec => [][Free]_vars
  BY <1>1, LinkedInvariant, PTL DEF Spec
<1> QED BY <1>2 DEF SaleNeedsFreeGroup
=============================================================================
