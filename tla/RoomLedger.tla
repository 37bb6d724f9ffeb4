----------------------------- MODULE RoomLedger -----------------------------
(***************************************************************************)
(* What the inventory of a property promises, with none of its machinery:  *)
(* each booking is unbooked, then holds a stay, then is gone for good; it  *)
(* may move to another stay while it is held; and on no night are more     *)
(* rooms of a type held than the property has.  There are no counts, no    *)
(* receipts, no hand-off and no retries here.                              *)
(***************************************************************************)
EXTENDS Integers, FiniteSets

CONSTANTS
    Holders,    \* bookings
    Units,      \* their rooms, <<holder, i>>
    RoomTypes,
    Nights,
    Capacity    \* [RoomTypes -> Nat]

VARIABLE ledger \* [Holders -> [state, type, nights]]

Vacant(s) == [state: {s}, type: RoomTypes, nights: {{}}]
Entries == Vacant("unbooked") \cup Vacant("gone")
           \cup [state: {"held"}, type: RoomTypes, nights: SUBSET Nights]

HeldRooms(t, n) ==
    {u \in Units : /\ ledger[u[1]].state = "held"
                   /\ ledger[u[1]].type = t
                   /\ n \in ledger[u[1]].nights}

(* No night is oversold, whatever the order of the commands.               *)
NeverOverbooked ==
    \A t \in RoomTypes, n \in Nights : Cardinality(HeldRooms(t, n)) <= Capacity[t]

Init ==
    /\ ledger \in [Holders -> Vacant("unbooked")]

Moves(H, from, to) ==
    \A h \in Holders : IF h \in H
                       THEN ledger[h].state = from /\ ledger'[h].state = to
                       ELSE ledger'[h] = ledger[h]

(* The rooms of one quote are booked together; so are they dropped.        *)
Next ==
    /\ ledger' \in [Holders -> Entries]
    /\ \E H \in SUBSET Holders :
          \/ Moves(H, "unbooked", "held")
          \/ Moves(H, "held", "held")
          \/ Moves(H, "held", "gone")
    /\ NeverOverbooked'

Spec == Init /\ [][Next]_ledger
=============================================================================
