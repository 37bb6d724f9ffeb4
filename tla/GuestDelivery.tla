--------------------------- MODULE GuestDelivery ---------------------------
(***************************************************************************)
(* What the Inbox promises of an outbound message, with no outbox, jobs,   *)
(* leases, attempts or providers: it reaches the guest at most once, its   *)
(* visible outcome is final, `sent' means that it did reach the guest, and *)
(* nothing is sent any more once it is `failed' or deleted.                *)
(***************************************************************************)
EXTENDS Naturals

CONSTANT Messages

VARIABLES
    phase,  \* [Messages -> Phases]
    copies  \* [Messages -> Nat]: how often the guest got the message

Phases == {"none", "pending", "sent", "held", "failed", "deleted"}

Init == /\ phase = [m \in Messages |-> "none"]
        /\ copies = [m \in Messages |-> 0]

(* A reply is accepted, held at once when it has no route.                 *)
Accept(m) == /\ phase[m] = "none"
             /\ phase' \in {[phase EXCEPT ![m] = p] : p \in {"pending", "held"}}
             /\ UNCHANGED copies

(* A worker that lost its lease may still deliver a message that was held  *)
(* because its outcome was unknown.                                        *)
Deliver(m) == /\ phase[m] \in {"pending", "held"} /\ copies[m] = 0
              /\ copies' = [copies EXCEPT ![m] = 1]
              /\ UNCHANGED phase

Settle(m) ==
    /\ phase[m] = "pending"
    /\ \E p \in {"sent", "held", "failed", "deleted"} :
          /\ p = "sent" => copies[m] = 1
          /\ p = "deleted" => copies[m] = 0
          /\ phase' = [phase EXCEPT ![m] = p]
    /\ UNCHANGED copies

Next == \E m \in Messages : Accept(m) \/ Deliver(m) \/ Settle(m)

Spec == Init /\ [][Next]_<<phase, copies>>
=============================================================================
