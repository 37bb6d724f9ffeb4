---------------------------- MODULE GuestRefund ----------------------------
(***************************************************************************)
(* What a cancelled, paid stay promises its guest about the refund: one    *)
(* refund at most stands at a time, "refunded" is said only of money that  *)
(* reached the guest, and "not refunded" only when none stands and none    *)
(* will come to stand.  Money that reached the guest may still come back.  *)
(* When Stripe holds a refund somebody made by hand, a person takes over   *)
(* ("handed") and may ask again; the promise ends when that overtakes an   *)
(* earlier request ("overtaken").                                          *)
(***************************************************************************)
EXTENDS Naturals

VARIABLES
    refund,  \* "none", "asked", "refunded", "notRefunded", "handed" or "overtaken"
    moved,   \* how many refunds that we asked for stand at Stripe
    reached  \* one arrived since the guest was last told "not refunded"

GRInit == refund = "none" /\ moved = 0 /\ ~reached

Ask == refund \in {"none", "notRefunded", "handed"} /\ refund' = "asked" /\ UNCHANGED <<moved, reached>>

Move ==
    /\ refund \in {"asked", "handed"} /\ moved = 0
    /\ moved' = 1 /\ reached' \in {reached, TRUE}
    /\ UNCHANGED refund

Arrive == refund \in {"asked", "handed"} /\ moved = 1 /\ reached' = TRUE /\ UNCHANGED <<refund, moved>>

\* The bank turns a refund down, on its way or after it had arrived.
Bounce == moved = 1 /\ moved' = 0 /\ UNCHANGED <<refund, reached>>

SayRefunded == refund = "asked" /\ reached /\ refund' = "refunded" /\ UNCHANGED <<moved, reached>>

SayNotRefunded ==
    /\ refund = "asked" /\ moved = 0
    /\ refund' = "notRefunded" /\ reached' = FALSE
    /\ UNCHANGED moved

HandOver == refund = "asked" /\ refund' = "handed" /\ UNCHANGED <<moved, reached>>

Overtake == refund = "handed" /\ refund' = "overtaken" /\ moved' = 0 /\ reached' = FALSE

GRNext ==
    \/ Ask \/ Move \/ Arrive \/ Bounce
    \/ SayRefunded \/ SayNotRefunded \/ HandOver \/ Overtake

GRSpec == GRInit /\ [][GRNext]_<<refund, moved, reached>>
=============================================================================
