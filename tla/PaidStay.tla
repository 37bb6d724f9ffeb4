------------------------------ MODULE PaidStay ------------------------------
(***************************************************************************)
(* What a card booking promises, with nothing of how it is kept: the stay  *)
(* stands only once its money was taken, it ends unpaid only once its      *)
(* money can never be taken, and the card is touched only while the stay   *)
(* waits.  (What a cancelled stay gives back is GuestRefund's promise.)    *)
(***************************************************************************)

VARIABLES
    state,  \* "none", "waiting", "standing", "cancelled" or "over"
    money   \* "none", "held", "taken" or "void"

PSInit == state = "none" /\ money = "none"

Ask == state = "none" /\ state' = "waiting" /\ UNCHANGED money

Hold == state = "waiting" /\ money = "none" /\ money' = "held" /\ UNCHANGED state

Take == state = "waiting" /\ money \in {"none", "held"} /\ money' = "taken" /\ UNCHANGED state

Void == state = "waiting" /\ money \in {"none", "held"} /\ money' = "void" /\ UNCHANGED state

Confirm == state = "waiting" /\ money = "taken" /\ state' = "standing" /\ UNCHANGED money

End == state = "waiting" /\ money = "void" /\ state' = "over" /\ UNCHANGED money

Cancel == state = "standing" /\ state' = "cancelled" /\ UNCHANGED money

PSNext == Ask \/ Hold \/ Take \/ Void \/ Confirm \/ End \/ Cancel

PSSpec == PSInit /\ [][PSNext]_<<state, money>>
=============================================================================
