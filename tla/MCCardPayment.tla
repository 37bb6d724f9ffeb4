--------------------------- MODULE MCCardPayment ---------------------------
(* Both acceptance modes of one card booking. *)
EXTENDS CardPayment
=============================================================================
