---------------------------- MODULE MCCardRefund ----------------------------
(* CardRefund for TLC; every bound is in the actions' guards. *)
EXTENDS CardRefund
=============================================================================
