-------------------------- MODULE MCInboxDelivery --------------------------
(* Instances of InboxDelivery for TLC.                                     *)
EXTENDS InboxDelivery, TLC

CONSTANTS m1, m2, w1, w2

Both == {m1, m2}

(* Two replies to one thread, or one reply submitted twice under its key.  *)
TwoKeys == (m1 :> "k1") @@ (m2 :> "k2")
OneKey == [m \in Both |-> "k1"]
OneThread == [m \in Both |-> "t1"]

Ota == [m \in Both |-> "ota"]
Email == [m \in Both |-> "email"]

WorkerSymmetry == Permutations(Workers)
=============================================================================
