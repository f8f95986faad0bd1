---------------------------- MODULE MCOrderSystem ----------------------------
(* Instances of OrderSystem for TLC.                                       *)
EXTENDS OrderLiveness, TLC

CONSTANTS r1, r2

PaymentKinds == {"pay", "cancel", "hook"}

PayoutKinds == {"settle", "hook"}

AllKinds == {"pay", "poll", "cancel", "finish", "confirm", "expire", "settle",
             "hook"}

TwoRequests == {r1, r2}

\* No handler looks at which request it is.
Symmetry == Permutations(Requests)

=============================================================================
