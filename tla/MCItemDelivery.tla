--------------------------- MODULE MCItemDelivery ---------------------------
(* Instances of ItemDelivery for TLC. *)
EXTENDS ItemDelivery, TLC

CONSTANTS a, b   \* locations

MCPayloads == [kind : Kinds, own : BOOLEAN]

(* What our own locations hold: a counter item and a bundle of cadeaux, or one thing. *)
StackAndCadeaux == a :> "stack" @@ b :> "cadeaux"
CadeauxAtA == a :> "cadeaux"
SoulAtA == a :> "soul"
Nowhere == [l \in Locs |-> "flag"]

OneEach == [k \in Kinds |-> 1]

(* A cadeaux bundle is worth two here, everything else one. *)
BundleOfTwo == [k \in Kinds |-> IF k = "cadeaux" THEN 2 ELSE 1]
Large == [k \in Kinds |-> 120]
=============================================================================
