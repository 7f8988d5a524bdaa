-------------------------- MODULE MCCheckReporting --------------------------
(* Instances of CheckReporting for TLC. *)
EXTENDS CheckReporting

CONSTANTS item, item2, soul, other   \* locations

(* A soul in level B; in level A a location with the soul's index as its id. *)
SoulInB == [l \in Locs |-> IF l = soul THEN "B" ELSE "A"]
Slots == [l \in Locs |-> IF l \in {soul, other} THEN 31 ELSE 1]
=============================================================================
