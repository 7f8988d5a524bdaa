---------------------------- MODULE MCGadAbility ----------------------------
(* An instance of GadAbility for TLC: two levels that nothing tells apart. *)
EXTENDS GadAbility, TLC

CONSTANTS a, b  \* levels

LevelSymmetry == Permutations({a, b})
=============================================================================
