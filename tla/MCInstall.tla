------------------------------ MODULE MCInstall ------------------------------
(* Values for TLC: the two seeds are interchangeable.                        *)
EXTENDS Install, TLC

SeedSymmetry == Permutations(Seeds)
=============================================================================
