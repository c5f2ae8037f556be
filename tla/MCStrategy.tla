----------------------------- MODULE MCStrategy -----------------------------
(* Small instances of Strategy for TLC; the cfg files give the values.     *)
EXTENDS Strategy

(* No definition of Strategy tells one mint from another.                  *)
MintSymmetry == Permutations(Mints)
=============================================================================
