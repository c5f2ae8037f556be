------------------------------ MODULE MCSafety ------------------------------
(* Small instances of Safety for TLC; the cfg files give the values.       *)
EXTENDS Safety, TLC

(* No definition of Safety tells one event from another.                   *)
EventSymmetry == Permutations(Events)
=============================================================================
