---------------------------- MODULE MCVelocity ------------------------------
(* Small instances of Velocity for TLC; the cfg files give the values.     *)
EXTENDS Velocity
=============================================================================
