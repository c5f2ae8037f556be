---------------------------- MODULE CandidateSet ----------------------------
(***************************************************************************)
(* What the gold list promises, whatever queue and index it is made of: a  *)
(* set of at most Limit tokens, each of them in it once, that counts what  *)
(* came and what went.  A token refused is not counted, and neither is the *)
(* removal of one that is not there.                                       *)
(***************************************************************************)
EXTENDS Integers, FiniteSets

CONSTANTS Token, Limit

VARIABLES members, added, removed

Init ==
    /\ members = {}
    /\ added = 0
    /\ removed = 0

Add(m) ==
    /\ m \notin members
    /\ Cardinality(members) < Limit
    /\ members' = members \cup {m}
    /\ added' = added + 1
    /\ UNCHANGED removed

Remove(m) ==
    /\ m \in members
    /\ members' = members \ {m}
    /\ removed' = removed + 1
    /\ UNCHANGED added

Next == \E m \in Token : Add(m) \/ Remove(m)

Spec == Init /\ [][Next]_<<members, added, removed>>
=============================================================================
