---------------------------- MODULE PositionBook ----------------------------
(***************************************************************************)
(* What the strategy promises about positions, whatever tasks, locks and   *)
(* RPC calls lie behind it: a position is opened once, while fewer than    *)
(* Limit are open, is closed at most once, and never comes back.           *)
(***************************************************************************)
EXTENDS Integers, FiniteSets

CONSTANTS Position, Limit

VARIABLES open, closed

Init ==
    /\ open = {}
    /\ closed = {}

Open(p) ==
    /\ p \notin open \cup closed
    /\ Cardinality(open) < Limit
    /\ open' = open \cup {p}
    /\ UNCHANGED closed

Close(p) ==
    /\ p \in open
    /\ open' = open \ {p}
    /\ closed' = closed \cup {p}

Next == \E p \in Position : Open(p) \/ Close(p)

Spec == Init /\ [][Next]_<<open, closed>>
=============================================================================
