------------------------------ MODULE BuyOnce -------------------------------
(***************************************************************************)
(* What the velocity monitor promises to the orchestrator that reads its   *)
(* signals: each time a token is announced is counted and arms it, however *)
(* often it was announced before, and to buy it disarms it.  Nothing but   *)
(* an announcement arms.  So two Buy signals of one token always have one  *)
(* between them, and announcements do not add up.                          *)
(***************************************************************************)
EXTENDS Naturals, Sequences

CONSTANT Token

VARIABLES announced, armed, bought

Init ==
    /\ announced = [m \in Token |-> 0]
    /\ armed = {}
    /\ bought = <<>>

Announce(m) ==
    /\ announced' = [announced EXCEPT ![m] = @ + 1]
    /\ armed' = armed \cup {m}
    /\ UNCHANGED bought

Buy(m) ==
    /\ m \in armed
    /\ armed' = armed \ {m}
    /\ bought' = Append(bought, m)
    /\ UNCHANGED announced

Next == \E m \in Token : Announce(m) \/ Buy(m)

Spec == Init /\ [][Next]_<<announced, armed, bought>>
=============================================================================
