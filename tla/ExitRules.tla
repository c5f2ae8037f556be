----------------------------- MODULE ExitRules -----------------------------
(***************************************************************************)
(* The pure rules of src/velocity-sniper/src/strategy.rs that decide when  *)
(* a held position is sold.  Prices are percentages of the entry price, so *)
(* 100 is the entry price and 115 a price 15% above it.                    *)
(***************************************************************************)
EXTENDS Integers

CONSTANTS
    TakeProfitPct,   \* trading.take_profit_pct, in percent
    StopLossPct,     \* trading.stop_loss_pct, in percent
    MaxHoldSeconds,  \* trading.max_hold_seconds
    EarlySeconds,    \* the literal 30 of the simulated price
    MidSeconds,      \* the literal 60 of the simulated price
    StallSeconds     \* the literal 10 of the stall rule

ASSUME ExitRulesAssumption ==
    /\ TakeProfitPct \in Nat \ {0}
    /\ StopLossPct \in 0..100
    /\ MaxHoldSeconds \in Nat
    /\ StallSeconds \in Nat
    /\ EarlySeconds \in Nat
    /\ MidSeconds \in Nat
    /\ StallSeconds <= EarlySeconds
    /\ EarlySeconds <= MidSeconds

Reasons == {"TakeProfit", "StopLoss", "MaxHoldTime", "VelocityDrop", "Manual"}

(* No price feed exists: the price is a function of the time held.         *)
SimulatedPrice(held) ==
    IF held < EarlySeconds THEN 105 ELSE IF held < MidSeconds THEN 110 ELSE 115

Pnl(held) == SimulatedPrice(held) - 100

(* calculate_trailing_stop: the stop for the current price alone; nothing  *)
(* of an earlier call enters it.                                           *)
TrailingStop(price) ==
    LET gain == price - 100
    IN  CASE gain < 5                  -> 100 - StopLossPct
          [] gain >= 5  /\ gain < 10   -> 70
          [] gain >= 10 /\ gain < 20   -> 75
          [] gain >= 20 /\ gain < 30   -> 85
          [] gain >= 30 /\ gain < 50   -> 95
          [] gain >= 50 /\ gain < 75   -> 110
          [] OTHER                     -> 130

(* A mistake: one second early.                                            *)
HitsEarly(held)      == held + 1 >= MaxHoldSeconds

HitsTakeProfit(held) == Pnl(held) >= TakeProfitPct
HitsStop(held)       == SimulatedPrice(held) <= TrailingStop(SimulatedPrice(held))
HitsMaxHold(held)    == held >= MaxHoldSeconds
Stalls(held)         == held >= StallSeconds /\ Pnl(held) < 2

(* The four tests of an exit loop, in the order the loop makes them.       *)
MustExit(held) ==
    HitsTakeProfit(held) \/ HitsStop(held) \/ HitsMaxHold(held) \/ Stalls(held)

ExitReason(held) ==
    IF HitsTakeProfit(held) THEN "TakeProfit"
    ELSE IF HitsStop(held)  THEN "StopLoss"
    ELSE IF HitsMaxHold(held) THEN "MaxHoldTime"
    ELSE "VelocityDrop"

(* What the loop books as the profit, in percent of the entry price.       *)
BookedPnl(reason, held) ==
    CASE reason = "TakeProfit"  -> Pnl(held)
      [] reason = "StopLoss"    -> TrailingStop(SimulatedPrice(held)) - 100
      [] reason = "MaxHoldTime" -> -10
      [] OTHER                  -> -5
=============================================================================
