---------------------------- MODULE TradeMonitor ----------------------------
(***************************************************************************)
(* TradeMonitor of trade_monitor.rs: one position, checked every 100 ms by *)
(* start_monitoring.  A check copies the position's fields, takes part of  *)
(* the position out at 25 % ("FREE TRADE"), and sells it in full when one  *)
(* of the exit rules says so.                                              *)
(*                                                                         *)
(* start_monitoring never returns the &mut self it was called with, so     *)
(* open_position and close_position are possible only before it; nothing   *)
(* in the program calls them, and the model lets a caller do it.  A step   *)
(* is what happens between two awaits; only the sleeps and the sells       *)
(* really wait.                                                            *)
(***************************************************************************)
EXTENDS Integers

CONSTANTS
    NoPosition,    \* None, where the code has an Option
    TokenAmounts,  \* the token amounts positions are opened with
    StallSeconds,  \* 10 in the code
    Age1,          \* 30, 60 and 120: where the simulated price goes up
    Age2,
    Age3,
    MaxHold,       \* 300
    AgeCap,        \* bound: ages saturate here
    MaxBack,       \* bound: by how much the clock may be set back, once
    Modulus        \* 2^64, scaled like the ages

ASSUME TradeMonitorAssumption ==
    /\ NoPosition \notin [age : Int, stop : Nat, amount : Nat, partial : BOOLEAN,
                          short : SUBSET Nat]
    /\ TokenAmounts \subseteq Nat
    /\ {StallSeconds, Age1, Age2, Age3, MaxHold, AgeCap, MaxBack, Modulus} \subseteq Nat
    /\ 0 < StallSeconds /\ StallSeconds < Age1 /\ Age1 < Age2 /\ Age2 < Age3
    /\ Age3 < MaxHold /\ MaxHold <= AgeCap /\ AgeCap + MaxBack < Modulus

VARIABLES
    position,   \* the position, or NoPosition
    monitor,    \* where start_monitoring stands, with what it copied
    sold,       \* tokens the executor was asked to sell of the position
    bought,     \* the position's first token amount; no field of the code
    ticked,     \* a second has passed in the present sleep
    prompt      \* no check came late, the clock was not set back

clock == <<ticked, prompt>>
vars  == <<position, monitor, sold, bought, clock>>

(* Percents of the entry price.  For the same entry price f64 may find a   *)
(* gain just below the whole percent it is, and "short" says at which      *)
(* prices it does.  Token amounts are in tenths.                           *)
Prices   == {105, 110, 120, 125}
Stops    == {65, 70, 75, 85, 95, 110, 130}
Position == [age : Int, stop : Stops, amount : Nat, partial : BOOLEAN,
             short : SUBSET Prices]

Opened(tokens, short) ==
    [age |-> 0, stop |-> 65, amount |-> 10 * tokens, partial |-> FALSE, short |-> short]

At(at) == [at |-> at, held |-> 0, amount |-> 0]

Init ==
    /\ position = NoPosition
    /\ monitor = At("new")
    /\ sold = 0 /\ bought = 0
    /\ ticked = FALSE /\ prompt = TRUE

-----------------------------------------------------------------------------
(* Callers, before the monitor starts.  A second open_position replaces    *)
(* the first position.                                                     *)

OpenPosition(tokens, short) ==
    /\ monitor.at = "new"
    /\ position' = Opened(tokens, short)
    /\ bought' = tokens
    /\ ticked' = FALSE /\ prompt' = TRUE
    /\ UNCHANGED <<monitor, sold>>

ClosePosition ==
    /\ monitor.at = "new"
    /\ position # NoPosition
    /\ position' = NoPosition
    /\ bought' = 0
    /\ UNCHANGED <<monitor, sold, clock>>

StartMonitoring ==
    /\ monitor.at = "new"
    /\ monitor' = At("asleep")
    /\ UNCHANGED <<position, sold, bought, clock>>

-----------------------------------------------------------------------------
(* The clock.  A sleep lasts 100 ms: more than one second in it means that *)
(* the process was held up.  A sell takes as long as it takes.             *)

Tick ==
    /\ position # NoPosition
    /\ position.age < AgeCap
    /\ position' = [position EXCEPT !.age = @ + 1]
    /\ IF monitor.at \in {"new", "asleep"}
       THEN ticked' = TRUE /\ prompt' = (prompt /\ ~ticked)
       ELSE UNCHANGED clock
    /\ UNCHANGED <<monitor, sold, bought>>

SetBack(seconds) ==
    /\ position # NoPosition
    /\ prompt
    /\ position' = [position EXCEPT !.age = @ - seconds]
    /\ prompt' = FALSE
    /\ UNCHANGED <<monitor, sold, bought, ticked>>

-----------------------------------------------------------------------------
(* The rules of a check.                                                   *)

(* num_seconds() as u64: an entry time in the future wraps.                *)
Held(age) == age % Modulus

SimulatePrice(held) ==
    CASE held < Age1             -> 105
      [] held \in Age1..Age2 - 1 -> 110
      [] held \in Age2..Age3 - 1 -> 120
      [] held >= Age3            -> 125

Pnl(price, short) == price - 100 - IF price \in short THEN 1 ELSE 0

StopFor(pnl) ==
    CASE pnl < 5              -> 65
      [] pnl \in 5..9         -> 70
      [] pnl \in 10..19       -> 75
      [] pnl \in 20..29       -> 85
      [] pnl \in 30..49       -> 95
      [] pnl \in 50..74       -> 110
      [] pnl >= 75            -> 130

(* A mistake: the stop follows the price both ways.                        *)
StopAtPrice(stop, pnl) == StopFor(pnl)

UpdateTrailingStop(stop, pnl) == IF StopFor(pnl) > stop THEN StopFor(pnl) ELSE stop

(* A mistake: the gain must exceed the threshold.                          *)
ExceedsFreeTrade(pnl) == pnl > 25

ReachesFreeTrade(pnl) == pnl >= 25

(* Take profit, trailing stop, stall, maximum hold.  The predictive exit   *)
(* compares two entries of a history that holds nothing but 100s, and      *)
(* never fires.                                                            *)
MustSell(held, pnl, stop) ==
    \/ SimulatePrice(held) >= 150
    \/ SimulatePrice(held) <= stop
    \/ held >= StallSeconds /\ pnl < 2
    \/ held >= MaxHold

-----------------------------------------------------------------------------
(* One check.  Everything is decided from the values copied at its start,  *)
(* but the stop, which is read again after the partial sale.               *)

Due == monitor.at = "asleep" /\ position # NoPosition

HeldNow == Held(position.age)
PnlNow  == Pnl(SimulatePrice(HeldNow), position.short)
Raised  == [position EXCEPT !.stop = UpdateTrailingStop(@, PnlNow)]

TakesFreeTrade == ~position.partial /\ ReachesFreeTrade(PnlNow)

(* execute_sell_internal is called, or the check is over.                  *)
SellInFull(held, amount) ==
    /\ monitor' = [at |-> "selling", held |-> held, amount |-> amount]
    /\ sold' = sold + amount \div 10

CheckOver == monitor' = At("asleep") /\ UNCHANGED sold

CheckKeeps ==
    /\ Due /\ ~TakesFreeTrade
    /\ ~MustSell(HeldNow, PnlNow, Raised.stop)
    /\ position' = Raised
    /\ CheckOver
    /\ ticked' = FALSE
    /\ UNCHANGED <<bought, prompt>>

(* A mistake: the position is given up before its sell has ended.          *)
SellsAfterClosing ==
    /\ Due /\ ~TakesFreeTrade
    /\ MustSell(HeldNow, PnlNow, Raised.stop)
    /\ position' = NoPosition
    /\ SellInFull(HeldNow, position.amount)
    /\ ticked' = FALSE
    /\ UNCHANGED <<bought, prompt>>

CheckSells ==
    /\ Due /\ ~TakesFreeTrade
    /\ MustSell(HeldNow, PnlNow, Raised.stop)
    /\ position' = Raised
    /\ SellInFull(HeldNow, position.amount)
    /\ ticked' = FALSE
    /\ UNCHANGED <<bought, prompt>>

(* execute_sell_fast for 40 %.                                             *)
CheckFreeTrade ==
    /\ Due /\ TakesFreeTrade
    /\ position' = Raised
    /\ monitor' = [at |-> "freeTrade", held |-> HeldNow, amount |-> position.amount]
    /\ sold' = sold + (position.amount * 4) \div 100
    /\ ticked' = FALSE
    /\ UNCHANGED <<bought, prompt>>

(* Two mistakes: the amount stays; the partial sale is not noted.          *)
AmountKept(p)   == [p EXCEPT !.partial = TRUE]
NotPartial(p)   == [p EXCEPT !.amount = (@ * 6) \div 10]

FreeTraded(p) == [p EXCEPT !.amount = (@ * 6) \div 10, !.partial = TRUE]

(* The partial sale returned, its result is dropped, and the same check    *)
(* goes on to the exit rules with the amount it copied.                    *)
FreeTradeSold ==
    /\ monitor.at = "freeTrade"
    /\ position' = FreeTraded(position)
    /\ LET held == monitor.held
           pnl  == Pnl(SimulatePrice(held), position.short)
       IN  \/ /\ MustSell(held, pnl, position.stop)
              /\ SellInFull(held, monitor.amount)
           \/ /\ ~MustSell(held, pnl, position.stop)
              /\ CheckOver
    /\ UNCHANGED <<bought, clock>>

(* A mistake: the position stays after its sale.                           *)
SoldNotClosed ==
    /\ monitor.at = "selling"
    /\ CheckOver
    /\ UNCHANGED <<position, bought, clock>>

(* The sell returned; its result is dropped.                               *)
Sold ==
    /\ monitor.at = "selling"
    /\ position' = NoPosition
    /\ CheckOver
    /\ UNCHANGED <<bought, clock>>

Check == CheckKeeps \/ CheckSells \/ CheckFreeTrade

Next ==
    \/ \E tokens \in TokenAmounts, short \in SUBSET Prices : OpenPosition(tokens, short)
    \/ ClosePosition
    \/ StartMonitoring
    \/ Tick
    \/ \E seconds \in 1..MaxBack : SetBack(seconds)
    \/ Check \/ FreeTradeSold \/ Sold

Spec == Init /\ [][Next]_vars

(* The task gets the guard and is polled, a sleep ends, a sell returns     *)
(* (its calls have timeouts), and time goes on.                            *)
Fairness ==
    /\ WF_vars(StartMonitoring)
    /\ WF_vars(Check) /\ WF_vars(FreeTradeSold) /\ WF_vars(Sold)
    /\ WF_vars(Tick)

FairSpec == Spec /\ Fairness

-----------------------------------------------------------------------------
(* Correctness.                                                            *)

(* Every variable has its type; held_seconds is never negative.            *)
TypeOK ==
    /\ position = NoPosition \/ position \in Position
    /\ monitor \in [at : {"new", "asleep", "freeTrade", "selling"},
                    held : 0..Modulus - 1, amount : Nat]
    /\ monitor.at \in {"freeTrade", "selling"} => position # NoPosition
    /\ sold \in Nat /\ bought \in Nat
    /\ ticked \in BOOLEAN /\ prompt \in BOOLEAN

(* The free trade sells 40 %, the exit the rest: the executor is never     *)
(* asked for more tokens than the position had.  Both sales of one check   *)
(* work on one copy of the amount, so this needs a check between the age   *)
(* of the free trade and the maximum hold, and a clock not set back: an    *)
(* entry time in the future is an age beyond any threshold.                *)
NeverOversold == prompt => sold <= bought

(* However late a check comes and wherever the clock is set, the 40 % of   *)
(* one free trade are all a position is ever sold above what it was.       *)
OversoldByOneFreeTrade == 10 * sold <= 14 * bought

(* Whatever happens to the clock, a position that the monitor closed was   *)
(* sold up to the token that rounding two sales down leaves.               *)
SoldUpToOne ==
    monitor.at = "asleep" /\ position = NoPosition => sold >= bought - 1

(* "Trade is now RISK-FREE": a position is sold in full only after its     *)
(* free trade, unless its gain of 25 % was computed to fall short.         *)
FreeTradeFirst ==
    monitor.at = "selling" /\ prompt => (position.partial <=> 125 \notin position.short)

(* A trailing stop protects what was reached: it never falls, also when    *)
(* the clock is set back and with it the simulated price.                  *)
StopNeverFalls ==
    [][position # NoPosition /\ position' # NoPosition
          => position'.stop >= position.stop]_vars

(* Once the monitor runs, a position is sold in full and given up.         *)
EveryPositionEnds == position # NoPosition ~> position = NoPosition
=============================================================================
