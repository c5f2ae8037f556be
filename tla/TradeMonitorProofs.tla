------------------------- MODULE TradeMonitorProofs -------------------------
(***************************************************************************)
(* Theorems about TradeMonitor: its types, that a position is sold once in *)
(* all and only after its free trade, and that its stop never falls.       *)
(***************************************************************************)
EXTENDS TradeMonitor, TLAPS

-----------------------------------------------------------------------------
(* The rules of a check.                                                   *)

(* The thresholds are numbers in the order of the code.                    *)
LEMMA Thresholds ==
    /\ {StallSeconds, Age1, Age2, Age3, MaxHold, AgeCap, MaxBack, Modulus} \subseteq Nat
    /\ 0 < StallSeconds /\ StallSeconds < Age1 /\ Age1 < Age2 /\ Age2 < Age3
    /\ Age3 < MaxHold /\ MaxHold <= AgeCap /\ AgeCap < Modulus
  BY TradeMonitorAssumption

(* held_seconds is a number of 64 bits, and the age itself if the entry    *)
(* time is not in the future.                                              *)
LEMMA HeldType ==
    ASSUME NEW age \in Int
    PROVE  /\ Held(age) \in 0..Modulus - 1
           /\ age \in 0..AgeCap => Held(age) = age
  <1>1. Modulus \in Nat \ {0}
    BY Thresholds
  <1>2. Held(age) \in 0..Modulus - 1
    BY <1>1, Z3 DEF Held
  <1>3. age \in 0..AgeCap => age \in 0..Modulus - 1
    BY Thresholds
  <1>4. age \in 0..Modulus - 1 => Held(age) = age
    BY <1>1, Z3 DEF Held
  <1> QED
    BY <1>2, <1>3, <1>4

(* The simulated price is 125 from the last age on and lower before.       *)
LEMMA PriceSteps ==
    ASSUME NEW held \in Nat
    PROVE  /\ SimulatePrice(held) \in Prices
           /\ SimulatePrice(held) = 125 <=> held >= Age3
  <1>1. \/ held < Age1
        \/ held \in Age1..Age2 - 1
        \/ held \in Age2..Age3 - 1
        \/ held >= Age3
    BY Thresholds
  <1> QED
    BY <1>1, Thresholds DEF SimulatePrice, Prices

(* A gain is between 4 and 25 percent, and 25 only at the last price, if   *)
(* it does not fall short there.                                           *)
LEMMA GainBounds ==
    ASSUME NEW held \in Nat, NEW short \in SUBSET Prices
    PROVE  /\ Pnl(SimulatePrice(held), short) \in 4..25
           /\ ReachesFreeTrade(Pnl(SimulatePrice(held), short))
                 <=> held >= Age3 /\ 125 \notin short
  BY PriceSteps DEF Pnl, Prices, ReachesFreeTrade

(* The stop is one of those of the code, and the ratchet never lowers it.  *)
LEMMA StopRises ==
    ASSUME NEW pnl \in 4..25, NEW stop \in Stops, stop <= 85
    PROVE  /\ UpdateTrailingStop(stop, pnl) \in Stops
           /\ UpdateTrailingStop(stop, pnl) <= 85
           /\ UpdateTrailingStop(stop, pnl) >= stop
  <1>1. StopFor(pnl) \in {65, 70, 75, 85}
    BY DEF StopFor
  <1> QED
    BY <1>1 DEF UpdateTrailingStop, Stops

(* No gain is low enough to stall and no price reaches the stop: only the  *)
(* maximum hold ever ends a position.                                      *)
LEMMA OnlyHoldSells ==
    ASSUME NEW held \in Nat, NEW pnl \in 4..25, NEW stop \in Stops, stop <= 85
    PROVE  MustSell(held, pnl, stop) <=> held >= MaxHold
  BY PriceSteps, Thresholds DEF MustSell, Prices, Stops

-----------------------------------------------------------------------------
(* Type correctness.  The stop stays low because no gain reaches 30 %, and *)
(* a stop of 85 is what makes OnlyHoldSells hold.                          *)

StopLow == position # NoPosition => position.stop <= 85

TypeInv == TypeOK /\ StopLow

(* A position is no NoPosition, whatever of its fields changes.            *)
LEMMA PositionIsSome ==
    \A p \in Position : p # NoPosition
  <1>1. Position \subseteq [age : Int, stop : Nat, amount : Nat, partial : BOOLEAN,
                           short : SUBSET Nat]
    BY DEF Position, Stops, Prices
  <1> QED
    BY <1>1, TradeMonitorAssumption

LEMMA OpenedType ==
    ASSUME NEW tokens \in TokenAmounts, NEW short \in SUBSET Prices
    PROVE  Opened(tokens, short) \in Position /\ tokens \in Nat
  <1>1. tokens \in Nat /\ 10 * tokens \in Nat
    BY TradeMonitorAssumption
  <1> QED
    BY <1>1 DEF Opened, Position, Stops

(* What a check of a position works with.                                  *)
LEMMA CheckTypes ==
    ASSUME TypeInv, position # NoPosition
    PROVE  /\ position \in Position
           /\ HeldNow \in 0..Modulus - 1 /\ HeldNow \in Nat
           /\ PnlNow \in 4..25
           /\ Raised \in Position /\ Raised.stop <= 85
           /\ Raised = [position EXCEPT !.stop = Raised.stop]
           /\ Raised.stop >= position.stop
  <1>1. position \in Position
    BY DEF TypeInv, TypeOK
  <1>2. HeldNow \in 0..Modulus - 1 /\ HeldNow \in Nat
    BY <1>1, HeldType, Thresholds DEF HeldNow, Position
  <1>3. PnlNow \in 4..25
    BY <1>1, <1>2, GainBounds DEF PnlNow, Position
  <1>4. position.stop \in Stops /\ position.stop <= 85
    BY <1>1 DEF Position, TypeInv, StopLow
  <1> DEFINE stop == UpdateTrailingStop(position.stop, PnlNow)
  <1>5. stop \in Stops /\ stop <= 85 /\ stop >= position.stop
    BY <1>3, <1>4, StopRises
  <1>6. Raised = [position EXCEPT !.stop = stop]
    BY DEF Raised
  <1> HIDE DEF stop
  <1>7. Raised \in Position /\ Raised.stop = stop
    BY <1>1, <1>5, <1>6 DEF Position
  <1> QED
    BY <1>1, <1>2, <1>3, <1>5, <1>6, <1>7

(* An amount divided is an amount.                                         *)
LEMMA AmountTypes ==
    ASSUME NEW n \in Nat
    PROVE  /\ n \div 10 \in Nat
           /\ (n * 4) \div 100 \in Nat
           /\ (n * 6) \div 10 \in Nat
  BY Z3

LEMMA TypeInit == Init => TypeInv
  <1> SUFFICES ASSUME Init PROVE TypeInv
    OBVIOUS
  <1>1. ticked \in BOOLEAN /\ prompt \in BOOLEAN
    BY Zenon DEF Init
  <1>2. position = NoPosition /\ sold = 0 /\ bought = 0 /\ monitor = At("new")
    BY Zenon DEF Init
  <1> QED
    BY <1>1, <1>2, Thresholds DEF At, TypeInv, TypeOK, StopLow

LEMMA TypeStep == TypeInv /\ [Next]_vars => TypeInv'
  <1> SUFFICES ASSUME TypeInv, [Next]_vars PROVE TypeInv'
    OBVIOUS
  <1> DEFINE Monitors == [at : {"new", "asleep", "freeTrade", "selling"},
                          held : 0..Modulus - 1, amount : Nat]
  <1>t. /\ position = NoPosition \/ position \in Position
        /\ monitor \in Monitors
        /\ monitor.at \in {"freeTrade", "selling"} => position # NoPosition
        /\ sold \in Nat /\ bought \in Nat
        /\ ticked \in BOOLEAN /\ prompt \in BOOLEAN
        /\ StopLow
    BY DEF TypeInv, TypeOK
  <1>a. At("asleep") \in Monitors /\ At("asleep").at = "asleep"
    BY Thresholds DEF At
  <1>1. ASSUME NEW tokens \in TokenAmounts, NEW short \in SUBSET Prices,
               OpenPosition(tokens, short)
        PROVE  TypeInv'
    <2>1. ticked' \in BOOLEAN /\ prompt' \in BOOLEAN
      BY <1>1, Zenon DEF OpenPosition
    <2>2. /\ position' \in Position /\ position'.stop = 65 /\ position' # NoPosition
          /\ bought' \in Nat /\ monitor' = monitor /\ sold' = sold
      BY <1>1, OpenedType, PositionIsSome DEF OpenPosition, Opened
    <2> QED
      BY <1>t, <2>1, <2>2 DEF TypeInv, TypeOK, StopLow
  <1>2. CASE ClosePosition
    BY <1>2, <1>t DEF ClosePosition, clock, TypeInv, TypeOK, StopLow
  <1>3. CASE StartMonitoring
    BY <1>3, <1>t, <1>a DEF StartMonitoring, clock, TypeInv, TypeOK, StopLow
  <1>4. CASE Tick
    <2>1. position' \in Position /\ position'.stop = position.stop
      BY <1>4, <1>t DEF Tick, Position
    <2>2. ticked' \in BOOLEAN /\ prompt' \in BOOLEAN
      BY <1>4, <1>t, Zenon DEF Tick, clock
    <2> QED
      BY <1>4, <1>t, <2>1, <2>2, PositionIsSome DEF Tick, TypeInv, TypeOK, StopLow
  <1>5. ASSUME NEW seconds \in 1..MaxBack, SetBack(seconds) PROVE TypeInv'
    <2>1. position' \in Position /\ position'.stop = position.stop
      BY <1>5, <1>t, Thresholds DEF SetBack, Position
    <2> QED
      BY <1>5, <1>t, <2>1, PositionIsSome DEF SetBack, TypeInv, TypeOK, StopLow
  <1>6. ASSUME Check PROVE TypeInv'
    <2>1. position # NoPosition
      BY <1>6 DEF Check, CheckKeeps, CheckSells, CheckFreeTrade, Due
    <2>2. /\ position.amount \in Nat /\ HeldNow \in 0..Modulus - 1
          /\ Raised \in Position /\ Raised.stop <= 85 /\ Raised # NoPosition
      BY <2>1, CheckTypes, PositionIsSome DEF Position
    <2>3. position' = Raised /\ ticked' = FALSE /\ UNCHANGED <<bought, prompt>>
      BY <1>6 DEF Check, CheckKeeps, CheckSells, CheckFreeTrade
    <2>4. monitor' \in Monitors /\ sold' \in Nat
      <3>1. CASE CheckKeeps
        BY <3>1, <1>t, <1>a DEF CheckKeeps, CheckOver
      <3>2. CASE CheckSells
        BY <3>2, <1>t, <2>2, AmountTypes DEF CheckSells, SellInFull
      <3>3. CASE CheckFreeTrade
        BY <3>3, <1>t, <2>2, AmountTypes DEF CheckFreeTrade
      <3> QED
        BY <1>6, <3>1, <3>2, <3>3 DEF Check
    <2> QED
      BY <1>t, <2>2, <2>3, <2>4 DEF TypeInv, TypeOK, StopLow
  <1>7. CASE FreeTradeSold
    <2>1. position \in Position
      BY <1>7, <1>t DEF FreeTradeSold
    <2>2. position' \in Position /\ position'.stop = position.stop
      BY <1>7, <2>1, AmountTypes DEF FreeTradeSold, FreeTraded, Position
    <2>3. monitor' \in Monitors /\ sold' \in Nat
      BY <1>7, <1>t, <1>a, AmountTypes DEF FreeTradeSold, SellInFull, CheckOver
    <2> QED
      BY <1>7, <1>t, <2>1, <2>2, <2>3, PositionIsSome
         DEF FreeTradeSold, clock, TypeInv, TypeOK, StopLow
  <1>8. CASE Sold
    BY <1>8, <1>t, <1>a DEF Sold, CheckOver, clock, TypeInv, TypeOK, StopLow
  <1>9. CASE UNCHANGED vars
    BY <1>9 DEF vars, clock, TypeInv, TypeOK, StopLow
  <1> QED
    BY <1>1, <1>2, <1>3, <1>4, <1>5, <1>6, <1>7, <1>8, <1>9 DEF Next

(* Every variable of the trade monitor has its type, also when the clock   *)
(* is set back and an age below zero wraps to a held_seconds near 2^64.    *)
THEOREM MonitorTypeCorrect == Spec => []TypeOK
  BY TypeInit, TypeStep, PTL DEF Spec, TypeInv

(* A trailing stop protects what was reached: in no step does it fall, nor *)
(* by a second open_position, which comes before the first check.          *)
StopFresh == monitor.at = "new" /\ position # NoPosition => position.stop = 65

LEMMA FreshInit == Init => StopFresh
  BY DEF Init, StopFresh

LEMMA FreshStep == TypeInv /\ StopFresh /\ [Next]_vars => StopFresh'
  <1> SUFFICES ASSUME TypeInv, StopFresh, [Next]_vars PROVE StopFresh'
    OBVIOUS
  <1>t. position = NoPosition \/ position \in Position
    BY DEF TypeInv, TypeOK
  <1>1. ASSUME NEW tokens, NEW short, OpenPosition(tokens, short) PROVE StopFresh'
    BY <1>1 DEF OpenPosition, Opened, StopFresh
  <1>2. ASSUME Tick \/ \E seconds \in 1..MaxBack : SetBack(seconds) PROVE StopFresh'
    <2>1. position' = [position EXCEPT !.age = position'.age] /\ position \in Position
      BY <1>2, <1>t, Thresholds DEF Tick, SetBack, Position
    <2>2. position'.stop = position.stop
      BY <2>1 DEF Position
    <2> QED
      BY <1>2, <2>2 DEF Tick, SetBack, StopFresh
  <1>3. CASE ClosePosition
    BY <1>3 DEF ClosePosition, StopFresh
  <1>4. ASSUME StartMonitoring \/ Check \/ FreeTradeSold \/ Sold PROVE StopFresh'
    <2>1. monitor'.at # "new"
      BY <1>4 DEF StartMonitoring, At, Check, CheckKeeps, CheckOver, CheckSells, SellInFull,
         CheckFreeTrade, FreeTradeSold, Sold
    <2> QED
      BY <2>1 DEF StopFresh
  <1>5. CASE UNCHANGED vars
    BY <1>5 DEF vars, StopFresh
  <1> QED
    BY <1>1, <1>2, <1>3, <1>4, <1>5 DEF Next

LEMMA StopStep ==
    TypeInv /\ StopFresh /\ [Next]_vars =>
        (position # NoPosition /\ position' # NoPosition => position'.stop >= position.stop)
  <1> SUFFICES ASSUME TypeInv, StopFresh, [Next]_vars,
                      position # NoPosition, position' # NoPosition
               PROVE  position'.stop >= position.stop
    OBVIOUS
  <1>t. position \in Position /\ position.stop \in Nat
    BY DEF TypeInv, TypeOK, Position, Stops
  <1>1. ASSUME NEW tokens, NEW short, OpenPosition(tokens, short)
        PROVE  position'.stop >= position.stop
    BY <1>1, <1>t DEF OpenPosition, Opened, StopFresh
  <1>2. CASE Tick \/ \E seconds \in 1..MaxBack : SetBack(seconds)
    BY <1>2, <1>t DEF Tick, SetBack, Position
  <1>3. CASE StartMonitoring
    BY <1>3, <1>t DEF StartMonitoring
  <1>4. CASE Check
    BY <1>4, CheckTypes DEF Check, CheckKeeps, CheckSells, CheckFreeTrade
  <1>5. CASE FreeTradeSold
    BY <1>5, <1>t DEF FreeTradeSold, FreeTraded, Position
  <1>6. CASE UNCHANGED vars
    BY <1>6, <1>t DEF vars
  <1> QED
    BY <1>1, <1>2, <1>3, <1>4, <1>5, <1>6 DEF Next, ClosePosition, Sold

(* The stop of a position never falls, though the clock may be set back    *)
(* and the simulated price with it.                                        *)
THEOREM StopOnlyRises == Spec => StopNeverFalls
  BY TypeInit, TypeStep, FreshInit, FreshStep, StopStep, PTL DEF Spec, StopNeverFalls

-----------------------------------------------------------------------------
(* What was sold.  A position is sold at once, or 40 % and then the rest,  *)
(* or, by a check that came too late, 40 % and then all of it: that check  *)
(* sells the amount it copied before the free trade.                       *)

FreeTradeSale == ((10 * bought) * 4) \div 100
AfterFree     == ((10 * bought) * 6) \div 10
InTwoSales    == FreeTradeSale + AfterFree \div 10
SoldTwice     == FreeTradeSale + bought

SoldInFull ==
    /\ sold \in {bought, InTwoSales, SoldTwice}
    /\ prompt => sold \in {bought, InTwoSales}

(* The amount of a position says whether its free trade is over, and that  *)
(* comes only to a position whose gain of 25 % does not fall short.        *)
AmountInv ==
    position # NoPosition =>
        /\ position.amount = IF position.partial THEN AfterFree ELSE 10 * bought
        /\ position.partial => 125 \notin position.short

(* While the checks are prompt, the one that finds the age of the free     *)
(* trade comes within a second of it, and before the maximum hold.         *)
PromptInv ==
    prompt /\ position # NoPosition =>
        /\ position.age \in 0..AgeCap
        /\ monitor.at \in {"new", "asleep"} /\ ~position.partial /\ 125 \notin position.short
              => IF ticked THEN position.age <= Age3 ELSE position.age < Age3

SoldInv ==
    /\ monitor.at = "new" =>
          /\ sold = 0
          /\ IF position = NoPosition THEN bought = 0 ELSE ~position.partial
    /\ monitor.at = "asleep" =>
          IF position = NoPosition THEN SoldInFull
          ELSE sold = IF position.partial THEN FreeTradeSale ELSE 0
    /\ monitor.at = "freeTrade" =>
          /\ ~position.partial /\ 125 \notin position.short
          /\ monitor.amount = 10 * bought /\ sold = FreeTradeSale
          /\ monitor.held >= Age3
          /\ prompt => monitor.held < MaxHold
    /\ monitor.at = "selling" =>
          /\ SoldInFull
          /\ prompt => (position.partial <=> 125 \notin position.short)

SaleInv == AmountInv /\ PromptInv /\ SoldInv

(* The amounts of the sales, in tokens: rounding down loses one at most.   *)
LEMMA SaleBounds ==
    ASSUME NEW n \in Nat
    PROVE  LET free == ((10 * n) * 4) \div 100
               rest == (((10 * n) * 6) \div 10) \div 10
           IN  /\ free \in Nat /\ rest \in Nat
               /\ free + rest <= n /\ free + rest >= n - 1
               /\ (10 * n) \div 10 = n
  <1>1. ((10 * n) * 6) \div 10 = 6 * n
    BY Z3
  <1>2. ((10 * n) * 4) \div 100 = (4 * n) \div 10
    BY Z3
  <1>3. (4 * n) \div 10 + (6 * n) \div 10 <= n /\ (4 * n) \div 10 + (6 * n) \div 10 >= n - 1
    BY Z3
  <1>4. (4 * n) \div 10 \in Nat /\ (6 * n) \div 10 \in Nat /\ (10 * n) \div 10 = n
    BY Z3
  <1> QED
    BY <1>1, <1>2, <1>3, <1>4

LEMMA SaleInit == Init => SaleInv
  <1> SUFFICES ASSUME Init PROVE SaleInv
    OBVIOUS
  <1>1. position = NoPosition /\ monitor.at = "new" /\ sold = 0 /\ bought = 0
    BY DEF Init, At
  <1> QED
    BY <1>1 DEF SaleInv, AmountInv, PromptInv, SoldInv

(* The clock moves: a prompt position stays one only if its check comes    *)
(* before a second tick.                                                   *)
LEMMA ClockKeeps ==
    ASSUME TypeInv, SaleInv, Tick \/ \E seconds \in 1..MaxBack : SetBack(seconds)
    PROVE  SaleInv'
  <1>1. /\ position \in Position /\ position # NoPosition
        /\ ticked \in BOOLEAN /\ prompt \in BOOLEAN
    BY DEF TypeInv, TypeOK, Tick, SetBack
  <1>2. /\ position' \in Position
        /\ position'.amount = position.amount /\ position'.partial = position.partial
        /\ position'.short = position.short
        /\ UNCHANGED <<monitor, sold, bought>>
    BY <1>1, Thresholds DEF Tick, SetBack, Position
  <1>3. position' # NoPosition
    BY <1>2, PositionIsSome
  <1>4. prompt' => prompt
    BY <1>1 DEF Tick, SetBack, clock
  <1>5. AmountInv'
    BY <1>1, <1>2, <1>3 DEF SaleInv, AmountInv, AfterFree
  <1>6. SoldInv'
    BY <1>1, <1>2, <1>3, <1>4 DEF SaleInv, SoldInv, SoldInFull, FreeTradeSale, InTwoSales,
       SoldTwice, AfterFree
  <1>7. PromptInv'
    <2>1. CASE Tick
      <3>1. position.age < AgeCap /\ position'.age = position.age + 1 /\ position.age \in Int
        BY <1>1, <2>1 DEF Tick, Position
      <3>2. CASE monitor.at \in {"new", "asleep"}
        <4>1. ticked' = TRUE /\ (prompt' => prompt /\ ~ticked)
          BY <2>1, <3>2 DEF Tick
        <4> QED
          BY <1>1, <1>2, <3>1, <4>1, Thresholds DEF SaleInv, PromptInv
      <3>3. CASE monitor.at \notin {"new", "asleep"}
        BY <1>1, <1>2, <1>4, <3>1, <3>3, Thresholds DEF SaleInv, PromptInv
      <3> QED
        BY <3>2, <3>3
    <2>2. CASE \E seconds \in 1..MaxBack : SetBack(seconds)
      <3>1. prompt' = FALSE
        BY <2>2 DEF SetBack
      <3> QED
        BY <3>1 DEF PromptInv
    <2> QED
      BY <2>1, <2>2
  <1> QED
    BY <1>5, <1>6, <1>7 DEF SaleInv

(* What a check of a prompt position finds.                                *)
LEMMA CheckFinds ==
    ASSUME TypeInv, SaleInv, Due
    PROVE  /\ position.amount = IF position.partial THEN AfterFree ELSE 10 * bought
           /\ sold = IF position.partial THEN FreeTradeSale ELSE 0
           /\ position.partial => 125 \notin position.short
           /\ position.partial \in BOOLEAN /\ prompt \in BOOLEAN
           /\ TakesFreeTrade <=>
                 ~position.partial /\ HeldNow >= Age3 /\ 125 \notin position.short
           /\ MustSell(HeldNow, PnlNow, Raised.stop) <=> HeldNow >= MaxHold
           /\ prompt => HeldNow = position.age
           /\ prompt /\ ~position.partial /\ 125 \notin position.short => HeldNow <= Age3
  <1>1. position # NoPosition /\ monitor.at = "asleep"
    BY DEF Due
  <1>2. /\ position \in Position /\ HeldNow \in Nat
        /\ PnlNow \in 4..25 /\ Raised \in Position /\ Raised.stop <= 85
    BY <1>1, CheckTypes
  <1>3. TakesFreeTrade <=> ~position.partial /\ HeldNow >= Age3 /\ 125 \notin position.short
    BY <1>2, GainBounds DEF TakesFreeTrade, PnlNow, Position
  <1>4. MustSell(HeldNow, PnlNow, Raised.stop) <=> HeldNow >= MaxHold
    BY <1>2, OnlyHoldSells DEF Position
  <1>5. prompt => HeldNow = position.age
    BY <1>1, <1>2, HeldType DEF HeldNow, SaleInv, PromptInv, Position
  <1>6. prompt /\ ~position.partial /\ 125 \notin position.short => HeldNow <= Age3
    BY <1>1, <1>2, <1>5, Thresholds DEF SaleInv, PromptInv, Position
  <1>7. position.partial \in BOOLEAN /\ prompt \in BOOLEAN
    BY <1>2 DEF Position, TypeInv, TypeOK
  <1> QED
    BY <1>1, <1>3, <1>4, <1>5, <1>6, <1>7 DEF SaleInv, AmountInv, SoldInv

(* A check raises the stop and leaves the rest of the position alone.      *)
LEMMA CheckRaises ==
    ASSUME TypeInv, Check
    PROVE  /\ position \in Position /\ position' # NoPosition /\ position # NoPosition
           /\ position'.amount = position.amount /\ position'.partial = position.partial
           /\ position'.short = position.short /\ position'.age = position.age
           /\ Due /\ ticked' = FALSE /\ UNCHANGED <<bought, prompt>>
  <1>1. /\ Due /\ position # NoPosition
        /\ position' = Raised /\ ticked' = FALSE /\ UNCHANGED <<bought, prompt>>
    BY DEF Check, CheckKeeps, CheckSells, CheckFreeTrade, Due
  <1> QED
    BY <1>1, CheckTypes, PositionIsSome DEF Position

LEMMA CheckKeepsSale ==
    ASSUME TypeInv, SaleInv, Check
    PROVE  SaleInv'
  <1>1. /\ position \in Position /\ position' # NoPosition /\ position # NoPosition
        /\ position'.amount = position.amount /\ position'.partial = position.partial
        /\ position'.short = position.short /\ position'.age = position.age
        /\ Due /\ ticked' = FALSE /\ UNCHANGED <<bought, prompt>>
    BY CheckRaises
  <1>2. /\ position.amount = IF position.partial THEN AfterFree ELSE 10 * bought
        /\ sold = IF position.partial THEN FreeTradeSale ELSE 0
        /\ position.partial => 125 \notin position.short
        /\ TakesFreeTrade <=>
              ~position.partial /\ HeldNow >= Age3 /\ 125 \notin position.short
        /\ MustSell(HeldNow, PnlNow, Raised.stop) <=> HeldNow >= MaxHold
        /\ prompt => HeldNow = position.age
        /\ prompt /\ ~position.partial /\ 125 \notin position.short => HeldNow <= Age3
    BY <1>1, CheckFinds
  <1>3. HeldNow \in Nat /\ bought \in Nat /\ position.age \in Int
    BY <1>1, CheckTypes DEF TypeInv, TypeOK, Position
  <1>4. AmountInv'
    BY <1>1, <1>2 DEF AmountInv, AfterFree
  <1>5. CASE CheckKeeps
    <2>1. /\ ~TakesFreeTrade /\ monitor' = At("asleep") /\ sold' = sold
      BY <1>5 DEF CheckKeeps, CheckOver
    <2>2. PromptInv'
      BY <1>1, <1>2, <1>3, <2>1, Thresholds DEF SaleInv, PromptInv, At
    <2>3. SoldInv'
      BY <1>1, <1>2, <2>1 DEF SoldInv, FreeTradeSale, At
    <2> QED
      BY <1>4, <2>2, <2>3 DEF SaleInv
  <1>6. CASE CheckSells
    <2>1. /\ ~TakesFreeTrade /\ HeldNow >= MaxHold
          /\ monitor' = [at |-> "selling", held |-> HeldNow, amount |-> position.amount]
          /\ sold' = sold + position.amount \div 10
      BY <1>2, <1>6 DEF CheckSells, SellInFull
    <2>2. PromptInv'
      BY <1>1, <2>1 DEF SaleInv, PromptInv
    <2>3. sold' = IF position.partial THEN InTwoSales ELSE bought
      BY <1>2, <1>3, <2>1, SaleBounds DEF InTwoSales
    <2>4. prompt => (position.partial <=> 125 \notin position.short)
      BY <1>2, <1>3, <2>1, Thresholds
    <2>5. SoldInv'
      BY <1>1, <2>1, <2>3, <2>4 DEF SoldInv, SoldInFull, InTwoSales, FreeTradeSale, AfterFree
    <2> QED
      BY <1>4, <2>2, <2>5 DEF SaleInv
  <1>7. CASE CheckFreeTrade
    <2>1. /\ TakesFreeTrade
          /\ monitor' = [at |-> "freeTrade", held |-> HeldNow, amount |-> position.amount]
          /\ sold' = sold + (position.amount * 4) \div 100
      BY <1>7 DEF CheckFreeTrade
    <2>2. PromptInv'
      BY <1>1, <2>1 DEF SaleInv, PromptInv
    <2>3. sold' = FreeTradeSale /\ position.amount = 10 * bought
      BY <1>2, <1>3, <2>1, SaleBounds DEF FreeTradeSale
    <2>4. prompt => HeldNow < MaxHold
      BY <1>2, <1>3, <2>1, Thresholds
    <2>5. SoldInv'
      BY <1>1, <1>2, <2>1, <2>3, <2>4 DEF SoldInv, FreeTradeSale
    <2> QED
      BY <1>4, <2>2, <2>5 DEF SaleInv
  <1> QED
    BY <1>5, <1>6, <1>7 DEF Check

(* The same check goes on after the free trade: it sells all it copied if  *)
(* it came after the maximum hold, so not if it was prompt.                *)
LEMMA FreeTradeKeepsSale ==
    ASSUME TypeInv, SaleInv, FreeTradeSold
    PROVE  SaleInv'
  <1>1. /\ monitor.at = "freeTrade" /\ position # NoPosition /\ position \in Position
        /\ monitor.held \in Nat /\ bought \in Nat /\ position.stop <= 85
    BY DEF FreeTradeSold, TypeInv, TypeOK, StopLow
  <1>2. /\ position.amount = 10 * bought /\ 125 \notin position.short
        /\ monitor.amount = 10 * bought /\ sold = FreeTradeSale
        /\ prompt => monitor.held < MaxHold
    BY <1>1 DEF SaleInv, AmountInv, SoldInv
  <1>3. /\ position' = FreeTraded(position) /\ position' # NoPosition
        /\ position'.amount = AfterFree /\ position'.partial = TRUE
        /\ position'.short = position.short /\ position'.age = position.age
        /\ UNCHANGED <<bought, ticked, prompt>>
    <2>1. position' = FreeTraded(position) /\ UNCHANGED <<bought, ticked, prompt>>
      BY DEF FreeTradeSold, clock
    <2>2. FreeTraded(position) \in Position
      BY <1>1, AmountTypes DEF FreeTraded, Position
    <2> QED
      BY <1>1, <1>2, <2>1, <2>2, PositionIsSome DEF FreeTraded, Position, AfterFree
  <1>4. AmountInv'
    BY <1>2, <1>3 DEF AmountInv, AfterFree
  <1>5. PromptInv'
    BY <1>1, <1>3 DEF SaleInv, PromptInv
  <1> DEFINE sells == MustSell(monitor.held, Pnl(SimulatePrice(monitor.held), position.short),
                               position.stop)
  <1>6. sells <=> monitor.held >= MaxHold
    BY <1>1, GainBounds, OnlyHoldSells DEF Position
  <1>7. \/ sells /\ SellInFull(monitor.held, monitor.amount)
        \/ ~sells /\ CheckOver
    BY DEF FreeTradeSold
  <1> HIDE DEF sells
  <1>8. CASE sells
    <2>1. sold' = SoldTwice /\ ~prompt /\ monitor'.at = "selling"
      BY <1>1, <1>2, <1>6, <1>7, <1>8, SaleBounds, Thresholds DEF SellInFull, SoldTwice
    <2>2. SoldInv'
      BY <1>3, <2>1 DEF SoldInv, SoldInFull, SoldTwice, FreeTradeSale
    <2> QED
      BY <1>4, <1>5, <2>2 DEF SaleInv
  <1>9. CASE ~sells
    <2>1. SoldInv'
      BY <1>2, <1>3, <1>7, <1>9 DEF CheckOver, At, SoldInv, FreeTradeSale
    <2> QED
      BY <1>4, <1>5, <2>1 DEF SaleInv
  <1> QED
    BY <1>8, <1>9

LEMMA SaleStep == TypeInv /\ SaleInv /\ [Next]_vars => SaleInv'
  <1> SUFFICES ASSUME TypeInv, SaleInv, [Next]_vars PROVE SaleInv'
    OBVIOUS
  <1>1. ASSUME NEW tokens \in TokenAmounts, NEW short \in SUBSET Prices,
               OpenPosition(tokens, short)
        PROVE  SaleInv'
    <2>1. /\ monitor.at = "new" /\ UNCHANGED <<monitor, sold>> /\ ticked' = FALSE
          /\ position' # NoPosition /\ position'.age = 0 /\ position'.partial = FALSE
          /\ position'.amount = 10 * tokens /\ bought' = tokens
      BY <1>1, OpenedType, PositionIsSome DEF OpenPosition, Opened
    <2> QED
      BY <2>1, Thresholds DEF SaleInv, AmountInv, PromptInv, SoldInv
  <1>2. CASE ClosePosition
    BY <1>2 DEF ClosePosition, clock, SaleInv, AmountInv, PromptInv, SoldInv
  <1>3. CASE StartMonitoring
    <2>1. monitor.at = "new" /\ monitor'.at = "asleep" /\ UNCHANGED <<position, sold, bought, clock>>
      BY <1>3 DEF StartMonitoring, At
    <2>2. SoldInv'
      BY <2>1 DEF SaleInv, SoldInv, SoldInFull, clock
    <2> QED
      BY <2>1, <2>2 DEF SaleInv, AmountInv, AfterFree, PromptInv, clock
  <1>4. CASE Tick \/ \E seconds \in 1..MaxBack : SetBack(seconds)
    BY <1>4, ClockKeeps
  <1>5. CASE Check
    BY <1>5, CheckKeepsSale
  <1>6. CASE FreeTradeSold
    BY <1>6, FreeTradeKeepsSale
  <1>7. CASE Sold
    <2>1. SoldInFull'
      BY <1>7 DEF Sold, CheckOver, clock, SaleInv, SoldInv, SoldInFull, InTwoSales, SoldTwice,
         FreeTradeSale, AfterFree
    <2> QED
      BY <1>7, <2>1 DEF Sold, CheckOver, At, clock, SaleInv, AmountInv, PromptInv, SoldInv
  <1>8. CASE UNCHANGED vars
    BY <1>8 DEF vars, clock, SaleInv, AmountInv, PromptInv, SoldInv, SoldInFull, InTwoSales,
       SoldTwice, FreeTradeSale, AfterFree
  <1> QED
    BY <1>1, <1>2, <1>3, <1>4, <1>5, <1>6, <1>7, <1>8 DEF Next

LEMMA SaleHolds == Spec => [](TypeInv /\ SaleInv)
  BY TypeInit, TypeStep, SaleInit, SaleStep, PTL DEF Spec

(* While no check is late and the clock is not set back, the executor is   *)
(* never asked to sell more of a position than it had.                     *)
THEOREM PromptNeverOversells == Spec => []NeverOversold
  <1>1. TypeInv /\ SaleInv => NeverOversold
    <2> SUFFICES ASSUME TypeInv, SaleInv, prompt PROVE sold <= bought
      BY DEF NeverOversold
    <2>1. /\ bought \in Nat /\ sold \in Nat
          /\ monitor.at \in {"new", "asleep", "freeTrade", "selling"}
      BY DEF TypeInv, TypeOK
    <2>2. /\ FreeTradeSale \in Nat /\ FreeTradeSale <= bought /\ InTwoSales <= bought
      BY <2>1, SaleBounds DEF FreeTradeSale, InTwoSales, AfterFree
    <2>3. sold \in {0, bought, FreeTradeSale, InTwoSales}
      BY <2>1 DEF SaleInv, SoldInv, SoldInFull
    <2> QED
      BY <2>1, <2>2, <2>3
  <1> QED
    BY <1>1, SaleHolds, PTL

(* Even a late check, or a clock set back, has no more than the free trade *)
(* and one full sale asked for.                                            *)
THEOREM OversaleBounded == Spec => []OversoldByOneFreeTrade
  <1>1. TypeInv /\ SaleInv => OversoldByOneFreeTrade
    <2> SUFFICES ASSUME TypeInv, SaleInv PROVE 10 * sold <= 14 * bought
      BY DEF OversoldByOneFreeTrade
    <2>1. /\ bought \in Nat /\ sold \in Nat
          /\ monitor.at \in {"new", "asleep", "freeTrade", "selling"}
      BY DEF TypeInv, TypeOK
    <2>2. FreeTradeSale \in Nat /\ FreeTradeSale <= bought /\ InTwoSales <= bought
      BY <2>1, SaleBounds DEF FreeTradeSale, InTwoSales, AfterFree
    <2>3. 10 * FreeTradeSale <= 4 * bought
      <3>1. \A n \in Nat : 10 * (((10 * n) * 4) \div 100) <= 4 * n
        BY Z3
      <3> QED
        BY <2>1, <3>1 DEF FreeTradeSale
    <2>4. sold \in {0, bought, FreeTradeSale, InTwoSales, SoldTwice}
      BY <2>1 DEF SaleInv, SoldInv, SoldInFull
    <2> QED
      BY <2>1, <2>2, <2>3, <2>4 DEF SoldTwice
  <1> QED
    BY <1>1, SaleHolds, PTL

(* A position that the monitor has closed was sold, all of it but at most  *)
(* one token, whatever happened to the clock.                              *)
THEOREM ClosedIsSold == Spec => []SoldUpToOne
  <1>1. TypeInv /\ SaleInv => SoldUpToOne
    <2> SUFFICES ASSUME TypeInv, SaleInv, monitor.at = "asleep", position = NoPosition
                 PROVE  sold >= bought - 1
      BY DEF SoldUpToOne
    <2>1. bought \in Nat /\ sold \in {bought, InTwoSales, SoldTwice}
      BY DEF TypeInv, TypeOK, SaleInv, SoldInv, SoldInFull
    <2>2. InTwoSales \in Nat /\ InTwoSales >= bought - 1 /\ SoldTwice \in Nat /\ SoldTwice >= bought
      BY <2>1, SaleBounds DEF FreeTradeSale, InTwoSales, SoldTwice, AfterFree
    <2> QED
      BY <2>1, <2>2
  <1> QED
    BY <1>1, SaleHolds, PTL

(* A position sold in full in time had its free trade, unless its gain at  *)
(* the last price is computed to fall short of 25 %.                       *)
THEOREM SoldAfterFreeTrade == Spec => []FreeTradeFirst
  <1>1. SaleInv => FreeTradeFirst
    BY DEF SaleInv, SoldInv, FreeTradeFirst
  <1> QED
    BY <1>1, SaleHolds, PTL
=============================================================================
