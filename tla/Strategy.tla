------------------------------ MODULE Strategy ------------------------------
(***************************************************************************)
(* The strategy orchestrator of src/velocity-sniper/src/strategy.rs and    *)
(* the part of bundle_executor.rs it calls: the main loop that turns Buy   *)
(* and Sell signals into positions, and the two 100 ms exit loops that     *)
(* race it and each other over the pending sells and the trading state.    *)
(*                                                                         *)
(* A step ends where the code awaits; what happens under one lock guard is *)
(* one step.  An age is the time that has really passed, in seconds, and   *)
(* stops growing at AgeCap; what the code computes from Utc::now() is less *)
(* by what the wall clock has been set back since.                         *)
(***************************************************************************)
EXTENDS ExitRules, SequencesExt

CONSTANTS
    Mints,            \* the tokens signals are about
    MaxPositions,     \* strategy.max_concurrent_positions
    TradeCooldown,    \* strategy.trade_cooldown_seconds
    SignalPnl,        \* profits, in percent, a Sell signal may carry ({}: none is sent)
    RepeatSignals,    \* may a second Buy be sent for the same mint?
    SignalCap,        \* capacity of the broadcast channel of signals
    MaxBundles,       \* bound: buy bundles accepted by the relay
    AgeCap,           \* bound: ages saturate here, above every threshold
    MaxBack,          \* bound: seconds the wall clock is set back in all
    Modulus           \* 2^64, scaled: held_seconds is a u64

ASSUME StrategyAssumption ==
    /\ MaxPositions \in Nat
    /\ TradeCooldown \in Nat
    /\ SignalPnl \subseteq Int
    /\ RepeatSignals \in BOOLEAN
    /\ SignalCap \in Nat \ {0}
    /\ MaxBundles \in Nat
    /\ AgeCap \in Nat
    /\ MaxBack \in Nat
    /\ Modulus \in Nat
    /\ AgeCap + MaxBack < Modulus
    /\ \A s \in {TradeCooldown, MaxHoldSeconds, EarlySeconds, MidSeconds} :
          s + MaxBack <= AgeCap

VARIABLES
    signals,       \* Buy and Sell signals waiting in trade_signal_rx
    lagged,        \* the channel overwrote a signal this receiver had not read
    signalled,     \* mints some Buy was sent for, kept only if ~RepeatSignals
    main,          \* where the main loop stands, and with which mint and bundle
    lastTrade,     \* last_trade_time
    active,        \* state.active_positions; bundle is entry_tx_signature
    completed,     \* state.completed_trades
    totalTrades,   \* state.total_trades
    winningTrades, \* state.winning_trades
    totalPnl,      \* state.total_pnl_sol, in percent of one entry
    pendingSells,  \* executor.pending_sells
    exit,          \* the two exit loops
    guard,         \* who holds the write guard of trade_monitor
    bundles,       \* buy bundles the relay has accepted so far
    back           \* seconds the wall clock has been set back so far

book    == <<active, completed, totalTrades, winningTrades, totalPnl>>
channel == <<signals, lagged, signalled>>
vars    == <<channel, main, lastTrade, book, pendingSells, exit, guard, bundles,
             back>>

ExitLoop == {"gated", "monitor"}
Bundle   == 1..MaxBundles
Age      == 0..AgeCap
Back     == 0..MaxBack
U64      == 0..Modulus - 1
NoMint   == "none"

BuySignal(m)     == [type |-> "buy", mint |-> m, pnl |-> 0]
SellSignal(m, p) == [type |-> "sell", mint |-> m, pnl |-> p]

Signal   == [type : {"buy", "sell"}, mint : Mints, pnl : SignalPnl \cup {0}]

(* A time stamp: how long ago it was taken, and how far the clock had been *)
(* set back by then.                                                       *)
Stamp    == [age : Age, clock : Back]
Position == [bundle : Bundle, mint : Mints, age : Age, clock : Back]
Pending  == [mint : Mints, age : Age, clock : Back]

(* A completed trade; age and back are for the properties: the real age of *)
(* the position, and how far the clock was set back while it was held.     *)
Trade    == [bundle : Bundle, reason : Reasons, pnl : Int, held : U64, age : Age,
             back : Int]

MainAt == {"recv", "buying", "confirming", "entering", "selling"}
LoopAt == {"idle", "gate", "scan", "selling"}

Listening == [at |-> "recv", mint |-> NoMint, bundle |-> 0, onChain |-> FALSE]
Idle      == [at |-> "idle", snapshot |-> <<>>, held |-> 0]

Init ==
    /\ signals = <<>> /\ lagged = FALSE /\ signalled = {}
    /\ main = Listening
    /\ lastTrade = [age |-> TradeCooldown, clock |-> 0]
    /\ active = <<>> /\ completed = <<>>
    /\ totalTrades = 0 /\ winningTrades = 0 /\ totalPnl = 0
    /\ pendingSells = <<>>
    /\ exit = [l \in ExitLoop |-> Idle]
    /\ guard = "free"
    /\ bundles = 0
    /\ back = 0

-----------------------------------------------------------------------------
(* Time and the world outside.                                             *)

(* num_seconds of now - entry_time, and its cast to u64.                   *)
Seconds(stamp) == stamp.age - (back - stamp.clock)
Held(stamp)    == Seconds(stamp) % Modulus

Older(age)  == IF age < AgeCap THEN age + 1 ELSE age
Aged(items) == [k \in DOMAIN items |-> [items[k] EXCEPT !.age = Older(@)]]

Tick ==
    /\ lastTrade' = [lastTrade EXCEPT !.age = Older(@)]
    /\ active' = Aged(active)
    /\ pendingSells' = Aged(pendingSells)
    /\ exit' = [l \in ExitLoop |-> [exit[l] EXCEPT !.snapshot = Aged(@)]]
    /\ UNCHANGED <<channel, main, completed, totalTrades, winningTrades, totalPnl,
                   guard, bundles, back>>

(* The system clock is corrected backwards.                                *)
SetBack(seconds) ==
    /\ back + seconds <= MaxBack
    /\ back' = back + seconds
    /\ UNCHANGED <<channel, main, lastTrade, book, pendingSells, exit, guard, bundles>>

(* tokio's broadcast: a full channel overwrites its oldest message.        *)
Send(s) ==
    IF Len(signals) < SignalCap
    THEN /\ signals' = Append(signals, s)
         /\ UNCHANGED lagged
    ELSE /\ signals' = Append(Tail(signals), s)
         /\ lagged' = TRUE

SendBuy(m) ==
    /\ RepeatSignals \/ m \notin signalled
    /\ Send(BuySignal(m))
    /\ signalled' = IF RepeatSignals THEN {} ELSE signalled \cup {m}
    /\ UNCHANGED <<main, lastTrade, book, pendingSells, exit, guard, bundles, back>>

SendSell(m, p) ==
    /\ Send(SellSignal(m, p))
    /\ UNCHANGED <<signalled, main, lastTrade, book, pendingSells, exit, guard, bundles, back>>

-----------------------------------------------------------------------------
(* The helpers of Vec: position, remove, push.                             *)

FirstOf(items, m, k) ==
    /\ k \in DOMAIN items
    /\ items[k].mint = m
    /\ \A j \in DOMAIN items : j < k => items[j].mint # m

Holds(items, m) == \E k \in DOMAIN items : items[k].mint = m

(* Three mistakes in booking: the position stays active; every close wins; *)
(* only the profit of a win is added up.                                   *)
CompleteKeeping(k, reason, pnl, held, won) ==
    /\ completed' = Append(completed,
           [bundle |-> active[k].bundle, reason |-> reason, pnl |-> pnl,
            held |-> held, age |-> active[k].age, back |-> back - active[k].clock])
    /\ totalPnl' = totalPnl + pnl
    /\ winningTrades' = IF won THEN winningTrades + 1 ELSE winningTrades
    /\ UNCHANGED <<active, totalTrades>>

CompleteWinning(k, reason, pnl, held, won) ==
    /\ active' = RemoveAt(active, k)
    /\ completed' = Append(completed,
           [bundle |-> active[k].bundle, reason |-> reason, pnl |-> pnl,
            held |-> held, age |-> active[k].age, back |-> back - active[k].clock])
    /\ totalPnl' = totalPnl + pnl
    /\ winningTrades' = winningTrades + 1
    /\ UNCHANGED totalTrades

CompleteGaining(k, reason, pnl, held, won) ==
    /\ active' = RemoveAt(active, k)
    /\ completed' = Append(completed,
           [bundle |-> active[k].bundle, reason |-> reason, pnl |-> pnl,
            held |-> held, age |-> active[k].age, back |-> back - active[k].clock])
    /\ totalPnl' = IF won THEN totalPnl + pnl ELSE totalPnl
    /\ winningTrades' = IF won THEN winningTrades + 1 ELSE winningTrades
    /\ UNCHANGED totalTrades

(* Move the active position at k to the completed trades.                   *)
CompleteAt(k, reason, pnl, held, won) ==
    /\ active' = RemoveAt(active, k)
    /\ completed' = Append(completed,
           [bundle |-> active[k].bundle, reason |-> reason, pnl |-> pnl,
            held |-> held, age |-> active[k].age, back |-> back - active[k].clock])
    /\ totalPnl' = totalPnl + pnl
    /\ winningTrades' = IF won THEN winningTrades + 1 ELSE winningTrades
    /\ UNCHANGED totalTrades

-----------------------------------------------------------------------------
(* The main loop.  It awaits in recv, execute_buy, confirm_buy_and_remove, *)
(* the state lock and execute_sell_fast, one program point each.           *)

(* A mistake: the bundle id does not travel with the mint.                 *)
GoesUnnamed(at, m, b, seen) ==
    main' = [at |-> at, mint |-> m, bundle |-> 0, onChain |-> seen]

MainGoes(at, m, b, seen) ==
    main' = [at |-> at, mint |-> m, bundle |-> b, onChain |-> seen]

CanReceive(type) ==
    /\ main.at = "recv"
    /\ ~lagged
    /\ signals # <<>>
    /\ Head(signals).type = type

Receive ==
    /\ signals' = Tail(signals)
    /\ UNCHANGED <<lagged, signalled>>

(* RecvError::Lagged: the signals that were overwritten are gone.          *)
RecvLagged ==
    /\ main.at = "recv"
    /\ lagged
    /\ lagged' = FALSE
    /\ UNCHANGED <<signals, signalled, main, lastTrade, book, pendingSells, exit,
                   guard, bundles, back>>

(* Two mistakes in the tests of a Buy: one position too many; no cooldown. *)
OneTooMany == /\ Seconds(lastTrade) >= TradeCooldown
              /\ Len(active) <= MaxPositions
NoCooldown == Len(active) < MaxPositions

MayBuy == /\ Seconds(lastTrade) >= TradeCooldown
          /\ Len(active) < MaxPositions

SkipBuy ==
    /\ CanReceive("buy")
    /\ ~MayBuy
    /\ Receive
    /\ UNCHANGED <<main, lastTrade, book, pendingSells, exit, guard, bundles, back>>

StartBuy ==
    /\ CanReceive("buy")
    /\ MayBuy
    /\ Receive
    /\ MainGoes("buying", Head(signals).mint, 0, FALSE)
    /\ UNCHANGED <<lastTrade, book, pendingSells, exit, guard, bundles, back>>

(* execute_buy: an error, a failed simulation, or a bundle the relay did   *)
(* not take, and the signal is dropped.                                    *)
BuyFails ==
    /\ main.at = "buying"
    /\ main' = Listening
    /\ UNCHANGED <<channel, lastTrade, book, pendingSells, exit, guard, bundles, back>>

BuyAccepted ==
    /\ main.at = "buying"
    /\ bundles < MaxBundles
    /\ bundles' = bundles + 1
    /\ MainGoes("confirming", main.mint, bundles + 1, FALSE)
    /\ UNCHANGED <<channel, lastTrade, book, pendingSells, exit, guard, back>>

(* The replies to getTransaction: the transaction if it is on chain, the   *)
(* null the RPC documents for an unknown one, or no usable answer (an      *)
(* error object, a body that is not JSON, a failed request, the timeout).  *)
Replies == {"transaction", "null", "none"}

(* json.pointer("/result").is_some() holds of a null result too.           *)
CountsAsConfirmed(reply) == reply \in {"transaction", "null"}

WithoutPending(m) ==
    \/ \E k \in DOMAIN pendingSells :
          /\ FirstOf(pendingSells, m, k)
          /\ pendingSells' = RemoveAt(pendingSells, k)
    \/ /\ ~Holds(pendingSells, m)
       /\ UNCHANGED pendingSells

(* confirm_buy_and_remove drops a pending sell of the mint either way.     *)
Confirm(reply) ==
    /\ main.at = "confirming"
    /\ WithoutPending(main.mint)
    /\ IF CountsAsConfirmed(reply)
       THEN /\ MainGoes("entering", main.mint, main.bundle, reply = "transaction")
            /\ lastTrade' = [age |-> 0, clock |-> back]
       ELSE /\ main' = Listening
            /\ UNCHANGED lastTrade
    /\ UNCHANGED <<channel, book, exit, guard, bundles, back>>

(* A mistake: the position is entered, its exit is not registered.         *)
EnterOnly ==
    /\ main.at = "entering"
    /\ active' = Append(active, [bundle |-> main.bundle, mint |-> main.mint,
                                 age |-> 0, clock |-> back])
    /\ totalTrades' = totalTrades + 1
    /\ main' = Listening
    /\ UNCHANGED <<channel, lastTrade, completed, winningTrades, totalPnl, pendingSells,
                   exit, guard, bundles, back>>

Enter ==
    /\ main.at = "entering"
    /\ active' = Append(active, [bundle |-> main.bundle, mint |-> main.mint,
                                 age |-> 0, clock |-> back])
    /\ totalTrades' = totalTrades + 1
    /\ pendingSells' = Append(pendingSells, [mint |-> main.mint, age |-> 0, clock |-> back])
    /\ main' = Listening
    /\ UNCHANGED <<channel, lastTrade, completed, winningTrades, totalPnl, exit, guard,
                   bundles, back>>

(* The signal brings its own reason, which nothing reads: Manual for all.  *)
ReceiveSell ==
    /\ CanReceive("sell")
    /\ Receive
    /\ \/ \E k \in DOMAIN active :
             /\ FirstOf(active, Head(signals).mint, k)
             /\ CompleteAt(k, "Manual", Head(signals).pnl, Held(active[k]),
                           Head(signals).pnl > 0)
             /\ MainGoes("selling", Head(signals).mint, 0, FALSE)
       \/ /\ ~Holds(active, Head(signals).mint)
          /\ UNCHANGED <<book, main>>
    /\ UNCHANGED <<lastTrade, pendingSells, exit, guard, bundles, back>>

(* execute_sell_fast came back; the handler only logs what it returned.    *)
SellSent ==
    /\ main.at = "selling"
    /\ main' = Listening
    /\ UNCHANGED <<channel, lastTrade, book, pendingSells, exit, guard, bundles, back>>

MainLoop ==
    \/ RecvLagged \/ SkipBuy \/ StartBuy \/ BuyFails \/ BuyAccepted
    \/ \E reply \in Replies : Confirm(reply)
    \/ Enter \/ ReceiveSell \/ SellSent

-----------------------------------------------------------------------------
(* The exit loops.  Each works on a clone of the pending sells taken at    *)
(* its tick, and awaits the sell between deciding and booking.             *)

(* A mistake: both loops ask for the trade monitor first.                  *)
TickToGate(l) ==
    /\ exit[l].at = "idle"
    /\ pendingSells # <<>>
    /\ exit' = [exit EXCEPT ![l] =
                   [at |-> "gate", snapshot |-> pendingSells, held |-> 0]]
    /\ UNCHANGED <<channel, main, lastTrade, book, pendingSells, guard, bundles, back>>

(* A tick with no pending sell changes nothing.                            *)
LoopTick(l) ==
    /\ exit[l].at = "idle"
    /\ pendingSells # <<>>
    /\ exit' = [exit EXCEPT ![l] =
                   [at |-> IF l = "gated" THEN "gate" ELSE "scan",
                    snapshot |-> pendingSells, held |-> 0]]
    /\ UNCHANGED <<channel, main, lastTrade, book, pendingSells, guard, bundles, back>>

(* The gated loop reads trade_monitor.  Nothing ever gives the monitor a   *)
(* position, so has_active_position answers FALSE and the scan goes on.    *)
PassGate ==
    /\ exit["gated"].at = "gate"
    /\ guard = "free"
    /\ exit' = [exit EXCEPT !["gated"].at = "scan"]
    /\ UNCHANGED <<channel, main, lastTrade, book, pendingSells, guard, bundles, back>>

(* start_monitoring never returns, so the task keeps its write guard.      *)
StartMonitoring ==
    /\ guard = "free"
    /\ guard' = "monitoring"
    /\ UNCHANGED <<channel, main, lastTrade, book, pendingSells, exit, bundles, back>>

Advanced(loop) ==
    IF Len(loop.snapshot) = 1
    THEN Idle
    ELSE [at |-> "scan", snapshot |-> Tail(loop.snapshot), held |-> 0]

Keep(l) ==
    /\ exit[l].at = "scan"
    /\ ~MustExit(Held(Head(exit[l].snapshot)))
    /\ exit' = [exit EXCEPT ![l] = Advanced(@)]
    /\ UNCHANGED <<channel, main, lastTrade, book, pendingSells, guard, bundles, back>>

(* held_seconds is computed here, and used again after the sell.           *)
StartSell(l) ==
    /\ exit[l].at = "scan"
    /\ MustExit(Held(Head(exit[l].snapshot)))
    /\ exit' = [exit EXCEPT ![l].at = "selling",
                            ![l].held = Held(Head(exit[l].snapshot))]
    /\ UNCHANGED <<channel, main, lastTrade, book, pendingSells, guard, bundles, back>>

(* The sell returned, its result is ignored (let _ =), and the first       *)
(* active position of the mint, if there still is one, is booked closed.   *)
Record(l) ==
    /\ exit[l].at = "selling"
    /\ LET m      == Head(exit[l].snapshot).mint
           held   == exit[l].held
           reason == ExitReason(held)
       IN  \/ \E k \in DOMAIN active :
                 /\ FirstOf(active, m, k)
                 /\ CompleteAt(k, reason, BookedPnl(reason, held), held,
                               reason = "TakeProfit")
           \/ /\ ~Holds(active, m)
              /\ UNCHANGED book
    /\ exit' = [exit EXCEPT ![l] = Advanced(@)]
    /\ UNCHANGED <<channel, main, lastTrade, pendingSells, guard, bundles, back>>

ExitStep(l) == LoopTick(l) \/ Keep(l) \/ StartSell(l) \/ Record(l)

-----------------------------------------------------------------------------
Environment ==
    \/ \E m \in Mints : SendBuy(m)
    \/ \E m \in Mints, p \in SignalPnl : SendSell(m, p)

Next ==
    \/ Tick
    \/ \E seconds \in 1..MaxBack : SetBack(seconds)
    \/ Environment \/ MainLoop \/ StartMonitoring \/ PassGate
    \/ \E l \in ExitLoop : ExitStep(l)

Spec == Init /\ [][Next]_vars

(* tokio keeps polling every task, each HTTP call carries a timeout, and   *)
(* time passes.  Nothing is assumed of the signals, of the chain, of the   *)
(* corrections of the clock, or of which way a call ends.                  *)
Fairness ==
    /\ WF_vars(Tick)
    /\ WF_vars(MainLoop)
    /\ WF_vars(StartMonitoring)
    /\ WF_vars(PassGate)
    /\ \A l \in ExitLoop : WF_vars(ExitStep(l))

FairSpec == Spec /\ Fairness
-----------------------------------------------------------------------------
(* Correctness.                                                            *)

(* Every variable has its type: no entry of a Vec is of another mint or    *)
(* bundle than the program can have put there.                             *)
TypeOK ==
    /\ signals \in Seq(Signal)
    /\ lagged \in BOOLEAN
    /\ signalled \subseteq Mints
    /\ main \in [at : MainAt, mint : Mints \cup {NoMint}, bundle : Bundle \cup {0},
                 onChain : BOOLEAN]
    /\ lastTrade \in Stamp
    /\ active \in Seq(Position)
    /\ completed \in Seq(Trade)
    /\ totalTrades \in Nat /\ winningTrades \in Nat /\ totalPnl \in Int
    /\ pendingSells \in Seq(Pending)
    /\ exit \in [ExitLoop -> [at : LoopAt, snapshot : Seq(Pending), held : U64]]
    /\ guard \in {"free", "monitoring"}
    /\ bundles \in 0..MaxBundles
    /\ back \in Back

(* "Limits concurrent positions": the limit is read when the signal        *)
(* arrives, the position pushed two RPC calls later.                       *)
PositionLimit == Len(active) <= MaxPositions

ActiveBundles    == {active[k].bundle : k \in DOMAIN active}
CompletedBundles == {completed[k].bundle : k \in DOMAIN completed}

(* However the two loops and the Sell handler race, a position is booked   *)
(* closed once, and every trade entered is either active or completed.     *)
EachTradeOnce ==
    /\ totalTrades = Len(active) + Len(completed)
    /\ totalTrades = Cardinality(ActiveBundles \cup CompletedBundles)

(* The dashboard's count of wins agrees with the list of completed trades, *)
(* though the exit loops count by the reason and the Sell handler by the   *)
(* profit.                                                                 *)
WinsAgree ==
    winningTrades = Cardinality({k \in DOMAIN completed : completed[k].pnl > 0})

(* What a list of trades earned in all.                                    *)
Profit(trades) ==
    LET earned[n \in 0..Len(trades)] ==
            IF n = 0 THEN 0 ELSE earned[n - 1] + trades[n].pnl
    IN  earned[Len(trades)]

(* The dashboard's profit is the sum of what the trades were booked with.  *)
ProfitsAgree == totalPnl = Profit(completed)

(* "Enforces cooldown between trades": whenever a trade is confirmed, two  *)
(* awaits after the test, a cooldown has really passed since the last one, *)
(* however the clock was set back, and the time to the next one starts.    *)
CooldownBetweenTrades ==
    [][main.at # "entering" /\ main'.at = "entering" =>
          lastTrade.age >= TradeCooldown /\ lastTrade'.age = 0]_vars

(* Every active position has a pending sell with its own entry time, the   *)
(* only thing that can make an exit loop close it.  It needs               *)
(* ~RepeatSignals.                                                         *)
EveryPositionHasAnExit ==
    \A k \in DOMAIN active : \E j \in DOMAIN pendingSells :
        /\ pendingSells[j].mint = active[k].mint
        /\ pendingSells[j].age = active[k].age
        /\ pendingSells[j].clock = active[k].clock

(* A position sold for its age was really held that long when it was       *)
(* booked; or the clock was set back past its entry, and the held_seconds  *)
(* booked are the negative ones of the code, wrapped to the top of a u64.  *)
(* It needs ~RepeatSignals.                                                *)
SoldForAgeIsOld ==
    \A k \in DOMAIN completed :
        completed[k].reason = "MaxHoldTime" =>
            \/ completed[k].age >= MaxHoldSeconds
            \/ completed[k].back > 0 /\ completed[k].held >= Modulus - completed[k].back

(* "If not confirmed, we DON'T enter the trade": a trade is entered only   *)
(* after the RPC has shown its transaction.                                *)
OnlyConfirmedEntered == main.at = "entering" => main.onChain

(* "Maximum time to hold a position before force-selling": no position     *)
(* stays active for ever.                                                  *)
EveryPositionCloses ==
    \A b \in Bundle : b \in ActiveBundles ~> b \in CompletedBundles

(* The strategy implements the abstract book of positions.                 *)
Book == INSTANCE PositionBook WITH
            Position <- Bundle, Limit <- MaxPositions,
            open <- ActiveBundles, closed <- CompletedBundles
ImplementsBook == Book!Spec
=============================================================================
