--------------------------- MODULE StrategyProofs ---------------------------
(***************************************************************************)
(* Theorems about Strategy, for every set of mints, every configuration    *)
(* and every capacity of the signal channel.                               *)
(***************************************************************************)
EXTENDS Strategy, SequenceLemmas, FiniteSetTheorems

(* Time keeps the entries of a Vec and their order.                        *)
LEMMA AgedType ==
    ASSUME NEW S, NEW s \in Seq(S),
           \A k \in 1..Len(s) : [s[k] EXCEPT !.age = Older(@)] \in S
    PROVE  /\ Aged(s) \in Seq(S)
           /\ Len(Aged(s)) = Len(s)
  <1>1. DOMAIN s = 1..Len(s) /\ Len(s) \in Nat
    BY LenProperties
  <1>2. Aged(s) \in [1..Len(s) -> S]
    BY <1>1 DEF Aged
  <1>3. Aged(s) \in Seq(S)
    BY <1>1, <1>2, IsASeq
  <1>4. DOMAIN Aged(s) = 1..Len(s)
    BY <1>2
  <1> QED
    BY <1>1, <1>3, <1>4, LenProperties

LEMMA AgedPending ==
    ASSUME NEW s \in Seq(Pending)
    PROVE  /\ Aged(s) \in Seq(Pending)
           /\ Len(Aged(s)) = Len(s)
  <1>1. \A k \in 1..Len(s) : [s[k] EXCEPT !.age = Older(@)] \in Pending
    <2> TAKE k \in 1..Len(s)
    <2>1. s[k] \in Pending
      BY LenProperties
    <2>2. Older(s[k].age) \in Age
      BY <2>1, StrategyAssumption DEF Pending, Age, Older
    <2> QED
      BY <2>1, <2>2 DEF Pending
  <1> QED
    BY <1>1, AgedType

LEMMA AgedActive ==
    ASSUME NEW s \in Seq(Position)
    PROVE  /\ Aged(s) \in Seq(Position)
           /\ Len(Aged(s)) = Len(s)
  <1>1. \A k \in 1..Len(s) : [s[k] EXCEPT !.age = Older(@)] \in Position
    <2> TAKE k \in 1..Len(s)
    <2>1. s[k] \in Position
      BY LenProperties
    <2>2. Older(s[k].age) \in Age
      BY <2>1, StrategyAssumption DEF Position, Age, Older
    <2> QED
      BY <2>1, <2>2 DEF Position
  <1> QED
    BY <1>1, AgedType

-----------------------------------------------------------------------------
(* The inductive invariant: what the main loop carries at each of its      *)
(* program points, and that an exit loop under way has a head to look at.  *)

Buying == {"buying", "confirming", "entering"}

MainOK ==
    /\ main.at \in Buying => main.mint \in Mints
    /\ main.at \in {"confirming", "entering"} => main.bundle \in Bundle

LoopOK == \A l \in ExitLoop : exit[l].at # "idle" => exit[l].snapshot # <<>>

TypeInv == TypeOK /\ MainOK /\ LoopOK

(* held_seconds is a number of 64 bits: the age or less, as far as the     *)
(* clock has been set back, or the wrapped number below zero.              *)
OldOrWrapped(held, stamp, now) ==
    \/ held <= stamp.age
    \/ now > stamp.clock /\ held >= Modulus - (now - stamp.clock)

(* It stays one when the clock is set back further.                        *)
LEMMA WrappedStays ==
    ASSUME NEW held \in Nat, NEW stamp, stamp.clock \in Nat,
           NEW now \in Nat, NEW then \in Nat, now <= then,
           OldOrWrapped(held, stamp, now)
    PROVE  OldOrWrapped(held, stamp, then)
  <1>1. Modulus \in Nat
    BY StrategyAssumption
  <1>2. ASSUME NEW clock \in Nat, now > clock, held >= Modulus - (now - clock)
        PROVE  then > clock /\ held >= Modulus - (then - clock)
    BY <1>1, <1>2
  <1> QED
    BY <1>2 DEF OldOrWrapped

LEMMA HeldType ==
    ASSUME NEW stamp, stamp.age \in Age, stamp.clock \in Back, back \in Back
    PROVE  /\ Seconds(stamp) \in Int /\ Held(stamp) \in U64
           /\ stamp.clock <= back => OldOrWrapped(Held(stamp), stamp, back)
           /\ stamp.clock <= back => Seconds(stamp) <= stamp.age
  <1>1. /\ Modulus \in Nat /\ AgeCap \in Nat /\ MaxBack \in Nat
        /\ AgeCap + MaxBack < Modulus
    BY StrategyAssumption
  <1> DEFINE x == Seconds(stamp)
             y == back - stamp.clock
  <1>2. /\ x \in Int /\ y \in Int /\ x = stamp.age - y
        /\ stamp.age \in Int /\ 0 <= stamp.age /\ stamp.age <= AgeCap
        /\ 0 - MaxBack <= y /\ y <= MaxBack
        /\ stamp.clock \in Int /\ back \in Int
    BY <1>1 DEF Seconds, Age, Back
  <1>a. y = back - stamp.clock
    OBVIOUS
  <1> HIDE DEF x, y
  <1>3. x % Modulus \in 0..Modulus - 1
    BY <1>1, <1>2, Z3
  <1>4. Held(stamp) = x % Modulus
    BY DEF Held, x
  <1>5. ASSUME 0 <= y PROVE OldOrWrapped(Held(stamp), stamp, back) /\ x <= stamp.age
    <2>1. CASE 0 <= x
      <3>1. x % Modulus = x
        BY <1>1, <1>2, <1>5, <2>1, Z3
      <3> QED
        BY <1>2, <1>4, <1>5, <3>1 DEF OldOrWrapped
    <2>2. CASE x < 0
      <3>1. x % Modulus = x + Modulus
        BY <1>1, <1>2, <1>5, <2>2, Z3
      <3>2. /\ x <= stamp.age /\ back > stamp.clock
            /\ x + Modulus >= Modulus - (back - stamp.clock)
        BY <1>1, <1>2, <1>5, <1>a, <2>2
      <3> QED
        BY <1>4, <3>1, <3>2 DEF OldOrWrapped
    <2> QED
      BY <1>2, <2>1, <2>2
  <1>6. stamp.clock <= back => 0 <= y
    BY <1>2, <1>a
  <1> QED
    BY <1>2, <1>3, <1>4, <1>5, <1>6 DEF U64, x

(* Every rule of the exit loops names a reason and books an integer.       *)
LEMMA BookedType ==
    ASSUME NEW held \in Nat
    PROVE  /\ ExitReason(held) \in Reasons
           /\ BookedPnl(ExitReason(held), held) \in Int
  <1>1. ExitReason(held) \in Reasons
    BY DEF ExitReason, Reasons
  <1>2. Pnl(held) \in Int
    BY DEF Pnl, SimulatedPrice
  <1>3. TrailingStop(SimulatedPrice(held)) \in Int
    BY ExitRulesAssumption DEF TrailingStop, SimulatedPrice
  <1> QED
    BY <1>1, <1>2, <1>3 DEF BookedPnl

(* Booking a trade closed moves one entry from one Vec to the other.       *)
LEMMA CompleteAtType ==
    ASSUME active \in Seq(Position), completed \in Seq(Trade),
           winningTrades \in Nat, totalPnl \in Int, back \in Back,
           NEW k \in DOMAIN active, NEW reason \in Reasons, NEW pnl \in Int,
           NEW held \in U64, NEW won, CompleteAt(k, reason, pnl, held, won)
    PROVE  /\ active' \in Seq(Position)
           /\ completed' \in Seq(Trade)
           /\ totalTrades' = totalTrades
           /\ winningTrades' \in Nat
           /\ totalPnl' \in Int
           /\ Len(active') = Len(active) - 1
           /\ Len(completed') = Len(completed) + 1
  <1> DEFINE trade == [bundle |-> active[k].bundle, reason |-> reason, pnl |-> pnl,
                       held |-> held, age |-> active[k].age,
                       back |-> back - active[k].clock]
  <1>1. active[k] \in Position
    BY LenProperties
  <1>2. trade \in Trade
    BY <1>1, StrategyAssumption DEF Position, Trade, Back
  <1>3. completed' = Append(completed, trade)
    BY DEF CompleteAt
  <1>4. /\ completed' \in Seq(Trade)
        /\ Len(completed') = Len(completed) + 1
    BY <1>2, <1>3, AppendProperties
  <1>5. /\ active' \in Seq(Position)
        /\ Len(active') = Len(active) - 1
    BY RemoveAtType DEF CompleteAt
  <1> QED
    BY <1>4, <1>5 DEF CompleteAt

(* After an entry an exit loop has the rest of its snapshot, or is done.   *)
LEMMA AdvancedType ==
    ASSUME NEW loop \in [at : LoopAt, snapshot : Seq(Pending), held : U64],
           loop.snapshot # <<>>
    PROVE  /\ Advanced(loop) \in [at : LoopAt, snapshot : Seq(Pending), held : U64]
           /\ Advanced(loop).at # "idle" => Advanced(loop).snapshot # <<>>
  <1>1. loop.snapshot \in Seq(Pending) /\ 0 \in U64
    BY StrategyAssumption DEF U64
  <1>2. CASE Len(loop.snapshot) = 1
    BY <1>1, <1>2, EmptySeq DEF Advanced, Idle, LoopAt
  <1>3. CASE Len(loop.snapshot) # 1
    <2>1. /\ Tail(loop.snapshot) \in Seq(Pending)
          /\ Len(Tail(loop.snapshot)) = Len(loop.snapshot) - 1
      BY <1>1, HeadTailProperties
    <2>2. Len(loop.snapshot) \in Nat /\ Len(loop.snapshot) # 0
      BY <1>1, EmptySeq, LenProperties
    <2>3. Tail(loop.snapshot) # <<>>
      <3>1. Len(Tail(loop.snapshot)) # 0
        BY <1>3, <2>1, <2>2
      <3>2. Len(<<>>) = 0
        BY EmptySeq
      <3> QED
        BY <3>1, <3>2
    <2> QED
      BY <1>1, <1>3, <2>1, <2>3 DEF Advanced, LoopAt
  <1> QED
    BY <1>2, <1>3

(* The broadcast channel holds signals, whether or not it overwrote one.   *)
LEMMA SendType ==
    ASSUME signals \in Seq(Signal), lagged \in BOOLEAN,
           NEW s \in Signal, Send(s)
    PROVE  signals' \in Seq(Signal) /\ lagged' \in BOOLEAN
  <1>1. CASE Len(signals) < SignalCap
    BY <1>1, AppendProperties DEF Send
  <1>2. CASE ~(Len(signals) < SignalCap)
    <2>1. signals # <<>>
      BY <1>2, EmptySeq, StrategyAssumption
    <2>2. Tail(signals) \in Seq(Signal)
      BY <2>1, HeadTailProperties
    <2> QED
      BY <1>2, <2>2, AppendProperties DEF Send
  <1> QED
    BY <1>1, <1>2

LEMMA ReceiveType ==
    ASSUME signals \in Seq(Signal), NEW type, CanReceive(type), Receive
    PROVE  /\ signals' \in Seq(Signal)
           /\ Head(signals) \in Signal
  BY HeadTailProperties DEF CanReceive, Receive

-----------------------------------------------------------------------------
(* Type correctness.                                                       *)

LEMMA TypeInit == Init => TypeInv
  <1> SUFFICES ASSUME Init PROVE TypeInv
    OBVIOUS
  <1>1. /\ signals \in Seq(Signal) /\ active \in Seq(Position)
        /\ completed \in Seq(Trade) /\ pendingSells \in Seq(Pending)
    BY EmptySeq DEF Init
  <1>2. main \in [at : MainAt, mint : Mints \cup {NoMint}, bundle : Bundle \cup {0},
                 onChain : BOOLEAN]
    BY DEF Init, Listening, MainAt
  <1>3. exit \in [ExitLoop -> [at : LoopAt, snapshot : Seq(Pending), held : U64]]
    BY EmptySeq, StrategyAssumption DEF Init, Idle, LoopAt, U64
  <1>4. lastTrade \in Stamp
    BY StrategyAssumption DEF Init, Stamp, Age, Back
  <1>5. bundles \in 0..MaxBundles /\ back \in Back
    BY StrategyAssumption DEF Init, Back
  <1>a. lagged \in BOOLEAN
    BY Zenon DEF Init
  <1>b. /\ signalled \subseteq Mints
        /\ totalTrades \in Nat /\ winningTrades \in Nat /\ totalPnl \in Int
        /\ guard \in {"free", "monitoring"}
    <2>1. signalled = {} /\ totalTrades = 0 /\ winningTrades = 0 /\ totalPnl = 0
          /\ guard = "free"
      BY Zenon DEF Init
    <2> QED
      BY <2>1
  <1>6. TypeOK
    BY <1>1, <1>2, <1>3, <1>4, <1>5, <1>a, <1>b DEF TypeOK
  <1>7. MainOK /\ LoopOK
    BY DEF MainOK, LoopOK, Buying, Init, Listening, Idle
  <1> QED
    BY <1>6, <1>7 DEF TypeInv

LEMMA TypeStep == TypeInv /\ [Next]_vars => TypeInv'
  <1> SUFFICES ASSUME TypeInv, [Next]_vars PROVE TypeInv'
    OBVIOUS
  <1> USE DEF TypeInv, TypeOK
  <1>1. CASE Tick
    <2>1. lastTrade' \in Stamp
      <3>1. lastTrade.age \in Age /\ lastTrade.clock \in Back
        BY DEF Stamp
      <3>2. Older(lastTrade.age) \in Age
        BY <3>1, StrategyAssumption DEF Older, Age
      <3> QED
        BY <1>1, <3>1, <3>2 DEF Tick, Stamp
    <2>2. active' \in Seq(Position) /\ pendingSells' \in Seq(Pending)
      BY <1>1, AgedActive, AgedPending DEF Tick
    <2>3. \A l \in ExitLoop :
             /\ exit[l].snapshot \in Seq(Pending)
             /\ Aged(exit[l].snapshot) \in Seq(Pending)
             /\ exit[l].snapshot # <<>> => Aged(exit[l].snapshot) # <<>>
      <3> TAKE l \in ExitLoop
      <3>1. exit[l].snapshot \in Seq(Pending)
        OBVIOUS
      <3>2. /\ Aged(exit[l].snapshot) \in Seq(Pending)
            /\ Len(Aged(exit[l].snapshot)) = Len(exit[l].snapshot)
        BY <3>1, AgedPending
      <3>3. exit[l].snapshot # <<>> => Len(exit[l].snapshot) # 0
        BY <3>1, EmptySeq
      <3> QED
        BY <3>1, <3>2, <3>3, EmptySeq
    <2>4. exit' \in [ExitLoop -> [at : LoopAt, snapshot : Seq(Pending), held : U64]]
      BY <1>1, <2>3 DEF Tick
    <2>5. LoopOK'
      BY <1>1, <2>3 DEF Tick, LoopOK
    <2> QED
      BY <1>1, <2>1, <2>2, <2>4, <2>5 DEF Tick, MainOK, channel
  <1>2. ASSUME NEW m \in Mints, SendBuy(m) PROVE TypeInv'
    <2>1. BuySignal(m) \in Signal
      BY DEF BuySignal, Signal
    <2>2. signals' \in Seq(Signal) /\ lagged' \in BOOLEAN
      BY <1>2, <2>1, SendType DEF SendBuy
    <2>3. signalled' \subseteq Mints
      BY <1>2 DEF SendBuy
    <2> QED
      BY <1>2, <2>2, <2>3 DEF SendBuy, book, MainOK, LoopOK
  <1>3. ASSUME NEW m \in Mints, NEW p \in SignalPnl, SendSell(m, p) PROVE TypeInv'
    <2>1. SellSignal(m, p) \in Signal
      BY DEF SellSignal, Signal
    <2>2. signals' \in Seq(Signal) /\ lagged' \in BOOLEAN
      BY <1>3, <2>1, SendType DEF SendSell
    <2> QED
      BY <1>3, <2>2 DEF SendSell, book, MainOK, LoopOK
  <1>4. CASE RecvLagged
    BY <1>4 DEF RecvLagged, book, MainOK, LoopOK
  <1>5. CASE SkipBuy
    <2>1. signals' \in Seq(Signal)
      BY <1>5, ReceiveType DEF SkipBuy
    <2> QED
      BY <1>5, <2>1 DEF SkipBuy, Receive, book, MainOK, LoopOK
  <1>6. CASE StartBuy
    <2>1. signals' \in Seq(Signal) /\ Head(signals) \in Signal
      BY <1>6, ReceiveType DEF StartBuy
    <2>2. Head(signals).mint \in Mints
      BY <2>1 DEF Signal
    <2> QED
      BY <1>6, <2>1, <2>2 DEF StartBuy, MainGoes, MainAt, Buying, Receive, book, MainOK,
                              LoopOK
  <1>7. CASE BuyFails
    BY <1>7 DEF BuyFails, Listening, MainAt, Buying, channel, book, MainOK, LoopOK
  <1>8. CASE BuyAccepted
    <2>1. bundles + 1 \in Bundle /\ bundles' \in 0..MaxBundles
      BY <1>8, StrategyAssumption DEF BuyAccepted, Bundle
    <2> QED
      BY <1>8, <2>1 DEF BuyAccepted, MainGoes, MainAt, Buying, channel, book, MainOK, LoopOK
  <1>9. ASSUME NEW reply \in Replies, Confirm(reply) PROVE TypeInv'
    <2>1. pendingSells' \in Seq(Pending)
      BY <1>9, RemoveAtType DEF Confirm, WithoutPending
    <2>2. lastTrade' \in Stamp
      BY <1>9, StrategyAssumption DEF Confirm, Stamp, Age
    <2>3. /\ main' \in [at : MainAt, mint : Mints \cup {NoMint}, bundle : Bundle \cup {0},
                       onChain : BOOLEAN]
          /\ MainOK'
      <3>1. CASE CountsAsConfirmed(reply)
        <4>1. PICK seen \in BOOLEAN :
                 main' = [at |-> "entering", mint |-> main.mint, bundle |-> main.bundle,
                          onChain |-> seen]
          BY <1>9, <3>1, Zenon DEF Confirm, MainGoes
        <4>2. main.mint \in Mints /\ main.bundle \in Bundle
          BY <1>9 DEF Confirm, MainOK, Buying
        <4>3. main' \in [at : MainAt, mint : Mints \cup {NoMint}, bundle : Bundle \cup {0},
                        onChain : BOOLEAN]
          BY <4>1, <4>2, Zenon DEF MainAt
        <4>4. MainOK'
          BY <4>1, <4>2 DEF MainOK, Buying
        <4> QED
          BY <4>3, <4>4
      <3>2. CASE ~CountsAsConfirmed(reply)
        <4>1. main' = Listening
          BY <1>9, <3>2 DEF Confirm
        <4>2. main' \in [at : MainAt, mint : Mints \cup {NoMint}, bundle : Bundle \cup {0},
                        onChain : BOOLEAN]
          BY <4>1, Zenon DEF Listening, MainAt
        <4> QED
          BY <4>1, <4>2 DEF Listening, MainOK, Buying
      <3> QED
        BY <3>1, <3>2
    <2> QED
      BY <1>9, <2>1, <2>2, <2>3 DEF Confirm, channel, book, LoopOK
  <1>10. CASE Enter
    <2>1. 0 \in Age /\ main.mint \in Mints /\ main.bundle \in Bundle
      BY <1>10, StrategyAssumption DEF Enter, MainOK, Buying, Age
    <2>2. active' \in Seq(Position)
      BY <1>10, <2>1, AppendProperties DEF Enter, Position
    <2>3. pendingSells' \in Seq(Pending)
      BY <1>10, <2>1, AppendProperties DEF Enter, Pending
    <2> QED
      BY <1>10, <2>2, <2>3 DEF Enter, Listening, MainAt, Buying, channel, MainOK, LoopOK
  <1>11. CASE ReceiveSell
    <2>1. signals' \in Seq(Signal) /\ Head(signals) \in Signal
      BY <1>11, ReceiveType DEF ReceiveSell
    <2>a. SignalPnl \cup {0} \subseteq Int
      BY StrategyAssumption
    <2>2. Head(signals).mint \in Mints /\ Head(signals).pnl \in Int
      BY <2>1, <2>a DEF Signal
    <2>3. CASE \E k \in DOMAIN active :
                  /\ CompleteAt(k, "Manual", Head(signals).pnl, Held(active[k]),
                                Head(signals).pnl > 0)
                  /\ MainGoes("selling", Head(signals).mint, 0, FALSE)
      <3>1. PICK k \in DOMAIN active :
                  /\ CompleteAt(k, "Manual", Head(signals).pnl, Held(active[k]),
                                Head(signals).pnl > 0)
                  /\ MainGoes("selling", Head(signals).mint, 0, FALSE)
        BY <2>3
      <3>a. active[k] \in Position
        BY LenProperties
      <3>2. Held(active[k]) \in U64
        BY <3>a, HeldType DEF Position
      <3>3. "Manual" \in Reasons
        BY DEF Reasons
      <3>4. /\ active' \in Seq(Position) /\ completed' \in Seq(Trade)
            /\ totalTrades' \in Nat /\ winningTrades' \in Nat /\ totalPnl' \in Int
        BY <2>2, <3>1, <3>2, <3>3, CompleteAtType
      <3>5. main' \in [at : MainAt, mint : Mints \cup {NoMint}, bundle : Bundle \cup {0},
                      onChain : BOOLEAN]
        BY <2>2, <3>1 DEF MainGoes, MainAt
      <3>6. MainOK'
        BY <3>1 DEF MainGoes, MainOK, Buying
      <3> QED
        BY <1>11, <2>1, <3>4, <3>5, <3>6 DEF ReceiveSell, Receive, LoopOK
    <2>4. CASE UNCHANGED <<book, main>>
      BY <1>11, <2>1, <2>4 DEF ReceiveSell, Receive, book, MainOK, LoopOK
    <2> QED
      BY <1>11, <2>3, <2>4 DEF ReceiveSell
  <1>12. CASE SellSent
    BY <1>12 DEF SellSent, Listening, MainAt, Buying, channel, book, MainOK, LoopOK
  <1>13. CASE StartMonitoring
    BY <1>13 DEF StartMonitoring, channel, book, MainOK, LoopOK
  <1>14. CASE PassGate
    BY <1>14 DEF PassGate, LoopAt, ExitLoop, channel, book, MainOK, LoopOK
  <1>15. ASSUME NEW l \in ExitLoop, LoopTick(l) PROVE TypeInv'
    BY <1>15, StrategyAssumption DEF LoopTick, LoopAt, U64, channel, book, MainOK, LoopOK
  <1>16. ASSUME NEW l \in ExitLoop, Keep(l) PROVE TypeInv'
    <2>1. /\ Advanced(exit[l]) \in [at : LoopAt, snapshot : Seq(Pending), held : U64]
          /\ Advanced(exit[l]).at # "idle" => Advanced(exit[l]).snapshot # <<>>
      BY <1>16, AdvancedType DEF Keep, LoopOK
    <2> QED
      BY <1>16, <2>1 DEF Keep, channel, book, MainOK, LoopOK
  <1>17. ASSUME NEW l \in ExitLoop, StartSell(l) PROVE TypeInv'
    <2>1. Head(exit[l].snapshot) \in Pending
      BY <1>17, HeadTailProperties DEF StartSell, LoopOK
    <2>2. Held(Head(exit[l].snapshot)) \in U64
      BY <2>1, HeldType DEF Pending
    <2> QED
      BY <1>17, <2>2 DEF StartSell, LoopAt, channel, book, MainOK, LoopOK
  <1>18. ASSUME NEW l \in ExitLoop, Record(l) PROVE TypeInv'
    <2> DEFINE m      == Head(exit[l].snapshot).mint
               held   == exit[l].held
               reason == ExitReason(held)
    <2>1. /\ Advanced(exit[l]) \in [at : LoopAt, snapshot : Seq(Pending), held : U64]
          /\ Advanced(exit[l]).at # "idle" => Advanced(exit[l]).snapshot # <<>>
      BY <1>18, AdvancedType DEF Record, LoopOK
    <2>2. held \in U64 /\ held \in Nat
      BY StrategyAssumption DEF U64
    <2>3. reason \in Reasons /\ BookedPnl(reason, held) \in Int
      BY <2>2, BookedType
    <2>4. /\ active' \in Seq(Position) /\ completed' \in Seq(Trade)
          /\ totalTrades' \in Nat /\ winningTrades' \in Nat /\ totalPnl' \in Int
      <3>1. CASE UNCHANGED book
        BY <3>1 DEF book
      <3>2. ASSUME NEW k \in DOMAIN active,
                   CompleteAt(k, reason, BookedPnl(reason, held), held,
                              reason = "TakeProfit")
            PROVE  <2>4
        <4> HIDE DEF reason, held
        <4> QED
          BY <2>2, <2>3, <3>2, CompleteAtType
      <3> QED
        BY <1>18, <3>1, <3>2 DEF Record
    <2> QED
      BY <1>18, <2>1, <2>4 DEF Record, channel, MainOK, LoopOK
  <1>19. CASE UNCHANGED vars
    BY <1>19 DEF vars, channel, book, MainOK, LoopOK
  <1>20. ASSUME NEW seconds \in 1..MaxBack, SetBack(seconds) PROVE TypeInv'
    <2>1. back' \in Back
      BY <1>20, StrategyAssumption DEF SetBack, Back
    <2> QED
      BY <1>20, <2>1 DEF SetBack, channel, book, MainOK, LoopOK
  <1> QED
    BY <1>1, <1>2, <1>3, <1>4, <1>5, <1>6, <1>7, <1>8, <1>9, <1>10, <1>11, <1>12, <1>13,
       <1>14, <1>15, <1>16, <1>17, <1>18, <1>19, <1>20
       DEF Next, Environment, MainLoop, ExitStep

(* Every variable of the strategy keeps its type: no signal, interleaving  *)
(* or RPC answer puts the main loop or an exit loop where its code has no  *)
(* mint, bundle or snapshot to work with.                                  *)
THEOREM TypeCorrect == Spec => []TypeOK
  <1>1. TypeInv => TypeOK
    BY DEF TypeInv
  <1> QED
    BY <1>1, TypeInit, TypeStep, PTL DEF Spec

-----------------------------------------------------------------------------
(* The position limit and the cooldown.  Both are tested when the signal   *)
(* is received and relied upon awaits later, so the invariant carries the  *)
(* outcome of the test along the main loop.                                *)

RoomInv ==
    /\ PositionLimit
    /\ main.at \in Buying => Len(active) < MaxPositions

CooledInv ==
    /\ lastTrade.clock <= back
    /\ main.at \in {"buying", "confirming"} => lastTrade.age >= TradeCooldown

LEMMA RoomInit == Init => RoomInv /\ CooledInv
  <1> SUFFICES ASSUME Init PROVE RoomInv /\ CooledInv
    OBVIOUS
  <1>1. /\ Len(active) = 0 /\ main.at = "recv"
        /\ lastTrade.clock = 0 /\ back = 0
    BY EmptySeq DEF Init, Listening
  <1> QED
    BY <1>1, StrategyAssumption DEF RoomInv, CooledInv, PositionLimit, Buying

(* Only Enter makes active longer, and no step that can run beside it      *)
(* takes the room it was promised.                                         *)
LEMMA RoomStep == TypeInv /\ RoomInv /\ [Next]_vars => RoomInv'
  <1> SUFFICES ASSUME TypeInv, RoomInv, [Next]_vars PROVE RoomInv'
    OBVIOUS
  <1>t. /\ active \in Seq(Position) /\ completed \in Seq(Trade)
        /\ winningTrades \in Nat /\ totalPnl \in Int
        /\ Len(active) \in Nat
    BY LenProperties DEF TypeInv, TypeOK
  <1> USE DEF RoomInv, PositionLimit, Buying
  <1>1. CASE Tick
    BY <1>1, <1>t, AgedActive DEF Tick
  <1>b. ASSUME NEW seconds \in 1..MaxBack, SetBack(seconds) PROVE RoomInv'
    BY <1>b DEF SetBack, book
  <1>2. CASE Environment
    BY <1>2 DEF Environment, SendBuy, SendSell, book
  <1>3. CASE RecvLagged \/ SkipBuy \/ BuyFails \/ SellSent
    BY <1>3 DEF RecvLagged, SkipBuy, BuyFails, SellSent, Listening, book
  <1>4. CASE StartBuy
    BY <1>4 DEF StartBuy, MayBuy, MainGoes, book
  <1>5. CASE BuyAccepted
    BY <1>5 DEF BuyAccepted, MainGoes, book
  <1>6. ASSUME NEW reply \in Replies, Confirm(reply) PROVE RoomInv'
    <2>1. active' = active
      BY <1>6 DEF Confirm, book
    <2>2. main.at \in Buying
      BY <1>6 DEF Confirm
    <2> QED
      BY <2>1, <2>2
  <1>7. CASE Enter
    <2>1. [bundle |-> main.bundle, mint |-> main.mint, age |-> 0,
           clock |-> back] \in Position
      BY <1>7, StrategyAssumption DEF Enter, TypeInv, TypeOK, MainOK, Position, Age
    <2>2. Len(active') = Len(active) + 1
      BY <1>7, <1>t, <2>1, AppendProperties DEF Enter
    <2>3. Len(active) < MaxPositions /\ main'.at = "recv"
      BY <1>7 DEF Enter, Listening
    <2> QED
      BY <1>t, <2>2, <2>3, StrategyAssumption
  <1>8. ASSUME NEW k \in DOMAIN active, active' = RemoveAt(active, k),
               main'.at \in Buying => main.at \in Buying
        PROVE  RoomInv'
    <2>1. Len(active') = Len(active) - 1
      BY <1>8, <1>t, RemoveAtType
    <2> QED
      BY <1>8, <1>t, <2>1, StrategyAssumption
  <1>9. CASE ReceiveSell
    <2>1. CASE UNCHANGED <<book, main>>
      BY <2>1 DEF book
    <2>2. CASE ~UNCHANGED <<book, main>>
      <3>1. PICK k \in DOMAIN active :
                /\ active' = RemoveAt(active, k)
                /\ MainGoes("selling", Head(signals).mint, 0, FALSE)
        BY <1>9, <2>2 DEF ReceiveSell, CompleteAt
      <3>2. main'.at = "selling"
        BY <3>1 DEF MainGoes
      <3> QED
        BY <1>8, <3>1, <3>2
    <2> QED
      BY <2>1, <2>2
  <1>10. CASE StartMonitoring \/ PassGate
    BY <1>10 DEF StartMonitoring, PassGate, book
  <1>11. ASSUME NEW l \in ExitLoop, ExitStep(l) PROVE RoomInv'
    <2>1. CASE LoopTick(l) \/ Keep(l) \/ StartSell(l)
      BY <2>1 DEF LoopTick, Keep, StartSell, book
    <2>2. CASE Record(l)
      BY <1>8, <2>2 DEF Record, CompleteAt, book
    <2> QED
      BY <1>11, <2>1, <2>2 DEF ExitStep
  <1>12. CASE UNCHANGED vars
    BY <1>12 DEF vars, book
  <1> QED
    BY <1>1, <1>b, <1>2, <1>3, <1>4, <1>5, <1>6, <1>7, <1>9, <1>10, <1>11, <1>12
       DEF Next, MainLoop

LEMMA CooledStep == TypeInv /\ CooledInv /\ [Next]_vars => CooledInv'
  <1> SUFFICES ASSUME TypeInv, CooledInv, [Next]_vars PROVE CooledInv'
    OBVIOUS
  <1>t. /\ lastTrade \in Stamp /\ lastTrade.age \in Nat /\ TradeCooldown \in Nat
        /\ lastTrade.clock \in Nat /\ back \in Nat /\ back \in Back
        /\ lastTrade.age \in Age /\ lastTrade.clock \in Back
    BY StrategyAssumption DEF TypeInv, TypeOK, Stamp, Age, Back
  <1> USE DEF CooledInv
  <1>1. CASE Tick
    <2>1. /\ lastTrade'.age = Older(lastTrade.age) /\ lastTrade'.clock = lastTrade.clock
          /\ UNCHANGED <<main, back>>
      BY <1>1, <1>t DEF Tick, Stamp
    <2>2. lastTrade.age <= Older(lastTrade.age) /\ Older(lastTrade.age) \in Nat
      BY <1>t, StrategyAssumption DEF Older
    <2> QED
      BY <1>t, <2>1, <2>2
  <1>b. ASSUME NEW seconds \in 1..MaxBack, SetBack(seconds) PROVE CooledInv'
    BY <1>b, <1>t, StrategyAssumption DEF SetBack
  <1>2. CASE Environment
    BY <1>2 DEF Environment, SendBuy, SendSell
  <1>3. CASE RecvLagged \/ SkipBuy \/ BuyFails \/ SellSent \/ Enter
    BY <1>3 DEF RecvLagged, SkipBuy, BuyFails, SellSent, Enter, Listening
  <1>4. CASE StartBuy
    <2>1. Seconds(lastTrade) >= TradeCooldown /\ UNCHANGED <<lastTrade, back>>
      BY <1>4 DEF StartBuy, MayBuy
    <2>2. Seconds(lastTrade) \in Int /\ Seconds(lastTrade) <= lastTrade.age
      BY <1>t, HeldType
    <2> QED
      BY <1>t, <2>1, <2>2
  <1>5. CASE BuyAccepted
    BY <1>5 DEF BuyAccepted, MainGoes
  <1>6. ASSUME NEW reply \in Replies, Confirm(reply) PROVE CooledInv'
    <2>1. /\ back' = back /\ main'.at \notin {"buying", "confirming"}
          /\ lastTrade' = lastTrade \/ lastTrade'.clock = back
      BY <1>6 DEF Confirm, MainGoes, Listening
    <2> QED
      BY <1>t, <2>1
  <1>7. CASE ReceiveSell
    BY <1>7 DEF ReceiveSell, MainGoes
  <1>8. CASE StartMonitoring \/ PassGate
    BY <1>8 DEF StartMonitoring, PassGate
  <1>9. ASSUME NEW l \in ExitLoop, ExitStep(l) PROVE CooledInv'
    BY <1>9 DEF ExitStep, LoopTick, Keep, StartSell, Record
  <1>10. CASE UNCHANGED vars
    BY <1>10 DEF vars
  <1> QED
    BY <1>1, <1>b, <1>2, <1>3, <1>4, <1>5, <1>6, <1>7, <1>8, <1>9, <1>10 DEF Next, MainLoop

(* Only a confirmation makes the main loop enter a trade, and it follows a *)
(* buy that was let through by the cooldown.                               *)
LEMMA OnlyCooledEnter ==
    TypeInv /\ CooledInv /\ [Next]_vars =>
        (main.at # "entering" /\ main'.at = "entering" =>
            lastTrade.age >= TradeCooldown /\ lastTrade'.age = 0)
  <1> SUFFICES ASSUME TypeInv, CooledInv, [Next]_vars,
                      main.at # "entering", main'.at = "entering"
               PROVE  lastTrade.age >= TradeCooldown /\ lastTrade'.age = 0
    OBVIOUS
  <1>1. ~(UNCHANGED main)
    OBVIOUS
  <1>2. ~(RecvLagged \/ SkipBuy \/ StartBuy \/ BuyFails \/ BuyAccepted \/ Enter \/ SellSent)
    BY <1>1 DEF RecvLagged, SkipBuy, StartBuy, BuyFails, BuyAccepted, Enter, SellSent,
       MainGoes, Listening
  <1>3. ~ReceiveSell
    BY <1>1 DEF ReceiveSell, MainGoes
  <1>4. \E reply \in Replies : Confirm(reply)
    BY <1>1, <1>2, <1>3 DEF Next, Environment, MainLoop, ExitStep, vars, SendBuy, SendSell,
       Tick, SetBack, StartMonitoring, PassGate, LoopTick, Keep, StartSell, Record
  <1>5. PICK reply \in Replies : Confirm(reply)
    BY <1>4
  <1>6. main.at = "confirming" /\ lastTrade'.age = 0
    BY <1>5, <1>1 DEF Confirm, Listening
  <1> QED
    BY <1>6 DEF CooledInv

(* There are never more than max_concurrent_positions active positions,    *)
(* although the limit is read before two RPC calls and the position pushed *)
(* after them: the main loop is the only task that opens positions.        *)
THEOREM LimitHolds == Spec => []PositionLimit
  <1>1. RoomInv => PositionLimit
    BY DEF RoomInv
  <1> QED
    BY <1>1, TypeInit, TypeStep, RoomInit, RoomStep, PTL DEF Spec

(* Two trades are never confirmed within one cooldown of each other: the   *)
(* main loop, which alone sets last_trade_time, waits for its own buy.     *)
THEOREM CooldownHolds == Spec => CooldownBetweenTrades
  <1> QED
    BY TypeInit, TypeStep, RoomInit, CooledStep, OnlyCooledEnter, PTL
       DEF Spec, CooldownBetweenTrades

-----------------------------------------------------------------------------
(* The strategy implements PositionBook: whatever the exit loops and the   *)
(* Sell handler do to each other, a trade is opened once and closed at     *)
(* most once.                                                              *)

Bundles(s)  == {s[k].bundle : k \in DOMAIN s}
Distinct(s) == \A i, j \in DOMAIN s : s[i].bundle = s[j].bundle => i = j

LEMMA RemoveBundle ==
    ASSUME NEW s \in Seq(Position), Distinct(s), NEW k \in DOMAIN s
    PROVE  /\ Bundles(RemoveAt(s, k)) = Bundles(s) \ {s[k].bundle}
           /\ Distinct(RemoveAt(s, k))
           /\ s[k].bundle \in Bundles(s)
  <1> DEFINE r == RemoveAt(s, k)
             old(i) == IF i < k THEN i ELSE i + 1
  <1>1. DOMAIN s = 1..Len(s) /\ Len(s) \in Nat /\ k \in 1..Len(s)
    BY LenProperties
  <1>2. DOMAIN r = 1..(Len(s) - 1)
    BY RemoveAtElements
  <1>3. \A i \in DOMAIN r : /\ old(i) \in DOMAIN s
                            /\ old(i) # k
                            /\ r[i] = s[old(i)]
    BY <1>1, <1>2, RemoveAtElements
  <1>4. \A j \in DOMAIN s : j # k => \E i \in DOMAIN r : old(i) = j
    <2> TAKE j \in DOMAIN s
    <2>1. CASE j < k
      <3>1. j \in DOMAIN r /\ old(j) = j
        BY <1>1, <1>2, <2>1
      <3> QED
        BY <3>1
    <2>2. CASE j > k
      <3>1. j - 1 \in DOMAIN r /\ old(j - 1) = j
        BY <1>1, <1>2, <2>2
      <3> QED
        BY <3>1
    <2> QED
      BY <1>1, <2>1, <2>2
  <1>5. \A i, j \in DOMAIN r : old(i) = old(j) => i = j
    BY <1>1, <1>2
  <1> HIDE DEF r, old
  <1>6. Distinct(r)
    BY <1>3, <1>5 DEF Distinct
  <1>7. Bundles(r) = Bundles(s) \ {s[k].bundle}
    BY <1>3, <1>4 DEF Bundles, Distinct
  <1> QED
    BY <1>6, <1>7 DEF r, Bundles

LEMMA AppendBundle ==
    ASSUME NEW S, NEW s \in Seq(S), NEW e \in S
    PROVE  /\ Bundles(Append(s, e)) = Bundles(s) \cup {e.bundle}
           /\ Distinct(s) /\ e.bundle \notin Bundles(s) => Distinct(Append(s, e))
  <1> DEFINE t == Append(s, e)
  <1>1. /\ DOMAIN s = 1..Len(s) /\ Len(s) \in Nat
        /\ DOMAIN t = 1..(Len(s) + 1)
        /\ \A i \in 1..Len(s) : t[i] = s[i]
        /\ t[Len(s) + 1] = e
    BY AppendProperties, LenProperties
  <1>2. \A i \in DOMAIN t : i \in DOMAIN s \/ i = Len(s) + 1
    BY <1>1
  <1>3. Len(s) + 1 \in DOMAIN t /\ DOMAIN s \subseteq DOMAIN t
    BY <1>1
  <1> HIDE DEF t
  <1>4. Bundles(t) = Bundles(s) \cup {e.bundle}
    BY <1>1, <1>2, <1>3 DEF Bundles
  <1>5. ASSUME Distinct(s), e.bundle \notin Bundles(s) PROVE Distinct(t)
    BY <1>1, <1>2, <1>5 DEF Bundles, Distinct
  <1> QED
    BY <1>4, <1>5 DEF t

LEMMA AgedBundles ==
    ASSUME NEW s \in Seq(Position)
    PROVE  /\ Bundles(Aged(s)) = Bundles(s)
           /\ Distinct(s) => Distinct(Aged(s))
  <1>1. DOMAIN Aged(s) = DOMAIN s
    BY DEF Aged
  <1>2. \A k \in DOMAIN s : Aged(s)[k].bundle = s[k].bundle
    <2> TAKE k \in DOMAIN s
    <2>1. s[k] \in Position
      BY LenProperties
    <2> QED
      BY <2>1 DEF Aged, Position
  <1> QED
    BY <1>1, <1>2 DEF Bundles, Distinct

-----------------------------------------------------------------------------
(* The bundle of an entry names its trade: no two entries share one, and   *)
(* the one the main loop is confirming has not been used.                  *)

Booked == ActiveBundles \cup CompletedBundles

TradeInv ==
    /\ Distinct(active)
    /\ ActiveBundles \cap CompletedBundles = {}
    /\ Booked \subseteq 1..bundles
    /\ main.at \in {"confirming", "entering"} =>
           main.bundle \in 1..bundles /\ main.bundle \notin Booked
    /\ IsFiniteSet(ActiveBundles) /\ Cardinality(ActiveBundles) = Len(active)
    /\ IsFiniteSet(Booked)
    /\ EachTradeOnce

LEMMA BundleSets ==
    /\ ActiveBundles = Bundles(active)
    /\ CompletedBundles = Bundles(completed)
    /\ ActiveBundles' = Bundles(active')
    /\ CompletedBundles' = Bundles(completed')
  BY DEF ActiveBundles, CompletedBundles, Bundles

LEMMA TradeCount ==
    /\ EachTradeOnce <=> /\ totalTrades = Len(active) + Len(completed)
                         /\ totalTrades = Cardinality(Booked)
    /\ EachTradeOnce' <=> /\ totalTrades' = Len(active') + Len(completed')
                          /\ totalTrades' = Cardinality(Booked')
  BY DEF EachTradeOnce, Booked

(* PositionBook counts as this module does.                                *)
LEMMA SameCardinality == \A S : Book!Cardinality(S) = Cardinality(S)
  BY DEF Book!Cardinality, Cardinality, Book!IsFiniteSet, IsFiniteSet

LEMMA TradeInit == Init => TradeInv
  <1> SUFFICES ASSUME Init PROVE TradeInv
    OBVIOUS
  <1>1. active = <<>> /\ completed = <<>> /\ totalTrades = 0 /\ main.at = "recv"
    BY DEF Init, Listening
  <1>2. ActiveBundles = {} /\ CompletedBundles = {} /\ Booked = {}
    BY <1>1 DEF ActiveBundles, CompletedBundles, Booked
  <1>3. Len(active) = 0 /\ Len(completed) = 0
    BY <1>1
  <1> QED
    BY <1>1, <1>2, <1>3, FS_EmptySet DEF TradeInv, EachTradeOnce, Booked, Distinct

(* A step that leaves both Vecs and the counter alone.                     *)
LEMMA TradeUntouched ==
    ASSUME TradeInv, bundles \in Nat, bundles' \in Nat, bundles <= bundles',
           Bundles(active') = ActiveBundles, Bundles(completed') = CompletedBundles,
           Distinct(active'), Len(active') = Len(active),
           Len(completed') = Len(completed), totalTrades' = totalTrades,
           main'.at \in {"confirming", "entering"} =>
               main'.bundle \in 1..bundles' /\ main'.bundle \notin Booked
    PROVE  TradeInv'
  <1>1. /\ ActiveBundles' = ActiveBundles
        /\ CompletedBundles' = CompletedBundles
        /\ Booked' = Booked
    BY BundleSets DEF Booked
  <1>2. 1..bundles \subseteq 1..bundles'
    OBVIOUS
  <1>3. EachTradeOnce'
    BY <1>1 DEF TradeInv, EachTradeOnce
  <1> QED
    BY <1>1, <1>2, <1>3 DEF TradeInv

(* The book opens the entered trade ...                                    *)
LEMMA EnterOpens ==
    ASSUME TypeInv, RoomInv, TradeInv, Enter
    PROVE  /\ Book!Open(main.bundle)
           /\ TradeInv'
  <1> DEFINE b == main.bundle
             e == [bundle |-> main.bundle, mint |-> main.mint, age |-> 0,
                   clock |-> back]
  <1>t. /\ active \in Seq(Position) /\ completed \in Seq(Trade)
        /\ Len(active) \in Nat /\ Len(completed) \in Nat
        /\ totalTrades = Len(active) + Len(completed)
    BY LenProperties DEF TypeInv, TypeOK, TradeInv, EachTradeOnce
  <1>1. e \in Position /\ e.bundle = b
    BY StrategyAssumption DEF Enter, TypeInv, TypeOK, MainOK, Buying, Position, Age
  <1>2. active' = Append(active, e) /\ completed' = completed /\ bundles' = bundles
    BY DEF Enter
  <1>3. b \in 1..bundles /\ b \notin Booked
    BY DEF Enter, TradeInv
  <1>4. /\ ActiveBundles' = ActiveBundles \cup {b}
        /\ CompletedBundles' = CompletedBundles
        /\ Booked' = Booked \cup {b}
    BY <1>t, <1>1, <1>2, AppendBundle, BundleSets DEF Booked
  <1>5. Distinct(active')
    BY <1>t, <1>1, <1>2, <1>3, AppendBundle, BundleSets DEF Booked, TradeInv
  <1>6. /\ IsFiniteSet(ActiveBundles') /\ IsFiniteSet(Booked')
        /\ Cardinality(ActiveBundles') = Cardinality(ActiveBundles) + 1
        /\ Cardinality(Booked') = Cardinality(Booked) + 1
    BY <1>3, <1>4, FS_AddElement DEF TradeInv, Booked
  <1>7. Len(active') = Len(active) + 1
    BY <1>t, <1>1, <1>2, AppendProperties
  <1>8. totalTrades' = totalTrades + 1
    BY DEF Enter
  <1>9. EachTradeOnce'
    BY <1>t, <1>2, <1>6, <1>7, <1>8, TradeCount DEF TradeInv
  <1>10. main'.at = "recv"
    BY DEF Enter, Listening
  <1>11. TradeInv'
    BY <1>2, <1>3, <1>4, <1>5, <1>6, <1>7, <1>9, <1>10 DEF TradeInv, Booked
  <1>12. Cardinality(ActiveBundles) < MaxPositions
    BY DEF TradeInv, RoomInv, Enter, Buying
  <1>13. /\ main.bundle \notin ActiveBundles \cup CompletedBundles
         /\ ActiveBundles' = ActiveBundles \cup {main.bundle}
         /\ CompletedBundles' = CompletedBundles
    BY <1>3, <1>4 DEF Booked
  <1>14. Book!Open(main.bundle)
    BY <1>12, <1>13, SameCardinality DEF Book!Open
  <1> QED
    BY <1>11, <1>14

(* ... and closes the one the exit loop or the Sell handler took out.      *)
LEMMA CompleteCloses ==
    ASSUME TypeInv, TradeInv, NEW k \in DOMAIN active, NEW reason \in Reasons,
           NEW pnl \in Int, NEW held \in U64, NEW won,
           CompleteAt(k, reason, pnl, held, won), bundles' = bundles,
           main'.at \in {"confirming", "entering"} => main' = main
    PROVE  /\ Book!Close(active[k].bundle)
           /\ TradeInv'
  <1> DEFINE b == active[k].bundle
             trade == [bundle |-> active[k].bundle, reason |-> reason, pnl |-> pnl,
                       held |-> held, age |-> active[k].age,
                       back |-> back - active[k].clock]
  <1>t. /\ active \in Seq(Position) /\ completed \in Seq(Trade)
        /\ winningTrades \in Nat /\ totalPnl \in Int /\ back \in Back
        /\ Len(active) \in Nat /\ Len(completed) \in Nat
    BY LenProperties DEF TypeInv, TypeOK
  <1>1. /\ active' = RemoveAt(active, k)
        /\ completed' = Append(completed, trade)
        /\ totalTrades' = totalTrades
        /\ Len(active') = Len(active) - 1
        /\ Len(completed') = Len(completed) + 1
    BY <1>t, CompleteAtType DEF CompleteAt
  <1>2. active[k] \in Position
    BY <1>t, LenProperties
  <1>3. trade \in Trade /\ trade.bundle = b
    BY <1>2, StrategyAssumption DEF Position, Trade, Back, TypeInv, TypeOK
  <1>4. /\ ActiveBundles' = ActiveBundles \ {b}
        /\ Distinct(active')
        /\ b \in ActiveBundles
    BY <1>t, <1>1, RemoveBundle, BundleSets DEF TradeInv
  <1>5. CompletedBundles' = CompletedBundles \cup {b}
    BY <1>t, <1>1, <1>3, AppendBundle, BundleSets
  <1>6. Booked' = Booked
    BY <1>4, <1>5 DEF Booked
  <1>7. /\ IsFiniteSet(ActiveBundles')
        /\ Cardinality(ActiveBundles') = Cardinality(ActiveBundles) - 1
    BY <1>4, FS_RemoveElement DEF TradeInv
  <1>8. EachTradeOnce'
    BY <1>t, <1>1, <1>6, TradeCount DEF TradeInv
  <1>9. main'.at \in {"confirming", "entering"} =>
            main'.bundle \in 1..bundles' /\ main'.bundle \notin Booked'
    BY <1>6 DEF TradeInv
  <1>10. TradeInv'
    BY <1>1, <1>4, <1>5, <1>6, <1>7, <1>8, <1>9 DEF TradeInv
  <1> QED
    BY <1>4, <1>5, <1>10 DEF Book!Close

-----------------------------------------------------------------------------
(* Every step opens, closes, or leaves the book as it is.                  *)

BookStep == [Book!Next]_<<ActiveBundles, CompletedBundles>>

LEMMA BookStutters ==
    ASSUME TypeInv, TradeInv, bundles' \in Nat, bundles <= bundles',
           active' = active, completed' = completed, totalTrades' = totalTrades,
           main'.at \in {"confirming", "entering"} =>
               main'.bundle \in 1..bundles' /\ main'.bundle \notin Booked
    PROVE  BookStep /\ TradeInv'
  <1>1. bundles \in Nat
    BY StrategyAssumption DEF TypeInv, TypeOK
  <1>2. Bundles(active') = ActiveBundles /\ Bundles(completed') = CompletedBundles
    BY BundleSets
  <1>3. Distinct(active')
    BY DEF TradeInv
  <1>4. TradeInv'
    BY <1>1, <1>2, <1>3, TradeUntouched
  <1> QED
    BY <1>2, <1>4, BundleSets DEF BookStep

LEMMA TradeStep ==
    TypeInv /\ RoomInv /\ TradeInv /\ [Next]_vars => BookStep /\ TradeInv'
  <1> SUFFICES ASSUME TypeInv, RoomInv, TradeInv, [Next]_vars
               PROVE  BookStep /\ TradeInv'
    OBVIOUS
  <1>t. /\ bundles \in Nat /\ bundles <= bundles
        /\ active \in Seq(Position)
    BY StrategyAssumption DEF TypeInv, TypeOK
  <1>m. main.at \in {"confirming", "entering"} =>
            main.bundle \in 1..bundles /\ main.bundle \notin Booked
    BY DEF TradeInv
  <1>1. CASE Tick
    <2>1. /\ bundles' = bundles /\ main' = main
          /\ completed' = completed /\ totalTrades' = totalTrades
          /\ active' = Aged(active)
      BY <1>1 DEF Tick
    <2>2. /\ Bundles(active') = ActiveBundles /\ Distinct(active')
          /\ Len(active') = Len(active)
      BY <1>t, <2>1, AgedBundles, AgedActive, BundleSets DEF TradeInv
    <2>3. Bundles(completed') = CompletedBundles
      BY <2>1, BundleSets
    <2>4. TradeInv'
      BY <1>t, <1>m, <2>1, <2>2, <2>3, TradeUntouched
    <2> QED
      BY <2>2, <2>3, <2>4, BundleSets DEF BookStep
  <1>b. ASSUME NEW seconds \in 1..MaxBack, SetBack(seconds) PROVE BookStep /\ TradeInv'
    BY <1>b, <1>t, <1>m, BookStutters DEF SetBack, book
  <1>2. CASE Environment
    BY <1>2, <1>t, <1>m, BookStutters DEF Environment, SendBuy, SendSell, book
  <1>3. CASE RecvLagged \/ SkipBuy \/ StartBuy \/ BuyFails \/ SellSent
    BY <1>3, <1>t, <1>m, BookStutters
       DEF RecvLagged, SkipBuy, StartBuy, BuyFails, SellSent, MainGoes, Listening, book
  <1>4. CASE BuyAccepted
    <2>1. /\ bundles' = bundles + 1 /\ main'.bundle = bundles + 1
          /\ active' = active /\ completed' = completed /\ totalTrades' = totalTrades
      BY <1>4 DEF BuyAccepted, MainGoes, book
    <2>2. Booked \subseteq 1..bundles
      BY DEF TradeInv
    <2>3. main'.bundle \in 1..bundles' /\ main'.bundle \notin Booked
      BY <1>t, <2>1, <2>2
    <2>4. bundles' \in Nat /\ bundles <= bundles'
      BY <1>t, <2>1
    <2> QED
      BY <2>1, <2>3, <2>4, BookStutters
  <1>5. ASSUME NEW reply \in Replies, Confirm(reply) PROVE BookStep /\ TradeInv'
    <2>1. /\ bundles' = bundles /\ main.at = "confirming"
          /\ active' = active /\ completed' = completed /\ totalTrades' = totalTrades
      BY <1>5 DEF Confirm, book
    <2>2. main'.bundle = main.bundle \/ main'.at = "recv"
      BY <1>5 DEF Confirm, MainGoes, Listening
    <2> QED
      BY <1>t, <1>m, <2>1, <2>2, BookStutters
  <1>6. CASE Enter
    <2>1. Book!Open(main.bundle) /\ TradeInv'
      BY <1>6, EnterOpens
    <2>2. main.bundle \in Bundle
      BY <1>6 DEF Enter, TypeInv, MainOK
    <2> QED
      BY <2>1, <2>2 DEF BookStep, Book!Next
  <1>7. ASSUME NEW k \in DOMAIN active, NEW reason \in Reasons, NEW pnl \in Int,
               NEW held \in U64, NEW won, CompleteAt(k, reason, pnl, held, won),
               bundles' = bundles,
               main'.at \in {"confirming", "entering"} => main' = main
        PROVE  BookStep /\ TradeInv'
    <2>1. Book!Close(active[k].bundle) /\ TradeInv'
      BY <1>7, CompleteCloses
    <2>2. active[k] \in Position
      BY <1>t, LenProperties
    <2>3. active[k].bundle \in Bundle
      BY <2>2 DEF Position
    <2> QED
      BY <2>1, <2>3 DEF BookStep, Book!Next
  <1>8. CASE ReceiveSell
    <2>1. bundles' = bundles
      BY <1>8 DEF ReceiveSell
    <2>2. CASE UNCHANGED <<book, main>>
      BY <1>t, <1>m, <2>1, <2>2, BookStutters DEF book
    <2>3. CASE ~UNCHANGED <<book, main>>
      <3>1. PICK k \in DOMAIN active :
                /\ CompleteAt(k, "Manual", Head(signals).pnl, Held(active[k]),
                              Head(signals).pnl > 0)
                /\ MainGoes("selling", Head(signals).mint, 0, FALSE)
        BY <1>8, <2>3 DEF ReceiveSell
      <3>2. Head(signals) \in Signal
        BY <1>8, ReceiveType DEF ReceiveSell, TypeInv, TypeOK
      <3>3. SignalPnl \cup {0} \subseteq Int
        BY StrategyAssumption
      <3>4. Head(signals).pnl \in Int /\ "Manual" \in Reasons
        BY <3>2, <3>3 DEF Signal, Reasons
      <3>5. active[k] \in Position
        BY <1>t, LenProperties
      <3>6. Held(active[k]) \in U64
        BY <3>5, HeldType DEF Position, TypeInv, TypeOK
      <3>7. main'.at = "selling"
        BY <3>1 DEF MainGoes
      <3> QED
        BY <1>7, <2>1, <3>1, <3>4, <3>6, <3>7
    <2> QED
      BY <2>2, <2>3
  <1>9. CASE StartMonitoring \/ PassGate
    BY <1>9, <1>t, <1>m, BookStutters DEF StartMonitoring, PassGate, book
  <1>10. ASSUME NEW l \in ExitLoop, LoopTick(l) \/ Keep(l) \/ StartSell(l)
         PROVE  BookStep /\ TradeInv'
    BY <1>10, <1>t, <1>m, BookStutters DEF LoopTick, Keep, StartSell, book
  <1>11. ASSUME NEW l \in ExitLoop, Record(l) PROVE BookStep /\ TradeInv'
    <2> DEFINE held   == exit[l].held
               reason == ExitReason(held)
    <2>1. bundles' = bundles /\ main' = main
      BY <1>11 DEF Record
    <2>2. held \in U64 /\ held \in Nat
      BY StrategyAssumption DEF U64, TypeInv, TypeOK
    <2>3. reason \in Reasons /\ BookedPnl(reason, held) \in Int
      BY <2>2, BookedType
    <2>4. CASE UNCHANGED book
      BY <1>t, <1>m, <2>1, <2>4, BookStutters DEF book
    <2>5. CASE ~UNCHANGED book
      <3>1. PICK k \in DOMAIN active :
                CompleteAt(k, reason, BookedPnl(reason, held), held,
                           reason = "TakeProfit")
        BY <1>11, <2>5 DEF Record
      <3> HIDE DEF reason, held
      <3> QED
        BY <1>7, <2>1, <2>2, <2>3, <3>1
    <2> QED
      BY <2>4, <2>5
  <1>12. CASE UNCHANGED vars
    BY <1>12, <1>t, <1>m, BookStutters DEF vars, book
  <1> QED
    BY <1>1, <1>b, <1>2, <1>3, <1>4, <1>5, <1>6, <1>8, <1>9, <1>10, <1>11, <1>12
       DEF Next, MainLoop, ExitStep

(* Every trade entered is active or completed, and no two entries of       *)
(* either list are the same trade, however the exit loops race each other  *)
(* and the Sell handler.                                                   *)
THEOREM TradesBookedOnce == Spec => []EachTradeOnce
  <1>1. TradeInv => EachTradeOnce
    BY DEF TradeInv
  <1> QED
    BY <1>1, TypeInit, TypeStep, RoomInit, RoomStep, TradeInit, TradeStep, PTL DEF Spec

(* The strategy implements the abstract book of positions.                 *)
THEOREM StrategyImplementsBook == Spec => ImplementsBook
  <1>1. Init => Book!Init
    <2> SUFFICES ASSUME Init PROVE Book!Init
      OBVIOUS
    <2>1. active = <<>> /\ completed = <<>>
      BY DEF Init
    <2> QED
      BY <2>1 DEF Book!Init, ActiveBundles, CompletedBundles
  <1>2. BookStep => [Book!Next]_<<ActiveBundles, CompletedBundles>>
    BY DEF BookStep
  <1> QED
    BY <1>1, <1>2, TypeInit, TypeStep, RoomInit, RoomStep, TradeInit, TradeStep, PTL
       DEF Spec, ImplementsBook, Book!Spec

-----------------------------------------------------------------------------
(* A mint that is bought once.  If no mint is signalled twice, the mint of *)
(* a Buy that waits, or that the main loop is executing, has no position,  *)
(* no pending sell and no place in the snapshot of an exit loop.           *)

MintsIn(s) == {s[k].mint : k \in DOMAIN s}
BuysAt(s)  == {k \in DOMAIN s : s[k].type = "buy"}
BuysIn(s)  == {s[k].mint : k \in BuysAt(s)}

BuysDistinct(s) == \A i, j \in BuysAt(s) : s[i].mint = s[j].mint => i = j

Touched ==
    (MintsIn(active) \cup MintsIn(pendingSells))
        \cup UNION {MintsIn(exit[l].snapshot) : l \in ExitLoop}

FreshInv ==
    /\ BuysDistinct(signals)
    /\ BuysIn(signals) \subseteq signalled /\ Touched \subseteq signalled
    /\ BuysIn(signals) \cap Touched = {}
    /\ main.at \in Buying => /\ main.mint \in signalled
                             /\ main.mint \notin BuysIn(signals)
                             /\ main.mint \notin Touched

LEMMA AppendMints ==
    ASSUME NEW S, NEW s \in Seq(S), NEW e \in S
    PROVE  /\ MintsIn(Append(s, e)) = MintsIn(s) \cup {e.mint}
           /\ BuysIn(Append(s, e)) = BuysIn(s) \cup (IF e.type = "buy" THEN {e.mint} ELSE {})
           /\ BuysDistinct(s) /\ (e.type = "buy" => e.mint \notin BuysIn(s))
                 => BuysDistinct(Append(s, e))
  <1> DEFINE t == Append(s, e)
             n == Len(s) + 1
  <1>1. /\ DOMAIN s = 1..Len(s) /\ Len(s) \in Nat
        /\ DOMAIN t = 1..n
        /\ \A i \in 1..Len(s) : t[i] = s[i]
        /\ t[n] = e
    BY AppendProperties, LenProperties
  <1>2. /\ DOMAIN t = DOMAIN s \cup {n} /\ n \notin DOMAIN s
        /\ \A i \in DOMAIN s : t[i] = s[i]
    BY <1>1
  <1>3. t[n] = e
    BY <1>1
  <1> HIDE DEF t, n
  <1>4. MintsIn(t) = MintsIn(s) \cup {e.mint}
    BY <1>2, <1>3 DEF MintsIn
  <1>5. BuysAt(t) = BuysAt(s) \cup (IF e.type = "buy" THEN {n} ELSE {})
    BY <1>2, <1>3 DEF BuysAt
  <1>6. \A i \in BuysAt(s) : t[i] = s[i] /\ i # n
    BY <1>2 DEF BuysAt
  <1>7. BuysIn(t) = BuysIn(s) \cup (IF e.type = "buy" THEN {e.mint} ELSE {})
    BY <1>3, <1>5, <1>6 DEF BuysIn
  <1>8. ASSUME BuysDistinct(s), e.type = "buy" => e.mint \notin BuysIn(s)
        PROVE  BuysDistinct(t)
    BY <1>3, <1>5, <1>6, <1>8 DEF BuysDistinct, BuysIn
  <1> QED
    BY <1>4, <1>7, <1>8 DEF t

LEMMA TailMints ==
    ASSUME NEW S, NEW s \in Seq(S), s # <<>>
    PROVE  /\ Tail(s) \in Seq(S)
           /\ Head(s).mint \in MintsIn(s)
           /\ MintsIn(Tail(s)) \subseteq MintsIn(s)
           /\ BuysIn(Tail(s)) \subseteq BuysIn(s)
           /\ BuysDistinct(s) => BuysDistinct(Tail(s))
           /\ BuysDistinct(s) /\ Head(s).type = "buy" =>
                 Head(s).mint \in BuysIn(s) /\ Head(s).mint \notin BuysIn(Tail(s))
  <1> DEFINE t == Tail(s)
  <1>1. /\ Len(s) \in Nat \ {0} /\ DOMAIN s = 1..Len(s) /\ Head(s) = s[1]
        /\ t \in Seq(S) /\ Len(t) = Len(s) - 1 /\ DOMAIN t = 1..(Len(s) - 1)
        /\ \A k \in 1..(Len(s) - 1) : t[k] = s[k + 1]
    BY HeadTailProperties, LenProperties, EmptySeq
  <1>2. /\ 1 \in DOMAIN s
        /\ \A k \in DOMAIN t : k + 1 \in DOMAIN s /\ k + 1 # 1 /\ t[k] = s[k + 1]
        /\ \A i, j \in DOMAIN t : i + 1 = j + 1 => i = j
    BY <1>1
  <1>3. Head(s) = s[1] /\ t \in Seq(S)
    BY <1>1
  <1> HIDE DEF t
  <1>4. Head(s).mint \in MintsIn(s) /\ MintsIn(t) \subseteq MintsIn(s)
    BY <1>2, <1>3 DEF MintsIn
  <1>5. \A k \in BuysAt(t) : k + 1 \in BuysAt(s) /\ k + 1 # 1 /\ t[k] = s[k + 1]
    BY <1>2 DEF BuysAt
  <1>6. BuysIn(t) \subseteq BuysIn(s)
    BY <1>5 DEF BuysIn
  <1>7. ASSUME BuysDistinct(s) PROVE BuysDistinct(t)
    BY <1>2, <1>5, <1>7 DEF BuysDistinct, BuysAt
  <1>8. ASSUME BuysDistinct(s), Head(s).type = "buy"
        PROVE  Head(s).mint \in BuysIn(s) /\ Head(s).mint \notin BuysIn(t)
    <2>1. 1 \in BuysAt(s)
      BY <1>2, <1>3, <1>8 DEF BuysAt
    <2> QED
      BY <1>3, <1>5, <1>8, <2>1 DEF BuysDistinct, BuysIn
  <1> QED
    BY <1>3, <1>4, <1>6, <1>7, <1>8 DEF t

LEMMA RemoveMints ==
    ASSUME NEW S, NEW s \in Seq(S), NEW k \in DOMAIN s
    PROVE  \A i \in DOMAIN RemoveAt(s, k) :
               \E j \in DOMAIN s : RemoveAt(s, k)[i] = s[j]
  <1>1. DOMAIN s = 1..Len(s) /\ Len(s) \in Nat /\ k \in 1..Len(s)
    BY LenProperties
  <1>2. DOMAIN RemoveAt(s, k) = 1..(Len(s) - 1)
    BY RemoveAtElements
  <1> TAKE i \in DOMAIN RemoveAt(s, k)
  <1>3. RemoveAt(s, k)[i] = IF i < k THEN s[i] ELSE s[i + 1]
    BY <1>2, RemoveAtElements
  <1>4. i \in DOMAIN s /\ i + 1 \in DOMAIN s
    BY <1>1, <1>2
  <1> QED
    BY <1>3, <1>4

LEMMA AgedMints ==
    ASSUME NEW s, \A k \in DOMAIN s : s[k] \in Position \/ s[k] \in Pending
    PROVE  /\ MintsIn(Aged(s)) = MintsIn(s) /\ DOMAIN Aged(s) = DOMAIN s
           /\ \A k \in DOMAIN s : /\ Aged(s)[k].mint = s[k].mint
                                  /\ Aged(s)[k].age = Older(s[k].age)
                                  /\ Aged(s)[k].clock = s[k].clock
  <1>1. DOMAIN Aged(s) = DOMAIN s
    BY DEF Aged
  <1>2. ASSUME NEW k \in DOMAIN s
        PROVE  /\ Aged(s)[k].mint = s[k].mint /\ Aged(s)[k].age = Older(s[k].age)
               /\ Aged(s)[k].clock = s[k].clock
    BY DEF Aged, Position, Pending
  <1> QED
    BY <1>1, <1>2 DEF MintsIn

LEMMA SendMints ==
    ASSUME signals \in Seq(Signal), NEW s \in Signal, Send(s), BuysDistinct(signals),
           s.type = "buy" => s.mint \notin BuysIn(signals)
    PROVE  /\ BuysDistinct(signals')
           /\ BuysIn(signals') \subseteq
                 BuysIn(signals) \cup (IF s.type = "buy" THEN {s.mint} ELSE {})
  <1>1. CASE signals' = Append(signals, s)
    BY <1>1, AppendMints
  <1>2. CASE signals' # Append(signals, s)
    <2>1. signals' = Append(Tail(signals), s) /\ signals # <<>>
      BY <1>2, EmptySeq, StrategyAssumption DEF Send
    <2>2. /\ Tail(signals) \in Seq(Signal) /\ BuysDistinct(Tail(signals))
          /\ BuysIn(Tail(signals)) \subseteq BuysIn(signals)
      BY <2>1, TailMints
    <2>3. s.type = "buy" => s.mint \notin BuysIn(Tail(signals))
      BY <2>2
    <2>4. /\ BuysDistinct(Append(Tail(signals), s))
          /\ BuysIn(Append(Tail(signals), s)) =
                BuysIn(Tail(signals)) \cup (IF s.type = "buy" THEN {s.mint} ELSE {})
      BY <2>2, <2>3, AppendMints
    <2> QED
      BY <2>1, <2>2, <2>4
  <1> QED
    BY <1>1, <1>2

LEMMA TouchedMints ==
    /\ MintsIn(active) \subseteq Touched /\ MintsIn(pendingSells) \subseteq Touched
    /\ \A l \in ExitLoop : MintsIn(exit[l].snapshot) \subseteq Touched
    /\ \A T : MintsIn(active') \subseteq T /\ MintsIn(pendingSells') \subseteq T
              /\ (\A l \in ExitLoop : MintsIn(exit'[l].snapshot) \subseteq T)
                 => Touched' \subseteq T
  BY DEF Touched

LEMMA FreshKept ==
    ASSUME FreshInv, BuysDistinct(signals'), BuysIn(signals') \subseteq BuysIn(signals),
           Touched' \subseteq Touched, signalled' = signalled,
           main'.at \in Buying => main.at \in Buying /\ main'.mint = main.mint
    PROVE  FreshInv'
  BY DEF FreshInv

(* A confirmation finds no pending sell of its mint to remove.             *)
LEMMA NothingToRemove ==
    ASSUME FreshInv, NEW reply, Confirm(reply)
    PROVE  pendingSells' = pendingSells
  <1>1. main.mint \notin MintsIn(pendingSells)
    BY TouchedMints DEF FreshInv, Confirm, Buying
  <1>2. ~\E k \in DOMAIN pendingSells : pendingSells[k].mint = main.mint
    BY <1>1 DEF MintsIn
  <1> QED
    BY <1>2 DEF Confirm, WithoutPending, FirstOf

LEMMA EnterEffect ==
    ASSUME TypeInv, Enter
    PROVE  LET p == [bundle |-> main.bundle, mint |-> main.mint, age |-> 0,
                     clock |-> back]
               s == [mint |-> main.mint, age |-> 0,
                     clock |-> back]
           IN  /\ p \in Position /\ s \in Pending
               /\ active' = Append(active, p) /\ pendingSells' = Append(pendingSells, s)
               /\ UNCHANGED <<signals, signalled, exit, completed, back>>
               /\ main'.at = "recv"
  <1>1. main.mint \in Mints /\ main.bundle \in Bundle /\ 0 \in Age /\ back \in Back
    BY StrategyAssumption DEF Enter, TypeInv, TypeOK, MainOK, Buying, Age
  <1> QED
    BY <1>1 DEF Enter, Position, Pending, Listening, channel

LEMMA AdvancedTail ==
    ASSUME NEW loop, loop.snapshot \in Seq(Pending), loop.snapshot # <<>>
    PROVE  /\ Advanced(loop).at # "selling"
           /\ \A j \in DOMAIN Advanced(loop).snapshot :
                 \E i \in DOMAIN loop.snapshot : Advanced(loop).snapshot[j] = loop.snapshot[i]
  <1>1. /\ Tail(loop.snapshot) \in Seq(Pending)
        /\ \A j \in DOMAIN Tail(loop.snapshot) :
              \E i \in DOMAIN loop.snapshot : Tail(loop.snapshot)[j] = loop.snapshot[i]
    <2>1. /\ Len(loop.snapshot) \in Nat /\ DOMAIN loop.snapshot = 1..Len(loop.snapshot)
          /\ DOMAIN Tail(loop.snapshot) = 1..(Len(loop.snapshot) - 1)
          /\ Tail(loop.snapshot) \in Seq(Pending)
          /\ \A j \in 1..(Len(loop.snapshot) - 1) :
                Tail(loop.snapshot)[j] = loop.snapshot[j + 1]
      BY HeadTailProperties, LenProperties
    <2>2. \A j \in 1..(Len(loop.snapshot) - 1) : j + 1 \in 1..Len(loop.snapshot)
      BY <2>1
    <2> QED
      BY <2>1, <2>2
  <1> QED
    BY <1>1, EmptySeq DEF Advanced, Idle

LEMMA FreshStep ==
    ASSUME ~RepeatSignals, TypeInv, FreshInv, [Next]_vars
    PROVE  FreshInv'
  <1>t. /\ signals \in Seq(Signal) /\ active \in Seq(Position) /\ pendingSells \in Seq(Pending)
        /\ \A l \in ExitLoop : exit[l].snapshot \in Seq(Pending)
        /\ DOMAIN exit = ExitLoop
        /\ BuysDistinct(signals)
    BY DEF TypeInv, TypeOK, FreshInv
  <1>e. UNCHANGED <<active, pendingSells, exit>> => Touched' = Touched
    BY DEF Touched
  <1>1. CASE Tick
    <2>1. /\ active' = Aged(active) /\ pendingSells' = Aged(pendingSells)
          /\ \A l \in ExitLoop : exit'[l].snapshot = Aged(exit[l].snapshot)
          /\ UNCHANGED <<signals, signalled, main>>
      BY <1>1, <1>t DEF Tick, channel, TypeInv, TypeOK
    <2>2. MintsIn(active') = MintsIn(active) /\ MintsIn(pendingSells') = MintsIn(pendingSells)
      BY <1>t, <2>1, AgedMints, LenProperties, ElementOfSeq
    <2>3. \A l \in ExitLoop : MintsIn(exit'[l].snapshot) = MintsIn(exit[l].snapshot)
      BY <1>t, <2>1, AgedMints, LenProperties, ElementOfSeq
    <2>4. Touched' \subseteq Touched
      BY <2>2, <2>3, TouchedMints
    <2> QED
      BY <1>t, <2>1, <2>4, FreshKept
  <1>b. ASSUME NEW seconds \in 1..MaxBack, SetBack(seconds) PROVE FreshInv'
    BY <1>b, <1>e, <1>t, FreshKept DEF SetBack, channel, book
  <1>2. ASSUME NEW m \in Mints, SendBuy(m) PROVE FreshInv'
    <2>1. /\ m \notin signalled /\ signalled' = signalled \cup {m} /\ Send(BuySignal(m))
          /\ UNCHANGED <<main, active, pendingSells, exit>>
      BY <1>2 DEF SendBuy, book
    <2>2. BuySignal(m) \in Signal /\ BuySignal(m).type = "buy" /\ BuySignal(m).mint = m
      BY DEF BuySignal, Signal
    <2>3. m \notin BuysIn(signals) /\ m \notin Touched
      BY <2>1 DEF FreshInv
    <2>4. BuysDistinct(signals') /\ BuysIn(signals') \subseteq BuysIn(signals) \cup {m}
      BY <1>t, <2>1, <2>2, <2>3, SendMints
    <2>5. Touched' = Touched
      BY <1>e, <2>1
    <2> QED
      BY <2>1, <2>3, <2>4, <2>5 DEF FreshInv
  <1>3. ASSUME NEW m \in Mints, NEW p \in SignalPnl, SendSell(m, p) PROVE FreshInv'
    <2>1. Send(SellSignal(m, p)) /\ UNCHANGED <<signalled, main, active, pendingSells, exit>>
      BY <1>3 DEF SendSell, book
    <2>2. SellSignal(m, p) \in Signal /\ SellSignal(m, p).type # "buy"
      BY DEF SellSignal, Signal
    <2>3. BuysDistinct(signals') /\ BuysIn(signals') \subseteq BuysIn(signals)
      BY <1>t, <2>1, <2>2, SendMints
    <2> QED
      BY <1>e, <2>1, <2>3, FreshKept
  <1>4. CASE RecvLagged \/ BuyFails \/ BuyAccepted \/ SellSent
    <2>1. /\ UNCHANGED <<signals, signalled, active, pendingSells, exit>>
          /\ main'.at \in Buying => main.at \in Buying /\ main'.mint = main.mint
      BY <1>4 DEF RecvLagged, BuyFails, BuyAccepted, SellSent, Listening, MainGoes, Buying,
         channel, book
    <2> QED
      BY <1>e, <1>t, <2>1, FreshKept
  <1>5. CASE SkipBuy \/ StartBuy
    <2>1. /\ signals # <<>> /\ signals' = Tail(signals) /\ Head(signals).type = "buy"
          /\ UNCHANGED <<signalled, active, pendingSells, exit>>
      BY <1>5 DEF SkipBuy, StartBuy, CanReceive, Receive, book
    <2>2. /\ BuysDistinct(signals') /\ BuysIn(signals') \subseteq BuysIn(signals)
          /\ Head(signals).mint \in BuysIn(signals)
          /\ Head(signals).mint \notin BuysIn(signals')
      BY <1>t, <2>1, TailMints
    <2>3. CASE SkipBuy
      BY <1>e, <2>1, <2>2, <2>3, FreshKept DEF SkipBuy
    <2>4. CASE StartBuy
      <3>1. main'.mint = Head(signals).mint
        BY <2>4 DEF StartBuy, MainGoes
      <3> QED
        BY <1>e, <2>1, <2>2, <3>1 DEF FreshInv
    <2> QED
      BY <1>5, <2>3, <2>4
  <1>6. ASSUME NEW reply \in Replies, Confirm(reply) PROVE FreshInv'
    <2>1. /\ UNCHANGED <<signals, signalled, active, pendingSells, exit>>
          /\ main'.at \in Buying => main'.mint = main.mint
          /\ main.at \in Buying
      BY <1>6, NothingToRemove DEF Confirm, MainGoes, Listening, Buying, channel, book
    <2> QED
      BY <1>e, <1>t, <2>1, FreshKept
  <1>7. CASE Enter
    <2> DEFINE m == main.mint
    <2>1. /\ MintsIn(active') = MintsIn(active) \cup {m}
          /\ MintsIn(pendingSells') = MintsIn(pendingSells) \cup {m}
          /\ UNCHANGED <<signals, signalled, exit>> /\ main'.at = "recv"
      <3> DEFINE p == [bundle |-> main.bundle, mint |-> main.mint, age |-> 0,
                       clock |-> back]
                 s == [mint |-> main.mint, age |-> 0,
                       clock |-> back]
      <3>1. /\ p \in Position /\ s \in Pending
            /\ active' = Append(active, p) /\ pendingSells' = Append(pendingSells, s)
            /\ UNCHANGED <<signals, signalled, exit>> /\ main'.at = "recv"
        BY <1>7, EnterEffect
      <3>2. p.mint = m /\ s.mint = m
        OBVIOUS
      <3> HIDE DEF p, s
      <3>3. MintsIn(active') = MintsIn(active) \cup {m}
        BY <1>t, <3>1, <3>2, AppendMints
      <3>4. MintsIn(pendingSells') = MintsIn(pendingSells) \cup {m}
        BY <1>t, <3>1, <3>2, AppendMints
      <3> QED
        BY <3>1, <3>3, <3>4
    <2>2. Touched' \subseteq Touched \cup {m}
      <3>1. /\ MintsIn(active') \subseteq Touched \cup {m}
            /\ MintsIn(pendingSells') \subseteq Touched \cup {m}
            /\ \A l \in ExitLoop : MintsIn(exit'[l].snapshot) \subseteq Touched \cup {m}
        BY <2>1, TouchedMints
      <3> QED
        BY <3>1, TouchedMints
    <2>3. main.at \in Buying
      BY <1>7 DEF Enter, Buying
    <2> QED
      BY <2>1, <2>2, <2>3 DEF FreshInv, Buying
  <1>8. ASSUME NEW k \in DOMAIN active, active' = RemoveAt(active, k)
        PROVE  MintsIn(active') \subseteq MintsIn(active)
    BY <1>8, <1>t, RemoveMints DEF MintsIn
  <1>9. CASE ReceiveSell
    <2>1. /\ signals # <<>> /\ signals' = Tail(signals)
          /\ UNCHANGED <<signalled, pendingSells, exit>>
      BY <1>9 DEF ReceiveSell, CanReceive, Receive
    <2>2. BuysDistinct(signals') /\ BuysIn(signals') \subseteq BuysIn(signals)
      BY <1>t, <2>1, TailMints
    <2>3. MintsIn(active') \subseteq MintsIn(active)
      BY <1>8, <1>9 DEF ReceiveSell, CompleteAt, book
    <2>4. Touched' \subseteq Touched
      BY <2>1, <2>3, TouchedMints
    <2>5. main'.at \notin Buying
      BY <1>9 DEF ReceiveSell, CanReceive, MainGoes, Buying
    <2> QED
      BY <2>1, <2>2, <2>4, <2>5, FreshKept
  <1>10. CASE StartMonitoring
    BY <1>10, <1>e, <1>t, FreshKept DEF StartMonitoring, channel, book
  <1>11. CASE PassGate
    <2>1. /\ UNCHANGED <<signals, signalled, main, active, pendingSells>>
          /\ \A l \in ExitLoop : exit'[l].snapshot = exit[l].snapshot
      BY <1>11, <1>t DEF PassGate, channel, book
    <2>2. Touched' \subseteq Touched
      BY <2>1, TouchedMints
    <2> QED
      BY <1>t, <2>1, <2>2, FreshKept
  <1>12. ASSUME NEW l \in ExitLoop, ExitStep(l) PROVE FreshInv'
    <2>1. UNCHANGED <<signals, signalled, main, pendingSells>>
      BY <1>12 DEF ExitStep, LoopTick, Keep, StartSell, Record, channel
    <2>2. MintsIn(active') \subseteq MintsIn(active)
      BY <1>8, <1>12 DEF ExitStep, LoopTick, Keep, StartSell, Record, CompleteAt, book
    <2>3. \A x \in ExitLoop : x # l => exit'[x] = exit[x]
      BY <1>12, <1>t DEF ExitStep, LoopTick, Keep, StartSell, Record
    <2>4. MintsIn(exit'[l].snapshot) \subseteq Touched
      <3>1. CASE LoopTick(l)
        <4>1. exit'[l].snapshot = pendingSells
          BY <1>t, <3>1 DEF LoopTick
        <4> QED
          BY <4>1, TouchedMints
      <3>2. CASE StartSell(l)
        <4>1. exit'[l].snapshot = exit[l].snapshot
          BY <1>t, <3>2 DEF StartSell, TypeInv, TypeOK
        <4> QED
          BY <4>1, TouchedMints
      <3>3. CASE Keep(l) \/ Record(l)
        <4>1. exit'[l] = Advanced(exit[l]) /\ exit[l].at # "idle"
          BY <1>t, <3>3 DEF Keep, Record
        <4>2. exit[l].snapshot # <<>>
          BY <4>1 DEF TypeInv, LoopOK
        <4>3. MintsIn(exit'[l].snapshot) \subseteq MintsIn(exit[l].snapshot)
          BY <1>t, <4>1, <4>2, AdvancedTail DEF MintsIn
        <4> QED
          BY <4>3, TouchedMints
      <3> QED
        BY <1>12, <3>1, <3>2, <3>3 DEF ExitStep
    <2>5. Touched' \subseteq Touched
      BY <2>1, <2>2, <2>3, <2>4, TouchedMints
    <2> QED
      BY <1>t, <2>1, <2>5, FreshKept
  <1>13. CASE UNCHANGED vars
    BY <1>13, <1>e, <1>t, FreshKept DEF vars, channel, book
  <1> QED
    BY <1>1, <1>b, <1>2, <1>3, <1>4, <1>5, <1>6, <1>7, <1>9, <1>10, <1>11, <1>12, <1>13
       DEF Next, Environment, MainLoop

-----------------------------------------------------------------------------
(* Every position has a pending sell with its own entry time.              *)

SameStamp(e, p) == e.age = p.age /\ e.clock = p.clock

HasExit(a, s) ==
    \A k \in DOMAIN a : \E j \in DOMAIN s : s[j].mint = a[k].mint /\ SameStamp(s[j], a[k])

(* No entry is older than a position of its mint, nor from another clock.  *)
NoOlder(a, s) ==
    \A k \in DOMAIN a, j \in DOMAIN s :
        s[j].mint = a[k].mint => s[j].age <= a[k].age /\ s[j].clock = a[k].clock

(* No entry was stamped by a clock still to be set back.                   *)
Past(s, now) == \A j \in DOMAIN s : s[j].clock <= now

LEMMA OlderMonotone ==
    ASSUME NEW x \in Age, NEW y \in Age, x <= y
    PROVE  Older(x) <= Older(y) /\ x <= Older(x)
  BY StrategyAssumption DEF Older, Age

LEMMA AgesOf ==
    /\ \A s \in Seq(Pending) :
          \A k \in DOMAIN s : s[k] \in Pending /\ s[k].age \in Age /\ s[k].clock \in Back
    /\ \A s \in Seq(Position) :
          \A k \in DOMAIN s : s[k] \in Position /\ s[k].age \in Age /\ s[k].clock \in Back
  <1>1. \A e \in Pending : e.age \in Age /\ e.clock \in Back
    BY DEF Pending
  <1>2. \A e \in Position : e.age \in Age /\ e.clock \in Back
    BY DEF Position
  <1> QED
    BY <1>1, <1>2, LenProperties, ElementOfSeq

LEMMA AgedPairs ==
    ASSUME NEW a \in Seq(Position), NEW s \in Seq(Pending)
    PROVE  /\ HasExit(a, s) => HasExit(Aged(a), Aged(s))
           /\ NoOlder(a, s) => NoOlder(Aged(a), Aged(s))
           /\ \A now : Past(s, now) => Past(Aged(s), now)
  <1>1. /\ DOMAIN Aged(a) = DOMAIN a
        /\ \A k \in DOMAIN a : /\ Aged(a)[k].mint = a[k].mint
                               /\ Aged(a)[k].age = Older(a[k].age)
                               /\ Aged(a)[k].clock = a[k].clock
    BY AgesOf, AgedMints
  <1>2. /\ DOMAIN Aged(s) = DOMAIN s
        /\ \A k \in DOMAIN s : /\ Aged(s)[k].mint = s[k].mint
                               /\ Aged(s)[k].age = Older(s[k].age)
                               /\ Aged(s)[k].clock = s[k].clock
    BY AgesOf, AgedMints
  <1>3. ASSUME HasExit(a, s) PROVE HasExit(Aged(a), Aged(s))
    BY <1>1, <1>2, <1>3 DEF HasExit, SameStamp
  <1>4. ASSUME NoOlder(a, s) PROVE NoOlder(Aged(a), Aged(s))
    <2> SUFFICES ASSUME NEW k \in DOMAIN a, NEW j \in DOMAIN s, s[j].mint = a[k].mint
                 PROVE  Older(s[j].age) <= Older(a[k].age) /\ s[j].clock = a[k].clock
      BY <1>1, <1>2 DEF NoOlder
    <2> QED
      BY <1>4, AgesOf, OlderMonotone DEF NoOlder
  <1>5. ASSUME NEW now, Past(s, now) PROVE Past(Aged(s), now)
    BY <1>2, <1>5 DEF Past
  <1> QED
    BY <1>3, <1>4, <1>5

LEMMA AppendedEntry ==
    ASSUME NEW S, NEW s \in Seq(S), NEW e \in S
    PROVE  \E n : /\ DOMAIN Append(s, e) = DOMAIN s \cup {n}
                  /\ \A i \in DOMAIN s : Append(s, e)[i] = s[i]
                  /\ Append(s, e)[n] = e
  <1>1. /\ DOMAIN s = 1..Len(s) /\ Len(s) \in Nat
        /\ DOMAIN Append(s, e) = 1..(Len(s) + 1)
        /\ \A i \in 1..Len(s) : Append(s, e)[i] = s[i]
        /\ Append(s, e)[Len(s) + 1] = e
    BY AppendProperties, LenProperties
  <1>2. 1..(Len(s) + 1) = (1..Len(s)) \cup {Len(s) + 1}
    BY <1>1
  <1> QED
    BY <1>1, <1>2

LEMMA EnterPairs ==
    ASSUME NEW a \in Seq(Position), NEW p \in Position
    PROVE  /\ \A s \in Seq(Pending), e \in Pending :
                 HasExit(a, s) /\ e.mint = p.mint /\ SameStamp(e, p)
                     => HasExit(Append(a, p), Append(s, e))
           /\ \A s \in Seq(Pending), e \in Pending :
                 NoOlder(a, s) /\ p.mint \notin MintsIn(a) /\ p.mint \notin MintsIn(s)
                 /\ e.mint = p.mint /\ SameStamp(e, p)
                     => NoOlder(Append(a, p), Append(s, e))
           /\ \A s \in Seq(Pending), e \in Pending : \A now :
                 Past(s, now) /\ e.clock <= now => Past(Append(s, e), now)
           /\ \A s \in Seq(Pending) :
                 NoOlder(a, s) /\ p.mint \notin MintsIn(s) => NoOlder(Append(a, p), s)
  <1> DEFINE b == Append(a, p)
  <1>1. PICK n : /\ DOMAIN b = DOMAIN a \cup {n}
                 /\ \A i \in DOMAIN a : b[i] = a[i]
                 /\ b[n] = p
    BY AppendedEntry
  <1> HIDE DEF b
  <1>2. ASSUME NEW s \in Seq(Pending), NEW e \in Pending
        PROVE  /\ HasExit(a, s) /\ e.mint = p.mint /\ SameStamp(e, p) => HasExit(b, Append(s, e))
               /\ NoOlder(a, s) /\ p.mint \notin MintsIn(a) /\ p.mint \notin MintsIn(s)
                  /\ e.mint = p.mint /\ SameStamp(e, p) => NoOlder(b, Append(s, e))
               /\ \A now : Past(s, now) /\ e.clock <= now => Past(Append(s, e), now)
    <2> DEFINE t == Append(s, e)
    <2>1. PICK c : /\ DOMAIN t = DOMAIN s \cup {c}
                   /\ \A i \in DOMAIN s : t[i] = s[i]
                   /\ t[c] = e
      BY AppendedEntry
    <2> HIDE DEF t
    <2>2. ASSUME HasExit(a, s), e.mint = p.mint, SameStamp(e, p) PROVE HasExit(b, t)
      BY <1>1, <2>1, <2>2 DEF HasExit
    <2>3. ASSUME NoOlder(a, s), p.mint \notin MintsIn(a), p.mint \notin MintsIn(s),
                 e.mint = p.mint, SameStamp(e, p)
          PROVE  NoOlder(b, t)
      <3>1. e.age <= p.age /\ e.clock = p.clock
        BY <2>3, StrategyAssumption DEF SameStamp, Pending, Age
      <3> QED
        BY <1>1, <2>1, <2>3, <3>1 DEF NoOlder, MintsIn
    <2>4. ASSUME NEW now, Past(s, now), e.clock <= now PROVE Past(t, now)
      BY <2>1, <2>4 DEF Past
    <2> QED
      BY <2>2, <2>3, <2>4 DEF t
  <1>3. ASSUME NEW s \in Seq(Pending), NoOlder(a, s), p.mint \notin MintsIn(s)
        PROVE  NoOlder(b, s)
    BY <1>1, <1>3 DEF NoOlder, MintsIn
  <1> QED
    BY <1>2, <1>3 DEF b

(* Fewer positions and fewer entries change nothing.                       *)
From(t, s) == \A i \in DOMAIN t : \E j \in DOMAIN s : t[i] = s[j]

LEMMA FewerPairs ==
    ASSUME NEW a, NEW b, From(b, a), NEW s, NEW t, From(t, s)
    PROVE  /\ NoOlder(a, s) => NoOlder(b, t)
           /\ HasExit(a, s) => HasExit(b, s)
           /\ \A now : Past(s, now) => Past(t, now)
  <1>1. ASSUME NoOlder(a, s) PROVE NoOlder(b, t)
    BY <1>1 DEF NoOlder, From
  <1>2. ASSUME HasExit(a, s) PROVE HasExit(b, s)
    BY <1>2 DEF HasExit, From
  <1>3. ASSUME NEW now, Past(s, now) PROVE Past(t, now)
    BY <1>3 DEF Past, From
  <1> QED
    BY <1>1, <1>2, <1>3

-----------------------------------------------------------------------------
AgeInv ==
    /\ HasExit(active, pendingSells)
    /\ NoOlder(active, pendingSells)
    /\ Past(pendingSells, back)
    /\ \A l \in ExitLoop :
          /\ NoOlder(active, exit[l].snapshot)
          /\ Past(exit[l].snapshot, back)
          /\ exit[l].at = "selling" =>
                 OldOrWrapped(exit[l].held, Head(exit[l].snapshot), back)
    /\ SoldForAgeIsOld

LEMMA AgeUntouched ==
    ASSUME AgeInv, UNCHANGED <<active, pendingSells, exit, completed, back>>
    PROVE  AgeInv'
  BY DEF AgeInv, SoldForAgeIsOld

LEMMA SameIsFrom == \A s : From(s, s)
  BY DEF From

(* A close takes a position out and never books a young one as too old.    *)
LEMMA CompleteAges ==
    ASSUME TypeInv, SoldForAgeIsOld, NEW k \in DOMAIN active, NEW reason \in Reasons,
           NEW pnl \in Int, NEW held \in U64, NEW won,
           CompleteAt(k, reason, pnl, held, won),
           reason = "MaxHoldTime" =>
               \/ active[k].age >= MaxHoldSeconds
               \/ /\ back - active[k].clock > 0
                  /\ held >= Modulus - (back - active[k].clock)
    PROVE  From(active', active) /\ SoldForAgeIsOld'
  <1> DEFINE trade == [bundle |-> active[k].bundle, reason |-> reason, pnl |-> pnl,
                       held |-> held, age |-> active[k].age,
                       back |-> back - active[k].clock]
  <1>1. /\ active' = RemoveAt(active, k) /\ completed' = Append(completed, trade)
        /\ active \in Seq(Position) /\ completed \in Seq(Trade)
    BY DEF CompleteAt, TypeInv, TypeOK
  <1>2. trade \in Trade
    <2>1. active[k] \in Position
      BY <1>1, AgesOf
    <2> QED
      BY <2>1, StrategyAssumption DEF Position, Trade, Back, TypeInv, TypeOK
  <1>3. trade.reason = "MaxHoldTime" =>
            trade.age >= MaxHoldSeconds \/ (trade.back > 0 /\ trade.held >= Modulus - trade.back)
    OBVIOUS
  <1>4. From(active', active)
    BY <1>1, RemoveMints DEF From
  <1> HIDE DEF trade
  <1>5. PICK n : /\ DOMAIN completed' = DOMAIN completed \cup {n}
                 /\ \A i \in DOMAIN completed : completed'[i] = completed[i]
                 /\ completed'[n] = trade
    BY <1>1, <1>2, AppendedEntry
  <1>6. SoldForAgeIsOld'
    BY <1>3, <1>5 DEF SoldForAgeIsOld
  <1> QED
    BY <1>4, <1>6

LEMMA AgeStep ==
    ASSUME TypeInv, FreshInv, AgeInv, [Next]_vars
    PROVE  AgeInv'
  <1>t. /\ active \in Seq(Position) /\ pendingSells \in Seq(Pending)
        /\ signals \in Seq(Signal)
        /\ \A l \in ExitLoop : exit[l] \in [at : LoopAt, snapshot : Seq(Pending), held : U64]
        /\ \A l \in ExitLoop : exit[l].snapshot \in Seq(Pending) /\ exit[l].held \in U64
        /\ DOMAIN exit = ExitLoop
        /\ back \in Back /\ back \in Nat /\ Modulus \in Nat
    BY StrategyAssumption DEF TypeInv, TypeOK, Back
  <1>1. CASE Tick
    <2>1. /\ active' = Aged(active) /\ pendingSells' = Aged(pendingSells)
          /\ \A l \in ExitLoop : /\ exit'[l].snapshot = Aged(exit[l].snapshot)
                                 /\ exit'[l].at = exit[l].at /\ exit'[l].held = exit[l].held
          /\ completed' = completed /\ back' = back
      BY <1>1, <1>t DEF Tick
    <2>2. /\ HasExit(active', pendingSells') /\ NoOlder(active', pendingSells')
          /\ Past(pendingSells', back)
      BY <1>t, <2>1, AgedPairs DEF AgeInv
    <2>3. \A l \in ExitLoop :
             NoOlder(active', exit'[l].snapshot) /\ Past(exit'[l].snapshot, back)
      BY <1>t, <2>1, AgedPairs DEF AgeInv
    <2>4. ASSUME NEW l \in ExitLoop, exit[l].at = "selling"
          PROVE  OldOrWrapped(exit[l].held, Head(Aged(exit[l].snapshot)), back)
      <3> DEFINE s == exit[l].snapshot
      <3>1. s \in Seq(Pending) /\ s # <<>>
        BY <1>t, <2>4 DEF TypeInv, LoopOK
      <3>2. 1 \in DOMAIN s /\ Head(s) = s[1]
        BY <3>1, EmptySeq
      <3>3. /\ Aged(s)[1].age = Older(s[1].age) /\ Aged(s)[1].clock = s[1].clock
            /\ DOMAIN Aged(s) = DOMAIN s
        BY <3>1, <3>2, AgesOf, AgedMints
      <3>4. Head(Aged(s)) = Aged(s)[1]
        BY DEF Aged
      <3>5. /\ OldOrWrapped(exit[l].held, s[1], back) /\ s[1].age \in Age
            /\ exit[l].held \in U64
        BY <1>t, <2>4, <3>1, <3>2, AgesOf DEF AgeInv
      <3>6. s[1].age <= Older(s[1].age) /\ Older(s[1].age) \in Int
        BY <3>5, OlderMonotone, StrategyAssumption DEF Older, Age
      <3>7. /\ s[1].age \in Int /\ exit[l].held \in Int
            /\ exit[l].held <= s[1].age => exit[l].held <= Older(s[1].age)
        BY <3>5, <3>6, StrategyAssumption DEF Age, U64
      <3> HIDE DEF s
      <3> QED
        BY <3>3, <3>4, <3>5, <3>7 DEF OldOrWrapped, s
    <2>5. SoldForAgeIsOld'
      BY <2>1 DEF AgeInv, SoldForAgeIsOld
    <2> QED
      BY <2>1, <2>2, <2>3, <2>4, <2>5 DEF AgeInv
  <1>b. ASSUME NEW seconds \in 1..MaxBack, SetBack(seconds) PROVE AgeInv'
    <2>1. /\ UNCHANGED <<active, pendingSells, exit, completed>>
          /\ back' \in Nat /\ back <= back'
      BY <1>b, <1>t, StrategyAssumption DEF SetBack, book
    <2>2. ASSUME NEW s \in Seq(Pending), Past(s, back) PROVE Past(s, back')
      <3>1. \A j \in DOMAIN s : s[j].clock \in Nat
        BY AgesOf, StrategyAssumption DEF Back
      <3> QED
        BY <1>t, <2>1, <2>2, <3>1 DEF Past
    <2>3. ASSUME NEW l \in ExitLoop, exit[l].at = "selling"
          PROVE  OldOrWrapped(exit[l].held, Head(exit[l].snapshot), back')
      <3>1. OldOrWrapped(exit[l].held, Head(exit[l].snapshot), back)
        BY <2>3 DEF AgeInv
      <3>2. Head(exit[l].snapshot) \in Pending
        BY <1>t, <2>3, HeadTailProperties DEF TypeInv, LoopOK
      <3>3. Head(exit[l].snapshot).clock \in Nat /\ exit[l].held \in Nat
        BY <1>t, <3>2, StrategyAssumption DEF Pending, Back, U64
      <3>4. back \in Nat
        BY <1>t, StrategyAssumption DEF Back
      <3> QED
        BY <2>1, <3>1, <3>3, <3>4, WrappedStays
    <2> QED
      BY <1>t, <2>1, <2>2, <2>3 DEF AgeInv, SoldForAgeIsOld
  <1>2. CASE Environment
    BY <1>2, AgeUntouched DEF Environment, SendBuy, SendSell, book
  <1>3. CASE RecvLagged \/ SkipBuy \/ StartBuy \/ BuyFails \/ BuyAccepted \/ SellSent
    BY <1>3, AgeUntouched
       DEF RecvLagged, SkipBuy, StartBuy, BuyFails, BuyAccepted, SellSent, book
  <1>4. ASSUME NEW reply \in Replies, Confirm(reply) PROVE AgeInv'
    BY <1>4, NothingToRemove, AgeUntouched DEF Confirm, book
  <1>5. CASE Enter
    <2> DEFINE p == [bundle |-> main.bundle, mint |-> main.mint, age |-> 0,
                     clock |-> back]
               s == [mint |-> main.mint, age |-> 0,
                     clock |-> back]
    <2>1. /\ p \in Position /\ s \in Pending
          /\ active' = Append(active, p) /\ pendingSells' = Append(pendingSells, s)
          /\ UNCHANGED <<exit, completed, back>>
      BY <1>5, EnterEffect
    <2>2. /\ s.mint = p.mint /\ SameStamp(s, p) /\ p.mint = main.mint
          /\ s.clock <= back
      BY <1>t DEF SameStamp
    <2> HIDE DEF p, s
    <2>3. /\ main.mint \notin MintsIn(active) /\ main.mint \notin MintsIn(pendingSells)
          /\ \A l \in ExitLoop : main.mint \notin MintsIn(exit[l].snapshot)
      BY <1>5, TouchedMints DEF Enter, FreshInv, Buying
    <2>4. /\ HasExit(active', pendingSells') /\ NoOlder(active', pendingSells')
          /\ Past(pendingSells', back)
      BY <1>t, <2>1, <2>2, <2>3, EnterPairs DEF AgeInv
    <2>5. \A l \in ExitLoop : NoOlder(active', exit[l].snapshot)
      BY <1>t, <2>1, <2>2, <2>3, EnterPairs DEF AgeInv
    <2> QED
      BY <2>1, <2>4, <2>5 DEF AgeInv, SoldForAgeIsOld
  <1>6. CASE ReceiveSell
    <2>1. UNCHANGED <<pendingSells, exit, back>>
      BY <1>6 DEF ReceiveSell
    <2>2. CASE UNCHANGED book
      BY <2>1, <2>2, AgeUntouched DEF book
    <2>3. ASSUME NEW k \in DOMAIN active,
                 CompleteAt(k, "Manual", Head(signals).pnl, Held(active[k]),
                            Head(signals).pnl > 0)
          PROVE  AgeInv'
      <3>1. Head(signals) \in Signal
        BY <1>6, <1>t, ReceiveType DEF ReceiveSell
      <3>2. SignalPnl \cup {0} \subseteq Int
        BY StrategyAssumption
      <3>3. Head(signals).pnl \in Int /\ "Manual" \in Reasons
        BY <3>1, <3>2 DEF Signal, Reasons
      <3>a. Held(active[k]) \in U64
        BY <1>t, AgesOf, HeldType
      <3>4. From(active', active) /\ SoldForAgeIsOld'
        BY <2>3, <3>3, <3>a, CompleteAges DEF AgeInv
      <3> QED
        BY <2>1, <3>4, FewerPairs, SameIsFrom DEF AgeInv
    <2> QED
      BY <1>6, <2>2, <2>3 DEF ReceiveSell
  <1>7. CASE StartMonitoring
    BY <1>7, AgeUntouched DEF StartMonitoring, book
  <1>8. CASE PassGate
    <2>1. /\ UNCHANGED <<active, pendingSells, completed, back>>
          /\ \A l \in ExitLoop : /\ exit'[l].snapshot = exit[l].snapshot
                                 /\ exit'[l].held = exit[l].held
                                 /\ exit'[l].at = "selling" => exit[l].at = "selling"
      BY <1>8, <1>t DEF PassGate, book
    <2> QED
      BY <2>1 DEF AgeInv, SoldForAgeIsOld
  <1>9. ASSUME NEW l \in ExitLoop, LoopTick(l) \/ StartSell(l) PROVE AgeInv'
    <2>1. /\ UNCHANGED <<active, pendingSells, completed, back>>
          /\ \A x \in ExitLoop : x # l => exit'[x] = exit[x]
      BY <1>9, <1>t DEF LoopTick, StartSell, book
    <2>2. NoOlder(active, exit'[l].snapshot) /\ Past(exit'[l].snapshot, back)
      <3>1. exit'[l].snapshot = pendingSells \/ exit'[l].snapshot = exit[l].snapshot
        BY <1>9, <1>t DEF LoopTick, StartSell
      <3> QED
        BY <3>1 DEF AgeInv
    <2>3. exit'[l].at = "selling" =>
              OldOrWrapped(exit'[l].held, Head(exit'[l].snapshot), back)
      <3>1. CASE LoopTick(l)
        BY <1>t, <3>1 DEF LoopTick
      <3>2. CASE StartSell(l)
        <4>1. /\ exit'[l].held = Held(Head(exit[l].snapshot))
              /\ exit'[l].snapshot = exit[l].snapshot
          BY <1>t, <3>2 DEF StartSell
        <4>2. Head(exit[l].snapshot) \in Pending
          BY <1>t, <3>2, HeadTailProperties DEF StartSell, TypeInv, LoopOK
        <4>3. /\ exit[l].snapshot[1] = Head(exit[l].snapshot)
              /\ 1 \in DOMAIN exit[l].snapshot
          BY <1>t, <3>2, EmptySeq DEF StartSell, TypeInv, LoopOK
        <4>4. Head(exit[l].snapshot).clock <= back
          BY <4>3 DEF AgeInv, Past
        <4>5. OldOrWrapped(Held(Head(exit[l].snapshot)), Head(exit[l].snapshot), back)
          BY <1>t, <4>2, <4>4, HeldType DEF Pending
        <4> QED
          BY <4>1, <4>5
      <3> QED
        BY <1>9, <3>1, <3>2
    <2> QED
      BY <2>1, <2>2, <2>3 DEF AgeInv, SoldForAgeIsOld
  <1>10. ASSUME NEW l \in ExitLoop, Keep(l) \/ Record(l) PROVE AgeInv'
    <2> DEFINE held   == exit[l].held
               reason == ExitReason(held)
               m      == Head(exit[l].snapshot).mint
    <2>1. /\ pendingSells' = pendingSells /\ back' = back /\ exit'[l] = Advanced(exit[l])
          /\ \A x \in ExitLoop : x # l => exit'[x] = exit[x]
          /\ exit[l].at # "idle"
      BY <1>10, <1>t DEF Keep, Record
    <2>2. exit[l].snapshot # <<>>
      BY <2>1 DEF TypeInv, LoopOK
    <2>3. exit'[l].at # "selling" /\ From(exit'[l].snapshot, exit[l].snapshot)
      BY <1>t, <2>1, <2>2, AdvancedTail DEF From
    <2>4. From(active', active) /\ SoldForAgeIsOld'
      <3>1. CASE UNCHANGED book
        BY <3>1, SameIsFrom DEF book, AgeInv, SoldForAgeIsOld
      <3>2. ASSUME Record(l), NEW k \in DOMAIN active, active[k].mint = m,
                   CompleteAt(k, reason, BookedPnl(reason, held), held,
                              reason = "TakeProfit")
            PROVE  <2>4
        <4>1. held \in U64 /\ held \in Nat
          BY <1>t, StrategyAssumption DEF U64
        <4>2. reason \in Reasons /\ BookedPnl(reason, held) \in Int
          BY <4>1, BookedType
        <4>3. ASSUME reason = "MaxHoldTime"
              PROVE  \/ active[k].age >= MaxHoldSeconds
                     \/ /\ back - active[k].clock > 0
                        /\ held >= Modulus - (back - active[k].clock)
          <5> DEFINE head == Head(exit[l].snapshot)
          <5>1. held >= MaxHoldSeconds
            BY <4>3 DEF ExitReason, HitsMaxHold
          <5>2. exit[l].snapshot[1] = head /\ 1 \in DOMAIN exit[l].snapshot
            BY <1>t, <2>2, EmptySeq
          <5>3. head.age <= active[k].age /\ head.clock = active[k].clock
            BY <3>2, <5>2 DEF AgeInv, NoOlder
          <5>4. OldOrWrapped(held, head, back)
            BY <3>2 DEF AgeInv, Record
          <5>5. active[k].age \in Int /\ head.age \in Int /\ active[k].clock \in Int
            BY <1>t, <5>2, AgesOf, StrategyAssumption DEF Age, Back
          <5> HIDE DEF head, held
          <5> QED
            BY <1>t, <4>1, <5>1, <5>3, <5>4, <5>5, ExitRulesAssumption DEF OldOrWrapped
        <4> HIDE DEF reason, held
        <4> QED
          BY <3>2, <4>1, <4>2, <4>3, CompleteAges DEF AgeInv
      <3>3. CASE Keep(l)
        BY <3>1, <3>3 DEF Keep
      <3>4. CASE Record(l)
        BY <3>1, <3>2, <3>4 DEF Record, FirstOf
      <3> QED
        BY <1>10, <3>3, <3>4
    <2>5. HasExit(active', pendingSells') /\ NoOlder(active', pendingSells')
      BY <2>1, <2>4, FewerPairs, SameIsFrom DEF AgeInv
    <2>6. \A x \in ExitLoop :
             NoOlder(active', exit'[x].snapshot) /\ Past(exit'[x].snapshot, back)
      BY <2>1, <2>3, <2>4, FewerPairs, SameIsFrom DEF AgeInv
    <2> QED
      BY <2>1, <2>3, <2>4, <2>5, <2>6 DEF AgeInv
  <1>11. CASE UNCHANGED vars
    BY <1>11, AgeUntouched DEF vars, book
  <1> QED
    BY <1>1, <1>b, <1>2, <1>3, <1>4, <1>5, <1>6, <1>7, <1>8, <1>9, <1>10, <1>11
       DEF Next, MainLoop, ExitStep

LEMMA FreshInit == Init => FreshInv /\ AgeInv
  <1> SUFFICES ASSUME Init PROVE FreshInv /\ AgeInv
    OBVIOUS
  <1>1. /\ signals = <<>> /\ active = <<>> /\ pendingSells = <<>> /\ completed = <<>>
        /\ main.at = "recv" /\ \A l \in ExitLoop : exit[l] = Idle
    BY DEF Init, Listening
  <1>2. DOMAIN <<>> = {}
    BY EmptySeq
  <1>3. Touched = {}
    BY <1>1, <1>2 DEF Touched, MintsIn, Idle
  <1>4. FreshInv
    BY <1>1, <1>2, <1>3 DEF FreshInv, BuysDistinct, BuysIn, BuysAt, Buying
  <1>5. AgeInv
    BY <1>1, <1>2 DEF AgeInv, HasExit, NoOlder, Past, SoldForAgeIsOld, Idle
  <1> QED
    BY <1>4, <1>5

LEMMA ExitStepInv ==
    ASSUME ~RepeatSignals
    PROVE  Spec => [](TypeInv /\ FreshInv /\ AgeInv)
  <1>1. TypeInv /\ FreshInv /\ AgeInv /\ [Next]_vars => (TypeInv /\ FreshInv /\ AgeInv)'
    BY TypeStep, FreshStep, AgeStep
  <1>2. Init => TypeInv /\ FreshInv /\ AgeInv
    BY TypeInit, FreshInit
  <1> QED
    BY <1>1, <1>2, PTL DEF Spec

(* If no mint is signalled twice, every active position has a pending sell *)
(* of its mint with its own entry time, although confirmations remove pending   *)
(* sells and the loops work on clones of them.                             *)
THEOREM ExitForEveryPosition ==
    ASSUME ~RepeatSignals
    PROVE  Spec => []EveryPositionHasAnExit
  <1>1. AgeInv => EveryPositionHasAnExit
    BY DEF AgeInv, HasExit, SameStamp, EveryPositionHasAnExit
  <1> QED
    BY <1>1, ExitStepInv, PTL

(* If no mint is signalled twice, a position sold for its age is that old, *)
(* although held_seconds was taken from a clone before the sell and booked *)
(* after it on whatever position of the mint is there then; but for one    *)
(* cause: the clock was set back past its entry, and held_seconds wrapped. *)
THEOREM OnlyOldSoldForAge ==
    ASSUME ~RepeatSignals
    PROVE  Spec => []SoldForAgeIsOld
  <1>1. AgeInv => SoldForAgeIsOld
    BY DEF AgeInv
  <1> QED
    BY <1>1, ExitStepInv, PTL

-----------------------------------------------------------------------------
(* The count of wins.                                                      *)

WonTrades == {trade \in Trade : trade.pnl > 0}

(* A close counts a win exactly when it books a profit.                    *)
LEMMA CompleteWins ==
    ASSUME TypeInv, WinsAgree, NEW k \in DOMAIN active, NEW reason \in Reasons,
           NEW pnl \in Int, NEW held \in U64, NEW won, won <=> pnl > 0,
           CompleteAt(k, reason, pnl, held, won)
    PROVE  WinsAgree'
  <1> DEFINE trade == [bundle |-> active[k].bundle, reason |-> reason, pnl |-> pnl,
                       held |-> held, age |-> active[k].age,
                       back |-> back - active[k].clock]
  <1>1. /\ completed' = Append(completed, trade) /\ completed \in Seq(Trade)
        /\ active \in Seq(Position)
        /\ winningTrades' = IF pnl > 0 THEN winningTrades + 1 ELSE winningTrades
    BY DEF CompleteAt, TypeInv, TypeOK
  <1>2. trade \in Trade /\ trade.pnl = pnl
    <2>1. active[k] \in Position
      BY <1>1, AgesOf
    <2> QED
      BY <2>1, StrategyAssumption DEF Position, Trade, Back, TypeInv, TypeOK
  <1> HIDE DEF trade
  <1>3. ASSUME NEW s \in Seq(Trade)
        PROVE  {i \in DOMAIN s : s[i].pnl > 0} = ElementsAfter(s, 0, WonTrades)
    <2>1. \A i \in DOMAIN s : s[i] \in Trade /\ i > 0
      BY LenProperties, ElementOfSeq
    <2> QED
      BY <2>1 DEF ElementsAfter, WonTrades
  <1>4. completed' \in Seq(Trade) /\ 0 <= Len(completed)
    BY <1>1, <1>2, AppendProperties, LenProperties
  <1>5. /\ Cardinality(ElementsAfter(completed, 0, WonTrades)) \in Nat
        /\ Cardinality(ElementsAfter(Append(completed, trade), 0, WonTrades)) =
              Cardinality(ElementsAfter(completed, 0, WonTrades))
                 + (IF trade \in WonTrades THEN 1 ELSE 0)
    BY <1>1, <1>2, <1>4, CountAppended
  <1>6. winningTrades = Cardinality(ElementsAfter(completed, 0, WonTrades))
    BY <1>1, <1>3, Zenon DEF WinsAgree
  <1>7. WinsAgree' <=> winningTrades' = Cardinality(ElementsAfter(completed', 0, WonTrades))
    BY <1>3, <1>4, Zenon DEF WinsAgree
  <1>8. trade \in WonTrades <=> pnl > 0
    BY <1>2 DEF WonTrades
  <1> QED
    BY <1>1, <1>5, <1>6, <1>7, <1>8

(* A take profit is the one exit of a loop that books a gain.              *)
LEMMA OnlyTakeProfitGains ==
    ASSUME NEW held \in Nat
    PROVE  BookedPnl(ExitReason(held), held) > 0 <=> ExitReason(held) = "TakeProfit"
  <1>1. CASE HitsTakeProfit(held)
    <2>1. Pnl(held) \in Int /\ Pnl(held) > 0
      BY DEF Pnl, SimulatedPrice
    <2> QED
      BY <1>1, <2>1 DEF BookedPnl, ExitReason
  <1>2. CASE ~HitsTakeProfit(held)
    <2>1. ExitReason(held) \in {"StopLoss", "MaxHoldTime", "VelocityDrop"}
      BY <1>2 DEF ExitReason
    <2> DEFINE stop == TrailingStop(SimulatedPrice(held))
    <2>2. stop \in Int /\ stop - 100 <= 0
      BY ExitRulesAssumption DEF TrailingStop, SimulatedPrice
    <2> HIDE DEF stop
    <2>3. BookedPnl(ExitReason(held), held) \in {stop - 100, -10, -5}
      BY <2>1 DEF BookedPnl, stop
    <2>4. ~(BookedPnl(ExitReason(held), held) > 0)
      BY <2>2, <2>3
    <2> QED
      BY <2>1, <2>4
  <1> QED
    BY <1>1, <1>2

(* The simulated price is above every stop and never stalls, so a loop     *)
(* sells for the profit or for the time held.                              *)
LoopReasons == {"TakeProfit", "MaxHoldTime"}

LEMMA LoopReason ==
    ASSUME NEW held \in Nat, MustExit(held)
    PROVE  ExitReason(held) \in LoopReasons
  <1>1. Pnl(held) \in {5, 10, 15} /\ SimulatedPrice(held) = 100 + Pnl(held)
    BY DEF Pnl, SimulatedPrice
  <1>2. ~HitsStop(held) /\ ~Stalls(held)
    BY <1>1 DEF HitsStop, Stalls, TrailingStop
  <1> QED
    BY <1>2 DEF MustExit, ExitReason, LoopReasons

(* What an exit loop was selling for when it decided, it still books.      *)
DecidedInv == \A l \in ExitLoop : exit[l].at = "selling" => MustExit(exit[l].held)

LEMMA DecidedStep ==
    ASSUME TypeInv, DecidedInv, [Next]_vars
    PROVE  DecidedInv'
  <1>t. exit \in [ExitLoop -> [at : LoopAt, snapshot : Seq(Pending), held : U64]]
    BY DEF TypeInv, TypeOK
  <1>0. CASE UNCHANGED exit
    BY <1>0 DEF DecidedInv
  <1>1. CASE Tick
    <2>1. \A l \in ExitLoop : exit'[l].at = exit[l].at /\ exit'[l].held = exit[l].held
      BY <1>t, <1>1 DEF Tick
    <2> QED
      BY <2>1 DEF DecidedInv
  <1>b. ASSUME NEW seconds \in 1..MaxBack, SetBack(seconds) PROVE DecidedInv'
    BY <1>0, <1>b DEF SetBack
  <1>2. CASE PassGate
    BY <1>t, <1>2 DEF PassGate, DecidedInv, ExitLoop
  <1>3. ASSUME NEW l \in ExitLoop, LoopTick(l) PROVE DecidedInv'
    BY <1>t, <1>3 DEF LoopTick, DecidedInv
  <1>4. ASSUME NEW l \in ExitLoop, Keep(l) \/ Record(l) PROVE DecidedInv'
    <2>1. exit' = [exit EXCEPT ![l] = Advanced(exit[l])] /\ Advanced(exit[l]).at # "selling"
      BY <1>4 DEF Keep, Record, Advanced, Idle
    <2> QED
      BY <1>t, <2>1 DEF DecidedInv
  <1>5. ASSUME NEW l \in ExitLoop, StartSell(l) PROVE DecidedInv'
    BY <1>t, <1>5 DEF StartSell, DecidedInv
  <1>6. CASE Environment \/ MainLoop \/ StartMonitoring
    BY <1>0, <1>6 DEF Environment, SendBuy, SendSell, StartMonitoring, MainLoop, RecvLagged,
       SkipBuy, StartBuy, BuyFails, BuyAccepted, Confirm, Enter, ReceiveSell, SellSent
  <1> QED
    BY <1>0, <1>1, <1>b, <1>2, <1>3, <1>4, <1>5, <1>6 DEF Next, ExitStep, vars

(* A step books one close, with a reason the code can give and a win only  *)
(* for a profit, or leaves the list and the two sums alone.                *)
LEMMA StepBooks ==
    ASSUME TypeInv, DecidedInv, [Next]_vars
    PROVE  \/ UNCHANGED <<completed, winningTrades, totalPnl>>
           \/ \E k \in DOMAIN active, reason \in LoopReasons \cup {"Manual"}, pnl \in Int,
                 held \in U64, won \in BOOLEAN :
                 CompleteAt(k, reason, pnl, held, won) /\ (won <=> pnl > 0)
  <1> DEFINE Booked1 == \E k \in DOMAIN active, reason \in LoopReasons \cup {"Manual"},
                 pnl \in Int, held \in U64, won \in BOOLEAN :
                 CompleteAt(k, reason, pnl, held, won) /\ (won <=> pnl > 0)
             Same == UNCHANGED <<completed, winningTrades, totalPnl>>
  <1>1. CASE ReceiveSell
    <2>1. CASE UNCHANGED book
      BY <2>1 DEF book
    <2>2. ASSUME NEW k \in DOMAIN active,
                 CompleteAt(k, "Manual", Head(signals).pnl, Held(active[k]),
                            Head(signals).pnl > 0)
          PROVE  Booked1
      <3>1. signals \in Seq(Signal) /\ active \in Seq(Position)
        BY DEF TypeInv, TypeOK
      <3>2. Head(signals) \in Signal
        BY <1>1, <3>1, ReceiveType DEF ReceiveSell
      <3>3. SignalPnl \cup {0} \subseteq Int
        BY StrategyAssumption
      <3>4. Head(signals).pnl \in Int /\ Held(active[k]) \in U64
        BY <3>1, <3>2, <3>3, AgesOf, HeldType DEF Signal, TypeInv, TypeOK
      <3> DEFINE pnl == Head(signals).pnl
                 won == pnl > 0
                 held == Held(active[k])
      <3>5. CompleteAt(k, "Manual", pnl, held, won) /\ (won <=> pnl > 0) /\ won \in BOOLEAN
        BY <2>2
      <3>6. pnl \in Int /\ held \in U64
        BY <3>4
      <3> HIDE DEF pnl, won, held
      <3> QED
        BY <3>5, <3>6, Zenon
    <2> QED
      BY <1>1, <2>1, <2>2 DEF ReceiveSell
  <1>2. ASSUME NEW l \in ExitLoop, Record(l) PROVE Same \/ Booked1
    <2> DEFINE held   == exit[l].held
               reason == ExitReason(held)
               won    == reason = "TakeProfit"
    <2>1. CASE UNCHANGED book
      BY <2>1 DEF book
    <2>2. ASSUME NEW k \in DOMAIN active,
                 CompleteAt(k, reason, BookedPnl(reason, held), held, won)
          PROVE  Booked1
      <3>1. held \in U64 /\ held \in Nat
        BY StrategyAssumption DEF U64, TypeInv, TypeOK
      <3>2. reason \in LoopReasons /\ BookedPnl(reason, held) \in Int
        BY <1>2, <3>1, BookedType, LoopReason DEF Record, DecidedInv
      <3>3. (won <=> BookedPnl(reason, held) > 0) /\ won \in BOOLEAN
        BY <3>1, OnlyTakeProfitGains
      <3> HIDE DEF reason, held, won
      <3> QED
        BY <2>2, <3>1, <3>2, <3>3, Zenon
    <2> QED
      BY <1>2, <2>1, <2>2 DEF Record
  <1>3. CASE Tick \/ Environment \/ StartMonitoring \/ PassGate
    BY <1>3 DEF Tick, Environment, SendBuy, SendSell, StartMonitoring, PassGate, book
  <1>b. ASSUME NEW seconds \in 1..MaxBack, SetBack(seconds) PROVE Same
    BY <1>b DEF SetBack, book
  <1>4. CASE RecvLagged \/ SkipBuy \/ StartBuy \/ BuyFails \/ BuyAccepted \/ Enter \/ SellSent
             \/ \E reply \in Replies : Confirm(reply)
    BY <1>4 DEF RecvLagged, SkipBuy, StartBuy, BuyFails, BuyAccepted, Enter, SellSent,
       Confirm, book
  <1>5. ASSUME NEW l \in ExitLoop, LoopTick(l) \/ Keep(l) \/ StartSell(l) PROVE Same
    BY <1>5 DEF LoopTick, Keep, StartSell, book
  <1>6. CASE UNCHANGED vars
    BY <1>6 DEF vars, book
  <1> QED
    BY <1>1, <1>b, <1>2, <1>3, <1>4, <1>5, <1>6 DEF Next, MainLoop, ExitStep

LEMMA DecidedInit == Init => DecidedInv
  BY DEF Init, DecidedInv, Idle

LEMMA WinsStep ==
    ASSUME TypeInv, DecidedInv, WinsAgree, [Next]_vars
    PROVE  WinsAgree'
  <1>1. CASE UNCHANGED <<completed, winningTrades, totalPnl>>
    BY <1>1 DEF WinsAgree
  <1>2. ASSUME NEW k \in DOMAIN active, NEW reason \in LoopReasons \cup {"Manual"},
               NEW pnl \in Int, NEW held \in U64, NEW won \in BOOLEAN,
               CompleteAt(k, reason, pnl, held, won), won <=> pnl > 0
        PROVE  WinsAgree'
    <2>1. reason \in Reasons
      BY DEF LoopReasons, Reasons
    <2> QED
      BY <1>2, <2>1, CompleteWins
  <1> QED
    BY <1>1, <1>2, StepBooks

(* The dashboard counts a win for each completed trade with a profit: a    *)
(* loop that counts a take profit, and no other exit, never errs, because  *)
(* no stop it can hit lies above the entry price.                          *)
THEOREM WinsCounted == Spec => []WinsAgree
  <1>1. Init => WinsAgree
    <2> SUFFICES ASSUME Init PROVE WinsAgree
      OBVIOUS
    <2>1. completed = <<>> /\ winningTrades = 0
      BY DEF Init
    <2>2. {k \in DOMAIN completed : completed[k].pnl > 0} = {}
      BY <2>1, EmptySeq
    <2> QED
      BY <2>1, <2>2, FS_EmptySet DEF WinsAgree
  <1> QED
    BY <1>1, TypeInit, TypeStep, DecidedInit, DecidedStep, WinsStep, PTL DEF Spec


-----------------------------------------------------------------------------
(* The profit.  The function the sum is defined by exists and is the only  *)
(* one, so that booking a trade adds its profit to the sum of the others.  *)

SumsUp(g, s, n) == g = [i \in 0..n |-> IF i = 0 THEN 0 ELSE g[i - 1] + s[i].pnl]

LEMMA SumExists ==
    ASSUME NEW s \in Seq(Trade), NEW n \in 0..Len(s)
    PROVE  \E g \in [0..n -> Int] : SumsUp(g, s, n)
  <1> DEFINE T == {k \in 0..Len(s) : ~\E g \in [0..k -> Int] : SumsUp(g, s, k)}
  <1>1. Len(s) \in Nat /\ \A k \in 1..Len(s) : s[k].pnl \in Int
    <2>1. Len(s) \in Nat /\ \A k \in 1..Len(s) : s[k] \in Trade
      BY LenProperties
    <2> QED
      BY <2>1 DEF Trade
  <1>2. SUFFICES ASSUME T # {} PROVE FALSE
    OBVIOUS
  <1>3. T \subseteq Nat
    BY <1>1
  <1>4. PICK k \in T : \A j \in T : k <= j
    BY <1>2, <1>3, LeastElement
  <1>5. k \in Nat /\ k <= Len(s)
    BY <1>1
  <1>6. CASE k = 0
    <2> DEFINE g == [i \in 0..0 |-> 0]
    <2>1. g \in [0..k -> Int] /\ SumsUp(g, s, k)
      BY <1>6 DEF SumsUp
    <2> HIDE DEF g
    <2> QED
      BY <2>1
  <1>7. CASE k # 0
    <2>1. k - 1 \in 0..Len(s) /\ k - 1 \notin T
      <3>1. k - 1 \in 0..Len(s) /\ ~(k <= k - 1)
        BY <1>1, <1>5, <1>7
      <3> HIDE DEF T
      <3> QED
        BY <1>4, <3>1
    <2>2. PICK g \in [0..(k - 1) -> Int] : SumsUp(g, s, k - 1)
      BY <2>1
    <2> DEFINE h == [i \in 0..k |-> IF i = k THEN g[k - 1] + s[k].pnl ELSE g[i]]
    <2>3. g[k - 1] \in Int /\ s[k].pnl \in Int
      BY <1>1, <1>5, <1>7
    <2>4. h \in [0..k -> Int]
      BY <1>5, <2>3
    <2>5. \A i \in 0..k : h[i] = IF i = 0 THEN 0 ELSE h[i - 1] + s[i].pnl
      <3> TAKE i \in 0..k
      <3>1. CASE i = k
        BY <1>5, <1>7, <3>1
      <3>2. CASE i # k
        <4>1. i \in 0..(k - 1) /\ h[i] = g[i]
          BY <1>5, <3>2
        <4>2. g[i] = IF i = 0 THEN 0 ELSE g[i - 1] + s[i].pnl
          BY <2>2, <4>1, Zenon DEF SumsUp
        <4>3. i # 0 => i - 1 \in 0..k /\ i - 1 # k
          BY <1>5, <4>1
        <4> QED
          BY <4>1, <4>2, <4>3
      <3> QED
        BY <3>1, <3>2
    <2>6. SumsUp(h, s, k)
      <3>1. h = [i \in 0..k |-> h[i]]
        OBVIOUS
      <3> HIDE DEF h
      <3> QED
        BY <2>5, <3>1, Zenon DEF SumsUp
    <2> HIDE DEF h
    <2> QED
      BY <2>4, <2>6
  <1> QED
    BY <1>6, <1>7

LEMMA SumUnique ==
    ASSUME NEW s, NEW n \in Nat, NEW g, NEW h, SumsUp(g, s, n), SumsUp(h, s, n)
    PROVE  \A i \in 0..n : g[i] = h[i]
  <1> DEFINE T == {k \in 0..n : g[k] # h[k]}
  <1>1. SUFFICES ASSUME T # {} PROVE FALSE
    OBVIOUS
  <1>2. T \subseteq Nat
    OBVIOUS
  <1>3. PICK k \in T : \A j \in T : k <= j
    BY <1>1, <1>2, LeastElement
  <1>4. /\ g[k] = IF k = 0 THEN 0 ELSE g[k - 1] + s[k].pnl
        /\ h[k] = IF k = 0 THEN 0 ELSE h[k - 1] + s[k].pnl
    BY Zenon DEF SumsUp
  <1>5. k # 0
    BY <1>4
  <1>6. k - 1 \in 0..n /\ k - 1 \notin T
    BY <1>3, <1>5
  <1>7. g[k - 1] = h[k - 1]
    BY <1>6
  <1> QED
    BY <1>4, <1>5, <1>7

LEMMA ProfitIsTheSum ==
    ASSUME NEW s \in Seq(Trade), NEW g, SumsUp(g, s, Len(s))
    PROVE  Profit(s) = g[Len(s)]
  <1> DEFINE earned == CHOOSE f : SumsUp(f, s, Len(s))
  <1>1. Profit(s) = earned[Len(s)]
    BY Zenon DEF Profit, SumsUp
  <1>2. SumsUp(earned, s, Len(s))
    BY Zenon
  <1> HIDE DEF earned
  <1>3. Len(s) \in Nat /\ Len(s) \in 0..Len(s)
    BY LenProperties
  <1>4. earned[Len(s)] = g[Len(s)]
    BY <1>2, <1>3, SumUnique
  <1> QED
    BY <1>1, <1>4

LEMMA NoTradesNoProfit == Profit(<<>>) = 0
  <1>1. <<>> \in Seq(Trade) /\ Len(<<>>) = 0
    BY EmptySeq
  <1> DEFINE g == [i \in 0..0 |-> 0]
  <1>2. SumsUp(g, <<>>, 0)
    BY DEF SumsUp
  <1>3. g[0] = 0
    OBVIOUS
  <1> HIDE DEF g
  <1> QED
    BY <1>1, <1>2, <1>3, ProfitIsTheSum

LEMMA ProfitAppended ==
    ASSUME NEW s \in Seq(Trade), NEW e \in Trade
    PROVE  Profit(Append(s, e)) = Profit(s) + e.pnl
  <1> DEFINE t == Append(s, e)
             n == Len(s)
  <1>1. /\ n \in Nat /\ t \in Seq(Trade) /\ Len(t) = n + 1
        /\ \A k \in 1..n : t[k] = s[k]
        /\ t[n + 1] = e
    BY AppendProperties, LenProperties
  <1> HIDE DEF t, n
  <1>2. n + 1 \in 0..Len(t)
    BY <1>1
  <1>3. PICK g \in [0..(n + 1) -> Int] : SumsUp(g, t, n + 1)
    BY <1>1, <1>2, SumExists
  <1> DEFINE h == [i \in 0..n |-> g[i]]
  <1>4. \A i \in 0..n : h[i] = IF i = 0 THEN 0 ELSE h[i - 1] + s[i].pnl
    <2> TAKE i \in 0..n
    <2>1. i \in 0..(n + 1) /\ (i # 0 => i - 1 \in 0..n /\ t[i] = s[i])
      BY <1>1
    <2>2. g[i] = IF i = 0 THEN 0 ELSE g[i - 1] + t[i].pnl
      BY <1>3, <2>1, Zenon DEF SumsUp
    <2> QED
      BY <2>1, <2>2
  <1>5. SumsUp(h, s, n)
    <2>1. h = [i \in 0..n |-> h[i]]
      OBVIOUS
    <2> HIDE DEF h
    <2> QED
      BY <1>4, <2>1, Zenon DEF SumsUp
  <1>6. h[n] = g[n]
    BY <1>1
  <1> HIDE DEF h
  <1>7. Profit(s) = g[n]
    BY <1>5, <1>6, ProfitIsTheSum DEF n
  <1>8. Profit(t) = g[n + 1]
    BY <1>1, <1>3, ProfitIsTheSum
  <1>9. g[n + 1] = g[n] + e.pnl
    <2>1. n + 1 \in 0..(n + 1) /\ n + 1 # 0 /\ (n + 1) - 1 = n
      BY <1>1
    <2>2. g[n + 1] = IF n + 1 = 0 THEN 0 ELSE g[(n + 1) - 1] + t[n + 1].pnl
      BY <1>3, <2>1, Zenon DEF SumsUp
    <2> QED
      BY <1>1, <2>1, <2>2
  <1> QED
    BY <1>7, <1>8, <1>9 DEF t

LEMMA ProfitStep ==
    ASSUME TypeInv, DecidedInv, ProfitsAgree, [Next]_vars
    PROVE  ProfitsAgree'
  <1>1. CASE UNCHANGED <<completed, winningTrades, totalPnl>>
    BY <1>1 DEF ProfitsAgree
  <1>2. ASSUME NEW k \in DOMAIN active, NEW reason \in LoopReasons \cup {"Manual"},
               NEW pnl \in Int, NEW held \in U64, NEW won \in BOOLEAN,
               CompleteAt(k, reason, pnl, held, won)
        PROVE  ProfitsAgree'
    <2> DEFINE trade == [bundle |-> active[k].bundle, reason |-> reason, pnl |-> pnl,
                         held |-> held, age |-> active[k].age,
                         back |-> back - active[k].clock]
    <2>1. /\ active \in Seq(Position) /\ completed \in Seq(Trade)
          /\ completed' = Append(completed, trade)
          /\ totalPnl' = totalPnl + pnl
      BY <1>2 DEF CompleteAt, TypeInv, TypeOK
    <2>2. trade \in Trade /\ trade.pnl = pnl
      <3>1. active[k] \in Position /\ reason \in Reasons
        BY <2>1, AgesOf DEF LoopReasons, Reasons
      <3> QED
        BY <3>1, StrategyAssumption DEF Position, Trade, Back, TypeInv, TypeOK
    <2> HIDE DEF trade
    <2>3. Profit(completed') = Profit(completed) + pnl
      BY <2>1, <2>2, ProfitAppended
    <2>4. totalPnl = Profit(completed)
      BY DEF ProfitsAgree
    <2>5. totalPnl' = Profit(completed')
      BY <2>1, <2>3, <2>4, Zenon
    <2> QED
      BY <2>5, Zenon DEF ProfitsAgree
  <1> QED
    BY <1>1, <1>2, StepBooks

(* The dashboard's total profit is the sum over the completed trades,      *)
(* however many there are and whichever task booked them.                  *)
THEOREM ProfitsSummed == Spec => []ProfitsAgree
  <1>1. Init => ProfitsAgree
    <2> SUFFICES ASSUME Init PROVE ProfitsAgree
      OBVIOUS
    <2>1. completed = <<>> /\ totalPnl = 0
      BY DEF Init
    <2> QED
      BY <2>1, NoTradesNoProfit DEF ProfitsAgree
  <1> QED
    BY <1>1, TypeInit, TypeStep, DecidedInit, DecidedStep, ProfitStep, PTL DEF Spec

=============================================================================
