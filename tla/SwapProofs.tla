----------------------------- MODULE SwapProofs -----------------------------
(***************************************************************************)
(* Theorems about SwapMath: the amounts of a quote fit their type, are     *)
(* exact but for the last unit, and keep the order of the inputs.          *)
(***************************************************************************)
EXTENDS SwapMath, TLAPS

-----------------------------------------------------------------------------
(* The arithmetic.                                                         *)

LEMMA WidthPositive == Width \in Nat \ {0}
  BY DEF Width

LEMMA BpsPositive == AllBps \in Nat \ {0} /\ U16Max \in Nat
  BY DEF AllBps, U16Max

(* Division of naturals, by what it leaves.                                *)
LEMMA DivisionBounds ==
    ASSUME NEW a \in Nat, NEW b \in Nat \ {0}
    PROVE  /\ a \div b \in Nat
           /\ b * (a \div b) <= a
           /\ a < b * ((a \div b) + 1)
  BY Z3

(* A product grows with its factor, and what is a multiple less than the   *)
(* next one is at most it.                                                 *)
LEMMA TimesMonotone ==
    ASSUME NEW a \in Nat, NEW b \in Nat, NEW c \in Nat, b <= c
    PROVE  a * b <= a * c /\ a * b \in Nat /\ a * c \in Nat
  BY Z3

LEMMA TimesCancels ==
    ASSUME NEW a \in Nat, NEW b \in Nat, NEW c \in Nat, a * b < a * (c + 1)
    PROVE  b <= c
  <1> SUFFICES ASSUME c + 1 <= b PROVE FALSE
    OBVIOUS
  <1>1. c + 1 \in Nat
    OBVIOUS
  <1>2. a * (c + 1) <= a * b /\ a * b \in Nat /\ a * (c + 1) \in Nat
    BY <1>1, TimesMonotone
  <1> QED
    BY <1>2

(* A number below Width is not changed by the cast.                        *)
LEMMA CastKeeps ==
    ASSUME NEW n \in U64
    PROVE  AsU64(n) = n
  BY WidthPositive, Z3 DEF U64, AsU64

(* A fee of at most 100 % is at most the input, so neither the cast nor    *)
(* the saturation of calculate_swap changes anything.                      *)
LEMMA FeeWithinInput ==
    ASSUME NEW input \in U64, NEW feeBps \in 0..AllBps
    PROVE  /\ Fee(input, feeBps) \in 0..input
           /\ InputAfterFee(input, feeBps) = input - Fee(input, feeBps)
  <1> DEFINE p == input * feeBps
             f == Fee(input, feeBps)
  <1>1. input \in Nat /\ p \in Nat
    BY WidthPositive DEF U64
  <1>2. p <= AllBps * input
    <2>1. feeBps \in Nat /\ feeBps <= AllBps /\ AllBps \in Nat
      BY BpsPositive
    <2>2. input * feeBps <= input * AllBps /\ input * AllBps = AllBps * input
      BY <1>1, <2>1, TimesMonotone
    <2> QED
      BY <2>2
  <1>3. f = p \div AllBps
    BY DEF Fee
  <1> HIDE DEF p, f
  <1>4. f \in 0..input
    <2>1. f \in Nat /\ AllBps * f <= p
      BY <1>1, <1>3, BpsPositive, DivisionBounds
    <2>2. AllBps \in Nat /\ AllBps > 0 /\ AllBps * f \in Nat /\ AllBps * input \in Nat
      BY <1>1, <2>1, BpsPositive
    <2>3. AllBps * (input + 1) = AllBps * input + AllBps
      BY <1>1, <2>2
    <2>4. AllBps * f < AllBps * (input + 1)
      BY <1>1, <1>2, <2>1, <2>2, <2>3
    <2>5. f <= input
      BY <1>1, <2>1, <2>2, <2>4, TimesCancels
    <2> QED
      BY <1>1, <2>1, <2>5
  <1>5. f \in U64
    BY <1>4, WidthPositive DEF U64
  <1>6. AsU64(f) = f
    BY <1>5, CastKeeps
  <1> USE DEF f
  <1> QED
    BY <1>1, <1>4, <1>6 DEF InputAfterFee, SaturatingSub

(* The reserve after a swap is no larger than before: neither the cast nor *)
(* the saturation hides an overflow.                                       *)
LEMMA NewReserveFits ==
    ASSUME NEW x \in U64, NEW y \in U64, NEW dx \in U64, x + dx > 0
    PROVE  /\ NewReserve(x, y, dx) \in 0..y
           /\ Output(x, y, dx) = y - NewReserve(x, y, dx)
  <1> DEFINE q == NewReserve(x, y, dx)
  <1>1. x \in Nat /\ y \in Nat /\ dx \in Nat /\ x * y \in Nat /\ x + dx \in Nat \ {0}
    BY WidthPositive DEF U64
  <1>2. q \in Nat /\ (x + dx) * q <= x * y
    BY <1>1, DivisionBounds DEF NewReserve
  <1>3. q \in 0..y
    <2> HIDE DEF q
    <2>1. SUFFICES ASSUME q > y PROVE FALSE
      BY <1>1, <1>2
    <2>2. (x + dx) * q >= (x + dx) * (y + 1)
      BY <1>1, <1>2, <2>1, Z3
    <2>3. (x + dx) * (y + 1) = x * y + x + dx * y + dx
      BY <1>1, Z3
    <2>4. dx * y \in Nat
      BY <1>1
    <2> QED
      BY <1>1, <1>2, <2>2, <2>3, <2>4
  <1>4. AsU64(q) = q
    BY <1>1, <1>3, CastKeeps, WidthPositive DEF U64
  <1> QED
    BY <1>1, <1>3, <1>4 DEF Output, SaturatingSub

(* The quote is the exact output of the formula, y * dx / (x + dx),        *)
(* rounded UP: never less, and by less than one token more.  A pool rounds *)
(* down, so a quote without slippage may be one more than the pool gives.  *)
LEMMA OutputRoundsUp ==
    ASSUME NEW x \in U64, NEW y \in U64, NEW dx \in U64, x + dx > 0
    PROVE  /\ Output(x, y, dx) \in 0..y
           /\ RoundsUp(Output(x, y, dx), x, y, dx)
  <1> DEFINE q == NewReserve(x, y, dx)
  <1>1. x \in Nat /\ y \in Nat /\ dx \in Nat /\ x * y \in Nat /\ x + dx \in Nat \ {0}
    BY WidthPositive DEF U64
  <1>2. (x + dx) * q <= x * y /\ x * y < (x + dx) * (q + 1)
    BY <1>1, DivisionBounds DEF NewReserve
  <1>3. q \in 0..y /\ Output(x, y, dx) = y - q
    BY NewReserveFits
  <1> HIDE DEF q
  <1>4. (y - q) * (x + dx) = y * x + y * dx - (x + dx) * q
    BY <1>1, <1>3, Z3
  <1>5. (y - q - 1) * (x + dx) = y * x + y * dx - (x + dx) * (q + 1)
    BY <1>1, <1>3, Z3
  <1>6. y * x = x * y
    BY <1>1
  <1> QED
    BY <1>1, <1>2, <1>3, <1>4, <1>5, <1>6 DEF RoundsUp

(* A larger input never buys less: rounding does not upset the order of    *)
(* two quotes.                                                             *)
LEMMA MoreInNeverLessOut ==
    ASSUME NEW x \in U64, NEW y \in U64, NEW dx \in U64, NEW dz \in U64,
           x + dx > 0, dx <= dz
    PROVE  Output(x, y, dx) <= Output(x, y, dz)
  <1>1. x \in Nat /\ y \in Nat /\ dx \in Nat /\ dz \in Nat /\ x * y \in Nat
    BY WidthPositive DEF U64
  <1>2. x + dx \in Nat \ {0} /\ x + dz \in Nat \ {0}
    BY <1>1
  <1> DEFINE q == NewReserve(x, y, dx)
             r == NewReserve(x, y, dz)
  <1>3. q \in 0..y /\ Output(x, y, dx) = y - q
    BY NewReserveFits
  <1>4. r \in 0..y /\ Output(x, y, dz) = y - r
    BY <1>2, NewReserveFits
  <1>5. x * y < (x + dx) * (q + 1)
    BY <1>1, <1>2, DivisionBounds DEF NewReserve
  <1>6. (x + dz) * r <= x * y
    BY <1>1, <1>2, DivisionBounds DEF NewReserve
  <1> HIDE DEF q, r
  <1>7. r <= q
    <2>1. SUFFICES ASSUME r >= q + 1 PROVE FALSE
      BY <1>3, <1>4
    <2>2. (x + dx) * (q + 1) <= (x + dx) * r
      BY <1>1, <1>3, <1>4, <2>1, Z3
    <2>3. (x + dx) * r <= (x + dz) * r
      BY <1>1, <1>4, Z3
    <2>4. (x + dx) * (q + 1) \in Int /\ (x + dx) * r \in Int /\ (x + dz) * r \in Int
      BY <1>1, <1>3, <1>4
    <2> QED
      BY <1>1, <1>5, <1>6, <2>2, <2>3, <2>4
  <1> QED
    BY <1>1, <1>3, <1>4, <1>7

(* Nor does a larger input leave less to swap once the fee is taken: the   *)
(* fee grows by no more than the input.                                    *)
LEMMA MoreAfterFee ==
    ASSUME NEW dx \in U64, NEW dz \in U64, NEW feeBps \in 0..AllBps, dx <= dz
    PROVE  InputAfterFee(dx, feeBps) <= InputAfterFee(dz, feeBps)
  <1> DEFINE d == dz - dx
             p == dx * feeBps
             r == dz * feeBps
             f == Fee(dx, feeBps)
             g == Fee(dz, feeBps)
  <1>1. /\ dx \in Nat /\ dz \in Nat /\ d \in Nat /\ p \in Nat /\ r \in Nat
        /\ feeBps \in Nat /\ feeBps <= AllBps /\ AllBps \in Nat \ {0}
    BY WidthPositive, BpsPositive DEF U64
  <1>2. f \in 0..dx /\ InputAfterFee(dx, feeBps) = dx - f
    BY FeeWithinInput
  <1>3. g \in 0..dz /\ InputAfterFee(dz, feeBps) = dz - g
    BY FeeWithinInput
  <1>4. p < AllBps * (f + 1) /\ AllBps * g <= r
    BY <1>1, DivisionBounds DEF Fee
  <1>5. r = p + d * feeBps
    BY <1>1, Z3
  <1>6. d * feeBps <= AllBps * d /\ AllBps * d \in Nat /\ d * feeBps \in Nat
    <2> HIDE DEF d
    <2>1. d * feeBps <= d * AllBps /\ d * AllBps = AllBps * d
      BY <1>1, TimesMonotone
    <2> QED
      BY <1>1, <2>1
  <1> HIDE DEF d, p, r, f, g
  <1>7. g <= f + d
    <2>1. f \in Nat /\ g \in Nat /\ f + d \in Nat /\ AllBps * (f + 1) \in Nat /\ AllBps * g \in Nat
      BY <1>1, <1>2, <1>3
    <2>2. AllBps * (f + d + 1) = AllBps * (f + 1) + AllBps * d
      BY <1>1, <2>1, Z3
    <2>3. AllBps * g < AllBps * ((f + d) + 1)
      BY <1>1, <1>4, <1>5, <1>6, <2>1, <2>2
    <2> QED
      BY <1>1, <2>1, <2>3, TimesCancels
  <1> QED
    BY <1>1, <1>2, <1>3, <1>7 DEF d

-----------------------------------------------------------------------------
(* A quote.                                                                *)

LEMMA CastType ==
    ASSUME NEW n \in Nat
    PROVE  AsU64(n) \in U64
  BY WidthPositive, Z3 DEF AsU64, U64

LEMMA AfterFeeType ==
    ASSUME NEW dx \in U64, NEW feeBps \in U16
    PROVE  Fee(dx, feeBps) \in Nat /\ InputAfterFee(dx, feeBps) \in U64
  <1>1. dx \in Nat /\ feeBps \in Nat /\ dx * feeBps \in Nat
    BY WidthPositive, BpsPositive DEF U64, U16
  <1>2. Fee(dx, feeBps) \in Nat
    BY <1>1, BpsPositive, DivisionBounds DEF Fee
  <1>3. AsU64(Fee(dx, feeBps)) \in U64
    BY <1>2, CastType
  <1> QED
    BY <1>2, <1>3, WidthPositive DEF InputAfterFee, SaturatingSub, U64

LEMMA OutputType ==
    ASSUME NEW x \in U64, NEW y \in U64, NEW dx \in U64, x + dx > 0
    PROVE  Output(x, y, dx) \in U64
  <1>1. Output(x, y, dx) \in 0..y
    BY OutputRoundsUp
  <1> QED
    BY <1>1, WidthPositive DEF U64

(* A calculation that does not panic has something to divide by.           *)
LEMMA NoPanic ==
    ASSUME NEW x \in U64, NEW dx \in U64, NEW feeBps \in U16, ~Panics(x, dx, feeBps)
    PROVE  InputAfterFee(dx, feeBps) \in U64 /\ x + InputAfterFee(dx, feeBps) > 0
  <1>1. InputAfterFee(dx, feeBps) \in U64
    BY AfterFeeType
  <1> QED
    BY <1>1, WidthPositive DEF Panics, U64

(* Whatever u16 is given as the fee, 100 % and more included, every amount *)
(* of the quote fits a u64, and no more is promised than the pool has.     *)
THEOREM QuoteFits ==
    ASSUME NEW x \in U64, NEW y \in U64, NEW dx \in U64, NEW feeBps \in U16,
           ~Panics(x, dx, feeBps)
    PROVE  /\ Quote(x, y, dx, feeBps) \in
                 [input : U64, fee : U64, afterFee : U64, output : U64]
           /\ Quote(x, y, dx, feeBps).output <= y
  <1>1. InputAfterFee(dx, feeBps) \in U64 /\ x + InputAfterFee(dx, feeBps) > 0
    BY NoPanic
  <1>2. AsU64(Fee(dx, feeBps)) \in U64
    BY AfterFeeType, CastType
  <1> DEFINE output == Output(x, y, InputAfterFee(dx, feeBps))
  <1>3. output \in U64 /\ output \in 0..y
    BY <1>1, OutputType, OutputRoundsUp
  <1>4. output <= y
    BY <1>3
  <1> QED
    BY <1>1, <1>2, <1>3, <1>4 DEF Quote

LEMMA FeeRoundsDown ==
    ASSUME NEW input \in U64, NEW feeBps \in 0..AllBps
    PROVE  /\ AsU64(Fee(input, feeBps)) + InputAfterFee(input, feeBps) = input
           /\ RoundsDown(AsU64(Fee(input, feeBps)), input, feeBps)
  <1> DEFINE f == Fee(input, feeBps)
             p == input * feeBps
  <1>1. input \in Nat /\ p \in Nat /\ AllBps \in Nat \ {0}
    BY WidthPositive, BpsPositive DEF U64
  <1>2. f \in 0..input /\ InputAfterFee(input, feeBps) = input - f
    BY FeeWithinInput
  <1>3. AsU64(f) = f
    BY <1>1, <1>2, CastKeeps, WidthPositive DEF U64
  <1>4. AllBps * f <= p /\ p < AllBps * (f + 1)
    BY <1>1, DivisionBounds DEF Fee
  <1> HIDE DEF f, p
  <1>5. f \in Nat /\ AllBps * f = f * AllBps /\ AllBps * (f + 1) = (f + 1) * AllBps
    BY <1>1, <1>2, Z3
  <1> QED
    BY <1>1, <1>2, <1>3, <1>4, <1>5 DEF f, p, RoundsDown

(* At a fee of at most 100 % neither the casts nor the saturation take     *)
(* effect.  The fee is what the basis points say, rounded down; it and     *)
(* what is swapped make up the input; and the output is the exact one for  *)
(* what is swapped, rounded UP, where a pool rounds down: the calculator   *)
(* may promise one unit more than the pool gives.                          *)
THEOREM QuoteIsExact ==
    ASSUME NEW x \in U64, NEW y \in U64, NEW dx \in U64, NEW feeBps \in 0..AllBps,
           ~Panics(x, dx, feeBps)
    PROVE  LET q == Quote(x, y, dx, feeBps)
           IN  /\ q.fee + q.afterFee = q.input
               /\ RoundsDown(q.fee, q.input, feeBps)
               /\ RoundsUp(q.output, x, y, q.afterFee)
  <1>1. feeBps \in U16
    BY DEF U16, AllBps, U16Max
  <1>2. InputAfterFee(dx, feeBps) \in U64 /\ x + InputAfterFee(dx, feeBps) > 0
    BY <1>1, NoPanic
  <1>3. RoundsUp(Output(x, y, InputAfterFee(dx, feeBps)), x, y, InputAfterFee(dx, feeBps))
    BY <1>2, OutputRoundsUp
  <1> QED
    BY <1>3, FeeRoundsDown DEF Quote

(* From the same reserves and at the same fee of at most 100 %, a larger   *)
(* input is never quoted a smaller output, whatever is rounded on the way. *)
THEOREM MoreInNeverLess ==
    ASSUME NEW x \in U64, NEW y \in U64, NEW dx \in U64, NEW dz \in U64,
           NEW feeBps \in 0..AllBps, dx <= dz, ~Panics(x, dx, feeBps)
    PROVE  Quote(x, y, dx, feeBps).output <= Quote(x, y, dz, feeBps).output
  <1>1. feeBps \in U16
    BY DEF U16, AllBps, U16Max
  <1>2. InputAfterFee(dx, feeBps) \in U64 /\ x + InputAfterFee(dx, feeBps) > 0
    BY <1>1, NoPanic
  <1>3. InputAfterFee(dz, feeBps) \in U64
    BY <1>1, AfterFeeType
  <1>4. InputAfterFee(dx, feeBps) <= InputAfterFee(dz, feeBps)
    BY MoreAfterFee
  <1>5. Output(x, y, InputAfterFee(dx, feeBps)) <= Output(x, y, InputAfterFee(dz, feeBps))
    BY <1>2, <1>3, <1>4, MoreInNeverLessOut
  <1> QED
    BY <1>5 DEF Quote
=============================================================================
