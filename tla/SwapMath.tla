------------------------------ MODULE SwapMath ------------------------------
(***************************************************************************)
(* The quotes of src/velocity-sniper/src/swap_calculator.rs.               *)
(* calculate_swap (SOL in, tokens out) and calculate_sell (tokens in, SOL  *)
(* out) are the same function of the reserve the input goes to and the     *)
(* reserve the output comes from.  Products are u128 and fit; what is cast *)
(* back to u64 is taken modulo Width.                                      *)
(***************************************************************************)
EXTENDS Integers

(* 2^64.                                                                   *)
Width == 18446744073709551616

(* All of the input, in basis points, and the most that a u16 can say.     *)
AllBps == 10000
U16Max == 65535

U64 == 0..(Width - 1)
U16 == 0..U16Max

AsU64(n) == n % Width

SaturatingSub(a, b) == IF b > a THEN 0 ELSE a - b

Fee(input, feeBps) == (input * feeBps) \div AllBps

InputAfterFee(input, feeBps) == SaturatingSub(input, AsU64(Fee(input, feeBps)))

(* What is left of the reserve the output comes from.                      *)
NewReserve(reserveIn, reserveOut, dx) == (reserveIn * reserveOut) \div (reserveIn + dx)

Output(reserveIn, reserveOut, dx) ==
    SaturatingSub(reserveOut, AsU64(NewReserve(reserveIn, reserveOut, dx)))

(* The division panics when nothing is in the pool and nothing comes in.   *)
Panics(reserveIn, dx, feeBps) == reserveIn + InputAfterFee(dx, feeBps) = 0

(* SwapQuote: what it says of amounts.                                     *)
Quote(reserveIn, reserveOut, dx, feeBps) ==
    [input    |-> dx,
     fee      |-> AsU64(Fee(dx, feeBps)),
     afterFee |-> InputAfterFee(dx, feeBps),
     output   |-> Output(reserveIn, reserveOut, InputAfterFee(dx, feeBps))]

-----------------------------------------------------------------------------
(* Reference: reserveOut * dx / (reserveIn + dx), rounded up.              *)
RoundsUp(output, reserveIn, reserveOut, dx) ==
    /\ reserveOut * dx <= output * (reserveIn + dx)
    /\ (output - 1) * (reserveIn + dx) < reserveOut * dx

(* Reference: feeBps of the input, rounded down.                           *)
RoundsDown(fee, input, feeBps) ==
    /\ fee * AllBps <= input * feeBps
    /\ input * feeBps < (fee + 1) * AllBps
=============================================================================
