------------------------------ MODULE Numerals ------------------------------
(***************************************************************************)
(* How numbers are printed: fb_print_int and fb_print_hex (fb_console.c),  *)
(* and print_int and print_hex (utils.c), which do the same on the text    *)
(* screen of the VGA.  What is printed is the sequence of its digits.      *)
(***************************************************************************)
EXTENDS Integers, Sequences

CONSTANTS Width,          \* bits of an int                      (32)
          TopDivisor      \* the divisor the loop begins with    (1000000000)

ASSUME WidthAssumption ==
  /\ Width % 4 = 0 /\ TopDivisor \in Nat \ {0}
  /\ TopDivisor * 10 > 2 ^ Width - 1

\* (unsigned)(-num), of the most negative number as well: its negation wraps to
\* itself, and read as unsigned it is its magnitude.
Magnitude(num) == IF num < 0 THEN (- num) % 2 ^ Width ELSE num

NonZero(digit, started, divisor) == digit # 0 \/ started     \* mutant: 0 is ""
Printed(digit, started, divisor) == digit # 0 \/ started \/ divisor = 1

\* The loop over the divisors, from the highest digit.
RECURSIVE DecimalDigits(_, _, _)
DecimalDigits(unum, divisor, started) ==
  IF divisor = 0 THEN <<>>
  ELSE LET digit == (unum \div divisor) % 256
           now == Printed(digit, started, divisor)
       IN  (IF now THEN <<digit>> ELSE <<>>)
             \o DecimalDigits(unum % divisor, divisor \div 10, now)

\* What print_int prints, sign first.
PrintInt(num) ==
  [sign |-> num < 0, digits |-> DecimalDigits(Magnitude(num), TopDivisor, FALSE)]

\* What print_hex prints after "0x": every nibble, from the highest.
PrintHex(num) ==
  [i \in 1 .. Width \div 4 |-> (num \div 2 ^ (Width - 4 * i)) % 16]

=============================================================================
