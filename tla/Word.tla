-------------------------------- MODULE Word --------------------------------
(***************************************************************************)
(* A 32 bit word as the set of the bits that are set in it, and ch_msb32() *)
(* of util.h, which finds the most significant one by halving.             *)
(***************************************************************************)
EXTENDS Integers

Bits == 0 .. 31

\* x >> n
ShiftRight(x, n) == {b \in Bits : b + n \in x}

\* The value of a word with no bit above the third.
Nibble(x) == (IF 0 \in x THEN 1 ELSE 0) + (IF 1 \in x THEN 2 ELSE 0)
             + (IF 2 \in x THEN 4 ELSE 0) + (IF 3 \in x THEN 8 ELSE 0)

bval == [i \in 0 .. 15 |-> IF i = 0 THEN 0
                           ELSE IF i = 1 THEN 1
                           ELSE IF i <= 3 THEN 2
                           ELSE IF i <= 7 THEN 3
                           ELSE 4]

\* One "if (x & mask) { r += n; x >>= n; }", where mask selects the n bits from
\* bit n on.
UpperHalfShort(x, n) == \E b \in x : n < b /\ b < 2 * n
UpperHalf(x, n)      == \E b \in x : n <= b /\ b < 2 * n

Halved(x, n) == IF UpperHalf(x, n) THEN ShiftRight(x, n) ELSE x
Gained(x, n) == IF UpperHalf(x, n) THEN n ELSE 0

ch_msb32(x) ==
    LET y == Halved(x, 16)
        z == Halved(y, 8)
        w == Halved(z, 4)
    IN  Gained(x, 16) + Gained(y, 8) + Gained(z, 4) + bval[Nibble(w)]
=============================================================================
