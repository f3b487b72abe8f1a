------------------------------- MODULE Widths -------------------------------
(***************************************************************************)
(* Integers of a fixed width, as the machine has them: the number n in b   *)
(* bits, with and without a sign, and the tests of internal/reflect for    *)
(* numbers that do not fit.                                                *)
(***************************************************************************)
EXTENDS Integers

(* Powers of two.                                                          *)
Two[k \in Nat] == IF k = 0 THEN 1 ELSE 2 * Two[k - 1]

Unsigned(n, b) == n % Two[b]
Signed(n, b)   == ((n + Two[b - 1]) % Two[b]) - Two[b - 1]

(* x << k and x >> k on words of w bits.                                   *)
ShiftLeft(x, k, w, signed) == IF signed THEN Signed(x * Two[k], w) ELSE Unsigned(x * Two[k], w)
ShiftRight(x, k)           == x \div Two[k]

(* OverflowInt and OverflowUint of a type of b bits: shift up and down,    *)
(* and compare.  The mistake shifts a signed number as if it had no sign.  *)
OverflowBare(x, b, w, signed) == x # ShiftRight(ShiftLeft(x, w - b, w, FALSE), w - b)
Overflow(x, b, w, signed)     == x # ShiftRight(ShiftLeft(x, w - b, w, signed), w - b)

(* The numbers of b bits.                                                  *)
Numbers(b, signed) == IF signed THEN -(Two[b - 1])..(Two[b - 1] - 1) ELSE 0..(Two[b] - 1)
=============================================================================
