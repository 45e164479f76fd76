--------------------------------- MODULE Words ---------------------------------
(* Machine words as natural numbers: their bits, their signs, their parts.    *)
EXTENDS Integers, FiniteSets, FiniteSetsExt

Bits(x, n) == {k \in 0 .. n - 1 : (x \div 2^k) % 2 = 1}
\* The number of n bits that has these.
Number(bits, n) ==
  LET low[k \in 0 .. n] ==
        IF k = 0 THEN 0 ELSE low[k - 1] + (IF k - 1 \in bits THEN 2^(k - 1) ELSE 0)
  IN  low[n]

Bit(test) == IF test THEN 1 ELSE 0

\* The n bits of x as a signed number.
Signed(x, n) == IF x >= 2^(n - 1) THEN x - 2^n ELSE x

\* x with its n bits from bit lo on replaced by those of v
Put(x, lo, n, v) == x + ((v % 2^n) - ((x \div 2^lo) % 2^n)) * 2^lo

\* Division as C and the processor do it, towards zero
Quotient(x, y) ==
  LET q == (IF x < 0 THEN -x ELSE x) \div (IF y < 0 THEN -y ELSE y)
  IN  IF (x < 0) = (y < 0) THEN q ELSE -q
Remainder(x, y) == x - y * Quotient(x, y)
================================================================================
