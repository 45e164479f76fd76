---------------------------------- MODULE Fpu ----------------------------------
(***************************************************************************)
(* The arithmetic of the x87, nemu/src/cpu/fpu.c: numbers with a sign, an  *)
(* exponent and a fraction, coded as one natural number, and the ring of   *)
(* eight registers.                                                        *)
(***************************************************************************)
EXTENDS Words

CONSTANTS
  EXPONENT, FRACTION,   \* bits of exponent and fraction: 8 and 23
  DIVIDEND              \* bits of a dividend: 64

ASSUME FloatAssumption ==
  /\ EXPONENT \in Nat \ {0} /\ FRACTION \in Nat \ {0, 1, 2}
  /\ DIVIDEND \in Nat /\ DIVIDEND >= 2 * FRACTION + 2   \* room for a product

MaxExponent == 2^EXPONENT - 1
Bias == 2^(EXPONENT - 1) - 1

P_ZERO_F == 0
N_ZERO_F == 2^(EXPONENT + FRACTION)
P_INF_F == MaxExponent * 2^FRACTION
N_INF_F == N_ZERO_F + P_INF_F
P_NAN_F == P_INF_F + 2^(FRACTION - 1)
N_NAN_F == N_ZERO_F + P_NAN_F
Zeros == {P_ZERO_F, N_ZERO_F}
Infinities == {P_INF_F, N_INF_F}
NaNs == {P_NAN_F, N_NAN_F}

SignOf(x) == x \div N_ZERO_F
ExponentOf(x) == (x \div 2^FRACTION) % 2^EXPONENT
FractionOf(x) == x % 2^FRACTION

\* With the hidden 1; a denormal has none, and the exponent of 1.
Significand(x) == FractionOf(x) + (IF ExponentOf(x) # 0 THEN 2^FRACTION ELSE 0)
Scale(x) == IF ExponentOf(x) = 0 THEN 1 ELSE ExponentOf(x)

Negated(x) == IF SignOf(x) = 1 THEN x - N_ZERO_F ELSE x + N_ZERO_F
Signs(a, b) == IF SignOf(a) = SignOf(b) THEN 0 ELSE N_ZERO_F

\* sig shifted right by k, its last bit the sticky one
Sticky(sig, k) ==
  LET q == sig \div 2^k
  IN  IF sig % 2^k # 0 /\ q % 2 = 0 THEN q + 1 ELSE q

-------------------------------------------------------------------------------
(* internal_normalize: sig has three bits more than a significand. *)

Hidden(sig) == sig \div 2^(FRACTION + 3)

\* To the nearest, and from the middle to the even one.
Rounded(sign, exp, sig) ==
  LET q == sig \div 8
      up == sig % 8 > 4 \/ (sig % 8 = 4 /\ q % 2 = 1)
      r == IF up THEN q + 1 ELSE q
      carried == r >= 2^(FRACTION + 1) /\ exp < MaxExponent
      e == IF carried THEN exp + 1 ELSE exp
      f == IF carried THEN r \div 2 ELSE r
  IN  sign * N_ZERO_F
        + (IF e >= MaxExponent THEN P_INF_F ELSE e * 2^FRACTION + (f % 2^FRACTION))

NormalizeRight(sign, exp, sig) ==
  LET On(k) == \/ Hidden(Sticky(sig, k)) > 1 /\ exp + k < MaxExponent
               \/ Sticky(sig, k) > 4 /\ exp + k < 0
      k == CHOOSE k \in 0 .. DIVIDEND + MaxExponent : ~On(k) /\ \A j \in 0 .. k - 1 : On(j)
      e == exp + k
  IN  CASE e >= MaxExponent -> sign * N_ZERO_F + P_INF_F
        [] e < 0 -> sign * N_ZERO_F
        [] e = 0 -> Rounded(sign, 0, Sticky(sig, k + 1))
        [] OTHER -> Rounded(sign, e, Sticky(sig, k))

NormalizeLeft(sign, exp, sig) ==
  LET k == CHOOSE k \in 0 .. exp :
             /\ Hidden(sig * 2^k) # 0 \/ k = exp
             /\ \A j \in 0 .. k - 1 : Hidden(sig * 2^j) = 0
  IN  IF k = exp THEN Rounded(sign, 0, Sticky(sig * 2^k, 1))
                 ELSE Rounded(sign, exp - k, sig * 2^k)

internal_normalize(sign, exp, sig) ==
  CASE Hidden(sig) > 1 \/ exp < 0 -> NormalizeRight(sign, exp, sig)
    [] Hidden(sig) = 0 /\ exp > 0 -> NormalizeLeft(sign, exp, sig)
    [] Hidden(sig) = 1 /\ exp = 0 -> Rounded(sign, 1, sig)
    [] OTHER -> Rounded(sign, exp, sig)

-------------------------------------------------------------------------------
(* The four operations: a + b, a - b, a * b, a / b *)

internal_float_add(b, a) ==
  CASE a \in Zeros /\ b \in Zeros -> IF a = b THEN a ELSE P_ZERO_F
    [] a \in Zeros /\ b \notin Zeros -> b
    [] a \notin Zeros /\ b \in Zeros -> a
    [] a \in Infinities /\ b = Negated(a) -> N_NAN_F
    [] a \in Infinities /\ b \in NaNs -> b
    [] a = N_NAN_F /\ b = P_NAN_F -> b
    [] OTHER ->
         IF ExponentOf(a) = MaxExponent THEN a
         ELSE IF ExponentOf(b) = MaxExponent THEN b
         ELSE LET low == IF ExponentOf(a) > ExponentOf(b) THEN b ELSE a
                  high == IF low = a THEN b ELSE a
                  Add(x, sig) == IF SignOf(x) = 1 THEN -sig ELSE sig
                  sum == Add(low, Sticky(8 * Significand(low), Scale(high) - Scale(low)))
                           + Add(high, 8 * Significand(high))
              IN  IF sum < 0 THEN internal_normalize(1, ExponentOf(high), -sum)
                             ELSE internal_normalize(0, ExponentOf(high), sum)

internal_float_sub(b, a) ==
  CASE a \in Zeros /\ b \in Zeros -> IF a = N_ZERO_F /\ b = P_ZERO_F THEN a ELSE P_ZERO_F
    [] a \in NaNs /\ b \in NaNs -> IF a = b THEN a ELSE P_NAN_F
    [] a \in NaNs /\ b \notin NaNs -> a
    [] a \notin NaNs /\ b \in NaNs -> b
    [] OTHER -> internal_float_add(Negated(b), a)

NaNOf(a, b) == IF P_NAN_F \in {a, b} THEN P_NAN_F ELSE N_NAN_F

internal_float_mul(b, a) ==
  LET Either(S) == a \in S \/ b \in S
  IN  CASE Either(Zeros) /\ Either(Infinities) -> N_NAN_F
        [] Either(NaNs) -> NaNOf(a, b)
        [] Either(Zeros) /\ ~Either(Infinities \cup NaNs) -> Signs(a, b)
        [] Either(Infinities) /\ ~Either(Zeros \cup NaNs) -> Signs(a, b) + P_INF_F
        [] OTHER -> internal_normalize(Signs(a, b) \div N_ZERO_F,
                      Scale(a) + Scale(b) - Bias - (FRACTION - 3), Significand(a) * Significand(b))

\* The dividend is shifted to the left end of its word, the divisor until it
\* is odd; the remainder of the division is dropped.
internal_float_div(b, a) ==
  LET left == CHOOSE k \in 0 .. DIVIDEND : Significand(a) * 2^k \in 2^(DIVIDEND - 1) .. 2^DIVIDEND - 1
      right == CHOOSE k \in 0 .. FRACTION : (Significand(b) \div 2^k) % 2 = 1 /\ Significand(b) % 2^k = 0
      quotient == (Significand(a) * 2^left) \div (Significand(b) \div 2^right)
  IN  CASE \/ {a, b} \subseteq Zeros \/ {a, b} \subseteq Infinities -> N_NAN_F
        [] a \in NaNs \/ b \in NaNs -> NaNOf(a, b)
        [] a \in Infinities /\ b \notin NaNs \cup Infinities -> Signs(a, b) + P_INF_F
        [] b \in Zeros /\ a \notin NaNs \cup Zeros -> Signs(a, b) + P_INF_F
        [] (a \in Zeros /\ b \notin NaNs \cup Zeros) \/ (b \in Infinities /\ a \notin NaNs \cup Infinities) -> Signs(a, b)
        [] OTHER -> internal_normalize(Signs(a, b) \div N_ZERO_F,
                      Scale(a) - Scale(b) + Bias - (left + right - (FRACTION + 3)), quotient)

-------------------------------------------------------------------------------
(* The ring of registers: f has stack and top, and ST(i) is i above top. *)

Slot(f, i) == (f.top + i) % 8
ST(f, i) == f.stack[Slot(f, i)]
SetST(f, i, v) == [f EXCEPT !.stack[Slot(f, i)] = v]

\* Mutant: the ring is not closed.
fpu_load_NoWrap(f, v) == SetST([f EXCEPT !.top = @ - 1], 0, v)
\* Mutant: the new top is taken before the old one was left.
fpu_load_AtTop(f, v) == [SetST(f, 0, v) EXCEPT !.top = (@ + 7) % 8]

fpu_load(f, v) ==
  LET g == [f EXCEPT !.top = IF @ = 0 THEN 7 ELSE @ - 1]
  IN  SetST(g, 0, v)

fpu_pop(f) == [f EXCEPT !.top = (@ + 1) % 8]

fpu_add_idx(f, idx, store_idx) == SetST(f, store_idx, internal_float_add(ST(f, idx), ST(f, 0)))
fpu_mul_idx(f, idx, store_idx) == SetST(f, store_idx, internal_float_mul(ST(f, idx), ST(f, 0)))
fpu_xch(f, idx) == SetST(SetST(f, 0, ST(f, idx)), idx, ST(f, 0))
fpu_copy(f, idx) == SetST(f, idx, ST(f, 0))

\* What the host's comparison of two numbers is made of: an integer that
\* grows with them.  NaNs are not compared.
Order(x) == IF SignOf(x) = 1 THEN N_ZERO_F - x ELSE x
Less(x, y) == Order(x) < Order(y)
================================================================================
