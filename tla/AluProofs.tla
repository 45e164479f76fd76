------------------------------ MODULE AluProofs ------------------------------
(***************************************************************************)
(* Proofs about Alu, for a byte of any width and operands of any size: the *)
(* sums and differences, with their flags, are those of integers.          *)
(*                                                                         *)
(* Why: a number of n bits goes through a long with its sign, and sign     *)
(* extension keeps the order of what it extends; so the comparisons of     *)
(* extended results that alu.c makes tell when the exact result has left   *)
(* its n bits.  The rest is remainders and powers of two.                  *)
(***************************************************************************)
EXTENDS Alu, FiniteSetTheorems, WellFoundedInduction, TLAPS

\* Induction, with a set for the property: no instance of an operator is needed.
LEMMA SetInduction ==
  ASSUME NEW S, 0 \in S, \A n \in Nat : n \in S => n + 1 \in S
  PROVE  Nat \subseteq S
  <1> SUFFICES ASSUME NEW m \in Nat \ S PROVE FALSE
    OBVIOUS
  <1> DEFINE J == Nat \ S
  <1>1. PICK x \in J : \A y \in J : ~(<<y, x>> \in OpToRel(<, Nat))
    BY NatLessThanWellFounded, WFMin
  <1>2. x # 0 /\ x - 1 \in Nat
    OBVIOUS
  <1>3. x - 1 \in J
    BY <1>2
  <1>4. <<x - 1, x>> \in OpToRel(<, Nat)
    BY <1>2 DEF OpToRel
  <1> QED
    BY <1>1, <1>3, <1>4

-------------------------------------------------------------------------------
(* Powers of two count the subsets of a set: that is all the provers are told of ^. *)

\* A set of n has 2^n subsets.
LEMMA Subsets ==
  ASSUME NEW n \in Nat
  PROVE  IsFiniteSet(SUBSET (1 .. n)) /\ Cardinality(SUBSET (1 .. n)) = 2^n /\ 2^n \in Nat \ {0}
  <1>1. IsFiniteSet(1 .. n) /\ Cardinality(1 .. n) = n
    <2>1. Cardinality(1 .. n) = IF 1 > n THEN 0 ELSE n - 1 + 1
      BY FS_Interval
    <2> QED
      BY <2>1, FS_Interval
  <1>2. IsFiniteSet(SUBSET (1 .. n)) /\ Cardinality(SUBSET (1 .. n)) = 2^n
    BY <1>1, FS_SUBSET
  <1>3. 2^n \in Nat
    BY <1>2, FS_CardinalityType
  <1>4. 2^n # 0
    <2>1. SUBSET (1 .. n) # {}
      OBVIOUS
    <2> QED
      BY <2>1, <1>2, FS_EmptySet
  <1> QED
    BY <1>2, <1>3, <1>4

\* The power of zero
LEMMA PowerZero == 2^0 = 1
  <1>1. Cardinality(SUBSET (1 .. 0)) = 2^0
    BY Subsets
  <1>2. SUBSET (1 .. 0) = {{}}
    OBVIOUS
  <1>3. Cardinality({{}}) = 1
    BY FS_Singleton
  <1> QED
    BY <1>1, <1>2, <1>3

\* A further element doubles the subsets.
LEMMA PowerStep == ASSUME NEW n \in Nat PROVE 2^(n + 1) = 2 * 2^n
  <1> DEFINE x == n + 1
             A == SUBSET (1 .. n)
             B == {T \cup {x} : T \in A}
             f == [T \in A |-> T \cup {x}]
  <1>1. x \notin 1 .. n /\ 1 .. x = (1 .. n) \cup {x} /\ x \in Nat
    OBVIOUS
  <1> HIDE DEF x
  <1>2. f \in Bijection(A, B)
    <2>1. f \in Surjection(A, B)
      BY DEF Surjection
    <2>2. \A S, T \in A : f[S] = f[T] => S = T
      <3> SUFFICES ASSUME NEW S \in A, NEW T \in A, f[S] = f[T] PROVE S = T
        OBVIOUS
      <3>1. S \cup {x} = T \cup {x} /\ x \notin S /\ x \notin T
        BY <1>1
      <3> HIDE DEF f
      <3> QED
        BY <3>1
    <2> HIDE DEF A, B, f
    <2> QED
      BY <2>1, <2>2 DEF Bijection, Injection, Surjection, IsInjective
  <1>3. IsFiniteSet(A) /\ Cardinality(A) = 2^n /\ 2^n \in Nat
    BY Subsets
  <1>4. IsFiniteSet(B) /\ Cardinality(B) = 2^n
    <2> HIDE DEF A, B, f
    <2> QED
      BY <1>2, <1>3, FS_Bijection DEF ExistsBijection
  <1>5. SUBSET (1 .. x) = A \cup B
    <2>1. ASSUME NEW T \in SUBSET (1 .. x) PROVE T \in A \cup B
      <3>1. CASE x \in T
        <4>1. T \ {x} \in A /\ (T \ {x}) \cup {x} = T
          BY <1>1, <3>1
        <4> QED
          BY <4>1
      <3>2. CASE x \notin T
        BY <1>1, <3>2
      <3> QED
        BY <3>1, <3>2
    <2>2. ASSUME NEW T \in A \cup B PROVE T \in SUBSET (1 .. x)
      BY <1>1
    <2> HIDE DEF A, B
    <2> QED
      BY <2>1, <2>2
  <1>6. A \cap B = {}
    BY <1>1
  <1>7. Cardinality(A \cup B) = 2^n + 2^n
    <2> HIDE DEF A, B
    <2>1. Cardinality(A \cap B) = 0
      BY <1>6, FS_EmptySet
    <2>2. Cardinality(A \cup B) = Cardinality(A) + Cardinality(B) - Cardinality(A \cap B)
      BY <1>3, <1>4, FS_Union
    <2> QED
      BY <2>1, <2>2, <1>3, <1>4
  <1>8. Cardinality(SUBSET (1 .. x)) = 2^x
    BY <1>1, Subsets
  <1>9. 2^x = 2 * 2^n
    <2>1. 2^x = 2^n + 2^n
      <3> HIDE DEF A, B
      <3> QED
        BY <1>5, <1>7, <1>8
    <2> QED
      BY <2>1, <1>3
  <1> QED
    BY <1>9 DEF x

\* Powers multiply.
LEMMA PowerSum ==
  ASSUME NEW m \in Nat, NEW n \in Nat
  PROVE  2^(m + n) = 2^m * 2^n
  <1> DEFINE S == {k \in Nat : 2^(m + k) = 2^m * 2^k}
  <1>0. 2^m \in Nat
    BY Subsets
  <1>1. 0 \in S
    BY PowerZero, <1>0
  <1>2. ASSUME NEW k \in Nat, k \in S PROVE k + 1 \in S
    <2>1. 2^(m + k) = 2^m * 2^k /\ 2^k \in Nat
      BY <1>2, Subsets
    <2>2. 2^((m + k) + 1) = 2 * 2^(m + k) /\ 2^(k + 1) = 2 * 2^k
      BY PowerStep
    <2>3. (m + k) + 1 = m + (k + 1)
      OBVIOUS
    <2>4. 2 * (2^m * 2^k) = 2^m * (2 * 2^k)
      BY <2>1, <1>0
    <2>5. 2^(m + (k + 1)) = 2^m * 2^(k + 1)
      BY <2>1, <2>2, <2>3, <2>4
    <2> QED
      BY <2>5
  <1>3. Nat \subseteq S
    <2> HIDE DEF S
    <2> QED
      BY <1>1, <1>2, SetInduction
  <1> QED
    BY <1>3

-------------------------------------------------------------------------------
(* Division *)

\* Quotient and remainder
LEMMA DivMod ==
  ASSUME NEW a \in Int, NEW w \in Nat \ {0}
  PROVE  a = w * (a \div w) + (a % w) /\ a % w \in 0 .. w - 1 /\ a \div w \in Int
  OBVIOUS

\* Those of a natural number are natural.
LEMMA NatDivMod ==
  ASSUME NEW a \in Nat, NEW w \in Nat \ {0}
  PROVE  a = w * (a \div w) + (a % w) /\ a % w \in 0 .. w - 1 /\ a \div w \in Nat
  <1> DEFINE k == a \div w
             r == a % w
  <1>1. a = w * k + r /\ r \in 0 .. w - 1 /\ k \in Int
    BY DivMod
  <1> HIDE DEF k, r
  <1>2. ASSUME k < 0 PROVE FALSE
    <2>1. w * k =< w * (-1)
      BY <1>1, <1>2
    <2> QED
      BY <1>1, <2>1
  <1> QED
    BY <1>1, <1>2 DEF k, r

\* Quotient and remainder are the only ones.
LEMMA Division ==
  ASSUME NEW a \in Int, NEW w \in Nat \ {0}, NEW k \in Int, NEW r \in 0 .. w - 1,
         a = w * k + r
  PROVE  a % w = r /\ a \div w = k
  <1> DEFINE s == a % w
             d == a \div w
  <1>1. a = w * d + s /\ s \in 0 .. w - 1 /\ d \in Int
    BY DivMod
  <1> HIDE DEF s, d
  <1>2. w * (d - k) = r - s
    BY <1>1
  <1>3. d - k = 0
    <2>1. CASE d - k >= 1
      <3>1. w * (d - k) >= w
        BY <2>1, <1>1
      <3> QED
        BY <3>1, <1>1, <1>2
    <2>2. CASE d - k =< -1
      <3>1. w * (d - k) =< -w
        BY <2>2, <1>1
      <3> QED
        BY <3>1, <1>1, <1>2
    <2> QED
      BY <2>1, <2>2, <1>1
  <1> QED
    BY <1>1, <1>3 DEF s, d

\* A number below w is its own remainder.
LEMMA ModSmall ==
  ASSUME NEW w \in Nat \ {0}, NEW a \in 0 .. w - 1
  PROVE  a % w = a /\ a \div w = 0
  BY Division, a = w * 0 + a

\* Multiples of w do not change the remainder.
LEMMA ModShift ==
  ASSUME NEW a \in Int, NEW w \in Nat \ {0}, NEW k \in Int
  PROVE  (a + w * k) % w = a % w
  <1> DEFINE s == a % w
             d == a \div w
  <1>1. a = w * d + s /\ s \in 0 .. w - 1 /\ d \in Int
    BY DivMod
  <1> HIDE DEF s, d
  <1>2. a + w * k = w * (d + k) + s /\ d + k \in Int /\ a + w * k \in Int
    BY <1>1
  <1>3. (a + w * k) % w = s
    BY <1>1, <1>2, Division
  <1> QED
    BY <1>3 DEF s

\* A remainder of a multiple of w loses nothing modulo w.
LEMMA ModMod ==
  ASSUME NEW a \in Int, NEW w \in Nat \ {0}, NEW q \in Nat \ {0}
  PROVE  (a % (w * q)) % w = a % w
  <1> DEFINE p == w * q
             s == a % p
             d == a \div p
  <1>0. p \in Nat \ {0}
    OBVIOUS
  <1>1. a = p * d + s /\ s \in Int /\ d \in Int
    <2> HIDE DEF p
    <2> QED
      BY <1>0, DivMod
  <1> HIDE DEF s, d
  <1>2. a = s + w * (q * d) /\ q * d \in Int
    BY <1>1
  <1>3. (s + w * (q * d)) % w = s % w
    BY <1>1, <1>2, ModShift
  <1> QED
    BY <1>2, <1>3 DEF s, p

\* Remainders may be taken before a sum or after it.
LEMMA ModDifference ==
  ASSUME NEW a \in Int, NEW b \in Int, NEW w \in Nat \ {0}
  PROVE  /\ (a - b) % w = ((a % w) - (b % w)) % w
         /\ (a + b) % w = ((a % w) + (b % w)) % w
  <1> DEFINE x == a % w
             y == b % w
             c == a \div w
             d == b \div w
  <1>1. a = w * c + x /\ x \in Int /\ c \in Int
    BY DivMod
  <1>2. b = w * d + y /\ y \in Int /\ d \in Int
    BY DivMod
  <1> HIDE DEF x, y, c, d
  <1>3. a - b = (x - y) + w * (c - d) /\ a + b = (x + y) + w * (c + d)
        /\ x - y \in Int /\ x + y \in Int /\ c - d \in Int /\ c + d \in Int
    BY <1>1, <1>2
  <1>4. (a - b) % w = (x - y) % w
    <2> DEFINE u == x - y
               k == c - d
    <2>1. u \in Int /\ k \in Int /\ a - b = u + w * k
      BY <1>3
    <2> HIDE DEF u, k
    <2>2. (u + w * k) % w = u % w
      BY <2>1, ModShift
    <2> QED
      BY <2>1, <2>2 DEF u
  <1>5. (a + b) % w = (x + y) % w
    <2> DEFINE u == x + y
               k == c + d
    <2>1. u \in Int /\ k \in Int /\ a + b = u + w * k
      BY <1>3
    <2> HIDE DEF u, k
    <2>2. (u + w * k) % w = u % w
      BY <2>1, ModShift
    <2> QED
      BY <2>1, <2>2 DEF u
  <1> QED
    BY <1>4, <1>5 DEF x, y

\* The remainder of what has left its width by less than that width
LEMMA Wrapped ==
  ASSUME NEW w \in Nat \ {0}, NEW a \in -w .. 2 * w - 1
  PROVE  a % w = IF a < 0 THEN a + w ELSE IF a < w THEN a ELSE a - w
  <1>1. CASE a < 0
    <2>1. a = w * (-1) + (a + w) /\ a + w \in 0 .. w - 1
      BY <1>1
    <2>2. a % w = a + w
      BY <2>1, Division
    <2> QED
      BY <2>2, <1>1
  <1>2. CASE a >= 0 /\ a < w
    <2>1. a \in 0 .. w - 1
      BY <1>2
    <2> QED
      BY <2>1, <1>2, ModSmall
  <1>3. CASE a >= w
    <2>1. a = w * 1 + (a - w) /\ a - w \in 0 .. w - 1
      BY <1>3
    <2>2. a % w = a - w
      BY <2>1, Division
    <2> QED
      BY <2>2, <1>3
  <1> QED
    BY <1>1, <1>2, <1>3

-------------------------------------------------------------------------------
(* Widths: 2^n numbers of n bits, half of them negative. *)

\* A long is the widest of the sizes.
LEMMA LongIs == LONG \in Nat /\ LONG >= 1 /\ BYTE \in 1 .. LONG /\ WORD \in 1 .. LONG
  BY ByteAssumption DEF LONG, WORD

\* n bits: two halves, and a part of a long
LEMMA Widths ==
  ASSUME NEW n \in 1 .. LONG
  PROVE  /\ 2^n \in Nat \ {0} /\ 2^(n - 1) \in Nat \ {0} /\ 2^n = 2 * 2^(n - 1)
         /\ 2^LONG \in Nat \ {0} /\ 2^(LONG - 1) \in Nat \ {0} /\ 2^LONG = 2 * 2^(LONG - 1)
         /\ 2^(LONG - n) \in Nat \ {0} /\ 2^LONG = 2^n * 2^(LONG - n)
         /\ 2^n =< 2^LONG
  <1>0. n \in Nat /\ n - 1 \in Nat /\ LONG \in Nat /\ LONG - 1 \in Nat /\ LONG - n \in Nat
        /\ (n - 1) + 1 = n /\ (LONG - 1) + 1 = LONG /\ n + (LONG - n) = LONG
    BY LongIs
  <1>1. 2^n \in Nat \ {0} /\ 2^(n - 1) \in Nat \ {0} /\ 2^LONG \in Nat \ {0}
        /\ 2^(LONG - 1) \in Nat \ {0} /\ 2^(LONG - n) \in Nat \ {0}
    BY <1>0, Subsets
  <1>2. 2^((n - 1) + 1) = 2 * 2^(n - 1)
    BY <1>0, PowerStep
  <1>3. 2^((LONG - 1) + 1) = 2 * 2^(LONG - 1)
    BY <1>0, PowerStep
  <1>4. 2^(n + (LONG - n)) = 2^n * 2^(LONG - n)
    BY <1>0, PowerSum
  <1>5. 2^LONG = 2^n * 2^(LONG - n)
    BY <1>0, <1>4
  <1>6. 2^n =< 2^LONG
    <2> DEFINE w == 2^n
               q == 2^(LONG - n)
    <2>1. w \in Nat \ {0} /\ q \in Nat \ {0} /\ 2^LONG = w * q
      BY <1>1, <1>5
    <2> HIDE DEF w, q
    <2>2. w =< w * q
      BY <2>1
    <2> QED
      BY <2>1, <2>2 DEF w
  <1> QED
    BY <1>0, <1>1, <1>2, <1>3, <1>5, <1>6

\* What C leaves in a long
LEMMA InLong ==
  ASSUME NEW x \in Int
  PROVE  x % 2^LONG \in Longs /\ x % 2^LONG \in Int
  <1> DEFINE l == 2^LONG
  <1>1. l \in Nat \ {0}
    BY LongIs, Subsets
  <1> HIDE DEF l
  <1>2. x % l \in 0 .. l - 1
    BY <1>1, DivMod
  <1>3. x % l \in Int
    BY <1>1, <1>2
  <1> QED
    BY <1>2, <1>3 DEF l, Longs

\* The low n bits, of a number or of what a long keeps of it
LEMMA MaskIs ==
  ASSUME NEW n \in 1 .. LONG, NEW x \in Int
  PROVE  Mask(x, n) \in 0 .. 2^n - 1 /\ Mask(x % 2^LONG, n) = Mask(x, n)
  <1>1. 2^n \in Nat \ {0} /\ 2^(LONG - n) \in Nat \ {0} /\ 2^LONG = 2^n * 2^(LONG - n)
    BY Widths
  <1> DEFINE w == 2^n
             q == 2^(LONG - n)
  <1>2. w \in Nat \ {0} /\ q \in Nat \ {0} /\ 2^LONG = w * q
    BY <1>1
  <1> HIDE DEF w, q
  <1>3. x % w \in 0 .. w - 1 /\ (x % (w * q)) % w = x % w
    BY <1>2, DivMod, ModMod
  <1> QED
    BY <1>2, <1>3 DEF Mask, w

\* What sign_ext makes of the low n bits
Half(n) == 2^(n - 1)
Raised(low, n) == IF low >= 2^(n - 1) THEN low + 2^LONG - 2^n ELSE low

\* sign_ext keeps the n bits, fills the others with their sign, and so the sign of
\* the long is that of the n bits.
LEMMA SignExtIs ==
  ASSUME NEW n \in 1 .. LONG, NEW x \in Int
  PROVE  /\ SignExt(x, n) = Raised(Mask(x, n), n)
         /\ SignExt(x, n) \in 0 .. 2^LONG - 1
         /\ Mask(SignExt(x, n), n) = Mask(x, n)
         /\ Sign(SignExt(x, n)) = Bit(Mask(x, n) >= 2^(n - 1))
  <1> DEFINE w == 2^n
             h == 2^(n - 1)
             g == 2^(LONG - 1)
             l == 2^LONG
             q == 2^(LONG - n)
             a == Mask(x, n)
             e == SignExt(x, n)
  <1>1. /\ w \in Nat \ {0} /\ h \in Nat \ {0} /\ w = 2 * h /\ l \in Nat \ {0} /\ g \in Nat \ {0}
        /\ l = 2 * g /\ w =< l /\ q \in Nat \ {0} /\ l = w * q
    BY Widths
  <1>2. a \in 0 .. w - 1 /\ a % w = a
    <2>1. a \in 0 .. w - 1
      BY MaskIs
    <2> HIDE DEF a, w
    <2> QED
      BY <2>1, <1>1, ModSmall
  <1>3. e = IF a >= h THEN a + l - w ELSE a
    BY DEF SignExt
  <1>4. e = Raised(a, n)
    BY DEF SignExt, Raised
  <1> HIDE DEF a, e, w, h, g, l, q
  <1>5. e \in 0 .. l - 1 /\ (a >= h => e >= g) /\ (a < h => e < g)
    BY <1>1, <1>2, <1>3
  <1>6. e % w = a
    <2>1. e = a + w * (IF a >= h THEN q - 1 ELSE 0)
      BY <1>1, <1>2, <1>3
    <2> DEFINE k == IF a >= h THEN q - 1 ELSE 0
    <2>2. e = a + w * k /\ k \in Int /\ a \in Int
      BY <2>1, <1>1, <1>2
    <2> HIDE DEF k
    <2>3. (a + w * k) % w = a % w
      BY <2>2, <1>1, ModShift
    <2> QED
      BY <2>2, <2>3, <1>2
  <1>7. e \div g = IF a >= h THEN 1 ELSE 0
    <2>1. CASE a >= h
      <3>1. e = g * 1 + (e - g) /\ e - g \in 0 .. g - 1 /\ e \in Int
        BY <2>1, <1>1, <1>5
      <3>2. e \div g = 1
        BY <3>1, <1>1, Division
      <3> QED
        BY <3>2, <2>1
    <2>2. CASE a < h
      <3>1. e \in 0 .. g - 1
        BY <2>2, <1>1, <1>2, <1>5
      <3>2. e \div g = 0
        BY <3>1, <1>1, ModSmall
      <3> QED
        BY <3>2, <2>2, <1>1, <1>2
    <2> QED
      BY <2>1, <2>2, <1>1, <1>2
  <1> QED
    BY <1>4, <1>5, <1>6, <1>7 DEF a, e, w, h, g, l, Mask, Sign, Bit

-------------------------------------------------------------------------------
(* Bits *)

\* A bit below n is that of the low n bits.
LEMMA BitOfMod ==
  ASSUME NEW n \in Nat, NEW k \in 0 .. n - 1, NEW x \in Int
  PROVE  ((x % 2^n) \div 2^k) % 2 = (x \div 2^k) % 2
  <1> DEFINE w == 2^n
             p == 2^k
             m == 2^(n - k - 1)
             a == x % w
             d == x \div w
             e == a \div p
             r == a % p
  <1>0. w \in Nat \ {0}
    BY Subsets
  <1>1. w = p * (2 * m) /\ w \in Nat \ {0} /\ p \in Nat \ {0} /\ m \in Nat \ {0}
    <2>1. k \in Nat /\ n - k - 1 \in Nat /\ (n - k - 1) + 1 \in Nat /\ k + ((n - k - 1) + 1) = n
      OBVIOUS
    <2>2. 2^((n - k - 1) + 1) = 2 * m
      BY <2>1, PowerStep
    <2>3. 2^(k + ((n - k - 1) + 1)) = p * 2^((n - k - 1) + 1)
      BY <2>1, PowerSum
    <2>4. w \in Nat \ {0} /\ p \in Nat \ {0} /\ m \in Nat \ {0}
      BY <2>1, Subsets
    <2> QED
      BY <2>1, <2>2, <2>3, <2>4
  <1> HIDE DEF w, p, m
  <1> HIDE DEF e, r
  <1>2. x = w * d + a /\ a \in Int /\ d \in Int
    BY <1>0, DivMod
  <1> HIDE DEF a, d
  <1>3. a = p * e + r /\ r \in 0 .. p - 1 /\ e \in Int
    BY <1>1, <1>2, DivMod DEF e, r
  <1>4. x = p * (e + 2 * (m * d)) + r /\ e + 2 * (m * d) \in Int /\ m * d \in Int
    <2>1. m * d \in Int /\ w * d = p * (2 * (m * d))
      BY <1>1, <1>2
    <2> DEFINE z == m * d
    <2>2. z \in Int /\ x = p * (2 * z) + (p * e + r)
      BY <2>1, <1>2, <1>3
    <2> HIDE DEF z
    <2>3. p * (e + 2 * z) = p * e + p * (2 * z)
      BY <2>2, <1>1, <1>3
    <2>4. x = p * (e + 2 * z) + r /\ e + 2 * z \in Int
      BY <2>2, <2>3, <1>1, <1>3
    <2> QED
      BY <2>1, <2>4 DEF z
  <1>5. x \div p = e + 2 * (m * d)
    <2> DEFINE z == e + 2 * (m * d)
    <2>1. z \in Int /\ x = p * z + r
      BY <1>4
    <2> HIDE DEF z
    <2>2. x \div p = z
      BY <2>1, <1>1, <1>3, Division
    <2> QED
      BY <2>2 DEF z
  <1>6. (e + 2 * (m * d)) % 2 = e % 2
    BY <1>3, <1>4, ModShift
  <1> QED
    BY <1>5, <1>6 DEF e, a, w, p

\* set_PF looks at bits that every size has.
LEMMA BitsOfMask ==
  ASSUME NEW n \in BYTE .. LONG, NEW x \in Int
  PROVE  Bits(Mask(x, n), BYTE) = Bits(x, BYTE)
  <1>1. n \in Nat /\ \A k \in 0 .. BYTE - 1 : k \in 0 .. n - 1
    BY LongIs
  <1>2. \A k \in 0 .. BYTE - 1 : ((x % 2^n) \div 2^k) % 2 = (x \div 2^k) % 2
    BY <1>1, BitOfMod
  <1> QED
    BY <1>2 DEF Bits, Mask

-------------------------------------------------------------------------------
(* Flags *)

\* What the i386 makes of a result of n bits
FlagsOf(res, n, carry, overflow) ==
  [CF |-> carry, OF |-> overflow, ZF |-> Bit(res = 0),
   SF |-> Bit(Signed(res, n) < 0), PF |-> Bit(Cardinality(Bits(res, BYTE)) % 2 = 0)]

\* What it makes are flags.
LEMMA FlagsTyped ==
  ASSUME NEW res, NEW n, NEW carry \in {0, 1}, NEW overflow \in {0, 1}
  PROVE  FlagsOf(res, n, carry, overflow) \in FlagRecords
  BY DEF FlagsOf, FlagRecords, Bit

\* Flags are equal when each of them is.
LEMMA SameFlags ==
  ASSUME NEW f \in FlagRecords, NEW g \in FlagRecords,
         f.CF = g.CF, f.PF = g.PF, f.ZF = g.ZF, f.SF = g.SF, f.OF = g.OF
  PROVE  f = g
  BY DEF FlagRecords

\* The flags an operation of alu.c leaves
Left(f, x, n, carry, overflow) ==
  [ResultFlags(f, x, n) EXCEPT !.CF = carry, !.OF = overflow]

\* set_PF, set_ZF and set_SF see of a long what the i386 sees of its n bits.
LEMMA ResultFlagsIs ==
  ASSUME NEW f \in FlagRecords, NEW x \in Int, NEW n \in BYTE .. LONG,
         NEW carry \in {0, 1}, NEW overflow \in {0, 1}
  PROVE  Left(f, x, n, carry, overflow) = FlagsOf(Mask(x, n), n, carry, overflow)
  <1> DEFINE a == Mask(x, n)
             h == 2^(n - 1)
             w == 2^n
             pf == Bit(Cardinality(Bits(x, BYTE)) % 2 = 0)
             zf == Bit(a = 0)
             sf == Bit(Signed(a, n) < 0)
  <1>0. n \in 1 .. LONG
    BY ByteAssumption
  <1>1. w = 2 * h /\ h \in Nat \ {0} /\ w \in Nat \ {0} /\ a \in 0 .. w - 1
    BY <1>0, Widths, MaskIs
  <1>2. Bits(a, BYTE) = Bits(x, BYTE)
    BY BitsOfMask
  <1>3. (a \div h) % 2 = sf
    <2> HIDE DEF a, w, h
    <2>1. CASE a >= h
      <3>1. a = h * 1 + (a - h) /\ a - h \in 0 .. h - 1 /\ a \in Int
        BY <2>1, <1>1
      <3>2. a \div h = 1
        BY <3>1, <1>1, Division
      <3> QED
        BY <3>2, <2>1, <1>1 DEF Signed, Bit, w, h
    <2>2. CASE a < h
      <3>1. a \in 0 .. h - 1
        BY <2>2, <1>1
      <3>2. a \div h = 0
        BY <3>1, <1>1, ModSmall
      <3>3. ~(a >= h) /\ ~(a < 0)
        BY <2>2, <1>1
      <3> QED
        BY <3>2, <3>3 DEF Signed, Bit, w, h
    <2> QED
      BY <2>1, <2>2, <1>1
  <1>4. ResultFlags(f, x, n) = [f EXCEPT !.PF = pf, !.ZF = zf, !.SF = sf]
    BY <1>3 DEF ResultFlags
  <1>5. FlagsOf(a, n, carry, overflow) =
          [CF |-> carry, OF |-> overflow, ZF |-> zf, SF |-> sf, PF |-> pf]
    BY <1>2 DEF FlagsOf
  <1> HIDE DEF pf, zf, sf, a, h, w
  <1>6. [[f EXCEPT !.PF = pf, !.ZF = zf, !.SF = sf]
           EXCEPT !.CF = carry, !.OF = overflow] =
        [CF |-> carry, OF |-> overflow, ZF |-> zf, SF |-> sf, PF |-> pf]
    <2> DEFINE g == [f EXCEPT !.PF = pf, !.ZF = zf, !.SF = sf]
               l == [CF |-> carry, OF |-> overflow, ZF |-> zf, SF |-> sf, PF |-> pf]
    <2>1. pf \in {0, 1} /\ zf \in {0, 1} /\ sf \in {0, 1}
      BY DEF Bit, pf, zf, sf
    <2>2. g \in FlagRecords /\ g.PF = pf /\ g.ZF = zf /\ g.SF = sf
      BY <2>1 DEF FlagRecords
    <2> HIDE DEF g
    <2> DEFINE h2 == [g EXCEPT !.CF = carry, !.OF = overflow]
    <2>3. h2 \in FlagRecords /\ h2.CF = carry /\ h2.OF = overflow /\ h2.PF = pf /\ h2.ZF = zf /\ h2.SF = sf
      BY <2>1, <2>2 DEF FlagRecords
    <2>4. l \in FlagRecords /\ l.CF = carry /\ l.OF = overflow /\ l.PF = pf /\ l.ZF = zf /\ l.SF = sf
      BY <2>1 DEF FlagRecords
    <2> HIDE DEF h2, l
    <2>5. h2 = l
      BY <2>3, <2>4, SameFlags
    <2> QED
      BY <2>5 DEF h2, l, g
  <1> QED
    BY <1>4, <1>5, <1>6 DEF a, Left

-------------------------------------------------------------------------------
(* Sums and differences *)

\* Sign extension keeps the order of the n bits, taken as unsigned.
LEMMA RaisedOrder ==
  ASSUME NEW n \in 1 .. LONG, NEW x \in Int, NEW y \in Int
  PROVE  /\ SignExt(x, n) < SignExt(y, n) <=> Mask(x, n) < Mask(y, n)
         /\ SignExt(x, n) = SignExt(y, n) <=> Mask(x, n) = Mask(y, n)
  <1> DEFINE w == 2^n
             h == 2^(n - 1)
             l == 2^LONG
             a == Mask(x, n)
             b == Mask(y, n)
  <1>1. w = 2 * h /\ h \in Nat \ {0} /\ w =< l /\ l \in Nat /\ a \in 0 .. w - 1 /\ b \in 0 .. w - 1
    BY Widths, MaskIs
  <1>2. SignExt(x, n) = (IF a >= h THEN a + l - w ELSE a)
        /\ SignExt(y, n) = (IF b >= h THEN b + l - w ELSE b)
    BY SignExtIs DEF Raised
  <1> HIDE DEF a, b, w, h, l
  <1>3. SignExt(x, n) < SignExt(y, n) <=> a < b
    BY <1>1, <1>2
  <1>4. SignExt(x, n) = SignExt(y, n) <=> a = b
    BY <1>1, <1>2
  <1> QED
    BY <1>3, <1>4 DEF a, b

\* The result of a sum or difference, cut to a long and to n bits
LEMMA MaskSum ==
  ASSUME NEW n \in 1 .. LONG, NEW x \in Int, NEW y \in Int
  PROVE  /\ Mask((x + y) % 2^LONG, n) = (Mask(x, n) + Mask(y, n)) % 2^n
         /\ Mask((x - y) % 2^LONG, n) = (Mask(x, n) - Mask(y, n)) % 2^n
  <1>1. 2^n \in Nat \ {0}
    BY Widths
  <1>2. Mask((x + y) % 2^LONG, n) = Mask(x + y, n) /\ Mask((x - y) % 2^LONG, n) = Mask(x - y, n)
    BY MaskIs
  <1> DEFINE w == 2^n
  <1>3. w \in Nat \ {0}
    BY <1>1
  <1> HIDE DEF w
  <1>4. (x + y) % w = ((x % w) + (y % w)) % w /\ (x - y) % w = ((x % w) - (y % w)) % w
    BY <1>3, ModDifference
  <1> QED
    BY <1>2, <1>4 DEF Mask, w

\* A carry goes into the sum as well.
LEMMA MaskSumCarry ==
  ASSUME NEW n \in 1 .. LONG, NEW x \in Int, NEW y \in Int, NEW c \in {0, 1}
  PROVE  /\ Mask((x + y + c) % 2^LONG, n) = (Mask(x, n) + Mask(y, n) + c) % 2^n
         /\ Mask((x - (y + c)) % 2^LONG, n) = (Mask(x, n) - Mask(y, n) - c) % 2^n
  <1> DEFINE w == 2^n
             a == x % w
             b == y % w
  <1>1. w \in Nat \ {0}
    BY Widths
  <1>2. /\ Mask((x + y + c) % 2^LONG, n) = Mask(x + y + c, n)
        /\ Mask((x - (y + c)) % 2^LONG, n) = Mask(x - (y + c), n)
    <2> DEFINE u == x + y + c
               v == x - (y + c)
    <2>1. u \in Int /\ v \in Int
      OBVIOUS
    <2> HIDE DEF u, v
    <2>2. Mask(u % 2^LONG, n) = Mask(u, n) /\ Mask(v % 2^LONG, n) = Mask(v, n)
      BY <2>1, MaskIs
    <2> QED
      BY <2>2 DEF u, v
  <1> HIDE DEF w
  <1>3. PICK d \in Int, e \in Int : x = w * d + a /\ y = w * e + b
    <2>1. x = w * (x \div w) + a /\ x \div w \in Int
      BY <1>1, DivMod
    <2>2. y = w * (y \div w) + b /\ y \div w \in Int
      BY <1>1, DivMod
    <2> QED
      BY <2>1, <2>2
  <1>4. a \in Int /\ b \in Int
    BY <1>1, DivMod
  <1> HIDE DEF a, b
  <1>5. (x + y + c) % w = (a + b + c) % w
    <2> DEFINE u == a + b + c
               k == d + e
    <2>1. u \in Int /\ k \in Int /\ x + y + c = u + w * k
      BY <1>1, <1>3, <1>4
    <2> HIDE DEF u, k
    <2>2. (u + w * k) % w = u % w
      BY <2>1, <1>1, ModShift
    <2> QED
      BY <2>1, <2>2 DEF u
  <1>6. (x - (y + c)) % w = (a - b - c) % w
    <2> DEFINE u == a - b - c
               k == d - e
    <2>1. u \in Int /\ k \in Int /\ x - (y + c) = u + w * k
      BY <1>1, <1>3, <1>4
    <2> HIDE DEF u, k
    <2>2. (u + w * k) % w = u % w
      BY <2>1, <1>1, ModShift
    <2> QED
      BY <2>1, <2>2 DEF u
  <1> QED
    BY <1>2, <1>5, <1>6 DEF Mask, w, a, b

\* Whether a signed number fits n bits
Fits(v, n) == v \in -(2^(n - 1)) .. 2^(n - 1) - 1

\* What OverflowAdd and OverflowSub look at: who is negative, before and after.
LEMMA OverflowIs ==
  ASSUME NEW n \in 1 .. LONG, NEW res \in Int, NEW src \in Int, NEW dest \in Int
  PROVE  LET N(x) == Mask(x, n) >= 2^(n - 1)
         IN  /\ OverflowAdd(res, src, dest, n) =
                  Bit((N(dest) <=> N(src)) /\ ~(N(src) <=> N(res)))
             /\ OverflowSub(res, src, dest, n) =
                  Bit(~(N(dest) <=> N(src)) /\ ~(N(res) <=> N(dest)))
  <1> DEFINE N(x) == Mask(x, n) >= 2^(n - 1)
  <1>1. /\ Sign(SignExt(res, n)) = Bit(N(res)) /\ Sign(SignExt(src, n)) = Bit(N(src))
        /\ Sign(SignExt(dest, n)) = Bit(N(dest))
    BY SignExtIs
  <1>2. \A p, q \in BOOLEAN : Bit(p) = Bit(q) <=> (p <=> q)
    BY DEF Bit
  <1>3. N(res) \in BOOLEAN /\ N(src) \in BOOLEAN /\ N(dest) \in BOOLEAN
    OBVIOUS
  <1> HIDE DEF N
  <1> QED
    BY <1>1, <1>2, <1>3 DEF OverflowAdd, OverflowSub, N

\* alu_sub: the exact difference, cut to n bits; a borrow, if it is negative;
\* an overflow, if the difference of the signed numbers does not fit.
THEOREM Subtracts ==
  ASSUME NEW f \in FlagRecords, NEW n \in BYTE .. LONG, NEW src \in Int, NEW dest \in Int
  PROVE  LET x == Mask(dest, n)
             y == Mask(src, n)
             r == (x - y) % 2^n
         IN  alu_sub(src, dest, n, f) =
               [res |-> r, flags |-> FlagsOf(r, n, Bit(x < y), Bit(~Fits(Signed(x, n) - Signed(y, n), n)))]
  <1> DEFINE w == 2^n
             h == 2^(n - 1)
             x == Mask(dest, n)
             y == Mask(src, n)
             r == (x - y) % w
             res == (dest - src) % 2^LONG
             over == ~Fits(Signed(x, n) - Signed(y, n), n)
  <1>0. n \in 1 .. LONG
    BY ByteAssumption
  <1>1. /\ w = 2 * h /\ h \in Nat \ {0} /\ w \in Nat \ {0} /\ x \in 0 .. w - 1 /\ y \in 0 .. w - 1
        /\ 2^LONG \in Nat \ {0}
    BY <1>0, Widths, MaskIs
  <1>2. res \in Int /\ Mask(res, n) = r
    <2>1. Mask((dest - src) % 2^LONG, n) = (Mask(dest, n) - Mask(src, n)) % 2^n
      BY <1>0, MaskSum
    <2>2. dest - src \in Int
      OBVIOUS
    <2>3. (dest - src) % 2^LONG \in Int
      BY <2>2, InLong
    <2> QED
      BY <2>1, <2>3
  <1>3. /\ SignExt(dest, n) < SignExt(res, n) <=> x < r
        /\ OverflowSub(res, src, dest, n) =
             Bit(~((x >= h) <=> (y >= h)) /\ ~((r >= h) <=> (x >= h)))
        /\ SignExt(res, n) \in Int /\ SignExt(dest, n) \in Int
    <2> HIDE DEF res
    <2>1. SignExt(dest, n) < SignExt(res, n) <=> Mask(dest, n) < Mask(res, n)
      BY <1>0, <1>2, RaisedOrder
    <2>2. OverflowSub(res, src, dest, n) =
             Bit(~((Mask(dest, n) >= h) <=> (Mask(src, n) >= h))
                 /\ ~((Mask(res, n) >= h) <=> (Mask(dest, n) >= h)))
      BY <1>0, <1>2, OverflowIs
    <2>3. SignExt(res, n) \in Int /\ SignExt(dest, n) \in Int
      <3>1. SignExt(res, n) \in 0 .. 2^LONG - 1 /\ SignExt(dest, n) \in 0 .. 2^LONG - 1
        BY <1>0, <1>2, SignExtIs
      <3> QED
        BY <3>1, <1>1
    <2> QED
      BY <2>1, <2>2, <2>3, <1>2
  <1>4. over <=> ~((IF x >= h THEN x - w ELSE x) - (IF y >= h THEN y - w ELSE y) \in -h .. h - 1)
    BY DEF Signed, Fits
  <1>5. alu_sub(src, dest, n, f) =
          [res |-> r, flags |-> Left(f, res, n, Bit(SignExt(res, n) > SignExt(dest, n)),
                                     OverflowSub(res, src, dest, n))]
    BY <1>2 DEF alu_sub, Left
  <1>6. r = IF x < y THEN x - y + w ELSE x - y
    <2> HIDE DEF x, y, w
    <2>1. x - y \in -w .. 2 * w - 1
      BY <1>1
    <2> DEFINE a == x - y
    <2>2. a % w = IF a < 0 THEN a + w ELSE IF a < w THEN a ELSE a - w
      <3>1. a \in -w .. 2 * w - 1
        BY <2>1
      <3> HIDE DEF a
      <3> QED
        BY <3>1, <1>1, Wrapped
    <2> QED
      BY <2>2, <1>1
  <1>7. SignExt(res, n) > SignExt(dest, n) <=> x < y
    <2> HIDE DEF x, y, w, r, res
    <2>1. x < r <=> x < y
      BY <1>1, <1>6
    <2> QED
      BY <2>1, <1>3
  <1>8. ~((x >= h) <=> (y >= h)) /\ ~((r >= h) <=> (x >= h)) <=> over
    <2> HIDE DEF x, y, w, h, r, over
    <2> QED
      BY <1>1, <1>4, <1>6
  <1>9. /\ Bit(SignExt(res, n) > SignExt(dest, n)) = Bit(x < y)
        /\ OverflowSub(res, src, dest, n) = Bit(over)
    <2> HIDE DEF x, y, w, h, r, over, res
    <2> QED
      BY <1>3, <1>7, <1>8 DEF Bit
  <1>10. Left(f, res, n, Bit(x < y), Bit(over)) =
           FlagsOf(r, n, Bit(x < y), Bit(over))
    <2> DEFINE c == Bit(x < y)
               o == Bit(over)
    <2>1. c \in {0, 1} /\ o \in {0, 1}
      BY DEF Bit
    <2> HIDE DEF x, y, w, h, r, over, res, c, o
    <2>2. Left(f, res, n, c, o) = FlagsOf(r, n, c, o)
      BY <2>1, <1>2, ResultFlagsIs
    <2> QED
      BY <2>2 DEF c, o
  <1>11. alu_sub(src, dest, n, f) = [res |-> r, flags |-> FlagsOf(r, n, Bit(x < y), Bit(over))]
    <2> HIDE DEF x, y, w, h, r, over, res
    <2> QED
      BY <1>5, <1>9, <1>10
  <1> QED
    BY <1>11

\* alu_add: the exact sum, cut to n bits; a carry, if it has more than n bits.
THEOREM Adds ==
  ASSUME NEW f \in FlagRecords, NEW n \in BYTE .. LONG, NEW src \in Int, NEW dest \in Int
  PROVE  LET x == Mask(dest, n)
             y == Mask(src, n)
             r == (x + y) % 2^n
         IN  alu_add(src, dest, n, f) =
               [res |-> r, flags |-> FlagsOf(r, n, Bit(x + y >= 2^n), Bit(~Fits(Signed(x, n) + Signed(y, n), n)))]
  <1> DEFINE w == 2^n
             h == 2^(n - 1)
             x == Mask(dest, n)
             y == Mask(src, n)
             r == (x + y) % w
             res == (dest + src) % 2^LONG
             over == ~Fits(Signed(x, n) + Signed(y, n), n)
  <1>0. n \in 1 .. LONG
    BY ByteAssumption
  <1>1. /\ w = 2 * h /\ h \in Nat \ {0} /\ w \in Nat \ {0} /\ x \in 0 .. w - 1 /\ y \in 0 .. w - 1
        /\ 2^LONG \in Nat \ {0}
    BY <1>0, Widths, MaskIs
  <1>2. res \in Int /\ Mask(res, n) = r
    <2>1. Mask((dest + src) % 2^LONG, n) = (Mask(dest, n) + Mask(src, n)) % 2^n
      BY <1>0, MaskSum
    <2>2. dest + src \in Int
      OBVIOUS
    <2>3. (dest + src) % 2^LONG \in Int
      BY <2>2, InLong
    <2> QED
      BY <2>1, <2>3
  <1>3. /\ SignExt(res, n) < SignExt(src, n) <=> r < y
        /\ OverflowAdd(res, src, dest, n) =
             Bit(((x >= h) <=> (y >= h)) /\ ~((y >= h) <=> (r >= h)))
    <2> HIDE DEF res
    <2>1. SignExt(res, n) < SignExt(src, n) <=> Mask(res, n) < Mask(src, n)
      BY <1>0, <1>2, RaisedOrder
    <2>2. OverflowAdd(res, src, dest, n) =
             Bit(((Mask(dest, n) >= h) <=> (Mask(src, n) >= h))
                 /\ ~((Mask(src, n) >= h) <=> (Mask(res, n) >= h)))
      BY <1>0, <1>2, OverflowIs
    <2> QED
      BY <2>1, <2>2, <1>2
  <1>4. over <=> ~((IF x >= h THEN x - w ELSE x) + (IF y >= h THEN y - w ELSE y) \in -h .. h - 1)
    BY DEF Signed, Fits
  <1>5. alu_add(src, dest, n, f) =
          [res |-> r, flags |-> Left(f, res, n, Bit(SignExt(res, n) < SignExt(src, n)),
                                     OverflowAdd(res, src, dest, n))]
    BY <1>2 DEF alu_add, Left
  <1>6. r = IF x + y >= w THEN x + y - w ELSE x + y
    <2> HIDE DEF x, y, w
    <2> DEFINE a == x + y
    <2>2. a % w = IF a < 0 THEN a + w ELSE IF a < w THEN a ELSE a - w
      <3>1. a \in -w .. 2 * w - 1
        BY <1>1
      <3> HIDE DEF a
      <3> QED
        BY <3>1, <1>1, Wrapped
    <2> QED
      BY <2>2, <1>1
  <1>7. SignExt(res, n) < SignExt(src, n) <=> x + y >= w
    <2> HIDE DEF x, y, w, r, res
    <2>1. r < y <=> x + y >= w
      BY <1>1, <1>6
    <2> QED
      BY <2>1, <1>3
  <1>8. ((x >= h) <=> (y >= h)) /\ ~((y >= h) <=> (r >= h)) <=> over
    <2> HIDE DEF x, y, w, h, r, over
    <2> QED
      BY <1>1, <1>4, <1>6
  <1>9. /\ Bit(SignExt(res, n) < SignExt(src, n)) = Bit(x + y >= w)
        /\ OverflowAdd(res, src, dest, n) = Bit(over)
    <2> HIDE DEF x, y, w, h, r, over, res
    <2> QED
      BY <1>3, <1>7, <1>8 DEF Bit
  <1>10. Left(f, res, n, Bit(x + y >= w), Bit(over)) =
           FlagsOf(r, n, Bit(x + y >= w), Bit(over))
    <2> DEFINE c == Bit(x + y >= w)
               o == Bit(over)
    <2>1. c \in {0, 1} /\ o \in {0, 1}
      BY DEF Bit
    <2> HIDE DEF x, y, w, h, r, over, res, c, o
    <2>2. Left(f, res, n, c, o) = FlagsOf(r, n, c, o)
      BY <2>1, <1>2, ResultFlagsIs
    <2> QED
      BY <2>2 DEF c, o
  <1>11. alu_add(src, dest, n, f) = [res |-> r, flags |-> FlagsOf(r, n, Bit(x + y >= w), Bit(over))]
    <2> HIDE DEF x, y, w, h, r, over, res
    <2> QED
      BY <1>5, <1>9, <1>10
  <1> QED
    BY <1>11

\* alu_adc: the same of the sum with the carry that comes in.
THEOREM AddsCarry ==
  ASSUME NEW f \in FlagRecords, NEW n \in BYTE .. LONG, NEW src \in Int, NEW dest \in Int
  PROVE  LET x == Mask(dest, n)
             y == Mask(src, n)
             r == (x + y + f.CF) % 2^n
         IN  alu_adc(src, dest, n, f) =
               [res |-> r, flags |-> FlagsOf(r, n, Bit(x + y + f.CF >= 2^n), Bit(~Fits(Signed(x, n) + Signed(y, n) + f.CF, n)))]
  <1> DEFINE w == 2^n
             h == 2^(n - 1)
             x == Mask(dest, n)
             y == Mask(src, n)
             c == f.CF
             r == (x + y + c) % w
             res == (src + dest + c) % 2^LONG
             B == SignExt(res, n) < SignExt(src, n) \/ (c = 1 /\ SignExt(res, n) = SignExt(src, n))
             over == ~Fits(Signed(x, n) + Signed(y, n) + c, n)
  <1>0. n \in 1 .. LONG
    BY ByteAssumption
  <1>1. /\ w = 2 * h /\ h \in Nat \ {0} /\ w \in Nat \ {0} /\ x \in 0 .. w - 1 /\ y \in 0 .. w - 1
        /\ 2^LONG \in Nat \ {0}
    BY <1>0, Widths, MaskIs
  <1>20. c \in {0, 1}
    BY DEF FlagRecords
  <1>2. res \in Int /\ Mask(res, n) = r
    <2>1. Mask((src + dest + c) % 2^LONG, n) = (Mask(src, n) + Mask(dest, n) + c) % 2^n
      <3> HIDE DEF c
      <3> QED
        BY <1>0, <1>20, MaskSumCarry
    <2>2. src + dest + c \in Int
      BY <1>20
    <2>3. (src + dest + c) % 2^LONG \in Int
      BY <2>2, InLong
    <2>4. Mask(src, n) + Mask(dest, n) + c = x + y + c
      BY <1>1, <1>20
    <2> QED
      BY <2>1, <2>3, <2>4
  <1>3. /\ SignExt(res, n) < SignExt(src, n) <=> r < y
        /\ SignExt(res, n) = SignExt(src, n) <=> r = y
        /\ OverflowAdd(res, src, dest, n) =
             Bit(((x >= h) <=> (y >= h)) /\ ~((y >= h) <=> (r >= h)))
    <2> HIDE DEF res
    <2>1. /\ SignExt(res, n) < SignExt(src, n) <=> Mask(res, n) < Mask(src, n)
          /\ SignExt(res, n) = SignExt(src, n) <=> Mask(res, n) = Mask(src, n)
      BY <1>0, <1>2, RaisedOrder
    <2>2. OverflowAdd(res, src, dest, n) =
             Bit(((Mask(dest, n) >= h) <=> (Mask(src, n) >= h))
                 /\ ~((Mask(src, n) >= h) <=> (Mask(res, n) >= h)))
      BY <1>0, <1>2, OverflowIs
    <2> QED
      BY <2>1, <2>2, <1>2
  <1>4. over <=> ~((IF x >= h THEN x - w ELSE x) + (IF y >= h THEN y - w ELSE y) + c \in -h .. h - 1)
    BY DEF Signed, Fits
  <1>5. alu_adc(src, dest, n, f) =
          [res |-> r, flags |-> Left(f, res, n, Bit(B),
                                     OverflowAdd(res, src, dest, n))]
    BY <1>2 DEF alu_adc, Left
  <1>6. r = IF x + y + c >= w THEN x + y + c - w ELSE x + y + c
    <2> HIDE DEF x, y, w, c
    <2> DEFINE a == x + y + c
    <2>2. a % w = IF a < 0 THEN a + w ELSE IF a < w THEN a ELSE a - w
      <3>1. a \in -w .. 2 * w - 1
        BY <1>1, <1>20
      <3> HIDE DEF a
      <3> QED
        BY <3>1, <1>1, Wrapped
    <2> QED
      BY <2>2, <1>1, <1>20
  <1>7. B <=> x + y + c >= w
    <2> HIDE DEF x, y, w, r, res, c
    <2>1. r < y \/ (c = 1 /\ r = y) <=> x + y + c >= w
      BY <1>1, <1>6, <1>20
    <2> QED
      BY <2>1, <1>3
  <1>8. ((x >= h) <=> (y >= h)) /\ ~((y >= h) <=> (r >= h)) <=> over
    <2> HIDE DEF x, y, w, h, r, over, c
    <2> QED
      BY <1>1, <1>4, <1>6, <1>20
  <1>9. /\ Bit(B) = Bit(x + y + c >= w)
        /\ OverflowAdd(res, src, dest, n) = Bit(over)
    <2> HIDE DEF x, y, w, h, r, over, res, B, c
    <2> QED
      BY <1>3, <1>7, <1>8 DEF Bit
  <1>10. Left(f, res, n, Bit(x + y + c >= w), Bit(over)) =
           FlagsOf(r, n, Bit(x + y + c >= w), Bit(over))
    <2> DEFINE b == Bit(x + y + c >= w)
               o == Bit(over)
    <2>1. b \in {0, 1} /\ o \in {0, 1}
      BY DEF Bit
    <2> HIDE DEF x, y, w, h, r, over, res, B, c, b, o
    <2>2. Left(f, res, n, b, o) = FlagsOf(r, n, b, o)
      BY <2>1, <1>2, ResultFlagsIs
    <2> QED
      BY <2>2 DEF b, o
  <1>11. alu_adc(src, dest, n, f) = [res |-> r, flags |-> FlagsOf(r, n, Bit(x + y + c >= w), Bit(over))]
    <2> HIDE DEF x, y, w, h, r, over, res, B, c
    <2> QED
      BY <1>5, <1>9, <1>10
  <1> QED
    BY <1>11

\* alu_sbb: the same of the difference less the borrow that comes in.
THEOREM SubtractsBorrow ==
  ASSUME NEW f \in FlagRecords, NEW n \in BYTE .. LONG, NEW src \in Int, NEW dest \in Int
  PROVE  LET x == Mask(dest, n)
             y == Mask(src, n)
             r == (x - y - f.CF) % 2^n
         IN  alu_sbb(src, dest, n, f) =
               [res |-> r, flags |-> FlagsOf(r, n, Bit(x < y + f.CF), Bit(~Fits(Signed(x, n) - Signed(y, n) - f.CF, n)))]
  <1> DEFINE w == 2^n
             h == 2^(n - 1)
             x == Mask(dest, n)
             y == Mask(src, n)
             c == f.CF
             r == (x - y - c) % w
             res == (dest - (src + c)) % 2^LONG
             B == SignExt(res, n) > SignExt(dest, n) \/ (c = 1 /\ SignExt(res, n) = SignExt(dest, n))
             over == ~Fits(Signed(x, n) - Signed(y, n) - c, n)
  <1>0. n \in 1 .. LONG
    BY ByteAssumption
  <1>1. /\ w = 2 * h /\ h \in Nat \ {0} /\ w \in Nat \ {0} /\ x \in 0 .. w - 1 /\ y \in 0 .. w - 1
        /\ 2^LONG \in Nat \ {0}
    BY <1>0, Widths, MaskIs
  <1>20. c \in {0, 1}
    BY DEF FlagRecords
  <1>2. res \in Int /\ Mask(res, n) = r
    <2>1. Mask((dest - (src + c)) % 2^LONG, n) = (Mask(dest, n) - Mask(src, n) - c) % 2^n
      <3> HIDE DEF c
      <3> QED
        BY <1>0, <1>20, MaskSumCarry
    <2>2. dest - (src + c) \in Int
      BY <1>20
    <2>3. (dest - (src + c)) % 2^LONG \in Int
      BY <2>2, InLong
    <2> QED
      BY <2>1, <2>3
  <1>3. /\ SignExt(dest, n) < SignExt(res, n) <=> x < r
        /\ OverflowSub(res, src, dest, n) =
             Bit(~((x >= h) <=> (y >= h)) /\ ~((r >= h) <=> (x >= h)))
        /\ SignExt(dest, n) = SignExt(res, n) <=> x = r
        /\ SignExt(res, n) \in Int /\ SignExt(dest, n) \in Int
    <2> HIDE DEF res
    <2>1. /\ SignExt(dest, n) < SignExt(res, n) <=> Mask(dest, n) < Mask(res, n)
          /\ SignExt(dest, n) = SignExt(res, n) <=> Mask(dest, n) = Mask(res, n)
      BY <1>0, <1>2, RaisedOrder
    <2>2. OverflowSub(res, src, dest, n) =
             Bit(~((Mask(dest, n) >= h) <=> (Mask(src, n) >= h))
                 /\ ~((Mask(res, n) >= h) <=> (Mask(dest, n) >= h)))
      BY <1>0, <1>2, OverflowIs
    <2>3. SignExt(res, n) \in Int /\ SignExt(dest, n) \in Int
      <3>1. SignExt(res, n) \in 0 .. 2^LONG - 1 /\ SignExt(dest, n) \in 0 .. 2^LONG - 1
        BY <1>0, <1>2, SignExtIs
      <3> QED
        BY <3>1, <1>1
    <2> QED
      BY <2>1, <2>2, <2>3, <1>2
  <1>4. over <=> ~((IF x >= h THEN x - w ELSE x) - (IF y >= h THEN y - w ELSE y) - c \in -h .. h - 1)
    BY DEF Signed, Fits
  <1>5. alu_sbb(src, dest, n, f) =
          [res |-> r, flags |-> Left(f, res, n, Bit(B),
                                     OverflowSub(res, src, dest, n))]
    BY <1>2 DEF alu_sbb, Left
  <1>6. r = IF x < y + c THEN x - y - c + w ELSE x - y - c
    <2> HIDE DEF x, y, w, c
    <2>1. x - y - c \in -w .. 2 * w - 1
      BY <1>1, <1>20
    <2> DEFINE a == x - y - c
    <2>2. a % w = IF a < 0 THEN a + w ELSE IF a < w THEN a ELSE a - w
      <3>1. a \in -w .. 2 * w - 1
        BY <2>1
      <3> HIDE DEF a
      <3> QED
        BY <3>1, <1>1, Wrapped
    <2> QED
      BY <2>2, <1>1, <1>20
  <1>7. B <=> x < y + c
    <2> HIDE DEF x, y, w, r, res, c
    <2>1. x < r \/ (c = 1 /\ x = r) <=> x < y + c
      BY <1>1, <1>6, <1>20
    <2> QED
      BY <2>1, <1>3
  <1>8. ~((x >= h) <=> (y >= h)) /\ ~((r >= h) <=> (x >= h)) <=> over
    <2> HIDE DEF x, y, w, h, r, over, c
    <2> QED
      BY <1>1, <1>4, <1>6, <1>20
  <1>9. /\ Bit(B) = Bit(x < y + c)
        /\ OverflowSub(res, src, dest, n) = Bit(over)
    <2> HIDE DEF x, y, w, h, r, over, res, B, c
    <2> QED
      BY <1>3, <1>7, <1>8 DEF Bit
  <1>10. Left(f, res, n, Bit(x < y + c), Bit(over)) =
           FlagsOf(r, n, Bit(x < y + c), Bit(over))
    <2> DEFINE b == Bit(x < y + c)
               o == Bit(over)
    <2>1. b \in {0, 1} /\ o \in {0, 1}
      BY DEF Bit
    <2> HIDE DEF x, y, w, h, r, over, res, B, c, b, o
    <2>2. Left(f, res, n, b, o) = FlagsOf(r, n, b, o)
      BY <2>1, <1>2, ResultFlagsIs
    <2> QED
      BY <2>2 DEF b, o
  <1>11. alu_sbb(src, dest, n, f) = [res |-> r, flags |-> FlagsOf(r, n, Bit(x < y + c), Bit(over))]
    <2> HIDE DEF x, y, w, h, r, over, res, B, c
    <2> QED
      BY <1>5, <1>9, <1>10
  <1> QED
    BY <1>11

-------------------------------------------------------------------------------
(* Numbers made of bits *)

\* low is the recursion of Number, down to n bits.
LowBits(bits, n, low) ==
  low = [k \in 0 .. n |->
           IF k = 0 THEN 0 ELSE low[k - 1] + (IF k - 1 \in bits THEN 2^(k - 1) ELSE 0)]

\* The recursion of Number has a function.
LEMMA LowBitsExist == ASSUME NEW bits, NEW n \in Nat PROVE \E low : LowBits(bits, n, low)
  <1> DEFINE S == {m \in Nat : \E low : LowBits(bits, m, low)}
             G(f, k) == IF k = 0 THEN 0 ELSE f[k - 1] + (IF k - 1 \in bits THEN 2^(k - 1) ELSE 0)
  <1>1. 0 \in S
    <2> DEFINE f == [k \in 0 .. 0 |-> 0]
    <2>1. f = [k \in 0 .. 0 |-> IF k = 0 THEN 0
                                ELSE f[k - 1] + (IF k - 1 \in bits THEN 2^(k - 1) ELSE 0)]
      OBVIOUS
    <2> QED
      BY <2>1 DEF LowBits
  <1>2. ASSUME NEW m \in Nat, m \in S PROVE m + 1 \in S
    <2>1. PICK f : f = [k \in 0 .. m |-> G(f, k)]
      BY <1>2 DEF LowBits
    <2> DEFINE g == [k \in 0 .. m + 1 |-> IF k = m + 1 THEN G(f, k) ELSE f[k]]
    <2>2. ASSUME NEW k \in 0 .. m + 1 PROVE g[k] = G(g, k)
      <3>1. k # 0 => k - 1 \in 0 .. m /\ g[k - 1] = f[k - 1]
        OBVIOUS
      <3>2. CASE k = m + 1
        BY <3>1, <3>2
      <3>3. CASE k # m + 1
        <4>1. k \in 0 .. m /\ g[k] = f[k]
          BY <3>3
        <4>2. f[k] = G(f, k)
          BY <4>1, <2>1
        <4> HIDE DEF g
        <4> QED
          BY <3>1, <4>1, <4>2
      <3> QED
        BY <3>2, <3>3
    <2>3. g = [k \in 0 .. m + 1 |-> g[k]]
      OBVIOUS
    <2>4. g = [k \in 0 .. m + 1 |-> G(g, k)]
      <3> HIDE DEF g, G
      <3> QED
        BY <2>2, <2>3
    <2> HIDE DEF g
    <2>5. LowBits(bits, m + 1, g)
      BY <2>4 DEF LowBits
    <2> QED
      BY <2>5
  <1>3. Nat \subseteq S
    <2> HIDE DEF S
    <2> QED
      BY <1>1, <1>2, SetInduction
  <1> QED
    BY <1>3

\* A number of n bits has n bits.
LEMMA NumberIs == ASSUME NEW bits, NEW n \in Nat PROVE Number(bits, n) \in 0 .. 2^n - 1
  <1> DEFINE low == CHOOSE low : LowBits(bits, n, low)
             S == {k \in Nat : k =< n => low[k] \in 0 .. 2^k - 1}
  <1>1. LowBits(bits, n, low)
    BY LowBitsExist
  <1>2. Number(bits, n) = low[n]
    BY DEF Number, LowBits
  <1> HIDE DEF low
  <1>3. \A k \in 0 .. n : low[k] =
          IF k = 0 THEN 0 ELSE low[k - 1] + (IF k - 1 \in bits THEN 2^(k - 1) ELSE 0)
    BY <1>1 DEF LowBits
  <1>4. 0 \in S
    BY <1>3, PowerZero
  <1>5. ASSUME NEW k \in Nat, k \in S PROVE k + 1 \in S
    <2> SUFFICES ASSUME k + 1 =< n PROVE low[k + 1] \in 0 .. 2^(k + 1) - 1
      OBVIOUS
    <2>1. k \in 0 .. n /\ k + 1 \in 0 .. n /\ k + 1 # 0 /\ (k + 1) - 1 = k /\ k =< n
      OBVIOUS
    <2>2. low[k] \in 0 .. 2^k - 1
      BY <1>5, <2>1
    <2>3. 2^(k + 1) = 2 * 2^k /\ 2^k \in Nat
      BY PowerStep, Subsets
    <2>4. low[k + 1] = low[k] + (IF k \in bits THEN 2^k ELSE 0)
      BY <2>1, <1>3
    <2> HIDE DEF S
    <2> QED
      BY <2>2, <2>3, <2>4
  <1>6. Nat \subseteq S
    <2> HIDE DEF S
    <2> QED
      BY <1>4, <1>5, SetInduction
  <1>7. n \in S
    BY <1>6
  <1> QED
    BY <1>2, <1>7

\* Bytes one after the other
LEMMA Joined ==
  ASSUME NEW i \in Nat, NEW j \in Nat, NEW a \in 0 .. 2^i - 1, NEW b \in 0 .. 2^j - 1
  PROVE  a + b * 2^i \in 0 .. 2^(i + j) - 1
  <1> DEFINE p == 2^i
             q == 2^j
  <1>1. p \in Nat \ {0} /\ q \in Nat \ {0} /\ 2^(i + j) = p * q
    BY Subsets, PowerSum
  <1>2. a \in 0 .. p - 1 /\ b \in 0 .. q - 1
    OBVIOUS
  <1> HIDE DEF p, q
  <1>3. b * p =< (q - 1) * p /\ b * p >= 0
    BY <1>1, <1>2
  <1>4. (q - 1) * p = p * q - p
    BY <1>1
  <1>5. b * p \in Int /\ p * q \in Int
    BY <1>1, <1>2
  <1>6. a + b * p \in 0 .. p * q - 1
    BY <1>1, <1>2, <1>3, <1>4, <1>5
  <1> QED
    BY <1>1, <1>6 DEF p

-------------------------------------------------------------------------------
(* What the operations of alu.c return *)

Results == [res : Int, flags : FlagRecords]

\* Sums and differences return a number and flags.
LEMMA DifferenceIs ==
  ASSUME NEW f \in FlagRecords, NEW n \in BYTE .. LONG, NEW src \in Int, NEW dest \in Int
  PROVE  /\ alu_add(src, dest, n, f) \in Results /\ alu_adc(src, dest, n, f) \in Results
         /\ alu_sub(src, dest, n, f) \in Results /\ alu_sbb(src, dest, n, f) \in Results
  <1>0. n \in 1 .. LONG
    BY ByteAssumption
  <1> DEFINE x == Mask(dest, n)
             y == Mask(src, n)
             w == 2^n
  <1>1. w \in Nat \ {0} /\ x \in 0 .. w - 1 /\ y \in 0 .. w - 1
    BY <1>0, Widths, MaskIs
  <1>2. f.CF \in Int
    BY DEF FlagRecords
  <1>3. \A r \in Int : \A c, o : [res |-> r % w, flags |-> FlagsOf(r % w, n, Bit(c), Bit(o))] \in Results
    <2> SUFFICES ASSUME NEW r \in Int, NEW c, NEW o
                 PROVE  [res |-> r % w, flags |-> FlagsOf(r % w, n, Bit(c), Bit(o))] \in Results
      OBVIOUS
    <2> DEFINE s == r % w
               p == Bit(c)
               q == Bit(o)
    <2> HIDE DEF w
    <2>1. s \in Int
      BY <1>1, DivMod
    <2>2. p \in {0, 1} /\ q \in {0, 1}
      BY DEF Bit
    <2> HIDE DEF s, p, q
    <2>3. FlagsOf(s, n, p, q) \in FlagRecords
      BY <2>2, FlagsTyped
    <2> QED
      BY <2>1, <2>3 DEF Results, s, p, q
  <1>4. x - y \in Int /\ x + y \in Int /\ x + y + f.CF \in Int /\ x - y - f.CF \in Int
    <2> HIDE DEF x, y, w
    <2> QED
      BY <1>1, <1>2
  <1>5. alu_sub(src, dest, n, f) =
          [res |-> (x - y) % w,
           flags |-> FlagsOf((x - y) % w, n, Bit(x < y), Bit(~Fits(Signed(x, n) - Signed(y, n), n)))]
    BY Subtracts
  <1>6. alu_add(src, dest, n, f) =
          [res |-> (x + y) % w,
           flags |-> FlagsOf((x + y) % w, n, Bit(x + y >= w), Bit(~Fits(Signed(x, n) + Signed(y, n), n)))]
    BY Adds
  <1>7. alu_adc(src, dest, n, f) =
          [res |-> (x + y + f.CF) % w,
           flags |-> FlagsOf((x + y + f.CF) % w, n, Bit(x + y + f.CF >= w), Bit(~Fits(Signed(x, n) + Signed(y, n) + f.CF, n)))]
    BY AddsCarry
  <1>8. alu_sbb(src, dest, n, f) =
          [res |-> (x - y - f.CF) % w,
           flags |-> FlagsOf((x - y - f.CF) % w, n, Bit(x < y + f.CF), Bit(~Fits(Signed(x, n) - Signed(y, n) - f.CF, n)))]
    BY SubtractsBorrow
  <1> HIDE DEF x, y, w
  <1> QED
    BY <1>3, <1>4, <1>5, <1>6, <1>7, <1>8

\* alu_and, alu_or and alu_xor: a number of n bits, no carry, no overflow
LEMMA LogicIs ==
  ASSUME NEW f \in FlagRecords, NEW n \in BYTE .. LONG, NEW bits
  PROVE  /\ Logic(bits, n, f) = [res |-> Number(bits, n), flags |-> FlagsOf(Number(bits, n), n, 0, 0)]
         /\ Logic(bits, n, f) \in Results /\ Number(bits, n) \in 0 .. 2^n - 1
  <1> DEFINE r == Number(bits, n)
             w == 2^n
  <1>0. n \in 1 .. LONG /\ n \in Nat
    BY ByteAssumption
  <1>1. r \in 0 .. w - 1 /\ w \in Nat \ {0}
    BY <1>0, NumberIs, Widths
  <1>2. Mask(r, n) = r
    <2> HIDE DEF r, w
    <2>1. r % w = r
      BY <1>1, ModSmall
    <2> QED
      BY <2>1 DEF Mask, w
  <1>3. Logic(bits, n, f) = [res |-> r, flags |-> Left(f, r, n, 0, 0)]
    BY DEF Logic, Left
  <1>4. r \in Int
    <2> HIDE DEF r, w
    <2> QED
      BY <1>1
  <1> HIDE DEF r
  <1>5. Left(f, r, n, 0, 0) = FlagsOf(r, n, 0, 0)
    BY <1>2, <1>4, ResultFlagsIs
  <1>6. FlagsOf(r, n, 0, 0) \in FlagRecords
    BY FlagsTyped
  <1> QED
    BY <1>1, <1>3, <1>4, <1>5, <1>6 DEF Results, r

\* They leave flags.
LEMMA ResultFlagsTyped ==
  ASSUME NEW f \in FlagRecords, NEW x \in Int, NEW n \in 1 .. LONG
  PROVE  ResultFlags(f, x, n) \in FlagRecords
  <1> DEFINE pf == Bit(Cardinality(Bits(x, BYTE)) % 2 = 0)
             zf == Bit(Mask(x, n) = 0)
             h == 2^(n - 1)
             d == Mask(x, n) \div h
             sf == d % 2
  <1>1. pf \in {0, 1} /\ zf \in {0, 1}
    BY DEF Bit
  <1>2. sf \in {0, 1}
    <2>1. h \in Nat \ {0} /\ Mask(x, n) \in 0 .. 2^n - 1 /\ 2^n \in Nat
      BY Widths, MaskIs
    <2>2. Mask(x, n) \in Int
      BY <2>1
    <2> HIDE DEF h
    <2>3. d \in Int
      BY <2>1, <2>2, DivMod
    <2> HIDE DEF d
    <2> QED
      BY <2>3
  <1>3. ResultFlags(f, x, n) = [f EXCEPT !.PF = pf, !.ZF = zf, !.SF = sf]
    BY Zenon DEF ResultFlags
  <1> HIDE DEF pf, zf, sf
  <1> QED
    BY <1>1, <1>2, <1>3 DEF FlagRecords

\* The host takes any count, and shifts by one that is natural.
LEMMA HostShrIs ==
  ASSUME NEW x \in Int, NEW count \in Int
  PROVE  HostShr(x, count) \in Int /\ count % LONG \in Nat /\ 2^(count % LONG) \in Nat \ {0}
  <1> DEFINE l == LONG
             k == count % l
             p == 2^k
  <1>1. l \in Nat \ {0}
    BY LongIs
  <1> HIDE DEF l
  <1>2. k \in Nat
    BY <1>1
  <1> HIDE DEF k
  <1>3. p \in Nat \ {0}
    BY <1>2, Subsets
  <1> HIDE DEF p
  <1>4. x \div p \in Int
    BY <1>3, DivMod
  <1> QED
    BY <1>2, <1>3, <1>4 DEF HostShr, p, k, l

\* The end of each shift returns a number and flags.
LEMMA ShiftedIs ==
  ASSUME NEW f \in FlagRecords, NEW n \in 1 .. LONG, NEW res \in Int, NEW carry \in Int
  PROVE  Shifted(res, carry, n, f) \in Results
  <1> DEFINE g == ResultFlags(f, res, n)
             c == carry % 2
  <1>1. g \in FlagRecords /\ c \in {0, 1}
    BY ResultFlagsTyped
  <1>2. Shifted(res, carry, n, f) = [res |-> res, flags |-> [g EXCEPT !.CF = c]]
    BY DEF Shifted
  <1> HIDE DEF g, c
  <1>3. [g EXCEPT !.CF = c] \in FlagRecords
    BY <1>1 DEF FlagRecords
  <1> QED
    BY <1>2, <1>3 DEF Results

\* The low n bits are a number.
LEMMA MaskInt ==
  ASSUME NEW x \in Int, NEW n \in 1 .. LONG
  PROVE  Mask(x, n) \in Nat
  <1>1. Mask(x, n) \in 0 .. 2^n - 1 /\ 2^n \in Nat
    BY MaskIs, Widths
  <1> QED
    BY <1>1

\* Shifts return a number and flags, for every count.
LEMMA ShiftsAre ==
  ASSUME NEW f \in FlagRecords, NEW n \in 1 .. LONG, NEW src \in Int, NEW dest \in Int
  PROVE  /\ alu_shl(src, dest, n, f) \in Results /\ alu_shr(src, dest, n, f) \in Results
         /\ alu_sar(src, dest, n, f) \in Results
  <1> DEFINE s == Mask(src, n)
             d == Mask(dest, n)
  <1>1. s \in Nat /\ d \in Nat /\ n - s \in Int /\ s - 1 \in Int
    BY MaskInt
  <1> HIDE DEF s, d
  <1>2. HostShr(d, n - s) \in Int /\ HostShr(d, s) \in Int /\ HostShr(d, s - 1) \in Int
    <2> DEFINE i == n - s
               j == s - 1
    <2>1. i \in Int /\ j \in Int /\ s \in Int /\ d \in Int
      BY <1>1
    <2> HIDE DEF i, j
    <2>2. HostShr(d, i) \in Int
      BY <2>1, HostShrIs
    <2>3. HostShr(d, j) \in Int
      BY <2>1, HostShrIs
    <2>4. HostShr(d, s) \in Int
      BY <2>1, HostShrIs
    <2> QED
      BY <2>2, <2>3, <2>4 DEF i, j
  <1>3. alu_shl(src, dest, n, f) \in Results
    <2> DEFINE p == 2^(s % LONG)
               x == d * p
    <2>1. p \in Nat
      <3> DEFINE k == s % LONG
      <3>1. k \in Nat
        <4> DEFINE l == LONG
        <4>1. l \in Nat \ {0} /\ s \in Int
          BY <1>1, LongIs
        <4> HIDE DEF l
        <4> QED
          BY <4>1 DEF l
      <3> HIDE DEF k
      <3>2. 2^k \in Nat
        BY <3>1, Subsets
      <3> QED
        BY <3>2 DEF k
    <2> HIDE DEF p
    <2>2. x \in Int
      BY <1>1, <2>1
    <2> HIDE DEF x
    <2>3. Mask(x, n) \in Int
      BY <2>2, MaskInt
    <2>4. Shifted(Mask(x, n), HostShr(d, n - s), n, f) \in Results
      BY <1>2, <2>3, ShiftedIs
    <2> QED
      BY <2>4 DEF alu_shl, s, d, x, p
  <1>4. alu_shr(src, dest, n, f) \in Results
    <2>1. Shifted(HostShr(d, s), HostShr(d, s - 1), n, f) \in Results
      BY <1>2, ShiftedIs
    <2> QED
      BY <2>1 DEF alu_shr, s, d
  <1>5. alu_sar(src, dest, n, f) \in Results
    <2> DEFINE k == (n - s) % LONG
               temp == Mask(HostShr(2^LONG - 1, n - s) * 2^k, LONG)
               shifted == Bits(HostShr(d, s), LONG)
               bits == IF HostShr(d, n - 1) % 2 = 1 THEN shifted \cup Bits(temp, LONG) ELSE shifted
               x == Number(bits, LONG)
    <2> HIDE DEF bits
    <2>1. x \in Int
      <3>1. x \in 0 .. 2^LONG - 1 /\ 2^LONG \in Nat
        BY LongIs, NumberIs, Subsets
      <3> HIDE DEF x
      <3> QED
        BY <3>1
    <2>2. alu_sar(src, dest, n, f) = Shifted(Mask(x, n), HostShr(d, s - 1), n, f)
      BY Zenon DEF alu_sar, s, d, x, bits
    <2> HIDE DEF x
    <2>3. Mask(x, n) \in Int
      BY <2>1, MaskInt
    <2> QED
      BY <1>2, <2>2, <2>3, ShiftedIs
  <1> QED
    BY <1>3, <1>4, <1>5

\* Products return a number and flags.
LEMMA ProductIs ==
  ASSUME NEW f \in FlagRecords, NEW n \in 1 .. LONG, NEW src \in Int, NEW dest \in Int
  PROVE  alu_mul(src, dest, n, f) \in Results
  <1> DEFINE p == Mask(dest, n) * Mask(src, n)
             high == Bit(p \div 2^n # 0)
  <1>1. p \in Int
    <2>1. Mask(dest, n) \in Nat /\ Mask(src, n) \in Nat
      BY MaskInt
    <2> QED
      BY <2>1
  <1>2. high \in {0, 1}
    BY DEF Bit
  <1>3. alu_mul(src, dest, n, f) = [res |-> p, flags |-> [f EXCEPT !.CF = high, !.OF = high]]
    BY Zenon DEF alu_mul
  <1> HIDE DEF p, high
  <1>4. [f EXCEPT !.CF = high, !.OF = high] \in FlagRecords
    BY <1>2 DEF FlagRecords
  <1> QED
    BY <1>1, <1>3, <1>4 DEF Results

\* Both parts of a double word
LEMMA HalvesAre ==
  ASSUME NEW x \in Int, NEW n \in 1 .. LONG
  PROVE  x % 2^n \in Int /\ x \div 2^n \in Int /\ (x \div 2^n) % 2^n \in Int
  <1> DEFINE w == 2^n
             d == x \div w
  <1>1. w \in Nat \ {0}
    BY Widths
  <1> HIDE DEF w
  <1>2. x % w \in Int /\ d \in Int
    BY <1>1, DivMod
  <1> HIDE DEF d
  <1>3. d % w \in Int
    BY <1>1, <1>2, DivMod
  <1> QED
    BY <1>2, <1>3 DEF d, w

\* A division by anything but zero has a quotient and a remainder.
LEMMA QuotientIs ==
  ASSUME NEW x \in Int, NEW y \in Int, y # 0
  PROVE  Quotient(x, y) \in Int /\ Remainder(x, y) \in Int
  <1> DEFINE u == IF x < 0 THEN -x ELSE x
             v == IF y < 0 THEN -y ELSE y
             q == u \div v
             r == Quotient(x, y)
  <1>1. u \in Nat /\ v \in Nat \ {0}
    OBVIOUS
  <1>2. r = IF (x < 0) = (y < 0) THEN q ELSE -q
    BY Zenon DEF Quotient
  <1> HIDE DEF u, v
  <1>3. q \in Int
    BY <1>1, DivMod
  <1> HIDE DEF q, r
  <1>4. r \in Int
    BY <1>2, <1>3
  <1>5. y * r \in Int
    BY <1>4
  <1>6. x - y * r \in Int
    BY <1>5
  <1> QED
    BY <1>4, <1>6 DEF Remainder, r

\* n bits as a signed number, which is zero for no other bits
LEMMA SignedIs ==
  ASSUME NEW n \in 1 .. LONG, NEW x \in 0 .. 2^n - 1
  PROVE  Signed(x, n) \in Int /\ (x # 0 => Signed(x, n) # 0)
         /\ Signed(x, n) = (IF x >= 2^(n - 1) THEN x - 2^n ELSE x)
  <1>1. 2^n \in Nat /\ x \in Int
    BY Widths
  <1>2. Signed(x, n) = (IF x >= 2^(n - 1) THEN x - 2^n ELSE x)
    BY DEF Signed
  <1>3. x - 2^n \in Int /\ x - 2^n # 0
    BY <1>1
  <1> QED
    BY <1>1, <1>2, <1>3
===============================================================================
