---------------------------------- MODULE Alu ----------------------------------
(***************************************************************************)
(* The arithmetic of NEMU's processor, nemu/src/cpu/alu.c: each operation  *)
(* takes source, destination, the size of the data in bits and the flags,  *)
(* and returns the result and the new flags.  C computes with 32 bits: a   *)
(* long, here 4 * BYTE bits, so that the model can have small words.       *)
(***************************************************************************)
EXTENDS Words

CONSTANT BYTE   \* bits of a byte: 8

ASSUME ByteAssumption == BYTE \in Nat \ {0}

WORD == 2 * BYTE
LONG == 4 * BYTE
Longs == 0 .. 2^LONG - 1

\* The flags the arithmetic sets
FlagRecords == [CF : {0, 1}, PF : {0, 1}, ZF : {0, 1}, SF : {0, 1}, OF : {0, 1}]

Mask(x, n) == x % 2^n

\* sign_ext: the low n bits of x, extended to a long
SignExt(x, n) ==
  LET low == Mask(x, n)
  IN  IF low >= 2^(n - 1) THEN low + 2^LONG - 2^n ELSE low

Sign(x) == x \div 2^(LONG - 1)

\* set_PF looks at the low byte, set_ZF and set_SF at the n bits of the data.
ResultFlags(f, res, n) ==
  [f EXCEPT !.PF = Bit(Cardinality(Bits(res, BYTE)) % 2 = 0),
            !.ZF = Bit(Mask(res, n) = 0),
            !.SF = (Mask(res, n) \div 2^(n - 1)) % 2]

\* set_OF_add, set_OF_sub
OverflowAdd(res, src, dest, n) ==
  LET S(x) == Sign(SignExt(x, n))
  IN  Bit(S(dest) = S(src) /\ S(src) # S(res))
\* Mutant: the test of the addition.
OverflowSub_AsAdd(res, src, dest, n) == OverflowAdd(res, src, dest, n)
OverflowSub(res, src, dest, n) ==
  LET S(x) == Sign(SignExt(x, n))
  IN  Bit(S(dest) # S(src) /\ S(res) # S(dest))

alu_add(src, dest, n, f) ==
  LET res == (dest + src) % 2^LONG
  IN  [res |-> Mask(res, n),
       flags |-> [ResultFlags(f, res, n) EXCEPT
                    !.CF = Bit(SignExt(res, n) < SignExt(src, n)),
                    !.OF = OverflowAdd(res, src, dest, n)]]

\* Mutant: the carry that comes in is forgotten in the test.
alu_adc_CarryAsAdd(src, dest, n, f) ==
  LET res == (src + dest + f.CF) % 2^LONG
  IN  [res |-> Mask(res, n),
       flags |-> [ResultFlags(f, res, n) EXCEPT
                    !.CF = Bit(SignExt(res, n) < SignExt(src, n)),
                    !.OF = OverflowAdd(res, src, dest, n)]]
alu_adc(src, dest, n, f) ==
  LET res == (src + dest + f.CF) % 2^LONG
      R == SignExt(res, n)
      S == SignExt(src, n)
  IN  [res |-> Mask(res, n),
       flags |-> [ResultFlags(f, res, n) EXCEPT
                    !.CF = Bit(R < S \/ (f.CF = 1 /\ R = S)),
                    !.OF = OverflowAdd(res, src, dest, n)]]

alu_sub(src, dest, n, f) ==
  LET res == (dest - src) % 2^LONG
  IN  [res |-> Mask(res, n),
       flags |-> [ResultFlags(f, res, n) EXCEPT
                    !.CF = Bit(SignExt(res, n) > SignExt(dest, n)),
                    !.OF = OverflowSub(res, src, dest, n)]]

alu_sbb(src, dest, n, f) ==
  LET res == (dest - (src + f.CF)) % 2^LONG
      R == SignExt(res, n)
      D == SignExt(dest, n)
  IN  [res |-> Mask(res, n),
       flags |-> [ResultFlags(f, res, n) EXCEPT
                    !.CF = Bit(R > D \/ (f.CF = 1 /\ R = D)),
                    !.OF = OverflowSub(res, src, dest, n)]]

\* alu_and, alu_or, alu_xor differ in how they combine the bits.
Logic(bits, n, f) ==
  LET res == Number(bits, n)
  IN  [res |-> res, flags |-> [ResultFlags(f, res, n) EXCEPT !.CF = 0, !.OF = 0]]
alu_and(src, dest, n, f) == Logic(Bits(dest, n) \cap Bits(src, n), n, f)
alu_or(src, dest, n, f) == Logic(Bits(dest, n) \cup Bits(src, n), n, f)
alu_xor(src, dest, n, f) ==
  Logic((Bits(dest, n) \cup Bits(src, n)) \ (Bits(dest, n) \cap Bits(src, n)), n, f)

\* A product of two n-bit numbers has 2 * n bits.
alu_mul(src, dest, n, f) ==
  LET res == Mask(dest, n) * Mask(src, n)
      high == Bit(res \div 2^n # 0)
  IN  [res |-> res, flags |-> [f EXCEPT !.CF = high, !.OF = high]]

\* The signed operations leave the flags alone and do not look at the size;
\* their results are cut to the registers they are written to.
alu_imul(src, dest) == src * dest
alu_idiv(src, dest) == Quotient(dest, src)
alu_imod(src, dest) == Remainder(dest, src)

\* The host takes a count modulo the width of a long.
HostShr(x, count) == x \div 2^(count % LONG)

Shifted(res, carry, n, f) ==
  [res |-> res, flags |-> [ResultFlags(f, res, n) EXCEPT !.CF = carry % 2]]

alu_shl(src, dest, n, f) ==
  LET s == Mask(src, n)
      d == Mask(dest, n)
  IN  Shifted(Mask(d * 2^(s % LONG), n), HostShr(d, n - s), n, f)
alu_shr(src, dest, n, f) ==
  LET s == Mask(src, n)
      d == Mask(dest, n)
  IN  Shifted(HostShr(d, s), HostShr(d, s - 1), n, f)
\* temp: ones above the low n - s bits
alu_sar(src, dest, n, f) ==
  LET s == Mask(src, n)
      d == Mask(dest, n)
      k == (n - s) % LONG
      temp == Mask(HostShr(2^LONG - 1, n - s) * 2^k, LONG)
      shifted == Bits(HostShr(d, s), LONG)
      bits == IF HostShr(d, n - 1) % 2 = 1 THEN shifted \cup Bits(temp, LONG) ELSE shifted
  IN  Shifted(Mask(Number(bits, LONG), n), HostShr(d, s - 1), n, f)
================================================================================
