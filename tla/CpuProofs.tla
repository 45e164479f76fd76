------------------------------ MODULE CpuProofs ------------------------------
(***************************************************************************)
(* Proofs about Cpu, for any program, widths and starting registers.       *)
(*                                                                         *)
(* 1. Whatever is computed, registers, memory, flags and floats keep their *)
(*    widths.  The invariant is inductive as it stands: each operation     *)
(*    takes a machine to a machine.                                        *)
(* 2. After a comparison the conditions mean what their names say, and the *)
(*    instructions that test them do as they say: by what AluProofs says   *)
(*    of differences, and because what is written is read back.            *)
(***************************************************************************)
EXTENDS Cpu, AluProofs

-------------------------------------------------------------------------------
(* Machines: their registers and memory, read and written *)

\* The three sizes, in bytes and bits
LEMMA SizesAre ==
  /\ BYTE \div BYTE = 1 /\ WORD \div BYTE = 2 /\ LONG \div BYTE = 4
  /\ \A n \in Sizes : n \in BYTE .. LONG /\ n \in 1 .. LONG /\ n \in Nat
                      /\ n = BYTE * (n \div BYTE) /\ n \div BYTE \in {1, 2, 4}
  <1>1. BYTE = BYTE * 1 + 0 /\ WORD = BYTE * 2 + 0 /\ LONG = BYTE * 4 + 0
        /\ BYTE \in Nat \ {0} /\ WORD \in Int /\ LONG \in Int /\ 0 \in 0 .. BYTE - 1
    BY ByteAssumption DEF WORD, LONG
  <1>2. BYTE \div BYTE = 1
    BY <1>1, Division
  <1>3. WORD \div BYTE = 2
    BY <1>1, Division
  <1>4. LONG \div BYTE = 4
    BY <1>1, Division
  <1>5. BYTE \in BYTE .. LONG /\ WORD \in BYTE .. LONG /\ LONG \in BYTE .. LONG
    BY ByteAssumption DEF WORD, LONG
  <1> QED
    BY <1>1, <1>2, <1>3, <1>4, <1>5 DEF Sizes

\* The parts of a machine
LEMMA MachineIs ==
  ASSUME NEW m \in Machines
  PROVE  /\ m.reg \in [0 .. 7 -> Longs] /\ m.mem \in [Longs -> 0 .. 2^BYTE - 1]
         /\ m.flags \in FlagRecords /\ m.fpu \in [stack : [0 .. 7 -> Longs], top : 0 .. 7]
         /\ \A k \in 0 .. 7 : m.reg[k] \in Longs /\ m.reg[k] \in Nat
         /\ \A a \in Longs : m.mem[a] \in 0 .. 2^BYTE - 1
  <1>1. /\ m.reg \in [0 .. 7 -> Longs] /\ m.mem \in [Longs -> 0 .. 2^BYTE - 1]
        /\ m.flags \in FlagRecords /\ m.fpu \in [stack : [0 .. 7 -> Longs], top : 0 .. 7]
    BY DEF Machines
  <1>2. Longs \subseteq Nat
    BY DEF Longs
  <1> QED
    BY <1>1, <1>2

\* vaddr_read returns as many bits as it was asked for.
LEMMA LoadIs ==
  ASSUME NEW m \in Machines, NEW a \in Int, NEW n \in Sizes
  PROVE  LoadBytes(m, a, n) \in 0 .. 2^n - 1
  <1> DEFINE b(k) == m.mem[(a + k) % 2^LONG]
             B(k) == IF k < n \div BYTE THEN m.mem[(a + k) % 2^LONG] * 2^(BYTE * k) ELSE 0
             p == BYTE
  <1>1. \A k \in 0 .. 3 : b(k) \in 0 .. 2^p - 1
    <2> SUFFICES ASSUME NEW k \in 0 .. 3 PROVE b(k) \in 0 .. 2^p - 1
      OBVIOUS
    <2>1. (a + k) % 2^LONG \in Longs
      <3> DEFINE x == a + k
      <3>1. x \in Int
        OBVIOUS
      <3> HIDE DEF x
      <3>2. x % 2^LONG \in Longs
        BY <3>1, InLong
      <3> QED
        BY <3>2 DEF x
    <2> QED
      BY <2>1, MachineIs
  <1>2. LoadBytes(m, a, n) = B(0) + B(1) + B(2) + B(3)
    BY DEF LoadBytes
  <1>3. p \in Nat \ {0} /\ 2^0 = 1 /\ p * 0 = 0 /\ p * 1 = p /\ p * 2 = p + p /\ p * 3 = p + p + p
        /\ 2^p \in Nat /\ 2^(p + p) \in Nat /\ 2^(p + p + p) \in Nat /\ p + p \in Nat /\ p + p + p \in Nat
    <2>1. p \in Nat \ {0} /\ p + p \in Nat /\ p + p + p \in Nat
      BY ByteAssumption
    <2>2. 2^p \in Nat /\ 2^(p + p) \in Nat /\ 2^(p + p + p) \in Nat
      BY <2>1, Subsets
    <2> QED
      BY <2>1, <2>2, PowerZero
  <1>4. n \div BYTE \in {1, 2, 4} /\ n = p * (n \div BYTE)
    BY SizesAre
  <1>5. /\ B(0) = b(0)
        /\ B(1) = IF n \div BYTE = 1 THEN 0 ELSE b(1) * 2^p
        /\ B(2) = IF n \div BYTE = 4 THEN b(2) * 2^(p + p) ELSE 0
        /\ B(3) = IF n \div BYTE = 4 THEN b(3) * 2^(p + p + p) ELSE 0
    <2>1. B(0) = b(0)
      <3>1. B(0) = b(0) * 2^(p * 0)
        BY <1>4
      <3>2. p * 0 = 0
        BY <1>3
      <3>3. 2^(p * 0) = 1
        BY <3>2, PowerZero
      <3>4. b(0) \in 0 .. 2^p - 1 /\ 2^p \in Nat
        BY <1>1, <1>3
      <3> HIDE DEF b, p, B
      <3>5. b(0) * 1 = b(0)
        BY <3>4
      <3> QED
        BY <3>1, <3>3, <3>5
    <2>2. B(1) = IF n \div BYTE = 1 THEN 0 ELSE b(1) * 2^(p * 1)
      BY <1>4
    <2>3. B(2) = IF n \div BYTE = 4 THEN b(2) * 2^(p * 2) ELSE 0
      BY <1>4
    <2>4. B(3) = IF n \div BYTE = 4 THEN b(3) * 2^(p * 3) ELSE 0
      BY <1>4
    <2> HIDE DEF b, B, p
    <2> QED
      BY <2>1, <2>2, <2>3, <2>4, <1>3
  <1> HIDE DEF b, B
  <1>6. CASE n \div BYTE = 1
    <2>1. n = p
      BY <1>4, <1>6, <1>3
    <2> HIDE DEF p
    <2> QED
      BY <2>1, <1>1, <1>2, <1>3, <1>5, <1>6
  <1>7. b(0) + b(1) * 2^p \in 0 .. 2^(p + p) - 1
    <2> HIDE DEF p
    <2>1. b(0) \in 0 .. 2^p - 1 /\ b(1) \in 0 .. 2^p - 1 /\ p \in Nat
      BY <1>1, <1>3
    <2> QED
      BY <2>1, Joined
  <1>8. CASE n \div BYTE = 2
    <2>1. n = p + p
      BY <1>4, <1>8, <1>3
    <2> HIDE DEF p
    <2>2. LoadBytes(m, a, n) = b(0) + b(1) * 2^p
      BY <1>1, <1>2, <1>3, <1>5, <1>7, <1>8
    <2> QED
      BY <2>1, <2>2, <1>7
  <1>9. CASE n \div BYTE = 4
    <2>1. n = p + p + p + p
      BY <1>4, <1>9, <1>3
    <2> HIDE DEF p
    <2>0. /\ b(0) \in 0 .. 2^p - 1 /\ b(1) \in 0 .. 2^p - 1 /\ b(2) \in 0 .. 2^p - 1
          /\ b(3) \in 0 .. 2^p - 1 /\ p \in Nat
      BY <1>1, <1>3
    <2> DEFINE u == b(0) + b(1) * 2^p
               v == u + b(2) * 2^(p + p)
               w == v + b(3) * 2^(p + p + p)
    <2>2. u \in 0 .. 2^(p + p) - 1
      BY <1>7
    <2> HIDE DEF u
    <2>3. v \in 0 .. 2^(p + p + p) - 1
      BY <2>0, <2>2, <1>3, Joined
    <2> HIDE DEF v
    <2>4. w \in 0 .. 2^(p + p + p + p) - 1
      BY <2>0, <2>3, <1>3, Joined
    <2>5. LoadBytes(m, a, n) = w
      <3>1. LoadBytes(m, a, n) = b(0) + b(1) * 2^p + b(2) * 2^(p + p) + b(3) * 2^(p + p + p)
        BY <1>2, <1>5, <1>9
      <3> QED
        BY <3>1 DEF u, v
    <2> QED
      BY <2>1, <2>4, <2>5
  <1> QED
    BY <1>4, <1>6, <1>8, <1>9

\* Each part of a machine may be replaced by another of its kind.
LEMMA Parts ==
  ASSUME NEW m \in Machines
  PROVE  /\ \A r \in [0 .. 7 -> Longs] : [m EXCEPT !.reg = r] \in Machines
         /\ \A x \in [Longs -> 0 .. 2^BYTE - 1] : [m EXCEPT !.mem = x] \in Machines
         /\ \A f \in FlagRecords : [m EXCEPT !.flags = f] \in Machines
         /\ \A f \in [stack : [0 .. 7 -> Longs], top : 0 .. 7] : [m EXCEPT !.fpu = f] \in Machines
         /\ \A k \in 0 .. 7, v \in Longs : [m EXCEPT !.reg[k] = v] \in Machines
  BY DEF Machines

\* The sum of base, index and displacement wraps to an address.
LEMMA AddressIs ==
  ASSUME NEW m \in Machines, NEW o, IsOperand(o), o.type = "mem"
  PROVE  Address(m, o) \in Longs /\ Address(m, o) \in Int
  <1> DEFINE R(k) == IF k = None THEN 0 ELSE m.reg[k]
  <1>1. o.base \in 0 .. 8 /\ o.index \in 0 .. 8 /\ o.scale \in Nat /\ o.disp \in Int
    BY DEF IsOperand, None
  <1>2. \A k \in 0 .. 8 : R(k) \in Nat
    BY MachineIs DEF None
  <1>3. R(o.base) \in Nat /\ R(o.index) \in Nat
    BY <1>1, <1>2
  <1>4. Address(m, o) = (R(o.base) + R(o.index) * o.scale + o.disp) % 2^LONG
    BY DEF Address
  <1> DEFINE x == R(o.base) + R(o.index) * o.scale + o.disp
  <1> HIDE DEF R
  <1>5. x \in Int
    BY <1>1, <1>3
  <1> HIDE DEF x
  <1>6. x % 2^LONG \in Longs /\ x % 2^LONG \in Int
    BY <1>5, InLong
  <1> QED
    BY <1>4, <1>6 DEF x

\* The byte of a register: the register, and the place of the byte in it
LEMMA ByteOf ==
  ASSUME NEW k \in 0 .. 7
  PROVE  /\ k % 4 \in 0 .. 7 /\ BYTE * (k \div 4) \in Nat /\ BYTE * (k \div 4) + BYTE =< LONG
         /\ 2^(BYTE * (k \div 4)) \in Nat \ {0}
  <1>1. k \div 4 \in {0, 1} /\ k % 4 \in 0 .. 3
    OBVIOUS
  <1>2. BYTE * (k \div 4) \in Nat /\ BYTE * (k \div 4) + BYTE =< LONG
    BY <1>1, ByteAssumption DEF LONG
  <1>3. 2^(BYTE * (k \div 4)) \in Nat \ {0}
    BY <1>2, Subsets
  <1> QED
    BY <1>1, <1>2, <1>3

\* operand_read returns a number of the operand's size.
LEMMA ReadIs ==
  ASSUME NEW m \in Machines, NEW o, IsOperand(o)
  PROVE  operand_read(m, o) \in 0 .. 2^o.n - 1
  <1>1. o.n \in Sizes /\ o.n \in 1 .. LONG
    BY SizesAre DEF IsOperand
  <1>2. CASE o.type = "imm"
    BY <1>2 DEF IsOperand, operand_read
  <1>3. CASE o.type = "mem"
    <2>1. operand_read(m, o) = LoadBytes(m, Address(m, o), o.n)
      BY <1>3 DEF operand_read
    <2> QED
      BY <2>1, <1>1, <1>3, AddressIs, LoadIs
  <1>4. CASE o.type = "reg"
    <2>0. o.addr \in 0 .. 7
      BY <1>4 DEF IsOperand
    <2>1. CASE o.n = BYTE
      <3> DEFINE p == 2^(BYTE * (o.addr \div 4))
                 x == m.reg[o.addr % 4]
                 d == x \div p
      <3>1. p \in Nat \ {0} /\ x \in Int
        BY <2>0, ByteOf, MachineIs
      <3>2. operand_read(m, o) = Mask(d, BYTE)
        BY <1>4, <2>1 DEF operand_read
      <3>3. d \in Int
        <4> HIDE DEF p, x
        <4> QED
          BY <3>1, DivMod
      <3> HIDE DEF d
      <3> QED
        BY <3>2, <3>3, <1>1, <2>1, MaskIs
    <2>2. CASE o.n # BYTE
      <3>1. operand_read(m, o) = Mask(m.reg[o.addr], o.n)
        BY <1>4, <2>2 DEF operand_read
      <3>2. m.reg[o.addr] \in Int
        BY <2>0, MachineIs
      <3> QED
        BY <3>1, <3>2, <1>1, MaskIs
    <2> QED
      BY <2>1, <2>2
  <1> QED
    BY <1>2, <1>3, <1>4 DEF IsOperand

\* The same, as a long
LEMMA ReadInt ==
  ASSUME NEW m \in Machines, NEW o, IsOperand(o)
  PROVE  operand_read(m, o) \in Nat /\ operand_read(m, o) \in Longs
  <1>1. o.n \in 1 .. LONG
    BY SizesAre DEF IsOperand
  <1>2. operand_read(m, o) \in 0 .. 2^o.n - 1 /\ 2^o.n \in Nat /\ 2^o.n =< 2^LONG /\ 2^LONG \in Nat
    BY <1>1, ReadIs, Widths
  <1> QED
    BY <1>2 DEF Longs

\* n bits of a long may be replaced by any.
LEMMA PutIs ==
  ASSUME NEW x \in Longs, NEW lo \in Nat, NEW n \in Nat, lo + n =< LONG, NEW v \in Int
  PROVE  Put(x, lo, n, v) \in Longs /\ (Put(x, lo, n, v) \div 2^lo) % 2^n = v % 2^n
  <1> DEFINE w == 2^n
             p == 2^lo
             q == 2^(LONG - lo - n)
             l == 2^LONG
             d == x \div p
             r == x % p
             c == d \div w
             f == d % w
             z == v % w
  <1>1. w \in Nat \ {0} /\ p \in Nat \ {0} /\ q \in Nat \ {0} /\ l = p * (w * q) /\ l \in Nat
    <2>1. n + (LONG - lo - n) \in Nat /\ LONG - lo - n \in Nat
          /\ lo + (n + (LONG - lo - n)) = LONG /\ LONG \in Nat
      BY LongIs
    <2>2. 2^(n + (LONG - lo - n)) = w * q
      BY <2>1, PowerSum
    <2>3. 2^(lo + (n + (LONG - lo - n))) = p * 2^(n + (LONG - lo - n))
      BY <2>1, PowerSum
    <2> QED
      BY <2>1, <2>2, <2>3, Subsets
  <1>2. x \in 0 .. l - 1
    BY DEF Longs
  <1> HIDE DEF w, p, q, l
  <1>3. x = p * d + r /\ r \in 0 .. p - 1 /\ d \in Int
    BY <1>1, <1>2, DivMod
  <1> HIDE DEF d, r
  <1>4. d = w * c + f /\ f \in 0 .. w - 1 /\ c \in Int
    BY <1>1, <1>3, DivMod
  <1>5. z \in 0 .. w - 1
    BY <1>1, DivMod
  <1>6. Put(x, lo, n, v) = x + (z - f) * p
    BY DEF Put, z, f, d, w, p
  <1> HIDE DEF c, f, z
  <1> DEFINE e == w * c + z
  <1>7. e \in Int /\ x + (z - f) * p = p * e + r
    <2>1. (z - f) * p = p * z - p * f
      BY <1>1, <1>4, <1>5
    <2>2. p * d = p * (w * c) + p * f
      BY <1>1, <1>4
    <2>3. p * e = p * (w * c) + p * z
      BY <1>1, <1>4, <1>5
    <2> QED
      BY <2>1, <2>2, <2>3, <1>1, <1>2, <1>3, <1>4, <1>5
  <1>8. e % w = z
    <2>1. e \in Int /\ c \in Int /\ e = w * c + z
      BY <1>7, <1>4
    <2> HIDE DEF e
    <2> QED
      BY <2>1, <1>1, <1>5, Division
  <1>9. c \in 0 .. q - 1
    <2> DEFINE t == w * q
    <2>1. t \in Nat \ {0} /\ l = p * t
      BY <1>1
    <2> HIDE DEF t
    <2>2. d \in 0 .. t - 1
      <3>1. CASE d < 0
        <4>1. p * d =< -p
          BY <3>1, <1>1, <1>3
        <4> QED
          BY <4>1, <1>1, <1>2, <1>3
      <3>2. CASE d >= t
        <4>1. p * d >= p * t
          BY <3>2, <2>1, <1>1, <1>3
        <4> QED
          BY <4>1, <2>1, <1>1, <1>2, <1>3
      <3> QED
        BY <3>1, <3>2, <1>3, <2>1
    <2>3. ~(c < 0)
      <3>1. c < 0 => w * c =< -w
        BY <1>1, <1>4
      <3> QED
        BY <3>1, <2>2, <1>1, <1>4
    <2>4. ~(c >= q)
      <3>1. c >= q => w * c >= w * q
        BY <1>1, <1>4
      <3> QED
        BY <3>1, <2>2, <1>1, <1>4 DEF t
    <2> QED
      BY <2>3, <2>4, <1>1, <1>4
  <1>10. e \in 0 .. w * q - 1
    <2> DEFINE s == w * c
               t == w * q
    <2>1. s =< w * (q - 1) /\ s >= 0 /\ w * (q - 1) = t - w /\ t \in Int /\ s \in Int
      BY <1>1, <1>9
    <2>2. e = s + z
      OBVIOUS
    <2> HIDE DEF s, t, e
    <2>3. e \in 0 .. t - 1
      BY <2>1, <2>2, <1>1, <1>5
    <2> QED
      BY <2>3 DEF t
  <1> HIDE DEF e
  <1>11. (p * e + r) \div p = e
    <2> DEFINE y == p * e + r
    <2>1. y \in Int /\ y = p * e + r
      BY <1>1, <1>3, <1>7
    <2> HIDE DEF y
    <2>2. y \div p = e
      BY <2>1, <1>1, <1>3, <1>7, Division
    <2> QED
      BY <2>2 DEF y
  <1>12. p * e + r \in 0 .. l - 1
    <2> DEFINE t == w * q
    <2>1. t \in Nat \ {0} /\ l = p * t /\ e \in 0 .. t - 1
      BY <1>1, <1>10
    <2> HIDE DEF t
    <2>2. p * e =< p * (t - 1) /\ p * e >= 0 /\ p * (t - 1) = p * t - p /\ p * t \in Int
      BY <2>1, <1>1
    <2> QED
      BY <2>1, <2>2, <1>1, <1>3
  <1> QED
    BY <1>6, <1>7, <1>8, <1>11, <1>12 DEF Longs, l, w, p, z

\* vaddr_write leaves bytes, whatever it is given.
LEMMA StoreIs ==
  ASSUME NEW m \in Machines, NEW a \in Int, NEW n, NEW v \in Int
  PROVE  StoreBytes(m, a, n, v) \in Machines
  <1> DEFINE f == [x \in Longs |->
                     LET k == (x - a) % 2^LONG
                     IN  IF k < n \div BYTE THEN (v \div 2^(BYTE * k)) % 2^BYTE ELSE m.mem[x]]
  <1>1. ASSUME NEW x \in Longs
        PROVE  f[x] \in 0 .. 2^BYTE - 1
    <2> DEFINE d == x - a
               k == d % 2^LONG
               p == 2^(BYTE * k)
               e == v \div p
    <2>1. d \in Int
      BY DEF Longs
    <2>2. k \in Nat
      <3> HIDE DEF d
      <3> QED
        BY <2>1, InLong DEF Longs
    <2>3. p \in Nat \ {0} /\ 2^BYTE \in Nat \ {0}
      <3> HIDE DEF k
      <3>1. BYTE * k \in Nat /\ BYTE \in Nat
        BY <2>2, ByteAssumption
      <3> QED
        BY <3>1, Subsets
    <2>4. f[x] = IF k < n \div BYTE THEN e % 2^BYTE ELSE m.mem[x]
      OBVIOUS
    <2> HIDE DEF p
    <2>5. e \in Int
      BY <2>3, DivMod
    <2> HIDE DEF e, k, d, f
    <2> DEFINE w == 2^BYTE
    <2>6. w \in Nat \ {0}
      BY <2>3
    <2> HIDE DEF w
    <2>7. e % w \in 0 .. w - 1
      BY <2>5, <2>6, DivMod
    <2>8. m.mem[x] \in 0 .. w - 1
      BY MachineIs DEF w
    <2> QED
      BY <2>4, <2>7, <2>8 DEF w
  <1>2. StoreBytes(m, a, n, v) = [m EXCEPT !.mem = f]
    BY DEF StoreBytes
  <1>3. f \in [Longs -> 0 .. 2^BYTE - 1]
    <2>1. f = [x \in Longs |-> f[x]]
      OBVIOUS
    <2> HIDE DEF f
    <2> QED
      BY <1>1, <2>1
  <1> HIDE DEF f
  <1> QED
    BY <1>2, <1>3, Parts

\* operand_write leaves a machine, whatever it is given.
LEMMA WriteIs ==
  ASSUME NEW m \in Machines, NEW o, IsOperand(o), o.type # "imm", NEW v \in Int
  PROVE  operand_write(m, o, v) \in Machines
  <1>1. o.n \in Sizes /\ o.n \in Nat /\ o.n =< LONG
    BY SizesAre DEF IsOperand
  <1>2. CASE o.type = "mem"
    <2>1. operand_write(m, o, v) = StoreBytes(m, Address(m, o), o.n, v)
      BY <1>2 DEF operand_write
    <2> QED
      BY <2>1, <1>2, AddressIs, StoreIs
  <1>3. CASE o.type = "reg"
    <2>0. o.addr \in 0 .. 7
      BY <1>3 DEF IsOperand
    <2>1. CASE o.n = BYTE
      <3> DEFINE lo == BYTE * (o.addr \div 4)
                 k == o.addr % 4
                 x == Put(m.reg[k], lo, BYTE, v)
      <3>1. lo \in Nat /\ k \in 0 .. 7 /\ lo + BYTE =< LONG /\ BYTE \in Nat
        BY <2>0, ByteOf, LongIs
      <3>2. operand_write(m, o, v) = [m EXCEPT !.reg[k] = x]
        BY <1>3, <2>1 DEF operand_write
      <3> HIDE DEF k, lo
      <3>3. x \in Longs
        BY <3>1, MachineIs, PutIs
      <3> QED
        BY <3>1, <3>2, <3>3, Parts
    <2>2. CASE o.n # BYTE
      <3> DEFINE x == Put(m.reg[o.addr], 0, o.n, v)
      <3>1. operand_write(m, o, v) = [m EXCEPT !.reg[o.addr] = x]
        BY <1>3, <2>2 DEF operand_write
      <3>2. m.reg[o.addr] \in Longs /\ 0 \in Nat /\ 0 + o.n =< LONG
        BY <1>1, <2>0, MachineIs
      <3>3. x \in Longs
        BY <1>1, <3>2, PutIs
      <3> QED
        BY <2>0, <3>1, <3>3, Parts
    <2> QED
      BY <2>1, <2>2
  <1> QED
    BY <1>2, <1>3 DEF IsOperand

-------------------------------------------------------------------------------
(* The stack *)

\* A register moves by a number of bytes, around the end of memory.
LEMMA MovedIs ==
  ASSUME NEW m \in Machines, NEW k \in 0 .. 7, NEW n \in Int
  PROVE  /\ (m.reg[k] + n \div BYTE) % 2^LONG \in Longs
         /\ (m.reg[k] - n \div BYTE) % 2^LONG \in Longs
         /\ (m.reg[k] - n \div BYTE) % 2^LONG \in Int
  <1> DEFINE d == n \div BYTE
             u == m.reg[k] + d
             v == m.reg[k] - d
  <1>1. d \in Int
    BY ByteAssumption, DivMod
  <1>2. m.reg[k] \in Nat
    BY MachineIs
  <1> HIDE DEF d
  <1>3. u \in Int /\ v \in Int
    BY <1>1, <1>2
  <1> HIDE DEF u, v
  <1>4. u % 2^LONG \in Longs /\ v % 2^LONG \in Longs /\ v % 2^LONG \in Int
    BY <1>3, InLong
  <1> QED
    BY <1>4 DEF u, v, d

\* push
LEMMA PushIs ==
  ASSUME NEW m \in Machines, NEW v \in Int, NEW n \in Sizes
  PROVE  PushValue(m, v, n) \in Machines
  <1> DEFINE esp == (m.reg[ESP] - n \div BYTE) % 2^LONG
  <1>1. ESP \in 0 .. 7 /\ n \in Int
    BY SizesAre DEF ESP
  <1>2. esp \in Longs /\ esp \in Int
    BY <1>1, MovedIs
  <1>3. PushValue(m, v, n) = StoreBytes([m EXCEPT !.reg[ESP] = esp], esp, n, v)
    BY DEF PushValue
  <1> HIDE DEF esp
  <1>4. [m EXCEPT !.reg[ESP] = esp] \in Machines
    BY <1>1, <1>2, Parts
  <1> QED
    BY <1>2, <1>3, <1>4, StoreIs

\* The top of the stack
LEMMA TopIs ==
  ASSUME NEW m \in Machines, NEW n \in Sizes
  PROVE  TopValue(m, n) \in Longs /\ TopValue(m, n) \in Int
  <1>1. m.reg[ESP] \in Int
    BY MachineIs DEF ESP
  <1>2. LoadBytes(m, m.reg[ESP], n) \in 0 .. 2^n - 1
    BY <1>1, LoadIs
  <1>3. 2^n \in Nat /\ 2^LONG \in Nat /\ 2^n =< 2^LONG
    BY SizesAre, Widths
  <1> QED
    BY <1>2, <1>3 DEF TopValue, Longs

\* Moving a register on leaves the others alone.
LEMMA ForwardIs ==
  ASSUME NEW m \in Machines, NEW k \in 0 .. 7, NEW n \in Int
  PROVE  /\ Forward(m, k, n) \in Machines
         /\ \A j \in 0 .. 7 : j # k => Forward(m, k, n).reg[j] = m.reg[j]
  <1> DEFINE x == (m.reg[k] + n \div BYTE) % 2^LONG
  <1>1. Forward(m, k, n) = [m EXCEPT !.reg[k] = x]
    BY DEF Forward
  <1>2. x \in Longs
    BY MovedIs
  <1> HIDE DEF x
  <1>3. Forward(m, k, n) \in Machines
    BY <1>1, <1>2, Parts
  <1>4. \A j \in 0 .. 7 : j # k => [m EXCEPT !.reg[k] = x].reg[j] = m.reg[j]
    BY DEF Machines
  <1> QED
    BY <1>1, <1>3, <1>4

\* What pop does to esp
LEMMA DropIs ==
  ASSUME NEW m \in Machines, NEW n \in Int
  PROVE  Drop(m, n) \in Machines
  <1>1. ESP \in 0 .. 7
    BY DEF ESP
  <1>2. Drop(m, n) = Forward(m, ESP, n)
    BY DEF Drop
  <1> QED
    BY <1>1, <1>2, ForwardIs

\* A register is an operand.
LEMMA RegisterIs ==
  ASSUME NEW k \in 0 .. 7, NEW n \in Sizes
  PROVE  IsOperand(Reg(k, n)) /\ Reg(k, n).type = "reg" /\ Reg(k, n).n = n /\ Reg(k, n).addr = k
  BY DEF IsOperand, Reg

\* A result for EAX and EDX
LEMMA DoubleIs ==
  ASSUME NEW m \in Machines, NEW n \in Sizes, NEW low \in Int, NEW high \in Int
  PROVE  Double(m, n, low, high) \in Machines
  <1>1. /\ IsOperand(Reg(EAX, n)) /\ Reg(EAX, n).type # "imm"
        /\ IsOperand(Reg(EDX, n)) /\ Reg(EDX, n).type # "imm"
    BY RegisterIs DEF EAX, EDX
  <1>2. operand_write(m, Reg(EAX, n), low) \in Machines
    BY <1>1, WriteIs
  <1>3. operand_write(operand_write(m, Reg(EAX, n), low), Reg(EDX, n), high) \in Machines
    BY <1>1, <1>2, WriteIs
  <1> QED
    BY <1>3 DEF Double

-------------------------------------------------------------------------------
(* Strings *)

\* A store leaves the registers alone.
LEMMA StoreKeeps ==
  ASSUME NEW m \in Machines, NEW a, NEW n, NEW v
  PROVE  StoreBytes(m, a, n, v).reg = m.reg
  BY DEF StoreBytes, Machines

\* movs and stos leave a machine, and ECX alone.
LEMMA OneStringIs ==
  ASSUME NEW op, NEW m \in Machines, NEW n \in Sizes
  PROVE  OneString(op, m, n) \in Machines /\ OneString(op, m, n).reg[ECX] = m.reg[ECX]
  <1>0. EDI \in 0 .. 7 /\ ESI \in 0 .. 7 /\ ECX \in 0 .. 7 /\ EAX \in 0 .. 7 /\ ECX # EDI /\ ECX # ESI
        /\ n \in Int
    BY SizesAre DEF EAX, ECX, EDI, ESI
  <1>1. m.reg[EDI] \in Int /\ m.reg[ESI] \in Int
    BY <1>0, MachineIs
  <1>2. movs(m, n) \in Machines /\ movs(m, n).reg[ECX] = m.reg[ECX]
    <2> DEFINE v == LoadBytes(m, m.reg[ESI], n)
               s == StoreBytes(m, m.reg[EDI], n, v)
               t == Forward(s, ESI, n)
    <2>1. v \in Int
      <3>1. v \in 0 .. 2^n - 1 /\ 2^n \in Nat
        BY <1>1, LoadIs, SizesAre, Widths
      <3> QED
        BY <3>1
    <2>2. movs(m, n) = Forward(t, EDI, n)
      BY DEF movs
    <2> HIDE DEF v
    <2>3. s \in Machines /\ s.reg = m.reg
      BY <1>1, <2>1, StoreIs, StoreKeeps
    <2> HIDE DEF s
    <2>4. t \in Machines /\ t.reg[ECX] = s.reg[ECX]
      BY <1>0, <2>3, ForwardIs
    <2> HIDE DEF t
    <2>5. Forward(t, EDI, n) \in Machines /\ Forward(t, EDI, n).reg[ECX] = t.reg[ECX]
      BY <1>0, <2>4, ForwardIs
    <2> QED
      BY <2>2, <2>3, <2>4, <2>5
  <1>3. stos(m, n) \in Machines /\ stos(m, n).reg[ECX] = m.reg[ECX]
    <2> DEFINE v == operand_read(m, Reg(EAX, n))
               s == StoreBytes(m, m.reg[EDI], n, v)
    <2>1. v \in Int
      BY <1>0, RegisterIs, ReadInt
    <2>2. stos(m, n) = Forward(s, EDI, n)
      BY DEF stos
    <2> HIDE DEF v
    <2>3. s \in Machines /\ s.reg = m.reg
      BY <1>1, <2>1, StoreIs, StoreKeeps
    <2> HIDE DEF s
    <2>4. Forward(s, EDI, n) \in Machines /\ Forward(s, EDI, n).reg[ECX] = s.reg[ECX]
      BY <1>0, <2>3, ForwardIs
    <2> QED
      BY <2>2, <2>3, <2>4
  <1> QED
    BY <1>2, <1>3 DEF OneString

\* One round of rep_repe, and count rounds of it
Round(op, n, m) == [OneString(op, m, n) EXCEPT !.reg[ECX] = @ - 1]
Rounds(op, n, m, count, after) ==
  after = [k \in 0 .. count |-> IF k = 0 THEN m ELSE Round(op, n, after[k - 1])]

\* The recursion of Repeated has a function.
LEMMA RoundsExist ==
  ASSUME NEW op, NEW n, NEW m, NEW count \in Nat
  PROVE  \E after : Rounds(op, n, m, count, after)
  <1> DEFINE S == {c \in Nat : \E after : Rounds(op, n, m, c, after)}
             G(f, k) == IF k = 0 THEN m ELSE Round(op, n, f[k - 1])
  <1>1. 0 \in S
    <2> DEFINE f == [k \in 0 .. 0 |-> m]
    <2>1. f = [k \in 0 .. 0 |-> IF k = 0 THEN m ELSE Round(op, n, f[k - 1])]
      OBVIOUS
    <2> QED
      BY <2>1 DEF Rounds
  <1>2. ASSUME NEW c \in Nat, c \in S PROVE c + 1 \in S
    <2>1. PICK f : f = [k \in 0 .. c |-> G(f, k)]
      BY <1>2 DEF Rounds
    <2> DEFINE g == [k \in 0 .. c + 1 |-> IF k = c + 1 THEN G(f, k) ELSE f[k]]
    <2>2. ASSUME NEW k \in 0 .. c + 1 PROVE g[k] = G(g, k)
      <3>1. k # 0 => k - 1 \in 0 .. c /\ g[k - 1] = f[k - 1]
        OBVIOUS
      <3>2. CASE k = c + 1
        BY <3>1, <3>2
      <3>3. CASE k # c + 1
        <4>1. k \in 0 .. c /\ g[k] = f[k]
          BY <3>3
        <4>2. f[k] = G(f, k)
          BY <4>1, <2>1
        <4> HIDE DEF g
        <4> QED
          BY <3>1, <4>1, <4>2
      <3> QED
        BY <3>2, <3>3
    <2>3. g = [k \in 0 .. c + 1 |-> g[k]]
      OBVIOUS
    <2>4. g = [k \in 0 .. c + 1 |-> G(g, k)]
      <3> HIDE DEF g, G
      <3> QED
        BY <2>2, <2>3
    <2> HIDE DEF g
    <2>5. Rounds(op, n, m, c + 1, g)
      BY <2>4 DEF Rounds
    <2> QED
      BY <2>5
  <1>3. Nat \subseteq S
    <2> HIDE DEF S
    <2> QED
      BY <1>1, <1>2, SetInduction
  <1> QED
    BY <1>3

\* rep ends with a machine, after as many rounds as ECX says.
LEMMA RepeatedIs ==
  ASSUME machine \in Machines, NEW op, NEW n \in Sizes
  PROVE  Repeated(op, n) \in Machines
  <1> DEFINE count == reg[ECX]
             after == CHOOSE after : Rounds(op, n, machine, count, after)
             S == {k \in Nat : k =< count => after[k] \in Machines /\ after[k].reg[ECX] = count - k}
  <1>0. ECX \in 0 .. 7 /\ machine.reg = reg
    BY DEF ECX, machine
  <1>1. count \in Nat /\ count \in Longs
    BY <1>0, MachineIs
  <1>2. Repeated(op, n) = after[count]
    BY DEF Repeated, Rounds, Round
  <1>3. Rounds(op, n, machine, count, after)
    <2> HIDE DEF count
    <2> QED
      BY <1>1, RoundsExist
  <1> HIDE DEF after, count
  <1>4. \A k \in 0 .. count : after[k] = IF k = 0 THEN machine ELSE Round(op, n, after[k - 1])
    BY <1>3 DEF Rounds
  <1>5. 0 \in S
    BY <1>0, <1>1, <1>4 DEF count
  <1>6. ASSUME NEW k \in Nat, k \in S PROVE k + 1 \in S
    <2> SUFFICES ASSUME k + 1 =< count
                 PROVE  after[k + 1] \in Machines /\ after[k + 1].reg[ECX] = count - (k + 1)
      OBVIOUS
    <2>1. k \in 0 .. count /\ k + 1 \in 0 .. count /\ k + 1 # 0 /\ (k + 1) - 1 = k
      BY <1>1
    <2>2. after[k] \in Machines /\ after[k].reg[ECX] = count - k
      BY <1>6, <2>1
    <2>3. after[k + 1] = Round(op, n, after[k])
      BY <2>1, <1>4
    <2> DEFINE s == OneString(op, after[k], n)
    <2>4. s \in Machines /\ s.reg[ECX] = count - k
      BY <2>2, OneStringIs
    <2>5. after[k + 1] = [s EXCEPT !.reg[ECX] = count - k - 1]
      BY <2>3, <2>4 DEF Round
    <2> HIDE DEF s, S
    <2>6. count - k - 1 \in Longs /\ count - k - 1 = count - (k + 1)
      BY <1>1, <2>1, LongIs, Subsets DEF Longs
    <2> DEFINE y == count - k - 1
    <2>7. y \in Longs /\ after[k + 1] = [s EXCEPT !.reg[ECX] = y]
      BY <2>5, <2>6
    <2> HIDE DEF y
    <2>8. [s EXCEPT !.reg[ECX] = y] \in Machines
      BY <1>0, <2>4, <2>7, Parts
    <2>9. [s EXCEPT !.reg[ECX] = y].reg[ECX] = y
      BY <1>0, <2>4 DEF Machines
    <2> QED
      BY <2>6, <2>7, <2>8, <2>9 DEF y
  <1>7. Nat \subseteq S
    <2> HIDE DEF S
    <2> QED
      BY <1>5, <1>6, SetInduction
  <1>8. count \in S
    BY <1>1, <1>7
  <1> QED
    BY <1>1, <1>2, <1>8

-------------------------------------------------------------------------------
(* Floats *)

\* A set of numbers below n that is not empty has a least one.
LEMMA Least ==
  ASSUME NEW S, NEW n \in Nat, n \in S
  PROVE  \E k \in 0 .. n : k \in S /\ \A j \in 0 .. k - 1 : j \notin S
  <1> DEFINE J == S \cap (0 .. n)
  <1>1. PICK k \in J : \A y \in J : ~(<<y, k>> \in OpToRel(<, Nat))
    <2>1. J \subseteq Nat /\ n \in J
      OBVIOUS
    <2> HIDE DEF J
    <2> QED
      BY <2>1, NatLessThanWellFounded, WFMin
  <1>2. ASSUME NEW j \in 0 .. k - 1, j \in S PROVE FALSE
    <2>1. j \in J /\ j < k /\ k \in Nat /\ j \in Nat
      BY <1>2
    <2>2. <<j, k>> \in OpToRel(<, Nat)
      BY <2>1 DEF OpToRel
    <2> QED
      BY <1>1, <2>1, <2>2
  <1> QED
    BY <1>2

\* Sign, exponent and significand fill a long.
LEMMA FloatWidths ==
  /\ 2^EXPONENT \in Nat \ {0} /\ 2^EXPONENT >= 2 /\ 2^FRACTION \in Nat \ {0} /\ N_ZERO_F \in Nat \ {0}
  /\ N_ZERO_F = 2^EXPONENT * 2^FRACTION /\ 2^LONG = 2 * N_ZERO_F
  /\ 2^(FRACTION - 1) \in Nat /\ 2^FRACTION = 2 * 2^(FRACTION - 1)
  /\ 2^(FRACTION + 1) = 2 * 2^FRACTION /\ 2^(FRACTION + 3) = 8 * 2^FRACTION
  /\ MaxExponent \in Nat /\ MaxExponent >= 1 /\ Bias \in Nat
  /\ P_INF_F = N_ZERO_F - 2^FRACTION
  <1>0. EXPONENT \in Nat /\ EXPONENT - 1 \in Nat /\ FRACTION \in Nat /\ FRACTION - 1 \in Nat
        /\ (EXPONENT - 1) + 1 = EXPONENT /\ (FRACTION - 1) + 1 = FRACTION
        /\ EXPONENT + FRACTION \in Nat /\ (EXPONENT + FRACTION) + 1 = LONG
        /\ FRACTION + 1 \in Nat /\ FRACTION + 2 \in Nat
        /\ (FRACTION + 1) + 1 = FRACTION + 2 /\ (FRACTION + 2) + 1 = FRACTION + 3
    BY FloatAssumption, FloatIsLong
  <1>1. /\ 2^EXPONENT \in Nat \ {0} /\ 2^(EXPONENT - 1) \in Nat \ {0} /\ 2^FRACTION \in Nat \ {0}
        /\ 2^(FRACTION - 1) \in Nat \ {0} /\ N_ZERO_F \in Nat \ {0}
    BY <1>0, Subsets DEF N_ZERO_F
  <1>2. N_ZERO_F = 2^EXPONENT * 2^FRACTION
    BY <1>0, PowerSum DEF N_ZERO_F
  <1>3. 2^LONG = 2 * N_ZERO_F
    <2>1. 2^((EXPONENT + FRACTION) + 1) = 2 * 2^(EXPONENT + FRACTION)
      BY <1>0, PowerStep
    <2> QED
      BY <2>1, <1>0 DEF N_ZERO_F
  <1>4. 2^EXPONENT = 2 * 2^(EXPONENT - 1)
    <2>1. 2^((EXPONENT - 1) + 1) = 2 * 2^(EXPONENT - 1)
      BY <1>0, PowerStep
    <2> QED
      BY <2>1, <1>0
  <1>5. 2^FRACTION = 2 * 2^(FRACTION - 1)
    <2>1. 2^((FRACTION - 1) + 1) = 2 * 2^(FRACTION - 1)
      BY <1>0, PowerStep
    <2> QED
      BY <2>1, <1>0
  <1>6. 2^(FRACTION + 1) = 2 * 2^FRACTION
    BY <1>0, PowerStep
  <1>7. 2^((FRACTION + 1) + 1) = 2 * 2^(FRACTION + 1)
    BY <1>0, PowerStep
  <1>8. 2^((FRACTION + 2) + 1) = 2 * 2^(FRACTION + 2)
    BY <1>0, PowerStep
  <1>9. 2^(FRACTION + 3) = 8 * 2^FRACTION
    <2> DEFINE f == 2^FRACTION
    <2>1. f \in Nat
      BY <1>1
    <2> HIDE DEF f
    <2>2. 2^(FRACTION + 2) = 2 * (2 * f)
      BY <1>0, <1>6, <1>7 DEF f
    <2>3. 2^(FRACTION + 3) = 2 * (2 * (2 * f))
      BY <2>2, <1>0, <1>8
    <2>4. 2 * (2 * (2 * f)) = 8 * f
      BY <2>1
    <2> QED
      BY <2>3, <2>4 DEF f
  <1>10. MaxExponent \in Nat /\ MaxExponent >= 1 /\ Bias \in Nat /\ 2^EXPONENT >= 2
    <2> DEFINE e == 2^(EXPONENT - 1)
    <2>1. e \in Nat \ {0} /\ 2^EXPONENT = 2 * e /\ MaxExponent = 2 * e - 1 /\ Bias = e - 1
      BY <1>1, <1>4 DEF MaxExponent, Bias
    <2> HIDE DEF e
    <2> QED
      BY <2>1
  <1>11. P_INF_F = N_ZERO_F - 2^FRACTION
    <2> DEFINE e == 2^EXPONENT
               f == 2^FRACTION
    <2>1. e \in Nat /\ f \in Nat /\ P_INF_F = (e - 1) * f /\ N_ZERO_F = e * f
      BY <1>1, <1>2 DEF P_INF_F, MaxExponent
    <2> HIDE DEF e, f
    <2>2. (e - 1) * f = e * f - f
      BY <2>1
    <2> QED
      BY <2>1, <2>2 DEF f
  <1> QED
    BY <1>1, <1>2, <1>3, <1>5, <1>6, <1>9, <1>10, <1>11

\* Zeros, infinities and NaNs are longs.
LEMMA CodesAre ==
  /\ P_ZERO_F \in Longs /\ N_ZERO_F \in Longs /\ P_INF_F \in Longs /\ N_INF_F \in Longs
  /\ P_NAN_F \in Longs /\ N_NAN_F \in Longs /\ P_INF_F \in 0 .. N_ZERO_F - 1 /\ N_ZERO_F + P_INF_F \in Longs
  <1> DEFINE n == N_ZERO_F
             f == 2^FRACTION
             h == 2^(FRACTION - 1)
             l == 2^LONG
  <1>1. n \in Nat \ {0} /\ f \in Nat \ {0} /\ h \in Nat /\ f = 2 * h /\ l = 2 * n /\ P_INF_F = n - f
        /\ f =< n
    <2> DEFINE e == 2^EXPONENT
    <2>1. e \in Nat \ {0} /\ n = e * f /\ f \in Nat
      BY FloatWidths
    <2> HIDE DEF e, n, f
    <2>2. f =< e * f
      BY <2>1
    <2> QED
      BY <2>1, <2>2, FloatWidths DEF n, f
  <1> HIDE DEF n, f, h, l
  <1>2. P_ZERO_F = 0 /\ N_ZERO_F = n /\ N_INF_F = n + P_INF_F /\ P_NAN_F = P_INF_F + h /\ N_NAN_F = n + P_NAN_F
    BY DEF P_ZERO_F, N_INF_F, P_NAN_F, N_NAN_F, n, h
  <1>3. Longs = 0 .. l - 1
    BY DEF Longs, l
  <1> QED
    BY <1>1, <1>2, <1>3

\* A long taken apart as sign, exponent and fraction
LEMMA PartsOf ==
  ASSUME NEW x \in Longs
  PROVE  /\ SignOf(x) \in {0, 1} /\ ExponentOf(x) \in 0 .. MaxExponent /\ FractionOf(x) \in 0 .. 2^FRACTION - 1
         /\ Significand(x) \in 0 .. 2 * 2^FRACTION - 1 /\ Scale(x) \in Nat
         /\ Negated(x) \in Longs
         /\ x \notin Zeros => Significand(x) # 0
  <1> DEFINE n == N_ZERO_F
             e == 2^EXPONENT
             f == 2^FRACTION
             l == 2^LONG
             s == x \div n
             d == x \div f
             r == x % f
             q == d \div e
             c == d % e
  <1>1. n \in Nat \ {0} /\ f \in Nat \ {0} /\ e \in Nat \ {0} /\ n = e * f /\ l = 2 * n /\ MaxExponent = e - 1
    BY FloatWidths DEF MaxExponent
  <1>2. x \in 0 .. 2 * n - 1
    BY <1>1 DEF Longs
  <1> HIDE DEF n, e, f, l
  <1>3. s \in {0, 1} /\ x - n * s \in 0 .. n - 1
    <2>1. CASE x < n
      <3>1. x \in 0 .. n - 1
        BY <2>1, <1>1, <1>2
      <3>2. s = 0
        BY <3>1, <1>1, ModSmall
      <3> HIDE DEF s
      <3> QED
        BY <3>1, <3>2, <1>1
    <2>2. CASE x >= n
      <3>1. x = n * 1 + (x - n) /\ x - n \in 0 .. n - 1 /\ x \in Int
        BY <2>2, <1>1, <1>2
      <3>2. s = 1
        BY <3>1, <1>1, Division
      <3> HIDE DEF s
      <3> QED
        BY <3>1, <3>2, <1>1
    <2> QED
      BY <2>1, <2>2, <1>1, <1>2
  <1>4. x = f * d + r /\ r \in 0 .. f - 1 /\ d \in Int
    BY <1>1, <1>2, DivMod
  <1> HIDE DEF s, d, r
  <1>5. d = e * q + c /\ c \in 0 .. e - 1 /\ q \in Int
    BY <1>1, <1>4, DivMod
  <1> HIDE DEF c, q
  <1>6. SignOf(x) = s /\ ExponentOf(x) = c /\ FractionOf(x) = r
    BY DEF SignOf, ExponentOf, FractionOf, s, c, r, d, n, e, f
  <1>7. Significand(x) = r + (IF c # 0 THEN f ELSE 0) /\ Scale(x) = (IF c = 0 THEN 1 ELSE c)
    BY <1>6 DEF Significand, Scale, f
  <1>8. Negated(x) \in Longs
    <2>1. Negated(x) = IF s = 1 THEN x - n ELSE x + n
      BY <1>6 DEF Negated, n
    <2>2. Longs = 0 .. 2 * n - 1
      BY <1>1 DEF Longs, l
    <2> QED
      BY <2>1, <2>2, <1>1, <1>2, <1>3
  <1>9. ASSUME r + (IF c # 0 THEN f ELSE 0) = 0 PROVE x \in Zeros
    <2>1. r = 0 /\ c = 0
      BY <1>9, <1>1, <1>4
    <2>2. x = f * (e * q)
      BY <2>1, <1>1, <1>4, <1>5
    <2>3. f * (e * q) = (e * f) * q
      BY <1>1, <1>5
    <2>4. x = n * q
      BY <2>2, <2>3, <1>1
    <2>5. q \in {0, 1}
      <3>1. q < 0 => n * q < 0
        BY <1>1, <1>5
      <3>2. q >= 2 => n * q >= 2 * n
        BY <1>1, <1>5
      <3> QED
        BY <3>1, <3>2, <2>4, <1>1, <1>2, <1>5
    <2>6. n * 0 = 0 /\ n * 1 = n
      BY <1>1
    <2>7. x = 0 \/ x = n
      BY <2>4, <2>5, <2>6
    <2> QED
      BY <2>7 DEF Zeros, P_ZERO_F, n
  <1>10. r + (IF c # 0 THEN f ELSE 0) \in 0 .. 2 * f - 1
    BY <1>1, <1>4, <1>5
  <1>11. SignOf(x) \in {0, 1} /\ ExponentOf(x) \in 0 .. MaxExponent /\ FractionOf(x) \in 0 .. f - 1
    BY <1>1, <1>3, <1>4, <1>5, <1>6
  <1>12. Significand(x) \in 0 .. 2 * f - 1 /\ Scale(x) \in Nat
    BY <1>5, <1>7, <1>10
  <1>13. x \notin Zeros => Significand(x) # 0
    BY <1>7, <1>9
  <1> QED
    BY <1>8, <1>11, <1>12, <1>13 DEF f

\* What Sticky keeps of the bits that are shifted out
LEMMA StickyIs ==
  ASSUME NEW sig \in Nat, NEW k \in Nat
  PROVE  Sticky(sig, k) \in 0 .. sig /\ (sig =< 2^k => Sticky(sig, k) =< 2)
  <1> DEFINE p == 2^k
             q == sig \div p
             r == sig % p
  <1>1. p \in Nat \ {0}
    BY Subsets
  <1> HIDE DEF p
  <1>2. sig = p * q + r /\ r \in 0 .. p - 1 /\ q \in Int
    BY <1>1, DivMod
  <1>3. Sticky(sig, k) = IF r # 0 /\ q % 2 = 0 THEN q + 1 ELSE q
    BY DEF Sticky, p
  <1> HIDE DEF q, r
  <1>4. q >= 0
    <2>1. q < 0 => p * q =< -p
      BY <1>1, <1>2
    <2> QED
      BY <2>1, <1>1, <1>2
  <1>5. q =< p * q /\ p * q \in Int
    BY <1>1, <1>2, <1>4
  <1>6. sig =< p => q =< 1
    <2>1. q >= 2 => p * q >= 2 * p
      BY <1>1, <1>2
    <2> QED
      BY <2>1, <1>1, <1>2, <1>5
  <1> DEFINE s == Sticky(sig, k)
  <1>7. s = q \/ (s = q + 1 /\ r # 0)
    BY <1>3
  <1> HIDE DEF s
  <1>8. s \in 0 .. sig /\ (sig =< p => s =< 2)
    BY <1>1, <1>2, <1>4, <1>5, <1>6, <1>7
  <1> QED
    BY <1>8 DEF s, p

\* Rounding stays in a long, also when it carries into the exponent.
LEMMA RoundedIs ==
  ASSUME NEW sign \in {0, 1}, NEW scale \in Nat, NEW sig \in Nat
  PROVE  Rounded(sign, scale, sig) \in Longs
  <1> DEFINE q == sig \div 8
             up == sig % 8 > 4 \/ (sig % 8 = 4 /\ q % 2 = 1)
             r == IF up THEN q + 1 ELSE q
             carried == r >= 2^(FRACTION + 1) /\ scale < MaxExponent
             e == IF carried THEN scale + 1 ELSE scale
             f == IF carried THEN r \div 2 ELSE r
             w == 2^FRACTION
             z == f % w
             n == N_ZERO_F
             x == 2^EXPONENT
  <1>1. Rounded(sign, scale, sig) = sign * n + (IF e >= MaxExponent THEN P_INF_F ELSE e * w + z)
    BY DEF Rounded
  <1>2. w \in Nat \ {0} /\ n \in Nat \ {0} /\ x \in Nat \ {0} /\ n = x * w /\ MaxExponent = x - 1
        /\ Longs = 0 .. 2 * n - 1 /\ P_INF_F \in 0 .. n - 1
    BY FloatWidths, CodesAre DEF Longs, MaxExponent
  <1>3. r \in Int
    <2>1. q \in Int
      BY DivMod
    <2> HIDE DEF q, up
    <2> QED
      BY <2>1
  <1>4. f \in Int
    <2> HIDE DEF r, carried
    <2>1. r \div 2 \in Int
      BY <1>3, DivMod
    <2> QED
      BY <1>3, <2>1
  <1>5. e \in Nat
    <2> HIDE DEF carried
    <2> QED
      OBVIOUS
  <1> HIDE DEF e, f, w, n, x
  <1>6. z \in 0 .. w - 1
    BY <1>2, <1>4, DivMod
  <1> HIDE DEF z
  <1>7. CASE e >= MaxExponent
    BY <1>1, <1>2, <1>7
  <1>8. CASE ~(e >= MaxExponent)
    <2>1. e + 1 =< x - 1
      BY <1>2, <1>5, <1>8
    <2>2. e * w >= 0 /\ e * w =< (x - 2) * w
      BY <2>1, <1>2, <1>5
    <2>3. (x - 2) * w = x * w - 2 * w
      BY <1>2
    <2>4. e * w + z \in 0 .. n - 1
      BY <2>2, <2>3, <1>2, <1>5, <1>6
    <2> DEFINE y == e * w + z
    <2>5. y \in 0 .. n - 1 /\ Rounded(sign, scale, sig) = sign * n + y
      BY <2>4, <1>1, <1>8
    <2> HIDE DEF y
    <2> QED
      BY <2>5, <1>2
  <1> QED
    BY <1>7, <1>8

\* The first loop of internal_normalize ends, with a float.
LEMMA NormalizeRightIs ==
  ASSUME NEW sign \in {0, 1}, NEW scale \in Int, NEW sig \in Nat, sig =< 2^DIVIDEND
  PROVE  NormalizeRight(sign, scale, sig) \in Longs
  <1> DEFINE On(k) == \/ Hidden(Sticky(sig, k)) > 1 /\ scale + k < MaxExponent
                      \/ Sticky(sig, k) > 4 /\ scale + k < 0
             last == DIVIDEND + MaxExponent
             P(k) == ~On(k) /\ \A j \in 0 .. k - 1 : On(j)
             k == CHOOSE k \in 0 .. last : P(k)
             e == scale + k
             S == {j \in Nat : ~On(j)}
  <1>0. last \in Nat /\ DIVIDEND \in Nat /\ 2^DIVIDEND \in Nat
    BY FloatAssumption, FloatWidths, Subsets
  <1>1. ~On(last)
    <2>1. 2^last = 2^DIVIDEND * 2^MaxExponent /\ 2^MaxExponent \in Nat \ {0}
      BY <1>0, FloatWidths, PowerSum, Subsets
    <2>2. sig =< 2^last
      <3> DEFINE a == 2^DIVIDEND
                 b == 2^MaxExponent
      <3>1. a \in Nat /\ b \in Nat \ {0} /\ sig =< a /\ 2^last = a * b
        BY <1>0, <2>1
      <3> HIDE DEF a, b, last
      <3>2. a =< a * b
        BY <3>1
      <3> QED
        BY <3>1, <3>2
    <2>3. Sticky(sig, last) \in 0 .. 2
      <3> HIDE DEF last
      <3>1. Sticky(sig, last) \in 0 .. sig /\ Sticky(sig, last) =< 2
        BY <1>0, <2>2, StickyIs
      <3> QED
        BY <3>1, <1>0
    <2>4. Hidden(Sticky(sig, last)) = 0
      <3> DEFINE h == 2^(FRACTION + 3)
                 s == Sticky(sig, last)
      <3>1. h \in Nat \ {0} /\ h >= 8
        BY FloatWidths
      <3>2. s \in 0 .. h - 1
        BY <2>3, <3>1
      <3> HIDE DEF h, s
      <3>3. s \div h = 0
        BY <3>1, <3>2, ModSmall
      <3> QED
        BY <3>3 DEF Hidden, h, s
    <2>5. ~(Hidden(Sticky(sig, last)) > 1) /\ ~(Sticky(sig, last) > 4)
      <3> DEFINE h == Hidden(Sticky(sig, last))
                 s == Sticky(sig, last)
      <3>1. h = 0 /\ s \in 0 .. 2
        BY <2>3, <2>4
      <3> HIDE DEF h, s
      <3>2. ~(h > 1) /\ ~(s > 4)
        BY <3>1
      <3> QED
        BY Zenon, <3>2 DEF h, s
    <2> HIDE DEF last
    <2> QED
      BY Zenon, <2>5
  <1> HIDE DEF On
  <1>2. \E j \in 0 .. last : P(j)
    <2>1. last \in S
      BY <1>0, <1>1
    <2> HIDE DEF S, last
    <2>2. PICK j \in 0 .. last : j \in S /\ \A i \in 0 .. j - 1 : i \notin S
      BY <1>0, <2>1, Least
    <2>3. \A i \in 0 .. j - 1 : On(i)
      BY <2>2 DEF S
    <2> QED
      BY <2>2, <2>3 DEF S
  <1>3. k \in 0 .. last
    <2> HIDE DEF P, last
    <2> QED
      BY <1>2
  <1>4. NormalizeRight(sign, scale, sig) =
          CASE e >= MaxExponent -> sign * N_ZERO_F + P_INF_F
            [] e < 0 -> sign * N_ZERO_F
            [] e = 0 -> Rounded(sign, 0, Sticky(sig, k + 1))
            [] OTHER -> Rounded(sign, e, Sticky(sig, k))
    BY DEF NormalizeRight, On
  <1> HIDE DEF k
  <1>5. k \in Nat /\ k + 1 \in Nat /\ e \in Int
    BY <1>0, <1>3
  <1>6. Sticky(sig, k) \in Nat /\ Sticky(sig, k + 1) \in Nat
    <2> DEFINE j == k + 1
    <2>1. j \in Nat
      BY <1>5
    <2> HIDE DEF j
    <2>2. Sticky(sig, k) \in 0 .. sig /\ Sticky(sig, j) \in 0 .. sig
      BY <1>5, <2>1, StickyIs
    <2> HIDE DEF S, P, last, e
    <2>3. Sticky(sig, k) \in Nat /\ Sticky(sig, j) \in Nat
      BY <2>2
    <2> QED
      BY <2>3 DEF j
  <1>7. sign * N_ZERO_F + P_INF_F \in Longs /\ sign * N_ZERO_F \in Longs
    BY CodesAre, FloatWidths DEF P_ZERO_F
  <1>8. Rounded(sign, 0, Sticky(sig, k + 1)) \in Longs
    BY <1>6, RoundedIs
  <1>9. ~(e >= MaxExponent) /\ ~(e < 0) /\ ~(e = 0) => Rounded(sign, e, Sticky(sig, k)) \in Longs
    <2> HIDE DEF e, S, P, last
    <2> SUFFICES ASSUME ~(e < 0) PROVE Rounded(sign, e, Sticky(sig, k)) \in Longs
      BY Zenon
    <2>1. e \in Nat
      BY <1>5
    <2> QED
      BY <2>1, <1>6, RoundedIs
  <1> HIDE DEF e, S, P, last
  <1> DEFINE x == NormalizeRight(sign, scale, sig)
             inf == sign * N_ZERO_F + P_INF_F
             zero == sign * N_ZERO_F
             small == Rounded(sign, 0, Sticky(sig, k + 1))
             large == Rounded(sign, e, Sticky(sig, k))
  <1>10. x = CASE e >= MaxExponent -> inf [] e < 0 -> zero [] e = 0 -> small [] OTHER -> large
    BY Zenon, <1>4
  <1>11. MaxExponent \in Nat \ {0}
    BY FloatWidths
  <1>12. inf \in Longs /\ zero \in Longs /\ small \in Longs
    BY <1>7, <1>8
  <1>13. ~(e >= MaxExponent) /\ ~(e < 0) /\ e # 0 => large \in Longs
    BY <1>9
  <1> HIDE DEF x, inf, zero, small, large
  <1>14. x \in Longs
    <2>1. CASE e >= MaxExponent
      BY <1>5, <1>10, <1>11, <1>12, <2>1
    <2>2. CASE e < 0
      BY <1>5, <1>10, <1>11, <1>12, <2>2
    <2>3. CASE e = 0
      BY <1>5, <1>10, <1>11, <1>12, <2>3
    <2>4. CASE ~(e >= MaxExponent) /\ ~(e < 0) /\ e # 0
      BY <1>10, <1>13, <2>4
    <2> QED
      BY <2>1, <2>2, <2>3, <2>4
  <1> QED
    BY <1>14 DEF x

\* The second loop of internal_normalize ends, with a float.
LEMMA NormalizeLeftIs ==
  ASSUME NEW sign \in {0, 1}, NEW scale \in Nat, NEW sig \in Nat
  PROVE  NormalizeLeft(sign, scale, sig) \in Longs
  <1> DEFINE P(k) == /\ Hidden(sig * 2^k) # 0 \/ k = scale
                     /\ \A j \in 0 .. k - 1 : Hidden(sig * 2^j) = 0
             k == CHOOSE k \in 0 .. scale : P(k)
             S == {j \in Nat : Hidden(sig * 2^j) # 0 \/ j = scale}
  <1>1. \E j \in 0 .. scale : P(j)
    <2>1. scale \in S
      OBVIOUS
    <2> HIDE DEF S
    <2>2. PICK j \in 0 .. scale : j \in S /\ \A i \in 0 .. j - 1 : i \notin S
      BY <2>1, Least
    <2>3. ASSUME NEW i \in 0 .. j - 1 PROVE Hidden(sig * 2^i) = 0
      <3>1. i \in Nat /\ i \notin S
        BY <2>2
      <3> QED
        BY <3>1 DEF S
    <2> QED
      BY <2>2, <2>3 DEF S
  <1>2. k \in 0 .. scale
    <2> HIDE DEF P
    <2> QED
      BY <1>1
  <1>3. NormalizeLeft(sign, scale, sig) =
          IF k = scale THEN Rounded(sign, 0, Sticky(sig * 2^k, 1)) ELSE Rounded(sign, scale - k, sig * 2^k)
    BY DEF NormalizeLeft
  <1> HIDE DEF k
  <1> DEFINE s == sig * 2^k
  <1>4. s \in Nat /\ scale - k \in Nat
    <2>1. k \in Nat /\ scale - k \in Nat
      BY <1>2
    <2>2. 2^k \in Nat
      BY <2>1, Subsets
    <2> DEFINE p == 2^k
    <2>3. p \in Nat
      BY <2>2
    <2> HIDE DEF p
    <2>4. sig * p \in Nat
      BY <2>3
    <2> QED
      BY <2>1, <2>4 DEF p
  <1>5. NormalizeLeft(sign, scale, sig) =
          IF k = scale THEN Rounded(sign, 0, Sticky(s, 1)) ELSE Rounded(sign, scale - k, s)
    BY <1>3
  <1> HIDE DEF s
  <1>6. Sticky(s, 1) \in Nat
    <2>1. s \in Nat /\ 1 \in Nat
      BY <1>4
    <2>2. Sticky(s, 1) \in 0 .. s
      BY <2>1, StickyIs
    <2> QED
      BY <2>1, <2>2
  <1>7. Rounded(sign, 0, Sticky(s, 1)) \in Longs
    BY <1>6, RoundedIs
  <1>8. Rounded(sign, scale - k, s) \in Longs
    BY <1>4, RoundedIs
  <1> QED
    BY <1>5, <1>7, <1>8

\* internal_normalize returns a long for every exponent and significand.
LEMMA NormalizeIs ==
  ASSUME NEW sign \in {0, 1}, NEW scale \in Int, NEW sig \in Nat, sig =< 2^DIVIDEND
  PROVE  internal_normalize(sign, scale, sig) \in Longs
  <1> DEFINE right == NormalizeRight(sign, scale, sig)
             left == NormalizeLeft(sign, scale, sig)
             one == Rounded(sign, 1, sig)
             same == Rounded(sign, scale, sig)
             h == Hidden(sig)
  <1>1. right \in Longs
    BY NormalizeRightIs
  <1>2. scale >= 0 => left \in Longs /\ same \in Longs
    <2> SUFFICES ASSUME scale >= 0 PROVE left \in Longs /\ same \in Longs
      BY Zenon
    <2>1. scale \in Nat
      OBVIOUS
    <2> QED
      BY <2>1, NormalizeLeftIs, RoundedIs
  <1>3. one \in Longs
    BY RoundedIs
  <1>4. internal_normalize(sign, scale, sig) =
          CASE h > 1 \/ scale < 0 -> right
            [] h = 0 /\ scale > 0 -> left
            [] h = 1 /\ scale = 0 -> one
            [] OTHER -> same
    BY Zenon DEF internal_normalize
  <1> DEFINE x == internal_normalize(sign, scale, sig)
  <1> HIDE DEF right, left, one, same, h, x
  <1>5. CASE scale < 0
    <2>1. x = right
      BY <1>4, <1>5 DEF x
    <2> QED
      BY <1>1, <2>1 DEF x
  <1>6. CASE scale >= 0
    <2>1. x = right \/ x = left \/ x = one \/ x = same
      BY <1>4, <1>6 DEF x
    <2> QED
      BY <1>1, <1>2, <1>3, <1>6, <2>1 DEF x
  <1> QED
    BY <1>5, <1>6

\* The word of a dividend has room for products and for sums.
LEMMA Room ==
  LET f == 2^FRACTION
  IN  /\ f \in Nat /\ f >= 8 /\ 2^DIVIDEND \in Nat
      /\ (2 * f) * (2 * f) =< 2^DIVIDEND /\ 32 * f =< 2^DIVIDEND
  <1> DEFINE f == 2^FRACTION
             g == 2^(FRACTION - 3)
             t == 2^DIVIDEND
             r == 2^(DIVIDEND - (2 * FRACTION + 2))
  <1>0. FRACTION \in Nat /\ FRACTION - 3 \in Nat /\ DIVIDEND \in Nat /\ DIVIDEND - (2 * FRACTION + 2) \in Nat
        /\ (FRACTION - 3) + 3 = FRACTION /\ FRACTION + 1 \in Nat
        /\ (FRACTION + 1) + (FRACTION + 1) = 2 * FRACTION + 2 /\ 2 * FRACTION + 2 \in Nat
        /\ (2 * FRACTION + 2) + (DIVIDEND - (2 * FRACTION + 2)) = DIVIDEND
    BY FloatAssumption
  <1>1. f \in Nat \ {0} /\ g \in Nat \ {0} /\ t \in Nat \ {0} /\ r \in Nat \ {0}
    BY <1>0, Subsets
  <1>2. 2^3 = 8
    <2>1. 2^(0 + 1) = 2 * 2^0 /\ 2^(1 + 1) = 2 * 2^1 /\ 2^(2 + 1) = 2 * 2^2
      BY PowerStep
    <2> QED
      BY <2>1, PowerZero
  <1>3. f = g * 8
    <2>1. 2^((FRACTION - 3) + 3) = g * 2^3
      BY <1>0, PowerSum
    <2> QED
      BY <2>1, <1>0, <1>2
  <1>4. 2^(FRACTION + 1) = 2 * f
    BY <1>0, PowerStep
  <1>5. 2^(2 * FRACTION + 2) = (2 * f) * (2 * f)
    <2>1. 2^((FRACTION + 1) + (FRACTION + 1)) = 2^(FRACTION + 1) * 2^(FRACTION + 1)
      BY <1>0, PowerSum
    <2> QED
      BY <2>1, <1>0, <1>4
  <1>6. t = ((2 * f) * (2 * f)) * r
    <2>1. 2^((2 * FRACTION + 2) + (DIVIDEND - (2 * FRACTION + 2))) = 2^(2 * FRACTION + 2) * r
      BY <1>0, PowerSum
    <2> QED
      BY <2>1, <1>0, <1>5
  <1> HIDE DEF f, g, t, r
  <1>7. f >= 8
    BY <1>1, <1>3
  <1> DEFINE s == (2 * f) * (2 * f)
  <1>8. s \in Nat /\ 32 * f =< s
    <2>1. (2 * f) * 16 =< (2 * f) * (2 * f)
      BY <1>1, <1>7
    <2> QED
      BY <2>1, <1>1
  <1>9. t = s * r
    BY <1>6
  <1> HIDE DEF s
  <1>10. s =< s * r
    BY <1>1, <1>8
  <1>11. s =< t /\ 32 * f =< t
    BY <1>1, <1>8, <1>9, <1>10
  <1> QED
    BY <1>1, <1>7, <1>11 DEF f, t, s

\* A sum of two numbers of which the second has the larger exponent
LEMMA SumIs ==
  ASSUME NEW low \in Longs, NEW high \in Longs, ExponentOf(low) =< ExponentOf(high)
  PROVE  LET Partial(x, sig) == IF SignOf(x) = 1 THEN -sig ELSE sig
             sum == Partial(low, Sticky(8 * Significand(low), Scale(high) - Scale(low)))
                      + Partial(high, 8 * Significand(high))
         IN  /\ sum < 0 => internal_normalize(1, ExponentOf(high), -sum) \in Longs
             /\ ~(sum < 0) => internal_normalize(0, ExponentOf(high), sum) \in Longs
  <1> DEFINE f == 2^FRACTION
             t == 2^DIVIDEND
             p == 8 * Significand(low)
             q == 8 * Significand(high)
             d == Scale(high) - Scale(low)
             s == Sticky(p, d)
             Partial(x, sig) == IF SignOf(x) = 1 THEN -sig ELSE sig
             u == Partial(low, s)
             v == Partial(high, q)
             sum == u + v
             e == ExponentOf(high)
  <1>1. f \in Nat /\ t \in Nat /\ 32 * f =< t /\ f >= 8
    BY Room
  <1> HIDE DEF f, t
  <1>2. p \in Nat /\ q \in Nat /\ p =< 16 * f - 8 /\ q =< 16 * f - 8
    <2>1. Significand(low) \in 0 .. 2 * f - 1 /\ Significand(high) \in 0 .. 2 * f - 1
      BY PartsOf DEF f
    <2> QED
      BY <2>1, <1>1
  <1>3. d \in Nat
    <2>1. ExponentOf(low) \in 0 .. MaxExponent /\ ExponentOf(high) \in 0 .. MaxExponent /\ MaxExponent \in Nat
      BY PartsOf, FloatWidths
    <2>2. ExponentOf(low) \in Nat /\ ExponentOf(high) \in Nat
      BY <2>1
    <2> QED
      BY <2>2 DEF Scale
  <1> HIDE DEF p, q, d
  <1>4. s \in 0 .. p
    BY <1>2, <1>3, StickyIs
  <1> HIDE DEF s
  <1>5. u \in -(16 * f) .. 16 * f /\ v \in -(16 * f) .. 16 * f
    BY <1>1, <1>2, <1>4
  <1> HIDE DEF u, v
  <1>6. sum \in Int /\ sum =< t /\ -sum =< t
    BY <1>1, <1>5
  <1>7. e \in Int
    <2>1. e \in 0 .. MaxExponent /\ MaxExponent \in Nat
      BY PartsOf, FloatWidths
    <2> QED
      BY <2>1
  <1> HIDE DEF sum, e
  <1>8. sum < 0 => internal_normalize(1, e, -sum) \in Longs
    <2> SUFFICES ASSUME sum < 0 PROVE internal_normalize(1, e, -sum) \in Longs
      BY Zenon
    <2> DEFINE x == -sum
    <2>1. x \in Nat /\ x =< 2^DIVIDEND
      BY <1>6 DEF t
    <2> HIDE DEF x
    <2>2. internal_normalize(1, e, x) \in Longs
      BY <1>7, <2>1, NormalizeIs
    <2> QED
      BY <2>2 DEF x
  <1>9. ~(sum < 0) => internal_normalize(0, e, sum) \in Longs
    <2> SUFFICES ASSUME ~(sum < 0) PROVE internal_normalize(0, e, sum) \in Longs
      BY Zenon
    <2>1. sum \in Nat /\ sum =< 2^DIVIDEND
      BY <1>6 DEF t
    <2> QED
      BY <1>7, <2>1, NormalizeIs
  <1> QED
    BY <1>8, <1>9 DEF sum, u, v, s, d, p, q, e

\* internal_float_add returns a long, for any two longs.
LEMMA FloatSum ==
  ASSUME NEW a \in Longs, NEW b \in Longs
  PROVE  internal_float_add(b, a) \in Longs
  <1> DEFINE low == IF ExponentOf(a) > ExponentOf(b) THEN b ELSE a
             high == IF low = a THEN b ELSE a
             Partial(x, sig) == IF SignOf(x) = 1 THEN -sig ELSE sig
             sum == Partial(low, Sticky(8 * Significand(low), Scale(high) - Scale(low)))
                      + Partial(high, 8 * Significand(high))
             res == IF sum < 0 THEN internal_normalize(1, ExponentOf(high), -sum)
                               ELSE internal_normalize(0, ExponentOf(high), sum)
  <1>1. low \in Longs /\ high \in Longs
    OBVIOUS
  <1>2. ExponentOf(low) =< ExponentOf(high)
    <2>1. ExponentOf(a) \in Int /\ ExponentOf(b) \in Int
      <3>1. ExponentOf(a) \in 0 .. MaxExponent /\ ExponentOf(b) \in 0 .. MaxExponent /\ MaxExponent \in Nat
        BY PartsOf, FloatWidths
      <3> QED
        BY <3>1
    <2> QED
      BY <2>1
  <1> HIDE DEF low, high
  <1>3. res \in Longs
    <2>1. /\ sum < 0 => internal_normalize(1, ExponentOf(high), -sum) \in Longs
          /\ ~(sum < 0) => internal_normalize(0, ExponentOf(high), sum) \in Longs
      BY <1>1, <1>2, SumIs
    <2> HIDE DEF sum
    <2> QED
      BY <2>1
  <1> DEFINE x == internal_float_add(b, a)
  <1>4. \/ x = a \/ x = b \/ x = P_ZERO_F \/ x = N_NAN_F
        \/ x = res
    <2>1. x = CASE a \in Zeros /\ b \in Zeros -> IF a = b THEN a ELSE P_ZERO_F
                [] a \in Zeros /\ b \notin Zeros -> b
                [] a \notin Zeros /\ b \in Zeros -> a
                [] a \in Infinities /\ b = Negated(a) -> N_NAN_F
                [] a \in Infinities /\ b \in NaNs -> b
                [] a = N_NAN_F /\ b = P_NAN_F -> b
                [] OTHER -> IF ExponentOf(a) = MaxExponent THEN a
                            ELSE IF ExponentOf(b) = MaxExponent THEN b ELSE res
      BY Zenon DEF internal_float_add, low, high
    <2> HIDE DEF res, x
    <2> QED
      BY <2>1
  <1> HIDE DEF res, x
  <1> QED
    BY <1>3, <1>4, CodesAre DEF x

\* internal_float_sub does.
LEMMA FloatDifference ==
  ASSUME NEW a \in Longs, NEW b \in Longs
  PROVE  internal_float_sub(b, a) \in Longs
  <1> DEFINE x == internal_float_sub(b, a)
             y == internal_float_add(Negated(b), a)
  <1>1. y \in Longs
    BY PartsOf, FloatSum
  <1>2. x = a \/ x = b \/ x = P_ZERO_F \/ x = P_NAN_F \/ x = y
    BY DEF internal_float_sub
  <1> HIDE DEF x, y
  <1> QED
    BY <1>1, <1>2, CodesAre DEF x

\* The sign of a product is a bit.
LEMMA SignsAre ==
  ASSUME NEW a, NEW b
  PROVE  /\ Signs(a, b) \in {0, N_ZERO_F} /\ Signs(a, b) \in Longs /\ Signs(a, b) + P_INF_F \in Longs
         /\ Signs(a, b) \div N_ZERO_F \in {0, 1} /\ NaNOf(a, b) \in Longs
  <1>1. Signs(a, b) \in {0, N_ZERO_F}
    BY DEF Signs
  <1>2. 0 \div N_ZERO_F = 0 /\ N_ZERO_F \div N_ZERO_F = 1
    <2> DEFINE n == N_ZERO_F
    <2>1. n \in Nat \ {0}
      BY FloatWidths
    <2> HIDE DEF n
    <2>2. 0 = n * 0 + 0 /\ n = n * 1 + 0 /\ 0 \in 0 .. n - 1
      BY <2>1
    <2>3. 0 \div n = 0
      BY <2>1, <2>2, Division
    <2>4. n \div n = 1
      BY <2>1, <2>2, Division
    <2> QED
      BY <2>3, <2>4 DEF n
  <1>3. 0 \in Longs /\ 0 + P_INF_F \in Longs
    BY CodesAre, FloatWidths DEF P_ZERO_F
  <1>4. NaNOf(a, b) \in Longs
    BY CodesAre DEF NaNOf
  <1> QED
    BY <1>1, <1>2, <1>3, <1>4, CodesAre

\* internal_float_mul does.
LEMMA FloatProduct ==
  ASSUME NEW a \in Longs, NEW b \in Longs
  PROVE  internal_float_mul(b, a) \in Longs
  <1> DEFINE e == Scale(a) + Scale(b) - Bias - (FRACTION - 3)
             p == Significand(a) * Significand(b)
             s == Signs(a, b) \div N_ZERO_F
             x == internal_float_mul(b, a)
             y == internal_normalize(s, e, p)
  <1>1. e \in Int
    BY PartsOf, FloatWidths, FloatAssumption
  <1>2. p \in Nat /\ p =< 2^DIVIDEND
    <2> DEFINE f == 2^FRACTION
               c == Significand(a)
               d == Significand(b)
               t == 2^DIVIDEND
    <2>1. f \in Nat /\ f >= 8 /\ (2 * f) * (2 * f) =< t /\ t \in Nat
      BY Room
    <2>2. c \in 0 .. 2 * f - 1 /\ d \in 0 .. 2 * f - 1
      BY PartsOf
    <2> HIDE DEF f, c, d, t
    <2>3. c * d =< c * (2 * f) /\ c * (2 * f) =< (2 * f) * (2 * f) /\ c * d \in Nat
          /\ c * (2 * f) \in Int /\ (2 * f) * (2 * f) \in Int
      BY <2>1, <2>2
    <2>4. c * d \in Nat /\ c * d =< t
      BY <2>1, <2>3
    <2> QED
      BY <2>4 DEF c, d, t
  <1>3. s \in {0, 1}
    BY SignsAre
  <1> HIDE DEF e, p, s
  <1>4. y \in Longs
    BY <1>1, <1>2, <1>3, NormalizeIs
  <1>5. x = N_NAN_F \/ x = NaNOf(a, b) \/ x = Signs(a, b) \/ x = Signs(a, b) + P_INF_F \/ x = y
    BY DEF internal_float_mul, e, p, s
  <1> HIDE DEF x, y
  <1> QED
    BY <1>4, <1>5, CodesAre, SignsAre DEF x

\* The dividend can be shifted to the left end of its word ...
LEMMA LeftShift ==
  ASSUME NEW c \in 1 .. 2 * 2^FRACTION - 1
  PROVE  \E k \in 0 .. DIVIDEND : c * 2^k \in 2^(DIVIDEND - 1) .. 2^DIVIDEND - 1
  <1> DEFINE h == 2^(DIVIDEND - 1)
             t == 2^DIVIDEND
             f == 2^FRACTION
             S == {k \in Nat : c * 2^k >= h}
  <1>0. DIVIDEND \in Nat /\ DIVIDEND - 1 \in Nat /\ (DIVIDEND - 1) + 1 = DIVIDEND
    BY FloatAssumption
  <1>1. h \in Nat \ {0} /\ t = 2 * h /\ f \in Nat /\ 32 * f =< t
    <2>1. 2^((DIVIDEND - 1) + 1) = 2 * 2^(DIVIDEND - 1) /\ 2^(DIVIDEND - 1) \in Nat \ {0}
      BY <1>0, PowerStep, Subsets
    <2> QED
      BY <2>1, <1>0, Room
  <1> HIDE DEF f
  <1>2. c \in Nat \ {0} /\ c < 2 * f
    BY <1>1 DEF f
  <1> HIDE DEF h, t
  <1>3. DIVIDEND \in S
    <2>1. c * t >= h
      <3>1. c * t >= t
        BY <1>1, <1>2
      <3> QED
        BY <3>1, <1>1, <1>2
    <2> QED
      BY <2>1, <1>0 DEF t
  <1>4. PICK k \in 0 .. DIVIDEND : k \in S /\ \A j \in 0 .. k - 1 : j \notin S
    <2> HIDE DEF S
    <2> QED
      BY <1>0, <1>3, Least
  <1>5. k \in Nat
    BY <1>0, <1>4
  <1> DEFINE p == 2^k
  <1>6. p \in Nat
    BY <1>5, Subsets
  <1>7. c * p >= h
    BY <1>4
  <1>8. c * p < t
    <2>1. CASE k = 0
      <3>1. p = 1
        BY <2>1, PowerZero
      <3> HIDE DEF p
      <3> QED
        BY <3>1, <1>1, <1>2
    <2>2. CASE k # 0
      <3> DEFINE j == k - 1
                 q == 2^j
      <3>1. j \in Nat /\ j \in 0 .. k - 1 /\ j + 1 = k
        BY <1>5, <2>2
      <3>2. j \notin S
        BY <3>1, <1>4
      <3> HIDE DEF j
      <3>3. q \in Nat /\ 2^(j + 1) = 2 * q
        BY <3>1, PowerStep, Subsets
      <3>4. ~(c * q >= h)
        BY <3>1, <3>2
      <3>5. p = 2 * q
        BY <3>1, <3>3
      <3> HIDE DEF p, q
      <3>6. c * p = 2 * (c * q) /\ c * q \in Int
        BY <3>3, <3>5, <1>2
      <3> QED
        BY <3>4, <3>6, <1>1
    <2> QED
      BY <2>1, <2>2
  <1>9. c * p \in h .. t - 1
    <2> HIDE DEF p
    <2>1. c * p \in Int
      BY <1>2, <1>6
    <2> QED
      BY <2>1, <1>1, <1>7, <1>8
  <1> QED
    BY <1>4, <1>9 DEF h, t

\* ... and the divisor to the right until it is odd.
LEMMA RightShift ==
  ASSUME NEW c \in 1 .. 2 * 2^FRACTION - 1
  PROVE  \E k \in 0 .. FRACTION : (c \div 2^k) % 2 = 1 /\ c % 2^k = 0
  <1> DEFINE f == 2^FRACTION
             S == {k \in Nat : c % 2^(k + 1) # 0}
  <1>0. FRACTION \in Nat /\ f \in Nat \ {0} /\ 2^(FRACTION + 1) = 2 * f
    BY FloatAssumption, FloatWidths
  <1> HIDE DEF f
  <1>1. c \in Nat \ {0} /\ c \in 0 .. 2 * f - 1
    BY <1>0 DEF f
  <1>2. FRACTION \in S
    <2> DEFINE g == 2 * f
    <2>1. g \in Nat \ {0} /\ c \in 0 .. g - 1
      BY <1>0, <1>1
    <2>2. 2^(FRACTION + 1) = g
      BY <1>0
    <2> HIDE DEF g
    <2>3. c % g = c
      BY <2>1, ModSmall
    <2> QED
      BY <2>2, <2>3, <1>0, <1>1
  <1>3. PICK k \in 0 .. FRACTION : k \in S /\ \A j \in 0 .. k - 1 : j \notin S
    <2> HIDE DEF S
    <2> QED
      BY <1>0, <1>2, Least
  <1>4. k \in Nat
    BY <1>0, <1>3
  <1> DEFINE p == 2^k
             q == c \div p
  <1>5. p \in Nat \ {0} /\ 2^(k + 1) = 2 * p
    BY <1>4, PowerStep, Subsets
  <1>6. c % p = 0
    <2>1. CASE k = 0
      <3>1. p = 1
        BY <2>1, PowerZero
      <3> HIDE DEF p
      <3> QED
        BY <3>1, <1>1
    <2>2. CASE k # 0
      <3> DEFINE j == k - 1
      <3>1. j \in Nat /\ j \in 0 .. k - 1 /\ j + 1 = k
        BY <1>4, <2>2
      <3>2. j \notin S
        BY <3>1, <1>3
      <3> HIDE DEF j
      <3>3. c % 2^(j + 1) = 0
        BY <3>1, <3>2
      <3> QED
        BY <3>1, <3>3
    <2> QED
      BY <2>1, <2>2
  <1>7. c % (2 * p) # 0
    <2>1. c % 2^(k + 1) # 0
      BY <1>3
    <2> QED
      BY <2>1, <1>5
  <1> HIDE DEF p
  <1>8. q \in Int /\ c = p * q
    BY <1>1, <1>5, <1>6, DivMod
  <1> HIDE DEF q
  <1>9. q % 2 = 1
    <2> SUFFICES ASSUME q % 2 = 0 PROVE FALSE
      BY <1>8
    <2> DEFINE h == q \div 2
               w == 2 * p
    <2>1. q = 2 * h /\ h \in Int
      BY <1>8
    <2> HIDE DEF h
    <2>2. c = w * h + 0 /\ w \in Nat \ {0} /\ 0 \in 0 .. w - 1
      BY <2>1, <1>5, <1>8
    <2>3. c % w # 0
      BY <1>7
    <2> HIDE DEF w
    <2>4. c % w = 0
      BY <2>1, <2>2, <1>1, Division
    <2> QED
      BY <2>3, <2>4
  <1> QED
    BY <1>3, <1>6, <1>9 DEF q, p

\* A quotient is not above its dividend.
LEMMA QuotientSmall ==
  ASSUME NEW u \in Nat, NEW v \in Nat \ {0}
  PROVE  u \div v \in 0 .. u
  <1> DEFINE d == u \div v
             r == u % v
  <1>1. u = v * d + r /\ r \in 0 .. v - 1 /\ d \in Int
    BY DivMod
  <1> HIDE DEF d, r
  <1>2. d < 0 => v * d =< -v
    BY <1>1
  <1>3. d >= 0 => v * d >= d
    BY <1>1
  <1>4. d \in 0 .. u
    BY <1>1, <1>2, <1>3
  <1> QED
    BY <1>4 DEF d

\* internal_float_div does, also by zero.
LEMMA FloatQuotient ==
  ASSUME NEW a \in Longs, NEW b \in Longs
  PROVE  internal_float_div(b, a) \in Longs
  <1> DEFINE c == Significand(a)
             d == Significand(b)
             left == CHOOSE k \in 0 .. DIVIDEND : c * 2^k \in 2^(DIVIDEND - 1) .. 2^DIVIDEND - 1
             right == CHOOSE k \in 0 .. FRACTION : (d \div 2^k) % 2 = 1 /\ d % 2^k = 0
             u == c * 2^left
             v == d \div 2^right
             e == Scale(a) - Scale(b) + Bias - (left + right - (FRACTION + 3))
             s == Signs(a, b) \div N_ZERO_F
             x == internal_float_div(b, a)
             y == internal_normalize(s, e, u \div v)
  <1>1. \/ x = N_NAN_F \/ x = NaNOf(a, b) \/ x = Signs(a, b) \/ x = Signs(a, b) + P_INF_F
        \/ x = y /\ a \notin Zeros /\ b \notin Zeros
    <2>1. x = CASE \/ {a, b} \subseteq Zeros \/ {a, b} \subseteq Infinities -> N_NAN_F
                [] a \in NaNs \/ b \in NaNs -> NaNOf(a, b)
                [] a \in Infinities /\ b \notin NaNs \cup Infinities -> Signs(a, b) + P_INF_F
                [] b \in Zeros /\ a \notin NaNs \cup Zeros -> Signs(a, b) + P_INF_F
                [] (a \in Zeros /\ b \notin NaNs \cup Zeros) \/ (b \in Infinities /\ a \notin NaNs \cup Infinities) -> Signs(a, b)
                [] OTHER -> y
      BY Zenon DEF internal_float_div
    <2> HIDE DEF x, y
    <2> QED
      BY <2>1
  <1>2. ASSUME a \notin Zeros, b \notin Zeros PROVE y \in Longs
    <2>0. 2^FRACTION \in Nat /\ 2^DIVIDEND \in Nat /\ 2^(DIVIDEND - 1) \in Nat /\ FRACTION \in Nat /\ DIVIDEND \in Nat
      <3>1. FRACTION \in Nat /\ DIVIDEND \in Nat /\ DIVIDEND - 1 \in Nat
        BY FloatAssumption
      <3> QED
        BY <3>1, Subsets
    <2>1. c \in 1 .. 2 * 2^FRACTION - 1 /\ d \in 1 .. 2 * 2^FRACTION - 1
      <3> DEFINE f == 2^FRACTION
      <3>1. c \in 0 .. 2 * f - 1 /\ d \in 0 .. 2 * f - 1 /\ c # 0 /\ d # 0 /\ f \in Nat
        BY <1>2, <2>0, PartsOf
      <3> HIDE DEF c, d, f
      <3>2. c \in 1 .. 2 * f - 1 /\ d \in 1 .. 2 * f - 1
        BY <3>1
      <3> QED
        BY <3>2 DEF f
    <2> HIDE DEF c, d
    <2>2. left \in 0 .. DIVIDEND /\ c * 2^left \in 2^(DIVIDEND - 1) .. 2^DIVIDEND - 1
      <3>1. \E k \in 0 .. DIVIDEND : c * 2^k \in 2^(DIVIDEND - 1) .. 2^DIVIDEND - 1
        BY <2>1, LeftShift
      <3> QED
        BY Zenon, <3>1
    <2>3. right \in 0 .. FRACTION /\ (d \div 2^right) % 2 = 1
      <3>1. \E k \in 0 .. FRACTION : (d \div 2^k) % 2 = 1 /\ d % 2^k = 0
        BY <2>1, RightShift
      <3> QED
        BY Zenon, <3>1
    <2> HIDE DEF left, right
    <2>4. u \in Nat /\ u =< 2^DIVIDEND
      <3> DEFINE g == 2^(DIVIDEND - 1)
                 t == 2^DIVIDEND
      <3>1. u \in g .. t - 1 /\ g \in Nat /\ t \in Nat
        BY <2>0, <2>2
      <3> HIDE DEF u, g, t
      <3>2. u \in Nat /\ u =< t
        BY <3>1
      <3> QED
        BY <3>2 DEF t
    <2>5. v \in Nat \ {0}
      <3> DEFINE p == 2^right
      <3>1. right \in Nat
        BY <2>0, <2>3
      <3>2. p \in Nat \ {0}
        BY <3>1, Subsets
      <3>3. d \in Nat
        BY <2>0, <2>1
      <3> HIDE DEF p
      <3>4. d \div p \in 0 .. d
        BY <3>2, <3>3, QuotientSmall
      <3> DEFINE w == d \div p
      <3>5. w \in Nat /\ w % 2 = 1
        BY <2>3, <3>3, <3>4 DEF p
      <3> HIDE DEF w
      <3>6. w \in Nat \ {0}
        BY <3>5
      <3> QED
        BY <3>6 DEF w, p
    <2>6. e \in Int
      <3>1. left \in Int /\ right \in Int
        BY <2>0, <2>2, <2>3
      <3>2. Scale(a) \in Int /\ Scale(b) \in Int /\ Bias \in Int
        BY PartsOf, FloatWidths
      <3> QED
        BY <2>0, <3>1, <3>2
    <2>7. s \in {0, 1}
      BY SignsAre
    <2> HIDE DEF u, v, e, s
    <2> DEFINE z == u \div v
    <2>8. z \in 0 .. u
      BY <2>4, <2>5, QuotientSmall
    <2> HIDE DEF z
    <2> DEFINE t == 2^DIVIDEND
    <2>9. z \in Nat /\ z =< t
      <3>1. t \in Nat /\ u =< t
        BY <2>0, <2>4
      <3> HIDE DEF t
      <3> QED
        BY <2>4, <2>8, <3>1
    <2>10. internal_normalize(s, e, z) \in Longs
      BY <2>6, <2>7, <2>9, NormalizeIs
    <2> QED
      BY <2>10 DEF z
  <1> HIDE DEF x, y
  <1> QED
    BY <1>1, <1>2, CodesAre, SignsAre DEF x

-------------------------------------------------------------------------------
(* The ring of eight registers *)

Rings == [stack : [0 .. 7 -> Longs], top : 0 .. 7]

\* ST(k) is in the ring, and writing it leaves a ring.
LEMMA RingIs ==
  ASSUME NEW f \in Rings, NEW i \in 0 .. 7
  PROVE  /\ ST(f, i) \in Longs
         /\ \A v \in Longs : SetST(f, i, v) \in Rings
  <1> DEFINE k == (f.top + i) % 8
  <1>1. k \in 0 .. 7 /\ Slot(f, i) = k
    BY DEF Rings, Slot
  <1> HIDE DEF k
  <1>2. ST(f, i) = f.stack[k]
    BY <1>1 DEF ST
  <1>3. \A v : SetST(f, i, v) = [f EXCEPT !.stack[k] = v]
    BY <1>1 DEF SetST
  <1>4. \A v \in Longs : [f EXCEPT !.stack[k] = v] \in Rings
    BY <1>1 DEF Rings
  <1> QED
    BY <1>1, <1>2, <1>3, <1>4 DEF Rings

\* Loads, pops, exchanges and operations leave a ring.
LEMMA RingSteps ==
  ASSUME NEW f \in Rings, NEW i \in 0 .. 7, NEW j \in 0 .. 7, NEW v \in Longs
  PROVE  /\ fpu_load(f, v) \in Rings /\ fpu_pop(f) \in Rings
         /\ fpu_add_idx(f, i, j) \in Rings /\ fpu_mul_idx(f, i, j) \in Rings
         /\ fpu_xch(f, i) \in Rings /\ fpu_copy(f, i) \in Rings
  <1>1. fpu_load(f, v) \in Rings
    <2> DEFINE t == IF f.top = 0 THEN 7 ELSE f.top - 1
               g == [f EXCEPT !.top = t]
    <2>1. t \in 0 .. 7
      BY DEF Rings
    <2> HIDE DEF t
    <2>2. g \in Rings
      BY <2>1 DEF Rings
    <2>3. fpu_load(f, v) = SetST(g, 0, v)
      BY Zenon DEF fpu_load, t
    <2> HIDE DEF g
    <2> QED
      BY <2>2, <2>3, RingIs
  <1>2. fpu_pop(f) \in Rings
    <2> DEFINE t == (f.top + 1) % 8
    <2>1. t \in 0 .. 7 /\ fpu_pop(f) = [f EXCEPT !.top = t]
      BY DEF Rings, fpu_pop
    <2> HIDE DEF t
    <2> QED
      BY <2>1 DEF Rings
  <1>3. ST(f, i) \in Longs /\ ST(f, 0) \in Longs
    <2>1. 0 \in 0 .. 7
      OBVIOUS
    <2> QED
      BY <2>1, RingIs
  <1>4. internal_float_add(ST(f, i), ST(f, 0)) \in Longs /\ internal_float_mul(ST(f, i), ST(f, 0)) \in Longs
    BY <1>3, FloatSum, FloatProduct
  <1>5. fpu_add_idx(f, i, j) \in Rings /\ fpu_mul_idx(f, i, j) \in Rings
    BY <1>4, RingIs DEF fpu_add_idx, fpu_mul_idx
  <1>6. fpu_copy(f, i) \in Rings
    BY <1>3, RingIs DEF fpu_copy
  <1>7. fpu_xch(f, i) \in Rings
    <2>1. SetST(f, 0, ST(f, i)) \in Rings
      BY <1>3, RingIs
    <2>2. SetST(SetST(f, 0, ST(f, i)), i, ST(f, 0)) \in Rings
      BY <1>3, <2>1, RingIs
    <2> QED
      BY <2>2 DEF fpu_xch
  <1> QED
    BY <1>1, <1>2, <1>5, <1>6, <1>7

-------------------------------------------------------------------------------
(* Every instruction leaves a machine. *)

\* What a step has to keep
Kept == machine' \in Machines /\ program' = program

\* A step to a machine keeps what has to be kept.
LEMMA BecomesIs ==
  ASSUME NEW m \in Machines
  PROVE  (Becomes(m) => Kept /\ machine' = m) /\ (Continues(m) => Kept /\ machine' = m)
  <1>1. m = [reg |-> m.reg, mem |-> m.mem, flags |-> m.flags, fpu |-> m.fpu]
    BY DEF Machines
  <1>2. ASSUME Becomes(m) PROVE Kept /\ machine' = m
    <2>1. machine' = [reg |-> m.reg, mem |-> m.mem, flags |-> m.flags, fpu |-> m.fpu]
      BY <1>2 DEF Becomes, machine
    <2> QED
      BY <1>1, <1>2, <2>1 DEF Kept, Becomes
  <1> QED
    BY <1>2 DEF Continues

\* The instruction at eip is one that decoding leaves.
LEMMA DecodedNow ==
  ASSUME TypeOK, eip \in DOMAIN program
  PROVE  Decoded(I)
  <1>1. PICK load \in Loads : program = load.program
    BY DEF TypeOK, Programs
  <1>2. Decoded(load.program[eip])
    BY <1>1, LoadsAssumption
  <1> QED
    BY <1>1, <1>2 DEF I

\* The source and what the forms make of it
LEMMA SourceIs ==
  ASSUME TypeOK, eip \in DOMAIN program, I.op \in WithSource
  PROVE  /\ IsOperand(I.src) /\ I.src.n \in 1 .. LONG /\ Source \in Nat /\ Source \in Longs
         /\ Source \in 0 .. 2^I.src.n - 1
         /\ SignExt(Source, I.src.n) \in Int /\ \A test : Extended(test) \in Int
  <1>1. IsOperand(I.src)
    BY DecodedNow DEF Decoded
  <1>2. machine \in Machines
    BY DEF TypeOK
  <1>3. Source \in Nat /\ Source \in Longs /\ Source \in 0 .. 2^I.src.n - 1
    BY <1>1, <1>2, ReadInt, ReadIs DEF Source
  <1>4. I.src.n \in 1 .. LONG
    BY <1>1, SizesAre DEF IsOperand
  <1>5. SignExt(Source, I.src.n) \in Int
    <2> DEFINE s == Source
               n == I.src.n
    <2>1. s \in Int /\ n \in 1 .. LONG
      BY <1>3, <1>4
    <2> HIDE DEF s, n
    <2>2. SignExt(s, n) \in 0 .. 2^LONG - 1 /\ 2^LONG \in Nat
      BY <2>1, SignExtIs, Widths
    <2>3. SignExt(s, n) \in Int
      BY <2>2
    <2> QED
      BY <2>3 DEF s, n
  <1> QED
    BY <1>1, <1>3, <1>4, <1>5 DEF Extended

\* The destination, and the data size an instruction works with
LEMMA DestIs ==
  ASSUME TypeOK, eip \in DOMAIN program, I.op \in WithDest
  PROVE  /\ IsOperand(I.dst) /\ I.dst.type # "imm" /\ I.dst.n \in Sizes /\ I.dst.n \in 1 .. LONG
         /\ Dest \in Nat /\ Dest \in 0 .. 2^I.dst.n - 1 /\ SignExt(Dest, I.dst.n) \in Int
         /\ DataSize(I) \in BYTE .. LONG /\ DataSize(I) \in 1 .. LONG
         /\ (I.dst.n # BYTE => DataSize(I) = I.dst.n) /\ (I.dst.n = BYTE => DataSize(I) = LONG)
  <1>1. IsOperand(I.dst) /\ I.dst.type # "imm"
    BY DecodedNow DEF Decoded
  <1>2. machine \in Machines
    BY DEF TypeOK
  <1>3. Dest \in Nat /\ Dest \in 0 .. 2^I.dst.n - 1
    BY <1>1, <1>2, ReadInt, ReadIs DEF Dest
  <1>4. I.dst.n \in Sizes /\ I.dst.n \in 1 .. LONG /\ I.dst.n \in BYTE .. LONG
    BY <1>1, SizesAre DEF IsOperand
  <1>5. SignExt(Dest, I.dst.n) \in Int
    <2> DEFINE s == Dest
               n == I.dst.n
    <2>1. s \in Int /\ n \in 1 .. LONG
      BY <1>3, <1>4
    <2> HIDE DEF s, n
    <2>2. SignExt(s, n) \in 0 .. 2^LONG - 1 /\ 2^LONG \in Nat
      BY <2>1, SignExtIs, Widths
    <2>3. SignExt(s, n) \in Int
      BY <2>2
    <2> QED
      BY <2>3 DEF s, n
  <1>6. LONG \in BYTE .. LONG /\ LONG \in 1 .. LONG
    BY LongIs
  <1>7. DataSize(I) = IF I.dst.n = BYTE THEN LONG ELSE I.dst.n
    BY DEF DataSize
  <1> QED
    BY <1>1, <1>3, <1>4, <1>5, <1>6, <1>7

\* Writing the destination
LEMMA Written ==
  ASSUME TypeOK, eip \in DOMAIN program, I.op \in WithDest, NEW v \in Int
  PROVE  /\ operand_write(machine, I.dst, v) \in Machines
         /\ Continues(operand_write(machine, I.dst, v)) => Kept
  <1>1. operand_write(machine, I.dst, v) \in Machines
    BY DestIs, WriteIs DEF TypeOK
  <1> QED
    BY <1>1, BecomesIs

\* An operation that writes its result and flags
LEMMA YieldsIs ==
  ASSUME TypeOK, eip \in DOMAIN program, I.op \in WithDest, NEW c \in Results
  PROVE  Yields(c) => Kept
  <1> DEFINE m == operand_write(machine, I.dst, c.res)
  <1>1. c.res \in Int /\ c.flags \in FlagRecords
    BY DEF Results
  <1>2. m \in Machines
    BY <1>1, Written
  <1> HIDE DEF m
  <1>3. [m EXCEPT !.flags = c.flags] \in Machines
    BY <1>1, <1>2, Parts
  <1>4. Continues([m EXCEPT !.flags = c.flags]) => Kept
    BY <1>3, BecomesIs
  <1> QED
    BY <1>4 DEF Yields, m

\* An operation that sets flags only
LEMMA FlagsIs ==
  ASSUME TypeOK, NEW c \in Results
  PROVE  /\ Flags(c) => Kept /\ flags' = c.flags
         /\ [machine EXCEPT !.flags = c.flags] \in Machines
  <1>1. c.flags \in FlagRecords /\ machine \in Machines
    BY DEF Results, TypeOK
  <1>2. [machine EXCEPT !.flags = c.flags] \in Machines
    BY <1>1, Parts
  <1>3. [machine EXCEPT !.flags = c.flags].flags = c.flags
    BY <1>1 DEF Machines
  <1>4. Continues([machine EXCEPT !.flags = c.flags]) => Kept /\ flags' = c.flags
    BY <1>2, <1>3, BecomesIs DEF Continues, Becomes
  <1> QED
    BY <1>2, <1>4 DEF Flags

\* An operation on the ring
LEMMA FpuIs ==
  ASSUME TypeOK, NEW f \in Rings
  PROVE  Fpu(f) => Kept
  <1>1. [machine EXCEPT !.fpu = f] \in Machines
    BY Parts DEF TypeOK, Rings
  <1>2. Continues([machine EXCEPT !.fpu = f]) => Kept
    BY <1>1, BecomesIs
  <1> QED
    BY <1>2 DEF Fpu

\* The parts of the machine as it is
LEMMA PartsNow ==
  ASSUME TypeOK
  PROVE  /\ machine \in Machines /\ machine.reg = reg /\ machine.mem = mem
         /\ machine.flags = flags /\ machine.fpu = fpu
         /\ reg \in [0 .. 7 -> Longs] /\ mem \in [Longs -> 0 .. 2^BYTE - 1]
         /\ flags \in FlagRecords /\ fpu \in Rings
         /\ \A k \in 0 .. 7 : reg[k] \in Nat /\ reg[k] \in Longs
  <1>1. machine \in Machines /\ machine.reg = reg /\ machine.mem = mem
        /\ machine.flags = flags /\ machine.fpu = fpu
    BY DEF TypeOK, machine
  <1> QED
    BY <1>1, MachineIs DEF Rings

\* Two operands: the results of add, sub, ...
LEMMA Arithmetic ==
  ASSUME TypeOK,
         Add \/ Adc \/ Sub \/ Sbb \/ And \/ Or \/ Xor \/ Cmp \/ Test \/ Shl \/ Shr \/ Sar
  PROVE  Kept
  <1>0. eip \in DOMAIN program /\ I.op \in WithBoth
    BY DEF Add, Adc, Sub, Sbb, And, Or, Xor, Cmp, Test, Shl, Shr, Sar, At, WithBoth
  <1>1. I.op \in WithSource /\ I.op \in WithDest
    BY <1>0 DEF WithSource, WithDest
  <1> DEFINE n == DataSize(I)
             k == I.dst.n
             s == Source
             d == Dest
             sd == SignExt(Dest, I.dst.n)
  <1>2. n \in BYTE .. LONG /\ k \in 1 .. LONG /\ s \in Int /\ d \in Int /\ sd \in Int
        /\ flags \in FlagRecords /\ \A test : Extended(test) \in Int
    <2>1. n \in BYTE .. LONG /\ k \in 1 .. LONG /\ d \in Nat /\ sd \in Int
      BY <1>0, <1>1, DestIs
    <2>2. s \in Nat /\ \A test : Extended(test) \in Int
      BY <1>0, <1>1, SourceIs
    <2> HIDE DEF n, k, s, d, sd
    <2> QED
      BY <2>1, <2>2, PartsNow
  <1>3. \A c \in Results : (Yields(c) => Kept) /\ (Flags(c) => Kept)
    BY <1>0, <1>1, YieldsIs, FlagsIs
  <1>4. CASE Add
    <2>1. \A e \in Int : alu_add(e, d, n, flags) \in Results
      <3> HIDE DEF d, n
      <3> QED
        BY <1>2, DifferenceIs
    <2> QED
      BY <1>2, <1>3, <1>4, <2>1 DEF Add
  <1>5. CASE Adc
    <2>1. alu_adc(s, d, n, flags) \in Results
      <3> HIDE DEF s, d, n
      <3> QED
        BY <1>2, DifferenceIs
    <2> QED
      BY <1>3, <1>5, <2>1 DEF Adc
  <1>6. CASE Sub
    <2>1. \A e \in Int : alu_sub(e, sd, n, flags) \in Results
      <3> HIDE DEF sd, n
      <3> QED
        BY <1>2, DifferenceIs
    <2> QED
      BY <1>2, <1>3, <1>6, <2>1 DEF Sub
  <1>7. CASE Sbb
    <2>1. \A e \in Int : alu_sbb(e, d, n, flags) \in Results
      <3> HIDE DEF d, n
      <3> QED
        BY <1>2, DifferenceIs
    <2> QED
      BY <1>2, <1>3, <1>7, <2>1 DEF Sbb
  <1>8. \A bits : Logic(bits, n, flags) \in Results
    <2> HIDE DEF n
    <2> QED
      BY <1>2, LogicIs
  <1>9. CASE And
    BY <1>3, <1>8, <1>9 DEF And, alu_and
  <1>10. CASE Or
    BY <1>3, <1>8, <1>10 DEF Or, alu_or
  <1>11. CASE Xor
    BY <1>3, <1>8, <1>11 DEF Xor, alu_xor
  <1>12. CASE Cmp
    <2>1. \A e \in Int : alu_sub(e, d, n, flags) \in Results
      <3> HIDE DEF d, n
      <3> QED
        BY <1>2, DifferenceIs
    <2> QED
      BY <1>2, <1>3, <1>12, <2>1 DEF Cmp
  <1>13. CASE Test
    BY <1>3, <1>8, <1>13 DEF Test, alu_and
  <1>14. alu_shl(s, d, k, flags) \in Results /\ alu_shr(s, d, k, flags) \in Results
         /\ alu_sar(s, d, k, flags) \in Results
    <2> HIDE DEF s, d, k
    <2> QED
      BY <1>2, ShiftsAre
  <1>15. CASE Shl
    BY <1>3, <1>14, <1>15 DEF Shl
  <1>16. CASE Shr
    BY <1>3, <1>14, <1>16 DEF Shr
  <1>17. CASE Sar
    BY <1>3, <1>14, <1>17 DEF Sar
  <1> QED
    BY <1>4, <1>5, <1>6, <1>7, <1>9, <1>10, <1>11, <1>12, <1>13, <1>15, <1>16, <1>17

\* A register as it is read
LEMMA OperandRead ==
  ASSUME TypeOK, NEW k \in 0 .. 7, NEW n \in Sizes
  PROVE  operand_read(machine, Reg(k, n)) \in Nat /\ operand_read(machine, Reg(k, n)) \in 0 .. 2^n - 1
  BY RegisterIs, ReadInt, ReadIs, PartsNow

\* Instructions that move, extend, test and count
LEMMA Moves ==
  ASSUME TypeOK, Inc \/ Dec \/ Not \/ Mov \/ Movs \/ Lea \/ Bt \/ Clc \/ Setcc \/ Cmov \/ Jcc
  PROVE  Kept
  <1>0. machine \in Machines /\ flags \in FlagRecords
    BY PartsNow
  <1>1. CASE Inc \/ Dec \/ Not
    <2>1. eip \in DOMAIN program /\ I.op \in WithDest
      BY <1>1 DEF Inc, Dec, Not, At, WithDest
    <2>2. Dest \in Int
      BY <2>1, DestIs
    <2>3. Mask(Dest + 1, LONG) \in Int /\ Mask(Dest - 1, LONG) \in Int
      <3> DEFINE x == Dest + 1
                 y == Dest - 1
      <3>1. x \in Int /\ y \in Int
        BY <2>2
      <3> HIDE DEF x, y
      <3>2. Mask(x, LONG) \in Int /\ Mask(y, LONG) \in Int
        BY <3>1, LongIs, InLong DEF Mask
      <3> QED
        BY <3>2 DEF x, y
    <2>4. 2^LONG - 1 - Dest \in Int
      <3>1. 2^LONG \in Int
        BY LongIs, Subsets
      <3> QED
        BY <2>2, <3>1
    <2>5. \A v \in Int : Continues(operand_write(machine, I.dst, v)) => Kept
      BY <2>1, Written
    <2> QED
      BY <1>1, <2>3, <2>4, <2>5 DEF Inc, Dec, Not
  <1>2. CASE Mov \/ Movs
    <2>1. eip \in DOMAIN program /\ I.op \in WithDest /\ I.op \in WithSource
      BY <1>2 DEF Mov, Movs, At, WithDest, WithSource, WithBoth
    <2>2. Source \in Int /\ SignExt(Source, I.src.n) \in Int
      BY <2>1, SourceIs
    <2>3. \A v \in Int : Continues(operand_write(machine, I.dst, v)) => Kept
      BY <2>1, Written
    <2> QED
      BY <1>2, <2>2, <2>3 DEF Mov, Movs
  <1>3. CASE Lea
    <2>1. eip \in DOMAIN program /\ I.op = "lea"
      BY <1>3 DEF Lea, At
    <2>2. I.op \in WithDest /\ I.op \in WithSource
      BY <2>1 DEF WithDest, WithSource, WithBoth
    <2>3. IsOperand(I.src) /\ I.src.type = "mem"
      BY <2>1, <2>2, DecodedNow DEF Decoded
    <2>4. Address(machine, I.src) \in Int
      BY <1>0, <2>3, AddressIs
    <2>5. \A v \in Int : Continues(operand_write(machine, I.dst, v)) => Kept
      BY <2>1, <2>2, Written
    <2> QED
      BY <1>3, <2>4, <2>5 DEF Lea
  <1>4. \A c \in {0, 1} : Continues([machine EXCEPT !.flags.CF = c]) => Kept
    <2> SUFFICES ASSUME NEW c \in {0, 1} PROVE Continues([machine EXCEPT !.flags.CF = c]) => Kept
      BY Zenon
    <2> DEFINE f == [machine.flags EXCEPT !.CF = c]
    <2>1. f \in FlagRecords
      BY PartsNow DEF FlagRecords
    <2>2. [machine EXCEPT !.flags = f] = [machine EXCEPT !.flags.CF = c]
      BY Zenon
    <2> HIDE DEF f
    <2>3. [machine EXCEPT !.flags = f] \in Machines
      BY <1>0, <2>1, Parts
    <2> QED
      BY <2>2, <2>3, BecomesIs
  <1>5. CASE Bt
    <2>1. eip \in DOMAIN program /\ I.op \in WithDest /\ I.op \in WithSource
      BY <1>5 DEF Bt, At, WithDest, WithSource, WithBoth
    <2>2. Source \in Int /\ Dest \in Int
      BY <2>1, SourceIs, DestIs
    <2>3. HostShr(Dest, Source) \in Int
      BY <2>2, HostShrIs
    <2>4. HostShr(Dest, Source) % 2 \in {0, 1}
      BY <2>3
    <2> QED
      BY <1>4, <1>5, <2>4 DEF Bt
  <1>6. CASE Clc
    BY <1>4, <1>6 DEF Clc
  <1>7. CASE Setcc
    <2>1. eip \in DOMAIN program /\ I.op \in WithDest
      BY <1>7 DEF Setcc, At, WithDest
    <2>2. Bit(Condition(I.cc)) \in Int
      BY DEF Bit
    <2> QED
      BY <1>7, <2>1, <2>2, Written DEF Setcc
  <1>8. CASE Cmov
    <2>1. eip \in DOMAIN program /\ I.op \in WithDest /\ I.op \in WithSource
      BY <1>8 DEF Cmov, At, WithDest, WithSource, WithBoth
    <2>2. operand_write(machine, I.dst, Source) \in Machines
      BY <2>1, SourceIs, Written
    <2> QED
      BY <1>0, <1>8, <2>2, BecomesIs DEF Cmov
  <1>9. CASE Jcc
    BY <1>0, <1>9, BecomesIs DEF Jcc
  <1> QED
    BY <1>1, <1>2, <1>3, <1>5, <1>6, <1>7, <1>8, <1>9

\* Multiplication and division
LEMMA Products ==
  ASSUME TypeOK, Mul \/ Imul \/ Imul2 \/ Idiv \/ Cbw \/ Cltd
  PROVE  Kept
  <1> DEFINE n == I.dst.n
             acc == Accumulator(n)
             high == operand_read(machine, Reg(EDX, n))
             d == Dest
             sd == Signed(d, n)
             sa == Signed(acc, n)
  <1>0. machine \in Machines /\ flags \in FlagRecords
    BY PartsNow
  <1>1. eip \in DOMAIN program /\ I.op \in {"mul", "imul", "imul2", "idiv", "cbw", "cltd"}
    BY DEF Mul, Imul, Imul2, Idiv, Cbw, Cltd, At
  <1>2. I.op \in WithDest
    BY <1>1 DEF WithDest, WithBoth
  <1>3. n \in Sizes /\ n \in 1 .. LONG /\ d \in Nat /\ d \in 0 .. 2^n - 1
    BY <1>1, <1>2, DestIs
  <1>4. acc \in Nat /\ acc \in 0 .. 2^n - 1 /\ high \in Nat
    <2>1. EAX \in 0 .. 7 /\ EDX \in 0 .. 7
      BY DEF EAX, EDX
    <2> QED
      BY <1>3, <2>1, OperandRead DEF Accumulator
  <1> HIDE DEF n, acc, high, d
  <1>5. sd \in Int /\ sa \in Int /\ (d # 0 => sd # 0)
    BY <1>3, <1>4, SignedIs
  <1> HIDE DEF sd, sa
  <1>6. \A low, top \in Int : Double(machine, n, low, top) \in Machines
    BY <1>0, <1>3, DoubleIs
  <1>7. \A v \in Int : Continues(operand_write(machine, I.dst, v)) => Kept
    BY <1>1, <1>2, Written
  <1>8. CASE Mul
    <2> DEFINE c == alu_mul(d, acc, n, flags)
    <2>1. c \in Results
      BY <1>0, <1>3, <1>4, ProductIs
    <2>2. Continues([Double(machine, n, c.res % 2^n, c.res \div 2^n) EXCEPT !.flags = c.flags])
      BY <1>8 DEF Mul, n, acc, d
    <2> HIDE DEF c
    <2>3. c.res \in Int /\ c.flags \in FlagRecords
      BY <2>1 DEF Results
    <2> DEFINE m == Double(machine, n, c.res % 2^n, c.res \div 2^n)
    <2>4. c.res % 2^n \in Int /\ c.res \div 2^n \in Int
      BY <1>3, <2>3, HalvesAre
    <2>5. m \in Machines
      BY <1>6, <2>4
    <2> HIDE DEF m
    <2>6. [m EXCEPT !.flags = c.flags] \in Machines
      BY <2>3, <2>5, Parts
    <2> QED
      BY <2>2, <2>6, BecomesIs DEF m
  <1>9. CASE Imul
    <2> DEFINE p == sd * sa
    <2>1. Continues(Double(machine, n, p % 2^n, (p \div 2^n) % 2^n))
      BY <1>9 DEF Imul, n, acc, d, sd, sa, alu_imul
    <2>2. p \in Int
      BY <1>5
    <2> HIDE DEF p
    <2>3. p % 2^n \in Int /\ (p \div 2^n) % 2^n \in Int
      BY <1>3, <2>2, HalvesAre
    <2>4. Double(machine, n, p % 2^n, (p \div 2^n) % 2^n) \in Machines
      BY <1>6, <2>3
    <2> QED
      BY <2>1, <2>4, BecomesIs
  <1>10. CASE Imul2
    <2> DEFINE p == Signed(Source, n) * sd
    <2>0. I.op \in WithSource /\ I.op = "imul2"
      BY <1>10 DEF Imul2, At, WithSource, WithBoth
    <2>1. Continues(operand_write(machine, I.dst, p % 2^n))
      BY <1>10 DEF Imul2, n, d, sd, alu_imul
    <2>2. Signed(Source, n) \in Int
      <3>1. Source \in Int /\ 2^n \in Int
        BY <1>1, <1>3, <2>0, SourceIs, Widths
      <3> QED
        BY <3>1 DEF Signed
    <2>3. p \in Int
      BY <1>5, <2>2
    <2> HIDE DEF p
    <2>4. p % 2^n \in Int
      BY <1>3, <2>3, HalvesAre
    <2> QED
      BY <1>7, <2>1, <2>4
  <1>11. CASE Idiv
    <2> DEFINE w == 2^n
               u == high * w + acc
               dividend == Signed(u, 2 * n)
               q == Quotient(dividend, sd)
               r == Remainder(dividend, sd)
    <2>0. d # 0
      BY <1>11 DEF Idiv, d
    <2>1. Continues(Double(machine, n, q % 2^n, r % 2^n))
      BY <1>11 DEF Idiv, n, acc, d, sd, high, alu_idiv, alu_imod
    <2>2. w \in Int /\ 2^(2 * n) \in Int /\ 2^(2 * n - 1) \in Int
      <3>1. n \in Nat /\ 2 * n \in Nat /\ 2 * n - 1 \in Nat
        BY <1>3, LongIs
      <3> QED
        BY <3>1, Subsets
    <2> HIDE DEF w
    <2>3. u \in Int
      BY <1>4, <2>2
    <2> HIDE DEF u
    <2>4. dividend \in Int
      <3> DEFINE t == 2^(2 * n)
      <3>1. dividend = u - t \/ dividend = u
        BY DEF Signed
      <3>2. t \in Int
        BY <2>2
      <3> HIDE DEF t, dividend
      <3> QED
        BY <2>3, <3>1, <3>2
    <2> HIDE DEF dividend
    <2>5. q \in Int /\ r \in Int
      BY <1>5, <2>0, <2>4, QuotientIs
    <2> HIDE DEF q, r
    <2>6. q % 2^n \in Int /\ r % 2^n \in Int
      BY <1>3, <2>5, HalvesAre
    <2>7. Double(machine, n, q % 2^n, r % 2^n) \in Machines
      BY <1>6, <2>6
    <2> QED
      BY <2>1, <2>7, BecomesIs
  <1>12. \A k \in 0 .. 7, v \in Int : operand_write(machine, Reg(k, n), v) \in Machines
    <2> SUFFICES ASSUME NEW k \in 0 .. 7, NEW v \in Int
                 PROVE  operand_write(machine, Reg(k, n), v) \in Machines
      OBVIOUS
    <2>1. IsOperand(Reg(k, n)) /\ Reg(k, n).type # "imm"
      BY <1>3, RegisterIs
    <2> QED
      BY <1>0, <2>1, WriteIs
  <1>13. CASE Cbw
    <2> DEFINE h == n \div 2
    <2>0. n # BYTE
      BY <1>13, <1>1, DecodedNow DEF Cbw, At, Decoded, n
    <2>1. h \in 1 .. LONG
      <3>1. n = WORD \/ n = LONG
        BY <1>3, <2>0 DEF Sizes
      <3>2. BYTE \in Nat \ {0}
        BY ByteAssumption
      <3>3. 2 * BYTE = 2 * BYTE + 0 /\ 4 * BYTE = 2 * (2 * BYTE) + 0 /\ 0 \in 0 .. 2 - 1
            /\ BYTE \in Int /\ 2 * BYTE \in Int /\ 4 * BYTE \in Int
        BY <3>2
      <3>4. (2 * BYTE) \div 2 = BYTE
        BY <3>3, Division
      <3>5. (4 * BYTE) \div 2 = 2 * BYTE
        BY <3>3, Division
      <3> QED
        BY <3>1, <3>2, <3>4, <3>5 DEF WORD, LONG
    <2>2. Continues(operand_write(machine, Reg(EAX, n), SignExt(acc, h)))
      BY <1>13 DEF Cbw, n, acc
    <2> HIDE DEF h
    <2>3. SignExt(acc, h) \in 0 .. 2^LONG - 1 /\ 2^LONG \in Nat
      BY <1>4, <2>1, SignExtIs, Widths
    <2>4. SignExt(acc, h) \in Int /\ EAX \in 0 .. 7
      BY <2>3 DEF EAX
    <2> QED
      BY <1>12, <2>2, <2>4, BecomesIs
  <1>14. CASE Cltd
    <2> DEFINE v == IF Sign(acc) = 1 THEN 2^LONG - 1 ELSE 0
    <2>1. Continues(operand_write(machine, Reg(EDX, n), v))
      BY <1>14 DEF Cltd, n, acc
    <2>2. v \in Int /\ EDX \in 0 .. 7
      <3>1. 2^LONG \in Int
        BY LongIs, Subsets
      <3> QED
        BY <3>1 DEF EDX
    <2> HIDE DEF v
    <2> QED
      BY <1>12, <2>1, <2>2, BecomesIs
  <1> QED
    BY <1>8, <1>9, <1>10, <1>11, <1>13, <1>14

\* The sizes by name
LEMMA SizesHave == BYTE \in Sizes /\ WORD \in Sizes /\ LONG \in Sizes /\ LONG \in Int
  BY LongIs DEF Sizes

\* Stack, calls and jumps
LEMMA StackSteps ==
  ASSUME TypeOK,
         Push \/ Pop \/ Pusha \/ Popa \/ Call \/ CallIndirect \/ Jmp \/ JmpIndirect \/ Ret \/ Leave
  PROVE  Kept
  <1>0. machine \in Machines /\ \A k \in 0 .. 7 : reg[k] \in Nat /\ reg[k] \in Longs
    BY PartsNow
  <1>1. \A m \in Machines, v \in Int : PushValue(m, v, LONG) \in Machines
    BY SizesHave, PushIs
  <1>2. \A m \in Machines : Drop(m, LONG) \in Machines
    BY SizesHave, DropIs
  <1>3. \A m \in Machines : TopValue(m, LONG) \in Longs
    BY SizesHave, TopIs
  <1>4. \A m \in Machines, k \in 0 .. 7 : [m EXCEPT !.reg[k] = TopValue(m, LONG)] \in Machines
    BY <1>3, Parts
  <1>5. /\ EAX \in 0 .. 7 /\ ECX \in 0 .. 7 /\ EDX \in 0 .. 7 /\ EBX \in 0 .. 7
        /\ ESP \in 0 .. 7 /\ EBP \in 0 .. 7 /\ ESI \in 0 .. 7 /\ EDI \in 0 .. 7
    BY DEF EAX, ECX, EDX, EBX, ESP, EBP, ESI, EDI
  <1>6. CASE Push
    <2>1. eip \in DOMAIN program /\ I.op = "push"
      BY <1>6 DEF Push, At
    <2>2. I.op \in WithSource
      BY <2>1 DEF WithSource
    <2>3. I.n \in Sizes
      BY <2>1, DecodedNow DEF Decoded
    <2>4. Source \in Int
      BY <2>1, <2>2, SourceIs
    <2>5. PushValue(machine, Source, I.n) \in Machines
      BY <1>0, <2>3, <2>4, PushIs
    <2> QED
      BY <1>6, <2>5, BecomesIs DEF Push
  <1>7. CASE Pop
    <2>1. eip \in DOMAIN program /\ I.op \in WithDest
      BY <1>7 DEF Pop, At, WithDest
    <2>2. I.dst.n \in Sizes /\ I.dst.n \in Int /\ IsOperand(I.dst) /\ I.dst.type # "imm"
      BY <2>1, DestIs
    <2>3. Drop(machine, I.dst.n) \in Machines
      BY <1>0, <2>2, DropIs
    <2>4. TopValue(machine, I.dst.n) \in Int
      BY <1>0, <2>2, TopIs
    <2>5. operand_write(Drop(machine, I.dst.n), I.dst, TopValue(machine, I.dst.n)) \in Machines
      BY <2>2, <2>3, <2>4, WriteIs
    <2> QED
      BY <1>7, <2>5, BecomesIs DEF Pop
  <1>8. CASE Pusha
    <2> DEFINE P(m, k) == PushValue(m, reg[k], LONG)
               a == P(machine, EAX)
               b == P(a, ECX)
               c == P(b, EDX)
               d == P(c, EBX)
               e == P(d, ESP)
               f == P(e, EBP)
               g == P(f, ESI)
               h == P(g, EDI)
    <2>1. ASSUME NEW m \in Machines, NEW k \in 0 .. 7 PROVE P(m, k) \in Machines
      <3>1. reg[k] \in Nat
        BY <1>0
      <3>2. reg[k] \in Int
        BY <3>1
      <3> QED
        BY <1>1, <3>2
    <2>2. Continues(h)
      BY <1>8 DEF Pusha
    <2> HIDE DEF P
    <2>3. d \in Machines
      BY <1>0, <1>5, <2>1
    <2> HIDE DEF d
    <2>4. h \in Machines
      BY <1>5, <2>1, <2>3
    <2> QED
      BY <2>2, <2>4, BecomesIs
  <1>9. CASE Popa
    <2> DEFINE P(m, k) == Drop([m EXCEPT !.reg[k] = TopValue(m, LONG)], LONG)
               a == P(machine, EDI)
               b == P(a, ESI)
               c == P(b, EBP)
               d == Drop(c, LONG)
               e == P(d, EBX)
               f == P(e, EDX)
               g == P(f, ECX)
               h == P(g, EAX)
    <2>1. \A m \in Machines, k \in 0 .. 7 : P(m, k) \in Machines
      BY <1>2, <1>4
    <2>2. Continues(h)
      BY <1>9 DEF Popa
    <2> HIDE DEF P
    <2>3. d \in Machines
      BY <1>0, <1>2, <1>5, <2>1
    <2> HIDE DEF d
    <2>4. h \in Machines
      BY <1>5, <2>1, <2>3
    <2> QED
      BY <2>2, <2>4, BecomesIs
  <1>10. CASE Call \/ CallIndirect
    <2>1. eip \in DOMAIN program
      BY <1>10 DEF Call, CallIndirect, At
    <2>2. eip \in Nat
      <3>1. PICK load \in Loads : program = load.program
        BY DEF TypeOK, Programs
      <3> QED
        BY <2>1, <3>1, LoadsAssumption
    <2>3. PushValue(machine, eip + 1, LONG) \in Machines
      BY <1>0, <1>1, <2>2
    <2> QED
      BY <1>10, <2>3, BecomesIs DEF Call, CallIndirect
  <1>11. CASE Jmp \/ JmpIndirect
    BY <1>0, <1>11, BecomesIs DEF Jmp, JmpIndirect
  <1>12. CASE Ret
    <2>1. eip \in DOMAIN program /\ I.op = "ret"
      BY <1>12 DEF Ret, At
    <2>2. I.bytes \in Nat
      BY <2>1, DecodedNow DEF Decoded
    <2> DEFINE n == BYTE * I.bytes
    <2>3. n \in Int
      BY <2>2, ByteAssumption
    <2> HIDE DEF n
    <2>4. Drop(Drop(machine, LONG), n) \in Machines
      BY <1>0, <1>2, <2>3, DropIs
    <2> QED
      BY <1>12, <2>4, BecomesIs DEF Ret, n
  <1>13. CASE Leave
    <2> DEFINE m == [machine EXCEPT !.reg[ESP] = reg[EBP]]
               v == TopValue(m, LONG)
               d == Drop(m, LONG)
    <2>1. Continues([d EXCEPT !.reg[EBP] = v])
      BY <1>13 DEF Leave
    <2>2. m \in Machines
      BY <1>0, <1>5, Parts
    <2> HIDE DEF m
    <2>3. d \in Machines /\ v \in Longs
      BY <1>2, <1>3, <2>2
    <2> HIDE DEF d, v
    <2>4. [d EXCEPT !.reg[EBP] = v] \in Machines
      BY <1>5, <2>3, Parts
    <2> QED
      BY <2>1, <2>4, BecomesIs
  <1> QED
    BY <1>6, <1>7, <1>8, <1>9, <1>10, <1>11, <1>12, <1>13

\* Strings, repeated or not
LEMMA Strings ==
  ASSUME TypeOK, String
  PROVE  Kept
  <1>1. eip \in DOMAIN program /\ I.op \in {"movs", "stos"}
    BY DEF String, At
  <1>2. I.n \in Sizes
    BY <1>1, DecodedNow DEF Decoded
  <1>3. Repeated(I.op, I.n) \in Machines /\ OneString(I.op, machine, I.n) \in Machines
    BY <1>2, RepeatedIs, OneStringIs, PartsNow
  <1> QED
    BY <1>3, BecomesIs DEF String

\* The constants fld1 and fldz load
LEMMA One == Bias * 2^FRACTION \in Longs /\ P_ZERO_F \in Longs
  <1> DEFINE b == Bias
             f == 2^FRACTION
             e == 2^EXPONENT
             n == N_ZERO_F
  <1>1. b \in Nat /\ f \in Nat \ {0} /\ e \in Nat \ {0} /\ n = e * f /\ 2^LONG = 2 * n /\ n \in Nat
    BY FloatWidths
  <1>2. b < e
    <2> DEFINE h == 2^(EXPONENT - 1)
    <2>1. EXPONENT - 1 \in Nat /\ (EXPONENT - 1) + 1 = EXPONENT
      BY FloatAssumption
    <2>2. 2^((EXPONENT - 1) + 1) = 2 * h /\ h \in Nat \ {0}
      BY <2>1, PowerStep, Subsets
    <2>3. e = 2 * h /\ b = h - 1
      BY <2>1, <2>2 DEF Bias
    <2> HIDE DEF e, b, h
    <2> QED
      BY <2>2, <2>3
  <1>3. Longs = 0 .. 2 * n - 1
    BY <1>1 DEF Longs
  <1> HIDE DEF b, f, e, n
  <1>4. b * f =< (e - 1) * f /\ b * f >= 0 /\ b * f \in Int
    BY <1>1, <1>2
  <1>5. (e - 1) * f = e * f - f
    BY <1>1
  <1>6. b * f \in 0 .. 2 * n - 1
    BY <1>1, <1>4, <1>5
  <1> QED
    BY <1>3, <1>6, CodesAre DEF b, f

\* The x87
LEMMA Floats ==
  ASSUME TypeOK, X87
  PROVE  Kept
  <1>0. machine \in Machines /\ fpu \in Rings /\ flags \in FlagRecords /\ machine.flags = flags /\ machine.fpu = fpu
    BY PartsNow
  <1>1. 0 \in 0 .. 7 /\ ST(fpu, 0) \in Longs
    BY <1>0, RingIs
  <1>2. \A f \in Rings : Fpu(f) => Kept
    BY FpuIs
  <1>3. fpu_pop(fpu) \in Rings
    BY <1>0, <1>1, RingSteps
  <1>4. CASE Load
    <2>1. eip \in DOMAIN program /\ I.op \in {"flds", "fld1", "fldz"}
      BY <1>4 DEF Load, At
    <2>2. Loaded \in Longs
      <3>1. CASE I.op = "flds"
        <4>1. I.op \in WithSource
          BY <3>1 DEF WithSource
        <4>2. Loaded = Source
          BY <3>1 DEF Loaded
        <4> QED
          BY <2>1, <4>1, <4>2, SourceIs
      <3>2. CASE I.op = "fld1"
        <4>1. Loaded = Bias * 2^FRACTION
          BY <3>2 DEF Loaded
        <4> QED
          BY <4>1, One
      <3>3. CASE I.op = "fldz"
        <4>1. Loaded = P_ZERO_F
          BY <3>3 DEF Loaded
        <4> QED
          BY <4>1, One
      <3> QED
        BY <2>1, <3>1, <3>2, <3>3
    <2>3. fpu_load(fpu, Loaded) \in Rings
      BY <1>0, <1>1, <2>2, RingSteps
    <2> QED
      BY <1>2, <1>4, <2>3 DEF Load
  <1>5. CASE Fadds \/ Fsubs \/ Fmuls \/ Fdivs
    <2>1. eip \in DOMAIN program /\ I.op \in WithSource
      BY <1>5 DEF Fadds, Fsubs, Fmuls, Fdivs, At, WithSource
    <2>2. Source \in Longs
      BY <2>1, SourceIs
    <2>3. /\ internal_float_add(Source, ST(fpu, 0)) \in Longs /\ internal_float_sub(Source, ST(fpu, 0)) \in Longs
          /\ internal_float_mul(Source, ST(fpu, 0)) \in Longs /\ internal_float_div(Source, ST(fpu, 0)) \in Longs
      BY <1>1, <2>2, FloatSum, FloatDifference, FloatProduct, FloatQuotient
    <2>4. \A v \in Longs : SetST(fpu, 0, v) \in Rings
      BY <1>0, <1>1, RingIs
    <2>5. \A v \in Longs : Float(v) => Kept
      BY <1>2, <2>4 DEF Float
    <2> QED
      BY <1>5, <2>3, <2>5 DEF Fadds, Fsubs, Fmuls, Fdivs
  <1>6. ASSUME I.op \in WithIdx, eip \in DOMAIN program PROVE I.idx \in 0 .. 7
    BY <1>6, DecodedNow DEF Decoded
  <1>7. \A i \in 0 .. 7, j \in 0 .. 7 :
          /\ fpu_add_idx(fpu, i, j) \in Rings /\ fpu_mul_idx(fpu, i, j) \in Rings
          /\ fpu_xch(fpu, i) \in Rings /\ fpu_copy(fpu, i) \in Rings
    BY <1>0, <1>1, RingSteps
  <1>8. \A f \in Rings : fpu_pop(f) \in Rings
    BY <1>1, RingSteps
  <1>9. CASE FaddIdx \/ Faddlx \/ Fmullx \/ Faddx
    <2>1. I.op \in WithIdx /\ eip \in DOMAIN program
      BY <1>9 DEF FaddIdx, Faddlx, Fmullx, Faddx, At, WithIdx
    <2>2. I.idx \in 0 .. 7
      BY <1>6, <2>1
    <2>3. /\ fpu_add_idx(fpu, I.idx, 0) \in Rings /\ fpu_add_idx(fpu, I.idx, I.idx) \in Rings
          /\ fpu_mul_idx(fpu, I.idx, I.idx) \in Rings
      BY <1>1, <1>7, <2>2
    <2>4. fpu_pop(fpu_add_idx(fpu, I.idx, I.idx)) \in Rings
      BY <1>8, <2>3
    <2> QED
      BY <1>2, <1>9, <2>3, <2>4 DEF FaddIdx, Faddlx, Fmullx, Faddx
  <1>10. CASE Fstx \/ Fstpx \/ Fxch
    <2>1. I.op \in WithIdx /\ eip \in DOMAIN program
      BY <1>10 DEF Fstx, Fstpx, Fxch, At, WithIdx
    <2>2. I.idx \in 0 .. 7
      BY <1>6, <2>1
    <2>3. fpu_copy(fpu, I.idx) \in Rings /\ fpu_xch(fpu, I.idx) \in Rings
      BY <1>7, <2>2
    <2>4. fpu_pop(fpu_copy(fpu, I.idx)) \in Rings
      BY <1>8, <2>3
    <2> QED
      BY <1>2, <1>10, <2>3, <2>4 DEF Fstx, Fstpx, Fxch
  <1>11. CASE Fsts \/ Fstps
    <2>1. eip \in DOMAIN program /\ I.op \in WithDest
      BY <1>11 DEF Fsts, Fstps, At, WithDest
    <2>2. ST(fpu, 0) \in Int
      BY <1>1, LongIs, Subsets DEF Longs
    <2> DEFINE m == operand_write(machine, I.dst, ST(fpu, 0))
    <2>3. m \in Machines
      BY <2>1, <2>2, Written
    <2>4. Fsts => Continues(m)
      BY DEF Fsts
    <2>5. Fstps => Continues([m EXCEPT !.fpu = fpu_pop(fpu)])
      BY DEF Fstps
    <2> HIDE DEF m
    <2>6. [m EXCEPT !.fpu = fpu_pop(fpu)] \in Machines
      BY <1>3, <2>3, Parts DEF Rings
    <2> QED
      BY <1>11, <2>3, <2>4, <2>5, <2>6, BecomesIs
  <1>12. CASE Fucomi
    <2> DEFINE a == ST(fpu, 0)
               b == ST(fpu, I.idx)
               c == Bit(Less(a, b))
               z == Bit(~Less(a, b) /\ ~Less(b, a))
               f == [flags EXCEPT !.PF = 0, !.CF = c, !.ZF = z]
               g == IF I.op = "fucomip" THEN fpu_pop(fpu) ELSE fpu
    <2>1. c \in {0, 1} /\ z \in {0, 1}
      BY DEF Bit
    <2>2. Continues([machine EXCEPT !.flags = f, !.fpu = g])
      BY <1>0, <1>12 DEF Fucomi
    <2> HIDE DEF c, z
    <2>3. f \in FlagRecords
      BY <1>0, <2>1 DEF FlagRecords
    <2>4. g \in Rings
      BY <1>0, <1>3
    <2> HIDE DEF f, g
    <2> DEFINE m == [machine EXCEPT !.flags = f]
    <2>5. m \in Machines
      BY <1>0, <2>3, Parts
    <2>6. [machine EXCEPT !.flags = f, !.fpu = g] = [m EXCEPT !.fpu = g]
      OBVIOUS
    <2> HIDE DEF m
    <2>7. [m EXCEPT !.fpu = g] \in Machines
      BY <2>4, <2>5, Parts DEF Rings
    <2> QED
      BY <2>2, <2>6, <2>7, BecomesIs
  <1> QED
    BY <1>4, <1>5, <1>9, <1>10, <1>11, <1>12 DEF X87

\* The start
LEMMA Starts == Init => TypeOK
  <1> SUFFICES ASSUME Init PROVE TypeOK
    OBVIOUS
  <1>1. PICK load \in Loads : program = load.program /\ reg \in load.regs
    BY DEF Init
  <1>2. reg \in [0 .. 7 -> Longs] /\ program \in Programs
    BY <1>1, LoadsAssumption DEF Programs
  <1>3. mem \in [Longs -> 0 .. 2^BYTE - 1]
    <2>1. mem = [a \in Longs |-> a % 2^BYTE]
      BY DEF Init
    <2> DEFINE w == 2^BYTE
    <2>2. w \in Nat \ {0}
      BY ByteAssumption, Subsets
    <2>3. Longs \subseteq Int
      BY DEF Longs
    <2>4. mem = [a \in Longs |-> a % w]
      BY <2>1
    <2> HIDE DEF w
    <2>5. \A a \in Longs : a % w \in 0 .. w - 1
      BY <2>2, <2>3, DivMod
    <2>6. mem \in [Longs -> 0 .. w - 1]
      BY <2>4, <2>5
    <2> QED
      BY <2>6 DEF w
  <1>4. flags \in FlagRecords
    BY DEF Init, NoFlags, FlagRecords
  <1>5. fpu \in [stack : [0 .. 7 -> Longs], top : 0 .. 7]
    <2>1. 0 \in Longs
      BY CodesAre DEF P_ZERO_F
    <2> QED
      BY <2>1 DEF Init
  <1> QED
    BY <1>2, <1>3, <1>4, <1>5 DEF TypeOK, Machines, machine

\* Every step
LEMMA Stays == TypeOK /\ [Next]_vars => TypeOK'
  <1> SUFFICES ASSUME TypeOK, [Next]_vars PROVE TypeOK'
    OBVIOUS
  <1>1. Kept \/ UNCHANGED vars
    BY Arithmetic, Moves, Products, StackSteps, Strings, Floats DEF Next
  <1>2. CASE Kept
    BY <1>2 DEF Kept, TypeOK
  <1>3. CASE UNCHANGED vars
    BY <1>3 DEF vars, TypeOK, machine
  <1> QED
    BY <1>1, <1>2, <1>3

\* Spec keeps TypeOK: whatever a program computes with sums, products, shifts, floats,
\* strings and the stack, each register, byte of memory, flag and float keeps its width.
THEOREM Typed == Spec => []TypeOK
  <1> QED
    BY Starts, Stays, PTL DEF Spec

-------------------------------------------------------------------------------
(* What is written is read back. *)

\* The four digits of a number
LEMMA Digits ==
  ASSUME NEW p \in Nat \ {0}, NEW v \in Nat
  PROVE  LET d == v \div p
             e == d \div p
             f == e \div p
         IN  /\ v \div (p * p) = e /\ v \div (p * p * p) = f
             /\ v = (v % p) + (d % p) * p + (e % p) * (p * p) + f * (p * p * p)
             /\ d \in Nat /\ e \in Nat /\ f \in Nat
  <1> DEFINE d == v \div p
             e == d \div p
             f == e \div p
             q == v % p
             r == d % p
             s == e % p
  <1>1. v = p * d + q /\ q \in 0 .. p - 1 /\ d \in Nat
    BY NatDivMod
  <1> HIDE DEF d, q
  <1>2. d = p * e + r /\ r \in 0 .. p - 1 /\ e \in Nat
    BY <1>1, NatDivMod
  <1> HIDE DEF e, r
  <1>3. e = p * f + s /\ s \in 0 .. p - 1 /\ f \in Nat
    BY <1>2, NatDivMod
  <1> HIDE DEF f, s
  <1> DEFINE pp == p * p
             ppp == p * p * p
  <1>4. pp \in Nat \ {0} /\ ppp \in Nat \ {0} /\ ppp = pp * p
    <2>1. pp \in Nat \ {0} /\ ppp = pp * p
      OBVIOUS
    <2> HIDE DEF pp, ppp
    <2> QED
      BY <2>1
  <1>5. p * r =< p * (p - 1) /\ p * (p - 1) = pp - p /\ p * r \in Nat
    BY <1>2
  <1>6. pp * s =< pp * (p - 1) /\ pp * (p - 1) = ppp - pp /\ pp * s \in Nat
    <2> HIDE DEF pp, ppp
    <2> QED
      BY <1>3, <1>4
  <1>7. v = pp * e + (p * r + q)
    <2>1. p * d = p * (p * e) + p * r
      BY <1>2
    <2>2. p * (p * e) = pp * e
      BY <1>2
    <2>3. v = pp * e + p * r + q
      BY <1>1, <2>1, <2>2
    <2>4. pp * e \in Nat
      <3> HIDE DEF pp
      <3> QED
        BY <1>2, <1>4
    <2> DEFINE i == pp * e
               j == p * r
    <2>5. i \in Nat /\ j \in Nat /\ q \in Nat /\ v = i + j + q
      BY <1>1, <1>5, <2>3, <2>4
    <2> HIDE DEF i, j
    <2>6. v = i + (j + q)
      BY <2>5
    <2> QED
      BY <2>6 DEF i, j
  <1>8. v = ppp * f + (pp * s + (p * r + q))
    <2>1. pp * e = pp * (p * f) + pp * s
      <3> HIDE DEF pp
      <3> QED
        BY <1>3, <1>4
    <2>2. pp * (p * f) = ppp * f
      BY <1>3
    <2>3. v = pp * (p * f) + pp * s + (p * r + q)
      BY <1>7, <2>1
    <2>4. pp * (p * f) \in Nat /\ pp * s \in Nat /\ p * r \in Nat /\ q \in Nat
      BY <1>1, <1>3, <1>5, <1>6
    <2> QED
      BY <2>2, <2>3, <2>4
  <1>9. v \div pp = e
    <2> DEFINE z == p * r + q
    <2>1. z \in 0 .. pp - 1 /\ v = pp * e + z
      BY <1>1, <1>5, <1>7
    <2> HIDE DEF z, pp
    <2> QED
      BY <2>1, <1>2, <1>4, Division
  <1>10. v \div ppp = f
    <2> DEFINE z == pp * s + (p * r + q)
    <2>1. z \in 0 .. ppp - 1 /\ v = ppp * f + z
      <3> HIDE DEF pp, ppp
      <3> QED
        BY <1>1, <1>4, <1>5, <1>6, <1>8
    <2> HIDE DEF z, ppp
    <2> QED
      BY <2>1, <1>3, <1>4, Division
  <1>11. v = q + r * p + s * pp + f * ppp
    <2>1. ppp * f = f * ppp /\ pp * s = s * pp /\ p * r = r * p
      <3> HIDE DEF pp, ppp
      <3> QED
        BY <1>1, <1>2, <1>3, <1>4
    <2>2. ppp * f \in Nat
      <3> HIDE DEF pp, ppp
      <3> QED
        BY <1>3, <1>4
    <2> HIDE DEF pp, ppp
    <2> QED
      BY <1>1, <1>5, <1>6, <1>8, <2>1, <2>2
  <1> QED
    BY <1>1, <1>2, <1>3, <1>9, <1>10, <1>11 DEF d, e, f, q, r, s

\* A byte of a store is found at its address, also across the end of memory.
LEMMA StoredByte ==
  ASSUME NEW m \in Machines, NEW a \in Longs, NEW n \in Sizes, NEW v \in Nat, NEW k \in 0 .. 3, k < n \div BYTE
  PROVE  StoreBytes(m, a, n, v).mem[(a + k) % 2^LONG] = (v \div 2^(BYTE * k)) % 2^BYTE
  <1> DEFINE l == 2^LONG
             x == (a + k) % l
  <1>1. l \in Nat \ {0} /\ l > 4
    <2>1. LONG \in Nat /\ LONG - 3 \in Nat /\ (LONG - 3) + 3 = LONG
      BY ByteAssumption DEF LONG
    <2>2. 2^(0 + 1) = 2 /\ 2^(1 + 1) = 4 /\ 2^(2 + 1) = 8
      <3>1. 2^(0 + 1) = 2 * 2^0
        BY PowerStep
      <3>2. 2^(1 + 1) = 2 * 2^1
        BY PowerStep
      <3>3. 2^(2 + 1) = 2 * 2^2
        BY PowerStep
      <3> QED
        BY <3>1, <3>2, <3>3, PowerZero
    <2>3. 2^((LONG - 3) + 3) = 2^(LONG - 3) * 2^3
      BY <2>1, PowerSum
    <2> DEFINE b == 2^(LONG - 3)
    <2>4. b \in Nat \ {0} /\ l \in Nat \ {0}
      BY <2>1, Subsets
    <2>5. l = b * 8
      <3>1. 1 + 1 = 2 /\ 0 + 1 = 1 /\ 2 + 1 = 3
        OBVIOUS
      <3>2. 2^3 = 8
        BY <2>2, <3>1
      <3>3. 2^LONG = b * 2^3
        BY <2>1, <2>3
      <3> QED
        BY <3>2, <3>3
    <2> HIDE DEF b, l
    <2> QED
      BY <2>4, <2>5
  <1>2. a \in Nat /\ a \in 0 .. l - 1
    BY <1>1 DEF Longs
  <1>3. x \in Longs /\ x \in Int /\ (x - a) % l = k
    <2> HIDE DEF x, l
    <2> DEFINE y == a + k
               d == y \div l
    <2>1. y \in Int /\ x = y % l
      BY <1>2 DEF x
    <2> HIDE DEF y
    <2>2. y = l * d + x /\ x \in 0 .. l - 1 /\ d \in Int
      BY <1>1, <2>1, DivMod
    <2> HIDE DEF d
    <2>3. x - a = k + l * (-d)
      <3>1. l * (-d) = -(l * d) /\ l * d \in Int
        BY <1>1, <2>2
      <3>2. y - a = k
        BY <1>2 DEF y
      <3> QED
        BY <1>2, <2>1, <2>2, <3>1, <3>2
    <2>4. -d \in Int /\ k \in Int /\ k \in 0 .. l - 1
      BY <1>1, <2>2
    <2>5. (k + l * (-d)) % l = k % l
      BY <1>1, <2>4, ModShift
    <2>6. k % l = k
      BY <1>1, <2>4, ModSmall
    <2> QED
      BY <1>1, <2>2, <2>3, <2>5, <2>6 DEF Longs, l
  <1>4. StoreBytes(m, a, n, v).mem =
          [y \in Longs |-> LET j == (y - a) % l
                           IN  IF j < n \div BYTE THEN (v \div 2^(BYTE * j)) % 2^BYTE ELSE m.mem[y]]
    BY DEF StoreBytes, Machines
  <1>5. StoreBytes(m, a, n, v).mem[x] =
          IF (x - a) % l < n \div BYTE THEN (v \div 2^(BYTE * ((x - a) % l))) % 2^BYTE ELSE m.mem[x]
    <2> HIDE DEF x, l
    <2> QED
      BY <1>3, <1>4
  <1> QED
    BY <1>3, <1>5

\* Memory: the low byte comes first, for reading as for writing.
LEMMA LoadsStored ==
  ASSUME NEW m \in Machines, NEW a \in Longs, NEW n \in Sizes, NEW v \in 0 .. 2^n - 1
  PROVE  LoadBytes(StoreBytes(m, a, n, v), a, n) = v
  <1> DEFINE s == StoreBytes(m, a, n, v)
             c == n \div BYTE
             p == 2^BYTE
             M(k) == s.mem[(a + k) % 2^LONG]
             B(k) == IF k < c THEN M(k) * 2^(BYTE * k) ELSE 0
             d == v \div p
             e == d \div p
             f == e \div p
  <1>1. n \in Nat /\ n = BYTE * c /\ c \in {1, 2, 4} /\ BYTE \in Nat /\ p \in Nat \ {0} /\ 2^n \in Nat /\ v \in Nat
    <2>1. n \in Nat /\ n = BYTE * c /\ c \in {1, 2, 4} /\ BYTE \in Nat
      BY SizesAre, ByteAssumption
    <2>2. p \in Nat \ {0} /\ 2^n \in Nat
      BY <2>1, Subsets
    <2> QED
      BY <2>1, <2>2
  <1>2. BYTE * 0 = 0 /\ BYTE * 1 = BYTE /\ BYTE * 2 = BYTE + BYTE /\ BYTE * 3 = BYTE + BYTE + BYTE
        /\ BYTE * 4 = BYTE + BYTE + BYTE + BYTE
    BY <1>1
  <1>3. 2^0 = 1 /\ 2^(BYTE + BYTE) = p * p /\ 2^(BYTE + BYTE + BYTE) = p * p * p
        /\ 2^(BYTE + BYTE + BYTE + BYTE) = p * p * p * p
    <2>1. BYTE + BYTE \in Nat /\ BYTE + BYTE + BYTE \in Nat
      BY <1>1
    <2>2. 2^(BYTE + BYTE) = p * p
      BY <1>1, PowerSum
    <2>3. 2^(BYTE + BYTE + BYTE) = 2^(BYTE + BYTE) * p
      BY <1>1, <2>1, PowerSum
    <2>4. 2^(BYTE + BYTE + BYTE + BYTE) = 2^(BYTE + BYTE + BYTE) * p
      BY <1>1, <2>1, PowerSum
    <2> QED
      BY <2>2, <2>3, <2>4, PowerZero
  <1>4. \A k \in 0 .. 3 : k < c => M(k) = (v \div 2^(BYTE * k)) % p
    <2> TAKE k \in 0 .. 3
    <2> QED
      BY <1>1, StoredByte
  <1>5. /\ v \div (p * p) = e /\ v \div (p * p * p) = f
        /\ v = (v % p) + (d % p) * p + (e % p) * (p * p) + f * (p * p * p)
        /\ d \in Nat /\ e \in Nat /\ f \in Nat
    <2> HIDE DEF p
    <2> QED
      BY <1>1, Digits
  <1>6. v \div 1 = v
    <2>1. v = 1 * v + 0 /\ 0 \in 0 .. 1 - 1
      BY <1>1
    <2> QED
      BY <1>1, <2>1, Division
  <1>7. LoadBytes(s, a, n) = B(0) + B(1) + B(2) + B(3)
    BY DEF LoadBytes
  <1>8. /\ M(0) = v % p
        /\ 1 < c => M(1) = d % p
        /\ 2 < c => M(2) = e % p
        /\ 3 < c => M(3) = f % p
    <2>1. M(0) = (v \div 2^(BYTE * 0)) % p
      BY <1>1, <1>4
    <2>2. 1 < c => M(1) = (v \div 2^(BYTE * 1)) % p
      BY <1>4
    <2>3. 2 < c => M(2) = (v \div 2^(BYTE * 2)) % p
      BY <1>4
    <2>4. 3 < c => M(3) = (v \div 2^(BYTE * 3)) % p
      BY <1>4
    <2> HIDE DEF M, s, c
    <2> QED
      BY <1>2, <1>3, <1>5, <1>6, <2>1, <2>2, <2>3, <2>4
  <1>9. /\ B(0) = v % p
        /\ B(1) = IF 1 < c THEN (d % p) * p ELSE 0
        /\ B(2) = IF 2 < c THEN (e % p) * (p * p) ELSE 0
        /\ B(3) = IF 3 < c THEN (f % p) * (p * p * p) ELSE 0
    <2>1. 2^(BYTE * 0) = 1 /\ 2^(BYTE * 1) = p /\ 2^(BYTE * 2) = p * p /\ 2^(BYTE * 3) = p * p * p
      BY <1>2, <1>3
    <2>2. (v % p) * 1 = v % p
      <3> HIDE DEF p
      <3>1. v % p \in Int
        BY <1>1, DivMod
      <3> QED
        BY <3>1
    <2> HIDE DEF M, s, c, p, d, e, f
    <2> QED
      BY <1>1, <1>8, <2>1, <2>2
  <1>10. v < (IF c = 1 THEN p ELSE IF c = 2 THEN p * p ELSE p * p * p * p)
    <2>1. CASE c = 1
      <3>1. n = BYTE
        BY <1>1, <2>1
      <3> QED
        BY <3>1, <2>1, <1>1
    <2>2. CASE c = 2
      <3>1. 2^n = p * p
        BY <1>1, <1>2, <1>3, <2>2
      <3>2. v < p * p
        BY <1>1, <3>1
      <3> QED
        BY <2>2, <3>2
    <2>3. CASE c = 4
      <3>1. 2^n = p * p * p * p
        BY <1>1, <1>2, <1>3, <2>3
      <3>2. v < p * p * p * p
        BY <1>1, <3>1
      <3> QED
        BY <2>3, <3>2
    <2> QED
      BY <1>1, <2>1, <2>2, <2>3
  <1>11. d % p \in Nat /\ e % p \in Nat /\ f % p \in Nat /\ v % p \in Nat
    <2> HIDE DEF p, d, e, f
    <2>1. \A x \in Nat : x % p \in Nat
      <3> TAKE x \in Nat
      <3>1. x % p \in 0 .. p - 1
        BY <1>1, NatDivMod
      <3> QED
        BY <1>1, <3>1
    <2> QED
      BY <1>1, <1>5, <2>1
  <1> DEFINE pp == p * p
             ppp == p * p * p
  <1>12. pp \in Nat \ {0} /\ ppp \in Nat \ {0} /\ ppp = pp * p
    <2> HIDE DEF p
    <2>1. pp \in Nat \ {0} /\ ppp = pp * p
      BY <1>1
    <2> HIDE DEF pp, ppp
    <2> QED
      BY <1>1, <2>1
  <1>13. CASE c = 1
    <2>1. v % p = v
      <3> HIDE DEF p
      <3>1. v \in 0 .. p - 1
        BY <1>1, <1>10, <1>13
      <3> QED
        BY <1>1, <3>1, ModSmall
    <2>2. B(0) = v /\ B(1) = 0 /\ B(2) = 0 /\ B(3) = 0
      BY <1>9, <1>13, <2>1
    <2> HIDE DEF B
    <2> QED
      BY <1>1, <1>7, <2>2
  <1>14. CASE c = 2
    <2>1. e = 0 /\ f = 0
      <3>1. v \div pp = 0
        <4>1. v \in 0 .. pp - 1
          BY <1>1, <1>10, <1>12, <1>14
        <4> HIDE DEF pp
        <4> QED
          BY <4>1, <1>12, ModSmall
      <3>2. e = 0
        BY <1>5, <3>1
      <3>3. 0 \div p = 0
        <4> HIDE DEF p
        <4>1. 0 \in 0 .. p - 1
          BY <1>1
        <4> QED
          BY <1>1, <4>1, ModSmall
      <3> HIDE DEF e
      <3> QED
        BY <3>2, <3>3
    <2>2. 0 % p = 0
      <3> HIDE DEF p
      <3>1. 0 \in 0 .. p - 1
        BY <1>1
      <3> QED
        BY <1>1, <3>1, ModSmall
    <2>3. v = (v % p) + (d % p) * p + (e % p) * pp + f * ppp
      BY <1>5
    <2>4. (e % p) * pp = 0 /\ f * ppp = 0
      <3> HIDE DEF pp, ppp, p, e, f
      <3> QED
        BY <2>1, <2>2, <1>12
    <2>5. (d % p) * p \in Nat
      <3> HIDE DEF p, d
      <3> QED
        BY <1>1, <1>11
    <2>6. v = (v % p) + (d % p) * p
      <3> DEFINE g == v % p
                 i == (d % p) * p
      <3>1. g \in Nat /\ i \in Nat /\ v = g + i + 0 + 0
        BY <1>11, <2>3, <2>4, <2>5
      <3> HIDE DEF g, i
      <3>2. v = g + i
        BY <3>1
      <3> QED
        BY <3>2 DEF g, i
    <2>7. B(0) = v % p /\ B(1) = (d % p) * p /\ B(2) = 0 /\ B(3) = 0
      BY <1>9, <1>14
    <2> DEFINE g == v % p
               i == (d % p) * p
    <2>8. g \in Nat /\ i \in Nat /\ v = g + i /\ LoadBytes(s, a, n) = g + i + 0 + 0
      BY <1>7, <1>11, <2>5, <2>6, <2>7
    <2> HIDE DEF g, i, s
    <2>9. LoadBytes(s, a, n) = v
      BY <2>8
    <2> QED
      BY <2>9 DEF s
  <1>15. CASE c = 4
    <2>1. f % p = f
      <3>1. v < ppp * p
        BY <1>10, <1>15
      <3>2. f * ppp =< v
        <4> DEFINE g == v % p
                   i == (d % p) * p
                   j == (e % p) * pp
                   k == f * ppp
        <4>1. v = g + i + j + k
          BY <1>5
        <4>2. g \in Nat /\ i \in Nat /\ j \in Nat /\ k \in Nat
          <5> HIDE DEF p, pp, ppp, d, e, f
          <5> QED
            BY <1>1, <1>5, <1>11, <1>12
        <4> HIDE DEF g, i, j, k
        <4>3. k =< v
          BY <4>1, <4>2
        <4> QED
          BY <4>3 DEF k
      <3>3. f < p
        <4> HIDE DEF p, pp, ppp, d, e, f
        <4>1. CASE f >= p
          <5>1. f * ppp >= p * ppp
            BY <4>1, <1>1, <1>5, <1>12
          <5>2. p * ppp = ppp * p /\ p * ppp \in Nat /\ f * ppp \in Nat
            BY <1>1, <1>5, <1>12
          <5> QED
            BY <1>1, <3>1, <3>2, <5>1, <5>2
        <4> QED
          BY <4>1, <1>1, <1>5
      <3> HIDE DEF p, f
      <3>4. f \in 0 .. p - 1
        BY <3>3, <1>1, <1>5
      <3> QED
        BY <3>4, <1>1, ModSmall
    <2>2. B(0) = v % p /\ B(1) = (d % p) * p /\ B(2) = (e % p) * (p * p) /\ B(3) = (f % p) * (p * p * p)
      BY <1>9, <1>15
    <2>3. B(0) + B(1) + B(2) + B(3) = v
      <3> HIDE DEF B, M, s, c, p, d, e, f
      <3> QED
        BY <1>5, <2>1, <2>2
    <2> QED
      BY <1>7, <2>3
  <1> QED
    BY <1>1, <1>13, <1>14, <1>15

\* A word or long that is put into a register is read back.
LEMMA WordsPut ==
  ASSUME NEW x \in Longs, NEW n \in Sizes, NEW v \in 0 .. 2^n - 1
  PROVE  Mask(Put(x, 0, n, v), n) = v
  <1> DEFINE w == 2^n
             y == Put(x, 0, n, v)
  <1>1. n \in Nat /\ 0 + n =< LONG /\ v \in Int /\ w \in Nat \ {0}
    BY SizesAre, Subsets
  <1>2. y \in Longs /\ (y \div 2^0) % w = v % w
    BY <1>1, PutIs
  <1> HIDE DEF y
  <1>3. y \in Int
    BY <1>2 DEF Longs
  <1>4. y \div 2^0 = y
    <2>1. y = 1 * y + 0 /\ 0 \in 0 .. 1 - 1 /\ 1 \in Nat \ {0}
      BY <1>3
    <2>2. y \div 1 = y
      BY <1>3, <2>1, Division
    <2> QED
      BY <2>2, PowerZero
  <1>5. v % w = v
    <2>1. v \in 0 .. w - 1
      OBVIOUS
    <2> HIDE DEF w
    <2> QED
      BY <2>1, <1>1, ModSmall
  <1> QED
    BY <1>2, <1>4, <1>5 DEF Mask, y

\* What is written to a register, a part of it or memory is read back.
THEOREM ReadsWritten ==
  ASSUME NEW m \in Machines, NEW o, IsOperand(o), o.type # "imm", NEW v \in 0 .. 2^o.n - 1
  PROVE  operand_read(operand_write(m, o, v), o) = v
  <1> DEFINE s == operand_write(m, o, v)
  <1>1. o.n \in Sizes /\ o.n \in Nat /\ 2^o.n \in Nat \ {0} /\ v \in Int
    <2>1. o.n \in Sizes /\ o.n \in Nat
      BY SizesAre DEF IsOperand
    <2>2. 2^o.n \in Nat \ {0}
      BY <2>1, Subsets
    <2> QED
      BY <2>1, <2>2
  <1>2. CASE o.type = "mem"
    <2> DEFINE a == Address(m, o)
    <2>1. s = StoreBytes(m, a, o.n, v)
      BY <1>2 DEF operand_write
    <2>2. s.reg = m.reg
      BY <2>1, StoreKeeps
    <2>3. Address(s, o) = a
      BY <2>2 DEF Address
    <2>4. operand_read(s, o) = LoadBytes(s, Address(s, o), o.n)
      BY <1>2 DEF operand_read
    <2>5. a \in Longs
      BY <1>2, AddressIs
    <2>6. LoadBytes(StoreBytes(m, a, o.n, v), a, o.n) = v
      <3> HIDE DEF a
      <3> QED
        BY <1>1, <2>5, LoadsStored
    <2> QED
      BY <2>1, <2>3, <2>4, <2>6
  <1>3. CASE o.type = "reg" /\ o.n = BYTE
    <2> DEFINE k == o.addr % 4
               lo == BYTE * (o.addr \div 4)
               x == m.reg[k]
    <2>1. o.addr \in 0 .. 7
      BY <1>3 DEF IsOperand
    <2>2. k \in 0 .. 7 /\ lo \in Nat /\ lo + BYTE =< LONG
      BY <2>1, ByteOf
    <2>3. x \in Longs
      BY <2>2, MachineIs
    <2>4. (Put(x, lo, BYTE, v) \div 2^lo) % 2^BYTE = v % 2^BYTE
      <3> HIDE DEF x, lo
      <3> QED
        BY <1>1, <1>3, <2>2, <2>3, PutIs
    <2>5. s = [m EXCEPT !.reg[k] = Put(@, lo, BYTE, v)]
      BY <1>3 DEF operand_write
    <2>6. s.reg[k] = Put(x, lo, BYTE, v)
      <3> HIDE DEF k, lo
      <3> QED
        BY <2>2, <2>5, MachineIs DEF Machines
    <2>7. operand_read(s, o) = Mask(s.reg[k] \div 2^lo, BYTE)
      BY <1>3 DEF operand_read
    <2>8. v % 2^BYTE = v
      BY <1>1, <1>3, ModSmall
    <2> QED
      BY <2>4, <2>6, <2>7, <2>8 DEF Mask
  <1>4. CASE o.type = "reg" /\ o.n # BYTE
    <2> DEFINE k == o.addr
               x == m.reg[k]
    <2>1. k \in 0 .. 7 /\ x \in Longs
      BY <1>4, MachineIs DEF IsOperand
    <2>2. s = [m EXCEPT !.reg[k] = Put(@, 0, o.n, v)]
      BY <1>4 DEF operand_write
    <2>3. s.reg[k] = Put(x, 0, o.n, v)
      <3> HIDE DEF k
      <3> QED
        BY <2>1, <2>2, MachineIs DEF Machines
    <2>4. operand_read(s, o) = Mask(s.reg[k], o.n)
      BY <1>4 DEF operand_read
    <2>5. Mask(Put(x, 0, o.n, v), o.n) = v
      BY <1>1, <2>1, WordsPut
    <2> QED
      BY <2>3, <2>4, <2>5
  <1> QED
    BY <1>2, <1>3, <1>4 DEF IsOperand

-------------------------------------------------------------------------------
(* Conditions *)

\* The conditions after a difference say how its numbers compare.
LEMMA AfterDifference ==
  ASSUME NEW n \in 1 .. LONG, NEW x \in 0 .. 2^n - 1, NEW y \in 0 .. 2^n - 1,
         flags' = FlagsOf((x - y) % 2^n, n, Bit(x < y), Bit(~Fits(Signed(x, n) - Signed(y, n), n)))
  PROVE  \A cc \in Unsigned \cup {"g", "ge", "l", "le"} : Condition(cc)' <=> Meaning(cc, x, y, n)
  <1> DEFINE w == 2^n
             h == 2^(n - 1)
             r == (x - y) % w
             a == Signed(x, n)
             b == Signed(y, n)
             over == ~Fits(a - b, n)
             neg == Signed(r, n) < 0
  <1>1. w = 2 * h /\ h \in Nat \ {0} /\ w \in Nat \ {0} /\ x \in 0 .. w - 1 /\ y \in 0 .. w - 1
    BY Widths
  <1>2. r = IF x < y THEN x - y + w ELSE x - y
    <2> HIDE DEF w
    <2> DEFINE z == x - y
    <2>1. z \in -w .. 2 * w - 1 /\ z < w /\ (z < 0 <=> x < y)
      BY <1>1
    <2>2. z % w = IF z < 0 THEN z + w ELSE IF z < w THEN z ELSE z - w
      <3> HIDE DEF z
      <3> QED
        BY <2>1, <1>1, Wrapped
    <2> QED
      BY <2>1, <2>2
  <1>3. a = (IF x >= h THEN x - w ELSE x) /\ b = (IF y >= h THEN y - w ELSE y)
        /\ Signed(r, n) = (IF r >= h THEN r - w ELSE r)
        /\ (over <=> ~(a - b \in -h .. h - 1))
    BY DEF Signed, Fits
  <1>4. flags'.CF = Bit(x < y) /\ flags'.ZF = Bit(r = 0) /\ flags'.SF = Bit(neg) /\ flags'.OF = Bit(over)
    BY DEF FlagsOf
  <1>5. /\ r = 0 <=> x = y
        /\ (neg <=> over) <=> a >= b
        /\ a = b <=> x = y
        /\ a \in Int /\ b \in Int
    <2>1. neg <=> r >= h
      <3> DEFINE q == Signed(r, n)
      <3>1. q = (IF r >= h THEN r - w ELSE r)
        BY <1>3
      <3> HIDE DEF w, h, r, q
      <3>2. q < 0 <=> r >= h
        BY <1>1, <1>2, <3>1
      <3> QED
        BY <3>2 DEF q
    <2> HIDE DEF w, h, r, a, b, over, neg
    <2> QED
      BY <1>1, <1>2, <1>3, <2>1
  <1>6. /\ flags'.CF \in {0, 1} /\ (flags'.CF = 1 <=> x < y)
        /\ flags'.ZF \in {0, 1} /\ (flags'.ZF = 1 <=> x = y)
        /\ flags'.SF = flags'.OF <=> a >= b
    <2>1. over \in BOOLEAN /\ neg \in BOOLEAN
      OBVIOUS
    <2>2. Bit(neg) = Bit(over) <=> (neg <=> over)
      <3> HIDE DEF neg, over
      <3> QED
        BY <2>1 DEF Bit
    <2> HIDE DEF a, b, r, neg, over
    <2>3. Bit(x < y) \in {0, 1} /\ (Bit(x < y) = 1 <=> x < y)
          /\ Bit(r = 0) \in {0, 1} /\ (Bit(r = 0) = 1 <=> r = 0)
      BY DEF Bit
    <2> QED
      BY <1>4, <1>5, <2>2, <2>3
  <1> SUFFICES ASSUME NEW cc \in Unsigned \cup {"g", "ge", "l", "le"}
               PROVE  Condition(cc)' <=> Meaning(cc, x, y, n)
    OBVIOUS
  <1>7. /\ x \in Int /\ y \in Int
        /\ a >= b <=> ~(a < b)
        /\ a > b <=> (a >= b /\ a # b)
        /\ a =< b <=> (a < b \/ a = b)
    <2> HIDE DEF a, b
    <2> QED
      BY <1>1, <1>5
  <1>8. CASE cc \in {"e", "ne"}
    <2>1. CASE cc = "e"
      <3>1. (Condition(cc)' <=> flags'.ZF = 1) /\ (Meaning(cc, x, y, n) <=> x = y)
        BY <2>1 DEF Condition, Meaning
      <3> QED
        BY <1>6, <3>1
    <2>2. CASE cc = "ne"
      <3>1. (Condition(cc)' <=> flags'.ZF = 0) /\ (Meaning(cc, x, y, n) <=> x # y)
        BY <2>2 DEF Condition, Meaning
      <3> QED
        BY <1>6, <3>1
    <2> QED
      BY <1>8, <2>1, <2>2
  <1>9. CASE cc \in {"a", "ae", "b", "c", "be", "na"}
    <2>1. CASE cc = "a"
      BY <1>6, <1>7, <2>1 DEF Condition, Meaning
    <2>2. CASE cc = "ae"
      BY <1>6, <1>7, <2>2 DEF Condition, Meaning
    <2>3. CASE cc \in {"b", "c"}
      BY <1>6, <1>7, <2>3 DEF Condition, Meaning
    <2>4. CASE cc \in {"be", "na"}
      <3>1. (Condition(cc)' <=> flags'.CF = 1 \/ flags'.ZF = 1) /\ (Meaning(cc, x, y, n) <=> x =< y)
        BY <2>4 DEF Condition, Meaning
      <3>2. x =< y <=> (x < y \/ x = y)
        BY <1>7
      <3> QED
        BY <1>6, <3>1, <3>2
    <2> QED
      BY <1>9, <2>1, <2>2, <2>3, <2>4
  <1>10. CASE cc = "g"
    <2>1. Condition(cc)' <=> flags'.ZF = 0 /\ flags'.SF = flags'.OF
      BY <1>10 DEF Condition
    <2>2. Meaning(cc, x, y, n) <=> a > b
      BY <1>10 DEF Meaning
    <2> HIDE DEF a, b
    <2> QED
      BY <1>5, <1>6, <1>7, <2>1, <2>2
  <1>11. CASE cc = "ge"
    <2>1. Condition(cc)' <=> flags'.SF = flags'.OF
      BY <1>11 DEF Condition
    <2>2. Meaning(cc, x, y, n) <=> a >= b
      BY <1>11 DEF Meaning
    <2> QED
      BY <1>6, <2>1, <2>2
  <1>12. CASE cc = "l"
    <2>1. Condition(cc)' <=> flags'.SF # flags'.OF
      BY <1>12 DEF Condition
    <2>2. Meaning(cc, x, y, n) <=> a < b
      BY <1>12 DEF Meaning
    <2> HIDE DEF a, b
    <2> QED
      BY <1>6, <1>7, <2>1, <2>2
  <1>13. CASE cc = "le"
    <2>1. Condition(cc)' <=> flags'.ZF = 1 \/ flags'.SF # flags'.OF
      BY <1>13 DEF Condition
    <2>2. Meaning(cc, x, y, n) <=> a =< b
      BY <1>13 DEF Meaning
    <2> HIDE DEF a, b
    <2> QED
      BY <1>5, <1>6, <1>7, <2>1, <2>2
  <1> QED
    BY <1>8, <1>9, <1>10, <1>11, <1>12, <1>13 DEF Unsigned

\* The conditions of unsigned numbers do not look at the width.
LEMMA UnsignedMeaning ==
  ASSUME NEW cc \in Unsigned, NEW x, NEW y, NEW m, NEW n
  PROVE  Meaning(cc, x, y, m) <=> Meaning(cc, x, y, n)
  <1>1. CASE cc = "e"
    BY <1>1 DEF Meaning
  <1>2. CASE cc = "ne"
    BY <1>2 DEF Meaning
  <1>3. CASE cc = "a"
    BY <1>3 DEF Meaning
  <1>4. CASE cc = "ae"
    BY <1>4 DEF Meaning
  <1>5. CASE cc \in {"b", "c"}
    BY <1>5 DEF Meaning
  <1>6. CASE cc \in {"be", "na"}
    BY <1>6 DEF Meaning
  <1> QED
    BY <1>1, <1>2, <1>3, <1>4, <1>5, <1>6 DEF Unsigned

\* An extended source is the signed number it stands for.
LEMMA Extends ==
  ASSUME NEW n \in 1 .. LONG, NEW k \in 1 .. n, NEW s \in 0 .. 2^k - 1
  PROVE  /\ Mask(SignExt(s, k), n) = Signed(s, k) % 2^n
         /\ k = n => Mask(s, n) = Signed(s, k) % 2^n /\ Signed(s, k) % 2^n = s
         /\ Signed(s, k) % 2^n \in 0 .. 2^n - 1
  <1> DEFINE w == 2^n
             p == 2^k
             h == 2^(k - 1)
             l == 2^LONG
             q == 2^(LONG - n)
  <1>0. k \in 1 .. LONG
    BY LongIs
  <1>1. /\ w \in Nat \ {0} /\ p \in Nat \ {0} /\ h \in Nat \ {0} /\ l \in Nat \ {0} /\ q \in Nat \ {0}
        /\ l = w * q /\ s \in 0 .. p - 1
    BY <1>0, Widths
  <1>2. Mask(s, k) = s
    <2> HIDE DEF p
    <2> QED
      BY <1>1, ModSmall DEF Mask, p
  <1>3. SignExt(s, k) = IF s >= h THEN s + l - p ELSE s
    BY <1>2 DEF SignExt
  <1>4. Signed(s, k) = IF s >= h THEN s - p ELSE s
    BY DEF Signed
  <1> DEFINE a == SignExt(s, k)
             b == Signed(s, k)
             j == IF s >= h THEN q ELSE 0
  <1>5. a = b + w * j /\ b \in Int /\ j \in Int
    <2>1. a = (IF s >= h THEN s + l - p ELSE s) /\ b = (IF s >= h THEN s - p ELSE s)
      BY <1>3, <1>4
    <2> HIDE DEF w, p, h, l, q, a, b
    <2>2. CASE s >= h
      BY <2>1, <2>2, <1>1
    <2>3. CASE ~(s >= h)
      BY <2>1, <2>3, <1>1
    <2> QED
      BY <2>2, <2>3
  <1> HIDE DEF a, b, j
  <1>6. a % w = b % w /\ b % w \in 0 .. w - 1
    <2> HIDE DEF w
    <2>1. (b + w * j) % w = b % w
      BY <1>1, <1>5, ModShift
    <2>2. b % w \in 0 .. w - 1
      BY <1>1, <1>5, DivMod
    <2> QED
      BY <1>5, <2>1, <2>2
  <1>7. k = n => s % w = b % w /\ b % w = s
    <2> SUFFICES ASSUME k = n PROVE s % w = b % w /\ b % w = s
      OBVIOUS
    <2>1. Mask(SignExt(s, k), k) = Mask(s, k)
      BY <1>0, SignExtIs, <1>1
    <2> QED
      BY <1>2, <1>6, <2>1 DEF Mask, a, w
  <1> QED
    BY <1>6, <1>7 DEF Mask, a, b, w

\* cmp: the flags are those of the difference.
LEMMA CmpConditions ==
  ASSUME TypeOK, Cmp,
         NEW cc \in Unsigned \cup {"g", "ge", "l", "le"}, cc \in Unsigned \/ I.dst.n # BYTE
  PROVE  Condition(cc)' <=> Meaning(cc, Compared[1], Compared[2], I.dst.n)
  <1> DEFINE n == I.dst.n
             k == I.src.n
             N == DataSize(I)
             src == Extended(k = BYTE /\ Narrow)
             x == Mask(Dest, N)
             y == Mask(src, N)
             z == Signed(Source, k) % 2^n
  <1>1. /\ eip \in DOMAIN program /\ I.op = "cmp" /\ I.op \in WithDest /\ I.op \in WithSource
        /\ Flags(alu_sub(src, Dest, N, flags))
    BY DEF Cmp, At, WithDest, WithSource, WithBoth
  <1>2. /\ n \in Sizes /\ n \in 1 .. LONG /\ Dest \in Nat /\ Dest \in 0 .. 2^n - 1 /\ N \in BYTE .. LONG /\ N \in 1 .. LONG
        /\ (n # BYTE => N = n) /\ (n = BYTE => N = LONG)
    BY <1>1, DestIs
  <1>3. k \in 1 .. LONG /\ k \in Sizes /\ Source \in Nat /\ Source \in 0 .. 2^k - 1 /\ src \in Int
    BY <1>1, SourceIs DEF IsOperand
  <1>4. k \in {BYTE, n} /\ BYTE =< n
    BY <1>1, <1>2, DecodedNow, SizesAre DEF Decoded
  <1>5. flags \in FlagRecords
    BY PartsNow
  <1>6. alu_sub(src, Dest, N, flags) \in Results
    BY <1>2, <1>3, <1>5, DifferenceIs
  <1>7. flags' = alu_sub(src, Dest, N, flags).flags
    BY <1>1, <1>6, FlagsIs
  <1>8. flags' = FlagsOf((x - y) % 2^N, N, Bit(x < y), Bit(~Fits(Signed(x, N) - Signed(y, N), N)))
    <2> HIDE DEF src, N
    <2> QED
      BY <1>2, <1>3, <1>5, <1>7, Subtracts
  <1>9. x \in 0 .. 2^N - 1 /\ y \in 0 .. 2^N - 1
    BY <1>2, <1>3, MaskIs
  <1>10. Condition(cc)' <=> Meaning(cc, x, y, N)
    <2> HIDE DEF x, y, N
    <2> QED
      BY <1>2, <1>8, <1>9, AfterDifference
  <1>11. x = Dest
    <2>1. 2^n =< 2^N /\ 2^N \in Nat \ {0}
      <3>1. 2^n =< 2^LONG
        BY <1>2, Widths
      <3>2. 2^N \in Nat \ {0}
        BY <1>2, Widths
      <3>3. 2^n = 2^N \/ 2^N = 2^LONG
        BY <1>2
      <3>4. 2^n \in Int /\ 2^LONG \in Int
        BY <1>2, Widths
      <3> DEFINE a == 2^n
                 b == 2^N
                 c == 2^LONG
      <3>5. a =< c /\ (a = b \/ b = c) /\ a \in Int /\ c \in Int
        BY <3>1, <3>3, <3>4
      <3> HIDE DEF a, b, c
      <3>6. a =< b
        BY <3>5
      <3> QED
        BY <3>2, <3>6 DEF a, b
    <2> DEFINE w == 2^N
               p == 2^n
    <2>2. p =< w /\ w \in Nat \ {0} /\ Dest \in 0 .. p - 1 /\ p \in Int
      BY <1>2, <2>1, Widths
    <2> HIDE DEF w, p
    <2>3. Dest \in 0 .. w - 1
      BY <2>2
    <2>4. Dest % w = Dest
      BY <2>2, <2>3, ModSmall
    <2> QED
      BY <2>4 DEF Mask, w
  <1>12. y = z
    <2>1. k \in 1 .. n
      BY <1>2, <1>3, <1>4
    <2>2. /\ Mask(SignExt(Source, k), n) = z
          /\ k = n => Mask(Source, n) = z /\ z = Source
      BY <1>2, <1>3, <2>1, Extends
    <2>3. CASE n = BYTE
      <3>1. k = n /\ ~Narrow /\ N = LONG
        BY <1>2, <1>4, <2>3 DEF Narrow
      <3>2. src = Source
        BY <3>1 DEF Extended
      <3>3. Source \in 0 .. 2^LONG - 1
        BY <1>1, SourceIs DEF Longs
      <3>4. Mask(Source, LONG) = Source
        <4> DEFINE l == 2^LONG
        <4>1. l \in Nat \ {0} /\ Source \in 0 .. l - 1
          BY <3>3, LongIs, Subsets
        <4> HIDE DEF l
        <4>2. Source % l = Source
          BY <4>1, ModSmall
        <4> QED
          BY <4>2 DEF Mask, l
      <3> QED
        BY <2>2, <3>1, <3>2, <3>4
    <2>4. CASE n # BYTE /\ k = n
      <3>1. N = n /\ src = Source
        BY <1>2, <2>4 DEF Extended
      <3> QED
        BY <2>2, <2>4, <3>1
    <2>5. CASE n # BYTE /\ k = BYTE
      <3>1. k < n
        BY <1>2, <1>4, <2>5, ByteAssumption
      <3>2. N = n /\ src = SignExt(Source, k)
        BY <1>2, <2>5, <3>1 DEF Extended, Narrow
      <3> QED
        BY <2>2, <3>2
    <2> QED
      BY <1>4, <2>3, <2>4, <2>5
  <1>13. Meaning(cc, x, y, N) <=> Meaning(cc, x, y, n)
    <2> HIDE DEF x, y
    <2>1. CASE cc \in Unsigned
      <3> HIDE DEF n, N
      <3> QED
        BY <2>1, UnsignedMeaning
    <2>2. CASE n # BYTE
      BY <1>2, <2>2
    <2> QED
      BY <2>1, <2>2
  <1>14. Compared = <<Dest, z>>
    BY <1>1 DEF Compared
  <1>15. Compared[1] = Dest /\ Compared[2] = z
    BY <1>14
  <1> QED
    BY <1>10, <1>11, <1>12, <1>13, <1>15

\* test: what both have in common, against zero
LEMMA TestConditions ==
  ASSUME TypeOK, Test,
         NEW cc \in Unsigned \cup {"g", "ge", "l", "le"}, cc \in Unsigned \/ I.dst.n # BYTE
  PROVE  Condition(cc)' <=> Meaning(cc, Compared[1], Compared[2], I.dst.n)
  <1> DEFINE n == I.dst.n
             N == DataSize(I)
             bits == Bits(Dest, N) \cap Bits(Source, N)
             x == Number(bits, N)
             w == 2^N
             h == 2^(N - 1)
  <1>1. /\ eip \in DOMAIN program /\ I.op = "test" /\ I.op \in WithDest
        /\ Flags(alu_and(Source, Dest, N, flags))
    BY DEF Test, At, WithDest, WithBoth
  <1>2. N \in BYTE .. LONG /\ N \in 1 .. LONG /\ (n # BYTE => N = n)
    BY <1>1, DestIs
  <1>3. flags \in FlagRecords
    BY PartsNow
  <1>4. alu_and(Source, Dest, N, flags) = Logic(bits, N, flags)
    BY DEF alu_and
  <1> HIDE DEF bits, N
  <1>5. /\ Logic(bits, N, flags) = [res |-> x, flags |-> FlagsOf(x, N, 0, 0)]
        /\ Logic(bits, N, flags) \in Results /\ x \in 0 .. 2^N - 1
    BY <1>2, <1>3, LogicIs
  <1>6. flags' = FlagsOf(x, N, 0, 0)
    <2>1. flags' = Logic(bits, N, flags).flags
      BY <1>1, <1>4, <1>5, FlagsIs DEF N
    <2> QED
      BY <1>5, <2>1
  <1>7. w = 2 * h /\ h \in Nat \ {0} /\ w \in Nat \ {0} /\ x \in 0 .. w - 1 /\ x \in Nat
    BY <1>2, <1>5, Widths
  <1>8. (x - 0) % 2^N = x /\ Bit(x < 0) = 0 /\ Bit(~Fits(Signed(x, N) - Signed(0, N), N)) = 0
    <2> HIDE DEF x
    <2>1. Signed(x, N) = (IF x >= h THEN x - w ELSE x) /\ Signed(0, N) = (IF 0 >= h THEN 0 - w ELSE 0)
      BY DEF Signed
    <2>2. Fits(Signed(x, N) - Signed(0, N), N) <=> Signed(x, N) - Signed(0, N) \in -h .. h - 1
      BY DEF Fits
    <2> HIDE DEF w, h
    <2>3. Fits(Signed(x, N) - Signed(0, N), N)
      BY <1>7, <2>1, <2>2
    <2>4. x % w = x /\ x - 0 = x /\ ~(x < 0)
      BY <1>7, ModSmall
    <2> QED
      BY <2>3, <2>4 DEF Bit, w
  <1>9. 0 \in 0 .. 2^N - 1
    BY <1>7
  <1>10. Condition(cc)' <=> Meaning(cc, x, 0, N)
    <2> HIDE DEF x
    <2> QED
      BY <1>2, <1>5, <1>6, <1>8, <1>9, AfterDifference
  <1>11. Meaning(cc, x, 0, N) <=> Meaning(cc, x, 0, n)
    <2> HIDE DEF x
    <2>1. CASE cc \in Unsigned
      <3> HIDE DEF n
      <3> QED
        BY <2>1, UnsignedMeaning
    <2>2. CASE n # BYTE
      BY <1>2, <2>2
    <2> QED
      BY <2>1, <2>2
  <1>12. Compared = <<x, 0>>
    BY <1>1 DEF Compared, bits, N
  <1>13. Compared[1] = x /\ Compared[2] = 0
    BY <1>12
  <1> QED
    BY <1>10, <1>11, <1>13

\* A step does what its operation says.
LEMMA Operations ==
  ASSUME Next
  PROVE  /\ At({"cmp", "test"}) => Cmp \/ Test
         /\ At({"setcc"}) => Setcc
         /\ At({"cmov"}) => Cmov
         /\ At({"jcc"}) => Jcc
  <1> DEFINE Ops == {"cmp", "test", "setcc", "cmov", "jcc"}
  <1>1. \A ops : At(ops) => I.op \in ops
    BY DEF At
  <1>2. (Cmp => I.op = "cmp") /\ (Test => I.op = "test") /\ (Setcc => I.op = "setcc")
        /\ (Cmov => I.op = "cmov") /\ (Jcc => I.op = "jcc")
    BY <1>1 DEF Cmp, Test, Setcc, Cmov, Jcc
  <1>3. Add \/ Adc \/ Sub \/ Sbb \/ And \/ Or \/ Xor \/ Inc \/ Dec \/ Not \/ Shl \/ Shr \/ Sar => I.op \notin Ops
    BY <1>1 DEF Add, Adc, Sub, Sbb, And, Or, Xor, Inc, Dec, Not, Shl, Shr, Sar
  <1>4. Mov \/ Movs \/ Lea \/ Mul \/ Imul \/ Imul2 \/ Idiv \/ Cbw \/ Cltd \/ Bt \/ Clc => I.op \notin Ops
    BY <1>1 DEF Mov, Movs, Lea, Mul, Imul, Imul2, Idiv, Cbw, Cltd, Bt, Clc
  <1>5. Push \/ Pop \/ Pusha \/ Popa \/ Call \/ CallIndirect \/ Jmp \/ JmpIndirect \/ Ret \/ Leave \/ String
        => I.op \notin Ops
    <2>1. Push \/ Pop \/ Pusha \/ Popa \/ Leave \/ String => I.op \notin Ops
      BY <1>1 DEF Push, Pop, Pusha, Popa, Leave, String
    <2>2. Call \/ CallIndirect \/ Jmp \/ JmpIndirect \/ Ret => I.op \notin Ops
      BY <1>1 DEF Call, CallIndirect, Jmp, JmpIndirect, Ret
    <2> QED
      BY <2>1, <2>2
  <1>6. X87 => I.op \notin Ops
    BY <1>1 DEF X87, Load, Fadds, Fsubs, Fmuls, Fdivs, FaddIdx, Faddlx, Fmullx, Faddx,
                Fsts, Fstps, Fstx, Fstpx, Fxch, Fucomi
  <1>7. I.op \in Ops => Cmp \/ Test \/ Setcc \/ Cmov \/ Jcc
    BY <1>3, <1>4, <1>5, <1>6, Zenon DEF Next
  <1> QED
    BY <1>1, <1>2, <1>7

\* setcc leaves the condition as a byte.
LEMMA SetccMeans ==
  ASSUME TypeOK, Setcc
  PROVE  operand_read(machine', I.dst) = Bit(Condition(I.cc))
  <1> DEFINE v == Bit(Condition(I.cc))
             m == operand_write(machine, I.dst, v)
  <1>1. eip \in DOMAIN program /\ I.op = "setcc" /\ I.op \in WithDest /\ Continues(m)
    BY DEF Setcc, At, WithDest
  <1>2. IsOperand(I.dst) /\ I.dst.type # "imm" /\ I.dst.n = BYTE /\ machine \in Machines
    BY <1>1, DestIs, DecodedNow DEF Decoded, TypeOK
  <1>3. v \in {0, 1}
    BY DEF Bit
  <1> HIDE DEF v
  <1>4. v \in 0 .. 2^I.dst.n - 1 /\ v \in Int
    <2>1. 2^BYTE \in Nat \ {0} /\ 2^(BYTE - 1) \in Nat \ {0} /\ 2^BYTE = 2 * 2^(BYTE - 1)
      BY LongIs, Widths
    <2> DEFINE w == 2^BYTE
               h == 2^(BYTE - 1)
    <2>2. w = 2 * h /\ h \in Nat \ {0} /\ w \in Nat
      BY <2>1
    <2> HIDE DEF w, h
    <2>3. v \in 0 .. w - 1
      BY <1>3, <2>2
    <2> QED
      BY <1>2, <1>3, <2>3 DEF w
  <1>5. operand_read(m, I.dst) = v
    BY <1>2, <1>4, ReadsWritten
  <1>6. m \in Machines
    BY <1>1, <1>4, Written
  <1>7. machine' = m
    <2> HIDE DEF m
    <2> QED
      BY <1>1, <1>6, BecomesIs
  <1> QED
    BY <1>5, <1>7 DEF v

\* cmov moves on the condition only.
LEMMA CmovMeans ==
  ASSUME TypeOK, Cmov
  PROVE  operand_read(machine', I.dst) = IF Condition(I.cc) THEN Source ELSE Dest
  <1> DEFINE w == operand_write(machine, I.dst, Source)
             m == IF Condition(I.cc) THEN w ELSE machine
  <1>1. eip \in DOMAIN program /\ I.op = "cmov" /\ I.op \in WithDest /\ I.op \in WithSource /\ Continues(m)
    BY DEF Cmov, At, WithDest, WithSource, WithBoth
  <1>2. IsOperand(I.dst) /\ I.dst.type # "imm" /\ I.src.n = I.dst.n /\ machine \in Machines
    BY <1>1, DestIs, DecodedNow DEF Decoded, TypeOK
  <1>3. Source \in 0 .. 2^I.dst.n - 1 /\ Source \in Int
    BY <1>1, <1>2, SourceIs
  <1>4. operand_read(w, I.dst) = Source
    BY <1>2, <1>3, ReadsWritten
  <1>5. w \in Machines
    BY <1>1, <1>3, Written
  <1> HIDE DEF w
  <1>6. m \in Machines
    BY <1>2, <1>5
  <1>7. machine' = m
    <2> HIDE DEF m
    <2> QED
      BY <1>1, <1>6, BecomesIs
  <1>8. operand_read(m, I.dst) = IF Condition(I.cc) THEN Source ELSE Dest
    <2>1. CASE Condition(I.cc)
      BY <1>4, <2>1
    <2>2. CASE ~Condition(I.cc)
      BY <2>2 DEF Dest
    <2> QED
      BY <2>1, <2>2
  <1> QED
    BY <1>7, <1>8

\* A jump goes by its offset, or to the next instruction.
LEMMA JccMeans ==
  ASSUME TypeOK, Jcc
  PROVE  eip' = eip + 1 + IF Condition(I.cc) THEN I.rel ELSE 0
  <1>1. eip \in DOMAIN program /\ I.op = "jcc"
    BY DEF Jcc, At
  <1>2. I.rel \in Int
    BY <1>1, DecodedNow DEF Decoded
  <1>3. eip \in Nat
    <2>1. PICK load \in Loads : program = load.program
      BY DEF TypeOK, Programs
    <2> QED
      BY <1>1, <2>1, LoadsAssumption
  <1> DEFINE r == I.rel
  <1>4. eip' = IF Condition(I.cc) THEN eip + r + 1 ELSE eip + 1
    BY DEF Jcc
  <1> HIDE DEF r
  <1>5. CASE Condition(I.cc)
    <2>1. eip' = eip + r + 1 /\ r \in Int
      BY <1>2, <1>4, <1>5 DEF r
    <2>2. eip' = eip + 1 + r
      BY <1>3, <2>1
    <2> QED
      BY <1>5, <2>2 DEF r
  <1>6. CASE ~Condition(I.cc)
    <2>1. eip' = eip + 1 + 0
      BY <1>3, <1>4, <1>6
    <2> QED
      BY <1>6, <2>1
  <1> QED
    BY <1>5, <1>6

\* Every comparison sets the flags so that the conditions mean what they say of the
\* numbers compared, and setcc, cmov and jcc do as the condition says (instr_helper.h).
THEOREM Conditions == Spec => ConditionsMean
  <1> DEFINE Compares ==
               At({"cmp", "test"}) =>
                 \A cc \in Unsigned \cup {"g", "ge", "l", "le"} :
                   cc \in Unsigned \/ I.dst.n # BYTE =>
                     (Condition(cc)' <=> Meaning(cc, Compared[1], Compared[2], I.dst.n))
             Sets == At({"setcc"}) => operand_read(machine', I.dst) = Bit(Condition(I.cc))
             Moved == At({"cmov"}) => operand_read(machine', I.dst) = IF Condition(I.cc) THEN Source ELSE Dest
             Jumps == At({"jcc"}) => eip' = eip + 1 + IF Condition(I.cc) THEN I.rel ELSE 0
             Means == Compares /\ Sets /\ Moved /\ Jumps
  <1>1. ASSUME TypeOK, Next PROVE Means
    <2>1. Compares
      BY <1>1, Operations, CmpConditions, TestConditions
    <2>2. Sets
      BY <1>1, Operations, SetccMeans
    <2>3. Moved
      BY <1>1, Operations, CmovMeans
    <2>4. Jumps
      BY <1>1, Operations, JccMeans
    <2> QED
      BY <2>1, <2>2, <2>3, <2>4
  <1>2. TypeOK /\ [Next]_vars => [Means]_vars
    <2> HIDE DEF Means
    <2> QED
      BY <1>1
  <1> QED
    BY <1>2, Typed, PTL DEF Spec, ConditionsMean
===============================================================================
