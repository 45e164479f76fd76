---------------------------------- MODULE Cpu ----------------------------------
(***************************************************************************)
(* The instructions of NEMU's processor (nemu/src/cpu): operands are found *)
(* and extended (decode/), the arithmetic unit (Alu) computes, results are *)
(* written back, the stack moves, and eip goes on.                         *)
(*                                                                         *)
(* A program is a sequence of decoded instructions; eip is an index in it, *)
(* so the length of an instruction counts as one.  An instruction is a     *)
(* record: op, its operands dst and src, and what the operation needs.     *)
(* Instructions are modelled in the forms opcode.c has an entry for.       *)
(* DF is always clear: no entry sets it.  Of the x87 the forms with single *)
(* precision numbers are here: a float has as many bits as a long.         *)
(***************************************************************************)
EXTENDS Alu, Fpu, Sequences

CONSTANTS
  Loads,       \* programs, and the registers they may start with
  Data,        \* addresses of the program's data: 0 .. Data - 1
  Top          \* the stack starts below Top

EAX == 0   ECX == 1   EDX == 2   EBX == 3
ESP == 4   EBP == 5   ESI == 6   EDI == 7

ASSUME FloatIsLong == 1 + EXPONENT + FRACTION = LONG

Sizes == {BYTE, WORD, LONG}

VARIABLES program, eip, reg, mem, flags, fpu

vars == <<program, eip, reg, mem, flags, fpu>>
machine == [reg |-> reg, mem |-> mem, flags |-> flags, fpu |-> fpu]

NoFlags == [CF |-> 0, PF |-> 0, ZF |-> 0, SF |-> 0, OF |-> 0]

Init ==
  /\ \E load \in Loads : program = load.program /\ reg \in load.regs
  /\ eip = 1
  /\ mem = [a \in Longs |-> a % 2^BYTE]
  /\ flags = NoFlags
  /\ fpu = [stack |-> [k \in 0 .. 7 |-> 0], top |-> 0]

-------------------------------------------------------------------------------
(* Memory and operands.  m is a machine: registers, memory, flags and fpu.   *)

\* vaddr_read, vaddr_write: n bits at address a, the low byte first
LoadBytes(m, a, n) ==
  LET B(k) == IF k < n \div BYTE THEN m.mem[(a + k) % 2^LONG] * 2^(BYTE * k) ELSE 0
  IN  B(0) + B(1) + B(2) + B(3)
StoreBytes(m, a, n, v) ==
  [m EXCEPT !.mem = [x \in Longs |->
     LET k == (x - a) % 2^LONG
     IN  IF k < n \div BYTE THEN (v \div 2^(BYTE * k)) % 2^BYTE ELSE @[x]]]

\* Operands: a register, an immediate value, or memory at
\* base + index * scale + disp; n is the size of the data.
Reg(k, n) == [type |-> "reg", addr |-> k, n |-> n]
Imm(v, n) == [type |-> "imm", val |-> v, n |-> n]
None == 8
MemOperand(base, index, scale, disp, n) ==
  [type |-> "mem", base |-> base, index |-> index, scale |-> scale, disp |-> disp, n |-> n]

Address(m, o) ==
  LET R(k) == IF k = None THEN 0 ELSE m.reg[k]
  IN  (R(o.base) + R(o.index) * o.scale + o.disp) % 2^LONG

\* A register of one byte is a byte of one of the first four.
operand_read(m, o) ==
  CASE o.type = "imm" -> o.val
    [] o.type = "mem" -> LoadBytes(m, Address(m, o), o.n)
    [] o.type = "reg" /\ o.n = BYTE ->
         Mask(m.reg[o.addr % 4] \div 2^(BYTE * (o.addr \div 4)), BYTE)
    [] OTHER -> Mask(m.reg[o.addr], o.n)

operand_write(m, o, v) ==
  CASE o.type = "mem" -> StoreBytes(m, Address(m, o), o.n, v)
    [] o.type = "reg" /\ o.n = BYTE ->
         [m EXCEPT !.reg[o.addr % 4] = Put(@, BYTE * (o.addr \div 4), BYTE, v)]
    [] OTHER -> [m EXCEPT !.reg[o.addr] = Put(@, 0, o.n, v)]

\* The global data_size, which forms with operands of a byte do not set.
DataSize(i) == IF i.dst.n = BYTE THEN LONG ELSE i.dst.n

-------------------------------------------------------------------------------
(* Decoding: opcode.c.  Other forms are inv, which ends the run. *)

\* Operands and widths: b byte, v word or long, bv a byte to a word or long.
TwoOperandForms ==
  [add |-> {"r2rm_b", "r2rm_v", "i2rm_v", "i2rm_bv"},
   or  |-> {"r2rm_v", "rm2r_b", "i2rm_bv"},
   adc |-> {"r2rm_v", "i2rm_bv"},
   sbb |-> {"rm2r_v", "i2rm_bv"},
   and |-> {"r2rm_v", "rm2r_b", "i2rm_b", "i2rm_v", "i2rm_bv"},
   sub |-> {"r2rm_v", "rm2r_v", "i2rm_v", "i2rm_bv"},
   xor |-> {"r2rm_v", "i2rm_bv"},
   cmp |-> {"r2rm_b", "r2rm_v", "rm2r_b", "rm2r_v", "i2rm_b", "i2rm_v", "i2rm_bv"},
   test |-> {"r2rm_b", "r2rm_v", "i2rm_b", "i2rm_v"},
   bt |-> {"r2rm_v"}]

\* shr by CL has its entry at 6, where no assembler puts it.
ShiftForms ==
  [shl |-> {"i2rm_b", "i2rm_bv", "c2rm_b", "c2rm_bv"},
   shr |-> {"i2rm_b", "i2rm_bv"},
   sar |-> {"i2rm_b", "i2rm_bv", "c2rm_b", "c2rm_bv"}]

ConditionalForms ==
  [jcc |-> {"b", "ae", "e", "ne", "na", "a", "s", "ns", "l", "ge", "le", "g"},
   setcc |-> {"o", "no", "c", "ae", "e", "ne", "be", "a", "s", "ns", "p", "np",
              "l", "ge", "le", "g"},
   cmov |-> {"e", "ne", "a", "s", "ns", "ge"}]

\* The operands of an instruction in the words of the tables: a register may
\* stand for rm, and CL is a register.
FormsOf(i) ==
  LET width == IF i.src.n < i.dst.n THEN {"_bv"} ELSE IF i.dst.n = BYTE THEN {"_b"} ELSE {"_v"}
      kinds == (IF i.src.type = "imm" THEN {"i2rm"} ELSE {})
               \cup (IF i.src.type = "reg" THEN {"r2rm"} ELSE {})
               \cup (IF i.src = Reg(ECX, BYTE) THEN {"c2rm"} ELSE {})
               \cup (IF i.src.type # "imm" /\ i.dst.type = "reg" THEN {"rm2r"} ELSE {})
  IN  {k \o w : k \in kinds, w \in width}

HasEntry(i) ==
  /\ i.op \in DOMAIN TwoOperandForms => FormsOf(i) \cap TwoOperandForms[i.op] # {}
  /\ i.op \in DOMAIN ShiftForms => FormsOf(i) \cap ShiftForms[i.op] # {}
  /\ i.op \in DOMAIN ConditionalForms => i.cc \in ConditionalForms[i.op]

\* What decoding leaves in the operands of an instruction
IsOperand(o) ==
  /\ o.n \in Sizes
  /\ \/ o.type = "reg" /\ o.addr \in 0 .. 7
     \/ o.type = "imm" /\ o.val \in 0 .. 2^o.n - 1
     \/ /\ o.type = "mem"
        /\ o.base \in 0 .. None /\ o.index \in 0 .. None /\ o.scale \in Nat /\ o.disp \in Int

WithBoth ==
  {"add", "or", "adc", "sbb", "and", "sub", "xor", "cmp", "test", "bt", "shl", "shr", "sar",
   "mov", "movsx", "lea", "cmov", "imul2"}
WithSource == WithBoth \cup {"push", "flds", "fadds", "fsubs", "fmuls", "fdivs"}
WithDest ==
  WithBoth \cup {"inc", "dec", "not", "mul", "imul", "idiv", "cbw", "cltd", "setcc", "pop",
                "call_indirect", "jmp_indirect", "fsts", "fstps"}
WithIdx == {"fadd_idx", "faddlx", "fmullx", "faddx", "fstx", "fstpx", "fxch", "fucomi", "fucomip"}

Decoded(i) ==
  /\ i.op \in WithSource => IsOperand(i.src)
  /\ i.op \in WithDest => IsOperand(i.dst) /\ i.dst.type # "imm"
  /\ i.op \in WithIdx => i.idx \in 0 .. 7
  /\ i.op \in {"push", "movs", "stos"} => i.n \in Sizes
  /\ i.op \in {"jcc", "jmp", "call"} => i.rel \in Int
  /\ i.op = "ret" => i.bytes \in Nat
  /\ i.op = "lea" => i.src.type = "mem"
  /\ i.op = "cmp" => i.src.n \in {BYTE, i.dst.n}
  /\ i.op \in {"test", "cmov"} => i.src.n = i.dst.n
  /\ i.op \in {"mul", "imul", "idiv", "cbw", "cltd", "cmov"} => i.dst.n # BYTE
  /\ i.op = "cmov" => i.dst.type = "reg"
  /\ i.op = "setcc" => i.dst.n = BYTE

ASSUME LoadsAssumption ==
  \A load \in Loads :
    /\ \A k \in DOMAIN load.program : k \in Nat /\ Decoded(load.program[k])
    /\ load.regs \subseteq [0 .. 7 -> Longs]

-------------------------------------------------------------------------------
(* exec: the instruction at eip *)

I == program[eip]

At(ops) == eip \in DOMAIN program /\ I.op \in ops /\ HasEntry(I)

Becomes(m) ==
  /\ reg' = m.reg /\ mem' = m.mem /\ flags' = m.flags /\ fpu' = m.fpu
  /\ UNCHANGED program

Continues(m) == Becomes(m) /\ eip' = eip + 1

Dest == operand_read(machine, I.dst)
Source == operand_read(machine, I.src)

\* instr_execute_2op: most forms extend a narrow source, each on its own terms.
Extended(test) == IF test THEN SignExt(Source, I.src.n) ELSE Source
Narrow == I.src.n < I.dst.n

Yields(c) == Continues([operand_write(machine, I.dst, c.res) EXCEPT !.flags = c.flags])
Flags(c) == Continues([machine EXCEPT !.flags = c.flags])

Add == At({"add"}) /\ Yields(alu_add(Extended(I.src.type = "imm" /\ Narrow), Dest, DataSize(I), flags))
Adc == At({"adc"}) /\ Yields(alu_adc(Source, Dest, DataSize(I), flags))
Sub == At({"sub"}) /\ Yields(alu_sub(Extended(TRUE), SignExt(Dest, I.dst.n), DataSize(I), flags))
Sbb == At({"sbb"}) /\ Yields(alu_sbb(Extended(I.src.n = BYTE), Dest, DataSize(I), flags))
And == At({"and"}) /\ Yields(alu_and(Extended(I.src.n = BYTE /\ Narrow), Dest, DataSize(I), flags))
Or  == At({"or"}) /\ Yields(alu_or(Source, Dest, DataSize(I), flags))
Xor == At({"xor"}) /\ Yields(alu_xor(Source, Dest, DataSize(I), flags))
Cmp == At({"cmp"}) /\ Flags(alu_sub(Extended(I.src.n = BYTE /\ Narrow), Dest, DataSize(I), flags))
Test == At({"test"}) /\ Flags(alu_and(Source, Dest, DataSize(I), flags))

\* inc, dec and not leave the flags alone.
Inc == At({"inc"}) /\ Continues(operand_write(machine, I.dst, Mask(Dest + 1, LONG)))
Dec == At({"dec"}) /\ Continues(operand_write(machine, I.dst, Mask(Dest - 1, LONG)))
Not == At({"not"}) /\ Continues(operand_write(machine, I.dst, 2^LONG - 1 - Dest))

\* A shift by one has 1 as its source.
Shl == At({"shl"}) /\ Yields(alu_shl(Source, Dest, I.dst.n, flags))
Shr == At({"shr"}) /\ Yields(alu_shr(Source, Dest, I.dst.n, flags))
Sar == At({"sar"}) /\ Yields(alu_sar(Source, Dest, I.dst.n, flags))

\* mov, and movz, whose source is narrower
Mov == At({"mov"}) /\ Continues(operand_write(machine, I.dst, Source))
Movs == At({"movsx"}) /\ Continues(operand_write(machine, I.dst, SignExt(Source, I.src.n)))
Lea == At({"lea"}) /\ Continues(operand_write(machine, I.dst, Address(machine, I.src)))

\* The result of n bits to EAX and n bits to EDX
Double(m, n, low, high) ==
  operand_write(operand_write(m, Reg(EAX, n), low), Reg(EDX, n), high)

Accumulator(n) == operand_read(machine, Reg(EAX, n))

\* mul_rm2a_v, imul_rm2a_v: their one operand is dst.
Mul ==
  /\ At({"mul"})
  /\ LET n == I.dst.n
         c == alu_mul(Dest, Accumulator(n), n, flags)
     IN  Continues([Double(machine, n, c.res % 2^n, c.res \div 2^n) EXCEPT !.flags = c.flags])

Imul ==
  /\ At({"imul"})
  /\ LET n == I.dst.n
         res == alu_imul(Signed(Dest, n), Signed(Accumulator(n), n))
     IN  Continues(Double(machine, n, res % 2^n, (res \div 2^n) % 2^n))

\* imul_rm2r_v
Imul2 ==
  /\ At({"imul2"})
  /\ LET n == I.dst.n
     IN  Continues(operand_write(machine, I.dst,
                     alu_imul(Signed(Source, n), Signed(Dest, n)) % 2^n))

\* idiv_rm2a_v; division by zero is an assertion.
Idiv ==
  /\ At({"idiv"}) /\ Dest # 0
  /\ LET n == I.dst.n
         high == operand_read(machine, Reg(EDX, n))
         dividend == Signed(high * 2^n + Accumulator(n), 2 * n)
     IN  Continues(Double(machine, n, alu_idiv(Signed(Dest, n), dividend) % 2^n,
                                      alu_imod(Signed(Dest, n), dividend) % 2^n))

\* cbw extends the lower half of EAX; cltd fills EDX with its sign.  Their
\* operand tells the size only.
Cbw ==
  /\ At({"cbw"})
  /\ LET n == I.dst.n
     IN  Continues(operand_write(machine, Reg(EAX, n), SignExt(Accumulator(n), n \div 2)))
Cltd ==
  /\ At({"cltd"})
  /\ LET n == I.dst.n
     IN  Continues(operand_write(machine, Reg(EDX, n),
                                 IF Sign(Accumulator(n)) = 1 THEN 2^LONG - 1 ELSE 0))

Bt == At({"bt"}) /\ Continues([machine EXCEPT !.flags.CF = HostShr(Dest, Source) % 2])
Clc == At({"clc"}) /\ Continues([machine EXCEPT !.flags.CF = 0])

-------------------------------------------------------------------------------
(* Conditions: instr_helper.h *)

Condition(cc) ==
  CASE cc = "e" -> flags.ZF = 1
    [] cc = "ne" -> flags.ZF = 0
    [] cc = "a" -> flags.CF = 0 /\ flags.ZF = 0
    [] cc = "ae" -> flags.CF = 0
    [] cc \in {"b", "c"} -> flags.CF = 1
    [] cc \in {"be", "na"} -> flags.CF = 1 \/ flags.ZF = 1
    [] cc = "g" -> flags.ZF = 0 /\ flags.SF = flags.OF
    [] cc = "ge" -> flags.SF = flags.OF
    [] cc = "l" -> flags.SF # flags.OF
    [] cc = "le" -> flags.ZF = 1 \/ flags.SF # flags.OF
    [] cc = "o" -> flags.OF = 1
    [] cc = "no" -> flags.OF = 0
    [] cc = "p" -> flags.PF = 1
    [] cc = "np" -> flags.PF = 0
    [] cc = "s" -> flags.SF = 1
    [] cc = "ns" -> flags.SF = 0

Setcc ==
  /\ At({"setcc"})
  /\ Continues(operand_write(machine, I.dst, Bit(Condition(I.cc))))

Cmov ==
  /\ At({"cmov"})
  /\ Continues(IF Condition(I.cc) THEN operand_write(machine, I.dst, Source) ELSE machine)

\* eip is moved by the offset, and then past the instruction.
Jcc ==
  /\ At({"jcc"})
  /\ Becomes(machine)
  /\ eip' = IF Condition(I.cc) THEN eip + I.rel + 1 ELSE eip + 1

-------------------------------------------------------------------------------
(* Stack and calls *)

\* Register k goes on by n bits.
Forward(m, k, n) == [m EXCEPT !.reg[k] = (@ + n \div BYTE) % 2^LONG]

PushValue(m, v, n) ==
  LET esp == (m.reg[ESP] - n \div BYTE) % 2^LONG
  IN  StoreBytes([m EXCEPT !.reg[ESP] = esp], esp, n, v)

TopValue(m, n) == LoadBytes(m, m.reg[ESP], n)
Drop(m, n) == Forward(m, ESP, n)

\* push_r_v, push_rm_v, push_i_v, push_i_b: n is data_size, and the operand is
\* pushed as it was read.
Push ==
  /\ At({"push"})
  /\ Continues(PushValue(machine, Source, I.n))

Pop ==
  /\ At({"pop"})
  /\ Continues(operand_write(Drop(machine, I.dst.n), I.dst, TopValue(machine, I.dst.n)))

Pusha ==
  /\ At({"pusha"})
  /\ LET P(m, k) == PushValue(m, reg[k], LONG)
     IN  Continues(P(P(P(P(P(P(P(P(machine, EAX), ECX), EDX), EBX), ESP), EBP), ESI), EDI))

Popa ==
  /\ At({"popa"})
  /\ LET P(m, k) == Drop([m EXCEPT !.reg[k] = TopValue(m, LONG)], LONG)
     IN  Continues(P(P(P(P(Drop(P(P(P(machine, EDI), ESI), EBP), LONG), EBX), EDX), ECX), EAX))

Call ==
  /\ At({"call"})
  /\ Becomes(PushValue(machine, eip + 1, LONG)) /\ eip' = eip + I.rel + 1

CallIndirect ==
  /\ At({"call_indirect"})
  /\ Becomes(PushValue(machine, eip + 1, LONG)) /\ eip' = Dest

Jmp == At({"jmp"}) /\ Becomes(machine) /\ eip' = eip + I.rel + 1
JmpIndirect == At({"jmp_indirect"}) /\ Becomes(machine) /\ eip' = Dest

\* ret_near, ret_near_imm16
Ret ==
  /\ At({"ret"})
  /\ Becomes(Drop(Drop(machine, LONG), BYTE * I.bytes)) /\ eip' = TopValue(machine, LONG)

Leave ==
  /\ At({"leave"})
  /\ LET m == [machine EXCEPT !.reg[ESP] = reg[EBP]]
     IN  Continues([Drop(m, LONG) EXCEPT !.reg[EBP] = TopValue(m, LONG)])

-------------------------------------------------------------------------------
(* Strings *)

movs(m, n) ==
  Forward(Forward(StoreBytes(m, m.reg[EDI], n, LoadBytes(m, m.reg[ESI], n)), ESI, n), EDI, n)

stos(m, n) ==
  Forward(StoreBytes(m, m.reg[EDI], n, operand_read(m, Reg(EAX, n))), EDI, n)

OneString(op, m, n) == IF op = "movs" THEN movs(m, n) ELSE stos(m, n)

\* rep_repe: the loop runs to its end; interrupts come between instructions.
Repeated(op, n) ==
  LET after[k \in 0 .. reg[ECX]] ==
        IF k = 0 THEN machine
                 ELSE [OneString(op, after[k - 1], n) EXCEPT !.reg[ECX] = @ - 1]
  IN  after[reg[ECX]]

String ==
  /\ At({"movs", "stos"})
  /\ Continues(IF I.rep THEN Repeated(I.op, I.n) ELSE OneString(I.op, machine, I.n))

-------------------------------------------------------------------------------
(* x87.c: the operand is src in memory, or ST(idx) *)

Fpu(f) == Continues([machine EXCEPT !.fpu = f])

Loaded ==
  CASE I.op = "flds" -> Source [] I.op = "fld1" -> Bias * 2^FRACTION [] I.op = "fldz" -> P_ZERO_F

Load == At({"flds", "fld1", "fldz"}) /\ Fpu(fpu_load(fpu, Loaded))

\* fadds, fsubs, fmuls and fdivs m32fp
Float(res) == Fpu(SetST(fpu, 0, res))
Fadds == At({"fadds"}) /\ Float(internal_float_add(Source, ST(fpu, 0)))
Fsubs == At({"fsubs"}) /\ Float(internal_float_sub(Source, ST(fpu, 0)))
Fmuls == At({"fmuls"}) /\ Float(internal_float_mul(Source, ST(fpu, 0)))
Fdivs == At({"fdivs"}) /\ Float(internal_float_div(Source, ST(fpu, 0)))

\* fadds ST(idx), faddlx, fmullx; faddx also pops.
FaddIdx == At({"fadd_idx"}) /\ Fpu(fpu_add_idx(fpu, I.idx, 0))
Faddlx == At({"faddlx"}) /\ Fpu(fpu_add_idx(fpu, I.idx, I.idx))
Fmullx == At({"fmullx"}) /\ Fpu(fpu_mul_idx(fpu, I.idx, I.idx))
Faddx == At({"faddx"}) /\ Fpu(fpu_pop(fpu_add_idx(fpu, I.idx, I.idx)))

Fsts == At({"fsts"}) /\ Continues(operand_write(machine, I.dst, ST(fpu, 0)))
Fstps ==
  /\ At({"fstps"})
  /\ Continues([operand_write(machine, I.dst, ST(fpu, 0)) EXCEPT !.fpu = fpu_pop(fpu)])
Fstx == At({"fstx"}) /\ Fpu(fpu_copy(fpu, I.idx))
Fstpx == At({"fstpx"}) /\ Fpu(fpu_pop(fpu_copy(fpu, I.idx)))
Fxch == At({"fxch"}) /\ Fpu(fpu_xch(fpu, I.idx))

\* fucomi and fcomi; fucomip and fcomip also pop.
Fucomi ==
  /\ At({"fucomi", "fucomip"})
  /\ LET a == ST(fpu, 0)
         b == ST(fpu, I.idx)
     IN  Continues([machine EXCEPT
           !.flags = [@ EXCEPT !.PF = 0, !.CF = Bit(Less(a, b)), !.ZF = Bit(~Less(a, b) /\ ~Less(b, a))],
           !.fpu = IF I.op = "fucomip" THEN fpu_pop(@) ELSE @])

X87 ==
  \/ Load \/ Fadds \/ Fsubs \/ Fmuls \/ Fdivs \/ FaddIdx \/ Faddlx \/ Fmullx \/ Faddx
  \/ Fsts \/ Fstps \/ Fstx \/ Fstpx \/ Fxch \/ Fucomi

Next ==
  \/ Add \/ Adc \/ Sub \/ Sbb \/ And \/ Or \/ Xor \/ Cmp \/ Test \/ Inc \/ Dec \/ Not
  \/ Shl \/ Shr \/ Sar \/ Mov \/ Movs \/ Lea
  \/ Mul \/ Imul \/ Imul2 \/ Idiv \/ Cbw \/ Cltd \/ Bt \/ Clc
  \/ Setcc \/ Cmov \/ Jcc
  \/ Push \/ Pop \/ Pusha \/ Popa \/ Call \/ CallIndirect \/ Jmp \/ JmpIndirect \/ Ret \/ Leave
  \/ String \/ X87

Spec == Init /\ [][Next]_vars

-------------------------------------------------------------------------------
(* Properties *)

Programs == {load.program : load \in Loads}
Machines ==
  [reg : [0 .. 7 -> Longs], mem : [Longs -> 0 .. 2^BYTE - 1],
   flags : FlagRecords, fpu : [stack : [0 .. 7 -> Longs], top : 0 .. 7]]

\* Registers, memory and floats keep their widths, whatever is computed.
TypeOK == machine \in Machines /\ program \in Programs

\* The processor does what the i386 promises: results and flags are those of
\* integers, what is pushed is popped, calls return, parts of registers and
\* other memory stay as they are.
Promised == INSTANCE Isa WITH
  reg <- [k \in 0 .. 7 \ {ESP} |-> reg[k]],
  data <- [a \in 0 .. Data - 1 |-> mem[a]],
  stack <- [k \in 1 .. Top - reg[ESP] |-> mem[reg[ESP] + k - 1]],
  st <- [k \in 0 .. 7 |-> ST(fpu, k)]

ImplementsIsa == Promised!Spec

\* Products are those of the host's floats, as fpu_test.c:157 asserts for every
\* pair of finite numbers.  It fails when a factor is denormal.
ProductsRound ==
  [][At({"fmuls"}) => ST(fpu', 0) \in Promised!FloatResults("mul", ST(fpu, 0), Source)]_vars

\* What a condition says of the numbers x and y of n bits that were compared
Meaning(cc, x, y, n) ==
  LET sx == Signed(x, n)
      sy == Signed(y, n)
  IN  CASE cc = "e" -> x = y
        [] cc = "ne" -> x # y
        [] cc = "a" -> x > y
        [] cc = "ae" -> x >= y
        [] cc \in {"b", "c"} -> x < y
        [] cc \in {"be", "na"} -> x <= y
        [] cc = "g" -> sx > sy
        [] cc = "ge" -> sx >= sy
        [] cc = "l" -> sx < sy
        [] cc = "le" -> sx <= sy

Unsigned == {"e", "ne", "a", "ae", "b", "c", "be", "na"}

\* The two numbers that cmp and test compare: test compares what both have in
\* common with zero.
Compared ==
  IF I.op = "cmp" THEN <<Dest, Signed(Source, I.src.n) % 2^I.dst.n>>
  ELSE <<Number(Bits(Dest, DataSize(I)) \cap Bits(Source, DataSize(I)), DataSize(I)), 0>>

\* After a comparison the conditions say what their names say of the two
\* numbers: below and above of unsigned, less and greater of signed; except
\* that the signs of two bytes are looked for in a long.  The conditional
\* instructions do as the condition says.
ConditionsMean ==
  [][/\ At({"cmp", "test"}) =>
          \A cc \in Unsigned \cup {"g", "ge", "l", "le"} :
            cc \in Unsigned \/ I.dst.n # BYTE =>
              (Condition(cc)' <=> Meaning(cc, Compared[1], Compared[2], I.dst.n))
     /\ At({"setcc"}) => operand_read(machine', I.dst) = Bit(Condition(I.cc))
     /\ At({"cmov"}) => operand_read(machine', I.dst) = IF Condition(I.cc) THEN Source ELSE Dest
     /\ At({"jcc"}) => eip' = eip + 1 + IF Condition(I.cc) THEN I.rel ELSE 0]_vars
================================================================================
