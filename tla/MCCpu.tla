--------------------------------- MODULE MCCpu ---------------------------------
(* Bytes of two bits: words of four and longs of eight, so the registers hold *)
(* 0 .. 255.  Straight-line programs of one to three instructions run from    *)
(* pairs of boundary values; a longer one uses the stack and strings.            *)
EXTENDS Cpu

a(n) == Reg(EAX, n)
d(n) == Reg(EDX, n)

Wide == {WORD, LONG}
\* or, xor and adc do not extend an immediate byte, and get none that is
\* negative; forms without an entry are left out.
Immediates(op, n) ==
  {Imm(v, n) : v \in {1, 2^(n - 1), 2^n - 1}} \cup
  {Imm(v, BYTE) : v \in IF op \in {"adc", "or", "xor"} THEN {1} ELSE {1, 2, 3}}

TwoOperands(ops) ==
  {i \in UNION {{[op |-> op, dst |-> a(n), src |-> s] : s \in {d(n)} \cup Immediates(op, n)} :
                op \in ops, n \in Wide} : HasEntry(i)}
MemoryForms ==
  {[op |-> op, dst |-> MemOperand(ESI, None, 1, 1, LONG), src |-> a(LONG)] : op \in {"add", "mov"}} \cup
  {[op |-> "sub", dst |-> a(LONG), src |-> MemOperand(ESI, EBX, 4, -2, LONG)]}

Carries == {[op |-> op, dst |-> a(LONG), src |-> d(LONG)] : op \in {"add", "sub"}}

OneOperand ==
  {[op |-> op, dst |-> d(n)] : op \in {"inc", "dec", "not", "mul", "imul", "cbw", "cltd"}, n \in Wide}
    \ {[op |-> "cltd", dst |-> d(WORD)]}
Shifts ==
  {[op |-> op, dst |-> a(n), src |-> s] :
     op \in {"shl", "shr", "sar"}, s \in {Imm(c, BYTE) : c \in 1 .. 3} \cup {Reg(ECX, BYTE)}, n \in Wide}
Others ==
  {[op |-> "imul2", dst |-> a(n), src |-> d(n)] : n \in Wide} \cup
  {[op |-> "bt", dst |-> a(LONG), src |-> d(LONG)],
   [op |-> "clc"],
   [op |-> "mov", dst |-> Reg(EAX + 4, BYTE), src |-> Reg(EDX, BYTE)],
   [op |-> "mov", dst |-> a(LONG), src |-> Reg(EDX + 4, BYTE)],
   [op |-> "movsx", dst |-> a(LONG), src |-> d(WORD)],
   [op |-> "movsx", dst |-> a(WORD), src |-> Reg(EDX, BYTE)],
   [op |-> "lea", dst |-> a(LONG), src |-> MemOperand(EDX, EAX, 4, -3, LONG)]}

Conditional ==
  {[op |-> "jcc", cc |-> cc, rel |-> 1] : cc \in ConditionalForms["jcc"]} \cup
  {[op |-> "setcc", cc |-> cc, dst |-> Reg(EBX + 4, BYTE)] : cc \in ConditionalForms["setcc"]} \cup
  {[op |-> "cmov", cc |-> cc, dst |-> Reg(ECX, LONG), src |-> Imm(77, LONG)] : cc \in ConditionalForms["cmov"]}

ArithmeticPrograms ==
  {<<x>> : x \in OneOperand \cup Shifts \cup Others \cup MemoryForms} \cup
  {<<x, y>> : x \in Carries, y \in TwoOperands({"add", "adc", "sub", "sbb", "and", "or", "xor"})} \cup
  {<<x, y>> : x \in TwoOperands({"cmp", "test"}), y \in Conditional} \cup
  {<<[op |-> "cltd", dst |-> a(LONG)], [op |-> "idiv", dst |-> Reg(k, LONG)]>> : k \in {EBX, EBP}}

Copy(dst, v) == [op |-> "mov", dst |-> Reg(dst, LONG), src |-> Imm(v, LONG)]
PushLong(src) == [op |-> "push", src |-> src, n |-> LONG]

\* A function is called with two arguments, makes a local variable, calls
\* itself once, and takes its arguments off the stack; then registers are
\* saved and restored, and data is copied and filled.
Function == <<
  PushLong(Imm(1, BYTE)), PushLong(a(LONG)),
  [op |-> "call", rel |-> 1],
  [op |-> "jmp", rel |-> 14],
  PushLong(Reg(EBP, LONG)),
  [op |-> "mov", dst |-> Reg(EBP, LONG), src |-> Reg(ESP, LONG)],
  [op |-> "sub", dst |-> Reg(ESP, LONG), src |-> Imm(4, LONG)],
  [op |-> "push", src |-> Reg(EBX, WORD), n |-> WORD],
  [op |-> "add", dst |-> Reg(EBX, LONG), src |-> d(LONG)],
  [op |-> "sub", dst |-> Reg(ECX, LONG), src |-> Imm(1, BYTE)],
  [op |-> "jcc", cc |-> "e", rel |-> 5],
  PushLong(Reg(EBX, LONG)), PushLong(d(LONG)),
  Copy(ESI, 5), [op |-> "call_indirect", dst |-> Reg(ESI, LONG)],
  [op |-> "pop", dst |-> Reg(EBX, WORD)],
  [op |-> "leave"],
  [op |-> "ret", bytes |-> 8],
  PushLong(Reg(ESP, LONG)), [op |-> "pusha"], [op |-> "popa"],
  [op |-> "pop", dst |-> Reg(ECX, LONG)],
  Copy(EDI, 25), [op |-> "jmp_indirect", dst |-> Reg(EDI, LONG)],
  Copy(ESI, 0), Copy(EDI, 8), Copy(ECX, 2),
  [op |-> "movs", n |-> LONG, rep |-> TRUE], [op |-> "stos", n |-> WORD, rep |-> TRUE],
  Copy(ECX, 3), [op |-> "stos", n |-> WORD, rep |-> TRUE],
  [op |-> "movs", n |-> BYTE, rep |-> FALSE]>>

\* Both floats are stored and loaded, the instruction works on them, and the
\* result is stored; the comparison moves one of them by its result.
At0 == MemOperand(None, None, 1, 0, LONG)
At4 == MemOperand(None, None, 1, 4, LONG)
FloatProgram(middle) ==
  <<[op |-> "mov", dst |-> At0, src |-> a(LONG)], [op |-> "mov", dst |-> At4, src |-> d(LONG)],
    [op |-> "flds", src |-> At0], [op |-> "flds", src |-> At4]>> \o middle
      \o <<[op |-> "fstps", dst |-> At0], [op |-> "fsts", dst |-> At4]>>
Idx(op) == <<[op |-> op, idx |-> 1]>>
OnMemory(op) == <<[op |-> op, src |-> At0]>>

Sums == {OnMemory("fadds"), OnMemory("fsubs"), Idx("fadd_idx"), Idx("faddlx"), Idx("faddx")}
Products == {OnMemory("fmuls"), OnMemory("fdivs"), Idx("fmullx")}
Copies ==
  {Idx("fxch"), Idx("fstx"), Idx("fstpx"), <<[op |-> "fld1"], [op |-> "fldz"]>>} \cup
  {Idx(op) \o <<[op |-> "cmov", cc |-> "a", dst |-> Reg(ECX, LONG), src |-> Imm(9, LONG)]>> :
     op \in {"fucomi", "fucomip"}}

Codes == {0, 1, 5, 8, 15, 16, 17, 23, 31, 40, 47, 48, 49, 63, 64, 79, 85, 96, 111, P_INF_F, P_NAN_F}
Floats == Codes \cup {Negated(c) : c \in Codes}
FloatPairs(S) ==
  {[k \in 0 .. 7 |-> <<p[1], 2, p[2], 3, Top, 0, 0, 0>>[k + 1]] : p \in S}

\* A denormal factor and a result next to the smallest normal number are left
\* out of products and quotients, NaNs out of comparisons.
Denormal(x) == ExponentOf(x) = 0 /\ x \notin Zeros
Smallest(op, x, y) ==
  \E r \in Promised!FloatResults(op, x, y) : r % N_ZERO_F \in {2^FRACTION - 1, 2^FRACTION}
ProductPairs ==
  {p \in Floats \X Floats :
     ~Denormal(p[1]) /\ ~Denormal(p[2]) /\ ~Smallest("mul", p[1], p[2]) /\ ~Smallest("div", p[2], p[1])}

FloatLoads ==
  {[program |-> FloatProgram(m), regs |-> FloatPairs(Floats \X Floats)] : m \in Sums} \cup
  {[program |-> FloatProgram(m), regs |-> FloatPairs(ProductPairs)] : m \in Products} \cup
  {[program |-> FloatProgram(m), regs |-> FloatPairs((Floats \ NaNs) \X (Floats \ NaNs))] : m \in Copies}

\* Products of a denormal number
MCDenormals ==
  {[program |-> FloatProgram(OnMemory("fmuls")),
    regs |-> FloatPairs({x \in Floats : Denormal(x)} \X (Floats \ (NaNs \cup Infinities)))]}

\* A byte that is pushed is positive here: push does not extend its sign.
MCValues == {0, 1, 7, 8, 100, 127, 128, 200, 255}
MCStarts ==
  {[k \in 0 .. 7 |-> <<x, 2, y, 3, Top, 253, 1, 4>>[k + 1]] : x \in MCValues, y \in MCValues}
MCLoads ==
  {[program |-> p, regs |-> MCStarts] : p \in ArithmeticPrograms \cup {Function}} \cup FloatLoads
================================================================================
