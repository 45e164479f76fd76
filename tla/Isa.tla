---------------------------------- MODULE Isa ----------------------------------
(***************************************************************************)
(* What the i386 promises a program: arithmetic on integers, flags that    *)
(* say whether a result fits, a stack, a file of registers, and data, and  *)
(* arithmetic on floats that is exact up to one rounding.                  *)
(*                                                                         *)
(* The stack is a sequence of bytes, its top first; esp is its length, and *)
(* what was popped is gone.  Programs are those of Cpu.                    *)
(***************************************************************************)
EXTENDS Words, Sequences

CONSTANTS BYTE, Top, EXPONENT, FRACTION

VARIABLES program, eip, reg, data, stack, flags,
  st      \* the registers of the x87, counted from the top

vars == <<program, eip, reg, data, stack, flags, st>>

LONG == 4 * BYTE
EAX == 0   ECX == 1   EDX == 2
ESP == 4   EBP == 5   ESI == 6   EDI == 7
Esp == Top - Len(stack)

Init == eip = 1 /\ stack = << >> /\ st = [k \in 0 .. 7 |-> 0]

\* Numbers and the bytes that stand for them
BytesOf(v, n) == [k \in 1 .. n \div BYTE |-> (v \div 2^(BYTE * (k - 1))) % 2^BYTE]
NumberOf(bytes) ==
  MapThenSumSet(LAMBDA k : bytes[k] * 2^(BYTE * (k - 1)), DOMAIN bytes)

Register(k) == IF k = 8 THEN 0 ELSE IF k = ESP THEN Esp ELSE reg[k]
Address(o) == (Register(o.base) + o.scale * Register(o.index) + o.disp) % 2^LONG
Part(k, n) ==
  IF n = BYTE THEN (Register(k % 4) \div 2^(BYTE * (k \div 4))) % 2^BYTE
              ELSE Register(k) % 2^n
Value(o) ==
  CASE o.type = "imm" -> o.val
    [] o.type = "mem" -> NumberOf([k \in 1 .. o.n \div BYTE |-> data[Address(o) + k - 1]])
    [] o.type = "reg" -> Part(o.addr, o.n)

I == program[eip]
At(ops) == eip \in DOMAIN program /\ I.op \in ops /\ UNCHANGED program
Do(ops) == At(ops) /\ UNCHANGED st
Next1 == eip' = eip + 1
Keep == UNCHANGED <<reg, data, stack>>

\* Bytes are taken from the stack or put on it, whatever they hold, when the
\* program moves esp.
MoveEsp(to) ==
  LET common == IF Top - to < Len(stack) THEN Top - to ELSE Len(stack)
  IN  /\ Len(stack') = Top - to
      /\ SubSeq(stack', Top - to - common + 1, Top - to)
           = SubSeq(stack, Len(stack) - common + 1, Len(stack))

SetRegister(k, n, v) ==
  reg' = IF n = BYTE THEN [reg EXCEPT ![k % 4] = Put(@, BYTE * (k \div 4), n, v)]
                     ELSE [reg EXCEPT ![k] = Put(@, 0, n, v)]

Assign(o, v) ==
  \/ o.type = "reg" /\ o.addr = ESP /\ o.n = LONG /\ MoveEsp(v) /\ UNCHANGED <<reg, data>>
  \/ /\ o.type = "reg" /\ (o.addr # ESP \/ o.n = BYTE)
     /\ SetRegister(o.addr, o.n, v) /\ UNCHANGED <<data, stack>>
  \/ /\ o.type = "mem"
     /\ data' = [a \in DOMAIN data |->
                   LET k == a - Address(o) + 1
                   IN  IF k \in 1 .. o.n \div BYTE THEN BytesOf(v, o.n)[k] ELSE data[a]]
     /\ UNCHANGED <<reg, stack>>

-------------------------------------------------------------------------------
D == Value(I.dst)
\* A narrow source stands for its signed value.
S == Signed(Value(I.src), I.src.n) % 2^I.dst.n
N == I.dst.n

Fits(x) == x \in -(2^(N - 1)) .. 2^(N - 1) - 1

SetFlags(res, carry, overflow) ==
  flags' = [CF |-> Bit(carry), OF |-> Bit(overflow), ZF |-> Bit(res = 0),
            SF |-> Bit(Signed(res, N) < 0), PF |-> Bit(Cardinality(Bits(res, BYTE)) % 2 = 0)]

\* The exact result of an operation, as a natural and as a signed number
Exact(op, x, y) ==
  CASE op = "add" -> x + y
    [] op = "adc" -> x + y + flags.CF
    [] op \in {"sub", "cmp"} -> x - y
    [] op = "sbb" -> x - y - flags.CF

Arithmetic ==
  /\ Do({"add", "adc", "sub", "sbb", "cmp"}) /\ Next1
  /\ LET exact == Exact(I.op, D, S)
     IN  /\ SetFlags(exact % 2^N, exact \notin 0 .. 2^N - 1,
                     ~Fits(Exact(I.op, Signed(D, N), Signed(S, N))))
         /\ IF I.op = "cmp" THEN Keep ELSE Assign(I.dst, exact % 2^N)

Logic ==
  /\ Do({"and", "or", "xor", "test"}) /\ Next1
  /\ LET d == Bits(D, N)
         s == Bits(S, N)
         res == Number({k \in 0 .. N - 1 :
                  CASE I.op \in {"and", "test"} -> k \in d /\ k \in s
                    [] I.op = "or" -> k \in d \/ k \in s
                    [] I.op = "xor" -> (k \in d) # (k \in s)}, N)
     IN  /\ SetFlags(res, FALSE, FALSE)
         /\ IF I.op = "test" THEN Keep ELSE Assign(I.dst, res)

Unary ==
  /\ Do({"inc", "dec", "not"}) /\ Next1
  /\ Assign(I.dst, (CASE I.op = "inc" -> D + 1 [] I.op = "dec" -> D - 1
                      [] I.op = "not" -> -1 - D) % 2^N)
  /\ UNCHANGED flags

\* OF is defined for a count of one only, and nobody reads it.
Shift ==
  /\ Do({"shl", "shr", "sar"}) /\ Next1
  /\ LET c == Value(I.src)
         Last(x) == (x \div 2^(c - 1)) % 2 = 1
         res == (CASE I.op = "shl" -> D * 2^c [] I.op = "shr" -> D \div 2^c
                   [] I.op = "sar" -> Signed(D, N) \div 2^c) % 2^N
     IN  /\ SetFlags(res, IF I.op = "shl" THEN ((D * 2^c) \div 2^N) % 2 = 1 ELSE Last(D), flags'.OF = 1)
         /\ Assign(I.dst, res)

Move ==
  /\ Do({"mov", "movsx", "lea", "cmov", "setcc"}) /\ Next1 /\ UNCHANGED flags
  /\ CASE I.op = "mov" -> Assign(I.dst, Value(I.src))
       [] I.op = "movsx" -> Assign(I.dst, S)
       [] I.op = "lea" -> Assign(I.dst, Address(I.src))
       [] I.op = "cmov" -> Keep \/ Assign(I.dst, S)
       [] I.op = "setcc" -> Assign(I.dst, 0) \/ Assign(I.dst, 1)

\* The product of two numbers in EDX and EAX, or cut to one register; quotient
\* and remainder of the number in both.  The signed ones may set flags.
Pair(high, low) ==
  reg' = [reg EXCEPT ![EAX] = Put(@, 0, N, low % 2^N), ![EDX] = Put(@, 0, N, high % 2^N)]

Multiply ==
  /\ Do({"mul", "imul", "imul2", "idiv"}) /\ Next1
  /\ LET a == Part(EAX, N)
         p == IF I.op = "mul" THEN a * D ELSE Signed(a, N) * Signed(D, N)
         both == Signed(Part(EDX, N) * 2^N + a, 2 * N)
         q == Quotient(both, Signed(D, N))
     IN  CASE I.op \in {"mul", "imul"} -> Pair(p \div 2^N, p) /\ UNCHANGED <<data, stack>>
           [] I.op = "imul2" -> Assign(I.dst, (Signed(D, N) * Signed(Value(I.src), N)) % 2^N)
           [] I.op = "idiv" -> Pair(Remainder(both, Signed(D, N)), q) /\ UNCHANGED <<data, stack>>
  /\ I.op = "mul" => LET over == Bit(Part(EAX, N) * D >= 2^N)
                     IN  flags'.CF = over /\ flags'.OF = over

Extend ==
  /\ Do({"cbw", "cltd"}) /\ Next1
  /\ LET a == Part(EAX, N)
     IN  IF I.op = "cbw" THEN SetRegister(EAX, N, Signed(a % 2^(N \div 2), N \div 2) % 2^N)
                         ELSE SetRegister(EDX, N, IF Signed(a, N) < 0 THEN 2^N - 1 ELSE 0)
  /\ UNCHANGED <<data, stack, flags>>

Carry ==
  /\ Do({"bt", "clc"}) /\ Next1 /\ Keep
  /\ flags' = [flags EXCEPT !.CF = Bit(I.op = "bt" /\ Value(I.src) % N \in Bits(D, N))]

-------------------------------------------------------------------------------
Push ==
  /\ Do({"push", "pusha"}) /\ Next1 /\ UNCHANGED <<reg, data, flags>>
  /\ stack' = IF I.op = "push"
                THEN BytesOf(Signed(Value(I.src), I.src.n) % 2^I.n, I.n) \o stack
                ELSE [k \in 1 .. 32 |-> BytesOf(Register(7 - ((k - 1) \div 4)), LONG)[1 + ((k - 1) % 4)]]
                       \o stack

Rest(n) == SubSeq(stack, n + 1, Len(stack))
TopLong == NumberOf(SubSeq(stack, 1, 4))

Pop ==
  /\ Do({"pop", "popa"}) /\ Next1 /\ UNCHANGED <<data, flags>>
  /\ IF I.op = "pop"
       THEN /\ SetRegister(I.dst.addr, N, NumberOf(SubSeq(stack, 1, N \div BYTE)))
            /\ stack' = Rest(N \div BYTE)
       ELSE /\ reg' = [k \in DOMAIN reg |-> NumberOf(SubSeq(stack, 29 - 4 * k, 32 - 4 * k))]
            /\ stack' = Rest(32)

\* A conditional jump goes to one of its two places.
Jump ==
  /\ Do({"jcc", "jmp", "jmp_indirect"}) /\ Keep /\ UNCHANGED flags
  /\ \/ I.op # "jmp_indirect" /\ eip' = eip + 1 + I.rel
     \/ I.op = "jcc" /\ Next1
     \/ I.op = "jmp_indirect" /\ eip' = D

\* A call returns behind itself; ret may take arguments off the stack.
Call ==
  /\ Do({"call", "call_indirect"}) /\ UNCHANGED <<reg, data, flags>>
  /\ stack' = BytesOf(eip + 1, LONG) \o stack
  /\ eip' = IF I.op = "call" THEN eip + 1 + I.rel ELSE D

Return ==
  /\ Do({"ret"}) /\ UNCHANGED <<reg, data, flags>>
  /\ eip' = TopLong /\ stack' = Rest(4 + I.bytes)

\* The frame goes from the stack, whatever the function left there.
Leave ==
  /\ Do({"leave"}) /\ Next1 /\ UNCHANGED <<data, flags>>
  /\ LET frame == Len(stack) - (Top - reg[EBP])
     IN  /\ reg' = [reg EXCEPT ![EBP] = NumberOf(SubSeq(stack, frame + 1, frame + 4))]
         /\ stack' = Rest(frame + 4)

\* A block is copied or filled, as one.
Block ==
  /\ Do({"movs", "stos"}) /\ Next1 /\ UNCHANGED <<stack, flags>>
  /\ LET w == I.n \div BYTE
         count == IF I.rep THEN reg[ECX] ELSE 1
         To == reg[EDI] .. reg[EDI] + count * w - 1
         moved == [reg EXCEPT ![EDI] = @ + count * w, ![ECX] = IF I.rep THEN 0 ELSE @]
     IN  /\ data' = [a \in DOMAIN data |->
                       LET k == a - reg[EDI]
                       IN  IF a \notin To THEN data[a]
                           ELSE IF I.op = "movs" THEN data[reg[ESI] + k]
                           ELSE BytesOf(reg[EAX], LONG)[1 + (k % w)]]
         /\ reg' = IF I.op = "movs" THEN [moved EXCEPT ![ESI] = @ + count * w] ELSE moved

-------------------------------------------------------------------------------
(* Floats.  A float's code without its sign grows with the number; numbers *)
(* are counted in the smallest one.                                        *)

Negative(x) == x \div 2^(EXPONENT + FRACTION)
Code(x) == x % 2^(EXPONENT + FRACTION)
Infinity == (2^EXPONENT - 1) * 2^FRACTION
One == 2^(2^(EXPONENT - 1) - 2 + FRACTION)
IsNaN(x) == Code(x) > Infinity

Magnitude(code) ==
  LET e == code \div 2^FRACTION
  IN  IF e = 0 THEN code ELSE (2^FRACTION + (code % 2^FRACTION)) * 2^(e - 1)

\* The float nearest to a quotient of naturals; from the middle, the even one.
Nearest(num, den) ==
  LET below == CHOOSE c \in 0 .. Infinity :
                 /\ Magnitude(c) * den <= num
                 /\ c = Infinity \/ Magnitude(c + 1) * den > num
      past == 2 * num - (Magnitude(below) + Magnitude(below + 1)) * den
  IN  IF below < Infinity /\ (past > 0 \/ (past = 0 /\ below % 2 = 1)) THEN below + 1 ELSE below

WithSign(s, code) == s * 2^(EXPONENT + FRACTION) + code
Opposite(x) == WithSign(1 - Negative(x), Code(x))

Plus(x, y) ==
  LET N_(z) == IF Negative(z) = 1 THEN -Magnitude(Code(z)) ELSE Magnitude(Code(z))
      sum == N_(x) + N_(y)
  IN  CASE Code(x) = Infinity -> {x}
        [] Code(y) = Infinity -> {y}
        [] OTHER -> {WithSign(Bit(sum < 0 \/ (sum = 0 /\ Negative(x) + Negative(y) = 2 /\ Code(x) + Code(y) = 0)),
                              Nearest(IF sum < 0 THEN -sum ELSE sum, 1))}

NaNs == {x \in 0 .. 2^LONG - 1 : IsNaN(x)}

\* The results an operation may have: a quotient may be one unit short.
FloatResults(op, x, y) ==
  LET s == Bit(Negative(x) # Negative(y))
      X == Code(x)
      Y == Code(y)
      quotient == Nearest(Magnitude(X) * One, Magnitude(Y))
  IN  CASE IsNaN(x) \/ IsNaN(y) -> NaNs
        [] op = "add" /\ ~IsNaN(x) /\ ~IsNaN(y) ->
             IF X = Infinity /\ y = Opposite(x) THEN NaNs ELSE Plus(x, y)
        [] op = "mul" /\ ~IsNaN(x) /\ ~IsNaN(y) ->
             IF {X, Y} = {0, Infinity} THEN NaNs
             ELSE IF Infinity \in {X, Y} THEN {WithSign(s, Infinity)}
             ELSE {WithSign(s, Nearest(Magnitude(X) * Magnitude(Y), One))}
        [] op = "div" /\ ~IsNaN(x) /\ ~IsNaN(y) ->
             IF X = Y /\ X \in {0, Infinity} THEN NaNs
             ELSE IF X = Infinity \/ Y = 0 THEN {WithSign(s, Infinity)}
             ELSE IF Y = Infinity THEN {WithSign(s, 0)}
             ELSE {WithSign(s, quotient)} \cup (IF quotient > 0 THEN {WithSign(s, quotient - 1)} ELSE {})

Pushed(v) == [k \in 0 .. 7 |-> IF k = 0 THEN v ELSE st[k - 1]]
Popped(s) == [k \in 0 .. 7 |-> s[(k + 1) % 8]]

FloatLoad ==
  /\ At({"flds", "fld1", "fldz"}) /\ Next1 /\ Keep /\ UNCHANGED flags
  /\ st' = Pushed(CASE I.op = "flds" -> Value(I.src) [] I.op = "fldz" -> 0
                    [] I.op = "fld1" -> Nearest(One, 1))

FloatArithmetic ==
  /\ At({"fadds", "fsubs", "fmuls", "fdivs"}) /\ Next1 /\ Keep /\ UNCHANGED flags
  /\ LET v == Value(I.src)
         results == CASE I.op = "fadds" -> FloatResults("add", st[0], v)
                      [] I.op = "fsubs" -> FloatResults("add", st[0], IF IsNaN(v) THEN v ELSE Opposite(v))
                      [] I.op = "fmuls" -> FloatResults("mul", st[0], v)
                      [] I.op = "fdivs" -> FloatResults("div", st[0], v)
     IN  \E r \in results : st' = [st EXCEPT ![0] = r]

FloatRegisters ==
  /\ At({"fadd_idx", "faddlx", "faddx", "fmullx"}) /\ Next1 /\ Keep /\ UNCHANGED flags
  /\ \E r \in FloatResults(IF I.op = "fmullx" THEN "mul" ELSE "add", st[0], st[I.idx]) :
       st' = CASE I.op = "fadd_idx" -> [st EXCEPT ![0] = r]
               [] I.op \in {"faddlx", "fmullx"} -> [st EXCEPT ![I.idx] = r]
               [] I.op = "faddx" -> Popped([st EXCEPT ![I.idx] = r])

FloatMove ==
  /\ At({"fsts", "fstps", "fstx", "fstpx", "fxch"}) /\ Next1 /\ UNCHANGED flags
  /\ IF I.op \in {"fsts", "fstps"} THEN Assign(I.dst, st[0]) ELSE Keep
  /\ st' = CASE I.op = "fsts" -> st
             [] I.op = "fstps" -> Popped(st)
             [] I.op = "fstx" -> [st EXCEPT ![I.idx] = st[0]]
             [] I.op = "fstpx" -> Popped([st EXCEPT ![I.idx] = st[0]])
             [] I.op = "fxch" -> [st EXCEPT ![0] = st[I.idx], ![I.idx] = st[0]]

\* Numbers compare as if unsigned: above, below or equal.
FloatCompare ==
  /\ At({"fucomi", "fucomip"}) /\ Next1 /\ Keep
  /\ LET N_(x) == IF Negative(x) = 1 THEN -Magnitude(Code(x)) ELSE Magnitude(Code(x))
     IN  flags' = [flags EXCEPT !.PF = 0, !.CF = Bit(N_(st[0]) < N_(st[I.idx])),
                                !.ZF = Bit(N_(st[0]) = N_(st[I.idx]))]
  /\ st' = IF I.op = "fucomip" THEN Popped(st) ELSE st

Next ==
  \/ Arithmetic \/ Logic \/ Unary \/ Shift \/ Move \/ Multiply \/ Extend \/ Carry
  \/ Push \/ Pop \/ Jump \/ Call \/ Return \/ Leave \/ Block
  \/ FloatLoad \/ FloatArithmetic \/ FloatRegisters \/ FloatMove \/ FloatCompare

Spec == Init /\ [][Next]_vars
================================================================================
