------------------------------ MODULE Breakpoints ------------------------------
(***************************************************************************)
(* Breakpoints and watchpoints of NEMU's monitor: the record pool of       *)
(* nemu/src/monitor/breakpoint.c, the commands of nemu/src/monitor/ui.c,   *)
(* and the part of exec() (nemu/src/cpu/cpu.c) that stops the guest.       *)
(* A breakpoint is an INT3 byte written over the guest's own byte; it is   *)
(* taken out when it is hit and put back one instruction later.            *)
(*                                                                         *)
(* An address stands for the first byte of an instruction, and one watched *)
(* value for the expressions of all watchpoints.  Where an instruction     *)
(* goes next, and what it does to the value, is left open.                 *)
(***************************************************************************)
EXTENDS Integers, SequencesExt

CONSTANTS
  NR_BP,      \* records in the pool
  Addr,       \* addresses of instructions
  Program,    \* the byte the guest's program has at each address
  Late,       \* addresses the kernel's loader writes while the guest runs
  Handlers,   \* where interrupts go; {} when none arrive
  Values,     \* values of the watched expression
  MaxN,       \* bound on the argument of si; 0 when si is not used
  Watching,   \* the user sets watchpoints
  Careful     \* the user sets one breakpoint per address, in code that is
              \* loaded, and not on a BREAK_POINT

Int3 == "int3"     \* INT3_CODE, the byte of BREAK_POINT too
Bytes == {"code", "trap", "zero", Int3}

ASSUME PoolAssumption == NR_BP \in Nat \ {0} /\ MaxN \in Nat
ASSUME ProgramAssumption ==
  /\ Program \in [Addr -> {"code", "trap", Int3}]
  /\ Late \subseteq Addr /\ Handlers \subseteq Addr /\ Values # {}
  /\ Watching \in BOOLEAN /\ Careful \in BOOLEAN

Numbers == 0 .. NR_BP - 1
Forever == -1      \* exec(-1): 2^32 - 1 instructions, never used up

VARIABLES
  bp,           \* bp_list; kind "unused" stands for in_use = false
  head, free_,  \* the two lists, as sequences of record numbers
  mem,          \* the byte at each address
  text,         \* the byte the guest last put there
  eip,
  value,        \* what the watched expression evaluates to
  nemu_state,
  n, rerun,     \* exec's argument and its hit_break_rerun
  phase         \* "prompt", inside the loop of exec(), or "aborted"

pool == <<bp, head, free_>>
guest == <<mem, text, eip, value>>
loop == <<nemu_state, n, rerun, phase>>
vars == <<bp, head, free_, mem, text, eip, value, nemu_state, n, rerun, phase>>

Unused == [kind |-> "unused"]
Break(a, byte) == [kind |-> "break", addr |-> a, ori |-> byte]
Watch(v) == [kind |-> "watch", old |-> v]

Init ==
  /\ bp = [i \in Numbers |-> Unused]
  /\ head = << >>
  /\ free_ = [i \in 1 .. NR_BP |-> i - 1]
  /\ text = [a \in Addr |-> IF a \in Late THEN "zero" ELSE Program[a]]
  /\ mem = text
  /\ eip \in Addr \ Late /\ value \in Values
  /\ nemu_state = "ready" /\ n = 0 /\ rerun = FALSE /\ phase = "prompt"

-------------------------------------------------------------------------------
(* The record pool *)

Used == {head[k] : k \in 1 .. Len(head)}
Breaks == {i \in Used : bp[i].kind = "break"}
At(a) == {i \in Breaks : bp[i].addr = a}
Points == {bp[i].addr : i \in Breaks}

\* find_breakpoint, resume_breakpoints, scan_watchpoint
FirstOf(S) == head[SelectInSeq(head, LAMBDA i : i \in S)]
Arm(m) == [a \in Addr |-> IF a \in Points THEN Int3 ELSE m[a]]
Changed(v) == {i \in Used : bp[i].kind = "watch" /\ bp[i].old # v}

NewBP(record) ==
  /\ free_ # << >>
  /\ bp' = [bp EXCEPT ![Head(free_)] = record]
  /\ free_' = Tail(free_)
  /\ head' = << Head(free_) >> \o head

-------------------------------------------------------------------------------
(* Commands *)

Prompt == phase = "prompt" /\ nemu_state # "stop"

SetBreakpoint(a) ==
  /\ Prompt
  /\ Careful => a \notin Points /\ mem[a] \notin {Int3, "zero"}
  /\ NewBP(Break(a, mem[a]))
  /\ mem' = [mem EXCEPT ![a] = Int3]
  /\ UNCHANGED <<text, eip, value, loop>>

SetWatchpoint ==
  /\ Prompt /\ Watching
  /\ NewBP(Watch(value))
  /\ UNCHANGED <<guest, loop>>

\* new_BP asserts that a record is free.
PoolExhausted ==
  /\ Prompt /\ free_ = << >>
  /\ phase' = "aborted"
  /\ UNCHANGED <<pool, guest, nemu_state, n, rerun>>

Unlink(i) == \E k \in 1 .. Len(head) : head[k] = i /\ head' = RemoveAt(head, k)

Restored(i) ==
  IF bp[i].kind = "break" THEN [mem EXCEPT ![bp[i].addr] = bp[i].ori] ELSE mem

\* Mutant: the byte is left as it is.
Delete_NoRestore(i) ==
  /\ Prompt /\ i \in Used
  /\ Unlink(i)
  /\ free_' = << i >> \o free_
  /\ bp' = [bp EXCEPT ![i] = Unused]
  /\ UNCHANGED <<guest, loop>>

\* Mutant: the record is pushed but not unlinked.
Delete_NoUnlink(i) ==
  /\ Prompt /\ i \in Used
  /\ head' = head
  /\ free_' = << i >> \o free_
  /\ bp' = [bp EXCEPT ![i] = Unused]
  /\ mem' = Restored(i)
  /\ UNCHANGED <<text, eip, value, loop>>

Delete(i) ==
  /\ Prompt /\ i \in Used
  /\ Unlink(i)
  /\ free_' = << i >> \o free_
  /\ bp' = [bp EXCEPT ![i] = Unused]
  /\ mem' = Restored(i)
  /\ UNCHANGED <<text, eip, value, loop>>

\* From the tail to the head: the newest breakpoint of an address has the
\* last word on its byte.
DeleteAll ==
  /\ Prompt
  /\ head' = << >> /\ free_' = head \o free_
  /\ bp' = [i \in Numbers |-> Unused]
  /\ mem' = [a \in Addr |-> IF At(a) # {} THEN bp[FirstOf(At(a))].ori ELSE mem[a]]
  /\ UNCHANGED <<text, eip, value, loop>>

\* Mutant: breakpoints that were taken out are not put back.
Exec_NoRerun(count) ==
  /\ Prompt
  /\ n' = count /\ rerun' = FALSE
  /\ nemu_state' = "run" /\ phase' = "inst"
  /\ UNCHANGED <<pool, guest>>

\* The entry of exec(), from the commands c and si.
Exec(count) ==
  /\ Prompt
  /\ n' = count /\ rerun' = (nemu_state = "break")
  /\ nemu_state' = "run" /\ phase' = "inst"
  /\ UNCHANGED <<pool, guest>>

-------------------------------------------------------------------------------
(* One iteration of the loop of exec() *)

\* scan_watchpoint and its early exit, or on to the devices and interrupts.
Scan(state, v) ==
  /\ n' = (IF n = Forever THEN n ELSE n - 1)
  /\ rerun' = FALSE /\ value' = v
  /\ IF Changed(v) = {}
       THEN /\ nemu_state' = state /\ phase' = "intr"
            /\ UNCHANGED bp
       ELSE /\ nemu_state' = "ready" /\ phase' = "prompt"
            /\ bp' = [bp EXCEPT ![FirstOf(Changed(v))] = Watch(v)]
  /\ UNCHANGED <<head, free_>>

\* What exec_inst left in memory, after resume_breakpoints when it is due.
Resumed(m) == IF rerun THEN Arm(m) ELSE m

\* An instruction of the guest; the loader's copy loop stores program text.
Instruction ==
  /\ phase = "inst" /\ mem[eip] \in {"code", "zero"}
  /\ eip' \in Addr
  /\ \/ text' = text /\ mem' = Resumed(mem)
     \/ \E a \in Late : /\ text[a] = "zero"
                        /\ text' = [text EXCEPT ![a] = Program[a]]
                        /\ mem' = Resumed([mem EXCEPT ![a] = Program[a]])
  /\ \E v \in Values : Scan("run", v)

NemuTrap ==
  /\ phase = "inst" /\ mem[eip] = "trap"
  /\ eip' \in Addr
  /\ mem' = Resumed(mem) /\ text' = text
  /\ Scan("stop", value)

\* BREAK_POINT of the program, no record for it.
OwnBreak ==
  /\ phase = "inst" /\ mem[eip] = Int3 /\ At(eip) = {}
  /\ eip' \in Addr
  /\ mem' = Resumed(mem) /\ text' = text
  /\ Scan("break", value)

\* Mutants: eip is left after the INT3; it is moved back twice.
BreakHit_SkipsInstruction ==
  /\ phase = "inst" /\ mem[eip] = Int3 /\ At(eip) # {}
  /\ eip' \in Addr
  /\ mem' = [Resumed(mem) EXCEPT ![eip] = bp[FirstOf(At(eip))].ori]
  /\ text' = text
  /\ Scan("break", value)

BreakHit_BackTwice ==
  /\ phase = "inst" /\ mem[eip] = Int3 /\ At(eip) # {}
  /\ eip' = eip - 1
  /\ mem' = [Resumed(mem) EXCEPT ![eip] = bp[FirstOf(At(eip))].ori]
  /\ text' = text
  /\ Scan("break", value)

\* The original byte is restored and eip moved back over the INT3.
BreakHit ==
  /\ phase = "inst" /\ mem[eip] = Int3 /\ At(eip) # {}
  /\ mem' = [Resumed(mem) EXCEPT ![eip] = bp[FirstOf(At(eip))].ori]
  /\ UNCHANGED <<text, eip>>
  /\ Scan("break", value)

\* do_intr, and the test of the while loop.  Raising an interrupt pushes
\* onto the guest's stack, which an expression may watch.
DoIntr ==
  /\ phase = "intr"
  /\ \/ UNCHANGED <<eip, value>>
     \/ eip' \in Handlers /\ value' \in Values
  /\ IF nemu_state = "run" /\ n # 0
       THEN phase' = "inst" /\ UNCHANGED nemu_state
       ELSE /\ phase' = "prompt"
            /\ nemu_state' = IF nemu_state # "stop" /\ n = 0 THEN "ready" ELSE nemu_state
  /\ UNCHANGED <<pool, mem, text, n, rerun>>

Command ==
  \/ SetWatchpoint \/ PoolExhausted \/ DeleteAll \/ Exec(Forever)
  \/ \E a \in Addr : SetBreakpoint(a)
  \/ \E i \in Numbers : Delete(i)
  \/ \E count \in 1 .. MaxN : Exec(count)

Iteration == Instruction \/ NemuTrap \/ OwnBreak \/ BreakHit \/ DoIntr

Next == Command \/ Iteration

Spec == Init /\ [][Next]_vars

-------------------------------------------------------------------------------
(* Properties *)

TypeOK ==
  /\ bp \in [Numbers -> {Unused} \cup [kind : {"break"}, addr : Addr, ori : Bytes]
                          \cup [kind : {"watch"}, old : Values]]
  /\ head \in Seq(Numbers) /\ free_ \in Seq(Numbers)
  /\ mem \in [Addr -> Bytes] /\ text \in [Addr -> Bytes]
  /\ eip \in Addr /\ value \in Values
  /\ nemu_state \in {"stop", "run", "ready", "break"}
  /\ n \in {Forever} \cup 0 .. MaxN /\ rerun \in BOOLEAN
  /\ phase \in {"prompt", "inst", "intr", "aborted"}

\* Over any sequence of commands every record is on exactly one of the two
\* lists, once, and in_use tells which: what the assertions of new_BP, free_BP
\* and the list walks rely on.
PoolPartition ==
  /\ IsInjective(head \o free_)
  /\ Used \cup {free_[k] : k \in 1 .. Len(free_)} = Numbers
  /\ \A i \in Numbers : i \in Used <=> bp[i] # Unused

\* The monitor never damages the program: each breakpoint remembers the
\* guest's byte, and only addresses with a breakpoint hold an INT3 for it.
TextIntact ==
  /\ \A i \in Breaks : bp[i].ori = text[bp[i].addr]
  /\ \A a \in Addr : mem[a] # text[a] => mem[a] = Int3 /\ a \in Points

\* Once an instruction has run every breakpoint is in memory again, the one
\* it ran under included: resume_breakpoints is never missed, and no
\* breakpoint is passed unnoticed later.
Armed == phase = "intr" /\ nemu_state = "run" => \A a \in Points : mem[a] = Int3

\* The lists, the INT3 bytes and the flags implement the breakpoints of
\* Debugger.
View == INSTANCE Debugger WITH
  pc <- eip,
  points <- Points,
  reported <- /\ nemu_state = "break" \/ rerun
              /\ eip \in Points /\ mem[eip] # Int3,
  mode <- IF phase \in {"prompt", "aborted"} THEN "stopped"
          ELSE IF nemu_state = "run" /\ n # 0 THEN "running" ELSE "stopping"

ImplementsDebugger == View!Spec

===============================================================================
