------------------------------ MODULE Interrupts ------------------------------
(***************************************************************************)
(* Interrupt delivery in NEMU: the loop of exec() (nemu/src/cpu/cpu.c),    *)
(* the devices it polls (nemu/src/device/sdl.c), the interrupt controller  *)
(* they signal (nemu/src/device/i8259_pic.c), and the entry and the exit   *)
(* of handlers (raise_intr, int, iret).                                    *)
(*                                                                         *)
(* The emulator thread, Cpu, runs the loop.  Async holds the other host    *)
(* threads that raise interrupts: none in the default configuration, the   *)
(* audio monitor when HAS_DEVICE_AUDIO is defined.  The controller's slot  *)
(* and the CPU's INTR pin are written under a mutex but read without it,   *)
(* so a raise is three steps: lock, store the slot, store the pin.         *)
(*                                                                         *)
(* The guest is abstracted to the instructions that matter to delivery,    *)
(* used the way the kernel and the game programs use them.                 *)
(***************************************************************************)
EXTENDS I8259, Sequences

CONSTANTS
  Cpu,        \* the emulator thread
  Async,      \* the other threads that raise interrupts
  Timer, Keyboard, Audio, Ide   \* the request lines of the devices

ASSUME ThreadsAssumption == Cpu \notin Async

\* timer.h, keyboard.h, audio.h and ide.h of nemu/include/device; the proofs
\* use only that the disk has the highest line.
ASSUME LinesAssumption ==
  /\ {Timer, Keyboard, Audio, Ide} \subseteq IrqLines
  /\ \A irq \in {Timer, Keyboard, Audio} : irq < Ide

Threads == {Cpu} \cup Async

Free == "free"     \* no thread holds i8259_mutex

ASSUME FreeAssumption == Free \notin Threads

VARIABLES
  slot,      \* i8259_intr_no
  intr,      \* cpu.intr, the INTR pin
  mutex,     \* the thread that holds i8259_mutex, or Free
  stage,     \* stage[t]: where t is in i8259_raise_intr
  line,      \* line[t]: its argument
  phase,     \* where the emulator thread is in the loop of exec()
  query,     \* do_intr's local intr_no
  IFlag,       \* cpu.eflags.IF
  halted,    \* is_nemu_hlt
  frames,    \* the interrupted contexts on the guest's stack, innermost last
  entry      \* the vector of the gate the last interrupt went through

pic  == <<slot, intr, mutex, stage, line>>
cpu  == <<IFlag, halted, frames>>
vars == <<slot, intr, mutex, stage, line, phase, query, IFlag, halted, frames, entry>>

Stages == {"idle", "lock", "slot", "pin"}
Phases == {"exec", "timer", "keyboard", "intr", "ack"}

\* What raise_intr pushes, as far as delivery depends on it, and whether
\* a device or the int instruction caused it.
Frames == [kind : {"irq", "trap"}, iflag : BOOLEAN]

Init ==
  /\ slot = NO_INTR /\ intr = FALSE /\ mutex = Free
  /\ stage = [t \in Threads |-> "idle"]
  /\ line = [t \in Threads |-> Timer]
  /\ phase = "exec" /\ query = NO_INTR /\ entry = NO_INTR
  /\ IFlag = FALSE /\ halted = FALSE /\ frames = << >>

-------------------------------------------------------------------------------
(* i8259_raise_intr, in thread t *)

StartRaise(t, irq) ==
  /\ stage[t] = "idle"
  /\ stage' = [stage EXCEPT ![t] = "lock"]
  /\ line' = [line EXCEPT ![t] = irq]
  /\ UNCHANGED <<slot, intr, mutex>>

LockPic(t) ==
  /\ stage[t] = "lock" /\ mutex = Free
  /\ mutex' = t
  /\ stage' = [stage EXCEPT ![t] = "slot"]
  /\ UNCHANGED <<slot, intr, line, phase, query, cpu, entry>>

StoreSlot(t) ==
  /\ stage[t] = "slot"
  /\ slot' = Latch(slot, line[t])
  /\ stage' = [stage EXCEPT ![t] = "pin"]
  /\ UNCHANGED <<intr, mutex, line, phase, query, cpu, entry>>

\* Mutant: the pin is never raised.
StorePin_NoPin(t) ==
  /\ stage[t] = "pin"
  /\ mutex' = Free
  /\ stage' = [stage EXCEPT ![t] = "idle"]
  /\ UNCHANGED <<slot, intr, line, phase, query, cpu, entry>>

\* The pin is set even when the slot kept its old content; then the unlock.
StorePin(t) ==
  /\ stage[t] = "pin"
  /\ intr' = TRUE
  /\ mutex' = Free
  /\ stage' = [stage EXCEPT ![t] = "idle"]
  /\ UNCHANGED <<slot, line, phase, query, cpu, entry>>

AsyncRaise(t) ==
  /\ StartRaise(t, Audio)
  /\ UNCHANGED <<phase, query, cpu, entry>>

-------------------------------------------------------------------------------
(* One instruction of the guest *)

Context == IF frames = << >> THEN "main" ELSE frames[Len(frames)].kind

SavedIF == frames[Len(frames)].iflag

\* exec_inst is called only when the CPU is not halted.
Executing == phase = "exec" /\ stage[Cpu] = "idle" /\ ~halted

Instruction == Executing /\ phase' = "timer" /\ UNCHANGED <<query, entry>>

Plain ==
  /\ Instruction
  /\ UNCHANGED <<pic, cpu>>

\* wait_intr() is called with interrupts enabled.
Hlt ==
  /\ Instruction /\ IFlag
  /\ halted' = TRUE
  /\ UNCHANGED <<pic, IFlag, frames>>

\* cli() and sti() enclose critical sections of main programs, and of the
\* system call that registers a handler when it is called with interrupts on.
Cli ==
  /\ Instruction /\ IFlag
  /\ IFlag' = FALSE
  /\ UNCHANGED <<pic, halted, frames>>

Sti ==
  /\ Instruction /\ ~IFlag
  /\ Context = "main" \/ (Context = "trap" /\ SavedIF)
  /\ IFlag' = TRUE
  /\ UNCHANGED <<pic, halted, frames>>

\* A trap gate leaves IF alone.  Programs make system calls, and so do the
\* handlers they registered (testcase/src/echo.c).
Int80 ==
  /\ Instruction /\ Context # "trap"
  /\ frames' = Append(frames, [kind |-> "trap", iflag |-> IFlag])
  /\ UNCHANGED <<pic, IFlag, halted>>

Iret(kind) ==
  /\ Instruction /\ Context = kind
  /\ kind = "trap" => IFlag = SavedIF
  /\ IFlag' = SavedIF
  /\ frames' = SubSeq(frames, 1, Len(frames) - 1)
  /\ UNCHANGED <<pic, halted>>

\* The out instruction that starts a disk read raises the disk's line at once.
OutIde ==
  /\ Instruction /\ IFlag /\ Context = "main"
  /\ StartRaise(Cpu, Ide)
  /\ UNCHANGED cpu

-------------------------------------------------------------------------------
(* The rest of the loop of exec() *)

SkipHalted ==
  /\ phase = "exec" /\ halted
  /\ phase' = "timer"
  /\ UNCHANGED <<pic, query, cpu, entry>>

\* Mutant: a halted CPU is not ticked.
TimerTick_NotHalted ==
  /\ phase = "timer" /\ ~halted /\ StartRaise(Cpu, Timer)
  /\ phase' = "keyboard"
  /\ UNCHANGED <<query, cpu, entry>>

\* do_timer, with and without the interval having elapsed
TimerTick ==
  /\ phase = "timer" /\ StartRaise(Cpu, Timer)
  /\ phase' = "keyboard"
  /\ UNCHANGED <<query, cpu, entry>>

TimerQuiet ==
  /\ phase = "timer" /\ stage[Cpu] = "idle"
  /\ phase' = "keyboard"
  /\ UNCHANGED <<pic, query, cpu, entry>>

\* Mutant: the keyboard is polled again between the query and the ack.
KeyEvent_AfterQuery ==
  /\ phase \in {"keyboard", "ack"} /\ StartRaise(Cpu, Keyboard)
  /\ UNCHANGED <<phase, query, cpu, entry>>

\* do_keyboard raises once per event in the queue of the host.
KeyEvent ==
  /\ phase = "keyboard" /\ StartRaise(Cpu, Keyboard)
  /\ UNCHANGED <<phase, query, cpu, entry>>

KeyboardDone ==
  /\ phase = "keyboard" /\ stage[Cpu] = "idle"
  /\ phase' = "intr"
  /\ UNCHANGED <<pic, query, cpu, entry>>

\* do_intr, up to the query of the controller
NoIntr ==
  /\ phase = "intr" /\ ~(intr /\ IFlag)
  /\ phase' = "exec"
  /\ UNCHANGED <<pic, query, cpu, entry>>

\* Mutant: an interrupt does not end the halt.
QueryIntr_StaysHalted ==
  /\ phase = "intr" /\ intr /\ IFlag
  /\ query' = slot
  /\ phase' = "ack"
  /\ UNCHANGED <<pic, cpu, entry>>

QueryIntr ==
  /\ phase = "intr" /\ intr /\ IFlag
  /\ halted' = FALSE
  /\ query' = slot
  /\ phase' = "ack"
  /\ UNCHANGED <<pic, IFlag, frames, entry>>

\* Mutants: the pin stays up; IF stays set.
AckAndRaise_KeepsPin ==
  /\ phase = "ack" /\ mutex = Free
  /\ slot' = NO_INTR
  /\ frames' = Append(frames, [kind |-> "irq", iflag |-> IFlag])
  /\ IFlag' = FALSE /\ entry' = query /\ phase' = "exec"
  /\ UNCHANGED <<intr, mutex, stage, line, query, halted>>

AckAndRaise_KeepsIF ==
  /\ phase = "ack" /\ mutex = Free /\ Len(frames) < 4
  /\ slot' = NO_INTR /\ intr' = FALSE
  /\ frames' = Append(frames, [kind |-> "irq", iflag |-> IFlag])
  /\ entry' = query /\ phase' = "exec"
  /\ UNCHANGED <<mutex, stage, line, query, IFlag, halted>>

\* i8259_ack_intr and raise_intr through an interrupt gate.  raise_intr only
\* touches what no other thread uses, so it is one step with the ack.
AckAndRaise ==
  /\ phase = "ack" /\ mutex = Free
  /\ slot' = NO_INTR /\ intr' = FALSE
  /\ frames' = Append(frames, [kind |-> "irq", iflag |-> IFlag])
  /\ IFlag' = FALSE
  /\ entry' = query
  /\ phase' = "exec"
  /\ UNCHANGED <<mutex, stage, line, query, halted>>

-------------------------------------------------------------------------------

RaiseStep(t) == LockPic(t) \/ StoreSlot(t) \/ StorePin(t)

CpuStep ==
  \/ Plain \/ Hlt \/ Cli \/ Sti \/ Int80 \/ Iret("irq") \/ Iret("trap") \/ OutIde
  \/ SkipHalted \/ TimerTick \/ TimerQuiet \/ KeyEvent \/ KeyboardDone
  \/ NoIntr \/ QueryIntr \/ AckAndRaise

Next ==
  \/ CpuStep
  \/ \E t \in Threads : RaiseStep(t)
  \/ \E t \in Async : AsyncRaise(t)

\* The emulator thread and a thread inside i8259_raise_intr keep running; the
\* host's clock advances, so a poll of the timer eventually finds its interval
\* over; the host's event queue is finite; guest handlers, system calls and
\* critical sections end.
Fairness ==
  /\ WF_vars(CpuStep)
  /\ \A t \in Threads : SF_vars(LockPic(t)) /\ WF_vars(StoreSlot(t) \/ StorePin(t))
  /\ SF_vars(AckAndRaise)
  /\ SF_vars(TimerTick) /\ SF_vars(KeyboardDone)
  /\ SF_vars(Sti) /\ SF_vars(Iret("irq")) /\ SF_vars(Iret("trap"))

Spec == Init /\ [][Next]_vars

FairSpec == Spec /\ Fairness

-------------------------------------------------------------------------------
(* Properties *)

TypeOK ==
  /\ slot \in Slots /\ query \in Slots /\ entry \in Slots
  /\ intr \in BOOLEAN /\ IFlag \in BOOLEAN /\ halted \in BOOLEAN
  /\ mutex \in Threads \cup {Free}
  /\ stage \in [Threads -> Stages]
  /\ line \in [Threads -> {Timer, Keyboard, Audio, Ide}]
  /\ phase \in Phases
  /\ frames \in Seq(Frames)

\* The assertion of do_intr (cpu.c:151): the unlocked query that follows a
\* raised pin and an open IF never finds the controller empty.
QueryFindsVector ==
  /\ phase = "intr" /\ intr /\ IFlag => slot # NO_INTR
  /\ phase = "ack" => query # NO_INTR

\* Interrupt gates clear IF and only iret gives it back, so a handler is never
\* interrupted, whatever mix of system calls surrounds it: the frames of
\* kernel/src/irq/do_irq.S are at most a call, a handler, a call of the handler.
HandlersDoNotNest ==
  /\ IFlag => \A k \in DOMAIN frames : frames[k].kind = "trap"
  /\ \A j, k \in DOMAIN frames :
       frames[j].kind = "irq" /\ frames[k].kind = "irq" => j = k
  /\ Len(frames) <= 3

\* A halted CPU (hlt.c) is left only by do_intr, which needs IF: the emulator
\* never spins halted with interrupts off, nor inside a handler.
HaltedCanWake == halted => IFlag /\ Context # "irq"

\* The request that do_intr acknowledges is the one it queried, although the
\* query and the acknowledgement are two calls; only the audio thread can put
\* another one, a higher one, in its place in between.
AckTakesQueried ==
  phase = "ack" =>
    \/ slot = query
    \/ Async # {} /\ slot = Vector(Audio) /\ query < slot

\* The disk's request leaves the controller only by being delivered, whatever
\* the other devices and threads raise meanwhile: wait_ide_intr of the kernel
\* (kernel/src/driver/ide/ide.c) relies on it.
DiskRequestKept ==
  [][slot = Vector(Ide) /\ slot' # slot => entry' = Vector(Ide) /\ slot' = NO_INTR]_vars

\* The inductive invariant behind the theorems of InterruptsProofs.
\* The mutex protects the two stores of a raise, which never leave the pin up
\* over an empty slot.
ControllerInv ==
  /\ \A t \in Threads : stage[t] \in {"slot", "pin"} <=> mutex = t
  /\ \A t \in Threads : stage[t] = "pin" => slot # NO_INTR
  /\ intr => slot # NO_INTR
  /\ \A t \in Async : stage[t] # "idle" => line[t] = Audio

\* The loop raises nothing between its query and its acknowledgement.
LoopInv ==
  /\ phase \in {"intr", "ack"} => stage[Cpu] = "idle"
  /\ phase = "ack" => query # NO_INTR /\ slot # NO_INTR /\ IFlag /\ ~halted
  /\ AckTakesQueried
  /\ halted => IFlag

\* Frames alternate, at most one of them is an interrupt's, it was entered
\* with IF set, and whatever came after it runs with IF clear.
FrameInv ==
  /\ Len(frames) <= 3
  /\ \A k \in DOMAIN frames : k > 1 => frames[k].kind # frames[k-1].kind
  /\ \A j, k \in DOMAIN frames :
       frames[j].kind = "irq" =>
         /\ ~IFlag
         /\ frames[j].iflag
         /\ frames[k].kind = "irq" => j = k
         /\ k > j => ~frames[k].iflag

IInv == TypeOK /\ ControllerInv /\ LoopInv /\ FrameInv

\* hlt ends: the timer wakes a halted CPU even if no other device does.
HaltEnds == halted ~> ~halted

\* What is in the controller is eventually taken out: handlers return with IF
\* restored and the loop comes back to do_intr.
RequestServed == slot # NO_INTR ~> slot = NO_INTR

\* The controller and the loop implement the mailbox.
LineOf(vector) == IF vector = NO_INTR THEN -1 ELSE vector - IRQ_BASE

Mailbox == INSTANCE IrqMailbox WITH
  Lines <- {Timer, Keyboard, Audio, Ide},
  Late  <- IF Async = {} THEN {} ELSE {Audio},
  top   <- LineOf(slot),
  taken <- LineOf(entry)

ImplementsMailbox == Mailbox!Spec

===============================================================================
