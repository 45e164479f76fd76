--------------------------- MODULE InterruptsProofs ---------------------------
(***************************************************************************)
(* Proofs about Interrupts: the inductive invariant IInv for any set of    *)
(* asynchronous threads and any numbering of the request lines in which    *)
(* the disk comes last, the invariants and the action property it implies, *)
(* and the refinement of IrqMailbox.                                       *)
(***************************************************************************)
EXTENDS Interrupts, SequenceTheorems, TLAPS

DeviceLines == {Timer, Keyboard, Audio, Ide}

\* Latching a line yields a vector, never NO_INTR, and displaces nothing by a
\* line with a smaller number (i8259_raise_intr).
LEMMA LatchVector ==
  ASSUME NEW s \in Slots, NEW irq \in IrqLines
  PROVE  /\ Latch(s, irq) \in Slots
         /\ Latch(s, irq) # NO_INTR
  BY DEF Latch, Slots, Vector, NO_INTR, IRQ_BASE, IrqLines

\* The disk's vector stays latched whatever device is raised over it.
LEMMA LatchDisk ==
  ASSUME NEW irq \in DeviceLines
  PROVE  Latch(Vector(Ide), irq) = Vector(Ide)
  BY LinesAssumption DEF Latch, Vector, NO_INTR, IRQ_BASE, IrqLines, DeviceLines

\* The audio line either leaves the slot alone or takes a lower one's place.
LEMMA LatchAudio ==
  ASSUME NEW s \in Slots \ {NO_INTR}
  PROVE  \/ Latch(s, Audio) = s
         \/ Latch(s, Audio) = Vector(Audio) /\ s < Vector(Audio)
  BY LinesAssumption DEF Latch, Vector, NO_INTR, IRQ_BASE, IrqLines, Slots

LEMMA InitInv == Init => IInv
  <1> SUFFICES ASSUME Init PROVE IInv
    OBVIOUS
  <1>1. TypeOK
    <2>1. frames \in Seq(Frames)
      BY DEF Init
    <2>2. line \in [Threads -> DeviceLines] /\ stage \in [Threads -> Stages]
      BY DEF Init, DeviceLines, Stages
    <2> QED
      BY <2>1, <2>2 DEF Init, TypeOK, Slots, Phases, DeviceLines
  <1>2. ControllerInv
    BY FreeAssumption DEF Init, ControllerInv, Threads
  <1>3. LoopInv
    BY DEF Init, LoopInv, AckTakesQueried
  <1>4. FrameInv
    BY DEF Init, FrameInv
  <1> QED
    BY <1>1, <1>2, <1>3, <1>4 DEF IInv

\* A step of i8259_raise_intr, in any thread.
LEMMA RaiseStepInv ==
  ASSUME IInv, NEW t \in Threads, RaiseStep(t)
  PROVE  IInv'
  <1>0. /\ TypeOK /\ ControllerInv /\ LoopInv /\ FrameInv
        /\ line[t] \in DeviceLines /\ line[t] \in IrqLines
    BY LinesAssumption DEF IInv, TypeOK, DeviceLines
  <1>1. CASE LockPic(t)
    <2>1. TypeOK'
      BY <1>0, <1>1 DEF LockPic, TypeOK, cpu, Stages
    <2>2. ControllerInv'
      BY <1>0, <1>1, FreeAssumption DEF LockPic, TypeOK, ControllerInv, Threads
    <2>3. LoopInv'
      BY <1>0, <1>1 DEF LockPic, TypeOK, LoopInv, AckTakesQueried, cpu, Threads
    <2>4. FrameInv'
      BY <1>0, <1>1 DEF LockPic, FrameInv, cpu
    <2> QED
      BY <2>1, <2>2, <2>3, <2>4 DEF IInv
  <1>2. CASE StoreSlot(t)
    <2>1. slot' \in Slots /\ slot' # NO_INTR
      BY <1>0, <1>2, LatchVector DEF StoreSlot, TypeOK
    <2>2. TypeOK'
      BY <1>0, <1>2, <2>1 DEF StoreSlot, TypeOK, cpu, Stages
    <2>3. ControllerInv'
      BY <1>0, <1>2, <2>1 DEF StoreSlot, TypeOK, ControllerInv, Threads
    <2>4. LoopInv'
      <3>1. CASE t = Cpu
        BY <1>0, <1>2, <3>1 DEF StoreSlot, TypeOK, LoopInv, AckTakesQueried, cpu, Threads
      <3>2. CASE t \in Async
        <4>1. line[t] = Audio
          BY <1>0, <1>2, <3>2 DEF StoreSlot, ControllerInv
        <4>2. phase = "ack" =>
                slot' = slot \/ (slot' = Vector(Audio) /\ slot < Vector(Audio))
          BY <1>0, <1>2, <4>1, LatchAudio DEF StoreSlot, TypeOK, LoopInv, AckTakesQueried
        <4>3. t # Cpu /\ Async # {}
          BY <3>2, ThreadsAssumption
        <4>4. UNCHANGED <<phase, query, cpu>> /\ stage'[Cpu] = stage[Cpu]
          BY <1>0, <1>2, <4>3 DEF StoreSlot, TypeOK, Threads
        <4>5. AckTakesQueried'
          BY <1>0, <4>2, <4>3, <4>4 DEF LoopInv, AckTakesQueried
        <4> QED
          BY <1>0, <2>1, <4>4, <4>5 DEF LoopInv, cpu
      <3> QED
        BY <3>1, <3>2 DEF Threads
    <2>5. FrameInv'
      BY <1>0, <1>2 DEF StoreSlot, FrameInv, cpu
    <2> QED
      BY <2>2, <2>3, <2>4, <2>5 DEF IInv
  <1>3. CASE StorePin(t)
    <2>1. TypeOK'
      BY <1>0, <1>3 DEF StorePin, TypeOK, cpu, Stages
    <2>2. ControllerInv'
      BY <1>0, <1>3, FreeAssumption DEF StorePin, TypeOK, ControllerInv, Threads
    <2>3. LoopInv'
      BY <1>0, <1>3 DEF StorePin, TypeOK, LoopInv, AckTakesQueried, cpu, Threads
    <2>4. FrameInv'
      BY <1>0, <1>3 DEF StorePin, FrameInv, cpu
    <2> QED
      BY <2>1, <2>2, <2>3, <2>4 DEF IInv
  <1> QED
    BY <1>1, <1>2, <1>3 DEF RaiseStep

\* Another thread enters i8259_raise_intr.
LEMMA AsyncRaiseInv ==
  ASSUME IInv, NEW t \in Async, AsyncRaise(t)
  PROVE  IInv'
  <1>0. t \in Threads /\ t # Cpu
    BY ThreadsAssumption DEF Threads
  <1>1. TypeOK'
    BY <1>0 DEF IInv, AsyncRaise, StartRaise, TypeOK, cpu, Stages
  <1>2. ControllerInv'
    BY <1>0 DEF IInv, AsyncRaise, StartRaise, TypeOK, ControllerInv
  <1>3. LoopInv'
    BY <1>0 DEF IInv, AsyncRaise, StartRaise, TypeOK, LoopInv, AckTakesQueried, cpu
  <1>4. FrameInv'
    BY DEF IInv, AsyncRaise, FrameInv, cpu
  <1> QED
    BY <1>1, <1>2, <1>3, <1>4 DEF IInv

\* The steps of the loop that leave the controller and the guest's state
\* alone, or only start a raise.
LEMMA LoopStepInv ==
  ASSUME IInv,
         Plain \/ SkipHalted \/ TimerTick \/ TimerQuiet \/ KeyEvent \/ KeyboardDone
         \/ NoIntr \/ OutIde
  PROVE  IInv'
  <1>0. Cpu \in Threads /\ Cpu \notin Async
    BY ThreadsAssumption DEF Threads
  <1> USE DEF IInv
  <1>1. UNCHANGED cpu
    BY DEF Plain, SkipHalted, TimerTick, TimerQuiet, KeyEvent, KeyboardDone,
           NoIntr, OutIde
  <1>2. FrameInv'
    BY <1>1 DEF FrameInv, cpu
  <1>3. CASE UNCHANGED pic
    <2>1. UNCHANGED <<query, entry>> /\ phase' \in Phases
      BY <1>3 DEF Plain, SkipHalted, TimerTick, TimerQuiet, KeyEvent, KeyboardDone,
                NoIntr, OutIde, Instruction, Phases, TypeOK
    <2>2. TypeOK'
      BY <1>1, <1>3, <2>1 DEF TypeOK, pic, cpu
    <2>3. ControllerInv'
      BY <1>3 DEF ControllerInv, pic
    <2>4. phase' # "ack" /\ (phase' = "intr" => stage[Cpu] = "idle")
      BY <1>0, <1>3 DEF Plain, SkipHalted, TimerTick, TimerQuiet, KeyEvent,
                KeyboardDone, NoIntr, OutIde, Instruction, StartRaise, pic
    <2>5. LoopInv'
      BY <1>1, <1>3, <2>4 DEF LoopInv, AckTakesQueried, pic, cpu
    <2> QED
      BY <1>2, <2>2, <2>3, <2>5
  <1>4. CASE \E irq \in DeviceLines : StartRaise(Cpu, irq)
    <2>1. PICK irq \in DeviceLines : StartRaise(Cpu, irq)
      BY <1>4
    <2>2. /\ UNCHANGED <<query, entry>>
          /\ phase' \in {"timer", "keyboard"}
      BY <1>0, <2>1 DEF Plain, SkipHalted, TimerTick, TimerQuiet, KeyEvent, KeyboardDone,
             NoIntr, OutIde, Instruction, StartRaise, pic, TypeOK
    <2>3. TypeOK'
      BY <1>0, <1>1, <2>1, <2>2 DEF TypeOK, StartRaise, cpu, Phases, Stages, DeviceLines
    <2>4. ControllerInv'
      BY <1>0, <2>1 DEF ControllerInv, StartRaise, TypeOK
    <2>5. LoopInv'
      BY <1>1, <2>2 DEF LoopInv, AckTakesQueried, cpu
    <2> QED
      BY <1>2, <2>3, <2>4, <2>5
  <1> QED
    BY <1>3, <1>4 DEF Plain, SkipHalted, TimerTick, TimerQuiet, KeyEvent,
         KeyboardDone, NoIntr, OutIde, DeviceLines

\* Instructions that change IF or the halt flag, and nothing of the controller.
LEMMA FlagStepInv ==
  ASSUME IInv, Hlt \/ Cli \/ Sti
  PROVE  IInv'
  <1> USE DEF IInv
  <1>1. /\ UNCHANGED <<pic, frames, query, entry>>
        /\ phase' = "timer" /\ ~halted
        /\ IFlag' \in BOOLEAN /\ halted' \in BOOLEAN
        /\ halted' => IFlag'
    <2>1. CASE Hlt
      BY <2>1 DEF Hlt, Instruction, Executing, TypeOK
    <2>2. CASE Cli
      BY <2>2 DEF Cli, Instruction, Executing, TypeOK
    <2>3. CASE Sti
      BY <2>3 DEF Sti, Instruction, Executing, TypeOK
    <2> QED
      BY <2>1, <2>2, <2>3
  <1>2. TypeOK' /\ ControllerInv' /\ LoopInv'
    BY <1>1 DEF TypeOK, ControllerInv, LoopInv, AckTakesQueried, pic, Phases
  <1>3. FrameInv'
    <2>1. CASE Hlt \/ Cli
      BY <2>1, <1>1 DEF FrameInv, Hlt, Cli
    <2>2. CASE Sti
      <3>1. \A j \in DOMAIN frames : frames[j].kind # "irq"
        <4>1. CASE Context = "main"
          <5>1. frames # << >> => frames[Len(frames)] \in Frames
            BY DEF TypeOK
          <5>2. frames = << >>
            BY <4>1, <5>1 DEF Context, Frames
          <5> QED
            BY <5>2
        <4>2. CASE Context = "trap" /\ SavedIF
          <5>1. /\ frames # << >> /\ frames \in Seq(Frames)
                /\ frames[Len(frames)].kind = "trap" /\ frames[Len(frames)].iflag
            BY <4>2 DEF Context, SavedIF, TypeOK
          <5>2. Len(frames) \in DOMAIN frames /\ Len(frames) \in Nat
            BY <5>1
          <5>3. \A j \in DOMAIN frames : j < Len(frames) \/ j = Len(frames)
            BY <5>1
          <5> QED
            BY <5>1, <5>2, <5>3 DEF FrameInv
        <4> QED
          BY <2>2, <4>1, <4>2 DEF Sti
      <3> QED
        BY <3>1, <1>1 DEF FrameInv
    <2> QED
      BY <2>1, <2>2
  <1> QED
    BY <1>2, <1>3

\* int $0x80 pushes a frame over a main program or a handler.
LEMMA Int80Inv ==
  ASSUME IInv, Int80
  PROVE  IInv'
  <1> USE DEF IInv
  <1> DEFINE new == [kind |-> "trap", iflag |-> IFlag]
  <1>0. new \in Frames /\ frames \in Seq(Frames)
    BY DEF TypeOK, Frames
  <1>1. /\ UNCHANGED <<pic, query, entry, IFlag, halted>>
        /\ phase' = "timer" /\ frames' = Append(frames, new)
    BY DEF Int80, Instruction
  <1>2. TypeOK'
    BY <1>0, <1>1 DEF TypeOK, pic, Phases
  <1>3. ControllerInv' /\ LoopInv'
    BY <1>1 DEF ControllerInv, LoopInv, AckTakesQueried, pic
  <1>4. FrameInv'
    <2>1. /\ Len(frames') = Len(frames) + 1
          /\ \A k \in DOMAIN frames : frames'[k] = frames[k]
          /\ frames'[Len(frames) + 1] = new
          /\ DOMAIN frames' = DOMAIN frames \cup {Len(frames) + 1}
      BY <1>0, <1>1
    <2>2. frames # << >> => frames[Len(frames)].kind = "irq"
      <3>1. frames # << >> => frames[Len(frames)] \in Frames
        BY <1>0
      <3> QED
        BY <3>1 DEF Int80, Context, Frames
    <2>3. Len(frames) <= 2
      <3>0. Len(frames) \in Nat /\ Len(frames) <= 3
        BY <1>0 DEF FrameInv
      <3>1. SUFFICES ASSUME Len(frames) = 3 PROVE FALSE
        BY <3>0
      <3>2. 1 \in DOMAIN frames /\ 2 \in DOMAIN frames /\ 3 \in DOMAIN frames
        BY <1>0, <3>1
      <3>3. frames[1] \in Frames /\ frames[2] \in Frames /\ frames[3] \in Frames
        BY <1>0, <3>2
      <3>4. frames[3].kind = "irq" /\ frames # << >>
        BY <2>2, <3>1, <3>2
      <3>5. frames[3].kind # frames[2].kind /\ frames[2].kind # frames[1].kind
        BY <3>2 DEF FrameInv
      <3>6. frames[1].kind = "irq"
        BY <3>3, <3>4, <3>5 DEF Frames
      <3> QED
        BY <3>2, <3>4, <3>6 DEF FrameInv
    <2>4. \A k \in DOMAIN frames' : k > 1 => frames'[k].kind # frames'[k-1].kind
      BY <1>0, <2>1, <2>2 DEF FrameInv
    <2>5. ASSUME NEW j \in DOMAIN frames', NEW k \in DOMAIN frames',
                 frames'[j].kind = "irq"
          PROVE  /\ ~IFlag'
                 /\ frames'[j].iflag
                 /\ frames'[k].kind = "irq" => j = k
                 /\ k > j => ~frames'[k].iflag
      <3>1. j \in DOMAIN frames /\ frames[j].kind = "irq"
        BY <2>1, <2>5
      <3>2. ~IFlag /\ frames[j].iflag
        BY <3>1 DEF FrameInv
      <3>3. CASE k \in DOMAIN frames
        BY <1>1, <2>1, <3>1, <3>2, <3>3 DEF FrameInv
      <3>4. CASE k = Len(frames) + 1
        BY <1>1, <2>1, <3>1, <3>2, <3>4
      <3> QED
        BY <2>1, <3>3, <3>4
    <2> QED
      BY <1>0, <2>1, <2>3, <2>4, <2>5 DEF FrameInv
  <1> QED
    BY <1>2, <1>3, <1>4

\* iret pops the innermost frame.
LEMMA IretInv ==
  ASSUME IInv, NEW kind \in {"irq", "trap"}, Iret(kind)
  PROVE  IInv'
  <1> USE DEF IInv
  <1>0. frames \in Seq(Frames) /\ frames # << >> /\ Len(frames) \in DOMAIN frames
        /\ frames[Len(frames)] \in Frames /\ frames[Len(frames)].kind = kind
    <2>1. frames \in Seq(Frames) /\ frames # << >>
      BY DEF Iret, Context, TypeOK
    <2> QED
      BY <2>1 DEF Iret, Context
  <1>1. /\ UNCHANGED <<pic, query, entry, halted>>
        /\ phase' = "timer" /\ ~halted /\ IFlag' = frames[Len(frames)].iflag
        /\ frames' = SubSeq(frames, 1, Len(frames) - 1)
        /\ kind = "trap" => IFlag' = IFlag
    BY DEF Iret, Instruction, Executing, SavedIF
  <1>2. /\ frames' \in Seq(Frames) /\ Len(frames') = Len(frames) - 1
        /\ \A k \in DOMAIN frames' :
             /\ k \in DOMAIN frames /\ k < Len(frames) /\ frames'[k] = frames[k]
             /\ k > 1 => k-1 \in DOMAIN frames'
    <2> DEFINE n == Len(frames) - 1
    <2>1. n \in Nat /\ \A k \in 1..n : frames[k] \in Frames
      BY <1>0
    <2>2. /\ frames' \in Seq(Frames)
          /\ Len(frames') = IF 1 <= n THEN n - 1 + 1 ELSE 0
          /\ \A k \in 1 .. n - 1 + 1 : frames'[k] = frames[1 + k - 1]
      BY <1>1, <2>1, SubSeqProperties
    <2> HIDE DEF n
    <2>3. /\ Len(frames') = n
          /\ \A k \in 1..n : 1 + k - 1 = k /\ k \in 1 .. n - 1 + 1
      BY <2>1, <2>2
    <2>4. \A k \in 1..n : frames'[k] = frames[k]
      BY <2>2, <2>3
    <2> QED
      BY <1>0, <2>1, <2>2, <2>3, <2>4 DEF n
  <1>3. TypeOK'
    BY <1>0, <1>1, <1>2 DEF TypeOK, pic, Phases, Frames
  <1>4. ControllerInv' /\ LoopInv'
    BY <1>1 DEF ControllerInv, LoopInv, AckTakesQueried, pic
  <1>5. FrameInv'
    <2>1. Len(frames') <= 3
      BY <1>0, <1>2 DEF FrameInv
    <2>2. \A k \in DOMAIN frames' : k > 1 => frames'[k].kind # frames'[k-1].kind
      BY <1>2 DEF FrameInv
    <2>3. ASSUME NEW j \in DOMAIN frames', frames'[j].kind = "irq"
          PROVE  ~IFlag'
      <3>1. j \in DOMAIN frames /\ frames[j].kind = "irq" /\ j < Len(frames)
        BY <1>2, <2>3
      <3>2. ~frames[Len(frames)].iflag
        BY <3>1, <1>0 DEF FrameInv
      <3> QED
        BY <1>1, <3>2
    <2>4. ASSUME NEW j \in DOMAIN frames', NEW k \in DOMAIN frames',
                 frames'[j].kind = "irq"
          PROVE  /\ frames'[j].iflag
                 /\ frames'[k].kind = "irq" => j = k
                 /\ k > j => ~frames'[k].iflag
      BY <1>2, <2>4 DEF FrameInv
    <2> QED
      BY <2>1, <2>2, <2>3, <2>4 DEF FrameInv
  <1> QED
    BY <1>3, <1>4, <1>5

\* do_intr: the query, and the acknowledgement with the entry of the handler.
LEMMA DoIntrInv ==
  ASSUME IInv, QueryIntr \/ AckAndRaise
  PROVE  IInv'
  <1> USE DEF IInv
  <1>0. frames \in Seq(Frames) /\ Cpu \in Threads
    BY DEF TypeOK, Threads
  <1>1. CASE QueryIntr
    <2>1. TypeOK'
      BY <1>1 DEF QueryIntr, TypeOK, pic, Phases
    <2>2. ControllerInv'
      BY <1>1 DEF QueryIntr, ControllerInv, pic
    <2>3. LoopInv'
      BY <1>1 DEF QueryIntr, LoopInv, AckTakesQueried, ControllerInv, pic
    <2>4. FrameInv'
      BY <1>1 DEF QueryIntr, FrameInv
    <2> QED
      BY <2>1, <2>2, <2>3, <2>4
  <1>2. CASE AckAndRaise
    <2> DEFINE new == [kind |-> "irq", iflag |-> IFlag]
    <2>1. new \in Frames /\ IFlag /\ ~halted
      BY <1>2 DEF AckAndRaise, TypeOK, Frames, LoopInv, AckTakesQueried
    <2>2. /\ Len(frames') = Len(frames) + 1
          /\ frames' \in Seq(Frames)
          /\ \A k \in DOMAIN frames : frames'[k] = frames[k]
          /\ frames'[Len(frames) + 1] = new
          /\ DOMAIN frames' = DOMAIN frames \cup {Len(frames) + 1}
      BY <1>0, <1>2, <2>1 DEF AckAndRaise
    <2>3. TypeOK'
      BY <1>2, <2>2 DEF AckAndRaise, TypeOK, Slots, Phases
    <2>4. ControllerInv'
      BY <1>2, FreeAssumption DEF AckAndRaise, ControllerInv
    <2>5. LoopInv'
      BY <1>2, <2>1 DEF AckAndRaise, LoopInv, AckTakesQueried
    <2>6. \A k \in DOMAIN frames : frames[k].kind = "trap"
      <3>1. \A k \in DOMAIN frames : frames[k] \in Frames
        BY <1>0
      <3> QED
        BY <3>1, <2>1 DEF FrameInv, Frames
    <2>7. Len(frames) <= 1
      <3>1. SUFFICES ASSUME Len(frames) > 1 PROVE FALSE
        BY <1>0
      <3>2. 1 \in DOMAIN frames /\ 2 \in DOMAIN frames
        BY <1>0, <3>1
      <3> QED
        BY <2>6, <3>2 DEF FrameInv
    <2>8. FrameInv'
      <3>1. Len(frames') <= 3
        BY <1>0, <2>2, <2>7
      <3>2. \A k \in DOMAIN frames' : k > 1 => frames'[k].kind # frames'[k-1].kind
        BY <1>0, <2>2, <2>6, <2>7
      <3>3. ~IFlag'
        BY <1>2 DEF AckAndRaise
      <3>4. ASSUME NEW j \in DOMAIN frames', frames'[j].kind = "irq"
            PROVE  j = Len(frames) + 1 /\ frames'[j].iflag
        BY <2>1, <2>2, <2>6, <3>4
      <3>5. \A k \in DOMAIN frames' : ~(k > Len(frames) + 1)
        BY <1>0, <2>2
      <3> QED
        BY <3>1, <3>2, <3>3, <3>4, <3>5 DEF FrameInv
    <2> QED
      BY <2>3, <2>4, <2>5, <2>8
  <1> QED
    BY <1>1, <1>2

LEMMA StepInv == IInv /\ [Next]_vars => IInv'
  <1> SUFFICES ASSUME IInv, [Next]_vars PROVE IInv'
    OBVIOUS
  <1>1. CASE CpuStep
    BY <1>1, LoopStepInv, FlagStepInv, Int80Inv, IretInv, DoIntrInv DEF CpuStep
  <1>2. CASE \E t \in Threads : RaiseStep(t)
    BY <1>2, RaiseStepInv
  <1>3. CASE \E t \in Async : AsyncRaise(t)
    BY <1>3, AsyncRaiseInv
  <1>4. CASE UNCHANGED vars
    <2>1. TypeOK' /\ ControllerInv'
      BY <1>4 DEF vars, IInv, TypeOK, ControllerInv
    <2>2. LoopInv' /\ FrameInv'
      BY <1>4 DEF vars, IInv, LoopInv, AckTakesQueried, FrameInv
    <2> QED
      BY <2>1, <2>2 DEF IInv
  <1> QED
    BY <1>1, <1>2, <1>3, <1>4 DEF Next

\* The inductive invariant holds for every set of asynchronous threads.
THEOREM Invariance == Spec => []IInv
  BY InitInv, StepInv, PTL DEF Spec

\* Every variable keeps its type; in particular the slot always holds NO_INTR
\* or the vector of a line.
THEOREM TypeCorrect == Spec => []TypeOK
  <1>1. IInv => TypeOK
    BY DEF IInv
  <1> QED
    BY <1>1, Invariance, PTL

\* The assertion of do_intr never fails, although cpu.intr and the slot are
\* read without the mutex, whatever threads raise interrupts.
THEOREM AssertionHolds == Spec => []QueryFindsVector
  <1>1. IInv => QueryFindsVector
    BY DEF IInv, ControllerInv, LoopInv, QueryFindsVector
  <1> QED
    BY <1>1, Invariance, PTL

\* Handlers are never interrupted and the frames are at most three.
THEOREM NoNesting == Spec => []HandlersDoNotNest
  <1>1. IInv => HandlersDoNotNest
    <2> SUFFICES ASSUME IInv PROVE HandlersDoNotNest
      OBVIOUS
    <2>1. \A k \in DOMAIN frames : frames[k] \in Frames
      BY DEF IInv, TypeOK
    <2> QED
      BY <2>1 DEF IInv, FrameInv, HandlersDoNotNest, Frames
  <1> QED
    BY <1>1, Invariance, PTL

\* A halted CPU has IF set and is not inside a handler, so do_intr can wake it.
THEOREM CanWake == Spec => []HaltedCanWake
  <1>1. IInv => HaltedCanWake
    <2> SUFFICES ASSUME IInv, halted PROVE IFlag /\ Context # "irq"
      BY DEF HaltedCanWake
    <2>1. IFlag
      BY DEF IInv, LoopInv
    <2>2. frames # << >> => Len(frames) \in DOMAIN frames
      BY DEF IInv, TypeOK
    <2>3. Context # "irq"
      BY <2>1, <2>2 DEF IInv, FrameInv, Context
    <2> QED
      BY <2>1, <2>3
  <1> QED
    BY <1>1, Invariance, PTL

\* The acknowledgement clears exactly the request that was queried, or in its
\* place the audio thread's.
THEOREM AckExact == Spec => []AckTakesQueried
  <1>1. IInv => AckTakesQueried
    BY DEF IInv, LoopInv
  <1> QED
    BY <1>1, Invariance, PTL

\* A step that takes the disk's vector out of the slot is the delivery of the
\* disk's interrupt, in every build.
THEOREM DiskKept == Spec => DiskRequestKept
  <1> DEFINE Kept == slot = Vector(Ide) /\ slot' # slot
                       => entry' = Vector(Ide) /\ slot' = NO_INTR
  <1>1. IInv /\ [Next]_vars => [Kept]_vars
    <2> SUFFICES ASSUME IInv, [Next]_vars, slot = Vector(Ide), slot' # slot
                 PROVE  entry' = Vector(Ide) /\ slot' = NO_INTR
      OBVIOUS
    <2>1. CASE AckAndRaise
      <3>1. Vector(Audio) # Vector(Ide)
        BY LinesAssumption DEF Vector, IRQ_BASE, IrqLines
      <3> QED
        BY <2>1, <3>1 DEF AckAndRaise, IInv, LoopInv, AckTakesQueried
    <2>2. ASSUME NEW t \in Threads, StoreSlot(t) PROVE FALSE
      <3>1. line[t] \in DeviceLines
        BY DEF IInv, TypeOK, DeviceLines
      <3> QED
        BY <2>2, <3>1, LatchDisk DEF StoreSlot
    <2>3. CASE UNCHANGED slot
      BY <2>3
    <2>4. CpuStep => AckAndRaise \/ UNCHANGED slot
      BY DEF CpuStep, Plain, Hlt, Cli, Sti, Int80, Iret, OutIde, SkipHalted, TimerTick,
             TimerQuiet, KeyEvent, KeyboardDone, NoIntr, QueryIntr, StartRaise, pic
    <2>5. \A t \in Threads : RaiseStep(t) => StoreSlot(t) \/ UNCHANGED slot
      BY DEF RaiseStep, LockPic, StorePin
    <2>6. \A t \in Async : AsyncRaise(t) => UNCHANGED slot
      BY DEF AsyncRaise, StartRaise
    <2> QED
      BY <2>1, <2>2, <2>3, <2>4, <2>5, <2>6 DEF Next, vars
  <1> QED
    BY <1>1, Invariance, PTL DEF Spec, DiskRequestKept

\* The controller, its mutex and the loop of exec() implement the mailbox of
\* IrqMailbox: a raise is a Raise when its store of the slot changes it, the
\* acknowledgement is the Take.  Without other threads no line is late.
THEOREM Refinement == Spec => ImplementsMailbox
  <1>1. Init => Mailbox!Init
    BY DEF Init, Mailbox!Init, LineOf, NO_INTR, Mailbox!Nothing
  <1>2. IInv /\ [Next]_vars => [Mailbox!Next]_<<LineOf(slot), LineOf(entry)>>
    <2> SUFFICES ASSUME IInv, [Next]_vars
                 PROVE  \/ Mailbox!Next
                        \/ UNCHANGED <<LineOf(slot), LineOf(entry)>>
      OBVIOUS
    <2>1. CASE AckAndRaise
      <3>1. /\ slot # NO_INTR /\ slot \in Slots /\ query # NO_INTR /\ query \in Slots
            /\ slot' = NO_INTR /\ entry' = query
            /\ AckTakesQueried /\ phase = "ack"
        BY <2>1 DEF AckAndRaise, IInv, LoopInv, AckTakesQueried, TypeOK
      <3>2. LineOf(slot) # Mailbox!Nothing /\ LineOf(slot') = Mailbox!Nothing
        BY <3>1 DEF LineOf, NO_INTR, IRQ_BASE, Mailbox!Nothing, Slots, Vector, IrqLines
      <3>3. CASE slot = query
        BY <3>1, <3>2, <3>3 DEF Mailbox!Take, Mailbox!Next
      <3>4. CASE Async # {} /\ slot = Vector(Audio) /\ query < slot
        <4>1. LineOf(slot) = Audio
          BY <3>1, <3>4, LinesAssumption DEF LineOf, NO_INTR, IRQ_BASE, Vector, IrqLines
        <4>2. LineOf(entry') \in 0 .. Audio - 1
          BY <3>1, <3>4, LinesAssumption DEF LineOf, NO_INTR, IRQ_BASE, Vector, IrqLines, Slots
        <4>3. Audio \in IF Async = {} THEN {} ELSE {Audio}
          BY <3>4
        <4> QED
          BY <3>2, <4>1, <4>2, <4>3 DEF Mailbox!Take, Mailbox!Next
      <3> QED
        BY <3>1, <3>3, <3>4 DEF AckTakesQueried
    <2>2. ASSUME NEW t \in Threads, StoreSlot(t), slot' # slot PROVE Mailbox!Next
      <3>1. line[t] \in DeviceLines /\ line[t] \in IrqLines /\ slot \in Slots
        BY LinesAssumption DEF IInv, TypeOK, DeviceLines
      <3>2. /\ slot' = Vector(line[t])
            /\ slot = NO_INTR \/ line[t] > slot - IRQ_BASE
            /\ entry' = entry
        BY <2>2 DEF StoreSlot, Latch
      <3>3. LineOf(slot) < line[t]
        BY <3>1, <3>2 DEF LineOf, NO_INTR, IrqLines
      <3>4. LineOf(slot') = line[t]
        BY <3>1, <3>2 DEF LineOf, NO_INTR, IRQ_BASE, Vector, IrqLines
      <3>5. Mailbox!Raise(line[t])
        BY <3>2, <3>3, <3>4 DEF Mailbox!Raise
      <3> QED
        BY <3>1, <3>5 DEF Mailbox!Next, DeviceLines
    <2>3. CASE UNCHANGED <<slot, entry>>
      BY <2>3
    <2>4. CpuStep => AckAndRaise \/ UNCHANGED <<slot, entry>>
      BY DEF CpuStep, Plain, Hlt, Cli, Sti, Int80, Iret, OutIde, SkipHalted, TimerTick,
             TimerQuiet, KeyEvent, KeyboardDone, NoIntr, QueryIntr, Instruction,
             StartRaise, pic
    <2>5. \A t \in Threads : RaiseStep(t) =>
            \/ StoreSlot(t) /\ slot' # slot
            \/ UNCHANGED <<slot, entry>>
      BY DEF RaiseStep, LockPic, StorePin, StoreSlot
    <2>6. \A t \in Async : AsyncRaise(t) => UNCHANGED <<slot, entry>>
      BY DEF AsyncRaise, StartRaise
    <2> QED
      BY <2>1, <2>2, <2>3, <2>4, <2>5, <2>6 DEF Next, vars
  <1> QED
    BY <1>1, <1>2, Invariance, PTL DEF Spec, ImplementsMailbox, Mailbox!Spec

===============================================================================
