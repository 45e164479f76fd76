# A verification project for NEMU, its kernel and its games

NEMU is an i386 emulator written for a course: a CPU with segmentation and
paging, a handful of devices, a monitor with breakpoints, a small kernel that
runs on it, and games that run on the kernel. This directory holds TLA+ modules
that model its parts, TLC configurations that check them on small instances,
and proofs that TLAPS checks for every value of the constants.

The first two sections are the inventory, the next two the modules and the
runs, then come the disagreements that were met, the proofs, what is left out,
and the plan.

## 1. The system

| Part | Code | State | Operations |
|---|---|---|---|
| interrupt controller | `nemu/src/device/i8259_pic.c` | one slot `i8259_intr_no`, the pin `cpu.intr`, a mutex | raise, query, acknowledge |
| emulator loop | `nemu/src/cpu/cpu.c` | `nemu_state`, `is_nemu_hlt`, `hit_break_rerun`, `n` | `exec`, `do_intr` |
| interrupt entry and exit | `nemu/src/cpu/intr.c`, `instr/{int_,iret,hlt,cli,sti}.c` | `eflags.IF`, frames on the guest's stack | `raise_intr`, `int`, `iret`, `hlt`, `cli`, `sti` |
| device polling | `nemu/src/device/sdl.c`, `dev/timer.c`, `dev/keyboard.c` | last times, `scan_code_buf` | `do_timer`, `do_keyboard` |
| monitor | `nemu/src/monitor/{breakpoint,ui,expr,elf}.c` | record pool with two lists, INT3 bytes in the guest's text | `b`, `w`, `d`, `c`, `si`, `p`, `x`, `info` |
| disk | `nemu/src/device/dev/ide.c` | registers, `byte_cnt`, `ide_write`, file position | `handler_ide` |
| disk driver | `kernel/src/driver/ide/` | 128 cache lines, `has_ide_intr`, `counter` | `ide_read`, `ide_write`, `ide_writeback`, `ide_intr` |
| kernel interrupts, system calls | `kernel/src/irq/`, `syscall/` | pool and lists of handlers | `irq_handle`, `add_irq_handle`, `do_syscall` |
| kernel memory, loader, files | `kernel/src/{memory,elf,fs}/`, `main.c` | page directories, `brk`, free frames | `init_page`, `init_mm`, `mm_brk`, `loader`, `fs_write` |
| memory | `nemu/src/memory/`, `device/io/mm_io.c`, `dev/vga.c` | physical memory, video memory, dirty lines, `cr0`, `cr3` | `vaddr_read`, `vaddr_write`, `page_translate`, `update_screen` |
| cache and TLB | `nemu/src/memory/mmu/{cache,tlb}.c` | lines, entries; off in `include/config.h` | read, write, fill |
| arithmetic | `nemu/src/cpu/{alu,fpu}.c` | `eflags`, the ring of x87 registers | `alu_*`, `internal_float_*` |
| instructions | `nemu/src/cpu/decode/`, `instr/` | registers, `eip`, memory | one function per opcode |
| audio | `nemu/src/device/dev/audio.c` | two chunks with mutexes, play and fill index | port handler, callback, monitor thread, copy workers; off by default |
| credits game | `game/src/credits/` | `audio_reload`, the file | main loop, `audio_event` |
| typing game | `game/src/typing/` | `tick`, the letters in a linked list, a flag per key | main loop, `timer_event`, `keyboard_event` |
| list pool | `game/include/adt/linklist.h` | nodes, `free_head` | new, insert, remove, free |

How they interact. `exec` is one loop in one host thread: an instruction, the
monitor's checks, the devices, the pending interrupt. A device raises its line
at the controller; the audio device has threads of its own that do so at any
time. `do_intr` takes the vector and enters the guest's gate; the kernel calls
the handlers registered for the line, `iret` goes back. The main program of a
game, the handlers it registered, the driver and its handlers share the guest's
memory and are kept apart only by `cli` and `sti`. The disk raises its
interrupt in the instruction that gives the command. The monitor writes INT3
into the same memory. The kernel builds the page directories that the
emulator's translation reads at the next access.

What makes it hard: two interrupts that meet in one slot; unlocked reads; `hlt`
between the test of a flag and its interrupt; a timer handler that starts disk
commands; flags that live across commands of the monitor (`NEMU_BREAK`,
`hit_break_rerun`); a list walked while its nodes are freed; a function that
returns with interrupts off; mutexes found through an index another thread
changes; a TLB nobody flushes; carries, denormal numbers and bytes on both sides
of a page boundary. `PROJECT.json` lists these hazards with their lines and the
properties that cover them.

## 2. What has to be right, per component

- *Controller and loop*: the unlocked query finds a vector; what is acknowledged
  is what was queried; the highest line wins and is delivered; handlers do not
  nest; a halted CPU wakes up; every latched request is served.
- *Monitor*: records are neither lost nor shared; the guest's bytes survive; a
  breakpoint stops the guest each time before its instruction, once.
- *Disk and driver*: a read returns the file's word, a write puts each word in
  its place, the disk's assertions hold, every request ends.
- *Typing game*: the list stays a list, the pool suffices, the loop never sleeps
  deaf, no tick and no key is forgotten, and it is the game it should be.
- *Memory*: the program's addresses have frames of their own, translations are
  never stale, what is written is read back, the screen shows what was drawn.
- *Audio*: blocks are heard in order, complete, each once, and in the end; each
  chunk is held by whoever works on it.
- *Arithmetic and instructions*: results, flags, stack and registers are those of
  the i386; conditions mean what they say of the numbers compared.

## 3. The modules

| Module | What it is | Code |
|---|---|---|
| `I8259` | the value the slot holds after a raise | `i8259_pic.c` |
| `IrqMailbox` | abstract: a mailbox that keeps the highest line | |
| `Interrupts` | threads, controller, loop, gates; EXTENDS `I8259`, implements `IrqMailbox` | `i8259_pic.c`, `cpu.c`, `intr.c`, `sdl.c` |
| `Debugger` | abstract: a program that stops before breakpoints | |
| `Breakpoints` | pool, lists, INT3 bytes, commands, loop; implements `Debugger` | `breakpoint.c`, `ui.c`, `cpu.c` |
| `IdeDisk` | cache, driver, handlers, disk | `kernel/src/driver/ide/`, `dev/ide.c` |
| `LinkList` | the pool and the list as operators on links | `linklist.h` |
| `TypingRules` | abstract: the game as the player sees it | |
| `TypingGame` | main loop, handlers, devices; EXTENDS `I8259` and `LinkList`, implements `TypingRules` | `game/src/typing/`, `dev/keyboard.c` |
| `FlatMemory` | abstract: a byte per usable address | |
| `Memory` | accesses, translation, TLB, video memory, boot, loader, break; implements `FlatMemory` | `nemu/src/memory/`, `mm_io.c`, `vga.c`, `kernel/src/memory/`, `elf.c` |
| `AudioStream` | abstract: blocks heard in order | |
| `Audio` | port handler, callback, monitor, workers, the game that feeds them; implements `AudioStream` | `dev/audio.c`, `credits.c` |
| `Words` | bits and signed numbers | |
| `Alu`, `Fpu` | the functions of the arithmetic units; EXTEND `Words` | `alu.c`, `fpu.c` |
| `Isa` | abstract: the i386 on integers, a stack and exact floats | |
| `Cpu` | operands, instructions, flags, stack, strings, x87; EXTENDS `Alu` and `Fpu`, implements `Isa` | `decode/`, `instr/`, `x87.c` |
| `InterruptsProofs`, `BreakpointsProofs`, `IdeDiskProofs`, `TypingGameProofs`, `MemoryProofs`, `AudioProofs`, `AluProofs`, `CpuProofs` | theorems; `CpuProofs` EXTENDS `AluProofs` | |
| `MC*` | values of constants for TLC | |

`PROJECT.json` maps every definition to its lines. A definition whose name ends
in `_Something` after a modelled name (`StorePin_NoPin`) is a mutant: a
plausible bug that the property named in `PROJECT.json` must catch; no
specification uses it.

**Interrupts.** A raise is three steps (lock, slot, pin), because slot and pin
are written under the mutex and read without it; the acknowledgement and the
entry of the gate are one step, as nothing but the mutex is shared there.
`phase` is the place in `exec`'s loop, `frames` what the guest's stack holds of
interrupted contexts. The guest's instructions are those that matter to
delivery, with guards for how kernel and games use them: `hlt` only with
interrupts on, `sti` only to close a critical section, a system call from the
main program or from a handler, as `testcase/src/echo.c` does. `Async` is the
set of other threads that raise: empty in the default build, the audio monitor
when `HAS_DEVICE_AUDIO` is defined. Spurious returns of `SDL_LockMutex` with an
error are left out. `IrqMailbox` has a constant `Late`: the audio line, when
there is a thread for it, may be thrown away by the acknowledgement of another.

**Breakpoints.** `bp`, `head`, `free_` are the records and the two lists; `mem`
is the byte at each address, `text` the byte the guest put there. One address
stands for the first byte of an instruction. `exec`'s loop is two steps per
iteration, so that the monitor's checks and the interrupt are separate.
`Careful` is what the user is asked to do, not something the code checks: one
breakpoint per address, in code that is loaded, not on a `BREAK_POINT` of the
program. Without it `TextIntact` fails: the second record of an address
remembers INT3 as the original byte (`breakpoint.c:57`), and the loader
overwrites an early INT3 (`breakpoint.c:58`).

**IdeDisk.** Two contexts, the main program and the handler that interrupts it,
with a program counter each (`pc`) and a transfer each (`io`); each register
access is a step. A word is the place it belongs to, so that a property can ask
whether it is the right one. `Slow` lets the disk's interrupt come some
instructions late, also between the test of `has_ide_intr` and the `hlt`.
`Polite` restricts the writeback of the timer handler to moments when the main
program is not in a transfer or no line is dirty. The code does not ensure it
(section 5), but as long as nothing calls `ide_write` no line is ever dirty.

**TypingGame.** `list` is the pool with its links, walked and mended exactly as
`linklist.h` does; `fly` is the content of the nodes. Positions and speeds are
in half pixels, for a letter falls with 0.5: `(rand() % 1000) / 2000 + 0.5` is an
integer division (the comment of `effect.c:44` calls the speed random). `tick`,
`now` and `target` are kept as differences. `update_letter_pos` is one step: the
handlers touch nothing it uses. `Moved` is a turn of its loop and `Walked` all of
them. `PoolAssumption` says that letters leave the screen before they are `SIZE`: a
letter falls `Bottom` half pixels, one per tick, and one that is struck at the
bottom needs `Bottom / Up` ticks more, while a new one comes every `CreateEvery`
ticks. In the code 384 * 7 = 2688 is far below 6 * 33 * 1000; the run has 6 below 8. The key handler is two steps, because the code
in `scan_code_buf` may have changed between the request and the handler. Drawing
and the frame rate are left out.

**Memory.** A word is four bytes; `map` is what the directories and tables say,
not the bytes they are made of; the video memory is the part of `mem` at its
frames. An access is one step, as all accesses are calls of the emulator's
thread; with a TLB it is one step per choice of the entries that give way. The
boot is one action per function or loop body, in the order of `init`,
`init_cond` and `loader`. `mm_malloc`, which hands out frames, is only in a
prebuilt library; it is modelled by what its callers rely on: pages without a
frame get the next free ones. Segments start as the linker lays them out
(`ProgramAssumption`): above the first table and above the addresses of physical
memory. `MemoryAssumption` says besides that the video area is not empty and that
an access has one to four bytes. Segment registers are flat in everything that
runs.

**Audio.** Each lock, test and store of a thread is a step. A block is its
number; a chunk has three places because the workers copy even and odd bytes,
and the lane that starts at 2 leaves out the first. An interrupt handler with
its `iret` is one step, since handlers do not nest (`Interrupts`). The game's
file is taken to be readable: `fs_open` of the kernel panics, so that it only
works with a kernel that has files. `exec`'s early return on `NEMU_STOP` and the
rolling text are left out.

**Cpu.** A program is a sequence of decoded instructions, in the forms that
`opcode.c` has an entry for; operands are found, extended and written back as in
`operand.c`, and each operation is a call of `Alu` or `Fpu`. The widths are
constants, so that small words exercise the same carries: `FloatAssumption` asks for
an intermediate result with room for a product of two significands (in the code 64
bits for 2 * 23 + 2), `FloatIsLong` that a float has the bits of a long, and
`LoadsAssumption` that instructions have operands as the tables decode them
(`Decoded`: the destination is no immediate value, a narrow source is a byte, the
forms of multiplication, division and `cmov` have no bytes). `Isa` describes the
same programs by integers, a stack as a sequence of bytes, and exact products
and sums with one rounding.

## 4. The runs

| Run | Instance | What it shows |
|---|---|---|
| `Interrupts` | one other thread, lines 0, 1, 2, 14; 9370 states | the assertion of `do_intr`, no nesting, `hlt` ends, requests are served, the disk's request survives, the mailbox is implemented, with a thread that raises at any time |
| `Breakpoints_continue` | 4 instructions, 2 records, `c`, `b`, `d`; 1176 states | breakpoints are armed and the debugger is implemented, with interrupts, a loader that stores code late, a `BREAK_POINT` and a `nemu_trap` |
| `Breakpoints_commands` | 3 instructions, 3 records, watchpoints, `si` 1 and 2; 79 416 states | records and text stay whole over all commands, pool exhausted included |
| `IdeDisk_read` | 3 sectors of 2 words on 2 lines, writeback every 2 ticks, late interrupts; 7395 states | reads are right and end |
| `IdeDisk_write` | the same with writes, `Polite`; 38 185 states | the inductive invariant; the disk's assertions hold and words go where they belong |
| `TypingGame` | 2 nodes, 2 letters, 3 positions; 128 112 states | the game follows its rules, the list stays intact, the pool suffices, the loop sleeps listening, ticks are simulated, keys answered |
| `Memory` | pages of 8 bytes, tables of 4, 8 frames, 2 segments, with and without a TLB; 14 268 states | the address space is sound, the TLB coherent, no assertion fails, bss is zero, the screen follows, memory is flat |
| `Memory_cross` | as above, words with one or three bytes before a page boundary | violation of `ImplementsFlatMemory` (section 5) |
| `Audio` | 3 blocks of 2 parts; 399 723 states | mutexes and chunks fit together, blocks are heard in order and in the end |
| `Audio_torn` | 4 blocks | violation of `PlaysWholeBlocks` (section 5) |
| `Cpu` | bytes of 2 bits, floats of 1 + 3 + 4 bits; 399 966 states | everything keeps its width; every modelled instruction gives the i386's results, flags, registers and stack, on boundary values and in a program with nested calls; conditions mean what they say |
| `Cpu_fpu` | products with a denormal factor | violation of `ProductsRound` (section 5) |

Why the bounds are enough. *Interrupts*: behaviour depends only on the order of
lines, and all four exist; one other thread suffices to come between any two
steps of the loop. *IdeDisk*: two sectors share a cache line and a third does
not, a sector number needs both registers (`Radix` 2), and the file ends inside
the last sector. *Breakpoints*: three records make a list with a middle; one of
the breakpoints can be at the handler. *TypingGame*: both nodes of the pool are
on the screen at once, so that a walk frees the head while a node follows, and
the free list runs empty; `MaxDue` bounds how far the loop is behind before it
sleeps, and a tick that comes during `hlt` adds one; `Wrap` bounds the scores,
which nothing reads. *Memory*: two segments with partly filled pages, a break
that grows by less and by more than a page, words over the boundary of two heap
pages and over the end of a segment, one TLB entry, so that each access may
evict the last one's; `MaxStores` 1 is enough for a load to disagree with a
store, and the boot itself stores more. *Audio*: with two chunks the third block
is the first that waits for a chunk to be free. *Cpu*: 9 boundary values per
operand (0, 1, the signs, all ones) and 42 floats around every exponent boundary.

The `Memory` run uses accesses whose words cross a page with two bytes on each
side, and no store that crosses a line of the screen (section 5). The `Cpu` run
leaves out what section 5 lists as different from the i386.

Deadlock is checked in the runs of `Interrupts`, `IdeDisk`, `TypingGame`,
`Memory` and `Audio`, and not in those of `Breakpoints`, where the session ends
(`q`, `nemu_trap`, or the failed assertion of an exhausted pool), nor in those
of `Cpu`, where programs end.

Fairness. *Interrupts*: the emulator thread goes on; a thread inside a raise
goes on; the host's mutex is eventually given to a thread that keeps asking; the
clock advances, so that a poll eventually finds the interval over; the host's
event queue is finite; guest handlers, system calls and critical sections end.
*IdeDisk*: instructions are executed between two ticks, which are 10 ms apart;
the clock goes on; a raised request is delivered, which `Interrupts` shows.
*TypingGame*: as before, and the keyboard is polled once in a millisecond
(`do_keyboard`), so that a moment with interrupts on and an empty slot, in which
a tick is not displaced by a key, comes again and again. *Audio*: every thread of
the host goes on (WF); the timer fires again and again; the callback sleeps
between two looks at the other chunk (`audio.c:236`), so that the handler that
waits for its mutex, and the callback that waits for the other one, get it (SF).

## 5. Where code and documents disagree

Three runs show it:

- `Memory_cross`: `laddr_write` shifts the second part of a word that crosses a
  page by `32 - 8 * len1` (`memory.c:81`) where `8 * len1` is meant; the two agree
  only for two bytes on each side. `laddr_read` does it right (`memory.c:66`).
- `Audio_torn`: the copy workers get the address of the loop variable of their
  creator (`audio.c:128`), which goes on counting: a lane is copied twice or from
  index 2 on, and a block is played with bytes of an older one although it
  "should be already ready" (`audio.c:247`).
- `Cpu_fpu`: a product with a denormal factor may be twice what it should be
  (`fpu.c:306`, with line 55: `0x00000005 * 0x49123456` gives `0x005b60b6` instead
  of `0x002db05b`), where `fpu_test.c:157` asserts the host's product for all pairs
  of finite numbers.

Met on the way and not the subject of a run of their own:

- *Breakpoints*. When the INT3 is the last of `si`'s n instructions, or a watchpoint
  triggers in the same iteration (`cpu.c:101`), `exec` overwrites `NEMU_BREAK` with
  `NEMU_READY` (`cpu.c:120`); the next command does not call `resume_breakpoints`,
  and the breakpoint is listed but never hit again, which is not what
  `ch/ch_pa-2-1_instruction.md:157` promises. `Armed` is therefore checked and
  proved without `si` and watchpoints. A breakpoint and an interrupt in one
  iteration make the monitor report the breakpoint twice (`Debugger` allows it). A
  watchpoint that triggers on `nemu_trap` overwrites `NEMU_STOP`.
- *Expressions of the monitor*. An expression is split at the first of its weakest
  operators (`expr.c:289`), so that 8-4-2 is 8-(4-2); the first operator is taken
  before its parentheses are looked at (`expr.c:282`), so that (1+2)*3 is refused.
- *Controller*. It drops or overwrites requests where `ch/ch_pa-4-1-interrupt.md`
  describes a priority queue: a key event raised while the disk's request is latched
  is lost. With the audio monitor, a request it latches between the query and the
  acknowledgement (`cpu.c:150`, `152`) is cleared unseen; `AckTakesQueried` states
  exactly what can be lost.
- *Disk*. The writeback of the timer handler (`ide.c:42` of the kernel) uses the disk
  in the middle of a transfer, and `assert(!ide_write)` of the disk (`dev/ide.c:84`)
  fails; during a write it spins in `waitdisk` with interrupts off instead. Latent,
  as nothing calls `ide_write`. The disk opens its file for reading, so that every
  `fwrite` fails unnoticed.
- *Memory*. A store over the end of a line marks only the line of its first byte
  (`vga.c:40`). The bss is not cleared (`elf.c:47` is commented out) and zero only
  because its frames are fresh.
- *Instructions*. `push` of an immediate byte does not extend its sign (`push.c:17`;
  the lines that did are commented out): `push $-1` leaves `0x000000ff`, where
  `ch/ch_pa-2-1_instruction.md:620` asks for the extension. Nor do `or`, `xor` and
  `adc` of an immediate byte. `or`, `adc` and `sbb` in the group of opcode `0x81` take
  such a byte where a long follows (`opcode.c:76`). Arithmetic on bytes calls the
  unit with 32 bits, so that the signed conditions after `cmpb` and `testb` are
  wrong. Shifts by a count of zero change the flags, and `sar` by 0 of a negative
  number gives -1 (`alu.c:356`). `shr` by `cl` stands at index 6 of its group
  (`opcode.c:100`), the i386 has it at 5. `inc`, `dec` and `imul` set no flags. A
  quotient that does not fit is cut off, and division by zero fails an assertion
  instead of raising an exception (`alu.c:257`). `repe cmps` stops when the bytes are
  equal. No instruction sets DF. `lea` and near calls with an operand prefix use
  `cpu.eip` before it has advanced.
- *Floats*. A product or quotient that rounds up from the largest denormal number
  to the smallest normal one gives 0 (`fpu.c:95`; `0x00ffffff * 0.5`); a quotient may
  be one unit short, as `fpu_test.c:112` allows; `fucom` of a NaN says equal. Sums and
  differences are always right.

## 6. What is proved

All theorems are about `Spec`, the specification without fairness.

`InterruptsProofs`, for every set of other threads and all lines that the
assumptions of `Interrupts` allow (the disk's line is the highest):

- `Invariance`: `IInv` is inductive. `TypeOK` alone is not, nor is any of the
  properties: that the query finds a vector needs that a raised pin implies a
  filled slot, which between the two stores of a raise holds only because the
  mutex is held (`ControllerInv`), and that nothing empties the slot between
  test and query (`LoopInv`). That handlers do not nest needs that system calls
  restore what they found, frame by frame (`FrameInv`).
- `TypeCorrect`, `AssertionHolds`, `NoNesting`, `CanWake` follow from `IInv`;
  `DiskKept` is an action property from the same invariant: a lower line cannot
  displace the disk's vector, and the acknowledgement that clears it is the one
  that delivers it.
- `AckExact`: the acknowledgement clears what was queried, or the audio line that
  displaced it. `Refinement`: the mailbox is implemented, with `Late` empty when
  there are no other threads and the audio line otherwise.

`BreakpointsProofs`, for every size of pool and program. Lemmas on lists come
first (what cons, tail, removal and concatenation do to the elements of a list
and to its being free of repetitions); the smallest index that `SelectInSeq`
picks comes from the well-foundedness of `<`.

- `Invariance`, `TypeCorrect`, `Partition`: `PoolInv` says that neither list has a
  record twice, that they have none in common and all of them together; each
  command moves one record, and `scan_watchpoint` none.
- `Integrity`, when the user is `Careful`: `TextInv` adds that no address has two
  breakpoints and that none remembers an INT3 or unloaded code, which is what
  makes giving a byte back safe in any order.
- `AlwaysArmed` and `DebuggerImplemented`, when moreover `c` is the only command that
  runs the program and there are no watchpoints (`Plain`): `RunInv` says that only the
  breakpoint just hit can be missing from memory, and only as long as the flags
  will bring it back. The refinement has one lemma per action.

`IdeDiskProofs`, for every size of disk, sector, cache, register and writeback
interval, under `Writeback`: transfers are not interrupted by a writeback with
dirty lines (`Polite`), or nothing is written:

- `Invariance`: `IInv` is inductive. `CacheInv`: a used line holds its sector,
  except the one that is being filled, which has its old label. `IoInv`: line
  and sector of a transfer belong together. `DeviceInv`: registers, position and
  count of the disk are those of whichever context is in a transfer, which holds
  only if the other one is not. `FillInv`: the words read so far are the right
  ones. `ControlInv`: a handler that comes during a transfer only scans clean lines.
- `TypeCorrect`, `AssertionsHold`, `DiskInStep`, `ReadsCorrect`, `WritesCorrect`: one
  theorem per safety property of the runs.

`TypingGameProofs`, for all letters, sizes, speeds and intervals that satisfy
`PoolAssumption`:

- `Listening`: the loop never halts with interrupts off. `FlagInv` says where IF may
  be clear: between `cli` and `sti`, and in the key handler.
- `NeverAhead`: no more ticks are simulated than have come (`BacklogInv`), which
  `assert(now < tick)` needs.
- `Game`: `GameInv` is inductive. `PoolInv` says that the letters, in the order of
  `_next`, and the free chain hold every node once (`IsPool`); `ListIntact` alone
  is not inductive, for it says nothing of the pool before its first use. `NewIsPool`
  and `FreeIsPool` show what an insertion and a removal with the return of the node
  do to the two sequences; `WalkInv` is the invariant of the loop of
  `update_letter_pos`, with a case for a letter that stays (`WalkStays`) and one
  for a letter that leaves (`WalkLeaves`), and `WalkEnds` its end. `AgeInv` says how
  far a letter has come: the i-th newest has been on the screen for at least i - 1
  intervals, so that it is that far down, or that far up again from the bottom.
- `Intact`, `Suffices`, `Typed` follow: the list is never torn though nodes are freed
  while it is walked; New never meets the end of the chain; every letter is on the
  screen.
- `Refines`: each step of the game is one of `TypingRules` or changes nothing there.
  One lemma per kind of step: `QuietSteps`, `KeyboardSteps`, `StrikeSteps` (the search
  for the lowest letter finds the one the rules name), `CreateSteps`, `UpdateSteps`
  (the letters that stay are an increasing choice from those that were there, and
  those that leave are counted).

`Chain`, `Walked` and `Cardinality` are recursive functions. What is needed of them is
proved by induction over a set of natural numbers instead of a predicate
(`SetInduction`, from the well-foundedness of `<`), so that no operator parameter has
to be instantiated.

`MemoryProofs`, for all sizes of pages, tables, physical memory, screen and TLB,
and every program that `ProgramAssumption` allows:

- `SpaceSound`: the address space. `MapInv` says what each directory has in which
  phase of the boot, `OwnInv` that a page of the program lies above physical memory
  and is given a frame once, `ProgramInv` which part of the program has frames,
  among it the byte that the loader's break is short of.
- `Coherence`: entries are `Settled`: a page of physical memory is its own frame,
  any other page is as the directory has it. It survives the change of `cr3`
  because both directories agree on the kernel's and the screen's pages, and
  `mm_malloc` because it only adds pages. It needs that programs begin at
  0x08048000, above the 128 MB of physical memory: with 256 MB the kernel's
  identity mapping would leave entries that are wrong for the program.

Its second part, from the same assumptions, is about the bytes:

- `BssIsZero`: `LayoutInv` says that while the loader runs only segments have
  frames, so that all pages of a segment are new when it is loaded and its frames
  follow each other: `SegPaddr` then reaches every byte of it. `ZeroInv` says that
  frames not handed out yet are zero and that the bytes past the file's stay so,
  which needs that the stores of the kernel go to the screen, or to a byte of the
  file in a frame no other segment has.
- `TypeCorrect`: the types, of what is read and stored as well.

Its third part follows an access to its bytes. Its theorems have hypotheses,
which name where the code is right: `OfWords` (pages and lines consist of words),
`EvenSplits` (lengths are 1, 2 or 4, and an access that crosses a page has two bytes
on each side) and `InLines` (no access crosses the end of a line of the screen).
The run `Memory_cross` and section 5 show what happens to the others. The values
of the run `Memory` satisfy all three.

- `NoAbort`: `TestInv` says that the words of the first video test are there until
  the second, through all that the loader stores; that the kernel's code always has
  a frame; and that what the program may use can be translated.
- `ScreenIsRight`: a byte of the screen keeps its value or its line is marked
  (`Shows`), in every step but the refresh.
- `FlatImplemented`: `Memory` implements `FlatMemory`. The byte of the address `q` is
  at `At(q)`: `PartsInPlace` shows that both parts of an access are there,
  `Injective` that no two addresses of the program share a place, `StoredBytes` and
  `LoadedBytes` what an access does to each byte, `FlatBreak` that a new break moves
  none.

`AudioProofs`, for any number of blocks of any length:

- `Ownership`: handler and callback hold the mutex they think they hold. The
  argument (`RequestInv`) is that a request for a block is in one place at a time
  (flag of the monitor, raise, slot, flag of the game, the write itself), that the
  chunk to fill is not ready while it is under way, and that the callback swaps
  the chunks only when it is ready: so the index does not change under the handler.
- `StreamImplemented`: the chunks implement `AudioStream`. `StreamInv` relates the
  blocks in the two chunks to what was written and heard, `DataInv` types them;
  `TypeCorrect` adds the bounds by the file's length.

`AluProofs`, for a byte of any width and operands of any size from a byte to a long:

- `Adds`, `Subtracts`, `AddsCarry`, `SubtractsBorrow`: result and flags of the four
  functions are those of integers. `alu.c` finds the carry by comparing the result
  with an operand, both extended with their signs to 32 bits: `RaisedOrder` shows
  that the extension keeps the order of the low n bits, and `OverflowIs` that the
  three signs `set_OF_add` and `set_OF_sub` look at tell whether the exact result
  fits. `ResultFlagsIs` is about the other flags.
- The provers know nothing of `2^n` but that it is written: `Subsets` identifies it with
  the number of subsets of n things, whose cardinality the library knows, and the
  laws of powers follow (`PowerStep`, `PowerSum`). Everything about `%` and `\div`
  follows from `Division`, that quotient and remainder are the only ones.

`CpuProofs`, for every program that decoding can leave, all starting registers and
all widths that satisfy `FloatAssumption` and `FloatIsLong`:

- `Typed`: `TypeOK` is inductive as it stands, because each operation takes a machine
  to a machine: there is a lemma for each operation on operands, the stack, strings
  and floats. `rep` and the loops of `internal_normalize` are recursive functions;
  their ends are found by the same induction over a set of numbers (`RoundsExist`,
  `RepeatedIs`) or as the least count that stops (`Least`, `NormalizeRightIs`,
  `NormalizeLeftIs`). That sums, products and quotients of floats stay in a long, for
  any bit patterns, needs that the exponent is bounded where the significand still
  grows (`RoundedIs`).
- `ReadsWritten`: what is written to an operand is read back, in bytes of registers
  (`PutIs`) and in memory, byte by byte (`Digits`, `StoredByte`, `LoadsStored`).
- `Conditions`: `AfterDifference` goes from the flags that `Subtracts` describes to the
  order of the two numbers, `Extends` from a narrow immediate value to the signed
  number it stands for. Bytes are compared as 32-bit numbers without their sign
  (section 5), so that for them only the unsigned conditions are promised.

Each proof has a lemma per action or group of actions, with a step per conjunct
the action can disturb; arithmetic on `\div` and `%` is in lemmas of its own.

Only model-checked: liveness (fairness and ENABLED are beyond this prover), that is
`HaltEnds`, `RequestServed`, `RequestsEnd`, `TicksSimulated`, `KeyAnswered` and
`BlocksHeard`; and that `Cpu` implements `Isa`, which is stated for the programs of the
run: `Isa` has its data and its stack in places of their own, which a program must
respect, and its floats are chosen as the nearest of all numbers. What `Isa` says of
sums and differences is proved all the same, in `AluProofs`.

## 7. What is not modelled

`PROJECT.json` lists every component. Left out:

- the tokens and the evaluator of the monitor's expressions: a pure function
  without state; symbol tables, option parsing, the start of the emulator;
- the processor cache and the DMA path, behind macros nothing defines;
- segment translation, which is the identity for every descriptor in use;
- decoding of bytes into instructions, ports of the CPU, system registers;
  double precision, integer conversions and the status bits of the x87;
- the pool and lists of kernel handlers, which are only added to, with interrupts
  off; the assertion of `irq_handle.c:24` allows one handler too many, which nothing
  in the repository comes near; the kernel's files, which panic;
- drawing, fonts and palettes;
- the PAL game and the libraries: third-party code, and with its font tables
  (47 000 lines) and scripts most of the lines of the repository, so that the share
  of mapped lines stays small whatever is modelled of NEMU itself;
- tests and guest test programs, which were read for how the code is used.

## 8. Plan

1. The monitor's evaluator on bounded token lists against a grammar.
2. `repe`, double precision and the control word in `Cpu`; decoding of the opcode
   tables and the bytes of an instruction.
3. The kernel's code and data under `UserFrame` as bytes of `Memory`, so that a store
   through a wrong directory would be seen.
4. The handlers of the kernel as a component of `Interrupts`, when a game registers
   more of them or from within a handler.
