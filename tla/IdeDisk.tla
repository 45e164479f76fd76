-------------------------------- MODULE IdeDisk --------------------------------
(***************************************************************************)
(* The disk path: the kernel's sector cache (kernel/src/driver/ide/cache.c)*)
(* and PIO driver (disk.c, ide.c), the timer handler that writes the cache *)
(* back, and NEMU's disk (nemu/src/device/dev/ide.c).                      *)
(*                                                                         *)
(* Two contexts execute the driver: the main program, and the interrupt    *)
(* handler, which runs to its end before the main program goes on.  They   *)
(* share one disk with one set of registers and one position, and nothing  *)
(* but the guest's instructions separates the steps of a transfer.         *)
(*                                                                         *)
(* A word is the place it belongs to: where the file has it, or where the  *)
(* client wrote it.                                                        *)
(* Sectors have W words instead of 128; of the four registers that hold a  *)
(* sector number, lo and hi stand for all.                                 *)
(***************************************************************************)
EXTENDS Integers

CONSTANTS
  NrSectors, W,       \* size of the disk, and words per sector
  File,               \* the words the disk's file has
  NR_SEC_CACHE,       \* lines of the sector cache
  Radix,              \* values of a sector register, 256 in the code
  HZ,                 \* ticks between two writebacks, 100 in the code
  Ops,                \* what the client calls: "read", "write"
  Slow,               \* the disk's interrupt may take some instructions to come
  Polite              \* no writeback with dirty lines comes during a transfer

Sectors == 0 .. NrSectors - 1
Words == 0 .. W - 1
Lines == 0 .. NR_SEC_CACHE - 1

ASSUME SizesAssumption ==
  /\ NrSectors \in Nat \ {0} /\ W \in Nat \ {0}
  /\ NR_SEC_CACHE \in Nat \ {0} /\ HZ \in Nat \ {0}
  /\ Radix \in Nat \ {0} /\ NrSectors <= Radix * Radix
  /\ File \subseteq Sectors \X Words
  /\ Ops \subseteq {"read", "write"} /\ Slow \in BOOLEAN /\ Polite \in BOOLEAN

VARIABLES
  cache,              \* the lines: used, dirty, sector, content
  has_ide_intr, counter,
  req,                \* the client's call: op, sector, word
  pc, io,             \* per context: where it is, and its transfer
  lo, hi, status,     \* registers of the disk
  ide_write, byte_cnt, position,  \* and its command, in words
  pending             \* the disk's interrupt is raised and not yet delivered

device == <<lo, hi, status, ide_write, byte_cnt, position>>
kernel == <<cache, has_ide_intr, counter, req>>
vars == <<cache, has_ide_intr, counter, req, pc, io, lo, hi, status,
          ide_write, byte_cnt, position, pending>>

Contexts == {"main", "irq"}
Places == Sectors \X Words

Line(s) == s % NR_SEC_CACHE

Transfer(dir, line, sector) == [dir |-> dir, line |-> line, sector |-> sector, i |-> 0]

Init ==
  /\ cache = [l \in Lines |-> [used |-> FALSE, dirty |-> FALSE, sector |-> 0,
                               content |-> [w \in Words |-> <<0, 0>>]]]
  /\ has_ide_intr = FALSE /\ counter = 0
  /\ req = [op |-> "read", sector |-> 0, word |-> 0]
  /\ pc = [c \in Contexts |-> "idle"]
  /\ io = [c \in Contexts |-> Transfer("read", 0, 0)]
  /\ lo = 0 /\ hi = 0 /\ status = "ready"
  /\ ide_write = FALSE /\ byte_cnt = 0 /\ position = 0
  /\ pending = FALSE

-------------------------------------------------------------------------------
(* Control: a context moves from step to step; the handler preempts. *)

Dirty == {l \in Lines : cache[l].dirty}

Runs(c) == c = "main" => pc["irq"] = "idle" /\ (pending => Slow)

At(c, step) == Runs(c) /\ pc[c] = step

Goto(c, step) == pc' = [pc EXCEPT ![c] = step]

\* From the first register to the relabelled cache line.
Transferring == pc["main"] \in {"hi", "cmd", "check", "hlt", "halted", "data", "fill"}

-------------------------------------------------------------------------------
(* The cache, called by the main program *)

\* read_byte or write_byte, called by ide_read or ide_write
Request(op, s, w) ==
  /\ At("main", "idle") /\ op \in Ops
  /\ req' = [op |-> op, sector |-> s, word |-> w]
  /\ Goto("main", "fetch")
  /\ UNCHANGED <<cache, has_ide_intr, counter, io, device, pending>>

Fetched == cache[Line(req.sector)]

\* Mutant: a hit is decided by the line alone.
Hit_AnySector == At("main", "fetch") /\ Fetched.used

Hit == At("main", "fetch") /\ Fetched.used /\ Fetched.sector = req.sector

FetchHit ==
  /\ Hit
  /\ Goto("main", "access")
  /\ UNCHANGED <<kernel, io, device, pending>>

\* Mutant: the victim is written under the label of the new sector.
FetchEvict_NewLabel ==
  /\ At("main", "fetch") /\ ~Hit /\ Fetched.used /\ Fetched.dirty
  /\ io' = [io EXCEPT !["main"] = Transfer("write", Line(req.sector), req.sector)]
  /\ Goto("main", "wait")
  /\ UNCHANGED <<kernel, device, pending>>

FetchEvict ==
  /\ At("main", "fetch") /\ ~Hit /\ Fetched.used /\ Fetched.dirty
  /\ io' = [io EXCEPT !["main"] = Transfer("write", Line(req.sector), Fetched.sector)]
  /\ Goto("main", "wait")
  /\ UNCHANGED <<kernel, device, pending>>

FetchClean ==
  /\ At("main", "fetch") /\ ~Hit /\ ~(Fetched.used /\ Fetched.dirty)
  /\ Goto("main", "clear")
  /\ UNCHANGED <<kernel, io, device, pending>>

\* The line gets its new label only after the transfer.
Fill ==
  /\ At("main", "fill")
  /\ cache' = [cache EXCEPT ![Line(req.sector)] =
                 [@ EXCEPT !.used = TRUE, !.sector = req.sector, !.dirty = FALSE]]
  /\ Goto("main", "access")
  /\ UNCHANGED <<has_ide_intr, counter, req, io, device, pending>>

AccessRead ==
  /\ At("main", "access") /\ req.op = "read"
  /\ Goto("main", "idle")
  /\ UNCHANGED <<kernel, io, device, pending>>

AccessWrite ==
  /\ At("main", "access") /\ req.op = "write"
  /\ cache' = [cache EXCEPT ![Line(req.sector)].content[req.word] =
                 <<req.sector, req.word>>]
  /\ Goto("main", "mark")
  /\ UNCHANGED <<has_ide_intr, counter, req, io, device, pending>>

MarkDirty ==
  /\ At("main", "mark")
  /\ cache' = [cache EXCEPT ![Line(req.sector)].dirty = TRUE]
  /\ Goto("main", "idle")
  /\ UNCHANGED <<has_ide_intr, counter, req, io, device, pending>>

-------------------------------------------------------------------------------
(* disk_do_read and disk_do_write against the disk, in context c *)

\* clear_ide_intr, first in disk_do_read
ClearIntr ==
  /\ At("main", "clear")
  /\ has_ide_intr' = FALSE
  /\ io' = [io EXCEPT !["main"] = Transfer("read", Line(req.sector), req.sector)]
  /\ Goto("main", "wait")
  /\ UNCHANGED <<cache, counter, req, device, pending>>

\* waitdisk spins while the disk is busy.
WaitDisk(c) ==
  /\ At(c, "wait") /\ status = "ready"
  /\ Goto(c, "lo")
  /\ UNCHANGED <<kernel, io, device, pending>>

OutLo(c) ==
  /\ At(c, "lo")
  /\ lo' = io[c].sector % Radix
  /\ Goto(c, "hi")
  /\ UNCHANGED <<kernel, io, hi, status, ide_write, byte_cnt, position, pending>>

\* Mutant: the high part of the sector number is not shifted down.
OutHi_NoShift(c) ==
  /\ At(c, "hi")
  /\ hi' = io[c].sector % Radix
  /\ Goto(c, "cmd")
  /\ UNCHANGED <<kernel, io, lo, status, ide_write, byte_cnt, position, pending>>

OutHi(c) ==
  /\ At(c, "hi")
  /\ hi' = (io[c].sector \div Radix) % Radix
  /\ Goto(c, "cmd")
  /\ UNCHANGED <<kernel, io, lo, status, ide_write, byte_cnt, position, pending>>

\* Mutants: the count of words is not reset; the disk stays in its old mode.
IssueRead_NoReset ==
  /\ At("main", "cmd") /\ io["main"].dir = "read"
  /\ position' = (lo + Radix * hi) * W /\ byte_cnt' = byte_cnt
  /\ ide_write' = FALSE /\ status' = "ready" /\ pending' = TRUE
  /\ Goto("main", "check")
  /\ UNCHANGED <<kernel, io, lo, hi>>

IssueWrite_NoMode(c) ==
  /\ At(c, "cmd") /\ io[c].dir = "write"
  /\ position' = (lo + Radix * hi) * W /\ byte_cnt' = 0
  /\ status' = "busy"
  /\ Goto(c, "data")
  /\ UNCHANGED <<kernel, io, lo, hi, ide_write, pending>>

\* The disk seeks to the sector in its registers, and is ready at once to
\* deliver it: it raises its interrupt in the same instruction.
IssueRead ==
  /\ At("main", "cmd") /\ io["main"].dir = "read"
  /\ position' = (lo + Radix * hi) * W /\ byte_cnt' = 0
  /\ ide_write' = FALSE /\ status' = "ready" /\ pending' = TRUE
  /\ Goto("main", "check")
  /\ UNCHANGED <<kernel, io, lo, hi>>

IssueWrite(c) ==
  /\ At(c, "cmd") /\ io[c].dir = "write"
  /\ position' = (lo + Radix * hi) * W /\ byte_cnt' = 0
  /\ ide_write' = TRUE /\ status' = "busy"
  /\ Goto(c, "data")
  /\ UNCHANGED <<kernel, io, lo, hi, pending>>

\* wait_ide_intr: the test of the loop, and hlt in a step of its own
CheckIntr ==
  /\ At("main", "check")
  /\ has_ide_intr' = FALSE
  /\ Goto("main", IF has_ide_intr THEN "data" ELSE "hlt")
  /\ UNCHANGED <<cache, counter, req, io, device, pending>>

Hlt ==
  /\ At("main", "hlt")
  /\ Goto("main", "halted")
  /\ UNCHANGED <<kernel, io, device, pending>>

\* What fread leaves in buf: past the end of the file, anything.
WordAt(p) ==
  LET place == <<p \div W, p % W>>
  IN  IF place \in File THEN {place} ELSE Places

\* The assertions of handler_ide at a data access; NEMU aborts when one fails.
Accepts(c) == ide_write = (io[c].dir = "write") /\ byte_cnt <= W

InLong ==
  /\ At("main", "data") /\ io["main"].dir = "read"
  /\ Accepts("main")
  /\ \E v \in WordAt(position) :
       cache' = [cache EXCEPT ![io["main"].line].content[io["main"].i] = v]
  /\ position' = position + 1 /\ byte_cnt' = byte_cnt + 1
  /\ IF io["main"].i + 1 < W
       THEN io' = [io EXCEPT !["main"].i = @ + 1] /\ UNCHANGED pc
       ELSE Goto("main", "fill") /\ UNCHANGED io
  /\ UNCHANGED <<has_ide_intr, counter, req, lo, hi, status, ide_write, pending>>

\* fwrite fails: init_ide opened the file with "rb".  The disk counts the
\* word all the same.
OutLong(c) ==
  /\ At(c, "data") /\ io[c].dir = "write"
  /\ Accepts(c)
  /\ byte_cnt' = byte_cnt + 1
  /\ status' = IF byte_cnt + 1 = W THEN "ready" ELSE status
  /\ IF io[c].i + 1 < W
       THEN io' = [io EXCEPT ![c].i = @ + 1] /\ UNCHANGED pc
       ELSE Goto(c, IF c = "main" THEN "clear" ELSE "clean") /\ UNCHANGED io
  /\ UNCHANGED <<kernel, lo, hi, ide_write, position, pending>>

-------------------------------------------------------------------------------
(* Interrupts: the timer's chain, ide_writeback, and the disk's, ide_intr *)

Wake(p) == [p EXCEPT !["main"] = IF @ = "halted" THEN "check" ELSE @]

Tick ==
  /\ At("irq", "idle") /\ counter + 1 < HZ
  /\ counter' = counter + 1
  /\ pc' = Wake(pc)
  /\ UNCHANGED <<cache, has_ide_intr, req, io, device, pending>>

StartWriteback ==
  /\ At("irq", "idle") /\ counter + 1 = HZ
  /\ Polite => Dirty = {} \/ ~Transferring
  /\ counter' = HZ
  /\ io' = [io EXCEPT !["irq"] = Transfer("write", 0, 0)]
  /\ pc' = [Wake(pc) EXCEPT !["irq"] = "scan"]
  /\ UNCHANGED <<cache, has_ide_intr, req, device, pending>>

\* cache_writeback, one line after the other
Scan ==
  /\ At("irq", "scan")
  /\ LET l == io["irq"].line
     IN  \/ /\ l \in Dirty
            /\ io' = [io EXCEPT !["irq"] = Transfer("write", l, cache[l].sector)]
            /\ Goto("irq", "wait") /\ UNCHANGED counter
         \/ /\ l \in Lines \ Dirty
            /\ io' = [io EXCEPT !["irq"].line = l + 1]
            /\ UNCHANGED <<pc, counter>>
         \/ /\ l = NR_SEC_CACHE
            /\ counter' = 0
            /\ Goto("irq", "idle") /\ UNCHANGED io
  /\ UNCHANGED <<cache, has_ide_intr, req, device, pending>>

Clean ==
  /\ At("irq", "clean")
  /\ cache' = [cache EXCEPT ![io["irq"].line].dirty = FALSE]
  /\ io' = [io EXCEPT !["irq"].line = @ + 1]
  /\ Goto("irq", "scan")
  /\ UNCHANGED <<has_ide_intr, counter, req, device, pending>>

\* Mutant: the flag is not set.
DiskIntr_NoFlag ==
  /\ At("irq", "idle") /\ pending
  /\ has_ide_intr' = has_ide_intr /\ pending' = FALSE
  /\ pc' = Wake(pc)
  /\ UNCHANGED <<cache, counter, req, io, device>>

DiskIntr ==
  /\ At("irq", "idle") /\ pending
  /\ has_ide_intr' = TRUE /\ pending' = FALSE
  /\ pc' = Wake(pc)
  /\ UNCHANGED <<cache, counter, req, io, device>>

CacheStep ==
  FetchHit \/ FetchEvict \/ FetchClean \/ Fill \/ AccessRead \/ AccessWrite \/ MarkDirty

DriverStep(c) == WaitDisk(c) \/ OutLo(c) \/ OutHi(c) \/ IssueWrite(c) \/ OutLong(c)

MainStep == CacheStep \/ ClearIntr \/ IssueRead \/ CheckIntr \/ Hlt \/ InLong \/ DriverStep("main")

IrqStep == Scan \/ Clean \/ DriverStep("irq")

Next ==
  \/ \E op \in Ops, s \in Sectors, w \in Words : Request(op, s, w)
  \/ MainStep \/ IrqStep
  \/ Tick \/ StartWriteback \/ DiskIntr

Spec == Init /\ [][Next]_vars

\* The guest executes instructions between two ticks, which are 10 ms apart;
\* the clock goes on, and the controller delivers (RequestServed of Interrupts),
\* the disk's request before the timer's when a handler has returned.
Fairness ==
  /\ SF_vars(MainStep) /\ WF_vars(IrqStep)
  /\ WF_vars(Tick \/ StartWriteback) /\ SF_vars(DiskIntr)

FairSpec == Spec /\ Fairness

-------------------------------------------------------------------------------
(* Properties *)

Steps == {"idle", "fetch", "access", "mark", "clear", "wait", "lo", "hi", "cmd",
          "check", "hlt", "halted", "data", "fill", "scan", "clean"}

TypeOK ==
  /\ cache \in [Lines -> [used : BOOLEAN, dirty : BOOLEAN, sector : Sectors,
                          content : [Words -> Places]]]
  /\ has_ide_intr \in BOOLEAN /\ counter \in 0 .. HZ
  /\ req \in [op : {"read", "write"}, sector : Sectors, word : Words]
  /\ pc \in [Contexts -> Steps]
  /\ io \in [Contexts -> [dir : {"read", "write"}, line : 0 .. NR_SEC_CACHE,
                          sector : Sectors, i : Words]]
  /\ lo \in 0 .. Radix - 1 /\ hi \in 0 .. Radix - 1 /\ status \in {"ready", "busy"}
  /\ ide_write \in BOOLEAN /\ byte_cnt \in 0 .. W /\ position \in Nat
  /\ pending \in BOOLEAN

\* The assertions of handler_ide: the driver never reads data from a disk
\* that is in a write, writes to one that is in a read, or asks for more than
\* a sector.
DiskAssertionsHold == \A c \in Contexts : At(c, "data") => Accepts(c)

\* What the client gets belongs to the word it asked for, however the fetch,
\* the transfer and the handlers interleave.
RightWordRead ==
  pc["main"] = "access" /\ <<req.sector, req.word>> \in File =>
    cache[Line(req.sector)].content[req.word] = <<req.sector, req.word>>

\* A word on its way to the disk belongs at the place where the disk is, also
\* when the line was evicted or its label is about to change.
RightWordSent ==
  \A c \in Contexts : pc[c] = "data" /\ io[c].dir = "write" =>
    LET place == <<position \div W, byte_cnt>>
    IN  place \in File => cache[io[c].line].content[io[c].i] = place

\* While a word is read the disk stands exactly where the driver believes.
InStep ==
  pc["main"] = "data" /\ io["main"].dir = "read" =>
    /\ position = io["main"].sector * W + io["main"].i
    /\ byte_cnt = io["main"].i

\* Every request ends, although the disk's interrupt may come between the test
\* of has_ide_intr and the hlt: then the next tick wakes the CPU.
RequestsEnd == pc["main"] # "idle" ~> pc["main"] = "idle"

-------------------------------------------------------------------------------
(* The inductive invariant behind the safety properties *)

\* Line l has the file's content of sector s, as far as the file goes.
Holds(l, s) ==
  \A w \in Words : <<s, w>> \in File => cache[l].content[w] = <<s, w>>

\* The line of the request has its old label and some new content.
Filling == pc["main"] = "fill" \/ (pc["main"] = "data" /\ io["main"].dir = "read")

CacheInv ==
  \A l \in Lines :
    /\ cache[l].dirty => cache[l].used
    /\ cache[l].used => Line(cache[l].sector) = l
    /\ cache[l].used => (Filling /\ l = Line(req.sector)) \/ Holds(l, cache[l].sector)

\* A context in a transfer works on a line and a sector that belong together.
IoInv ==
  /\ pc["main"] \in {"wait", "lo", "hi", "cmd", "check", "hlt", "halted", "data", "fill"} =>
       /\ io["main"].line = Line(req.sector)
       /\ io["main"].dir = "read" => io["main"].sector = req.sector
  /\ pc["main"] \in {"check", "hlt", "halted", "fill"} => io["main"].dir = "read"
  /\ pc["main"] \in {"access", "mark"} => Fetched.used /\ Fetched.sector = req.sector
  /\ pc["irq"] \in {"wait", "lo", "hi", "cmd", "data"} => io["irq"].dir = "write"
  /\ pc["irq"] = "clean" => io["irq"].line \in Lines
  /\ \A c \in Contexts :
       /\ pc[c] \in {"wait", "lo", "hi", "cmd", "check", "hlt", "halted"} => io[c].i = 0
       /\ pc[c] \in {"wait", "lo", "hi", "cmd", "data"} /\ io[c].dir = "write" =>
            /\ io[c].line \in Lines
            /\ cache[io[c].line].used /\ cache[io[c].line].sector = io[c].sector

\* The registers and the position of the disk are those of the transfer.
DeviceInv ==
  \A c \in Contexts :
    /\ pc[c] \in {"hi", "cmd"} => lo = io[c].sector % Radix
    /\ pc[c] = "cmd" => hi = (io[c].sector \div Radix) % Radix
    /\ pc[c] \in {"check", "hlt", "halted", "data"} =>
         /\ ide_write = (io[c].dir = "write")
         /\ byte_cnt = io[c].i
         /\ position = io[c].sector * W + (IF io[c].dir = "read" THEN io[c].i ELSE 0)

FillInv ==
  Filling =>
    \A w \in Words : (pc["main"] = "fill" \/ w < io["main"].i) /\ <<req.sector, w>> \in File =>
      cache[Line(req.sector)].content[w] = <<req.sector, w>>

\* Where each context can be.  During a transfer of the main program the
\* handler only looks at clean lines.
ControlInv ==
  /\ pc["main"] \notin {"scan", "clean"}
  /\ pc["irq"] \in {"idle", "scan", "clean", "wait", "lo", "hi", "cmd", "data"}
  /\ Transferring /\ pc["irq"] # "idle" => pc["irq"] = "scan" /\ Dirty = {}
  /\ "write" \notin Ops => Dirty = {} /\ req.op = "read" /\ pc["main"] # "mark"

IInv ==
  TypeOK /\ CacheInv /\ IoInv /\ DeviceInv /\ FillInv /\ ControlInv

===============================================================================
