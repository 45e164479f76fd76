-------------------------------- MODULE Memory --------------------------------
(***************************************************************************)
(* A guest's memory, from a linear address to a byte: NEMU's accesses      *)
(* (nemu/src/memory/memory.c) with paging (mmu/page.c), the optional TLB   *)
(* (mmu/tlb.c), the mapped video memory (device/io/mm_io.c, dev/vga.c),    *)
(* and the kernel that fills the page directories while it boots           *)
(* (kernel/src/memory/, elf/elf.c) and when the program moves its break.   *)
(*                                                                         *)
(* A word is four bytes, lowest first.  The bytes of directories and tables*)
(* are not in mem: map is what they say.  The video memory has its own     *)
(* store in NEMU; here it is the part of mem at VideoFrames.               *)
(***************************************************************************)
EXTENDS Integers, FiniteSets, Sequences

CONSTANTS
  PAGE_SIZE, NR_PTE,   \* bytes of a page, pages of a table: 4096 and 1024
  NrFrames,            \* page frames of physical memory: PHY_MEM / PAGE_SIZE
  KPage,               \* the page of KOFFSET
  VideoFrames,         \* frames of the VGA's area, 0xa0 .. 0xbf
  VideoMapped,         \* those the program gets, 0xa0 .. 0xaf
  CTR_ROW, CTR_COL,    \* lines of the screen and their length
  UserFrame,           \* the first frame mm_malloc hands out
  Segments,            \* the program: vaddr, memsz, and bytes of the file
  STACK_SIZE,
  NrTlb,               \* entries of the TLB, 64 in the code
  Accesses,            \* what the program does: set of <<addr, len>>
  Data,                \* words it stores
  Breaks,              \* breaks it asks for
  MaxStores            \* bound: stores of the program

None == -1
Frames == 0 .. NrFrames - 1
Pages == 0 .. KPage + NrFrames - 1
Dirs == {"off", "kpdir", "updir"}
KOFFSET == KPage * PAGE_SIZE
Page(l) == l \div PAGE_SIZE
SCR_SIZE == CTR_ROW * CTR_COL
VmemFrame == CHOOSE f \in VideoFrames : \A g \in VideoFrames : f <= g
VMEM_ADDR == VmemFrame * PAGE_SIZE
End == Segments[Len(Segments)].vaddr + Segments[Len(Segments)].memsz

SegmentPages(s) == Page(s.vaddr) .. Page(s.vaddr + s.memsz - 1)

ASSUME MemoryAssumption ==
  /\ PAGE_SIZE \in Nat \ {0} /\ NR_PTE \in Nat \ {0} /\ NrFrames \in Nat \ {0}
  /\ KPage \in Nat /\ KPage > NrFrames /\ UserFrame \in Frames
  /\ VideoFrames \subseteq 0 .. UserFrame - 1 /\ VideoFrames \subseteq 0 .. NR_PTE - 1
  /\ VideoFrames # {}
  /\ VideoMapped \subseteq VideoFrames
  /\ CTR_ROW \in Nat \ {0} /\ CTR_COL \in Nat \ {0} /\ STACK_SIZE \in Nat \ {0}
  /\ \A l \in VMEM_ADDR .. (VMEM_ADDR + SCR_SIZE - 1) : Page(l) \in VideoMapped
  /\ NrTlb \in Nat \ {0} /\ Breaks \subseteq Nat /\ MaxStores \in Nat
  /\ Accesses \subseteq Nat \X (1 .. 4) /\ Data \subseteq [1 .. 4 -> Nat]
\* As the linker lays programs out (they start at 0x08048000): segments in
\* order, in pages of their own, above what the first table maps, where the
\* video memory is, and above the addresses of physical memory, which ends at
\* 0x08000000; and below the stack.
ASSUME ProgramAssumption ==
  /\ Segments \in Seq([vaddr : Nat, memsz : Nat \ {0}, bytes : Seq(Nat)]) \ {<< >>}
  /\ \A i \in DOMAIN Segments :
       /\ Page(Segments[i].vaddr) >= NR_PTE /\ Page(Segments[i].vaddr) >= NrFrames
       /\ Len(Segments[i].bytes) <= Segments[i].memsz
       /\ Segments[i].vaddr + Segments[i].memsz <= KOFFSET - STACK_SIZE
       /\ \A j \in DOMAIN Segments : i < j =>
            \A p \in SegmentPages(Segments[i]) : p < Page(Segments[j].vaddr)
  /\ \A b \in Breaks : b >= End /\ b <= KOFFSET - STACK_SIZE

VARIABLES
  phase,               \* how far the kernel is: init, init_cond, loader, then "user"
  i, seg,              \* its loop counter, and the segment being loaded
  map, cr3,            \* the frame of each page, per directory; the directory in use
  tlb,                 \* "off", or its entries: page and frame
  free, brk,           \* the next free frame, and the program break
  mem,
  line_dirty, shown,   \* lines to draw, and the screen
  op, stores           \* the program's last access, and how many stores

boot == <<phase, i, seg>>
paging == <<map, cr3, free, brk>>
video == <<line_dirty, shown>>
vars == <<phase, i, seg, map, cr3, tlb, free, brk, mem, line_dirty, shown, op, stores>>

NoOp == [kind |-> "none", addr |-> 0, len |-> 0, data |-> <<0, 0, 0, 0>>]

Init ==
  /\ phase = "init_page" /\ i = 0 /\ seg = 1
  /\ map = [d \in {"kpdir", "updir"} |-> [p \in Pages |-> None]]
  /\ cr3 = "off"
  /\ tlb \in {<< >>, [e \in 1 .. NrTlb |-> <<None, None>>]}
  /\ free = UserFrame /\ brk = 0
  /\ mem = [p \in 0 .. NrFrames * PAGE_SIZE - 1 |-> 0]
  /\ line_dirty = {} /\ shown = [o \in 0 .. SCR_SIZE - 1 |-> 0]
  /\ op = NoOp /\ stores = 0

-------------------------------------------------------------------------------
(* Words *)

Low(d, n) == [k \in 1 .. 4 |-> IF k <= n THEN d[k] ELSE 0]
ShiftRight(d, n) == [k \in 1 .. 4 |-> IF k + n <= 4 THEN d[k + n] ELSE 0]
ShiftLeft(d, n) == [k \in 1 .. 4 |-> IF k > n THEN d[k - n] ELSE 0]
Plus(d, e) == [k \in 1 .. 4 |-> d[k] + e[k]]
Word(n) == <<n, 0, 0, 0>>

-------------------------------------------------------------------------------
(* Translation *)

\* page_translate, and page_walk with a TLB.  Its assertions fail on None.
PageWalk(page) == IF page \in Pages THEN map[cr3][page] ELSE None

TlbHits(t, page) == {e \in DOMAIN t : t[e][1] = page}

\* The outcomes of a translation: the frame, and the TLB, where a random
\* entry gives way.
Translations(t, page) ==
  IF t = << >> THEN {[frame |-> PageWalk(page), tlb |-> t]}
  ELSE IF TlbHits(t, page) # {}
  THEN {[frame |-> t[e][2], tlb |-> t] : e \in TlbHits(t, page)}
  ELSE {[frame |-> PageWalk(page), tlb |-> [t EXCEPT ![e] = <<page, PageWalk(page)>>]] :
          e \in DOMAIN t}

Crosses(l, len) == Page(l) # Page(l + len - 1)

\* Bytes before the boundary, the whole access if there is none.
Len1(l, len) == IF Crosses(l, len) THEN PAGE_SIZE - (l % PAGE_SIZE) ELSE len

Walks(l, len) ==
  IF ~Crosses(l, len)
  THEN {[frames |-> <<t.frame>>, tlb |-> t.tlb] : t \in Translations(tlb, Page(l))}
  ELSE UNION {{[frames |-> <<t.frame, u.frame>>, tlb |-> u.tlb] :
                 u \in Translations(t.tlb, Page(l) + 1)} : t \in Translations(tlb, Page(l))}

-------------------------------------------------------------------------------
(* Physical accesses *)

Peek(p, len) == [k \in 1 .. 4 |-> IF k <= len THEN mem[p + k - 1] ELSE 0]
Poke(m, p, len, d) ==
  [q \in DOMAIN m |-> IF q \in p .. (p + len - 1) THEN d[q - p + 1] ELSE m[q]]

IsMmio(p) == Page(p) \in VideoFrames

\* The assertions of an access: the frame is there, and the device's lengths.
Faults(f, len) == f = None \/ (f \in VideoFrames /\ len \notin {1, 2, 4})

\* Mutant: only whole words mark the line.
Marks_WordsOnly(p, len) ==
  IF IsMmio(p) /\ len = 4 /\ (p - VMEM_ADDR) \div CTR_COL < CTR_ROW
  THEN {(p - VMEM_ADDR) \div CTR_COL} ELSE {}

\* The line of the first byte is marked.
Marks(p, len) ==
  IF IsMmio(p) /\ (p - VMEM_ADDR) \div CTR_COL < CTR_ROW
  THEN {(p - VMEM_ADDR) \div CTR_COL} ELSE {}

-------------------------------------------------------------------------------
(* Accesses by linear address.  Each is one call of the emulator thread.   *)

Abort == phase' = "abort" /\ UNCHANGED <<i, seg, mem, line_dirty, op, stores>>

FaultsAt(w, l, len) ==
  \/ Faults(w.frames[1], Len1(l, len))
  \/ Crosses(l, len) /\ Faults(w.frames[2], len - Len1(l, len))

\* What laddr_read returns.
Loaded(w, l, len) ==
  LET low == Peek(w.frames[1] * PAGE_SIZE + (l % PAGE_SIZE), Len1(l, len))
  IN IF ~Crosses(l, len) THEN low
     ELSE Plus(ShiftLeft(Peek(w.frames[2] * PAGE_SIZE, len - Len1(l, len)), Len1(l, len)), low)

\* Mutant: the second part is not shifted.
Parts_NoShift(l, len, d) ==
  IF Crosses(l, len) THEN <<Low(d, Len1(l, len)), d>> ELSE <<d>>

\* The words laddr_write hands to paddr_write: of the second part it shifts
\* the bytes that would be its own if the access had two pairs of bytes.
Parts(l, len, d) ==
  IF Crosses(l, len)
  THEN <<Low(d, Len1(l, len)), ShiftRight(d, 4 - Len1(l, len))>> ELSE <<d>>

Stored(w, l, len, d) ==
  LET p == w.frames[1] * PAGE_SIZE + (l % PAGE_SIZE)
      parts == Parts(l, len, d)
      first == Poke(mem, p, Len1(l, len), parts[1])
  IN IF Crosses(l, len)
     THEN Poke(first, w.frames[2] * PAGE_SIZE, len - Len1(l, len), parts[2])
     ELSE first

Marked(w, l, len) ==
  Marks(w.frames[1] * PAGE_SIZE + (l % PAGE_SIZE), Len1(l, len))
    \union IF Crosses(l, len) THEN Marks(w.frames[2] * PAGE_SIZE, len - Len1(l, len)) ELSE {}

Store(w, l, len, d) ==
  /\ mem' = Stored(w, l, len, d)
  /\ line_dirty' = line_dirty \union Marked(w, l, len)

-------------------------------------------------------------------------------
(* Boot: the kernel, in the order of init, init_cond and loader.  It uses  *)
(* its own pages, and low memory at its physical address.                  *)

Goto(p) == phase' = p

\* A store of the kernel at the address l, which is then at place next.
KernelStore(l, len, d, next) ==
  \E w \in Walks(l, len) :
    /\ tlb' = w.tlb
    /\ IF FaultsAt(w, l, len) THEN Abort
       ELSE Store(w, l, len, d) /\ i' = next /\ UNCHANGED <<phase, seg, op, stores>>
    /\ UNCHANGED <<paging, shown>>

KernelLoad(l, len, expected, next) ==
  \E w \in Walks(l, len) :
    /\ tlb' = w.tlb
    /\ IF FaultsAt(w, l, len) \/ Loaded(w, l, len) # expected THEN Abort
       ELSE i' = next /\ UNCHANGED <<phase, seg, mem, line_dirty, op, stores>>
    /\ UNCHANGED <<paging, shown>>

\* A loop of the boot is over.
After(p, n, next) ==
  /\ phase = p /\ i = n
  /\ Goto(next) /\ i' = 0
  /\ UNCHANGED <<seg, paging, tlb, mem, video, op, stores>>

\* Mutant: the frame is counted before it is used.
InitPage_Early ==
  /\ phase = "init_page"
  /\ map' = [map EXCEPT !["kpdir"] = [p \in Pages |->
               IF p < NrFrames THEN p + 1 ELSE IF p >= KPage THEN p - KPage + 1 ELSE None]]
  /\ cr3' = "kpdir" /\ Goto("init_mm")
  /\ UNCHANGED <<i, seg, tlb, free, brk, mem, video, op, stores>>

InitPage ==
  /\ phase = "init_page"
  /\ map' = [map EXCEPT !["kpdir"] = [p \in Pages |->
               IF p < NrFrames THEN p ELSE IF p >= KPage THEN p - KPage ELSE None]]
  /\ cr3' = "kpdir" /\ Goto("init_mm")
  /\ UNCHANGED <<i, seg, tlb, free, brk, mem, video, op, stores>>

\* Mutant: the whole directory is copied.
InitMm_All ==
  /\ phase = "init_mm"
  /\ map' = [map EXCEPT !["updir"] = map["kpdir"]]
  /\ Goto("write_test")
  /\ UNCHANGED <<i, seg, cr3, tlb, free, brk, mem, video, op, stores>>

\* Mutant: the copy starts one entry late.
InitMm_Late ==
  /\ phase = "init_mm"
  /\ map' = [map EXCEPT !["updir"] = [p \in Pages |->
               IF p >= KPage + NR_PTE THEN map["kpdir"][p] ELSE None]]
  /\ Goto("write_test")
  /\ UNCHANGED <<i, seg, cr3, tlb, free, brk, mem, video, op, stores>>

InitMm ==
  /\ phase = "init_mm"
  /\ map' = [map EXCEPT !["updir"] = [p \in Pages |->
               IF p >= KPage THEN map["kpdir"][p] ELSE None]]
  /\ Goto("write_test")
  /\ UNCHANGED <<i, seg, cr3, tlb, free, brk, mem, video, op, stores>>

WriteTest ==
  /\ phase = "write_test" /\ i < SCR_SIZE \div 4
  /\ KernelStore(VMEM_ADDR + 4 * i, 4, Word(i), i + 1)

\* mm_malloc: pages that have no frame yet get the next free ones.
NewPages(va, len) == {p \in Page(va) .. Page(va + len - 1) : map["updir"][p] = None}

\* Mutant: a page that is mapped already gets a new frame.
MmMalloc_Remap(va, len) ==
  LET new == Page(va) .. Page(va + len - 1)
  IN /\ free + Cardinality(new) <= NrFrames
     /\ map' = [map EXCEPT !["updir"] = [p \in Pages |->
                  IF p \in new THEN free + (p - Page(va)) ELSE @[p]]]
     /\ free' = free + Cardinality(new)

MmMalloc(va, len) ==
  LET new == NewPages(va, len)
  IN /\ free + Cardinality(new) <= NrFrames
     /\ map' = [map EXCEPT !["updir"] = [p \in Pages |->
                  IF p \in new THEN free + Cardinality({q \in new : q < p}) ELSE @[p]]]
     /\ free' = free + Cardinality(new)

LoadSegment ==
  /\ phase = "load" /\ seg <= Len(Segments)
  /\ MmMalloc(Segments[seg].vaddr, Segments[seg].memsz)
  /\ Goto("ide_read")
  /\ UNCHANGED <<i, seg, cr3, tlb, brk, mem, video, op, stores>>

\* The physical address mm_malloc returned for the segment.
SegPaddr(s) == map["updir"][Page(s.vaddr)] * PAGE_SIZE + (s.vaddr % PAGE_SIZE)

\* Mutant: whole words are stored.
IdeRead_Words ==
  /\ phase = "ide_read" /\ i < Len(Segments[seg].bytes)
  /\ KernelStore(SegPaddr(Segments[seg]) + i, 4,
                 <<Segments[seg].bytes[i + 1], 1, 1, 1>>, i + 1)

IdeRead ==
  /\ phase = "ide_read" /\ i < Len(Segments[seg].bytes)
  /\ KernelStore(SegPaddr(Segments[seg]) + i, 1, Word(Segments[seg].bytes[i + 1]), i + 1)

\* The last byte of the segment, where mm_brk takes brk for the first byte
\* that is not the program's.
RecordBrk ==
  /\ phase = "ide_read" /\ i = Len(Segments[seg].bytes)
  /\ LET new_brk == Segments[seg].vaddr + Segments[seg].memsz - 1
     IN brk' = IF brk < new_brk THEN new_brk ELSE brk
  /\ seg' = seg + 1 /\ i' = 0 /\ Goto("load")
  /\ UNCHANGED <<map, cr3, tlb, free, mem, video, op, stores>>

Stack ==
  /\ phase = "load" /\ seg > Len(Segments)
  /\ MmMalloc(KOFFSET - STACK_SIZE, STACK_SIZE)
  /\ Goto("video")
  /\ UNCHANGED <<i, seg, cr3, tlb, brk, mem, video, op, stores>>

\* The program's first table is a new one, with nothing but the video pages.
CreateVideoMapping ==
  /\ phase = "video"
  /\ map' = [map EXCEPT !["updir"] = [p \in Pages |->
               IF p >= NR_PTE THEN @[p] ELSE IF p \in VideoMapped THEN p ELSE None]]
  /\ Goto("write_cr3")
  /\ UNCHANGED <<i, seg, cr3, tlb, free, brk, mem, video, op, stores>>

\* The TLB is not flushed.
WriteCr3 ==
  /\ phase = "write_cr3"
  /\ cr3' = "updir" /\ Goto("read_test")
  /\ UNCHANGED <<i, seg, map, tlb, free, brk, mem, video, op, stores>>

ReadTest ==
  /\ phase = "read_test" /\ i < SCR_SIZE \div 4
  /\ KernelLoad(VMEM_ADDR + 4 * i, 4, Word(i), i + 1)

Clear ==
  /\ phase = "clear" /\ i < SCR_SIZE \div 4
  /\ KernelStore(VMEM_ADDR + 4 * i, 4, Word(0), i + 1)

BootLoopEnds ==
  \/ After("write_test", SCR_SIZE \div 4, "load")
  \/ After("read_test", SCR_SIZE \div 4, "clear")
  \/ After("clear", SCR_SIZE \div 4, "user")

\* Kernel code and data, by the kernel itself, its handlers, and the gates.
KernelRuns ==
  /\ phase \notin {"init_page", "abort"} /\ tlb # << >>
  /\ \E p \in KPage .. KPage + UserFrame - 1 : \E t \in Translations(tlb, p) :
       IF t.frame = None THEN Abort /\ UNCHANGED tlb
       ELSE tlb' = t.tlb /\ UNCHANGED <<boot, mem, line_dirty, op, stores>>
  /\ UNCHANGED <<paging, shown>>

-------------------------------------------------------------------------------
(* The program, and the screen *)

\* What the program may use: its segments, the heap up to the break, its
\* stack, and the screen.
Usable ==
  IF phase # "user" THEN {}
  ELSE (UNION {Segments[s].vaddr .. (Segments[s].vaddr + Segments[s].memsz - 1) :
                 s \in DOMAIN Segments})
       \union End .. (brk - 1)
       \union (KOFFSET - STACK_SIZE) .. (KOFFSET - 1)
       \union VMEM_ADDR .. (VMEM_ADDR + SCR_SIZE - 1)

Legal(l, len) == l .. (l + len - 1) \subseteq Usable

StoreAt(l, len, d) ==
  /\ phase = "user" /\ stores < MaxStores /\ Legal(l, len)
  /\ \E w \in Walks(l, len) :
       /\ tlb' = w.tlb
       /\ IF FaultsAt(w, l, len) THEN Abort
          ELSE /\ Store(w, l, len, d)
               /\ op' = [kind |-> "store", addr |-> l, len |-> len, data |-> d]
               /\ stores' = stores + 1 /\ UNCHANGED boot
  /\ UNCHANGED <<paging, shown>>

LoadAt(l, len) ==
  /\ phase = "user" /\ Legal(l, len)
  /\ \E w \in Walks(l, len) :
       /\ tlb' = w.tlb
       /\ IF FaultsAt(w, l, len) THEN Abort
          ELSE /\ op' = [kind |-> "load", addr |-> l, len |-> len, data |-> Loaded(w, l, len)]
               /\ UNCHANGED <<boot, mem, line_dirty, stores>>
  /\ UNCHANGED <<paging, shown>>

UserStore == \E a \in Accesses, d \in Data : StoreAt(a[1], a[2], d)
UserLoad == \E a \in Accesses : LoadAt(a[1], a[2])

\* Mutant: one byte less is allocated, for brk is taken for free already.
MmBrk_LastPage(new) ==
  /\ IF new > brk + 1 THEN MmMalloc(brk + 1, new - brk - 2) ELSE UNCHANGED <<map, free>>
  /\ brk' = new

MmBrk(new) ==
  /\ IF new > brk THEN MmMalloc(brk, new - brk) ELSE UNCHANGED <<map, free>>
  /\ brk' = new

\* sbrk asks for the break.
SysBrk ==
  /\ phase = "user"
  /\ \E new \in Breaks : MmBrk(new)
  /\ op' = NoOp
  /\ UNCHANGED <<boot, cr3, tlb, mem, video, stores>>

\* do_vga, when its interval is over
UpdateScreen ==
  /\ phase # "abort" /\ line_dirty # {}
  /\ shown' = [o \in DOMAIN shown |->
                 IF o \div CTR_COL \in line_dirty THEN mem[VMEM_ADDR + o] ELSE shown[o]]
  /\ line_dirty' = {}
  /\ UNCHANGED <<boot, paging, tlb, mem, op, stores>>

Boot ==
  \/ InitPage \/ InitMm \/ WriteTest \/ LoadSegment \/ IdeRead \/ RecordBrk \/ Stack
  \/ CreateVideoMapping \/ WriteCr3 \/ ReadTest \/ Clear \/ BootLoopEnds

Next == Boot \/ KernelRuns \/ UserStore \/ UserLoad \/ SysBrk \/ UpdateScreen

Spec == Init /\ [][Next]_vars

-------------------------------------------------------------------------------
(* What must hold *)

\* Values have their types.
TypeOK ==
  /\ phase \in {"init_page", "init_mm", "write_test", "load", "ide_read", "video",
                "write_cr3", "read_test", "clear", "user", "abort"}
  /\ i \in Nat /\ seg \in 1 .. Len(Segments) + 1
  /\ map \in [{"kpdir", "updir"} -> [Pages -> Frames \union {None}]]
  /\ cr3 \in Dirs
  /\ tlb = << >> \/ tlb \in [1 .. NrTlb -> (Pages \union {None}) \X (Frames \union {None})]
  /\ free \in UserFrame .. NrFrames /\ brk \in Nat
  /\ mem \in [0 .. NrFrames * PAGE_SIZE - 1 -> Nat]
  /\ line_dirty \subseteq 0 .. CTR_ROW - 1 /\ stores \in 0 .. MaxStores

\* Every address the program may use has a frame, also the bytes between the
\* break the loader recorded (elf.c:55) and the one mm_brk starts from.
UsableMapped == \A l \in Usable : PageWalk(Page(l)) # None

\* Although write_cr3 does not flush the TLB (tlb.c:137), no entry disagrees
\* with the directory in use: a page is given a frame only once, and the video
\* pages get the frames they had in the kernel's directory.
TlbCoherent ==
  tlb # << >> =>
    \A e \in DOMAIN tlb : tlb[e][1] # None => PageWalk(tlb[e][1]) \in {None, tlb[e][2]}

\* No frame serves two of the program's pages, or a page of the program and
\* the kernel.
FramesPrivate ==
  \A p, q \in 0 .. KPage - 1 :
    LET f == map["updir"][p] IN
    f # None => /\ p # q => f # map["updir"][q]
                /\ f < UserFrame => p \in VideoMapped /\ f = p

\* The program's address space: every address it may use has a frame, and no
\* frame serves two of its pages, or a page of it and the kernel.
AddressSpace == UsableMapped /\ FramesPrivate

\* The program finds its bss zero although the loader does not clear it
\* (elf.c:49): the frames are fresh, and no byte past the file's is read.
BssZero ==
  phase = "user" /\ stores = 0 =>
    \A s \in DOMAIN Segments : \A o \in Len(Segments[s].bytes) .. Segments[s].memsz - 1 :
      mem[SegPaddr(Segments[s]) + o] = 0

\* No assertion fails: pages are present (page.c:15), devices are accessed
\* with lengths they know (mm_io.c:58), the test words are found in the video
\* memory under both directories (vmem.c:47).
NeverAborts == phase # "abort"

\* A line that is not to be drawn is on the screen as it is in memory: no
\* store gets lost between the handler and the refresh (vga.c:40, 83).
ScreenFollows ==
  \A o \in DOMAIN shown :
    o \div CTR_COL \notin line_dirty => shown[o] = mem[VMEM_ADDR + o]

\* The memory the program sees is a flat one: loads return what was stored,
\* through splits at page boundaries, new pages and another directory.
Byte(l) == mem[PageWalk(Page(l)) * PAGE_SIZE + (l % PAGE_SIZE)]
Flat == INSTANCE FlatMemory WITH bytes <- [l \in Usable |-> Byte(l)], op <- op
ImplementsFlatMemory == Flat!Spec
===============================================================================
