----------------------------- MODULE MemoryProofs -----------------------------
(***************************************************************************)
(* Proofs about Memory, for every size of pages, tables, physical memory,  *)
(* screen and TLB, and for every program the linker may lay out.  Three    *)
(* parts, each of which uses those before it:                              *)
(*                                                                         *)
(* 1. The address space is sound, and the TLB, which nobody flushes, is    *)
(*    never wrong.                                                         *)
(* 2. The bytes: although the loader clears nothing, a program finds its   *)
(*    bss zero.                                                            *)
(* 3. The accesses: no assertion fails, the screen shows what was stored,  *)
(*    and the memory the program sees is the flat one of FlatMemory.       *)
(***************************************************************************)
EXTENDS Memory, FiniteSetTheorems, WellFoundedInduction, TLAPS

(***************************************************************************)
(* Part 1.  The address space and the TLB                                  *)
(*                                                                         *)
(* Why: a page of the program lies above physical memory and is given a    *)
(* frame once; the pages both directories have are the kernel's, which are *)
(* the same in both, and those of the screen, which are their own frames.  *)
(***************************************************************************)

Phases == {"init_page", "init_mm", "write_test", "load", "ide_read", "video",
           "write_cr3", "read_test", "clear", "user", "abort"}
WithVideo == {"write_cr3", "read_test", "clear", "user"}
Allocated == {"video"} \cup WithVideo
WithUpdir == {"read_test", "clear", "user"}

Mapped(p) == map["updir"][p] # None
KernelFrame(p) == IF p < NrFrames THEN p ELSE IF p >= KPage THEN p - KPage ELSE None
StackPages == Page(KOFFSET - STACK_SIZE) .. Page(KOFFSET - 1)
MallocPages(va, len) == Page(va) .. Page(va + len - 1)

MapInv ==
  /\ phase \in Phases /\ free \in UserFrame .. NrFrames
  /\ map \in [{"kpdir", "updir"} -> [Pages -> Frames \cup {None}]]
  /\ phase # "init_page" => \A p \in Pages : map["kpdir"][p] = KernelFrame(p)
  /\ phase \in {"init_page", "init_mm"} => \A p \in Pages : ~Mapped(p)
  /\ phase \notin {"init_page", "init_mm", "abort"} =>
       \A p \in Pages : p >= KPage => map["updir"][p] = p - KPage
  /\ phase \in WithVideo => \A p \in VideoMapped : Mapped(p)

\* Whose a frame is: the screen's, or one of those handed out, which serve
\* pages above physical memory and are not used twice.
OwnInv ==
  /\ \A p \in 0 .. KPage - 1 : Mapped(p) =>
       IF map["updir"][p] < UserFrame THEN p \in VideoMapped /\ map["updir"][p] = p
       ELSE p >= NrFrames /\ p >= NR_PTE /\ map["updir"][p] < free
  /\ \A p, q \in 0 .. KPage - 1 : p # q /\ Mapped(p) => map["updir"][p] # map["updir"][q]

\* How much of the program has frames
ProgramInv ==
  /\ seg \in 1 .. Len(Segments) + 1 /\ brk \in Nat /\ brk < KOFFSET
  /\ phase \in {"init_page", "init_mm"} => seg = 1
  /\ phase = "ide_read" => seg \in DOMAIN Segments
  /\ \A s \in DOMAIN Segments : s < seg \/ (s = seg /\ phase = "ide_read") =>
       \A p \in SegmentPages(Segments[s]) : Mapped(p)
  /\ phase \in Allocated =>
       seg = Len(Segments) + 1 /\ \A p \in StackPages : Mapped(p)
  /\ phase \notin {"user", "abort"} => brk < End
  /\ seg = Len(Segments) + 1 => brk >= End - 1
  /\ phase = "user" => \A l \in End .. brk - 1 : Mapped(Page(l))

SpaceInv == MapInv /\ OwnInv /\ ProgramInv

-------------------------------------------------------------------------------
(* Pages and sets of pages *)

\* Quotient and remainder
LEMMA DivMod ==
  ASSUME NEW n \in Nat, NEW k \in Nat \ {0}
  PROVE  /\ n \div k \in Nat /\ n % k \in 0 .. k - 1
         /\ n = (n % k) + k * (n \div k)
  OBVIOUS

\* A larger quotient is that of a larger number.
LEMMA DivMonotone ==
  ASSUME NEW m \in Nat, NEW n \in Nat, NEW k \in Nat \ {0}, m <= n
  PROVE  m \div k <= n \div k
  <1> DEFINE a == m \div k
             b == n \div k
  <1>1. a \in Nat /\ b \in Nat /\ m = (m % k) + k * a /\ n = (n % k) + k * b
        /\ m % k \in 0 .. k - 1 /\ n % k \in 0 .. k - 1
    BY DivMod
  <1> HIDE DEF a, b
  <1>2. ASSUME a >= b + 1 PROVE FALSE
    <2>1. k * a >= k * (b + 1)
      BY <1>1, <1>2
    <2>2. k * (b + 1) = k * b + k
      BY <1>1
    <2> QED
      BY <1>1, <2>1, <2>2
  <1>3. a <= b
    BY <1>1, <1>2
  <1> QED
    BY <1>3 DEF a, b

\* The page of an address, and the order of pages
LEMMA PageOrder ==
  ASSUME NEW l \in Nat, NEW r \in Nat
  PROVE  /\ Page(l) \in Nat
         /\ l <= r => Page(l) <= Page(r)
         /\ Page(l) < Page(r) => l < r
  <1>1. Page(l) \in Nat /\ Page(r) \in Nat
    BY DivMod, MemoryAssumption DEF Page
  <1>2. l <= r => Page(l) <= Page(r)
    BY DivMonotone, MemoryAssumption DEF Page
  <1>3. r <= l => Page(r) <= Page(l)
    BY DivMonotone, MemoryAssumption DEF Page
  <1> QED
    BY <1>1, <1>2, <1>3

\* What lies below KOFFSET is in a page below its.
LEMMA BelowKernel ==
  ASSUME NEW l \in Nat, l < KOFFSET
  PROVE  Page(l) < KPage
  <1>1. l = (l % PAGE_SIZE) + PAGE_SIZE * Page(l) /\ l % PAGE_SIZE \in 0 .. PAGE_SIZE - 1
        /\ Page(l) \in Nat /\ PAGE_SIZE \in Nat \ {0} /\ KPage \in Nat
    BY DivMod, MemoryAssumption DEF Page
  <1>2. ASSUME Page(l) >= KPage PROVE FALSE
    <2>1. PAGE_SIZE * Page(l) >= KPage * PAGE_SIZE
      BY <1>1, <1>2
    <2> QED
      BY <1>1, <2>1 DEF KOFFSET
  <1> QED
    BY <1>1, <1>2

\* The place of an element among those of a set of integers
Rank(S, p) == Cardinality({r \in S : r < p})

LEMMA Ranks ==
  ASSUME NEW a \in Int, NEW b \in Int, NEW S \in SUBSET (a .. b)
  PROVE  /\ Cardinality(S) \in Nat
         /\ \A p \in S : Rank(S, p) \in 0 .. Cardinality(S) - 1
         /\ \A p, q \in S : p < q => Rank(S, p) < Rank(S, q)
  <1>0. \A x \in S : x \in Int
    OBVIOUS
  <1>1. IsFiniteSet(S)
    BY FS_Interval, FS_Subset
  <1>2. ASSUME NEW T \in SUBSET S, NEW R \in SUBSET T, R # T
        PROVE  Cardinality(R) \in Nat /\ Cardinality(T) \in Nat
               /\ Cardinality(R) < Cardinality(T)
    <2>1. IsFiniteSet(T) /\ IsFiniteSet(R)
      BY <1>1, FS_Subset
    <2>2. Cardinality(R) \in Nat /\ Cardinality(T) \in Nat
      BY <2>1, FS_CardinalityType
    <2>3. Cardinality(R) <= Cardinality(T) /\ (Cardinality(T) = Cardinality(R) => T = R)
      BY <2>1, FS_Subset
    <2> QED
      BY <1>2, <2>2, <2>3
  <1>3. ASSUME NEW p \in S
        PROVE  Rank(S, p) \in 0 .. Cardinality(S) - 1
    <2>1. {r \in S : r < p} \in SUBSET S /\ p \notin {r \in S : r < p}
      BY <1>0
    <2> QED
      BY <1>2, <2>1 DEF Rank
  <1>4. ASSUME NEW p \in S, NEW q \in S, p < q
        PROVE  Rank(S, p) < Rank(S, q)
    <2>1. {r \in S : r < p} \in SUBSET {r \in S : r < q}
      <3>1. \A r \in S : r < p => r < q
        BY <1>0, <1>4
      <3> QED
        BY <3>1
    <2>2. p \in {r \in S : r < q} /\ p \notin {r \in S : r < p}
      BY <1>0, <1>4
    <2> QED
      BY <1>2, <2>1, <2>2 DEF Rank
  <1>5. Cardinality(S) \in Nat
    BY <1>1, FS_CardinalityType
  <1> QED
    BY <1>3, <1>4, <1>5

\* How a program is laid out
LEMMA Layout ==
  /\ KOFFSET \in Nat /\ KOFFSET - STACK_SIZE \in Nat /\ STACK_SIZE \in Nat \ {0}
  /\ Len(Segments) \in Nat \ {0} /\ DOMAIN Segments = 1 .. Len(Segments)
  /\ \A s \in DOMAIN Segments :
       /\ Segments[s].vaddr \in Nat /\ Segments[s].memsz \in Nat \ {0}
       /\ Segments[s].vaddr + Segments[s].memsz <= KOFFSET - STACK_SIZE
       /\ Segments[s].vaddr + Segments[s].memsz <= End
       /\ Page(Segments[s].vaddr) >= NrFrames /\ Page(Segments[s].vaddr) >= NR_PTE
  /\ End \in Nat \ {0} /\ End <= KOFFSET - STACK_SIZE
  /\ \A l \in Nat : l >= End - 1 => Page(l) >= NrFrames /\ Page(l) >= NR_PTE
  <1>1. Segments \in Seq([vaddr : Nat, memsz : Nat \ {0}, bytes : Seq(Nat)])
        /\ Segments # << >>
    BY ProgramAssumption
  <1>2. Len(Segments) \in Nat \ {0} /\ DOMAIN Segments = 1 .. Len(Segments)
    BY <1>1
  <1>3. ASSUME NEW s \in DOMAIN Segments
        PROVE  /\ Segments[s].vaddr \in Nat /\ Segments[s].memsz \in Nat \ {0}
               /\ Segments[s].vaddr + Segments[s].memsz <= KOFFSET - STACK_SIZE
               /\ Page(Segments[s].vaddr) >= NrFrames /\ Page(Segments[s].vaddr) >= NR_PTE
    <2> DEFINE T == [vaddr : Nat, memsz : Nat \ {0}, bytes : Seq(Nat)]
    <2>1. Segments \in Seq(T) /\ s \in 1 .. Len(Segments)
      BY <1>1, <1>2
    <2> HIDE DEF T
    <2>2. Segments[s] \in T
      BY <2>1
    <2> QED
      BY <2>2, ProgramAssumption DEF T
  <1>4. KOFFSET \in Nat /\ STACK_SIZE \in Nat \ {0}
    BY MemoryAssumption DEF KOFFSET
  <1>5. Len(Segments) \in DOMAIN Segments
    BY <1>2
  <1>6. End \in Nat \ {0} /\ End <= KOFFSET - STACK_SIZE
        /\ End - 1 >= Segments[Len(Segments)].vaddr
    BY <1>3, <1>4, <1>5 DEF End
  <1>7. ASSUME NEW s \in DOMAIN Segments
        PROVE  Segments[s].vaddr + Segments[s].memsz <= End
    <2> DEFINE last == Segments[s].vaddr + Segments[s].memsz - 1
               top == Segments[Len(Segments)].vaddr
    <2>1. CASE s = Len(Segments)
      BY <2>1, <1>6 DEF End
    <2>2. CASE s < Len(Segments)
      <3>1. last \in Nat /\ top \in Nat /\ Segments[s].vaddr <= last
        BY <1>3, <1>5
      <3>2. Page(last) \in SegmentPages(Segments[s])
        BY <1>3, <3>1, PageOrder DEF SegmentPages
      <3>3. Page(last) < Page(top)
        BY <2>2, <3>2, <1>5, ProgramAssumption
      <3>4. last < top
        BY <3>1, <3>3, PageOrder
      <3> QED
        BY <3>1, <3>4, <1>3, <1>6
    <2> QED
      BY <1>2, <2>1, <2>2
  <1>8. ASSUME NEW l \in Nat, l >= End - 1
        PROVE  Page(l) >= NrFrames /\ Page(l) >= NR_PTE
    <2> DEFINE top == Segments[Len(Segments)].vaddr
    <2>1. top \in Nat /\ top <= l /\ Page(top) >= NrFrames /\ Page(top) >= NR_PTE
      BY <1>3, <1>5, <1>6, <1>8
    <2>2. Page(top) \in Nat /\ Page(l) \in Nat /\ Page(top) <= Page(l)
      BY <2>1, PageOrder
    <2> QED
      BY <2>1, <2>2, MemoryAssumption
  <1> QED
    BY <1>2, <1>3, <1>4, <1>6, <1>7, <1>8

-------------------------------------------------------------------------------
(* mm_malloc: pages get frames of their own, and those they have stay.       *)

LEMMA MallocMaps ==
  ASSUME SpaceInv, NEW va \in Nat, NEW len \in Nat \ {0}, va + len <= KOFFSET,
         Page(va) >= NrFrames, Page(va) >= NR_PTE, MmMalloc(va, len)
  PROVE  /\ free' \in UserFrame .. NrFrames
         /\ map' \in [{"kpdir", "updir"} -> [Pages -> Frames \cup {None}]]
         /\ map'["kpdir"] = map["kpdir"]
         /\ \A p \in Pages : Mapped(p) => map'["updir"][p] = map["updir"][p]
         /\ \A p \in MallocPages(va, len) : p \in 0 .. KPage - 1 /\ Mapped(p)'
         /\ OwnInv'
  <1> DEFINE new == NewPages(va, len)
             R(p) == Rank(new, p)
  <1>0. /\ UserFrame \in Nat /\ NrFrames \in Nat /\ UserFrame < NrFrames /\ KPage \in Nat
        /\ NR_PTE \in Nat /\ free \in UserFrame .. NrFrames /\ Pages = 0 .. KPage + NrFrames - 1
        /\ Frames = 0 .. NrFrames - 1 /\ None = -1
        /\ map \in [{"kpdir", "updir"} -> [Pages -> Frames \cup {None}]]
    BY MemoryAssumption DEF SpaceInv, MapInv, Frames, Pages, None
  <1>1. Page(va) \in Nat /\ Page(va + len - 1) \in Nat /\ Page(va + len - 1) < KPage
    <2>1. va + len - 1 \in Nat /\ va + len - 1 < KOFFSET
      BY Layout
    <2> QED
      BY <2>1, PageOrder, BelowKernel
  <1>2. \A p \in MallocPages(va, len) : p \in 0 .. KPage - 1 /\ p \in Pages
                                        /\ p >= NrFrames /\ p >= NR_PTE
    BY <1>0, <1>1 DEF MallocPages
  <1>3. /\ new \in SUBSET (Page(va) .. Page(va + len - 1))
        /\ \A p \in MallocPages(va, len) : p \in new <=> ~Mapped(p)
    BY DEF NewPages, MallocPages, Mapped
  <1>4. /\ free + Cardinality(new) <= NrFrames /\ free' = free + Cardinality(new)
        /\ map' = [map EXCEPT !["updir"] = [p \in Pages |->
                     IF p \in new THEN free + R(p) ELSE @[p]]]
    BY DEF MmMalloc, Rank
  <1> HIDE DEF new
  <1>5. /\ Cardinality(new) \in Nat
        /\ \A p \in new : R(p) \in 0 .. Cardinality(new) - 1
        /\ \A p, q \in new : p < q => R(p) < R(q)
    <2>1. Page(va) \in Int /\ Page(va + len - 1) \in Int
      BY <1>1
    <2>2. new \in SUBSET (Page(va) .. Page(va + len - 1))
      BY <1>3
    <2> QED
      BY <2>1, <2>2, Ranks, Zenon
  <1>6. \A p \in new : p \in MallocPages(va, len) /\ ~Mapped(p)
    BY <1>3 DEF MallocPages
  <1> HIDE DEF R
  <1>7. free' \in UserFrame .. NrFrames
    BY <1>0, <1>5, <1>4
  <1>8. \A p \in new : free + R(p) \in free .. free' - 1 /\ free + R(p) \in Frames
    BY <1>0, <1>5, <1>4
  <1>9. \A p \in Pages : (IF p \in new THEN free + R(p) ELSE map["updir"][p]) \in Frames \cup {None}
    BY <1>0, <1>8
  <1>10. /\ map' \in [{"kpdir", "updir"} -> [Pages -> Frames \cup {None}]]
         /\ map'["kpdir"] = map["kpdir"]
         /\ \A p \in Pages : map'["updir"][p] = IF p \in new THEN free + R(p)
                                                ELSE map["updir"][p]
    <2>1. [p \in Pages |-> IF p \in new THEN free + R(p) ELSE map["updir"][p]]
             \in [Pages -> Frames \cup {None}]
      BY <1>9
    <2> QED
      BY <1>0, <1>4, <2>1
  <1>11. \A p \in Pages : Mapped(p) => map'["updir"][p] = map["updir"][p]
    BY <1>6, <1>10
  <1>12. \A p \in MallocPages(va, len) : p \in 0 .. KPage - 1 /\ Mapped(p)'
    BY <1>0, <1>2, <1>3, <1>8, <1>10 DEF Mapped
  <1>13. OwnInv'
    <2>0. \A p \in 0 .. KPage - 1 : p \in Pages
      BY <1>0
    <2>1. ASSUME NEW p \in 0 .. KPage - 1, Mapped(p)'
          PROVE  IF map'["updir"][p] < UserFrame THEN p \in VideoMapped /\ map'["updir"][p] = p
                 ELSE p >= NrFrames /\ p >= NR_PTE /\ map'["updir"][p] < free'
      <3>1. CASE p \in new
        BY <3>1, <2>0, <1>0, <1>2, <1>6, <1>7, <1>8, <1>10
      <3>2. CASE p \notin new
        <4>1. map'["updir"][p] = map["updir"][p] /\ Mapped(p)
          BY <3>2, <2>0, <2>1, <1>10 DEF Mapped
        <4>2. map["updir"][p] \in Frames \cup {None}
          BY <1>0, <2>0
        <4> QED
          BY <4>1, <4>2, <1>0, <1>5, <1>4 DEF SpaceInv, OwnInv
      <3> QED
        BY <3>1, <3>2
    <2>2. ASSUME NEW p \in 0 .. KPage - 1, NEW q \in 0 .. KPage - 1, p # q, Mapped(p)'
          PROVE  map'["updir"][p] # map'["updir"][q]
      <3>1. /\ map["updir"][p] \in Frames \cup {None} /\ map["updir"][q] \in Frames \cup {None}
            /\ p \notin new => Mapped(p)
        BY <1>0, <1>10, <2>0, <2>2 DEF Mapped
      <3>2. CASE p \in new /\ q \in new
        <4>1. R(p) # R(q)
          <5>1. p < q \/ q < p
            BY <2>2
          <5>2. R(p) \in Nat /\ R(q) \in Nat
            BY <1>5, <3>2
          <5> QED
            BY <5>1, <5>2, <1>5, <3>2
        <4> QED
          BY <4>1, <3>2, <2>0, <1>0, <1>5, <1>10
      <3>3. \A r \in 0 .. KPage - 1 : r \notin new => map["updir"][r] < free
        <4> SUFFICES ASSUME NEW r \in 0 .. KPage - 1, r \notin new PROVE map["updir"][r] < free
          OBVIOUS
        <4>1. map["updir"][r] \in Frames \cup {None}
          BY <1>0, <2>0
        <4> QED
          BY <4>1, <1>0 DEF SpaceInv, OwnInv, Mapped
      <3>4. CASE p \in new /\ q \notin new
        BY <3>4, <3>3, <3>1, <2>0, <1>0, <1>8, <1>10
      <3>5. CASE p \notin new /\ q \in new
        BY <3>5, <3>3, <3>1, <2>0, <1>0, <1>8, <1>10
      <3>6. CASE p \notin new /\ q \notin new
        BY <3>6, <3>1, <2>0, <2>2, <1>10 DEF SpaceInv, OwnInv
      <3> QED
        BY <3>2, <3>4, <3>5, <3>6
    <2> QED
      BY <2>1, <2>2 DEF OwnInv, Mapped
  <1> QED
    BY <1>7, <1>10, <1>11, <1>12, <1>13

-------------------------------------------------------------------------------
(* The address space *)

\* An access changes nothing of it, but may end the run.
Quiet ==
  /\ UNCHANGED <<map, free, brk, seg>>
  /\ phase' = phase \/ (phase' = "abort" /\ phase # "init_page")

LEMMA AccessesAreQuiet ==
  ASSUME \/ WriteTest \/ IdeRead \/ ReadTest \/ Clear \/ KernelRuns \/ UserStore \/ UserLoad
         \/ UpdateScreen \/ UNCHANGED vars
  PROVE  Quiet
  <1> USE DEF Quiet, paging, boot, Abort
  <1>1. ASSUME NEW l, NEW len, NEW d, NEW next, KernelStore(l, len, d, next),
               phase # "init_page"
        PROVE  Quiet
    BY <1>1 DEF KernelStore
  <1>2. ASSUME NEW l, NEW len, NEW d, NEW next, KernelLoad(l, len, d, next),
               phase # "init_page"
        PROVE  Quiet
    BY <1>2 DEF KernelLoad
  <1>3. CASE WriteTest \/ IdeRead \/ Clear
    BY <1>1, <1>3 DEF WriteTest, IdeRead, Clear
  <1>4. CASE ReadTest
    BY <1>2, <1>4 DEF ReadTest
  <1>5. CASE KernelRuns
    BY <1>5 DEF KernelRuns
  <1>6. ASSUME NEW l, NEW len, NEW d, StoreAt(l, len, d) PROVE Quiet
    BY <1>6 DEF StoreAt
  <1>7. ASSUME NEW l, NEW len, LoadAt(l, len) PROVE Quiet
    BY <1>7 DEF LoadAt
  <1>8. CASE UserStore
    BY <1>8, <1>6 DEF UserStore
  <1>9. CASE UserLoad
    BY <1>9, <1>7 DEF UserLoad
  <1>10. CASE UpdateScreen \/ UNCHANGED vars
    BY <1>10 DEF UpdateScreen, vars
  <1> QED
    BY <1>3, <1>4, <1>5, <1>8, <1>9, <1>10

LEMMA QuietSpace == SpaceInv /\ Quiet => SpaceInv'
  BY DEF SpaceInv, MapInv, OwnInv, ProgramInv, Mapped, Phases, Allocated, WithVideo, Quiet

LEMMA InitSpace == Init => SpaceInv
  <1> SUFFICES ASSUME Init PROVE SpaceInv
    OBVIOUS
  <1> USE DEF Init, Mapped
  <1>1. MapInv
    BY MemoryAssumption DEF MapInv, Phases, WithVideo, Frames
  <1>2. OwnInv
    BY MemoryAssumption DEF OwnInv, Pages
  <1>3. ProgramInv
    BY Layout DEF ProgramInv, Allocated, WithVideo
  <1> QED
    BY <1>1, <1>2, <1>3 DEF SpaceInv

\* The kernel's directory, and the part of it that the program's gets
LEMMA DirectoriesSpace == ASSUME SpaceInv, InitPage \/ InitMm PROVE SpaceInv'
  <1>0. /\ KPage \in Nat /\ NrFrames \in Nat /\ KPage > NrFrames
        /\ Pages = 0 .. KPage + NrFrames - 1 /\ Frames = 0 .. NrFrames - 1 /\ None = -1
    BY MemoryAssumption DEF Pages, Frames, None
  <1>1. \A p \in Pages : KernelFrame(p) \in Frames \cup {None}
    BY <1>0 DEF KernelFrame
  <1>2. CASE InitPage
    <2>0. [p \in Pages |-> KernelFrame(p)] \in [Pages -> Frames \cup {None}]
      BY <1>1
    <2>1. map' = [map EXCEPT !["kpdir"] = [p \in Pages |-> KernelFrame(p)]]
          /\ phase = "init_page" /\ phase' = "init_mm" /\ UNCHANGED <<free, brk, seg>>
      BY <1>2 DEF InitPage, KernelFrame, Goto
    <2>2. map' \in [{"kpdir", "updir"} -> [Pages -> Frames \cup {None}]]
          /\ map'["kpdir"] = [p \in Pages |-> KernelFrame(p)]
          /\ map'["updir"] = map["updir"]
      BY <2>0, <2>1 DEF SpaceInv, MapInv
    <2> QED
      BY <2>1, <2>2 DEF SpaceInv, MapInv, OwnInv, ProgramInv, Mapped, Phases, Allocated, WithVideo
  <1>3. CASE InitMm
    <2> DEFINE f(p) == IF p >= KPage THEN map["kpdir"][p] ELSE None
    <2>0. \A p \in Pages : map["kpdir"][p] = KernelFrame(p) /\ ~Mapped(p)
      BY <1>3 DEF InitMm, SpaceInv, MapInv
    <2>1. \A p \in Pages : f(p) \in Frames \cup {None}
      BY <2>0, <1>1
    <2>2. [p \in Pages |-> f(p)] \in [Pages -> Frames \cup {None}]
      BY <2>1
    <2>3. map' = [map EXCEPT !["updir"] = [p \in Pages |-> f(p)]]
          /\ phase = "init_mm" /\ phase' = "write_test" /\ UNCHANGED <<free, brk, seg>>
      BY <1>3 DEF InitMm, Goto
    <2> HIDE DEF f
    <2>4. map' \in [{"kpdir", "updir"} -> [Pages -> Frames \cup {None}]]
          /\ map'["kpdir"] = map["kpdir"]
          /\ \A p \in Pages : map'["updir"][p] = f(p)
      BY <2>2, <2>3 DEF SpaceInv, MapInv
    <2>5. \A p \in Pages : f(p) = IF p >= KPage THEN p - KPage ELSE None
      BY <2>0, <1>0 DEF f, KernelFrame
    <2>6. MapInv'
      BY <2>0, <2>3, <2>4, <2>5 DEF SpaceInv, MapInv, Phases, WithVideo
    <2>7. OwnInv'
      BY <2>4, <2>5, <1>0 DEF OwnInv, Mapped
    <2>8. ProgramInv'
      <3>1. seg = 1 /\ \A s \in DOMAIN Segments : ~(s < seg)
        BY <2>3, Layout DEF SpaceInv, ProgramInv
      <3> QED
        BY <2>3, <3>1, Layout DEF SpaceInv, ProgramInv, Allocated, WithVideo, Mapped
    <2> QED
      BY <2>6, <2>7, <2>8 DEF SpaceInv
  <1> QED
    BY <1>2, <1>3

\* The pages of a program are below the kernel's.
LEMMA ProgramPages ==
  /\ \A l \in Nat : l < KOFFSET => Page(l) \in 0 .. KPage - 1
  /\ \A s \in DOMAIN Segments : SegmentPages(Segments[s]) \subseteq 0 .. KPage - 1
  /\ StackPages \subseteq 0 .. KPage - 1
  /\ KPage \in Nat /\ 0 .. KPage - 1 \subseteq Pages
  <1>1. \A l \in Nat : l < KOFFSET => Page(l) \in 0 .. KPage - 1
    BY PageOrder, BelowKernel, MemoryAssumption
  <1>2. ASSUME NEW l \in Nat, NEW r \in Nat, r < KOFFSET
        PROVE  Page(l) .. Page(r) \subseteq 0 .. KPage - 1
    <2>1. Page(l) \in Nat
      BY PageOrder
    <2>2. Page(r) \in 0 .. KPage - 1 /\ KPage \in Nat
      BY <1>1, <1>2, MemoryAssumption
    <2> QED
      BY <2>1, <2>2
  <1>3. \A s \in DOMAIN Segments : SegmentPages(Segments[s]) \subseteq 0 .. KPage - 1
    BY <1>2, Layout DEF SegmentPages
  <1>4. StackPages \subseteq 0 .. KPage - 1
    BY <1>2, Layout DEF StackPages
  <1>5. KPage \in Nat /\ 0 .. KPage - 1 \subseteq Pages
    BY MemoryAssumption DEF Pages
  <1> QED
    BY <1>1, <1>3, <1>4, <1>5

Running == Phases \ {"init_page", "init_mm", "abort"}

LEMMA MallocSpace ==
  ASSUME SpaceInv, NEW va \in Nat, NEW len \in Nat \ {0}, va + len <= KOFFSET,
         Page(va) >= NrFrames, Page(va) >= NR_PTE, MmMalloc(va, len),
         phase \in Running, phase' \in Running, phase' \in WithVideo => phase \in WithVideo
  PROVE  /\ MapInv' /\ OwnInv'
         /\ \A p \in 0 .. KPage - 1 : Mapped(p) => Mapped(p)'
         /\ \A p \in MallocPages(va, len) : Mapped(p)'
  <1>1. /\ free' \in UserFrame .. NrFrames
        /\ map' \in [{"kpdir", "updir"} -> [Pages -> Frames \cup {None}]]
        /\ map'["kpdir"] = map["kpdir"]
        /\ \A p \in Pages : Mapped(p) => map'["updir"][p] = map["updir"][p]
        /\ \A p \in MallocPages(va, len) : Mapped(p)'
        /\ OwnInv'
    BY MallocMaps
  <1>2. \A p \in Pages : Mapped(p) => Mapped(p)'
    BY <1>1 DEF Mapped
  <1>3. \A p \in Pages : p >= KPage => map["updir"][p] = p - KPage /\ Mapped(p)
    <2>1. \A p \in Pages : p >= KPage => map["updir"][p] = p - KPage
      BY DEF SpaceInv, MapInv, Running
    <2> QED
      BY <2>1, MemoryAssumption DEF Mapped, None, Pages
  <1>4. VideoMapped \subseteq Pages
    BY MemoryAssumption DEF Pages, Frames
  <1>5. MapInv'
    BY <1>1, <1>2, <1>3, <1>4 DEF SpaceInv, MapInv, Running, Phases
  <1> QED
    BY <1>1, <1>2, <1>5, ProgramPages

LEMMA LoadSegmentSpace == ASSUME SpaceInv, LoadSegment PROVE SpaceInv'
  <1> DEFINE s == Segments[seg]
  <1>1. /\ phase = "load" /\ phase' = "ide_read" /\ seg \in DOMAIN Segments
        /\ UNCHANGED <<seg, brk>> /\ MmMalloc(s.vaddr, s.memsz)
    BY Layout DEF LoadSegment, Goto, SpaceInv, ProgramInv
  <1>2. /\ s.vaddr \in Nat /\ s.memsz \in Nat \ {0} /\ s.vaddr + s.memsz <= KOFFSET
        /\ Page(s.vaddr) >= NrFrames /\ Page(s.vaddr) >= NR_PTE
    BY <1>1, Layout
  <1>3. /\ MapInv' /\ OwnInv'
        /\ \A p \in 0 .. KPage - 1 : Mapped(p) => Mapped(p)'
        /\ \A p \in MallocPages(s.vaddr, s.memsz) : Mapped(p)'
    BY <1>1, <1>2, MallocSpace DEF Running, Phases, WithVideo
  <1>4. MallocPages(s.vaddr, s.memsz) = SegmentPages(s)
    BY DEF MallocPages, SegmentPages
  <1>5. ProgramInv'
    BY <1>1, <1>3, <1>4, ProgramPages, Layout DEF SpaceInv, ProgramInv, Allocated, WithVideo
  <1> QED
    BY <1>3, <1>5 DEF SpaceInv

LEMMA StackSpace == ASSUME SpaceInv, Stack PROVE SpaceInv'
  <1> DEFINE va == KOFFSET - STACK_SIZE
  <1>1. /\ phase = "load" /\ phase' = "video" /\ seg = Len(Segments) + 1
        /\ UNCHANGED <<seg, brk>> /\ MmMalloc(va, STACK_SIZE)
    BY Layout DEF Stack, Goto, SpaceInv, ProgramInv
  <1>2. /\ va \in Nat /\ STACK_SIZE \in Nat \ {0} /\ va + STACK_SIZE = KOFFSET
        /\ Page(va) >= NrFrames /\ Page(va) >= NR_PTE
    BY Layout
  <1>3. /\ MapInv' /\ OwnInv'
        /\ \A p \in 0 .. KPage - 1 : Mapped(p) => Mapped(p)'
        /\ \A p \in MallocPages(va, STACK_SIZE) : Mapped(p)'
    BY <1>1, <1>2, MallocSpace DEF Running, Phases, WithVideo
  <1>4. MallocPages(va, STACK_SIZE) = StackPages
    BY <1>2 DEF MallocPages, StackPages
  <1>5. ProgramInv'
    BY <1>1, <1>3, <1>4, ProgramPages, Layout DEF SpaceInv, ProgramInv, Allocated, WithVideo
  <1> QED
    BY <1>3, <1>5 DEF SpaceInv

\* The break moves up over pages that get frames, or down.
LEMMA SysBrkSpace == ASSUME SpaceInv, SysBrk PROVE SpaceInv'
  <1>1. PICK new \in Breaks : MmBrk(new)
    BY DEF SysBrk
  <1>2. /\ phase = "user" /\ UNCHANGED <<phase, seg>> /\ brk' = new /\ seg = Len(Segments) + 1
        /\ brk \in Nat /\ brk >= End - 1
    BY <1>1 DEF SysBrk, boot, MmBrk, SpaceInv, ProgramInv, Allocated, WithVideo
  <1>3. new \in Nat /\ new >= End /\ new <= KOFFSET - STACK_SIZE
    BY ProgramAssumption, MemoryAssumption
  <1>4. /\ MapInv' /\ OwnInv'
        /\ \A p \in 0 .. KPage - 1 : Mapped(p) => Mapped(p)'
        /\ \A l \in brk .. new - 1 : Mapped(Page(l))'
    <2>1. CASE new > brk
      <3>1. /\ new - brk \in Nat \ {0} /\ brk + (new - brk) <= KOFFSET
            /\ Page(brk) >= NrFrames /\ Page(brk) >= NR_PTE /\ MmMalloc(brk, new - brk)
        BY <2>1, <1>1, <1>2, <1>3, Layout DEF MmBrk
      <3>2. /\ MapInv' /\ OwnInv'
            /\ \A p \in 0 .. KPage - 1 : Mapped(p) => Mapped(p)'
            /\ \A p \in MallocPages(brk, new - brk) : Mapped(p)'
        BY <1>2, <3>1, MallocSpace DEF Running, Phases
      <3>3. ASSUME NEW l \in brk .. new - 1 PROVE Page(l) \in MallocPages(brk, new - brk)
        <4>1. l \in Nat /\ new - 1 \in Nat /\ brk + (new - brk) - 1 = new - 1
          BY <1>2, <1>3
        <4>2. Page(brk) <= Page(l) /\ Page(l) <= Page(new - 1) /\ Page(l) \in Nat
              /\ Page(brk) \in Nat /\ Page(new - 1) \in Nat
          BY <1>2, <4>1, PageOrder
        <4> QED
          BY <4>1, <4>2 DEF MallocPages
      <3> QED
        BY <3>2, <3>3
    <2>2. CASE ~(new > brk)
      <3>1. UNCHANGED <<map, free>>
        BY <1>1, <2>2 DEF MmBrk
      <3>2. brk .. new - 1 = {}
        BY <2>2, <1>2, <1>3
      <3> QED
        BY <1>2, <3>1, <3>2 DEF SpaceInv, MapInv, OwnInv, Mapped
    <2> QED
      BY <2>1, <2>2
  <1>5. ASSUME NEW l \in End .. new - 1 PROVE Mapped(Page(l))'
    <2>1. CASE l < brk
      <3>1. l \in End .. brk - 1 /\ l \in Nat /\ l < KOFFSET
        BY <2>1, <1>2, <1>3, Layout
      <3> QED
        BY <3>1, <1>2, <1>4, ProgramPages DEF SpaceInv, ProgramInv
    <2>2. CASE ~(l < brk)
      BY <2>2, <1>2, <1>4, Layout
    <2> QED
      BY <2>1, <2>2
  <1>6. ProgramInv'
    BY <1>2, <1>3, <1>4, <1>5, ProgramPages, Layout DEF SpaceInv, ProgramInv, Allocated, WithVideo
  <1> QED
    BY <1>4, <1>6 DEF SpaceInv

\* A segment is loaded, and the break is in its last byte.
LEMMA RecordBrkSpace == ASSUME SpaceInv, RecordBrk PROVE SpaceInv'
  <1> DEFINE last == Segments[seg].vaddr + Segments[seg].memsz - 1
  <1>1. /\ phase = "ide_read" /\ phase' = "load" /\ seg' = seg + 1 /\ seg \in DOMAIN Segments
        /\ brk' = (IF brk < last THEN last ELSE brk) /\ UNCHANGED <<map, free>>
        /\ brk \in Nat /\ brk < End
    BY DEF RecordBrk, Goto, SpaceInv, ProgramInv
  <1>2. last \in Nat /\ last < End /\ End \in Nat /\ End < KOFFSET /\ KOFFSET \in Nat
        /\ (seg = Len(Segments) => last = End - 1)
    <2>1. seg = Len(Segments) => Segments[seg].vaddr + Segments[seg].memsz = End
      BY DEF End
    <2>2. /\ Segments[seg].vaddr \in Nat /\ Segments[seg].memsz \in Nat \ {0}
          /\ Segments[seg].vaddr + Segments[seg].memsz <= End
          /\ End \in Nat \ {0} /\ End <= KOFFSET - STACK_SIZE
          /\ KOFFSET \in Nat /\ STACK_SIZE \in Nat \ {0}
      BY <1>1, Layout
    <2>3. last \in Nat /\ last < End /\ End \in Nat /\ End < KOFFSET /\ KOFFSET \in Nat
      BY <2>2
    <2>4. Segments[seg].vaddr + Segments[seg].memsz = End => last = End - 1
      BY <2>2
    <2> QED
      BY <2>1, <2>3, <2>4
  <1>3. brk' \in Nat /\ brk' < End /\ last <= brk' /\ brk' < KOFFSET
    BY <1>1, <1>2
  <1> HIDE DEF last
  <1>4. seg \in 1 .. Len(Segments) /\ Len(Segments) \in Nat
    BY <1>1, Layout
  <1>5. seg' \in 1 .. Len(Segments) + 1 /\ (seg' = Len(Segments) + 1 => brk' >= End - 1)
    BY <1>1, <1>2, <1>3, <1>4
  <1>6. ASSUME NEW s \in DOMAIN Segments, s < seg', NEW p \in SegmentPages(Segments[s])
        PROVE  Mapped(p)'
    <2>1. s < seg \/ s = seg
      BY <1>1, <1>4, <1>6, Layout
    <2> QED
      BY <2>1, <1>1, <1>6 DEF SpaceInv, ProgramInv, Mapped
  <1>7. ProgramInv'
    BY <1>1, <1>3, <1>5, <1>6 DEF ProgramInv, Allocated, WithVideo
  <1>8. MapInv' /\ OwnInv'
    BY <1>1 DEF SpaceInv, MapInv, OwnInv, Mapped, Phases, WithVideo
  <1> QED
    BY <1>7, <1>8 DEF SpaceInv

\* The pages of the program are not those of the first table.
LEMMA VideoSpace == ASSUME SpaceInv, CreateVideoMapping PROVE SpaceInv'
  <1> DEFINE f(p) == IF p >= NR_PTE THEN map["updir"][p]
                     ELSE IF p \in VideoMapped THEN p ELSE None
  <1>0. /\ KPage \in Nat /\ NrFrames \in Nat /\ KPage > NrFrames /\ NR_PTE \in Nat
        /\ UserFrame \in Frames /\ Pages = 0 .. KPage + NrFrames - 1
        /\ Frames = 0 .. NrFrames - 1 /\ None = -1
        /\ \A p \in VideoMapped : p \in 0 .. UserFrame - 1 /\ p \in 0 .. NR_PTE - 1
    BY MemoryAssumption DEF Pages, Frames, None
  <1>1. NR_PTE < KPage
    <2>1. End - 1 \in Nat /\ End - 1 < KOFFSET
      BY Layout
    <2>2. Page(End - 1) >= NR_PTE /\ Page(End - 1) \in 0 .. KPage - 1
      BY <2>1, Layout, ProgramPages
    <2> QED
      BY <2>2, <1>0
  <1>2. /\ phase = "video" /\ phase' = "write_cr3" /\ UNCHANGED <<seg, free, brk>>
        /\ map' = [map EXCEPT !["updir"] = [p \in Pages |-> f(p)]]
        /\ map \in [{"kpdir", "updir"} -> [Pages -> Frames \cup {None}]]
    BY DEF CreateVideoMapping, Goto, SpaceInv, MapInv
  <1>3. \A p \in Pages : f(p) \in Frames \cup {None}
    BY <1>0, <1>2
  <1>4. [p \in Pages |-> f(p)] \in [Pages -> Frames \cup {None}]
    BY <1>3
  <1>5. /\ \A p \in Pages : p >= NR_PTE => f(p) = map["updir"][p]
        /\ \A p \in Pages : ~(p >= NR_PTE) => f(p) = IF p \in VideoMapped THEN p ELSE None
    OBVIOUS
  <1> HIDE DEF f
  <1>6. /\ map' \in [{"kpdir", "updir"} -> [Pages -> Frames \cup {None}]]
        /\ map'["kpdir"] = map["kpdir"]
        /\ \A p \in Pages : map'["updir"][p] = f(p)
    BY <1>2, <1>4
  <1>7. MapInv'
    <2>1. \A p \in Pages : p >= KPage => map'["updir"][p] = p - KPage
      <3>1. \A p \in Pages : p >= KPage => map["updir"][p] = p - KPage
        BY <1>2 DEF SpaceInv, MapInv
      <3>2. \A p \in Pages : p >= KPage => p >= NR_PTE
        BY <1>0, <1>1
      <3> QED
        BY <3>1, <3>2, <1>5, <1>6
    <2>2. \A p \in VideoMapped : Mapped(p)'
      BY <1>0, <1>5, <1>6 DEF Mapped
    <2>3. \A p \in Pages : map'["kpdir"][p] = KernelFrame(p)
      BY <1>2, <1>6 DEF SpaceInv, MapInv
    <2> QED
      BY <1>2, <1>6, <2>1, <2>2, <2>3 DEF SpaceInv, MapInv, Phases
  <1>8. \A p \in 0 .. KPage - 1 : p \in Pages
    BY <1>0
  <1>9. OwnInv'
    <2>1. ASSUME NEW p \in 0 .. KPage - 1, Mapped(p)'
          PROVE  IF map'["updir"][p] < UserFrame THEN p \in VideoMapped /\ map'["updir"][p] = p
                 ELSE p >= NrFrames /\ p >= NR_PTE /\ map'["updir"][p] < free'
      <3>1. CASE p >= NR_PTE
        BY <3>1, <2>1, <1>2, <1>5, <1>6, <1>8 DEF SpaceInv, OwnInv, Mapped
      <3>2. CASE ~(p >= NR_PTE)
        BY <3>2, <2>1, <1>0, <1>5, <1>6, <1>8 DEF Mapped
      <3> QED
        BY <3>1, <3>2
    <2>2. ASSUME NEW p \in 0 .. KPage - 1, NEW q \in 0 .. KPage - 1, p # q, Mapped(p)'
          PROVE  map'["updir"][p] # map'["updir"][q]
      <3> DEFINE IsScreen(r) == r \in VideoMapped /\ map'["updir"][r] = r /\ r < UserFrame
                 IsKept(r) == /\ map'["updir"][r] = map["updir"][r] /\ Mapped(r)
                              /\ map["updir"][r] >= UserFrame
      <3>1. ASSUME NEW r \in 0 .. KPage - 1, Mapped(r)' PROVE IsScreen(r) \/ IsKept(r)
        <4>1. CASE r >= NR_PTE
          <5>1. map'["updir"][r] = map["updir"][r] /\ Mapped(r) /\ map["updir"][r] \in Frames
            BY <4>1, <3>1, <1>2, <1>5, <1>6, <1>8 DEF Mapped
          <5>2. r \notin VideoMapped
            BY <4>1, <1>0
          <5> QED
            BY <5>1, <5>2, <1>0 DEF SpaceInv, OwnInv
        <4>2. CASE ~(r >= NR_PTE)
          BY <4>2, <3>1, <1>0, <1>5, <1>6, <1>8 DEF Mapped
        <4> QED
          BY <4>1, <4>2
      <3>2. CASE ~Mapped(q)'
        BY <3>2, <2>2 DEF Mapped
      <3>3. CASE Mapped(q)'
        <4>1. (IsScreen(p) \/ IsKept(p)) /\ (IsScreen(q) \/ IsKept(q))
          BY <3>1, <3>3, <2>2
        <4>2. map["updir"][p] \in Frames \cup {None} /\ map["updir"][q] \in Frames \cup {None}
          BY <1>2, <1>8
        <4> QED
          BY <4>1, <4>2, <2>2, <1>0 DEF SpaceInv, OwnInv
      <3> QED
        BY <3>2, <3>3
    <2> QED
      BY <2>1, <2>2 DEF OwnInv, Mapped
  <1>10. \A p \in 0 .. KPage - 1 : p >= NR_PTE /\ Mapped(p) => Mapped(p)'
    BY <1>5, <1>6, <1>8 DEF Mapped
  <1>11. ASSUME NEW l \in Nat, NEW r \in Nat, Page(l) >= NR_PTE, r < KOFFSET,
                \A p \in Page(l) .. Page(r) : Mapped(p)
         PROVE  \A p \in Page(l) .. Page(r) : Mapped(p)'
    <2>1. Page(l) \in Nat /\ Page(r) \in 0 .. KPage - 1
      BY <1>11, PageOrder, ProgramPages
    <2>2. \A p \in Page(l) .. Page(r) : p \in 0 .. KPage - 1 /\ p >= NR_PTE
      BY <2>1, <1>0, <1>11
    <2> QED
      BY <2>2, <1>10, <1>11
  <1>12. ASSUME NEW s \in DOMAIN Segments, s < seg
         PROVE  \A p \in SegmentPages(Segments[s]) : Mapped(p)'
    <2> DEFINE l == Segments[s].vaddr
               r == Segments[s].vaddr + Segments[s].memsz - 1
    <2>1. l \in Nat /\ r \in Nat /\ Page(l) >= NR_PTE /\ r < KOFFSET
      BY Layout
    <2>2. \A p \in Page(l) .. Page(r) : Mapped(p)
      BY <1>12 DEF SpaceInv, ProgramInv, SegmentPages
    <2> HIDE DEF l, r
    <2>3. \A p \in Page(l) .. Page(r) : Mapped(p)'
      BY <2>1, <2>2, <1>11
    <2> QED
      BY <2>3 DEF SegmentPages, l, r
  <1>13. \A p \in StackPages : Mapped(p)'
    <2> DEFINE l == KOFFSET - STACK_SIZE
               r == KOFFSET - 1
    <2>1. l \in Nat /\ r \in Nat /\ Page(l) >= NR_PTE /\ r < KOFFSET
      BY Layout
    <2>2. \A p \in Page(l) .. Page(r) : Mapped(p)
      BY <1>2 DEF SpaceInv, ProgramInv, StackPages, Allocated
    <2> HIDE DEF l, r
    <2>3. \A p \in Page(l) .. Page(r) : Mapped(p)'
      BY <2>1, <2>2, <1>11
    <2> QED
      BY <2>3 DEF StackPages, l, r
  <1>14. ProgramInv'
    BY <1>2, <1>12, <1>13 DEF SpaceInv, ProgramInv, Allocated, WithVideo
  <1> QED
    BY <1>7, <1>9, <1>14 DEF SpaceInv

\* The kernel goes on, with the same pages.
LEMMA TurnsSpace == ASSUME SpaceInv, WriteCr3 \/ BootLoopEnds PROVE SpaceInv'
  <1>1. UNCHANGED <<map, free, brk, seg>>
        /\ \/ phase = "write_cr3" /\ phase' = "read_test"
           \/ phase = "write_test" /\ phase' = "load"
           \/ phase = "read_test" /\ phase' = "clear"
           \/ phase = "clear" /\ phase' = "user"
    BY DEF WriteCr3, BootLoopEnds, After, Goto, paging
  <1>2. MapInv' /\ OwnInv'
    BY <1>1 DEF SpaceInv, MapInv, OwnInv, Mapped, Phases, WithVideo
  <1>3. phase' = "user" => End .. brk - 1 = {}
    BY <1>1, Layout DEF SpaceInv, ProgramInv
  <1>4. ProgramInv'
    BY <1>1, <1>3 DEF SpaceInv, ProgramInv, Allocated, WithVideo, Mapped
  <1> QED
    BY <1>2, <1>4 DEF SpaceInv

LEMMA StepSpace == ASSUME SpaceInv, [Next]_vars PROVE SpaceInv'
  BY AccessesAreQuiet, QuietSpace, DirectoriesSpace, LoadSegmentSpace, StackSpace, SysBrkSpace,
     RecordBrkSpace, VideoSpace, TurnsSpace DEF Next, Boot

\* What the program may use has a frame in its directory.
LEMMA UsablePages == ASSUME SpaceInv, NEW l \in Usable PROVE Page(l) \in Pages /\ Mapped(Page(l))
  <1>1. phase = "user"
    BY DEF Usable
  <1>2. CASE \E s \in DOMAIN Segments :
               l \in Segments[s].vaddr .. (Segments[s].vaddr + Segments[s].memsz - 1)
    <2>1. PICK s \in DOMAIN Segments :
                 l \in Segments[s].vaddr .. (Segments[s].vaddr + Segments[s].memsz - 1)
      BY <1>2
    <2> DEFINE va == Segments[s].vaddr
               r == Segments[s].vaddr + Segments[s].memsz - 1
    <2>2. va \in Nat /\ r \in Nat /\ l \in Nat /\ va <= l /\ l <= r
      BY <2>1, Layout
    <2>3. \A p \in Page(va) .. Page(r) : Mapped(p)
      BY <1>1, Layout DEF SpaceInv, ProgramInv, SegmentPages, Allocated, WithVideo
    <2> HIDE DEF va, r
    <2>4. Page(l) \in Page(va) .. Page(r)
      BY <2>2, PageOrder
    <2>5. Page(va) .. Page(r) \subseteq Pages
      BY <2>1, ProgramPages DEF SegmentPages, va, r
    <2> QED
      BY <2>3, <2>4, <2>5
  <1>3. CASE l \in End .. brk - 1
    <2>1. l \in Nat /\ l < KOFFSET /\ Mapped(Page(l))
      BY <1>1, <1>3, Layout DEF SpaceInv, ProgramInv
    <2> QED
      BY <2>1, ProgramPages
  <1>4. CASE l \in (KOFFSET - STACK_SIZE) .. (KOFFSET - 1)
    <2> DEFINE va == KOFFSET - STACK_SIZE
               r == KOFFSET - 1
    <2>2. va \in Nat /\ r \in Nat /\ l \in Nat /\ va <= l /\ l <= r
      BY <1>4, Layout
    <2>3. \A p \in Page(va) .. Page(r) : Mapped(p)
      BY <1>1 DEF SpaceInv, ProgramInv, StackPages, Allocated, WithVideo
    <2> HIDE DEF va, r
    <2>4. Page(l) \in Page(va) .. Page(r)
      BY <2>2, PageOrder
    <2>5. Page(va) .. Page(r) \subseteq Pages
      BY ProgramPages DEF StackPages, va, r
    <2> QED
      BY <2>3, <2>4, <2>5
  <1>5. CASE l \in VMEM_ADDR .. (VMEM_ADDR + SCR_SIZE - 1)
    <2>1. Page(l) \in VideoMapped
      BY <1>5, MemoryAssumption
    <2>2. \A p \in VideoMapped : Mapped(p)
      BY <1>1 DEF SpaceInv, MapInv, WithVideo
    <2>3. VideoMapped \subseteq Pages
      BY MemoryAssumption DEF Pages, Frames
    <2> QED
      BY <2>1, <2>2, <2>3
  <1>6. \/ l \in (UNION {Segments[s].vaddr .. (Segments[s].vaddr + Segments[s].memsz - 1) :
                         s \in DOMAIN Segments})
        \/ l \in End .. brk - 1
        \/ l \in (KOFFSET - STACK_SIZE) .. (KOFFSET - 1)
        \/ l \in VMEM_ADDR .. (VMEM_ADDR + SCR_SIZE - 1)
    BY <1>1, Zenon DEF Usable
  <1>7. l \in (UNION {Segments[s].vaddr .. (Segments[s].vaddr + Segments[s].memsz - 1) :
                     s \in DOMAIN Segments})
        => \E s \in DOMAIN Segments :
              l \in Segments[s].vaddr .. (Segments[s].vaddr + Segments[s].memsz - 1)
    BY Zenon
  <1> QED
    BY <1>2, <1>3, <1>4, <1>5, <1>6, <1>7

-------------------------------------------------------------------------------
(* The TLB *)

Coherent(t) == \A e \in DOMAIN t : t[e][1] # None => PageWalk(t[e][1]) \in {None, t[e][2]}

\* What an entry says as long as no access fails: a page of physical memory is
\* its own frame, and any other one is as the directory in use has it.
Settled(t) ==
  \A e \in DOMAIN t : t[e][1] # None =>
    /\ t[e][1] \in Pages /\ t[e][2] # None
    /\ t[e][1] < NrFrames => t[e][2] = t[e][1]
    /\ t[e][1] >= NrFrames => t[e][2] = PageWalk(t[e][1])

DirInv ==
  /\ phase # "init_page" => cr3 \in {"kpdir", "updir"}
  /\ phase \in Phases \ {"abort", "init_page"} => (cr3 = "updir" <=> phase \in WithUpdir)

TlbInv ==
  /\ DirInv
  /\ phase = "init_page" => \A e \in DOMAIN tlb : tlb[e][1] = None
  /\ IF phase = "abort" THEN Coherent(tlb) ELSE Settled(tlb)

IInv == SpaceInv /\ TlbInv

\* Physical memory is mapped to itself, by either directory.
LEMMA LowPages ==
  ASSUME SpaceInv, DirInv, phase # "init_page", NEW p \in Pages, p < NrFrames
  PROVE  PageWalk(p) \in {None, p}
  <1>0. /\ NrFrames \in Nat /\ KPage \in Nat /\ KPage > NrFrames
        /\ Pages = 0 .. KPage + NrFrames - 1
    BY MemoryAssumption DEF Pages
  <1>1. CASE cr3 = "kpdir"
    BY <1>0, <1>1 DEF SpaceInv, MapInv, KernelFrame, PageWalk
  <1>2. CASE cr3 = "updir"
    <2>1. p \in 0 .. KPage - 1
      BY <1>0
    <2>2. Mapped(p) => map["updir"][p] = p
      BY <1>0, <2>1 DEF SpaceInv, OwnInv
    <2> QED
      BY <1>2, <2>2 DEF PageWalk, Mapped
  <1> QED
    BY <1>1, <1>2 DEF DirInv

LEMMA SettledIsCoherent ==
  ASSUME SpaceInv, DirInv, phase # "init_page", NEW t, Settled(t)
  PROVE  Coherent(t)
  <1> SUFFICES ASSUME NEW e \in DOMAIN t, t[e][1] # None
               PROVE  PageWalk(t[e][1]) \in {None, t[e][2]}
    BY DEF Coherent
  <1>1. /\ t[e][1] \in Pages
        /\ t[e][1] < NrFrames => t[e][2] = t[e][1]
        /\ t[e][1] >= NrFrames => t[e][2] = PageWalk(t[e][1])
    BY DEF Settled
  <1>2. t[e][1] < NrFrames \/ t[e][1] >= NrFrames
    BY <1>1, MemoryAssumption DEF Pages
  <1> QED
    BY <1>1, <1>2, LowPages

\* A translation leaves the entries as good as they were.
LEMMA TranslationsKeep ==
  ASSUME SpaceInv, DirInv, phase # "init_page", NEW t, NEW page, NEW x \in Translations(t, page)
  PROVE  /\ Coherent(t) => Coherent(x.tlb)
         /\ Settled(t) /\ x.frame # None => Settled(x.tlb)
  <1>1. CASE x.tlb = t
    BY <1>1
  <1>2. CASE \E e \in DOMAIN t :
               x = [frame |-> PageWalk(page), tlb |-> [t EXCEPT ![e] = <<page, PageWalk(page)>>]]
    <2>1. PICK e \in DOMAIN t :
            x = [frame |-> PageWalk(page), tlb |-> [t EXCEPT ![e] = <<page, PageWalk(page)>>]]
      BY <1>2
    <2>2. /\ x.frame = PageWalk(page) /\ DOMAIN x.tlb = DOMAIN t
          /\ x.tlb[e] = <<page, PageWalk(page)>>
          /\ \A d \in DOMAIN t : d # e => x.tlb[d] = t[d]
      BY <2>1
    <2>3. x.tlb[e][1] = page /\ x.tlb[e][2] = PageWalk(page)
      BY <2>2
    <2>4. Coherent(t) => Coherent(x.tlb)
      BY <2>2, <2>3 DEF Coherent
    <2>5. ASSUME Settled(t), x.frame # None PROVE Settled(x.tlb)
      <3>1. page \in Pages
        BY <2>2, <2>5 DEF PageWalk
      <3>2. page < NrFrames => PageWalk(page) = page
        BY <3>1, <2>2, <2>5, LowPages
      <3> QED
        BY <3>1, <3>2, <2>2, <2>3, <2>5 DEF Settled
    <2> QED
      BY <2>4, <2>5
  <1> QED
    BY <1>1, <1>2 DEF Translations

LEMMA WalksKeep ==
  ASSUME SpaceInv, DirInv, phase # "init_page", Settled(tlb),
         NEW l, NEW len, NEW w \in Walks(l, len)
  PROVE  /\ Coherent(w.tlb)
         /\ ~FaultsAt(w, l, len) => Settled(w.tlb)
  <1>0. Coherent(tlb)
    BY SettledIsCoherent
  <1>1. CASE ~Crosses(l, len)
    <2>1. PICK t \in Translations(tlb, Page(l)) : w = [frames |-> <<t.frame>>, tlb |-> t.tlb]
      BY <1>1 DEF Walks
    <2>2. w.tlb = t.tlb /\ w.frames[1] = t.frame
      BY <2>1
    <2> QED
      BY <2>2, <1>0, TranslationsKeep DEF FaultsAt, Faults
  <1>2. CASE Crosses(l, len)
    <2>1. PICK t \in Translations(tlb, Page(l)) :
            w \in {[frames |-> <<t.frame, u.frame>>, tlb |-> u.tlb] :
                     u \in Translations(t.tlb, Page(l) + 1)}
      BY <1>2 DEF Walks
    <2>2. PICK u \in Translations(t.tlb, Page(l) + 1) :
            w = [frames |-> <<t.frame, u.frame>>, tlb |-> u.tlb]
      BY <2>1
    <2>3. w.tlb = u.tlb /\ w.frames[1] = t.frame /\ w.frames[2] = u.frame
      BY <2>2
    <2>4. Coherent(t.tlb) /\ (t.frame # None => Settled(t.tlb))
      BY <1>0, TranslationsKeep
    <2>5. Coherent(u.tlb) /\ (t.frame # None /\ u.frame # None => Settled(u.tlb))
      BY <2>4, TranslationsKeep
    <2> QED
      BY <2>3, <2>5, <1>2 DEF FaultsAt, Faults
  <1> QED
    BY <1>1, <1>2

LEMMA InitTlb == ASSUME Init PROVE TlbInv
  <1>1. \A e \in DOMAIN tlb : tlb[e][1] = None
    <2>1. CASE tlb = << >>
      BY <2>1
    <2>2. CASE tlb = [e \in 1 .. NrTlb |-> <<None, None>>]
      BY <2>2
    <2> QED
      BY <2>1, <2>2 DEF Init
  <1>2. phase = "init_page"
    BY DEF Init
  <1> QED
    BY <1>1, <1>2 DEF TlbInv, DirInv, Settled, Phases

\* An access that fails ends the run, and one that does not leaves the rest.
LEMMA WalkTlb ==
  ASSUME IInv, phase \notin {"init_page", "abort"}, UNCHANGED <<map, cr3>>,
         NEW l, NEW len, NEW w \in Walks(l, len), tlb' = w.tlb,
         IF FaultsAt(w, l, len) THEN phase' = "abort"
         ELSE phase' = phase \/ phase' = "abort"
  PROVE  TlbInv'
  <1>1. Coherent(w.tlb) /\ (~FaultsAt(w, l, len) => Settled(w.tlb))
    BY WalksKeep DEF IInv, TlbInv
  <1>2. DirInv'
    BY DEF IInv, TlbInv, DirInv, Phases, WithUpdir
  <1>3. Coherent(w.tlb) => Coherent(tlb)'
    BY DEF Coherent, PageWalk
  <1>4. Settled(w.tlb) => Settled(tlb)'
    BY DEF Settled, PageWalk
  <1> QED
    BY <1>1, <1>2, <1>3, <1>4 DEF TlbInv

LEMMA AccessTlb ==
  ASSUME IInv, WriteTest \/ IdeRead \/ ReadTest \/ Clear \/ UserStore \/ UserLoad
  PROVE  TlbInv'
  <1> USE DEF paging, boot, Abort
  <1>1. ASSUME NEW l, NEW len, NEW d, NEW next, KernelStore(l, len, d, next),
               phase \notin {"init_page", "abort"}
        PROVE  TlbInv'
    <2>1. PICK w \in Walks(l, len) :
            /\ tlb' = w.tlb /\ UNCHANGED <<map, cr3>>
            /\ IF FaultsAt(w, l, len) THEN phase' = "abort" ELSE phase' = phase
      BY <1>1 DEF KernelStore
    <2> QED
      BY <2>1, <1>1, WalkTlb
  <1>2. ASSUME NEW l, NEW len, NEW d, NEW next, KernelLoad(l, len, d, next),
               phase \notin {"init_page", "abort"}
        PROVE  TlbInv'
    <2>1. PICK w \in Walks(l, len) :
            /\ tlb' = w.tlb /\ UNCHANGED <<map, cr3>>
            /\ IF FaultsAt(w, l, len) THEN phase' = "abort" ELSE phase' = phase \/ phase' = "abort"
      BY <1>2 DEF KernelLoad
    <2> QED
      BY <2>1, <1>2, WalkTlb
  <1>3. CASE WriteTest \/ IdeRead \/ Clear
    BY <1>1, <1>3 DEF WriteTest, IdeRead, Clear
  <1>4. CASE ReadTest
    BY <1>2, <1>4 DEF ReadTest
  <1>5. ASSUME NEW l, NEW len, NEW d, StoreAt(l, len, d) PROVE TlbInv'
    <2>1. phase = "user"
      BY <1>5 DEF StoreAt
    <2>2. PICK w \in Walks(l, len) :
            /\ tlb' = w.tlb /\ UNCHANGED <<map, cr3>>
            /\ IF FaultsAt(w, l, len) THEN phase' = "abort" ELSE phase' = phase
      BY <1>5 DEF StoreAt
    <2> QED
      BY <2>1, <2>2, WalkTlb
  <1>6. ASSUME NEW l, NEW len, LoadAt(l, len) PROVE TlbInv'
    <2>1. phase = "user"
      BY <1>6 DEF LoadAt
    <2>2. PICK w \in Walks(l, len) :
            /\ tlb' = w.tlb /\ UNCHANGED <<map, cr3>>
            /\ IF FaultsAt(w, l, len) THEN phase' = "abort" ELSE phase' = phase
      BY <1>6 DEF LoadAt
    <2> QED
      BY <2>1, <2>2, WalkTlb
  <1>7. CASE UserStore
    BY <1>7, <1>5 DEF UserStore
  <1>8. CASE UserLoad
    BY <1>8, <1>6 DEF UserLoad
  <1> QED
    BY <1>3, <1>4, <1>7, <1>8

LEMMA KernelTlb == ASSUME IInv, KernelRuns PROVE TlbInv'
  <1>1. phase \notin {"init_page", "abort"} /\ UNCHANGED <<map, cr3>>
    BY DEF KernelRuns, paging
  <1>2. PICK p \in KPage .. KPage + UserFrame - 1 : \E t \in Translations(tlb, p) :
          IF t.frame = None THEN phase' = "abort" /\ tlb' = tlb
          ELSE tlb' = t.tlb /\ phase' = phase
    BY DEF KernelRuns, Abort, boot
  <1>3. PICK t \in Translations(tlb, p) :
          IF t.frame = None THEN phase' = "abort" /\ tlb' = tlb
          ELSE tlb' = t.tlb /\ phase' = phase
    BY <1>2
  <1>4. Settled(tlb) /\ Coherent(tlb) /\ (t.frame # None => Settled(t.tlb))
    BY <1>1, SettledIsCoherent, TranslationsKeep DEF IInv, TlbInv
  <1>5. DirInv'
    BY <1>1, <1>3 DEF IInv, TlbInv, DirInv, Phases, WithUpdir
  <1>6. t.frame = None => Coherent(tlb)'
    BY <1>1, <1>3, <1>4 DEF Coherent, PageWalk
  <1>7. t.frame # None => Settled(tlb)'
    BY <1>1, <1>3, <1>4 DEF Settled, PageWalk
  <1> QED
    BY <1>1, <1>3, <1>5, <1>6, <1>7 DEF TlbInv

\* Nothing the kernel does to a directory disturbs an entry.
LEMMA DirectoriesTlb ==
  ASSUME IInv, \/ InitPage \/ InitMm \/ LoadSegment \/ RecordBrk \/ Stack \/ CreateVideoMapping
               \/ BootLoopEnds \/ UpdateScreen \/ UNCHANGED vars
  PROVE  TlbInv'
  <1>1. CASE InitPage
    BY <1>1 DEF InitPage, Goto, IInv, TlbInv, DirInv, Settled, Phases, WithUpdir
  <1>2. CASE UpdateScreen \/ UNCHANGED vars
    <2>1. UNCHANGED <<phase, map, cr3, tlb>>
      BY <1>2 DEF UpdateScreen, vars, boot, paging
    <2> QED
      BY <2>1 DEF IInv, TlbInv, DirInv, Settled, Coherent, PageWalk
  <1>3. CASE InitMm \/ LoadSegment \/ RecordBrk \/ Stack \/ CreateVideoMapping \/ BootLoopEnds
    <2>1. /\ phase \in Phases \ {"init_page", "abort"} /\ phase' \in Phases \ {"init_page", "abort"}
          /\ UNCHANGED <<cr3, tlb>> /\ (phase \in WithUpdir <=> phase' \in WithUpdir)
          /\ phase \in WithUpdir => UNCHANGED map
      BY <1>3 DEF InitMm, LoadSegment, RecordBrk, Stack, CreateVideoMapping, BootLoopEnds, After,
                  Goto, paging, Phases, WithUpdir
    <2>2. UNCHANGED map \/ map'["kpdir"] = map["kpdir"]
      <3>1. map \in [{"kpdir", "updir"} -> [Pages -> Frames \cup {None}]]
        BY DEF IInv, SpaceInv, MapInv
      <3> QED
        BY <3>1, <1>3 DEF InitMm, LoadSegment, RecordBrk, Stack, CreateVideoMapping, BootLoopEnds,
                     After, paging, MmMalloc
    <2>3. DirInv'
      BY <2>1 DEF IInv, TlbInv, DirInv
    <2>4. \A p : PageWalk(p)' = PageWalk(p)
      <3>1. map'[cr3] = map[cr3]
        BY <2>1, <2>2 DEF IInv, TlbInv, DirInv
      <3> QED
        BY <3>1, <2>1 DEF PageWalk
    <2>5. Settled(tlb)'
      BY <2>1, <2>4 DEF IInv, TlbInv, Settled
    <2> QED
      BY <2>1, <2>3, <2>5 DEF TlbInv
  <1> QED
    BY <1>1, <1>2, <1>3

LEMMA SysBrkTlb == ASSUME IInv, SysBrk PROVE TlbInv'
  <1>1. phase = "user" /\ UNCHANGED <<phase, cr3, tlb>> /\ cr3 = "updir" /\ Settled(tlb)
    BY DEF SysBrk, boot, IInv, TlbInv, DirInv, Phases, WithUpdir
  <1>2. \A p \in Pages : Mapped(p) => map'["updir"][p] = map["updir"][p]
    <2>1. PICK new \in Breaks : MmBrk(new)
      BY DEF SysBrk
    <2>2. CASE new > brk
      <3>1. /\ brk \in Nat /\ brk >= End - 1 /\ new \in Nat /\ new <= KOFFSET - STACK_SIZE
            /\ SpaceInv
        BY <1>1, ProgramAssumption, MemoryAssumption
           DEF IInv, SpaceInv, ProgramInv, Allocated, WithVideo
      <3>2. /\ new - brk \in Nat \ {0} /\ brk + (new - brk) <= KOFFSET
            /\ Page(brk) >= NrFrames /\ Page(brk) >= NR_PTE /\ MmMalloc(brk, new - brk)
        BY <2>1, <2>2, <3>1, Layout DEF MmBrk
      <3> QED
        BY <3>1, <3>2, MallocMaps
    <2>3. CASE ~(new > brk)
      BY <2>1, <2>3 DEF MmBrk
    <2> QED
      BY <2>2, <2>3
  <1>3. ASSUME NEW e \in DOMAIN tlb, tlb[e][1] # None
        PROVE  /\ tlb[e][1] \in Pages /\ tlb[e][2] # None
               /\ tlb[e][1] < NrFrames => tlb[e][2] = tlb[e][1]
               /\ tlb[e][1] >= NrFrames => tlb[e][2] = PageWalk(tlb[e][1])'
    <2>1. /\ tlb[e][1] \in Pages /\ tlb[e][2] # None
          /\ tlb[e][1] < NrFrames => tlb[e][2] = tlb[e][1]
          /\ tlb[e][1] >= NrFrames => tlb[e][2] = PageWalk(tlb[e][1])
      BY <1>1, <1>3 DEF Settled
    <2>2. tlb[e][2] = PageWalk(tlb[e][1]) => PageWalk(tlb[e][1])' = PageWalk(tlb[e][1])
      BY <1>1, <1>2, <2>1 DEF PageWalk, Mapped
    <2> QED
      BY <2>1, <2>2
  <1>4. Settled(tlb)'
    BY <1>1, <1>3 DEF Settled
  <1>5. DirInv'
    BY <1>1 DEF IInv, TlbInv, DirInv
  <1> QED
    BY <1>1, <1>4, <1>5 DEF TlbInv

\* The kernel's pages are the same in both directories, and any other page
\* with an entry is one of physical memory.
LEMMA WriteCr3Tlb == ASSUME IInv, WriteCr3 PROVE TlbInv'
  <1>0. /\ NrFrames \in Nat /\ KPage \in Nat /\ KPage > NrFrames
        /\ Pages = 0 .. KPage + NrFrames - 1
    BY MemoryAssumption DEF Pages
  <1>1. /\ phase = "write_cr3" /\ phase' = "read_test" /\ UNCHANGED <<map, tlb>>
        /\ cr3 = "kpdir" /\ cr3' = "updir" /\ Settled(tlb)
    BY DEF WriteCr3, Goto, IInv, TlbInv, DirInv, Phases, WithUpdir
  <1>2. ASSUME NEW p \in Pages, p >= NrFrames, PageWalk(p) # None
        PROVE  PageWalk(p)' = PageWalk(p)
    <2>1. map["kpdir"][p] = KernelFrame(p)
      BY <1>1 DEF IInv, SpaceInv, MapInv
    <2>2. p >= KPage /\ map["kpdir"][p] = p - KPage
      BY <2>1, <1>0, <1>1, <1>2 DEF KernelFrame, PageWalk
    <2>3. map["updir"][p] = p - KPage
      BY <1>1, <2>2 DEF IInv, SpaceInv, MapInv
    <2> QED
      BY <1>1, <2>2, <2>3 DEF PageWalk
  <1>3. Settled(tlb)'
    BY <1>1, <1>2 DEF Settled
  <1>4. DirInv'
    BY <1>1 DEF DirInv, WithUpdir
  <1> QED
    BY <1>1, <1>3, <1>4 DEF TlbInv

\* The invariant holds in every state.
THEOREM Invariance == Spec => []IInv
  <1>1. Init => IInv
    BY InitSpace, InitTlb DEF IInv
  <1>2. IInv /\ [Next]_vars => IInv'
    <2> SUFFICES ASSUME IInv, [Next]_vars PROVE IInv'
      OBVIOUS
    <2>1. SpaceInv'
      BY StepSpace DEF IInv
    <2>2. TlbInv'
      BY AccessTlb, KernelTlb, DirectoriesTlb, SysBrkTlb, WriteCr3Tlb DEF Next, Boot
    <2> QED
      BY <2>1, <2>2 DEF IInv
  <1> QED
    BY <1>1, <1>2, PTL DEF Spec

\* The program's address space is sound, through the loader (elf.c:42),
\* create_video_mapping (vmem.c:12) and mm_brk: what it may use has a frame,
\* and no frame is used twice.
THEOREM SpaceSound == Spec => []AddressSpace
  <1>1. IInv => AddressSpace
    <2> SUFFICES ASSUME IInv PROVE AddressSpace
      OBVIOUS
    <2>1. UsableMapped
      <3> SUFFICES ASSUME NEW l \in Usable PROVE PageWalk(Page(l)) # None
        BY DEF UsableMapped
      <3>1. phase = "user"
        BY DEF Usable
      <3>2. cr3 = "updir"
        BY <3>1 DEF IInv, TlbInv, DirInv, Phases, WithUpdir
      <3> QED
        BY <3>2, UsablePages DEF IInv, PageWalk, Mapped
    <2>2. FramesPrivate
      BY DEF FramesPrivate, IInv, SpaceInv, OwnInv, Mapped
    <2> QED
      BY <2>1, <2>2 DEF AddressSpace
  <1> QED
    BY <1>1, Invariance, PTL

\* The TLB agrees with the directory in use, although loading a directory
\* does not flush it (tlb.c:137).
THEOREM Coherence == Spec => []TlbCoherent
  <1>1. IInv => TlbCoherent
    <2> SUFFICES ASSUME IInv PROVE TlbCoherent
      OBVIOUS
    <2>1. CASE phase = "init_page"
      BY <2>1 DEF IInv, TlbInv, TlbCoherent
    <2>2. CASE phase # "init_page"
      <3>1. Coherent(tlb)
        BY <2>2, SettledIsCoherent DEF IInv, TlbInv
      <3> QED
        BY <3>1 DEF Coherent, TlbCoherent
    <2> QED
      BY <2>1, <2>2
  <1> QED
    BY <1>1, Invariance, PTL

-------------------------------------------------------------------------------
(***************************************************************************)
(* Part 2.  The bytes                                                      *)
(*                                                                         *)
(* Why: the pages of a segment are new when it is loaded, so their frames  *)
(* follow each other and were never stored to; what is stored until the    *)
(* program runs goes to the screen, or to the bytes the file has.          *)
(***************************************************************************)

\* The segments that have their frames
Given(s) == s \in DOMAIN Segments /\ (s < seg \/ (s = seg /\ phase = "ide_read"))
FirstPage(s) == Page(Segments[s].vaddr)
Loading == {"write_test", "load", "ide_read"}

\* Only segments have frames, and theirs follow each other.
LayoutInv ==
  /\ phase \in Loading => \A p \in 0 .. KPage - 1 : Mapped(p) =>
       \E s \in DOMAIN Segments : Given(s) /\ p \in SegmentPages(Segments[s])
  /\ \A s \in DOMAIN Segments : Given(s) => \A p \in SegmentPages(Segments[s]) :
       map["updir"][p] = map["updir"][FirstPage(s)] + (p - FirstPage(s))

\* The bytes past the file's
Bss(s) == Len(Segments[s].bytes) .. Segments[s].memsz - 1

ZeroInv ==
  /\ \A q \in DOMAIN mem : Page(q) >= free => mem[q] = 0
  /\ \A s \in DOMAIN Segments : Given(s) =>
       \A o \in Bss(s) : mem[SegPaddr(Segments[s]) + o] = 0

DataInv ==
  /\ i \in Nat /\ stores \in Nat
  /\ DOMAIN mem = 0 .. NrFrames * PAGE_SIZE - 1
  /\ LayoutInv
  /\ phase # "abort" /\ stores = 0 => ZeroInv

-------------------------------------------------------------------------------
(* Addresses *)

\* The page of an address that is given by page and place
LEMMA PageOf ==
  ASSUME NEW f \in Nat, NEW r \in 0 .. PAGE_SIZE - 1
  PROVE  f * PAGE_SIZE + r \in Nat /\ Page(f * PAGE_SIZE + r) = f
  <1> DEFINE n == f * PAGE_SIZE + r
             d == Page(n)
  <1>0. PAGE_SIZE \in Nat \ {0}
    BY MemoryAssumption
  <1>1. n \in Nat
    BY <1>0
  <1>2. d \in Nat /\ n = (n % PAGE_SIZE) + PAGE_SIZE * d /\ n % PAGE_SIZE \in 0 .. PAGE_SIZE - 1
    BY <1>0, <1>1, DivMod DEF Page
  <1>3. n = PAGE_SIZE * f + r
    BY <1>0
  <1> HIDE DEF n, d
  <1>4. ASSUME d >= f + 1 PROVE FALSE
    <2>1. PAGE_SIZE * d >= PAGE_SIZE * (f + 1)
      BY <1>0, <1>2, <1>4
    <2>2. PAGE_SIZE * (f + 1) = PAGE_SIZE * f + PAGE_SIZE
      BY <1>0
    <2> QED
      BY <2>1, <2>2, <1>0, <1>2, <1>3
  <1>5. ASSUME f >= d + 1 PROVE FALSE
    <2>1. PAGE_SIZE * f >= PAGE_SIZE * (d + 1)
      BY <1>0, <1>2, <1>5
    <2>2. PAGE_SIZE * (d + 1) = PAGE_SIZE * d + PAGE_SIZE
      BY <1>0, <1>2
    <2> QED
      BY <2>1, <2>2, <1>0, <1>2, <1>3
  <1>6. d = f
    BY <1>2, <1>4, <1>5
  <1> QED
    BY <1>1, <1>6 DEF n, d

\* An address, by page and place
LEMMA Place ==
  ASSUME NEW l \in Nat
  PROVE  /\ Page(l) \in Nat /\ l % PAGE_SIZE \in 0 .. PAGE_SIZE - 1
         /\ Page(l) * PAGE_SIZE + (l % PAGE_SIZE) = l
  <1>1. /\ Page(l) \in Nat /\ l % PAGE_SIZE \in 0 .. PAGE_SIZE - 1
        /\ l = (l % PAGE_SIZE) + PAGE_SIZE * Page(l)
    BY MemoryAssumption, DivMod DEF Page
  <1> QED
    BY <1>1, MemoryAssumption

\* The bytes of frames that follow each other
LEMMA PlaceInRow ==
  ASSUME NEW va \in Nat, NEW o \in Nat, NEW f \in Nat
  PROVE  /\ f * PAGE_SIZE + (va % PAGE_SIZE) + o \in Nat
         /\ Page(f * PAGE_SIZE + (va % PAGE_SIZE) + o) = f + (Page(va + o) - Page(va))
  <1> DEFINE p == Page(va)
             p2 == Page(va + o)
             g == f + (p2 - p)
             r == (va + o) % PAGE_SIZE
             r0 == va % PAGE_SIZE
  <1>0. PAGE_SIZE \in Nat \ {0}
    BY MemoryAssumption
  <1>1. /\ p \in Nat /\ p2 \in Nat /\ r \in 0 .. PAGE_SIZE - 1 /\ r0 \in 0 .. PAGE_SIZE - 1
        /\ p * PAGE_SIZE + r0 = va /\ p2 * PAGE_SIZE + r = va + o
    BY Place
  <1>2. p <= p2
    BY PageOrder
  <1> HIDE DEF p, p2, r, r0
  <1>3. g \in Nat /\ g * PAGE_SIZE = f * PAGE_SIZE + (p2 * PAGE_SIZE - p * PAGE_SIZE)
    BY <1>0, <1>1, <1>2
  <1>4. f * PAGE_SIZE \in Nat /\ p * PAGE_SIZE \in Nat /\ p2 * PAGE_SIZE \in Nat
    BY <1>0, <1>1
  <1>5. f * PAGE_SIZE + r0 + o = g * PAGE_SIZE + r
    BY <1>0, <1>1, <1>3, <1>4
  <1> HIDE DEF g
  <1>6. g * PAGE_SIZE + r \in Nat /\ Page(g * PAGE_SIZE + r) = g
    BY <1>1, <1>3, PageOf
  <1> QED
    BY <1>5, <1>6 DEF g, p, p2, r0

\* What has a frame of physical memory is in it.
LEMMA InMemory ==
  ASSUME NEW q \in Nat
  PROVE  Page(q) < NrFrames <=> q \in 0 .. NrFrames * PAGE_SIZE - 1
  <1>0. PAGE_SIZE \in Nat \ {0} /\ NrFrames \in Nat
    BY MemoryAssumption
  <1>1. /\ Page(q) \in Nat /\ q % PAGE_SIZE \in 0 .. PAGE_SIZE - 1
        /\ Page(q) * PAGE_SIZE + (q % PAGE_SIZE) = q
    BY Place
  <1>2. ASSUME Page(q) < NrFrames PROVE q \in 0 .. NrFrames * PAGE_SIZE - 1
    <2>1. (Page(q) + 1) * PAGE_SIZE <= NrFrames * PAGE_SIZE
      BY <1>0, <1>1, <1>2
    <2>2. (Page(q) + 1) * PAGE_SIZE = Page(q) * PAGE_SIZE + PAGE_SIZE
      BY <1>0, <1>1
    <2> QED
      BY <2>1, <2>2, <1>0, <1>1
  <1>3. ASSUME Page(q) >= NrFrames PROVE q \notin 0 .. NrFrames * PAGE_SIZE - 1
    <2>1. Page(q) * PAGE_SIZE >= NrFrames * PAGE_SIZE
      BY <1>0, <1>1, <1>3
    <2> QED
      BY <2>1, <1>0, <1>1
  <1> QED
    BY <1>0, <1>1, <1>2, <1>3

\* The video memory begins at the smallest of its frames.
LEMMA VideoMemory ==
  /\ VmemFrame \in VideoFrames /\ \A f \in VideoFrames : VmemFrame <= f
  /\ VMEM_ADDR \in Nat /\ SCR_SIZE \in Nat \ {0}
  /\ \A l \in VMEM_ADDR .. (VMEM_ADDR + SCR_SIZE - 1) : Page(l) \in 0 .. UserFrame - 1
  <1>0. VideoFrames \in SUBSET Nat /\ VideoFrames # {}
    BY MemoryAssumption DEF Frames
  <1>1. PICK x \in VideoFrames : \A y \in VideoFrames : ~(<<y, x>> \in OpToRel(<, Nat))
    BY <1>0, NatLessThanWellFounded, WFMin
  <1>2. \A y \in VideoFrames : ~(y < x)
    BY <1>0, <1>1, Zenon DEF OpToRel
  <1>3. \A y \in VideoFrames : x <= y
    BY <1>0, <1>2
  <1>4. VmemFrame \in VideoFrames /\ \A f \in VideoFrames : VmemFrame <= f
    BY <1>3 DEF VmemFrame
  <1>5. VMEM_ADDR \in Nat /\ SCR_SIZE \in Nat \ {0}
    BY <1>0, <1>4, MemoryAssumption DEF VMEM_ADDR, SCR_SIZE
  <1>6. \A l \in VMEM_ADDR .. (VMEM_ADDR + SCR_SIZE - 1) : Page(l) \in 0 .. UserFrame - 1
    BY MemoryAssumption
  <1> QED
    BY <1>4, <1>5, <1>6

-------------------------------------------------------------------------------
(* Stores of the kernel *)

\* Physical memory is where its address says.
LEMMA LowFrames ==
  ASSUME SpaceInv, DirInv, phase # "init_page", NEW t, Settled(t),
         NEW p \in Pages, p < NrFrames, NEW x \in Translations(t, p), x.frame # None
  PROVE  x.frame = p /\ Settled(x.tlb)
  <1>0. PageWalk(p) \in {None, p} /\ p # None
    BY LowPages, MemoryAssumption DEF Pages, None
  <1>1. x.frame = p
    <2>1. CASE x.frame = PageWalk(p)
      BY <2>1, <1>0
    <2>2. CASE \E e \in TlbHits(t, p) : x.frame = t[e][2]
      BY <2>2, <1>0 DEF TlbHits, Settled
    <2> QED
      BY <2>1, <2>2 DEF Translations
  <1>2. Settled(x.tlb)
    BY TranslationsKeep
  <1> QED
    BY <1>1, <1>2

LEMMA LowWalks ==
  ASSUME SpaceInv, DirInv, phase # "init_page", Settled(tlb),
         NEW l \in Nat, NEW len \in 1 .. 4, Page(l + len - 1) < NrFrames,
         NEW w \in Walks(l, len), ~FaultsAt(w, l, len)
  PROVE  w.frames[1] = Page(l) /\ (Crosses(l, len) => w.frames[2] = Page(l) + 1)
  <1>1. /\ Page(l) \in Nat /\ Page(l + len - 1) \in Nat /\ Page(l) <= Page(l + len - 1)
    BY PageOrder
  <1>2. Page(l) \in Pages /\ Page(l) < NrFrames
    BY <1>1, MemoryAssumption DEF Pages
  <1>3. CASE ~Crosses(l, len)
    <2>1. PICK t \in Translations(tlb, Page(l)) : w = [frames |-> <<t.frame>>, tlb |-> t.tlb]
      BY <1>3 DEF Walks
    <2>2. w.frames[1] = t.frame /\ t.frame # None
      BY <2>1 DEF FaultsAt, Faults
    <2> QED
      BY <2>2, <1>2, <1>3, LowFrames
  <1>4. CASE Crosses(l, len)
    <2>0. Page(l) + 1 \in Pages /\ Page(l) + 1 < NrFrames
      BY <1>1, <1>4, MemoryAssumption DEF Pages, Crosses
    <2>1. PICK t \in Translations(tlb, Page(l)) :
            w \in {[frames |-> <<t.frame, u.frame>>, tlb |-> u.tlb] :
                     u \in Translations(t.tlb, Page(l) + 1)}
      BY <1>4 DEF Walks
    <2>2. PICK u \in Translations(t.tlb, Page(l) + 1) :
            w = [frames |-> <<t.frame, u.frame>>, tlb |-> u.tlb]
      BY <2>1
    <2>3. w.frames[1] = t.frame /\ w.frames[2] = u.frame /\ t.frame # None /\ u.frame # None
      BY <2>2, <1>4 DEF FaultsAt, Faults
    <2>4. t.frame = Page(l) /\ Settled(t.tlb)
      BY <2>3, <1>2, LowFrames
    <2>5. u.frame = Page(l) + 1
      BY <2>0, <2>3, <2>4, LowFrames
    <2> QED
      BY <2>3, <2>4, <2>5
  <1> QED
    BY <1>3, <1>4

\* The parts of an access before and after a boundary
LEMMA Split ==
  ASSUME NEW l \in Nat, NEW len \in 1 .. 4
  PROVE  /\ Len1(l, len) \in 1 .. len
         /\ Crosses(l, len) => /\ Len1(l, len) < len
                               /\ (Page(l) + 1) * PAGE_SIZE = l + Len1(l, len)
  <1>0. PAGE_SIZE \in Nat \ {0}
    BY MemoryAssumption
  <1>1. /\ Page(l) \in Nat /\ l % PAGE_SIZE \in 0 .. PAGE_SIZE - 1
        /\ Page(l) * PAGE_SIZE + (l % PAGE_SIZE) = l
    BY Place
  <1>2. CASE ~Crosses(l, len)
    BY <1>2 DEF Len1
  <1>3. CASE Crosses(l, len)
    <2> DEFINE top == l + len - 1
               p == Page(l)
               r == l % PAGE_SIZE
    <2>1. Len1(l, len) = PAGE_SIZE - r
      BY <1>3 DEF Len1
    <2>2. /\ Page(top) \in Nat /\ top % PAGE_SIZE \in 0 .. PAGE_SIZE - 1 /\ top \in Nat
          /\ Page(top) * PAGE_SIZE + (top % PAGE_SIZE) = top
      BY Place
    <2>3. Page(top) >= p + 1
      <3>1. p <= Page(top)
        BY <2>2, PageOrder
      <3> QED
        BY <3>1, <1>1, <1>3, <2>2 DEF Crosses
    <2> HIDE DEF p, r
    <2>4. (p + 1) * PAGE_SIZE = p * PAGE_SIZE + PAGE_SIZE /\ p \in Nat /\ p * PAGE_SIZE \in Nat
      BY <1>0, <1>1 DEF p
    <2>5. Page(top) * PAGE_SIZE >= (p + 1) * PAGE_SIZE
      BY <1>0, <2>2, <2>3, <2>4
    <2>6. p * PAGE_SIZE + r = l /\ r \in 0 .. PAGE_SIZE - 1
      BY <1>1 DEF p, r
    <2>7. (p + 1) * PAGE_SIZE = l + (PAGE_SIZE - r)
      BY <1>0, <2>4, <2>6
    <2>8. PAGE_SIZE - r \in 1 .. len - 1
      BY <1>0, <2>2, <2>5, <2>6, <2>7
    <2> QED
      BY <2>1, <2>7, <2>8 DEF p
  <1> QED
    BY <1>2, <1>3

\* A store to low memory changes the bytes of its address and no other.
LEMMA KernelStoreBytes ==
  ASSUME IInv, DOMAIN mem = 0 .. NrFrames * PAGE_SIZE - 1, phase \notin {"init_page", "abort"},
         NEW l \in Nat, NEW len \in 1 .. 4, Page(l + len - 1) < NrFrames,
         NEW d, NEW next, KernelStore(l, len, d, next), phase' # "abort"
  PROVE  /\ UNCHANGED <<phase, seg, map, free, stores>> /\ i' = next
         /\ DOMAIN mem' = DOMAIN mem
         /\ \A q \in DOMAIN mem : q \notin l .. (l + len - 1) => mem'[q] = mem[q]
  <1>1. PICK w \in Walks(l, len) :
          /\ ~FaultsAt(w, l, len) /\ mem' = Stored(w, l, len, d) /\ i' = next
          /\ UNCHANGED <<phase, seg, map, free, stores>>
    BY DEF KernelStore, Abort, Store, paging
  <1>2. w.frames[1] = Page(l) /\ (Crosses(l, len) => w.frames[2] = Page(l) + 1)
    BY <1>1, LowWalks DEF IInv, TlbInv
  <1>3. w.frames[1] * PAGE_SIZE + (l % PAGE_SIZE) = l
    BY <1>2, Place
  <1>4. /\ Len1(l, len) \in 1 .. len
        /\ Crosses(l, len) =>
             Len1(l, len) < len /\ w.frames[2] * PAGE_SIZE = l + Len1(l, len)
    BY <1>2, Split
  <1> DEFINE a == Len1(l, len)
             first == Poke(mem, l, a, Parts(l, len, d)[1])
             second == Poke(first, l + a, len - a, Parts(l, len, d)[2])
  <1>5. mem' = IF Crosses(l, len) THEN second ELSE first
    BY <1>1, <1>3, <1>4 DEF Stored
  <1>6. /\ DOMAIN first = DOMAIN mem
        /\ \A q \in DOMAIN mem : q \notin l .. (l + a - 1) => first[q] = mem[q]
    BY DEF Poke
  <1>7. /\ DOMAIN second = DOMAIN first
        /\ \A q \in DOMAIN first : q \notin (l + a) .. (l + a + (len - a) - 1) => second[q] = first[q]
    BY DEF Poke
  <1> HIDE DEF first, second, a
  <1>8. a \in 1 .. len /\ (Crosses(l, len) => a < len)
    BY <1>4 DEF a
  <1>9. \A q \in DOMAIN mem : q \notin l .. (l + len - 1) =>
          q \notin l .. (l + a - 1) /\ (Crosses(l, len) => q \notin (l + a) .. (l + a + (len - a) - 1))
    BY <1>8
  <1> QED
    BY <1>1, <1>5, <1>6, <1>7, <1>9

-------------------------------------------------------------------------------
(* The bytes of the segments *)

\* The place of a segment's byte: in the frame of its page.
LEMMA SegmentByte ==
  ASSUME SpaceInv, LayoutInv, NEW s \in DOMAIN Segments, Given(s),
         NEW o \in 0 .. Segments[s].memsz - 1
  PROVE  LET q == SegPaddr(Segments[s]) + o
             p == Page(Segments[s].vaddr + o)
         IN /\ p \in SegmentPages(Segments[s]) /\ Mapped(p) /\ p \in 0 .. KPage - 1
            /\ q \in Nat /\ Page(q) = map["updir"][p]
            /\ Page(q) \in UserFrame .. free - 1 /\ q \in 0 .. NrFrames * PAGE_SIZE - 1
  <1> DEFINE va == Segments[s].vaddr
             p == Page(va + o)
             f == map["updir"][Page(va)]
             q == SegPaddr(Segments[s]) + o
  <1>1. /\ va \in Nat /\ Segments[s].memsz \in Nat \ {0} /\ o \in Nat
        /\ Page(va) >= NrFrames
    BY Layout
  <1>2. /\ Page(va) \in Nat /\ p \in Nat /\ Page(va) <= p
        /\ p <= Page(va + Segments[s].memsz - 1) /\ Page(va + Segments[s].memsz - 1) \in Nat
    BY <1>1, PageOrder
  <1>3. p \in SegmentPages(Segments[s]) /\ Page(va) \in SegmentPages(Segments[s])
    BY <1>2 DEF SegmentPages
  <1>4. /\ p \in 0 .. KPage - 1 /\ p \in Pages /\ Page(va) \in Pages
        /\ Mapped(p) /\ Mapped(Page(va))
    BY <1>3, ProgramPages DEF Given, SpaceInv, ProgramInv
  <1>5. map["updir"][p] = f + (p - Page(va))
    BY <1>3 DEF LayoutInv, FirstPage
  <1>6. f \in Nat /\ map["updir"][p] \in Frames
    BY <1>4 DEF SpaceInv, MapInv, Mapped, Frames
  <1>7. q = f * PAGE_SIZE + (va % PAGE_SIZE) + o
    BY DEF SegPaddr
  <1>8. q \in Nat /\ Page(q) = map["updir"][p]
    <2> HIDE DEF f, q, va
    <2>1. /\ f * PAGE_SIZE + (va % PAGE_SIZE) + o \in Nat
          /\ Page(f * PAGE_SIZE + (va % PAGE_SIZE) + o) = f + (p - Page(va))
      BY <1>1, <1>6, PlaceInRow
    <2> QED
      BY <2>1, <1>5, <1>7
  <1>9. map["updir"][p] \in UserFrame .. free - 1
    <2>1. ~(map["updir"][p] < UserFrame)
      <3>1. p >= NrFrames /\ UserFrame < NrFrames /\ NrFrames \in Nat /\ UserFrame \in Nat
        BY <1>1, <1>2, MemoryAssumption DEF Frames
      <3> QED
        BY <3>1, <1>2, <1>4 DEF SpaceInv, OwnInv
    <2> QED
      BY <2>1, <1>4, <1>6, MemoryAssumption DEF SpaceInv, OwnInv, MapInv, Frames
  <1>10. q \in 0 .. NrFrames * PAGE_SIZE - 1
    <2> HIDE DEF p, q
    <2> QED
      BY <1>6, <1>8, InMemory, MemoryAssumption DEF Frames
  <1> QED
    BY <1>3, <1>4, <1>8, <1>9, <1>10

\* The bytes past the file's are bytes of the segment.
LEMMA BssBytes ==
  ASSUME NEW s \in DOMAIN Segments
  PROVE  /\ Len(Segments[s].bytes) \in Nat /\ Len(Segments[s].bytes) <= Segments[s].memsz
         /\ Bss(s) \subseteq 0 .. Segments[s].memsz - 1
  <1> DEFINE T == [vaddr : Nat, memsz : Nat \ {0}, bytes : Seq(Nat)]
  <1>1. Segments \in Seq(T) /\ s \in 1 .. Len(Segments)
    BY ProgramAssumption, Layout
  <1> HIDE DEF T
  <1>2. Segments[s] \in T
    BY <1>1
  <1>3. Segments[s].bytes \in Seq(Nat) /\ Segments[s].memsz \in Nat
    BY <1>2 DEF T
  <1>4. Len(Segments[s].bytes) <= Segments[s].memsz
    BY ProgramAssumption
  <1>5. Len(Segments[s].bytes) \in Nat
    BY <1>3
  <1> QED
    BY <1>3, <1>4, <1>5 DEF Bss

\* The address of a segment's first byte is a number.
LEMMA AddressOfSegment ==
  ASSUME SpaceInv, NEW s \in DOMAIN Segments
  PROVE  SegPaddr(Segments[s]) \in Int
  <1>1. /\ Segments[s].vaddr \in Nat /\ KOFFSET \in Nat /\ STACK_SIZE \in Nat \ {0}
        /\ Segments[s].vaddr + Segments[s].memsz <= KOFFSET - STACK_SIZE
        /\ Segments[s].memsz \in Nat \ {0}
    BY Layout
  <1>2. Page(Segments[s].vaddr) \in Pages
    <2>1. Segments[s].vaddr < KOFFSET
      BY <1>1
    <2> QED
      BY <1>1, <2>1, ProgramPages
  <1>3. map["updir"][Page(Segments[s].vaddr)] \in Int
    BY <1>2, MemoryAssumption DEF SpaceInv, MapInv, Frames, None
  <1>4. Segments[s].vaddr % PAGE_SIZE \in Int
    BY <1>1, Place
  <1> QED
    BY <1>3, <1>4, MemoryAssumption DEF SegPaddr

\* What no step does but loading a segment: give away frames of pages that
\* have one, and store to frames from UserFrame on.
Keeps ==
  /\ \A p \in 0 .. KPage - 1 : Mapped(p) /\ p >= NR_PTE => map'["updir"][p] = map["updir"][p]
  /\ \A s \in DOMAIN Segments : Given(s)' => Given(s)

KeepsBytes ==
  /\ stores' = stores /\ phase # "abort" /\ free' \in Nat /\ free' >= free
  /\ \A q \in DOMAIN mem : Page(q) >= UserFrame => mem'[q] = mem[q]

\* The frames of the segments are the same.
LEMMA KeepsPages ==
  ASSUME SpaceInv, LayoutInv, Keeps, NEW s \in DOMAIN Segments, Given(s)'
  PROVE  /\ \A p \in SegmentPages(Segments[s]) : map'["updir"][p] = map["updir"][p]
         /\ FirstPage(s) \in SegmentPages(Segments[s])
         /\ SegPaddr(Segments[s])' = SegPaddr(Segments[s])
  <1> DEFINE va == Segments[s].vaddr
  <1>1. /\ va \in Nat /\ Segments[s].memsz \in Nat \ {0} /\ Page(va) >= NR_PTE
        /\ NR_PTE \in Nat
    BY Layout, MemoryAssumption
  <1>2. /\ Page(va) \in Nat /\ Page(va + Segments[s].memsz - 1) \in Nat
        /\ Page(va) <= Page(va + Segments[s].memsz - 1)
    BY <1>1, PageOrder
  <1>3. ASSUME NEW p \in SegmentPages(Segments[s])
        PROVE  map'["updir"][p] = map["updir"][p]
    <2>1. p >= NR_PTE
      BY <1>1, <1>2 DEF SegmentPages
    <2>2. p \in 0 .. KPage - 1 /\ Mapped(p)
      BY ProgramPages DEF Keeps, Given, SpaceInv, ProgramInv
    <2> QED
      BY <2>1, <2>2 DEF Keeps
  <1>4. FirstPage(s) \in SegmentPages(Segments[s])
    BY <1>2 DEF FirstPage, SegmentPages
  <1> QED
    BY <1>3, <1>4 DEF SegPaddr, FirstPage

LEMMA KeepsLayout ==
  ASSUME SpaceInv, LayoutInv, Keeps
  PROVE  \A s \in DOMAIN Segments : Given(s)' => \A p \in SegmentPages(Segments[s]) :
           map'["updir"][p] = map'["updir"][FirstPage(s)] + (p - FirstPage(s))
  BY KeepsPages DEF LayoutInv, Keeps

LEMMA KeepsZero ==
  ASSUME SpaceInv, DataInv, Keeps, KeepsBytes, DOMAIN mem' = DOMAIN mem
  PROVE  stores' = 0 => ZeroInv'
  <1> SUFFICES ASSUME stores' = 0 PROVE ZeroInv'
    OBVIOUS
  <1>0. /\ ZeroInv /\ LayoutInv /\ free \in Nat /\ UserFrame \in Nat /\ UserFrame <= free
        /\ DOMAIN mem = 0 .. NrFrames * PAGE_SIZE - 1
    BY MemoryAssumption DEF DataInv, KeepsBytes, SpaceInv, MapInv, Frames
  <1>1. ASSUME NEW q \in DOMAIN mem, Page(q) >= free' PROVE mem'[q] = 0
    <2>1. q \in Nat
      BY <1>0
    <2>2. Page(q) \in Nat
      BY <2>1, PageOrder
    <2> QED
      BY <2>2, <1>0, <1>1 DEF KeepsBytes, ZeroInv
  <1>2. ASSUME NEW s \in DOMAIN Segments, Given(s)', NEW o \in Bss(s)
        PROVE  mem'[SegPaddr(Segments[s])' + o] = 0
    <2> DEFINE q == SegPaddr(Segments[s]) + o
    <2>1. Given(s) /\ o \in 0 .. Segments[s].memsz - 1
      BY <1>2, BssBytes DEF Keeps
    <2>2. q \in DOMAIN mem /\ Page(q) \in UserFrame .. free - 1
      BY <2>1, <1>0, SegmentByte
    <2>3. mem[q] = 0
      BY <2>1, <1>0, <1>2 DEF ZeroInv
    <2>4. mem'[q] = mem[q]
      BY <2>2, <1>0 DEF KeepsBytes
    <2>5. SegPaddr(Segments[s])' = SegPaddr(Segments[s])
      BY <1>0, <1>2, KeepsPages
    <2> QED
      BY <2>3, <2>4, <2>5
  <1> QED
    BY <1>1, <1>2 DEF ZeroInv

-------------------------------------------------------------------------------
(* Steps *)

LEMMA InitData == ASSUME Init PROVE DataInv
  <1>1. \A s \in DOMAIN Segments : ~Given(s)
    BY Layout DEF Init, Given
  <1>2. \A q \in DOMAIN mem : mem[q] = 0
    BY DEF Init
  <1>3. LayoutInv
    BY <1>1 DEF Init, LayoutInv, Loading
  <1>4. ZeroInv
    BY <1>1, <1>2 DEF ZeroInv
  <1> QED
    BY <1>3, <1>4, MemoryAssumption DEF Init, DataInv

\* The kernel stores to the screen.
LEMMA ScreenData ==
  ASSUME IInv, DataInv, WriteTest \/ Clear, phase' # "abort"
  PROVE  DataInv'
  <1> DEFINE l == VMEM_ADDR + 4 * i
  <1>1. /\ phase \in {"write_test", "clear"} /\ i < SCR_SIZE \div 4
        /\ \E d : KernelStore(l, 4, d, i + 1)
    BY DEF WriteTest, Clear
  <1>2. l \in Nat /\ \A q \in l .. (l + 4 - 1) : q \in Nat /\ Page(q) \in 0 .. UserFrame - 1
    <2>1. i \in Nat /\ SCR_SIZE \in Nat /\ VMEM_ADDR \in Nat
      BY VideoMemory DEF DataInv
    <2>2. SCR_SIZE = (SCR_SIZE % 4) + 4 * (SCR_SIZE \div 4)
          /\ SCR_SIZE % 4 \in 0 .. 3 /\ SCR_SIZE \div 4 \in Nat
      BY <2>1, DivMod
    <2>3. 4 * i + 4 <= SCR_SIZE
      BY <1>1, <2>1, <2>2
    <2>4. \A q \in l .. (l + 4 - 1) : q \in VMEM_ADDR .. (VMEM_ADDR + SCR_SIZE - 1) /\ q \in Nat
      BY <2>1, <2>3
    <2> QED
      BY <2>1, <2>4, VideoMemory
  <1> HIDE DEF l
  <1>3. Page(l + 4 - 1) < NrFrames
    <2>1. l + 4 - 1 \in l .. (l + 4 - 1)
      BY <1>2
    <2> QED
      BY <2>1, <1>2, MemoryAssumption DEF Frames
  <1>4. /\ UNCHANGED <<phase, seg, map, free, stores>> /\ i' = i + 1
        /\ DOMAIN mem' = DOMAIN mem
        /\ \A q \in DOMAIN mem : q \notin l .. (l + 4 - 1) => mem'[q] = mem[q]
    <2>1. PICK d : KernelStore(l, 4, d, i + 1)
      BY <1>1
    <2>2. DOMAIN mem = 0 .. NrFrames * PAGE_SIZE - 1 /\ phase \notin {"init_page", "abort"}
      BY <1>1 DEF DataInv
    <2> QED
      BY <2>1, <2>2, <1>2, <1>3, KernelStoreBytes
  <1>5. \A q \in DOMAIN mem : Page(q) >= UserFrame => mem'[q] = mem[q]
    <2>1. \A q \in l .. (l + 4 - 1) : ~(Page(q) >= UserFrame)
      BY <1>2, MemoryAssumption DEF Frames
    <2> QED
      BY <2>1, <1>4
  <1>6. Keeps /\ KeepsBytes
    <2>1. free \in Nat /\ phase # "abort"
      BY <1>1, MemoryAssumption DEF IInv, SpaceInv, MapInv, Frames
    <2> QED
      BY <2>1, <1>4, <1>5 DEF Keeps, KeepsBytes, Given
  <1>7. stores' = 0 => ZeroInv'
    BY <1>4, <1>6, KeepsZero DEF IInv
  <1>8. LayoutInv'
    BY <1>4 DEF DataInv, LayoutInv, Given, Mapped
  <1> QED
    BY <1>4, <1>7, <1>8 DEF DataInv

\* The kernel stores a byte of the file.
LEMMA IdeReadData == ASSUME IInv, DataInv, IdeRead, phase' # "abort" PROVE DataInv'
  <1> DEFINE l == SegPaddr(Segments[seg]) + i
  <1>1. /\ phase = "ide_read" /\ i \in Nat /\ i < Len(Segments[seg].bytes)
        /\ seg \in DOMAIN Segments /\ Given(seg) /\ LayoutInv
        /\ KernelStore(l, 1, Word(Segments[seg].bytes[i + 1]), i + 1)
        /\ DOMAIN mem = 0 .. NrFrames * PAGE_SIZE - 1
    BY DEF IdeRead, DataInv, IInv, SpaceInv, ProgramInv, Given
  <1>2. i \in 0 .. Segments[seg].memsz - 1
    BY <1>1, BssBytes, Layout
  <1> DEFINE p == Page(Segments[seg].vaddr + i)
  <1>3. /\ p \in SegmentPages(Segments[seg]) /\ Mapped(p) /\ p \in 0 .. KPage - 1
        /\ l \in Nat /\ Page(l) = map["updir"][p]
        /\ Page(l) \in UserFrame .. free - 1
    BY <1>1, <1>2, SegmentByte DEF IInv
  <1> HIDE DEF l, p
  <1>4. /\ UNCHANGED <<phase, seg, map, free, stores>> /\ i' = i + 1
        /\ DOMAIN mem' = DOMAIN mem
        /\ \A q \in DOMAIN mem : q # l => mem'[q] = mem[q]
    <2>1. l + 1 - 1 = l /\ l .. (l + 1 - 1) = {l}
      BY <1>3
    <2>2. Page(l) < NrFrames
      BY <1>3, MemoryAssumption DEF IInv, SpaceInv, MapInv, Frames
    <2>3. Page(l + 1 - 1) < NrFrames
      BY <2>1, <2>2
    <2>4. \A q : q # l => q \notin l .. (l + 1 - 1)
      BY <2>1
    <2> QED
      BY <1>1, <1>3, <2>3, <2>4, KernelStoreBytes
  <1>5. LayoutInv'
    BY <1>1, <1>4 DEF LayoutInv, Given, Mapped
  <1>6. ASSUME stores' = 0 PROVE ZeroInv'
    <2>0. ZeroInv
      BY <1>1, <1>4, <1>6 DEF DataInv
    <2>1. ASSUME NEW q \in DOMAIN mem, Page(q) >= free PROVE mem'[q] = 0
      <3>1. q # l
        BY <1>3, <2>1, MemoryAssumption DEF IInv, SpaceInv, MapInv, Frames
      <3> QED
        BY <3>1, <2>0, <2>1, <1>4 DEF ZeroInv
    <2>2. ASSUME NEW s \in DOMAIN Segments, Given(s), NEW o \in Bss(s)
          PROVE  mem'[SegPaddr(Segments[s]) + o] = 0
      <3> DEFINE q == SegPaddr(Segments[s]) + o
                 r == Page(Segments[s].vaddr + o)
      <3>1. o \in 0 .. Segments[s].memsz - 1
        BY BssBytes
      <3>2. /\ r \in SegmentPages(Segments[s]) /\ Mapped(r) /\ r \in 0 .. KPage - 1
            /\ q \in DOMAIN mem /\ Page(q) = map["updir"][r]
        BY <3>1, <2>2, <1>1, SegmentByte DEF IInv
      <3>3. q # l
        <4>1. CASE s = seg
          <5>1. i < o /\ o \in Nat
            BY <4>1, <1>1, BssBytes DEF Bss
          <5>2. SegPaddr(Segments[seg]) \in Int
            BY <1>1, AddressOfSegment DEF IInv
          <5> QED
            BY <4>1, <5>1, <5>2, <1>1 DEF l
        <4>2. CASE s # seg
          <5>1. s < seg /\ s \in Nat /\ seg \in Nat
            BY <4>2, <2>2, <1>1, Layout DEF Given
          <5>2. r < Page(Segments[seg].vaddr)
            BY <5>1, <3>2, <1>1, ProgramAssumption
          <5>3. Page(Segments[seg].vaddr) <= p /\ p \in Nat /\ Page(Segments[seg].vaddr) \in Nat
            <6>1. Segments[seg].vaddr \in Nat
              BY <1>1, Layout
            <6> QED
              BY <6>1, <1>1, PageOrder DEF p
          <5>4. r # p
            BY <5>2, <5>3, <3>2
          <5>5. map["updir"][r] # map["updir"][p]
            BY <5>4, <3>2, <1>3 DEF IInv, SpaceInv, OwnInv
          <5> QED
            BY <5>5, <3>2, <1>3
        <4> QED
          BY <4>1, <4>2
      <3>4. mem[q] = 0
        BY <2>0, <2>2 DEF ZeroInv
      <3> QED
        BY <3>2, <3>3, <3>4, <1>4
    <2>3. \A s \in DOMAIN Segments :
            (Given(s)' <=> Given(s)) /\ SegPaddr(Segments[s])' = SegPaddr(Segments[s])
      BY <1>4 DEF Given, SegPaddr
    <2>4. DOMAIN mem' = DOMAIN mem /\ free' = free
      BY <1>4
    <2> QED
      BY <2>1, <2>2, <2>3, <2>4 DEF ZeroInv
  <1> QED
    BY <1>1, <1>4, <1>5, <1>6 DEF DataInv

\* The place of a number in an interval
LEMMA RankInInterval ==
  ASSUME NEW a \in Nat, NEW b \in Nat, NEW p \in a .. b
  PROVE  Rank(a .. b, p) = p - a
  <1>1. {r \in a .. b : r < p} = a .. p - 1
    OBVIOUS
  <1>2. p - 1 \in Int
    OBVIOUS
  <1>3. Cardinality(a .. p - 1) = IF a > p - 1 THEN 0 ELSE (p - 1) - a + 1
    BY <1>2, FS_Interval
  <1>4. Rank(a .. b, p) = Cardinality(a .. p - 1)
    BY <1>1, Zenon DEF Rank
  <1> QED
    BY <1>3, <1>4

\* No page of a segment has a frame before it is loaded, so its frames are the
\* next ones, in order, and nothing was stored to them.
LEMMA LoadSegmentData == ASSUME IInv, SpaceInv', DataInv, LoadSegment PROVE DataInv'
  <1> DEFINE va == Segments[seg].vaddr
             len == Segments[seg].memsz
             a == Page(va)
             b == Page(va + len - 1)
  <1>1. /\ phase = "load" /\ phase' = "ide_read" /\ seg \in DOMAIN Segments /\ Len(Segments) \in Nat
        /\ UNCHANGED <<i, seg, mem, stores>> /\ MmMalloc(va, len)
        /\ SpaceInv /\ LayoutInv
    BY Layout DEF LoadSegment, Goto, IInv, SpaceInv, ProgramInv, DataInv
  <1>2. /\ va \in Nat /\ len \in Nat \ {0} /\ va + len <= KOFFSET
        /\ Page(va) >= NrFrames /\ Page(va) >= NR_PTE
    BY <1>1, Layout
  <1>3. /\ a \in Nat /\ b \in Nat /\ a .. b = SegmentPages(Segments[seg])
        /\ a .. b \subseteq 0 .. KPage - 1 /\ a .. b \subseteq Pages /\ a <= b
        /\ a = FirstPage(seg)
    <2>1. va + len - 1 \in Nat /\ va <= va + len - 1
      BY <1>2
    <2>2. a \in Nat /\ b \in Nat /\ a <= b
      BY <1>2, <2>1, PageOrder
    <2>3. a .. b = SegmentPages(Segments[seg]) /\ a = FirstPage(seg)
      BY DEF SegmentPages, FirstPage
    <2> HIDE DEF a, b
    <2> QED
      BY <1>1, <2>2, <2>3, ProgramPages
  <1>4. /\ free' \in UserFrame .. NrFrames
        /\ \A p \in Pages : Mapped(p) => map'["updir"][p] = map["updir"][p]
        /\ \A p \in MallocPages(va, len) : p \in 0 .. KPage - 1 /\ Mapped(p)'
    BY <1>1, <1>2, MallocMaps
  <1>5. ASSUME NEW p \in a .. b PROVE ~Mapped(p)
    <2>1. SUFFICES ASSUME Mapped(p) PROVE FALSE
      OBVIOUS
    <2>2. PICK s \in DOMAIN Segments : Given(s) /\ p \in SegmentPages(Segments[s])
      BY <1>1, <1>3, <2>1 DEF LayoutInv, Loading
    <2>3. s < seg
      BY <1>1, <2>2 DEF Given
    <2>4. p < a
      BY <1>1, <2>2, <2>3, ProgramAssumption
    <2> QED
      BY <1>3, <2>4
  <1> HIDE DEF a, b
  <1>6. NewPages(va, len) = a .. b
    BY <1>5 DEF NewPages, Mapped, a, b
  <1>7. /\ free' = free + Cardinality(a .. b)
        /\ map' = [map EXCEPT !["updir"] = [p \in Pages |->
                     IF p \in a .. b THEN free + Rank(a .. b, p) ELSE @[p]]]
    BY <1>1, <1>6 DEF MmMalloc, Rank
  <1>8. \A p \in a .. b : map'["updir"][p] = free + (p - a)
    <2>1. \A p \in Pages : map'["updir"][p] =
            IF p \in a .. b THEN free + Rank(a .. b, p) ELSE map["updir"][p]
      BY <1>1, <1>7 DEF SpaceInv, MapInv
    <2>2. \A p \in a .. b : Rank(a .. b, p) = p - a
      BY <1>3, RankInInterval
    <2> QED
      BY <1>3, <2>1, <2>2
  <1>9. free \in Nat /\ UserFrame \in Nat /\ free <= free'
    <2>1. free \in Nat /\ UserFrame \in Nat
      BY <1>1, MemoryAssumption DEF SpaceInv, MapInv, Frames
    <2>2. Cardinality(a .. b) \in Nat
      <3>1. Cardinality(a .. b) = IF a > b THEN 0 ELSE b - a + 1
        BY <1>3, FS_Interval
      <3> QED
        BY <1>3, <3>1
    <2> QED
      BY <1>7, <2>1, <2>2
  <1>10. \A s \in DOMAIN Segments : Given(s)' <=> (Given(s) \/ s = seg)
    BY <1>1, Layout DEF Given
  <1>11. ASSUME NEW s \in DOMAIN Segments, Given(s)
         PROVE  /\ \A p \in SegmentPages(Segments[s]) : map'["updir"][p] = map["updir"][p]
                /\ FirstPage(s) \in SegmentPages(Segments[s])
                /\ SegPaddr(Segments[s])' = SegPaddr(Segments[s])
    <2>1. \A p \in SegmentPages(Segments[s]) : map'["updir"][p] = map["updir"][p]
      BY <1>1, <1>4, <1>11, ProgramPages DEF Given, SpaceInv, ProgramInv
    <2>2. FirstPage(s) \in SegmentPages(Segments[s])
      <3>1. Segments[s].vaddr \in Nat /\ Segments[s].memsz \in Nat \ {0}
        BY Layout
      <3> QED
        BY <3>1, PageOrder DEF FirstPage, SegmentPages
    <2> QED
      BY <2>1, <2>2 DEF SegPaddr, FirstPage
  <1>12. LayoutInv'
    <2>1. ASSUME NEW p \in 0 .. KPage - 1, Mapped(p)'
          PROVE  \E s \in DOMAIN Segments : Given(s)' /\ p \in SegmentPages(Segments[s])
      <3>1. CASE p \in a .. b
        BY <3>1, <1>1, <1>3, <1>10
      <3>2. CASE p \notin a .. b
        <4>1. p \in Pages
          BY ProgramPages
        <4>2. Mapped(p)
          BY <3>2, <4>1, <2>1, <1>1, <1>7 DEF Mapped, SpaceInv, MapInv
        <4> QED
          BY <4>2, <1>1, <1>10 DEF LayoutInv, Loading
      <3> QED
        BY <3>1, <3>2
    <2>2. ASSUME NEW s \in DOMAIN Segments, Given(s)', NEW p \in SegmentPages(Segments[s])
          PROVE  map'["updir"][p] = map'["updir"][FirstPage(s)] + (p - FirstPage(s))
      <3>1. CASE s = seg
        <4>1. p \in a .. b /\ a \in a .. b
          BY <3>1, <1>3
        <4>2. map'["updir"][p] = free + (p - a) /\ map'["updir"][a] = free + (a - a)
          BY <4>1, <1>8
        <4> QED
          BY <3>1, <4>1, <4>2, <1>3, <1>9
      <3>2. CASE s # seg
        BY <3>2, <2>2, <1>1, <1>10, <1>11 DEF LayoutInv
      <3> QED
        BY <3>1, <3>2
    <2> QED
      BY <2>1, <2>2 DEF LayoutInv, Loading
  <1>13. ASSUME stores' = 0 PROVE ZeroInv'
    <2>0. ZeroInv
      BY <1>1, <1>13 DEF DataInv
    <2>1. ASSUME NEW q \in DOMAIN mem, Page(q) >= free' PROVE mem[q] = 0
      <3>1. q \in Nat
        BY DEF DataInv
      <3>2. Page(q) \in Nat
        BY <3>1, PageOrder
      <3> QED
        BY <2>0, <2>1, <3>2, <1>4, <1>9, MemoryAssumption DEF ZeroInv
    <2>2. ASSUME NEW s \in DOMAIN Segments, Given(s)', NEW o \in Bss(s)
          PROVE  mem[SegPaddr(Segments[s])' + o] = 0
      <3>1. CASE s = seg
        <4> DEFINE q == SegPaddr(Segments[s])' + o
        <4>1. o \in Nat /\ o \in 0 .. len - 1
          BY <3>1, <1>2, BssBytes
        <4>2. Page(va + o) \in a .. b
          BY <4>1, <1>2, PageOrder DEF a, b
        <4>3. q = free * PAGE_SIZE + (va % PAGE_SIZE) + o
          <5>1. map'["updir"][a] = free
            <6>1. a \in a .. b
              BY <1>3
            <6>2. map'["updir"][a] = free + (a - a)
              BY <6>1, <1>8
            <6> QED
              BY <6>2, <1>3, <1>9
          <5> QED
            BY <3>1, <5>1 DEF SegPaddr, a
        <4>4. q \in Nat /\ Page(q) = free + (Page(va + o) - a)
          BY <4>1, <4>3, <1>2, <1>9, PlaceInRow DEF a
        <4> HIDE DEF q
        <4>5. Page(q) = map'["updir"][Page(va + o)]
          BY <4>2, <4>4, <1>8
        <4>6. map'["updir"][Page(va + o)] \in Frames
          <5> DEFINE p == Page(va + o)
          <5>1. p \in MallocPages(va, len) /\ p \in Pages
            BY <4>2, <1>3 DEF MallocPages, a, b
          <5> HIDE DEF p
          <5>2. map'["updir"][p] # None
            BY <5>1, <1>4 DEF Mapped
          <5>3. map'["updir"][p] \in Frames \cup {None}
            BY <5>1 DEF SpaceInv, MapInv
          <5> QED
            BY <5>2, <5>3 DEF p
        <4>7. q \in DOMAIN mem
          <5>1. Page(q) < NrFrames
            BY <4>5, <4>6, MemoryAssumption DEF Frames
          <5> QED
            BY <5>1, <4>4, InMemory DEF DataInv
        <4>8. Page(q) >= free
          BY <4>2, <4>4, <1>3, <1>9
        <4> QED
          BY <2>0, <4>7, <4>8 DEF ZeroInv, q
      <3>2. CASE s # seg
        BY <3>2, <2>0, <2>2, <1>10, <1>11 DEF ZeroInv
      <3> QED
        BY <3>1, <3>2
    <2> QED
      BY <2>1, <2>2, <1>1 DEF ZeroInv
  <1> QED
    BY <1>1, <1>12, <1>13 DEF DataInv

\* Steps that neither store nor load a segment
LEMMA OtherPages ==
  ASSUME IInv, DataInv,
         \/ InitPage \/ InitMm \/ RecordBrk \/ Stack \/ CreateVideoMapping
         \/ WriteCr3 \/ BootLoopEnds \/ SysBrk
  PROVE  /\ UNCHANGED <<mem, stores>> /\ i' \in Nat /\ phase # "abort"
         /\ Keeps /\ KeepsBytes
  <1> USE DEF paging, boot, video, Goto
  <1>0. /\ SpaceInv /\ i \in Nat /\ free \in Nat /\ Len(Segments) \in Nat
        /\ DOMAIN Segments = 1 .. Len(Segments) /\ seg \in Nat
        /\ KPage \in Nat /\ 0 .. KPage - 1 \subseteq Pages
        /\ map \in [{"kpdir", "updir"} -> [Pages -> Frames \cup {None}]]
    BY Layout, ProgramPages, MemoryAssumption
       DEF IInv, SpaceInv, MapInv, ProgramInv, DataInv, Frames
  <1>1. CASE InitPage
    BY <1>0, <1>1 DEF InitPage, Keeps, KeepsBytes, Given
  <1>2. CASE InitMm
    <2>1. \A p \in Pages : ~Mapped(p)
      BY <1>0, <1>2 DEF InitMm, SpaceInv, MapInv
    <2> QED
      BY <1>0, <1>2, <2>1 DEF InitMm, Keeps, KeepsBytes, Given
  <1>3. CASE RecordBrk
    BY <1>0, <1>3 DEF RecordBrk, Keeps, KeepsBytes, Given
  <1>4. CASE CreateVideoMapping
    BY <1>0, <1>4 DEF CreateVideoMapping, Keeps, KeepsBytes, Given
  <1>5. CASE WriteCr3 \/ BootLoopEnds
    BY <1>0, <1>5 DEF WriteCr3, BootLoopEnds, After, Keeps, KeepsBytes, Given
  <1>6. ASSUME NEW va \in Nat, NEW len \in Nat \ {0}, va + len <= KOFFSET,
               Page(va) >= NrFrames, Page(va) >= NR_PTE, MmMalloc(va, len)
        PROVE  /\ free' \in Nat /\ free' >= free
               /\ \A p \in Pages : Mapped(p) => map'["updir"][p] = map["updir"][p]
    <2>1. /\ free' \in UserFrame .. NrFrames
          /\ \A p \in Pages : Mapped(p) => map'["updir"][p] = map["updir"][p]
      BY <1>0, <1>6, MallocMaps
    <2>2. free' = free + Cardinality(NewPages(va, len))
      BY <1>6 DEF MmMalloc
    <2>3. Cardinality(NewPages(va, len)) \in Nat
      <3>1. Page(va) \in Int /\ Page(va + len - 1) \in Int
        <4>1. va + len - 1 \in Nat
          BY <1>6
        <4> QED
          BY <4>1, <1>6, PageOrder
      <3>2. NewPages(va, len) \in SUBSET (Page(va) .. Page(va + len - 1))
        BY DEF NewPages
      <3> QED
        BY <3>1, <3>2, Ranks
    <2> QED
      BY <1>0, <2>1, <2>2, <2>3
  <1>7. CASE Stack
    <2>1. /\ phase = "load" /\ phase' = "video" /\ UNCHANGED <<i, seg, mem, stores>>
          /\ MmMalloc(KOFFSET - STACK_SIZE, STACK_SIZE)
      BY <1>7 DEF Stack
    <2>2. /\ free' \in Nat /\ free' >= free
          /\ \A p \in Pages : Mapped(p) => map'["updir"][p] = map["updir"][p]
      <3> DEFINE va == KOFFSET - STACK_SIZE
      <3>1. /\ va \in Nat /\ STACK_SIZE \in Nat \ {0} /\ va + STACK_SIZE <= KOFFSET
            /\ Page(va) >= NrFrames /\ Page(va) >= NR_PTE
        BY Layout
      <3> HIDE DEF va
      <3>2. MmMalloc(va, STACK_SIZE)
        BY <2>1 DEF va
      <3> QED
        BY <3>1, <3>2, <1>6
    <2> QED
      BY <1>0, <2>1, <2>2 DEF Keeps, KeepsBytes, Given
  <1>8. CASE SysBrk
    <2>1. /\ phase = "user" /\ UNCHANGED <<phase, i, seg, mem, stores>>
          /\ brk \in Nat /\ brk >= End - 1
      BY <1>0, <1>8 DEF SysBrk, SpaceInv, ProgramInv, Allocated, WithVideo
    <2>2. PICK new \in Breaks : MmBrk(new)
      BY <1>8 DEF SysBrk
    <2>3. new \in Nat /\ new >= End /\ new <= KOFFSET - STACK_SIZE
      BY ProgramAssumption, MemoryAssumption
    <2>4. /\ free' \in Nat /\ free' >= free
          /\ \A p \in Pages : Mapped(p) => map'["updir"][p] = map["updir"][p]
      <3>1. CASE new > brk
        <4>1. /\ new - brk \in Nat \ {0} /\ brk + (new - brk) <= KOFFSET
              /\ Page(brk) >= NrFrames /\ Page(brk) >= NR_PTE /\ MmMalloc(brk, new - brk)
          BY <2>1, <2>2, <2>3, <3>1, Layout DEF MmBrk
        <4> QED
          BY <4>1, <2>1, <1>6
      <3>2. CASE ~(new > brk)
        BY <3>2, <2>2, <1>0 DEF MmBrk
      <3> QED
        BY <3>1, <3>2
    <2> QED
      BY <1>0, <2>1, <2>4 DEF Keeps, KeepsBytes, Given
  <1> QED
    BY <1>1, <1>2, <1>3, <1>4, <1>5, <1>7, <1>8

LEMMA OtherData ==
  ASSUME IInv, DataInv,
         \/ InitPage \/ InitMm \/ RecordBrk \/ Stack \/ CreateVideoMapping
         \/ WriteCr3 \/ BootLoopEnds \/ SysBrk
  PROVE  DataInv'
  <1> USE DEF paging, boot, video, Goto
  <1>1. /\ UNCHANGED <<mem, stores>> /\ i' \in Nat /\ phase # "abort"
        /\ Keeps /\ KeepsBytes
    BY OtherPages
  <1>2. stores' = 0 => ZeroInv'
    BY <1>1, KeepsZero DEF IInv
  <1>3. ASSUME phase' \in Loading, NEW p \in 0 .. KPage - 1, Mapped(p)'
        PROVE  \E s \in DOMAIN Segments : Given(s)' /\ p \in SegmentPages(Segments[s])
    <2>1. CASE InitMm
      <3>1. /\ map \in [{"kpdir", "updir"} -> [Pages -> Frames \cup {None}]]
            /\ p \in Pages /\ ~(p >= KPage)
        BY ProgramPages DEF IInv, SpaceInv, MapInv
      <3>2. map'["updir"][p] = None
        BY <2>1, <3>1 DEF InitMm
      <3> QED
        BY <3>2, <1>3 DEF Mapped
    <2>2. CASE RecordBrk
      <3>1. phase = "ide_read" /\ seg' = seg + 1 /\ map' = map
        BY <2>2 DEF RecordBrk
      <3>2. PICK s \in DOMAIN Segments : Given(s) /\ p \in SegmentPages(Segments[s])
        BY <3>1, <1>3 DEF DataInv, LayoutInv, Loading, Mapped
      <3>3. s < seg'
        BY <3>1, <3>2, Layout DEF Given, IInv, SpaceInv, ProgramInv
      <3> QED
        BY <3>2, <3>3 DEF Given
    <2>3. CASE BootLoopEnds
      <3>1. phase = "write_test" /\ UNCHANGED <<seg, map>>
        BY <2>3, <1>3 DEF BootLoopEnds, After, Loading
      <3> QED
        BY <3>1, <1>3 DEF DataInv, LayoutInv, Loading, Mapped, Given
    <2>4. CASE InitPage \/ Stack \/ CreateVideoMapping \/ WriteCr3 \/ SysBrk
      BY <2>4, <1>3 DEF InitPage, Stack, CreateVideoMapping, WriteCr3, SysBrk, Loading
    <2> QED
      BY <2>1, <2>2, <2>3, <2>4
  <1>4. LayoutInv'
    BY <1>1, <1>3, KeepsLayout DEF LayoutInv, DataInv, IInv
  <1> QED
    BY <1>1, <1>2, <1>4 DEF DataInv

\* Accesses: they change no directory, and most of them no byte.
LEMMA QuietLayout ==
  ASSUME DataInv, Quiet PROVE LayoutInv'
  BY DEF DataInv, LayoutInv, Quiet, Given, Mapped, Loading

LEMMA LoadData ==
  ASSUME DataInv, Quiet, i' \in Nat, UNCHANGED <<mem, stores>>
  PROVE  DataInv'
  <1>1. phase' # "abort" /\ stores = 0 => ZeroInv'
    BY DEF DataInv, ZeroInv, Quiet, Given, SegPaddr
  <1> QED
    BY <1>1, QuietLayout DEF DataInv

LEMMA AbortData ==
  ASSUME DataInv, WriteTest \/ Clear \/ IdeRead, phase' = "abort"
  PROVE  DataInv'
  <1>1. ASSUME NEW l, NEW len, NEW d, NEW next, KernelStore(l, len, d, next), phase # "abort"
        PROVE  UNCHANGED <<i, mem, stores>>
    BY <1>1 DEF KernelStore, Abort
  <1>2. UNCHANGED <<i, mem, stores>>
    BY <1>1 DEF WriteTest, Clear, IdeRead
  <1> QED
    BY <1>2, LoadData, AccessesAreQuiet DEF DataInv

LEMMA LoadsData ==
  ASSUME DataInv, ReadTest \/ KernelRuns \/ UserLoad \/ UpdateScreen \/ UNCHANGED vars
  PROVE  DataInv'
  <1> USE DEF Abort, boot
  <1>1. CASE ReadTest
    <2>1. ASSUME NEW l, NEW len, NEW d, KernelLoad(l, len, d, i + 1)
          PROVE  i' \in {i, i + 1} /\ UNCHANGED <<mem, stores>>
      BY <2>1 DEF KernelLoad
    <2>2. i' \in {i, i + 1} /\ UNCHANGED <<mem, stores>>
      BY <1>1, <2>1 DEF ReadTest
    <2> QED
      BY <1>1, <2>2, LoadData, AccessesAreQuiet DEF DataInv
  <1>2. CASE KernelRuns \/ UserLoad \/ UpdateScreen \/ UNCHANGED vars
    <2>1. ASSUME NEW l, NEW len, LoadAt(l, len) PROVE UNCHANGED <<i, mem, stores>>
      BY <2>1 DEF LoadAt
    <2>2. UNCHANGED <<i, mem, stores>>
      BY <1>2, <2>1 DEF KernelRuns, UserLoad, UpdateScreen, vars
    <2> QED
      BY <1>2, <2>2, LoadData, AccessesAreQuiet DEF DataInv
  <1> QED
    BY <1>1, <1>2

\* After a store of the program, nothing is said of its bytes.
LEMMA UserStoreData == ASSUME DataInv, UserStore PROVE DataInv'
  <1>1. PICK l, len, d : StoreAt(l, len, d)
    BY DEF UserStore
  <1>2. PICK w \in Walks(l, len) :
          IF FaultsAt(w, l, len) THEN Abort
          ELSE Store(w, l, len, d) /\ stores' = stores + 1 /\ UNCHANGED boot
    BY <1>1 DEF StoreAt
  <1>3. CASE FaultsAt(w, l, len)
    BY <1>2, <1>3, LoadData, AccessesAreQuiet DEF Abort, DataInv
  <1>4. CASE ~FaultsAt(w, l, len)
    <2>1. i' = i /\ stores' = stores + 1 /\ mem' = Stored(w, l, len, d)
      BY <1>2, <1>4 DEF boot, Store
    <2>2. DOMAIN Stored(w, l, len, d) = DOMAIN mem
      BY DEF Stored, Poke
    <2> QED
      BY <2>1, <2>2, QuietLayout, AccessesAreQuiet DEF DataInv
  <1> QED
    BY <1>3, <1>4

\* The invariant holds in every state, for stores and loads of the kernel and
\* the program, and what loader, stack and break do to the pages.
THEOREM DataInvariance == Spec => []DataInv
  <1>1. Init => DataInv
    BY InitData
  <1>2. IInv /\ IInv' /\ DataInv /\ [Next]_vars => DataInv'
    <2> SUFFICES ASSUME IInv, IInv', DataInv, [Next]_vars PROVE DataInv'
      OBVIOUS
    <2>1. CASE WriteTest \/ Clear \/ IdeRead
      BY <2>1, ScreenData, IdeReadData, AbortData
    <2>2. CASE LoadSegment
      BY <2>2, LoadSegmentData DEF IInv
    <2>3. CASE \/ InitPage \/ InitMm \/ RecordBrk \/ Stack \/ CreateVideoMapping
               \/ WriteCr3 \/ BootLoopEnds \/ SysBrk
      BY <2>3, OtherData
    <2>4. CASE ReadTest \/ KernelRuns \/ UserLoad \/ UpdateScreen \/ UNCHANGED vars
      BY <2>4, LoadsData
    <2>5. CASE UserStore
      BY <2>5, UserStoreData
    <2> QED
      BY <2>1, <2>2, <2>3, <2>4, <2>5 DEF Next, Boot
  <1> QED
    BY <1>1, <1>2, Invariance, PTL DEF Spec

\* The program finds its bss zero, although the loader stores only the bytes
\* of the file (elf.c:49).
THEOREM BssIsZero == Spec => []BssZero
  <1>1. IInv /\ DataInv => BssZero
    <2> SUFFICES ASSUME IInv, DataInv, phase = "user", stores = 0, NEW s \in DOMAIN Segments,
                        NEW o \in Len(Segments[s].bytes) .. Segments[s].memsz - 1
                 PROVE  mem[SegPaddr(Segments[s]) + o] = 0
      BY DEF BssZero
    <2>1. Given(s)
      BY Layout DEF IInv, SpaceInv, ProgramInv, Allocated, WithVideo, Given
    <2> QED
      BY <2>1 DEF DataInv, ZeroInv, Bss
  <1> QED
    BY <1>1, Invariance, DataInvariance, PTL

-------------------------------------------------------------------------------
(* Types *)

TlbType(t) ==
  t = << >> \/ t \in [1 .. NrTlb -> (Pages \cup {None}) \X (Frames \cup {None})]
Bytes == 0 .. NrFrames * PAGE_SIZE - 1
Words == [1 .. 4 -> Nat]

\* A directory is in use.
DirTyped ==
  /\ map \in [{"kpdir", "updir"} -> [Pages -> Frames \cup {None}]]
  /\ cr3 \in {"kpdir", "updir"}

LEMMA TranslationTypes ==
  ASSUME DirTyped, NEW t, TlbType(t), NEW p \in Pages, NEW x \in Translations(t, p)
  PROVE  TlbType(x.tlb) /\ x.frame \in Frames \cup {None}
  <1>1. PageWalk(p) \in Frames \cup {None}
    BY DEF PageWalk, DirTyped
  <1>2. CASE t = << >>
    BY <1>1, <1>2 DEF Translations, TlbType
  <1>3. CASE t # << >>
    <2>1. t \in [1 .. NrTlb -> (Pages \cup {None}) \X (Frames \cup {None})]
      BY <1>3 DEF TlbType
    <2>2. CASE TlbHits(t, p) # {}
      <3>1. PICK e \in TlbHits(t, p) : x = [frame |-> t[e][2], tlb |-> t]
        BY <1>3, <2>2 DEF Translations
      <3>2. e \in 1 .. NrTlb
        BY <2>1 DEF TlbHits
      <3> QED
        BY <2>1, <3>1, <3>2 DEF TlbType
    <2>3. CASE ~(TlbHits(t, p) # {})
      <3>1. PICK e \in DOMAIN t :
              x = [frame |-> PageWalk(p), tlb |-> [t EXCEPT ![e] = <<p, PageWalk(p)>>]]
        BY <1>3, <2>3 DEF Translations
      <3>2. <<p, PageWalk(p)>> \in (Pages \cup {None}) \X (Frames \cup {None})
        BY <1>1
      <3>3. x.tlb \in [1 .. NrTlb -> (Pages \cup {None}) \X (Frames \cup {None})]
        BY <2>1, <3>1, <3>2
      <3> QED
        BY <1>1, <3>1, <3>3 DEF TlbType
    <2> QED
      BY <2>2, <2>3
  <1> QED
    BY <1>2, <1>3

LEMMA WalkTypes ==
  ASSUME DirTyped, TlbType(tlb), NEW l \in Nat, NEW len \in 1 .. 4,
         Page(l) \in Pages, Page(l + len - 1) \in Pages, NEW w \in Walks(l, len)
  PROVE  /\ TlbType(w.tlb) /\ w.frames[1] \in Frames \cup {None}
         /\ Crosses(l, len) => w.frames[2] \in Frames \cup {None}
  <1>1. CASE ~Crosses(l, len)
    <2>1. PICK t \in Translations(tlb, Page(l)) : w = [frames |-> <<t.frame>>, tlb |-> t.tlb]
      BY <1>1 DEF Walks
    <2>2. w.frames[1] = t.frame /\ w.tlb = t.tlb
      BY <2>1
    <2> QED
      BY <2>2, <1>1, TranslationTypes
  <1>2. CASE Crosses(l, len)
    <2>1. Page(l) + 1 \in Pages
      <3>1. Page(l) <= Page(l + len - 1) /\ Page(l) \in Nat /\ Page(l + len - 1) \in Nat
        BY PageOrder
      <3> QED
        BY <3>1, <1>2, MemoryAssumption DEF Crosses, Pages
    <2>2. PICK t \in Translations(tlb, Page(l)) :
            w \in {[frames |-> <<t.frame, u.frame>>, tlb |-> u.tlb] :
                     u \in Translations(t.tlb, Page(l) + 1)}
      BY <1>2 DEF Walks
    <2>3. PICK u \in Translations(t.tlb, Page(l) + 1) :
            w = [frames |-> <<t.frame, u.frame>>, tlb |-> u.tlb]
      BY <2>2
    <2>4. w.frames[1] = t.frame /\ w.frames[2] = u.frame /\ w.tlb = u.tlb
      BY <2>3
    <2>5. TlbType(t.tlb) /\ t.frame \in Frames \cup {None}
      BY TranslationTypes
    <2>6. TlbType(u.tlb) /\ u.frame \in Frames \cup {None}
      BY <2>1, <2>5, TranslationTypes
    <2> QED
      BY <2>4, <2>5, <2>6
  <1> QED
    BY <1>1, <1>2

LEMMA WordTypes ==
  ASSUME NEW d \in Words, NEW n \in 0 .. 4
  PROVE  Low(d, n) \in Words /\ ShiftRight(d, n) \in Words
  <1>1. \A k \in 1 .. 4 : (IF k <= n THEN d[k] ELSE 0) \in Nat
    BY DEF Words
  <1>2. \A k \in 1 .. 4 : (IF k + n <= 4 THEN d[k + n] ELSE 0) \in Nat
    BY DEF Words
  <1> QED
    BY <1>1, <1>2 DEF Low, ShiftRight, Words

LEMMA WordOfByte == ASSUME NEW n \in Nat PROVE Word(n) \in Words
  <1>1. Len(Word(n)) = 4 /\ Word(n) \in Seq(Nat)
    BY DEF Word
  <1>2. DOMAIN Word(n) = 1 .. 4
    BY <1>1
  <1>3. \A k \in 1 .. 4 : Word(n)[k] \in Nat
    BY <1>1
  <1> QED
    BY <1>1, <1>2, <1>3 DEF Words

LEMMA PokeType ==
  ASSUME NEW m \in [Bytes -> Nat], NEW p \in Nat, NEW len \in 1 .. 4, NEW d \in Words
  PROVE  Poke(m, p, len, d) \in [Bytes -> Nat]
  <1>1. ASSUME NEW q \in Bytes
        PROVE  (IF q \in p .. (p + len - 1) THEN d[q - p + 1] ELSE m[q]) \in Nat
    <2>1. CASE q \in p .. (p + len - 1)
      <3>1. q - p + 1 \in 1 .. 4
        BY <2>1
      <3> QED
        BY <2>1, <3>1 DEF Words
    <2>2. CASE q \notin p .. (p + len - 1)
      BY <2>2
    <2> QED
      BY <2>1, <2>2
  <1> QED
    BY <1>1 DEF Poke

\* The line of an address of the video memory, if there is one
LEMMA MarksType ==
  ASSUME NEW p \in Nat, NEW len
  PROVE  Marks(p, len) \subseteq 0 .. CTR_ROW - 1
  <1> DEFINE k == (p - VMEM_ADDR) \div CTR_COL
  <1>1. ASSUME IsMmio(p) PROVE k \in Nat
    <2>0. PAGE_SIZE \in Nat /\ \A f \in VideoFrames : f \in Nat
      BY MemoryAssumption
    <2>1. VmemFrame <= Page(p) /\ VmemFrame \in Nat /\ Page(p) \in Nat
      BY <1>1, <2>0, VideoMemory DEF IsMmio
    <2>2. VMEM_ADDR <= Page(p) * PAGE_SIZE /\ VMEM_ADDR \in Nat
      <3>1. VmemFrame * PAGE_SIZE <= Page(p) * PAGE_SIZE
        BY <2>0, <2>1
      <3>2. VMEM_ADDR = VmemFrame * PAGE_SIZE
        BY DEF VMEM_ADDR
      <3>3. VMEM_ADDR \in Nat
        BY VideoMemory
      <3> QED
        BY <3>1, <3>2, <3>3
    <2>3. Page(p) * PAGE_SIZE <= p
      <3>1. Page(p) * PAGE_SIZE + (p % PAGE_SIZE) = p /\ p % PAGE_SIZE \in 0 .. PAGE_SIZE - 1
        BY Place
      <3>2. Page(p) * PAGE_SIZE \in Nat
        BY <2>0, <2>1
      <3> QED
        BY <3>1, <3>2, <2>0
    <2>4. p - VMEM_ADDR \in Nat
      BY <2>1, <2>2, <2>3, MemoryAssumption
    <2> HIDE DEF k
    <2> QED
      BY <2>4, MemoryAssumption, DivMod DEF k
  <1> HIDE DEF k
  <1>2. Marks(p, len) = IF IsMmio(p) /\ k < CTR_ROW THEN {k} ELSE {}
    BY DEF Marks, k
  <1> QED
    BY <1>1, <1>2, MemoryAssumption

\* A store keeps the types of bytes and lines.
LEMMA StoreTypes ==
  ASSUME mem \in [Bytes -> Nat], line_dirty \subseteq 0 .. CTR_ROW - 1,
         NEW l \in Nat, NEW len \in 1 .. 4, NEW d \in Words, NEW w,
         w.frames[1] \in Frames \cup {None},
         Crosses(l, len) => w.frames[2] \in Frames \cup {None},
         ~FaultsAt(w, l, len), Store(w, l, len, d)
  PROVE  mem' \in [Bytes -> Nat] /\ line_dirty' \subseteq 0 .. CTR_ROW - 1
  <1> DEFINE p == w.frames[1] * PAGE_SIZE + (l % PAGE_SIZE)
             p2 == w.frames[2] * PAGE_SIZE
             a == Len1(l, len)
  <1>1. p \in Nat /\ (Crosses(l, len) => p2 \in Nat)
    <2>0. Frames \subseteq Nat
      BY DEF Frames
    <2>1. w.frames[1] # None /\ (Crosses(l, len) => w.frames[2] # None)
      BY DEF FaultsAt, Faults
    <2>2. w.frames[1] \in Nat /\ (Crosses(l, len) => w.frames[2] \in Nat)
      BY <2>0, <2>1
    <2> QED
      <3>1. l % PAGE_SIZE \in Nat /\ PAGE_SIZE \in Nat
        BY Place, MemoryAssumption
      <3>2. \A f, r \in Nat : f * PAGE_SIZE + r \in Nat /\ f * PAGE_SIZE \in Nat
        BY <3>1
      <3> QED
        BY <2>2, <3>1, <3>2
  <1>2. a \in 1 .. len /\ (Crosses(l, len) => a < len)
    BY Split
  <1>3. /\ Parts(l, len, d)[1] \in Words
        /\ Crosses(l, len) => Parts(l, len, d)[2] \in Words
    <2>1. Low(d, a) \in Words /\ ShiftRight(d, 4 - a) \in Words
      BY <1>2, WordTypes
    <2> QED
      BY <2>1 DEF Parts
  <1>4. /\ mem' = IF Crosses(l, len)
                  THEN Poke(Poke(mem, p, a, Parts(l, len, d)[1]), p2, len - a, Parts(l, len, d)[2])
                  ELSE Poke(mem, p, a, Parts(l, len, d)[1])
        /\ line_dirty' = line_dirty \cup Marks(p, a)
                           \cup IF Crosses(l, len) THEN Marks(p2, len - a) ELSE {}
    BY DEF Store, Stored, Marked
  <1> HIDE DEF p, p2, a
  <1>5. Poke(mem, p, a, Parts(l, len, d)[1]) \in [Bytes -> Nat] /\ Marks(p, a) \subseteq 0 .. CTR_ROW - 1
    <2>1. a \in 1 .. 4
      BY <1>2
    <2>2. Poke(mem, p, a, Parts(l, len, d)[1]) \in [Bytes -> Nat]
      BY <2>1, <1>1, <1>3, PokeType
    <2> QED
      BY <2>2, <1>1, MarksType
  <1>6. CASE ~Crosses(l, len)
    BY <1>4, <1>5, <1>6
  <1>7. CASE Crosses(l, len)
    <2>1. len - a \in 1 .. 4 /\ p2 \in Nat
      BY <1>1, <1>2, <1>7
    <2>2. Poke(Poke(mem, p, a, Parts(l, len, d)[1]), p2, len - a, Parts(l, len, d)[2])
            \in [Bytes -> Nat]
      BY <2>1, <1>3, <1>5, <1>7, PokeType
    <2>3. Marks(p2, len - a) \subseteq 0 .. CTR_ROW - 1
      BY <2>1, MarksType
    <2> QED
      BY <2>2, <2>3, <1>4, <1>5, <1>7
  <1> QED
    BY <1>6, <1>7

\* What TypeOK says that the other invariants do not
TypeInv ==
  /\ cr3 \in Dirs /\ TlbType(tlb)
  /\ mem \in [Bytes -> Nat]
  /\ line_dirty \subseteq 0 .. CTR_ROW - 1 /\ stores \in 0 .. MaxStores

LEMMA InitTypes == ASSUME Init PROVE TypeInv
  <1>1. TlbType(tlb)
    <2>1. CASE tlb = << >>
      BY <2>1 DEF TlbType
    <2>2. CASE tlb = [e \in 1 .. NrTlb |-> <<None, None>>]
      BY <2>2 DEF TlbType
    <2> QED
      BY <2>1, <2>2 DEF Init
  <1>2. mem \in [Bytes -> Nat]
    BY DEF Init, Bytes
  <1> QED
    BY <1>1, <1>2, MemoryAssumption DEF Init, TypeInv, Dirs

LEMMA DirectoryInUse == ASSUME IInv, phase # "init_page" PROVE DirTyped
  BY DEF IInv, SpaceInv, MapInv, TlbInv, DirInv, DirTyped

\* An access of the kernel, to low memory
LEMMA KernelAccessTypes ==
  ASSUME IInv, TypeInv, phase # "init_page", NEW l \in Nat, NEW len \in 1 .. 4,
         Page(l + len - 1) < NrFrames,
         \/ \E d \in Words : \E next : KernelStore(l, len, d, next)
         \/ \E d, next : KernelLoad(l, len, d, next)
  PROVE  TypeInv'
  <1>1. DirTyped
    BY DirectoryInUse
  <1>2. Page(l) \in Pages /\ Page(l + len - 1) \in Pages
    <2>1. Page(l) \in Nat /\ Page(l + len - 1) \in Nat /\ Page(l) <= Page(l + len - 1)
      BY PageOrder
    <2> QED
      BY <2>1, MemoryAssumption DEF Pages
  <1>3. ASSUME NEW d \in Words, NEW next, KernelStore(l, len, d, next)
        PROVE  TypeInv'
    <2>1. PICK w \in Walks(l, len) :
            /\ tlb' = w.tlb /\ UNCHANGED <<cr3, stores>>
            /\ \/ UNCHANGED <<mem, line_dirty>>
               \/ ~FaultsAt(w, l, len) /\ Store(w, l, len, d)
      BY <1>3 DEF KernelStore, Abort, paging
    <2>2. /\ TlbType(w.tlb) /\ w.frames[1] \in Frames \cup {None}
          /\ Crosses(l, len) => w.frames[2] \in Frames \cup {None}
      BY <1>1, <1>2, WalkTypes DEF TypeInv
    <2>3. CASE UNCHANGED <<mem, line_dirty>>
      BY <2>1, <2>2, <2>3 DEF TypeInv, TlbType
    <2>4. CASE ~FaultsAt(w, l, len) /\ Store(w, l, len, d)
      <3>1. mem' \in [Bytes -> Nat] /\ line_dirty' \subseteq 0 .. CTR_ROW - 1
        BY <2>2, <2>4, StoreTypes DEF TypeInv
      <3> QED
        BY <2>1, <2>2, <3>1 DEF TypeInv, TlbType
    <2> QED
      BY <2>1, <2>3, <2>4
  <1>4. ASSUME NEW d, NEW next, KernelLoad(l, len, d, next)
        PROVE  TypeInv'
    <2>1. PICK w \in Walks(l, len) :
            tlb' = w.tlb /\ UNCHANGED <<cr3, stores, mem, line_dirty>>
      BY <1>4 DEF KernelLoad, Abort, paging
    <2>2. TlbType(w.tlb)
      BY <1>1, <1>2, WalkTypes DEF TypeInv
    <2> QED
      BY <2>1, <2>2 DEF TypeInv, TlbType
  <1> QED
    BY <1>3, <1>4

LEMMA BootTypes ==
  ASSUME IInv, DataInv, TypeInv, WriteTest \/ ReadTest \/ Clear \/ IdeRead
  PROVE  TypeInv'
  <1>1. CASE WriteTest \/ ReadTest \/ Clear
    <2> DEFINE l == VMEM_ADDR + 4 * i
    <2>1. /\ phase # "init_page" /\ i < SCR_SIZE \div 4 /\ i \in Nat
          /\ \/ KernelStore(l, 4, Word(i), i + 1) \/ KernelStore(l, 4, Word(0), i + 1)
             \/ KernelLoad(l, 4, Word(i), i + 1)
      BY <1>1 DEF WriteTest, ReadTest, Clear, DataInv
    <2>2. l \in Nat /\ l + 4 - 1 \in VMEM_ADDR .. (VMEM_ADDR + SCR_SIZE - 1)
      <3>1. SCR_SIZE \in Nat /\ VMEM_ADDR \in Nat
        BY VideoMemory
      <3>2. SCR_SIZE = (SCR_SIZE % 4) + 4 * (SCR_SIZE \div 4)
            /\ SCR_SIZE % 4 \in 0 .. 3 /\ SCR_SIZE \div 4 \in Nat
        BY <3>1, DivMod
      <3> QED
        BY <2>1, <3>1, <3>2
    <2> HIDE DEF l
    <2>3. Page(l + 4 - 1) < NrFrames
      BY <2>2, VideoMemory, MemoryAssumption DEF Frames
    <2>4. Word(i) \in Words /\ Word(0) \in Words
      BY <2>1, WordOfByte
    <2>5. \/ \E d \in Words : \E next : KernelStore(l, 4, d, next)
          \/ \E d, next : KernelLoad(l, 4, d, next)
      BY <2>1, <2>4
    <2> QED
      BY <2>1, <2>2, <2>3, <2>5, KernelAccessTypes
  <1>2. CASE IdeRead
    <2> DEFINE l == SegPaddr(Segments[seg]) + i
    <2>1. /\ phase = "ide_read" /\ i \in Nat /\ i < Len(Segments[seg].bytes)
          /\ seg \in DOMAIN Segments /\ Given(seg) /\ LayoutInv
          /\ KernelStore(l, 1, Word(Segments[seg].bytes[i + 1]), i + 1)
      BY <1>2 DEF IdeRead, DataInv, IInv, SpaceInv, ProgramInv, Given
    <2>2. i \in 0 .. Segments[seg].memsz - 1
      BY <2>1, BssBytes, Layout
    <2>3. l \in Nat /\ l \in 0 .. NrFrames * PAGE_SIZE - 1
      BY <2>1, <2>2, SegmentByte DEF IInv
    <2> HIDE DEF l
    <2>4. Page(l + 1 - 1) < NrFrames
      <3>1. l + 1 - 1 = l
        BY <2>3
      <3> QED
        BY <3>1, <2>3, InMemory
    <2>5. Word(Segments[seg].bytes[i + 1]) \in Words
      <3> DEFINE T == [vaddr : Nat, memsz : Nat \ {0}, bytes : Seq(Nat)]
      <3>1. Segments \in Seq(T) /\ seg \in 1 .. Len(Segments)
        BY <2>1, ProgramAssumption, Layout
      <3> HIDE DEF T
      <3>2. Segments[seg] \in T
        BY <3>1
      <3>3. Segments[seg].bytes \in Seq(Nat)
        BY <3>2 DEF T
      <3>4. Segments[seg].bytes[i + 1] \in Nat
        BY <2>1, <3>3
      <3> QED
        BY <3>4, WordOfByte
    <2> QED
      BY <2>1, <2>3, <2>4, <2>5, KernelAccessTypes
  <1> QED
    BY <1>1, <1>2

\* An access of the program, to what it may use
LEMMA UserTypes == ASSUME IInv, TypeInv, UserStore \/ UserLoad PROVE TypeInv'
  <1>1. ASSUME NEW l \in Nat, NEW len \in 1 .. 4, phase = "user", Legal(l, len)
        PROVE  DirTyped /\ Page(l) \in Pages /\ Page(l + len - 1) \in Pages
    <2>1. l \in Usable /\ l + len - 1 \in Usable
      <3>1. l \in l .. (l + len - 1) /\ l + len - 1 \in l .. (l + len - 1)
        OBVIOUS
      <3> QED
        BY <3>1, <1>1 DEF Legal
    <2>2. DirTyped
      BY <1>1, DirectoryInUse
    <2> QED
      BY <2>1, <2>2, UsablePages DEF IInv
  <1>2. ASSUME NEW l \in Nat, NEW len \in 1 .. 4, NEW d \in Words, StoreAt(l, len, d)
        PROVE  TypeInv'
    <2>1. phase = "user" /\ Legal(l, len) /\ stores < MaxStores
      BY <1>2 DEF StoreAt
    <2>2. PICK w \in Walks(l, len) :
            /\ tlb' = w.tlb /\ UNCHANGED cr3
            /\ \/ UNCHANGED <<mem, line_dirty, stores>>
               \/ ~FaultsAt(w, l, len) /\ Store(w, l, len, d) /\ stores' = stores + 1
      BY <1>2 DEF StoreAt, Abort, paging
    <2>3. /\ TlbType(w.tlb) /\ w.frames[1] \in Frames \cup {None}
          /\ Crosses(l, len) => w.frames[2] \in Frames \cup {None}
      BY <1>1, <2>1, WalkTypes DEF TypeInv
    <2>4. CASE UNCHANGED <<mem, line_dirty, stores>>
      BY <2>2, <2>3, <2>4 DEF TypeInv, TlbType
    <2>5. CASE ~FaultsAt(w, l, len) /\ Store(w, l, len, d) /\ stores' = stores + 1
      <3>1. mem' \in [Bytes -> Nat] /\ line_dirty' \subseteq 0 .. CTR_ROW - 1
        BY <2>3, <2>5, StoreTypes DEF TypeInv
      <3>2. stores' \in 0 .. MaxStores
        BY <2>1, <2>5, MemoryAssumption DEF TypeInv
      <3> QED
        BY <2>2, <2>3, <3>1, <3>2 DEF TypeInv, TlbType
    <2> QED
      BY <2>2, <2>4, <2>5
  <1>3. ASSUME NEW l \in Nat, NEW len \in 1 .. 4, LoadAt(l, len)
        PROVE  TypeInv'
    <2>1. phase = "user" /\ Legal(l, len)
      BY <1>3 DEF LoadAt
    <2>2. PICK w \in Walks(l, len) :
            tlb' = w.tlb /\ UNCHANGED <<cr3, mem, line_dirty, stores>>
      BY <1>3 DEF LoadAt, Abort, paging
    <2>3. TlbType(w.tlb)
      BY <1>1, <2>1, WalkTypes DEF TypeInv
    <2> QED
      BY <2>2, <2>3 DEF TypeInv, TlbType
  <1>4. \A a \in Accesses : a[1] \in Nat /\ a[2] \in 1 .. 4
    BY MemoryAssumption
  <1>5. Data \subseteq Words
    BY MemoryAssumption DEF Words
  <1> QED
    BY <1>2, <1>3, <1>4, <1>5 DEF UserStore, UserLoad

LEMMA KernelTypes == ASSUME IInv, TypeInv, KernelRuns PROVE TypeInv'
  <1>1. DirTyped
    BY DirectoryInUse DEF KernelRuns
  <1>2. PICK p \in KPage .. KPage + UserFrame - 1 : \E t \in Translations(tlb, p) :
          (tlb' = tlb \/ tlb' = t.tlb) /\ UNCHANGED <<cr3, mem, line_dirty, stores>>
    BY DEF KernelRuns, Abort, paging
  <1>3. p \in Pages
    BY MemoryAssumption DEF Pages, Frames
  <1>4. \A t \in Translations(tlb, p) : TlbType(t.tlb)
    BY <1>1, <1>3, TranslationTypes DEF TypeInv
  <1> QED
    BY <1>2, <1>4 DEF TypeInv, TlbType

LEMMA OtherTypes ==
  ASSUME IInv, TypeInv,
         \/ InitPage \/ InitMm \/ LoadSegment \/ RecordBrk \/ Stack \/ CreateVideoMapping
         \/ WriteCr3 \/ BootLoopEnds \/ SysBrk \/ UpdateScreen \/ UNCHANGED vars
  PROVE  TypeInv'
  <1>1. /\ UNCHANGED <<tlb, mem, stores>> /\ cr3' \in {cr3, "kpdir", "updir"}
        /\ line_dirty' \in {line_dirty, {}}
    BY DEF InitPage, InitMm, LoadSegment, RecordBrk, Stack, CreateVideoMapping, WriteCr3,
           BootLoopEnds, After, SysBrk, UpdateScreen, vars, video, paging
  <1> QED
    BY <1>1 DEF TypeInv, TlbType, Dirs

\* Values have their types: pages, frames and bytes are those of the machine,
\* and the lines to draw those of the screen, whatever is stored where.
THEOREM TypeCorrect == Spec => []TypeOK
  <1>1. Init => TypeInv
    BY InitTypes
  <1>2. IInv /\ DataInv /\ TypeInv /\ [Next]_vars => TypeInv'
    BY BootTypes, UserTypes, KernelTypes, OtherTypes DEF Next, Boot
  <1>3. IInv /\ DataInv /\ TypeInv => TypeOK
    <2> SUFFICES ASSUME IInv, DataInv, TypeInv PROVE TypeOK
      OBVIOUS
    <2>1. /\ phase \in Phases /\ free \in UserFrame .. NrFrames
          /\ map \in [{"kpdir", "updir"} -> [Pages -> Frames \union {None}]]
          /\ seg \in 1 .. Len(Segments) + 1 /\ brk \in Nat /\ i \in Nat
      BY DEF IInv, SpaceInv, MapInv, ProgramInv, DataInv
    <2> QED
      BY <2>1 DEF TypeInv, TlbType, Bytes, Phases, TypeOK
  <1> QED
    BY <1>1, <1>2, <1>3, Invariance, DataInvariance, PTL DEF Spec

-------------------------------------------------------------------------------
(***************************************************************************)
(* Part 3.  The accesses, when words that cross a page have two bytes on   *)
(* each side and no access crosses a line of the screen: elsewhere the     *)
(* code is wrong.                                                          *)
(*                                                                         *)
(* Why: translations agree with the directory, so the bytes of an access   *)
(* are where its addresses are mapped, one by one, and two addresses of    *)
(* the program are never in the same place.                                *)
(***************************************************************************)

Screen == VMEM_ADDR .. (VMEM_ADDR + SCR_SIZE - 1)
Line(q) == (q - VMEM_ADDR) \div CTR_COL

\* Pages and lines consist of words.
OfWords == PAGE_SIZE % 4 = 0 /\ CTR_COL % 4 = 0

\* The accesses that laddr_read and laddr_write split right, with lengths that
\* instructions have
EvenSplit(l, len) == len \in {1, 2, 4} /\ (Crosses(l, len) => len = 4 /\ Len1(l, len) = 2)
EvenSplits == \A a \in Accesses : EvenSplit(a[1], a[2])

\* No access crosses a line of the screen.
InLines ==
  \A a \in Accesses : \A q \in a[1] .. (a[1] + a[2] - 1) :
    q \in Screen => a[1] \in Screen /\ Line(q) = Line(a[1])

\* Where the byte of an address is
At(l) == PageWalk(Page(l)) * PAGE_SIZE + (l % PAGE_SIZE)

-------------------------------------------------------------------------------
(* Arithmetic *)

LEMMA DivIs ==
  ASSUME NEW k \in Nat \ {0}, NEW d \in Nat, NEW r \in 0 .. k - 1
  PROVE  (k * d + r) \div k = d
  <1> DEFINE n == k * d + r
             e == n \div k
  <1>1. n \in Nat
    OBVIOUS
  <1>2. e \in Nat /\ n = (n % k) + k * e /\ n % k \in 0 .. k - 1
    BY <1>1, DivMod
  <1>3. n = k * d + r
    OBVIOUS
  <1> HIDE DEF n, e
  <1>4. ASSUME e >= d + 1 PROVE FALSE
    <2>1. k * e >= k * (d + 1)
      BY <1>2, <1>4
    <2>2. k * (d + 1) = k * d + k
      OBVIOUS
    <2> QED
      BY <2>1, <2>2, <1>2, <1>3
  <1>5. ASSUME d >= e + 1 PROVE FALSE
    <2>1. k * d >= k * (e + 1)
      BY <1>2, <1>5
    <2>2. k * (e + 1) = k * e + k
      BY <1>2
    <2> QED
      BY <2>1, <2>2, <1>2, <1>3
  <1>6. e = d
    BY <1>2, <1>4, <1>5
  <1> QED
    BY <1>6 DEF n, e

\* What is below a product has a quotient below its factor.
LEMMA DivBelow ==
  ASSUME NEW k \in Nat \ {0}, NEW a \in Nat, NEW n \in Nat, n < a * k
  PROVE  n \div k \in 0 .. a - 1
  <1> DEFINE d == n \div k
  <1>1. d \in Nat /\ n = (n % k) + k * d /\ n % k \in 0 .. k - 1
    BY DivMod
  <1> HIDE DEF d
  <1>2. ASSUME d >= a PROVE FALSE
    <2>1. k * d >= k * a
      BY <1>1, <1>2
    <2>2. k * a = a * k
      OBVIOUS
    <2> QED
      BY <2>1, <2>2, <1>1
  <1>3. d \in 0 .. a - 1
    BY <1>1, <1>2
  <1> QED
    BY <1>3 DEF d

\* The bytes of a word are in the same page, and in the same line.
LEMMA FourInRow ==
  ASSUME NEW k \in Nat \ {0}, k % 4 = 0, NEW m \in Nat, NEW n, n = 4 * m,
         NEW j \in 0 .. 3
  PROVE  (n + j) \div k = n \div k
  <1> DEFINE c == k \div 4
             d == n \div k
             r == n % k
  <1>1. c \in Nat /\ k = 4 * c
    BY DivMod
  <1>2. d \in Nat /\ r \in 0 .. k - 1 /\ n = r + k * d
    <2>1. n \in Nat
      OBVIOUS
    <2> HIDE DEF c
    <2> QED
      BY <2>1, DivMod
  <1> HIDE DEF c, d, r
  <1>3. r = 4 * (m - c * d)
    <2>1. k * d = 4 * (c * d) /\ c * d \in Nat
      BY <1>1, <1>2
    <2> QED
      BY <2>1, <1>2
  <1>4. r + j \in 0 .. k - 1
    <2> DEFINE t == m - c * d
    <2>1. t \in Int /\ r = 4 * t
      BY <1>1, <1>2, <1>3
    <2> HIDE DEF t
    <2>2. t <= c - 1
      BY <2>1, <1>1, <1>2
    <2> QED
      BY <2>1, <2>2, <1>1, <1>2
  <1>5. (k * d + (r + j)) \div k = d
    BY <1>2, <1>4, DivIs
  <1>6. n + j = k * d + (r + j)
    BY <1>2
  <1> QED
    BY <1>5, <1>6 DEF d

\* Page and place of an address that is given by them
LEMMA PlaceIs ==
  ASSUME NEW f \in Nat, NEW r \in 0 .. PAGE_SIZE - 1, NEW n, n = f * PAGE_SIZE + r
  PROVE  n \in Nat /\ Page(n) = f /\ n % PAGE_SIZE = r
  <1>1. n \in Nat /\ Page(n) = f
    BY PageOf
  <1>2. /\ n % PAGE_SIZE \in 0 .. PAGE_SIZE - 1
        /\ f * PAGE_SIZE + (n % PAGE_SIZE) = n
    BY <1>1, Place
  <1>3. f * PAGE_SIZE \in Nat
    BY MemoryAssumption
  <1> QED
    BY <1>1, <1>2, <1>3

\* Page and place of each byte of an access
LEMMA Parting ==
  ASSUME NEW l \in Nat, NEW len \in 1 .. 4, EvenSplit(l, len), NEW k \in 0 .. len - 1
  PROVE  /\ Crosses(l, len) => Page(l + 2) = Page(l) + 1
         /\ IF k < Len1(l, len)
            THEN Page(l + k) = Page(l) /\ (l + k) % PAGE_SIZE = (l % PAGE_SIZE) + k
            ELSE /\ Page(l + k) = Page(l) + 1
                 /\ (l + k) % PAGE_SIZE = k - Len1(l, len)
  <1> DEFINE p == Page(l)
             r == l % PAGE_SIZE
  <1>0. PAGE_SIZE \in Nat \ {0}
    BY MemoryAssumption
  <1>1. p \in Nat /\ r \in 0 .. PAGE_SIZE - 1 /\ p * PAGE_SIZE + r = l /\ p * PAGE_SIZE \in Nat
    <2>1. p \in Nat /\ r \in 0 .. PAGE_SIZE - 1 /\ p * PAGE_SIZE + r = l
      BY Place
    <2> HIDE DEF p, r
    <2> QED
      BY <1>0, <2>1
  <1>2. Len1(l, len) \in 1 .. len
    BY Split
  <1>3. CASE ~Crosses(l, len)
    <2>1. Len1(l, len) = len /\ Page(l + len - 1) = p
      BY <1>3 DEF Len1, Crosses
    <2>2. /\ (l + len - 1) % PAGE_SIZE \in 0 .. PAGE_SIZE - 1
          /\ p * PAGE_SIZE + ((l + len - 1) % PAGE_SIZE) = l + len - 1
      <3>1. l + len - 1 \in Nat
        OBVIOUS
      <3> QED
        BY <2>1, <3>1, Place
    <2> HIDE DEF p, r
    <2>3. r + k \in 0 .. PAGE_SIZE - 1
      BY <1>0, <1>1, <2>2
    <2>4. l + k = p * PAGE_SIZE + (r + k)
      BY <1>1
    <2>5. Page(l + k) = p /\ (l + k) % PAGE_SIZE = r + k
      BY <1>1, <2>3, <2>4, PlaceIs
    <2>6. k < Len1(l, len)
      BY <2>1
    <2> QED
      BY <2>5, <2>6, <1>3 DEF p, r
  <1>4. CASE Crosses(l, len)
    <2>1. len = 4 /\ Len1(l, len) = 2 /\ PAGE_SIZE - r = 2
      BY <1>4 DEF EvenSplit, Len1
    <2> HIDE DEF p, r
    <2>2. (p + 1) * PAGE_SIZE = p * PAGE_SIZE + PAGE_SIZE
      BY <1>0, <1>1
    <2>3. \A j \in 2 .. 3 : Page(l + j) = p + 1 /\ (l + j) % PAGE_SIZE = j - 2
      <3>1. ASSUME NEW j \in 2 .. 3
            PROVE  j - 2 \in 0 .. PAGE_SIZE - 1 /\ l + j = (p + 1) * PAGE_SIZE + (j - 2)
        BY <2>1, <2>2, <1>0, <1>1
      <3>2. p + 1 \in Nat
        BY <1>1
      <3> QED
        BY <3>1, <3>2, PlaceIs
    <2>4. Page(l + 2) = p + 1
      BY <2>3
    <2>5. CASE k < 2
      <3>1. r + k \in 0 .. PAGE_SIZE - 1 /\ l + k = p * PAGE_SIZE + (r + k)
        BY <2>1, <2>5, <1>0, <1>1
      <3>2. Page(l + k) = p /\ (l + k) % PAGE_SIZE = r + k
        BY <3>1, <1>1, PlaceIs
      <3> QED
        BY <3>2, <2>1, <2>4, <2>5 DEF p, r
    <2>6. CASE ~(k < 2)
      <3>1. k \in 2 .. 3
        BY <2>1, <2>6
      <3> QED
        BY <3>1, <2>1, <2>3, <2>4, <2>6 DEF p
    <2> QED
      BY <2>1, <2>4, <2>5, <2>6 DEF p, r
  <1> QED
    BY <1>3, <1>4

-------------------------------------------------------------------------------
(* Where the bytes of an access are *)

\* A page that has a frame is translated to it, by the TLB or without.
LEMMA RightFrame ==
  ASSUME SpaceInv, DirInv, phase # "init_page", NEW t, Settled(t),
         NEW p \in Pages, PageWalk(p) # None, NEW x \in Translations(t, p)
  PROVE  x.frame = PageWalk(p) /\ Settled(x.tlb)
  <1>1. x.frame = PageWalk(p)
    <2>1. CASE x.frame = PageWalk(p)
      BY <2>1
    <2>2. CASE \E e \in TlbHits(t, p) : x.frame = t[e][2]
      <3>1. PICK e \in DOMAIN t : t[e][1] = p /\ x.frame = t[e][2]
        BY <2>2 DEF TlbHits
      <3>2. p # None /\ (p < NrFrames \/ p >= NrFrames)
        BY MemoryAssumption DEF Pages, None
      <3>3. p < NrFrames => PageWalk(p) = p
        BY LowPages
      <3> QED
        BY <3>1, <3>2, <3>3 DEF Settled
    <2> QED
      BY <2>1, <2>2 DEF Translations
  <1> QED
    BY <1>1, TranslationsKeep

\* A page has a frame in the directory in use.
Present(p) == p \in Pages /\ PageWalk(p) # None

LEMMA RightFrames ==
  ASSUME SpaceInv, DirInv, phase # "init_page", Settled(tlb), NEW l, NEW len,
         Present(Page(l)), Crosses(l, len) => Present(Page(l) + 1), NEW w \in Walks(l, len)
  PROVE  /\ w.frames[1] = PageWalk(Page(l))
         /\ Crosses(l, len) => w.frames[2] = PageWalk(Page(l) + 1)
  <1>1. CASE ~Crosses(l, len)
    <2>1. PICK t \in Translations(tlb, Page(l)) : w = [frames |-> <<t.frame>>, tlb |-> t.tlb]
      BY <1>1 DEF Walks
    <2>2. w.frames[1] = t.frame
      BY <2>1
    <2> QED
      BY <2>2, <1>1, RightFrame DEF Present
  <1>2. CASE Crosses(l, len)
    <2>1. PICK t \in Translations(tlb, Page(l)) :
            w \in {[frames |-> <<t.frame, u.frame>>, tlb |-> u.tlb] :
                     u \in Translations(t.tlb, Page(l) + 1)}
      BY <1>2 DEF Walks
    <2>2. PICK u \in Translations(t.tlb, Page(l) + 1) :
            w = [frames |-> <<t.frame, u.frame>>, tlb |-> u.tlb]
      BY <2>1
    <2>3. w.frames[1] = t.frame /\ w.frames[2] = u.frame
      BY <2>2
    <2>4. t.frame = PageWalk(Page(l)) /\ Settled(t.tlb)
      BY RightFrame DEF Present
    <2>5. u.frame = PageWalk(Page(l) + 1)
      BY <2>4, <1>2, RightFrame DEF Present
    <2> QED
      BY <2>3, <2>4, <2>5
  <1> QED
    BY <1>1, <1>2

\* An access whose bytes have places
Sound(l, len) ==
  /\ l \in Nat /\ len \in 1 .. 4 /\ EvenSplit(l, len)
  /\ \A q \in l .. (l + len - 1) : Present(Page(q))

LEMMA Places ==
  ASSUME SpaceInv, DirInv, phase # "init_page", NEW q \in Nat, Present(Page(q))
  PROVE  /\ PageWalk(Page(q)) \in Frames /\ At(q) \in Nat /\ At(q) \in Bytes
         /\ Page(At(q)) = PageWalk(Page(q)) /\ At(q) % PAGE_SIZE = q % PAGE_SIZE
  <1>1. PageWalk(Page(q)) \in Frames
    BY DEF Present, PageWalk, SpaceInv, MapInv, DirInv
  <1>2. PageWalk(Page(q)) \in Nat /\ q % PAGE_SIZE \in 0 .. PAGE_SIZE - 1
    BY <1>1, Place DEF Frames
  <1>3. /\ At(q) \in Nat /\ Page(At(q)) = PageWalk(Page(q))
        /\ At(q) % PAGE_SIZE = q % PAGE_SIZE
    BY <1>2, PlaceIs DEF At
  <1>4. Page(At(q)) < NrFrames
    BY <1>1, <1>3, MemoryAssumption DEF Frames
  <1> QED
    BY <1>1, <1>3, <1>4, InMemory DEF Bytes

\* The two parts of an access are where its bytes are, and are no faults.
LEMMA PartsInPlace ==
  ASSUME IInv, phase \notin {"init_page", "abort"}, NEW l, NEW len, Sound(l, len),
         NEW w \in Walks(l, len)
  PROVE  /\ ~FaultsAt(w, l, len)
         /\ w.frames[1] * PAGE_SIZE + (l % PAGE_SIZE) = At(l)
         /\ \A k \in 0 .. len - 1 : k < Len1(l, len) => At(l + k) = At(l) + k
         /\ Crosses(l, len) =>
              /\ w.frames[2] * PAGE_SIZE = At(l + 2) /\ At(l + 2) \in Nat
              /\ \A k \in 2 .. 3 : At(l + k) = At(l + 2) + (k - 2)
  <1>0. SpaceInv /\ DirInv /\ Settled(tlb)
    BY DEF IInv, TlbInv
  <1>1. l \in Nat /\ len \in 1 .. 4 /\ EvenSplit(l, len) /\ l \in l .. (l + len - 1)
    BY DEF Sound
  <1>2. Present(Page(l))
    BY <1>1 DEF Sound
  <1>3. Crosses(l, len) => len = 4 /\ Len1(l, len) = 2 /\ Page(l + 2) = Page(l) + 1
    <2>1. 0 \in 0 .. len - 1
      BY <1>1
    <2> QED
      BY <1>1, <2>1, Parting DEF EvenSplit
  <1>4. Crosses(l, len) => l + 2 \in l .. (l + len - 1) /\ l + 2 \in Nat /\ Present(Page(l + 2))
    <2>1. Crosses(l, len) => l + 2 \in l .. (l + len - 1) /\ l + 2 \in Nat
      BY <1>1, <1>3
    <2> QED
      BY <2>1 DEF Sound
  <1>5. /\ w.frames[1] = PageWalk(Page(l))
        /\ Crosses(l, len) => w.frames[2] = PageWalk(Page(l + 2))
    BY <1>0, <1>2, <1>3, <1>4, RightFrames
  <1>6. ~FaultsAt(w, l, len)
    <2>1. ~Faults(w.frames[1], Len1(l, len))
      <3>1. Len1(l, len) \in {1, 2, 4}
        BY <1>1, <1>3 DEF EvenSplit, Len1
      <3> QED
        BY <3>1, <1>2, <1>5 DEF Faults, Present
    <2>2. Crosses(l, len) => ~Faults(w.frames[2], len - Len1(l, len))
      BY <1>3, <1>4, <1>5 DEF Faults, Present
    <2> QED
      BY <2>1, <2>2 DEF FaultsAt
  <1>7. w.frames[1] * PAGE_SIZE + (l % PAGE_SIZE) = At(l)
    BY <1>5 DEF At
  <1>8. ASSUME NEW k \in 0 .. len - 1, k < Len1(l, len) PROVE At(l + k) = At(l) + k
    <2>1. Page(l + k) = Page(l) /\ (l + k) % PAGE_SIZE = (l % PAGE_SIZE) + k
      BY <1>1, <1>8, Parting
    <2>2. PageWalk(Page(l)) * PAGE_SIZE \in Nat /\ l % PAGE_SIZE \in Nat /\ k \in Nat
      <3>1. PageWalk(Page(l)) \in Nat /\ l % PAGE_SIZE \in Nat
        BY <1>0, <1>1, <1>2, Places, Place DEF Frames
      <3> QED
        BY <3>1, <1>1, MemoryAssumption
    <2> QED
      BY <2>1, <2>2 DEF At
  <1>9. ASSUME Crosses(l, len)
        PROVE  /\ w.frames[2] * PAGE_SIZE = At(l + 2) /\ At(l + 2) \in Nat
               /\ \A k \in 2 .. 3 : At(l + k) = At(l + 2) + (k - 2)
    <2>1. \A k \in 2 .. 3 : Page(l + k) = Page(l) + 1 /\ (l + k) % PAGE_SIZE = k - 2
      <3>1. \A k \in 2 .. 3 : k \in 0 .. len - 1 /\ ~(k < Len1(l, len))
        BY <1>3, <1>9
      <3> QED
        BY <3>1, <1>1, <1>3, <1>9, Parting
    <2>2. PageWalk(Page(l + 2)) * PAGE_SIZE \in Nat /\ At(l + 2) \in Nat
      <3>1. PageWalk(Page(l + 2)) \in Nat /\ At(l + 2) \in Nat
        BY <1>0, <1>4, <1>9, Places DEF Frames
      <3> QED
        BY <3>1, MemoryAssumption
    <2>3. \A k \in 2 .. 3 : At(l + k) = PageWalk(Page(l + 2)) * PAGE_SIZE + (k - 2)
      BY <2>1, <1>3, <1>9 DEF At
    <2>4. At(l + 2) = PageWalk(Page(l + 2)) * PAGE_SIZE
      BY <2>2, <2>3
    <2> QED
      BY <2>2, <2>3, <2>4, <1>5, <1>9
  <1> QED
    BY <1>6, <1>7, <1>8, <1>9

-------------------------------------------------------------------------------
(* What an access stores and loads *)

\* No two bytes of an access are in the same place.
Distinct(l, len) == \A j, k \in 0 .. len - 1 : At(l + j) = At(l + k) => j = k

LEMMA StoredBytes ==
  ASSUME IInv, mem \in [Bytes -> Nat], phase \notin {"init_page", "abort"},
         NEW l, NEW len, Sound(l, len), Distinct(l, len), NEW w \in Walks(l, len), NEW d
  PROVE  LET m == Stored(w, l, len, d)
         IN /\ \A k \in 0 .. len - 1 : m[At(l + k)] = d[k + 1]
            /\ \A p \in Bytes : (\A k \in 0 .. len - 1 : At(l + k) # p) => m[p] = mem[p]
  <1> DEFINE m == Stored(w, l, len, d)
             a == Len1(l, len)
  <1>1. /\ w.frames[1] * PAGE_SIZE + (l % PAGE_SIZE) = At(l)
        /\ \A k \in 0 .. len - 1 : k < a => At(l + k) = At(l) + k
        /\ Crosses(l, len) =>
             /\ w.frames[2] * PAGE_SIZE = At(l + 2) /\ At(l + 2) \in Nat
             /\ \A k \in 2 .. 3 : At(l + k) = At(l + 2) + (k - 2)
    BY PartsInPlace
  <1>2. l \in Nat /\ len \in 1 .. 4 /\ (Crosses(l, len) => len = 4 /\ a = 2)
    BY DEF Sound, EvenSplit
  <1>3. \A k \in 0 .. len - 1 : At(l + k) \in Bytes /\ At(l + k) \in Nat
    <2>1. \A k \in 0 .. len - 1 : l + k \in Nat /\ l + k \in l .. (l + len - 1)
      BY <1>2
    <2>2. SpaceInv /\ DirInv
      BY DEF IInv, TlbInv
    <2> QED
      BY <2>1, <2>2, Places DEF Sound
  <1>4. At(l) \in Nat /\ At(l + 0) = At(l)
    <2>1. l + 0 = l /\ 0 \in 0 .. len - 1
      BY <1>2
    <2> QED
      BY <2>1, <1>3
  <1>5. CASE ~Crosses(l, len)
    <2>1. a = len /\ Parts(l, len, d)[1] = d
      BY <1>5 DEF Len1, Parts
    <2>2. m = Poke(mem, At(l), len, d)
      BY <1>1, <1>5, <2>1 DEF Stored
    <2>3. \A p \in Bytes : m[p] = IF p \in At(l) .. (At(l) + len - 1)
                                  THEN d[p - At(l) + 1] ELSE mem[p]
      BY <2>2 DEF Poke
    <2> HIDE DEF m, a
    <2>4. ASSUME NEW k \in 0 .. len - 1 PROVE m[At(l + k)] = d[k + 1]
      <3>1. At(l + k) = At(l) + k
        BY <1>1, <1>2, <2>1
      <3>2. At(l + k) \in At(l) .. (At(l) + len - 1) /\ At(l + k) - At(l) + 1 = k + 1
        BY <1>2, <1>4, <3>1
      <3> QED
        BY <3>2, <1>3, <2>3
    <2>5. ASSUME NEW p \in Bytes, \A k \in 0 .. len - 1 : At(l + k) # p PROVE m[p] = mem[p]
      <3>1. ASSUME p \in At(l) .. (At(l) + len - 1) PROVE FALSE
        <4>1. p - At(l) \in 0 .. len - 1 /\ At(l) + (p - At(l)) = p
          BY <1>2, <1>4, <3>1
        <4>2. p - At(l) < a
          BY <2>1, <4>1, <1>2
        <4> QED
          BY <4>1, <4>2, <1>1, <2>5
      <3> QED
        BY <3>1, <2>3
    <2> QED
      BY <2>4, <2>5 DEF m
  <1>6. CASE Crosses(l, len)
    <2>0. len = 4 /\ a = 2
      BY <1>2, <1>6
    <2> DEFINE b == At(l + 2)
               first == Poke(mem, At(l), 2, Low(d, 2))
    <2>1. Parts(l, len, d)[1] = Low(d, 2) /\ Parts(l, len, d)[2] = ShiftRight(d, 2)
      BY <1>6, <2>0 DEF Parts
    <2>2. m = Poke(first, b, 2, ShiftRight(d, 2))
      BY <1>1, <1>6, <2>0, <2>1 DEF Stored
    <2>3. /\ DOMAIN first = Bytes
          /\ \A p \in Bytes : first[p] = IF p \in At(l) .. (At(l) + 2 - 1)
                                         THEN Low(d, 2)[p - At(l) + 1] ELSE mem[p]
      BY DEF Poke
    <2>4. \A p \in Bytes : m[p] = IF p \in b .. (b + 2 - 1)
                                  THEN ShiftRight(d, 2)[p - b + 1] ELSE first[p]
      BY <2>2, <2>3 DEF Poke
    <2>5. /\ Low(d, 2)[1] = d[1] /\ Low(d, 2)[2] = d[2]
          /\ ShiftRight(d, 2)[1] = d[3] /\ ShiftRight(d, 2)[2] = d[4]
      BY DEF Low, ShiftRight
    <2>6. /\ At(l + 0) = At(l) /\ At(l + 1) = At(l) + 1 /\ At(l + 2) = b /\ At(l + 3) = b + 1
          /\ At(l) \in Nat /\ b \in Nat
      <3>1. At(l + 1) = At(l) + 1
        BY <1>1, <2>0
      <3>2. At(l + 3) = At(l + 2) + (3 - 2) /\ At(l + 2) \in Nat
        BY <1>1, <1>6
      <3> QED
        BY <3>1, <3>2, <1>4
    <2> HIDE DEF m, a, b, first
    <2>7. /\ b # At(l) /\ b # At(l) + 1 /\ b + 1 # At(l) /\ b + 1 # At(l) + 1
      BY <2>0, <2>6 DEF Distinct
    <2>8. /\ At(l) \in Bytes /\ At(l) + 1 \in Bytes /\ b \in Bytes /\ b + 1 \in Bytes
      BY <1>3, <2>0, <2>6
    <2>9. /\ m[At(l)] = d[1] /\ m[At(l) + 1] = d[2] /\ m[b] = d[3] /\ m[b + 1] = d[4]
      <3>1. m[At(l)] = d[1] /\ m[At(l) + 1] = d[2]
        <4>1. m[At(l)] = first[At(l)] /\ m[At(l) + 1] = first[At(l) + 1]
          BY <2>4, <2>6, <2>7, <2>8
        <4>2. first[At(l)] = Low(d, 2)[1] /\ first[At(l) + 1] = Low(d, 2)[2]
          <5>1. At(l) - At(l) + 1 = 1 /\ At(l) + 1 - At(l) + 1 = 2
            BY <2>6
          <5>2. At(l) \in At(l) .. (At(l) + 2 - 1) /\ At(l) + 1 \in At(l) .. (At(l) + 2 - 1)
            BY <2>6
          <5> QED
            BY <5>1, <5>2, <2>3, <2>8
        <4> QED
          BY <4>1, <4>2, <2>5
      <3>2. m[b] = d[3] /\ m[b + 1] = d[4]
        <4>1. b - b + 1 = 1 /\ b + 1 - b + 1 = 2
          BY <2>6
        <4>2. b \in b .. (b + 2 - 1) /\ b + 1 \in b .. (b + 2 - 1)
          BY <2>6
        <4> QED
          BY <4>1, <4>2, <2>4, <2>5, <2>8
      <3> QED
        BY <3>1, <3>2
    <2>10. \A k \in 0 .. len - 1 : m[At(l + k)] = d[k + 1]
      <3>1. \A k \in 0 .. len - 1 : k = 0 \/ k = 1 \/ k = 2 \/ k = 3
        BY <2>0
      <3> QED
        BY <3>1, <2>6, <2>9
    <2>11. ASSUME NEW p \in Bytes, \A k \in 0 .. len - 1 : At(l + k) # p PROVE m[p] = mem[p]
      <3>1. p # At(l) /\ p # At(l) + 1 /\ p # b /\ p # b + 1
        BY <2>0, <2>6, <2>11
      <3>2. p \notin b .. (b + 2 - 1) /\ p \notin At(l) .. (At(l) + 2 - 1)
        BY <2>6, <3>1
      <3> QED
        BY <3>2, <2>3, <2>4
    <2> QED
      BY <2>10, <2>11 DEF m
  <1> QED
    BY <1>5, <1>6

LEMMA LoadedBytes ==
  ASSUME IInv, mem \in [Bytes -> Nat], phase \notin {"init_page", "abort"},
         NEW l, NEW len, Sound(l, len), NEW w \in Walks(l, len)
  PROVE  /\ Loaded(w, l, len) \in Words
         /\ \A k \in 0 .. len - 1 : Loaded(w, l, len)[k + 1] = mem[At(l + k)]
         /\ \A k \in 1 .. 4 : k > len => Loaded(w, l, len)[k] = 0
  <1> DEFINE a == Len1(l, len)
  <1>1. /\ w.frames[1] * PAGE_SIZE + (l % PAGE_SIZE) = At(l)
        /\ \A k \in 0 .. len - 1 : k < a => At(l + k) = At(l) + k
        /\ Crosses(l, len) =>
             /\ w.frames[2] * PAGE_SIZE = At(l + 2) /\ At(l + 2) \in Nat
             /\ \A k \in 2 .. 3 : At(l + k) = At(l + 2) + (k - 2)
    BY PartsInPlace
  <1>2. l \in Nat /\ len \in 1 .. 4 /\ (Crosses(l, len) => len = 4 /\ a = 2)
    BY DEF Sound, EvenSplit
  <1>3. \A k \in 0 .. len - 1 : At(l + k) \in Bytes /\ At(l + k) \in Nat
    <2>1. \A k \in 0 .. len - 1 : l + k \in Nat /\ l + k \in l .. (l + len - 1)
      BY <1>2
    <2>2. SpaceInv /\ DirInv
      BY DEF IInv, TlbInv
    <2> QED
      BY <2>1, <2>2, Places DEF Sound
  <1>4. At(l) \in Nat /\ At(l + 0) = At(l)
    <2>1. l + 0 = l /\ 0 \in 0 .. len - 1
      BY <1>2
    <2> QED
      BY <2>1, <1>3
  <1>5. \A k \in 0 .. len - 1 : mem[At(l + k)] \in Nat
    BY <1>3
  <1>6. CASE ~Crosses(l, len)
    <2>1. a = len
      BY <1>6 DEF Len1
    <2>2. Loaded(w, l, len) = Peek(At(l), len)
      BY <1>1, <1>6, <2>1 DEF Loaded
    <2>3. Loaded(w, l, len) = [k \in 1 .. 4 |-> IF k <= len THEN mem[At(l) + k - 1] ELSE 0]
      BY <2>2 DEF Peek
    <2>4. ASSUME NEW k \in 1 .. 4, k <= len
          PROVE  mem[At(l) + k - 1] = mem[At(l + (k - 1))] /\ mem[At(l) + k - 1] \in Nat
      <3>1. k - 1 \in 0 .. len - 1 /\ k - 1 < a
        BY <2>1, <2>4, <1>2
      <3>2. At(l + (k - 1)) = At(l) + (k - 1) /\ At(l) + (k - 1) = At(l) + k - 1
        BY <3>1, <1>1, <1>4
      <3> QED
        BY <3>1, <3>2, <1>5
    <2>5. Loaded(w, l, len) \in Words
      <3>1. \A k \in 1 .. 4 : (IF k <= len THEN mem[At(l) + k - 1] ELSE 0) \in Nat
        BY <2>4
      <3> QED
        BY <3>1, <2>3 DEF Words
    <2>6. \A k \in 0 .. len - 1 : Loaded(w, l, len)[k + 1] = mem[At(l + k)]
      <3> SUFFICES ASSUME NEW k \in 0 .. len - 1
                   PROVE  Loaded(w, l, len)[k + 1] = mem[At(l + k)]
        OBVIOUS
      <3>1. k + 1 \in 1 .. 4 /\ k + 1 <= len /\ (k + 1) - 1 = k
        BY <1>2
      <3> QED
        BY <3>1, <2>3, <2>4
    <2>7. \A k \in 1 .. 4 : k > len => Loaded(w, l, len)[k] = 0
      BY <2>3, <1>2
    <2> QED
      BY <2>5, <2>6, <2>7
  <1>7. CASE Crosses(l, len)
    <2>0. len = 4 /\ a = 2
      BY <1>2, <1>7
    <2> DEFINE b == At(l + 2)
               x == Plus(ShiftLeft(Peek(b, 2), 2), Peek(At(l), 2))
    <2>1. Loaded(w, l, len) = x
      BY <1>1, <1>7, <2>0 DEF Loaded
    <2>2. /\ At(l + 0) = At(l) /\ At(l + 1) = At(l) + 1 /\ At(l + 3) = b + 1
          /\ At(l) \in Nat /\ b \in Nat
      <3>1. At(l + 1) = At(l) + 1
        BY <1>1, <2>0
      <3>2. At(l + 3) = At(l + 2) + (3 - 2) /\ At(l + 2) \in Nat
        BY <1>1, <1>7
      <3> QED
        BY <3>1, <3>2, <1>4
    <2>3. /\ mem[At(l)] \in Nat /\ mem[At(l) + 1] \in Nat /\ mem[b] \in Nat /\ mem[b + 1] \in Nat
      BY <1>5, <2>0, <2>2
    <2> HIDE DEF b
    <2>4. DOMAIN x = 1 .. 4
      BY DEF Plus
    <2>5. /\ x[1] = 0 + mem[At(l) + 1 - 1] /\ x[2] = 0 + mem[At(l) + 2 - 1]
          /\ x[3] = mem[b + 1 - 1] + 0 /\ x[4] = mem[b + 2 - 1] + 0
      BY DEF Plus, ShiftLeft, Peek
    <2>6. x[1] = mem[At(l)] /\ x[2] = mem[At(l) + 1] /\ x[3] = mem[b] /\ x[4] = mem[b + 1]
      <3>1. /\ At(l) + 1 - 1 = At(l) /\ At(l) + 2 - 1 = At(l) + 1
            /\ b + 1 - 1 = b /\ b + 2 - 1 = b + 1
        BY <2>2
      <3> QED
        BY <3>1, <2>3, <2>5
    <2>7. x = [k \in 1 .. 4 |-> x[k]]
      BY DEF Plus
    <2> HIDE DEF x
    <2>8. x \in Words
      <3>1. \A k \in 1 .. 4 : x[k] \in Nat
        BY <2>3, <2>6
      <3> QED
        BY <2>7, <3>1 DEF Words
    <2>9. \A k \in 0 .. len - 1 : x[k + 1] = mem[At(l + k)]
      <3>1. \A k \in 0 .. len - 1 : k = 0 \/ k = 1 \/ k = 2 \/ k = 3
        BY <2>0
      <3> QED
        BY <3>1, <2>2, <2>6 DEF b
    <2>10. \A k \in 1 .. 4 : ~(k > len)
      BY <2>0
    <2> QED
      BY <2>1, <2>8, <2>9, <2>10
  <1> QED
    BY <1>6, <1>7

-------------------------------------------------------------------------------
(* Accesses to low memory: the screen's words, and the bytes of the file     *)

LEMMA LowPlaces ==
  ASSUME IInv, phase \notin {"init_page", "abort"}, NEW q \in Nat,
         Present(Page(q)), Page(q) < NrFrames
  PROVE  At(q) = q /\ q \in Bytes
  <1>0. SpaceInv /\ DirInv
    BY DEF IInv, TlbInv
  <1>1. PageWalk(Page(q)) = Page(q)
    BY <1>0, LowPages DEF Present
  <1> QED
    BY <1>0, <1>1, Place, Places DEF At

\* The screen's pages have their frames, in either directory.
LEMMA ScreenPlaces ==
  ASSUME IInv, phase \in Running, NEW q \in Screen,
         phase \in WithVideo \/ phase \notin WithUpdir
  PROVE  /\ q \in Nat /\ Page(q) \in VideoMapped /\ Page(q) \in 0 .. UserFrame - 1
         /\ Present(Page(q)) /\ At(q) = q /\ q \in Bytes
  <1>0. /\ KPage \in Nat /\ NrFrames \in Nat /\ UserFrame \in Nat /\ UserFrame < NrFrames
        /\ KPage > NrFrames /\ Pages = 0 .. KPage + NrFrames - 1 /\ None = -1
    BY MemoryAssumption DEF Pages, None, Frames
  <1>1. q \in Nat /\ Page(q) \in VideoMapped /\ Page(q) \in 0 .. UserFrame - 1
    <2>1. q \in Nat
      BY VideoMemory DEF Screen
    <2> QED
      BY <2>1, VideoMemory, MemoryAssumption DEF Screen
  <1>2. Page(q) \in Pages /\ Page(q) < NrFrames /\ Page(q) # None
    BY <1>0, <1>1
  <1>3. PageWalk(Page(q)) # None
    <2>1. CASE phase \in WithUpdir
      <3>1. cr3 = "updir" /\ phase \in WithVideo
        BY <2>1 DEF IInv, TlbInv, DirInv, Running, WithVideo, WithUpdir, Phases
      <3>2. Mapped(Page(q))
        BY <3>1, <1>1 DEF IInv, SpaceInv, MapInv
      <3> QED
        BY <3>1, <3>2, <1>2 DEF PageWalk, Mapped
    <2>2. CASE phase \notin WithUpdir
      <3>1. cr3 = "kpdir" /\ phase # "init_page"
        BY <2>2 DEF IInv, TlbInv, DirInv, Running, Phases
      <3>2. map["kpdir"][Page(q)] = Page(q)
        BY <3>1, <1>2 DEF IInv, SpaceInv, MapInv, KernelFrame
      <3> QED
        BY <3>1, <3>2, <1>2 DEF PageWalk
    <2> QED
      BY <2>1, <2>2
  <1>4. At(q) = q /\ q \in Bytes
    BY <1>1, <1>2, <1>3, LowPlaces DEF Present, Running
  <1> QED
    BY <1>1, <1>2, <1>3, <1>4 DEF Present

\* The words of the screen
WordOf(j) == VMEM_ADDR + 4 * j

LEMMA ScreenWords ==
  ASSUME OfWords, NEW j \in Nat, j < SCR_SIZE \div 4
  PROVE  /\ WordOf(j) \in Nat /\ ~Crosses(WordOf(j), 4)
         /\ \A k \in 0 .. 3 : WordOf(j) + k \in Screen /\ Line(WordOf(j) + k) = Line(WordOf(j))
         /\ Line(WordOf(j)) \in 0 .. CTR_ROW - 1
  <1>0. /\ SCR_SIZE \in Nat /\ VMEM_ADDR \in Nat /\ CTR_COL \in Nat \ {0} /\ CTR_ROW \in Nat
        /\ PAGE_SIZE \in Nat \ {0} /\ VmemFrame \in Nat
    BY VideoMemory, MemoryAssumption
  <1>1. 4 * j + 3 < SCR_SIZE
    <2>1. SCR_SIZE = (SCR_SIZE % 4) + 4 * (SCR_SIZE \div 4)
          /\ SCR_SIZE % 4 \in 0 .. 3 /\ SCR_SIZE \div 4 \in Nat
      BY <1>0, DivMod
    <2> QED
      BY <1>0, <2>1
  <1>2. \A k \in 0 .. 3 : WordOf(j) + k \in Screen
    BY <1>0, <1>1 DEF WordOf, Screen
  <1>3. \A k \in 0 .. 3 : Line(WordOf(j) + k) = (4 * j) \div CTR_COL
    <2>1. ASSUME NEW k \in 0 .. 3
          PROVE  Line(WordOf(j) + k) = (4 * j) \div CTR_COL
      <3> DEFINE n == 4 * j
                 q == WordOf(j) + k
      <3>1. q - VMEM_ADDR = n + k /\ n = 4 * j
        BY <1>0 DEF WordOf
      <3> HIDE DEF n, q
      <3>2. (n + k) \div CTR_COL = n \div CTR_COL
        BY <1>0, <3>1, FourInRow DEF OfWords
      <3>3. Line(q) = n \div CTR_COL
        BY <3>1, <3>2 DEF Line
      <3> QED
        BY <3>3 DEF n, q
    <2> QED
      BY <2>1
  <1>4. WordOf(j) + 0 = WordOf(j) /\ WordOf(j) \in Nat
    BY <1>0 DEF WordOf
  <1>5. Line(WordOf(j)) = (4 * j) \div CTR_COL
    <2>1. 0 \in 0 .. 3
      OBVIOUS
    <2> QED
      BY <2>1, <1>3, <1>4
  <1>6. (4 * j) \div CTR_COL \in 0 .. CTR_ROW - 1
    <2> DEFINE n == 4 * j
    <2>1. n \in Nat /\ n < SCR_SIZE
      BY <1>0, <1>1
    <2> HIDE DEF n
    <2>2. n < CTR_ROW * CTR_COL
      BY <2>1 DEF SCR_SIZE
    <2>3. n \div CTR_COL \in 0 .. CTR_ROW - 1
      BY <2>1, <2>2, <1>0, DivBelow
    <2> QED
      BY <2>3 DEF n
  <1>7. ~Crosses(WordOf(j), 4)
    <2> DEFINE c == PAGE_SIZE \div 4
               m == VmemFrame * c + j
    <2>1. c \in Nat /\ PAGE_SIZE = 4 * c
      BY <1>0, DivMod DEF OfWords
    <2> HIDE DEF c
    <2>2. VmemFrame * c \in Nat /\ VmemFrame * (4 * c) = 4 * (VmemFrame * c)
      BY <1>0, <2>1
    <2>3. m \in Nat /\ WordOf(j) = 4 * m
      BY <1>0, <2>1, <2>2 DEF WordOf, VMEM_ADDR
    <2> HIDE DEF m
    <2>4. (WordOf(j) + 3) \div PAGE_SIZE = WordOf(j) \div PAGE_SIZE
      BY <1>0, <2>3, FourInRow DEF OfWords
    <2>5. WordOf(j) + 4 - 1 = WordOf(j) + 3
      BY <1>4
    <2> QED
      BY <2>4, <2>5 DEF Crosses, Page
  <1> QED
    BY <1>2, <1>3, <1>4, <1>5, <1>6, <1>7

LEMMA SoundWord ==
  ASSUME IInv, OfWords, phase \in {"write_test", "read_test", "clear"},
         NEW j \in Nat, j < SCR_SIZE \div 4
  PROVE  /\ Sound(WordOf(j), 4) /\ Distinct(WordOf(j), 4)
         /\ \A k \in 0 .. 3 : At(WordOf(j) + k) = WordOf(j) + k
  <1> DEFINE l == WordOf(j)
  <1>1. l \in Nat /\ EvenSplit(l, 4) /\ \A k \in 0 .. 3 : l + k \in Screen
    BY ScreenWords DEF EvenSplit
  <1>2. /\ phase \in Running
        /\ phase \in WithVideo \/ phase \notin WithUpdir
    BY DEF Running, Phases, WithVideo, WithUpdir
  <1>3. \A k \in 0 .. 3 : Present(Page(l + k)) /\ At(l + k) = l + k
    BY <1>1, <1>2, ScreenPlaces
  <1> HIDE DEF l
  <1>4. \A q \in l .. (l + 4 - 1) : q - l \in 0 .. 3 /\ l + (q - l) = q
    BY <1>1
  <1>5. Sound(l, 4)
    BY <1>1, <1>3, <1>4 DEF Sound
  <1>6. Distinct(l, 4)
    BY <1>1, <1>3 DEF Distinct
  <1> QED
    BY <1>3, <1>5, <1>6 DEF l

\* The kernel stores a word of the screen, or loads one.
LEMMA ScreenStore ==
  ASSUME IInv, TypeInv, OfWords, phase \in {"write_test", "clear"},
         NEW j \in Nat, j < SCR_SIZE \div 4, NEW d, NEW next, KernelStore(WordOf(j), 4, d, next)
  PROVE  /\ UNCHANGED <<phase, op, shown>> /\ i' = next
         /\ \A k \in 0 .. 3 : mem'[WordOf(j) + k] = d[k + 1]
         /\ \A p \in Bytes : (\A k \in 0 .. 3 : WordOf(j) + k # p) => mem'[p] = mem[p]
         /\ line_dirty' = line_dirty \cup {Line(WordOf(j))}
  <1> DEFINE l == WordOf(j)
  <1>1. Sound(l, 4) /\ Distinct(l, 4) /\ \A k \in 0 .. 3 : At(l + k) = l + k
    BY SoundWord
  <1>2. /\ l \in Nat /\ \A k \in 0 .. 3 : l + k \in Screen
        /\ Line(l) \in 0 .. CTR_ROW - 1 /\ ~Crosses(l, 4)
    BY ScreenWords
  <1>3. l + 0 = l /\ l \in Screen /\ At(l) = l
    BY <1>1, <1>2
  <1> HIDE DEF l
  <1>4. PICK w \in Walks(l, 4) :
          IF FaultsAt(w, l, 4) THEN Abort
          ELSE Store(w, l, 4, d) /\ i' = next /\ UNCHANGED <<phase, seg, op, stores>>
    BY DEF KernelStore, l
  <1>5. /\ ~FaultsAt(w, l, 4)
        /\ w.frames[1] * PAGE_SIZE + (l % PAGE_SIZE) = At(l)
    BY <1>1, PartsInPlace
  <1>7. mem' = Stored(w, l, 4, d) /\ line_dirty' = line_dirty \cup Marked(w, l, 4)
        /\ i' = next /\ UNCHANGED <<phase, op>>
    BY <1>4, <1>5 DEF Store
  <1>8. Marked(w, l, 4) = {Line(l)}
    <2>1. Marked(w, l, 4) = Marks(l, 4)
      BY <1>2, <1>3, <1>5 DEF Marked, Len1
    <2>2. IsMmio(l)
      BY <1>3, MemoryAssumption DEF IsMmio, Screen
    <2>3. Line(l) < CTR_ROW
      BY <1>2, MemoryAssumption
    <2> QED
      BY <2>1, <2>2, <2>3 DEF Marks, Line
  <1>9. /\ \A k \in 0 .. 3 : Stored(w, l, 4, d)[At(l + k)] = d[k + 1]
        /\ \A p \in Bytes : (\A k \in 0 .. 3 : At(l + k) # p) => Stored(w, l, 4, d)[p] = mem[p]
    <2>1. 4 - 1 = 3 /\ phase \notin {"init_page", "abort"} /\ mem \in [Bytes -> Nat]
      BY DEF TypeInv
    <2> QED
      BY <2>1, <1>1, StoredBytes
  <1>10. shown' = shown
    BY DEF KernelStore
  <1> QED
    BY <1>1, <1>7, <1>8, <1>9, <1>10 DEF l

-------------------------------------------------------------------------------
(* No assertion fails *)

\* The words the first test has stored and the second one expects
Tested(j) ==
  /\ j < SCR_SIZE \div 4
  /\ IF phase = "write_test" THEN j < i
     ELSE phase \in {"load", "ide_read", "video", "write_cr3", "read_test"}

TestInv ==
  /\ phase # "abort"
  /\ phase \in {"init_page", "init_mm"} => i = 0
  /\ phase # "user" => op = NoOp
  /\ \A j \in Nat : Tested(j) => \A k \in 0 .. 3 : mem[WordOf(j) + k] = Word(j)[k + 1]

\* The program's accesses are sound.
LEMMA UserSound ==
  ASSUME IInv, EvenSplits, phase = "user", NEW a \in Accesses, Legal(a[1], a[2])
  PROVE  Sound(a[1], a[2])
  <1>1. a[1] \in Nat /\ a[2] \in 1 .. 4
    BY MemoryAssumption
  <1>2. cr3 = "updir"
    BY DEF IInv, TlbInv, DirInv, Phases, WithUpdir
  <1>3. \A q \in Usable : Present(Page(q))
    BY <1>2, UsablePages DEF IInv, Present, PageWalk, Mapped
  <1>4. \A q \in a[1] .. (a[1] + a[2] - 1) : q \in Usable
    BY DEF Legal
  <1> QED
    BY <1>1, <1>3, <1>4 DEF Sound, EvenSplits

\* The place where the loader stores a byte of the file
LEMMA SoundByte ==
  ASSUME IInv, DataInv, phase = "ide_read", i < Len(Segments[seg].bytes)
  PROVE  LET l == SegPaddr(Segments[seg]) + i
         IN /\ Sound(l, 1) /\ Distinct(l, 1) /\ At(l) = l
            /\ Page(l) >= UserFrame /\ Page(l) < NrFrames
  <1> DEFINE l == SegPaddr(Segments[seg]) + i
             p == Page(Segments[seg].vaddr + i)
  <1>1. i \in Nat /\ seg \in DOMAIN Segments /\ Given(seg) /\ LayoutInv
    BY DEF DataInv, IInv, SpaceInv, ProgramInv, Given
  <1>2. i \in 0 .. Segments[seg].memsz - 1
    BY <1>1, BssBytes, Layout
  <1>3. l \in Nat /\ Page(l) \in UserFrame .. free - 1
    BY <1>1, <1>2, SegmentByte DEF IInv
  <1> HIDE DEF l, p
  <1>4. /\ Page(l) \in Nat /\ Page(l) >= UserFrame /\ Page(l) < NrFrames
        /\ Page(l) \in Pages /\ Page(l) # None
    BY <1>3, MemoryAssumption DEF IInv, SpaceInv, MapInv, Frames, Pages, None
  <1>5. cr3 = "kpdir" /\ map["kpdir"][Page(l)] = Page(l)
    BY <1>4 DEF IInv, TlbInv, DirInv, Phases, WithUpdir, SpaceInv, MapInv, KernelFrame
  <1>6. Present(Page(l))
    BY <1>4, <1>5 DEF Present, PageWalk
  <1>7. At(l) = l
    BY <1>3, <1>4, <1>6, LowPlaces
  <1>8. l .. (l + 1 - 1) = {l} /\ l + 1 - 1 = l
    BY <1>3
  <1>9. Sound(l, 1)
    BY <1>3, <1>6, <1>8 DEF Sound, EvenSplit, Crosses
  <1>10. Distinct(l, 1)
    BY DEF Distinct
  <1> QED
    BY <1>4, <1>7, <1>9, <1>10 DEF l

\* A byte of the file does not go to the screen.
LEMMA FileStore ==
  ASSUME IInv, DataInv, TypeInv, IdeRead
  PROVE  /\ phase' = "ide_read" /\ UNCHANGED <<op, shown>>
         /\ \A q \in Screen : mem'[q] = mem[q]
         /\ line_dirty \subseteq line_dirty'
  <1> DEFINE l == SegPaddr(Segments[seg]) + i
             d == Word(Segments[seg].bytes[i + 1])
  <1>1. phase = "ide_read" /\ i < Len(Segments[seg].bytes) /\ KernelStore(l, 1, d, i + 1)
    BY DEF IdeRead
  <1>2. /\ Sound(l, 1) /\ Distinct(l, 1) /\ At(l) = l
        /\ Page(l) >= UserFrame /\ Page(l) < NrFrames
    BY <1>1, SoundByte
  <1> HIDE DEF l, d
  <1>3. PICK w \in Walks(l, 1) :
          IF FaultsAt(w, l, 1) THEN Abort
          ELSE Store(w, l, 1, d) /\ i' = i + 1 /\ UNCHANGED <<phase, seg, op, stores>>
    BY <1>1 DEF KernelStore
  <1>4. ~FaultsAt(w, l, 1)
    BY <1>1, <1>2, PartsInPlace
  <1>5. /\ mem' = Stored(w, l, 1, d) /\ line_dirty' = line_dirty \cup Marked(w, l, 1)
        /\ UNCHANGED <<phase, op>>
    BY <1>3, <1>4 DEF Store
  <1>6. shown' = shown
    BY <1>1 DEF KernelStore
  <1>7. ASSUME NEW q \in Screen PROVE mem'[q] = mem[q]
    <2>1. q \in Nat /\ Page(q) \in 0 .. UserFrame - 1
      BY VideoMemory DEF Screen
    <2>2. q \in Bytes
      BY <2>1, InMemory, MemoryAssumption DEF Bytes, Frames
    <2>3. q # l
      BY <1>2, <2>1, MemoryAssumption DEF Frames
    <2>4. \A k \in 0 .. 1 - 1 : At(l + k) # q
      <3>1. l \in Nat
        BY <1>2 DEF Sound
      <3>2. \A k \in 0 .. 1 - 1 : l + k = l
        BY <3>1
      <3> QED
        BY <3>2, <2>3, <1>2
    <2>5. phase \notin {"init_page", "abort"} /\ mem \in [Bytes -> Nat]
      BY <1>1 DEF TypeInv
    <2>6. Stored(w, l, 1, d)[q] = mem[q]
      BY <2>2, <2>4, <2>5, <1>2, StoredBytes
    <2> QED
      BY <2>6, <1>5
  <1> QED
    BY <1>1, <1>5, <1>6, <1>7

LEMMA InitTest == ASSUME Init PROVE TestInv
  BY DEF Init, TestInv, Tested

LEMMA WriteTestTest ==
  ASSUME IInv, DataInv, TypeInv, TestInv, OfWords, WriteTest
  PROVE  TestInv'
  <1>1. /\ phase = "write_test" /\ i \in Nat /\ i < SCR_SIZE \div 4
        /\ KernelStore(WordOf(i), 4, Word(i), i + 1)
    BY DEF WriteTest, DataInv, WordOf
  <1>2. /\ UNCHANGED <<phase, op, shown>> /\ i' = i + 1
        /\ \A k \in 0 .. 3 : mem'[WordOf(i) + k] = Word(i)[k + 1]
        /\ \A p \in Bytes : (\A k \in 0 .. 3 : WordOf(i) + k # p) => mem'[p] = mem[p]
    <2> DEFINE d == Word(i)
    <2>1. KernelStore(WordOf(i), 4, d, i + 1)
      BY <1>1
    <2> HIDE DEF d
    <2>2. /\ UNCHANGED <<phase, op, shown>> /\ i' = i + 1
          /\ \A k \in 0 .. 3 : mem'[WordOf(i) + k] = d[k + 1]
          /\ \A p \in Bytes : (\A k \in 0 .. 3 : WordOf(i) + k # p) => mem'[p] = mem[p]
      BY <1>1, <2>1, ScreenStore
    <2> QED
      BY <2>2 DEF d
  <1>3. ASSUME NEW j \in Nat, Tested(j)', NEW k \in 0 .. 3
        PROVE  mem'[WordOf(j) + k] = Word(j)[k + 1]
    <2>1. j < SCR_SIZE \div 4 /\ j < i + 1
      BY <1>1, <1>2, <1>3 DEF Tested
    <2>2. CASE j = i
      BY <2>2, <1>2
    <2>3. CASE j # i
      <3>1. j < i
        BY <2>1, <2>3, <1>1
      <3>2. mem[WordOf(j) + k] = Word(j)[k + 1]
        BY <3>1, <2>1, <1>1 DEF TestInv, Tested
      <3>3. WordOf(j) + k \in Bytes
        <4>1. WordOf(j) + k \in Screen
          BY <2>1, ScreenWords
        <4>2. phase \in Running /\ phase \notin WithUpdir
          BY <1>1 DEF Running, Phases, WithUpdir
        <4> QED
          BY <4>1, <4>2, ScreenPlaces
      <3>4. \A h \in 0 .. 3 : WordOf(i) + h # WordOf(j) + k
        BY <3>1, <1>1, VideoMemory DEF WordOf
      <3> QED
        BY <3>2, <3>3, <3>4, <1>2
    <2> QED
      BY <2>2, <2>3
  <1> QED
    BY <1>1, <1>2, <1>3 DEF TestInv

LEMMA ClearTest ==
  ASSUME IInv, DataInv, TypeInv, TestInv, OfWords, Clear
  PROVE  TestInv'
  <1>1. /\ phase = "clear" /\ i \in Nat /\ i < SCR_SIZE \div 4
        /\ KernelStore(WordOf(i), 4, Word(0), i + 1)
    BY DEF Clear, DataInv, WordOf
  <1>2. UNCHANGED <<phase, op>>
    <2> DEFINE d == Word(0)
    <2>1. KernelStore(WordOf(i), 4, d, i + 1)
      BY <1>1
    <2> HIDE DEF d
    <2> QED
      BY <1>1, <2>1, ScreenStore
  <1> QED
    BY <1>1, <1>2 DEF TestInv, Tested

LEMMA IdeReadTest ==
  ASSUME IInv, DataInv, TypeInv, TestInv, OfWords, IdeRead
  PROVE  TestInv'
  <1>1. /\ phase = "ide_read" /\ phase' = phase /\ op' = op
        /\ \A q \in Screen : mem'[q] = mem[q]
    BY FileStore DEF IdeRead
  <1>2. ASSUME NEW j \in Nat, Tested(j)', NEW k \in 0 .. 3
        PROVE  mem'[WordOf(j) + k] = Word(j)[k + 1]
    <2>1. Tested(j) /\ j < SCR_SIZE \div 4
      BY <1>1, <1>2 DEF Tested
    <2>2. WordOf(j) + k \in Screen
      BY <2>1, ScreenWords
    <2> QED
      BY <2>1, <2>2, <1>1 DEF TestInv
  <1> QED
    BY <1>1, <1>2 DEF TestInv

\* The second test finds the words, under the other directory.
LEMMA ReadTestTest ==
  ASSUME IInv, DataInv, TypeInv, TestInv, OfWords, ReadTest
  PROVE  TestInv'
  <1> DEFINE l == WordOf(i)
             d == Word(i)
  <1>1. /\ phase = "read_test" /\ i \in Nat /\ i < SCR_SIZE \div 4
        /\ KernelLoad(l, 4, d, i + 1)
    BY DEF ReadTest, DataInv, WordOf
  <1>2. Sound(l, 4) /\ \A k \in 0 .. 3 : At(l + k) = l + k
    BY <1>1, SoundWord
  <1>3. \A k \in 0 .. 3 : mem[l + k] = d[k + 1]
    BY <1>1 DEF TestInv, Tested
  <1>4. d \in Words
    BY <1>1, WordOfByte
  <1> HIDE DEF l, d
  <1>5. PICK w \in Walks(l, 4) :
          IF FaultsAt(w, l, 4) \/ Loaded(w, l, 4) # d THEN Abort
          ELSE i' = i + 1 /\ UNCHANGED <<phase, seg, mem, line_dirty, op, stores>>
    BY <1>1 DEF KernelLoad
  <1>6. ~FaultsAt(w, l, 4)
    BY <1>1, <1>2, PartsInPlace
  <1>7. Loaded(w, l, 4) = d
    <2> DEFINE x == Loaded(w, l, 4)
    <2>1. mem \in [Bytes -> Nat] /\ phase \notin {"init_page", "abort"} /\ 4 - 1 = 3
      BY <1>1 DEF TypeInv
    <2>2. x \in Words /\ \A k \in 0 .. 3 : x[k + 1] = mem[At(l + k)]
      BY <1>2, <2>1, LoadedBytes
    <2> HIDE DEF x
    <2>3. \A k \in 1 .. 4 : x[k] = d[k]
      <3>1. \A k \in 1 .. 4 : k - 1 \in 0 .. 3 /\ (k - 1) + 1 = k
        OBVIOUS
      <3> QED
        BY <3>1, <2>2, <1>2, <1>3
    <2>4. x = d
      BY <2>2, <2>3, <1>4 DEF Words
    <2> QED
      BY <2>4 DEF x
  <1>8. i' = i + 1 /\ UNCHANGED <<phase, mem, op>>
    BY <1>5, <1>6, <1>7
  <1>9. \A j : Tested(j)' => Tested(j)
    BY <1>1, <1>8 DEF Tested
  <1> QED
    BY <1>1, <1>8, <1>9 DEF TestInv

\* The kernel's code has a frame.
LEMMA KernelRunsOn == ASSUME IInv, KernelRuns PROVE UNCHANGED <<phase, i, mem, line_dirty, op>>
  <1>1. phase \notin {"init_page", "abort"} /\ SpaceInv /\ DirInv /\ Settled(tlb)
    BY DEF KernelRuns, IInv, TlbInv
  <1>2. PICK p \in KPage .. KPage + UserFrame - 1 : \E t \in Translations(tlb, p) :
          IF t.frame = None THEN Abort
          ELSE UNCHANGED <<phase, i, mem, line_dirty, op>>
    BY DEF KernelRuns, boot
  <1>3. /\ p \in Pages /\ p >= NrFrames /\ p >= KPage /\ p - KPage # None /\ KPage \in Nat
        /\ p \in Nat /\ NrFrames \in Nat
    BY MemoryAssumption DEF Pages, Frames, None
  <1>4. PageWalk(p) = p - KPage
    <2>1. map["kpdir"][p] = p - KPage
      BY <1>1, <1>3 DEF SpaceInv, MapInv, KernelFrame
    <2>2. cr3 = "updir" => map["updir"][p] = p - KPage
      BY <1>1, <1>3 DEF SpaceInv, MapInv, DirInv, WithUpdir, Phases
    <2> QED
      BY <2>1, <2>2, <1>1, <1>3 DEF DirInv, PageWalk
  <1>5. \A t \in Translations(tlb, p) : t.frame # None
    BY <1>1, <1>3, <1>4, RightFrame
  <1> QED
    BY <1>2, <1>5

-------------------------------------------------------------------------------
(* The program's accesses *)

LEMMA ScreenLines ==
  ASSUME NEW q \in Screen
  PROVE  q - VMEM_ADDR \in 0 .. SCR_SIZE - 1 /\ Line(q) \in 0 .. CTR_ROW - 1 /\ Line(q) < CTR_ROW
  <1>0. SCR_SIZE \in Nat /\ VMEM_ADDR \in Nat /\ CTR_COL \in Nat \ {0} /\ CTR_ROW \in Nat
    BY VideoMemory, MemoryAssumption
  <1> DEFINE n == q - VMEM_ADDR
  <1>1. n \in 0 .. SCR_SIZE - 1
    BY <1>0 DEF Screen
  <1> HIDE DEF n
  <1>2. n \in Nat /\ n < SCR_SIZE
    BY <1>0, <1>1
  <1>3. n < CTR_ROW * CTR_COL
    BY <1>2 DEF SCR_SIZE
  <1>4. n \div CTR_COL \in 0 .. CTR_ROW - 1
    BY <1>0, <1>2, <1>3, DivBelow
  <1> QED
    BY <1>0, <1>1, <1>4 DEF n, Line

\* What the program may use is below the kernel.
LEMMA UsableBelow ==
  ASSUME SpaceInv, NEW l \in Usable PROVE l \in Nat /\ Page(l) \in 0 .. KPage - 1
  <1>1. phase = "user" /\ brk \in Nat /\ brk < KOFFSET
    BY DEF Usable, SpaceInv, ProgramInv
  <1>2. CASE \E s \in DOMAIN Segments :
               l \in Segments[s].vaddr .. (Segments[s].vaddr + Segments[s].memsz - 1)
    <2>1. l \in Nat /\ l < KOFFSET
      BY <1>2, Layout
    <2> QED
      BY <2>1, ProgramPages
  <1>3. CASE l \in End .. brk - 1 \/ l \in (KOFFSET - STACK_SIZE) .. (KOFFSET - 1)
    <2>1. l \in Nat /\ l < KOFFSET
      BY <1>1, <1>3, Layout
    <2> QED
      BY <2>1, ProgramPages
  <1>4. CASE l \in VMEM_ADDR .. (VMEM_ADDR + SCR_SIZE - 1)
    BY <1>4, VideoMemory, MemoryAssumption DEF Frames
  <1>5. \/ l \in (UNION {Segments[s].vaddr .. (Segments[s].vaddr + Segments[s].memsz - 1) :
                         s \in DOMAIN Segments})
        \/ l \in End .. brk - 1
        \/ l \in (KOFFSET - STACK_SIZE) .. (KOFFSET - 1)
        \/ l \in VMEM_ADDR .. (VMEM_ADDR + SCR_SIZE - 1)
    BY <1>1, Zenon DEF Usable
  <1>6. l \in (UNION {Segments[s].vaddr .. (Segments[s].vaddr + Segments[s].memsz - 1) :
                     s \in DOMAIN Segments})
        => \E s \in DOMAIN Segments :
              l \in Segments[s].vaddr .. (Segments[s].vaddr + Segments[s].memsz - 1)
    BY Zenon
  <1> QED
    BY <1>2, <1>3, <1>4, <1>5, <1>6

\* The program is where its pages tell it, and no two of its bytes are in the
\* same place.
LEMMA Injective ==
  ASSUME IInv, NEW q \in Usable, NEW m \in Usable
  PROVE  /\ q \in Nat /\ Present(Page(q)) /\ At(q) \in Bytes /\ At(q) \in Nat
         /\ At(q) = At(m) => q = m
  <1>1. phase = "user" /\ cr3 = "updir" /\ SpaceInv /\ DirInv
    BY DEF Usable, IInv, TlbInv, DirInv, Phases, WithUpdir
  <1>2. ASSUME NEW l \in Usable
        PROVE  /\ l \in Nat /\ Page(l) \in 0 .. KPage - 1 /\ Mapped(Page(l))
               /\ PageWalk(Page(l)) = map["updir"][Page(l)] /\ Present(Page(l))
    <2>1. l \in Nat /\ Page(l) \in 0 .. KPage - 1
      BY <1>1, UsableBelow
    <2>2. Page(l) \in Pages /\ Mapped(Page(l))
      BY <1>1, UsablePages
    <2> QED
      BY <2>1, <2>2, <1>1 DEF PageWalk, Present, Mapped
  <1>3. \A l \in Usable : /\ At(l) \in Nat /\ At(l) \in Bytes
                          /\ Page(At(l)) = map["updir"][Page(l)]
                          /\ At(l) % PAGE_SIZE = l % PAGE_SIZE
    BY <1>1, <1>2, Places
  <1>4. ASSUME At(q) = At(m) PROVE q = m
    <2>1. map["updir"][Page(q)] = map["updir"][Page(m)]
      BY <1>3, <1>4
    <2>2. Page(q) = Page(m)
      BY <2>1, <1>1, <1>2 DEF SpaceInv, OwnInv
    <2>3. q % PAGE_SIZE = m % PAGE_SIZE
      BY <1>3, <1>4
    <2>4. q = Page(q) * PAGE_SIZE + (q % PAGE_SIZE) /\ m = Page(m) * PAGE_SIZE + (m % PAGE_SIZE)
      BY <1>2, Place
    <2> QED
      BY <2>2, <2>3, <2>4
  <1> QED
    BY <1>2, <1>3, <1>4

\* What a store of the program does
Stores(l, len, d) ==
  /\ l \in Nat /\ len \in 1 .. 4 /\ Legal(l, len)
  /\ op' = [kind |-> "store", addr |-> l, len |-> len, data |-> d]
  /\ \A k \in 0 .. len - 1 : mem'[At(l + k)] = d[k + 1]
  /\ \A p \in Bytes : (\A k \in 0 .. len - 1 : At(l + k) # p) => mem'[p] = mem[p]
  /\ line_dirty \subseteq line_dirty'
  /\ l \in Screen => Line(l) \in line_dirty'

LEMMA UserStores ==
  ASSUME IInv, TypeInv, EvenSplits, UserStore
  PROVE  /\ phase = "user" /\ UNCHANGED <<phase, i, seg, map, cr3, brk, shown>>
         /\ \E a \in Accesses, d \in Data : Stores(a[1], a[2], d)
  <1>1. PICK a \in Accesses, d \in Data : StoreAt(a[1], a[2], d)
    BY DEF UserStore
  <1> DEFINE l == a[1]
             len == a[2]
  <1>2. phase = "user" /\ Legal(l, len) /\ l \in Nat /\ len \in 1 .. 4
    BY <1>1, MemoryAssumption DEF StoreAt
  <1>3. Sound(l, len)
    BY <1>2, UserSound
  <1>4. StoreAt(l, len, d)
    BY <1>1
  <1> HIDE DEF l, len
  <1>5. Distinct(l, len)
    <2> SUFFICES ASSUME NEW j \in 0 .. len - 1, NEW k \in 0 .. len - 1, At(l + j) = At(l + k)
                 PROVE  j = k
      BY DEF Distinct
    <2>1. l + j \in Usable /\ l + k \in Usable
      BY <1>2 DEF Legal
    <2>2. l + j = l + k
      BY <2>1, Injective
    <2> QED
      BY <2>2, <1>2
  <1>6. PICK w \in Walks(l, len) :
          IF FaultsAt(w, l, len) THEN Abort
          ELSE /\ Store(w, l, len, d) /\ UNCHANGED <<phase, i, seg>>
               /\ op' = [kind |-> "store", addr |-> l, len |-> len, data |-> d]
    BY <1>4 DEF StoreAt, boot
  <1>7. /\ ~FaultsAt(w, l, len)
        /\ w.frames[1] * PAGE_SIZE + (l % PAGE_SIZE) = At(l)
    BY <1>2, <1>3, PartsInPlace
  <1>8. /\ mem' = Stored(w, l, len, d) /\ line_dirty' = line_dirty \cup Marked(w, l, len)
        /\ UNCHANGED <<phase, i, seg>>
        /\ op' = [kind |-> "store", addr |-> l, len |-> len, data |-> d]
    BY <1>6, <1>7 DEF Store
  <1>9. UNCHANGED <<map, cr3, brk, shown>>
    BY <1>4 DEF StoreAt, paging
  <1>10. /\ \A k \in 0 .. len - 1 : mem'[At(l + k)] = d[k + 1]
         /\ \A p \in Bytes : (\A k \in 0 .. len - 1 : At(l + k) # p) => mem'[p] = mem[p]
    <2>1. phase \notin {"init_page", "abort"} /\ mem \in [Bytes -> Nat]
      BY <1>2 DEF TypeInv
    <2> QED
      BY <2>1, <1>3, <1>5, <1>8, StoredBytes
  <1>11. ASSUME l \in Screen PROVE Line(l) \in line_dirty'
    <2>1. /\ Page(l) \in VideoMapped /\ At(l) = l
      BY <1>2, <1>11, ScreenPlaces DEF Running, Phases, WithVideo
    <2>2. IsMmio(l)
      BY <2>1, MemoryAssumption DEF IsMmio
    <2>3. Line(l) < CTR_ROW
      BY <1>11, ScreenLines
    <2>4. Marks(l, Len1(l, len)) = {Line(l)}
      BY <2>2, <2>3 DEF Marks, Line
    <2>5. Marks(l, Len1(l, len)) \subseteq Marked(w, l, len)
      BY <2>1, <1>7 DEF Marked
    <2> QED
      BY <2>4, <2>5, <1>8
  <1>12. line_dirty \subseteq line_dirty'
    BY <1>8
  <1>13. Stores(l, len, d)
    BY <1>2, <1>8, <1>10, <1>11, <1>12 DEF Stores
  <1> QED
    BY <1>2, <1>8, <1>9, <1>13 DEF l, len

Loads(l, len, d) ==
  /\ l \in Nat /\ len \in 1 .. 4 /\ Legal(l, len)
  /\ op' = [kind |-> "load", addr |-> l, len |-> len, data |-> d]
  /\ \A k \in 0 .. len - 1 : d[k + 1] = mem[At(l + k)]

LEMMA UserLoads ==
  ASSUME IInv, TypeInv, EvenSplits, UserLoad
  PROVE  /\ phase = "user" /\ UNCHANGED <<phase, i, seg, map, cr3, brk, mem, line_dirty, shown>>
         /\ \E a \in Accesses : \E d : Loads(a[1], a[2], d)
  <1>1. PICK a \in Accesses : LoadAt(a[1], a[2])
    BY DEF UserLoad
  <1> DEFINE l == a[1]
             len == a[2]
  <1>2. phase = "user" /\ Legal(l, len) /\ l \in Nat /\ len \in 1 .. 4
    BY <1>1, MemoryAssumption DEF LoadAt
  <1>3. Sound(l, len)
    BY <1>2, UserSound
  <1>4. LoadAt(l, len)
    BY <1>1
  <1> HIDE DEF l, len
  <1>5. PICK w \in Walks(l, len) :
          IF FaultsAt(w, l, len) THEN Abort
          ELSE /\ op' = [kind |-> "load", addr |-> l, len |-> len, data |-> Loaded(w, l, len)]
               /\ UNCHANGED <<phase, i, seg, mem, line_dirty>>
    BY <1>4 DEF LoadAt, boot
  <1>6. ~FaultsAt(w, l, len)
    BY <1>2, <1>3, PartsInPlace
  <1>7. UNCHANGED <<map, cr3, brk, shown>>
    BY <1>4 DEF LoadAt, paging
  <1>8. \A k \in 0 .. len - 1 : Loaded(w, l, len)[k + 1] = mem[At(l + k)]
    <2>1. phase \notin {"init_page", "abort"} /\ mem \in [Bytes -> Nat]
      BY <1>2 DEF TypeInv
    <2> QED
      BY <2>1, <1>3, LoadedBytes
  <1>9. Loads(l, len, Loaded(w, l, len))
    BY <1>2, <1>5, <1>6, <1>8 DEF Loads
  <1> QED
    BY <1>2, <1>5, <1>6, <1>7, <1>9 DEF l, len

-------------------------------------------------------------------------------
(* No assertion fails, and the screen follows *)

LEMMA OtherTest ==
  ASSUME DataInv, TestInv,
         \/ InitPage \/ InitMm \/ LoadSegment \/ RecordBrk \/ Stack \/ CreateVideoMapping
         \/ WriteCr3 \/ BootLoopEnds \/ SysBrk \/ UpdateScreen \/ UNCHANGED vars
  PROVE  TestInv'
  <1>0. i \in Nat
    BY DEF DataInv
  <1>1. CASE InitPage \/ InitMm
    <2>1. /\ UNCHANGED <<i, mem, op>> /\ i = 0 /\ op = NoOp
          /\ phase' = "init_mm" \/ phase' = "write_test"
      BY <1>1 DEF InitPage, InitMm, Goto, TestInv
    <2> QED
      BY <2>1 DEF TestInv, Tested
  <1>2. CASE LoadSegment \/ RecordBrk \/ Stack \/ CreateVideoMapping \/ WriteCr3 \/ BootLoopEnds
    <2>1. /\ UNCHANGED <<mem, op>> /\ op = NoOp /\ phase' \notin {"init_page", "init_mm", "abort"}
          /\ \/ {phase, phase'} \subseteq {"load", "ide_read", "video", "write_cr3", "read_test"}
             \/ phase = "write_test" /\ i = SCR_SIZE \div 4 /\ phase' = "load"
             \/ phase' \in {"clear", "user"}
      BY <1>2 DEF LoadSegment, RecordBrk, Stack, CreateVideoMapping, WriteCr3, BootLoopEnds,
                  After, Goto, TestInv
    <2>2. \A j : Tested(j)' => Tested(j)
      BY <2>1 DEF Tested
    <2> QED
      BY <2>1, <2>2 DEF TestInv
  <1>3. CASE SysBrk
    BY <1>3 DEF SysBrk, boot, TestInv, Tested
  <1>4. CASE UpdateScreen \/ UNCHANGED vars
    BY <1>4 DEF UpdateScreen, vars, boot, TestInv, Tested
  <1> QED
    BY <1>1, <1>2, <1>3, <1>4

LEMMA StepTest ==
  ASSUME IInv, DataInv, TypeInv, TestInv, OfWords, EvenSplits, [Next]_vars
  PROVE  TestInv'
  <1>1. CASE UserStore \/ UserLoad
    <2>1. phase = "user" /\ phase' = phase
      BY <1>1, UserStores, UserLoads
    <2> QED
      BY <2>1 DEF TestInv, Tested
  <1>2. CASE KernelRuns
    <2>1. UNCHANGED <<phase, i, mem, op>>
      BY <1>2, KernelRunsOn
    <2> QED
      BY <2>1 DEF TestInv, Tested
  <1> QED
    BY <1>1, <1>2, WriteTestTest, ClearTest, IdeReadTest, ReadTestTest, OtherTest
       DEF Next, Boot

AllInv == IInv /\ DataInv /\ TypeInv

LEMMA Typed == Spec => []AllInv
  <1>1. TypeOK => TypeInv
    BY DEF TypeOK, TypeInv, TlbType, Bytes
  <1> QED
    BY <1>1, Invariance, DataInvariance, TypeCorrect, PTL DEF AllInv

\* No assertion of an access fails (page.c:15, mm_io.c:58), the second video test
\* finds what the first one stored (vmem.c:47), and the kernel always has its code:
\* for accesses that are split right.
THEOREM NoAbort == OfWords /\ EvenSplits => (Spec => []NeverAborts)
  <1> SUFFICES ASSUME OfWords, EvenSplits PROVE Spec => []NeverAborts
    OBVIOUS
  <1>1. Init => TestInv
    BY InitTest
  <1>2. AllInv /\ TestInv /\ [Next]_vars => TestInv'
    BY StepTest DEF AllInv
  <1>3. TestInv => NeverAborts
    BY DEF TestInv, NeverAborts
  <1> QED
    BY <1>1, <1>2, <1>3, Typed, PTL DEF Spec

\* The screen, which has all its bytes
ScreenInv == DOMAIN shown = 0 .. SCR_SIZE - 1 /\ ScreenFollows

\* A byte of the screen keeps its value, or its line is marked.
Shows ==
  /\ shown' = shown /\ line_dirty \subseteq line_dirty'
  /\ \A q \in Screen : mem'[q] = mem[q] \/ Line(q) \in line_dirty'

LEMMA ShowsScreen == ASSUME ScreenInv, Shows PROVE ScreenInv'
  <1>1. ASSUME NEW o \in 0 .. SCR_SIZE - 1, o \div CTR_COL \notin line_dirty'
        PROVE  shown[o] = mem'[VMEM_ADDR + o]
    <2> DEFINE q == VMEM_ADDR + o
    <2>1. q \in Screen /\ q - VMEM_ADDR = o
      BY VideoMemory DEF Screen
    <2>2. shown[o] = mem[q]
      BY <1>1 DEF ScreenInv, ScreenFollows, Shows
    <2> HIDE DEF q
    <2>3. mem'[q] = mem[q]
      BY <2>1, <1>1 DEF Shows, Line
    <2> QED
      BY <2>2, <2>3 DEF q
  <1> QED
    BY <1>1 DEF ScreenInv, ScreenFollows, Shows

LEMMA KernelShows ==
  ASSUME AllInv, OfWords, WriteTest \/ Clear PROVE Shows
  <1>1. /\ phase \in {"write_test", "clear"} /\ i \in Nat /\ i < SCR_SIZE \div 4
        /\ \E d : KernelStore(WordOf(i), 4, d, i + 1)
    BY DEF WriteTest, Clear, AllInv, DataInv, WordOf
  <1>2. PICK d : KernelStore(WordOf(i), 4, d, i + 1)
    BY <1>1
  <1>3. /\ shown' = shown
        /\ \A p \in Bytes : (\A k \in 0 .. 3 : WordOf(i) + k # p) => mem'[p] = mem[p]
        /\ line_dirty' = line_dirty \cup {Line(WordOf(i))}
    BY <1>1, <1>2, ScreenStore DEF AllInv
  <1>4. ASSUME NEW q \in Screen, mem'[q] # mem[q] PROVE Line(q) \in line_dirty'
    <2>1. q \in Bytes
      BY <1>1, ScreenPlaces DEF AllInv, Running, Phases, WithVideo, WithUpdir
    <2>2. PICK k \in 0 .. 3 : WordOf(i) + k = q
      BY <2>1, <1>3, <1>4
    <2>3. Line(q) = Line(WordOf(i))
      BY <2>2, <1>1, ScreenWords
    <2> QED
      BY <2>3, <1>3
  <1> QED
    BY <1>3, <1>4 DEF Shows

LEMMA UserShows ==
  ASSUME AllInv, EvenSplits, InLines, UserStore PROVE Shows
  <1>1. /\ phase = "user" /\ shown' = shown
        /\ \E a \in Accesses, d \in Data : Stores(a[1], a[2], d)
    BY UserStores DEF AllInv
  <1>2. PICK a \in Accesses, d \in Data : Stores(a[1], a[2], d)
    BY <1>1
  <1> DEFINE l == a[1]
             len == a[2]
  <1>3. /\ l \in Nat /\ len \in 1 .. 4 /\ Legal(l, len)
        /\ \A p \in Bytes : (\A k \in 0 .. len - 1 : At(l + k) # p) => mem'[p] = mem[p]
        /\ line_dirty \subseteq line_dirty'
        /\ l \in Screen => Line(l) \in line_dirty'
    BY <1>2 DEF Stores
  <1>4. \A q \in l .. (l + len - 1) : q \in Screen => l \in Screen /\ Line(q) = Line(l)
    BY DEF InLines
  <1> HIDE DEF l, len
  <1>5. ASSUME NEW q \in Screen, mem'[q] # mem[q] PROVE Line(q) \in line_dirty'
    <2>1. q \in Bytes /\ At(q) = q
      BY <1>1, ScreenPlaces DEF AllInv, Running, Phases, WithVideo
    <2>2. PICK k \in 0 .. len - 1 : At(l + k) = q
      BY <2>1, <1>3, <1>5
    <2>3. l + k \in l .. (l + len - 1)
      BY <1>3
    <2>4. l + k \in Usable /\ q \in Usable
      BY <2>3, <1>1, <1>3 DEF Legal, Usable, Screen
    <2>5. l + k = q
      BY <2>1, <2>2, <2>4, Injective DEF AllInv
    <2> QED
      BY <2>3, <2>5, <1>3, <1>4
  <1> QED
    BY <1>1, <1>3, <1>5 DEF Shows

LEMMA OtherShows ==
  ASSUME AllInv, \/ ReadTest \/ KernelRuns \/ UserLoad
                           \/ InitPage \/ InitMm \/ LoadSegment \/ RecordBrk \/ Stack
                           \/ CreateVideoMapping \/ WriteCr3 \/ BootLoopEnds \/ SysBrk
                           \/ UNCHANGED vars
  PROVE  Shows
  <1>1. UNCHANGED <<mem, line_dirty, shown>>
    <2>1. ASSUME NEW l, NEW len, NEW d, NEW next, KernelLoad(l, len, d, next)
          PROVE  UNCHANGED <<mem, line_dirty, shown>>
      BY <2>1 DEF KernelLoad, Abort
    <2>2. ASSUME NEW l, NEW len, LoadAt(l, len)
          PROVE  UNCHANGED <<mem, line_dirty, shown>>
      BY <2>2 DEF LoadAt, Abort
    <2>3. CASE ReadTest \/ UserLoad
      BY <2>1, <2>2, <2>3 DEF ReadTest, UserLoad
    <2>4. CASE KernelRuns
      BY <2>4 DEF KernelRuns, Abort
    <2>5. CASE ~(ReadTest \/ UserLoad \/ KernelRuns)
      BY <2>5 DEF InitPage, InitMm, LoadSegment, RecordBrk, Stack, CreateVideoMapping, WriteCr3,
                  BootLoopEnds, After, SysBrk, vars, video
    <2> QED
      BY <2>3, <2>4, <2>5
  <1> QED
    BY <1>1 DEF Shows

LEMMA UpdateScreenShows == ASSUME AllInv, ScreenInv, UpdateScreen PROVE ScreenInv'
  <1>1. /\ shown' = [o \in DOMAIN shown |->
                       IF o \div CTR_COL \in line_dirty THEN mem[VMEM_ADDR + o] ELSE shown[o]]
        /\ line_dirty' = {} /\ mem' = mem
    BY DEF UpdateScreen
  <1> QED
    BY <1>1 DEF ScreenInv, ScreenFollows

\* Whatever is stored, by kernel or program, reaches the screen with the next
\* refresh (vga.c:40, 83), if no access crosses a line.
THEOREM ScreenIsRight == OfWords /\ EvenSplits /\ InLines => (Spec => []ScreenFollows)
  <1> SUFFICES ASSUME OfWords, EvenSplits, InLines PROVE Spec => []ScreenFollows
    OBVIOUS
  <1>1. Init => ScreenInv
    <2> SUFFICES ASSUME Init PROVE ScreenInv
      OBVIOUS
    <2>1. ASSUME NEW o \in 0 .. SCR_SIZE - 1 PROVE mem[VMEM_ADDR + o] = 0
      <3>1. VMEM_ADDR + o \in Screen
        BY VideoMemory DEF Screen
      <3>2. VMEM_ADDR + o \in Nat /\ Page(VMEM_ADDR + o) < NrFrames
        BY <3>1, VideoMemory, MemoryAssumption DEF Screen, Frames
      <3>3. VMEM_ADDR + o \in 0 .. NrFrames * PAGE_SIZE - 1
        BY <3>2, InMemory
      <3> QED
        BY <3>3 DEF Init
    <2> QED
      BY <2>1 DEF Init, ScreenInv, ScreenFollows
  <1>2. AllInv /\ ScreenInv /\ [Next]_vars => ScreenInv'
    <2> SUFFICES ASSUME AllInv, ScreenInv, [Next]_vars PROVE ScreenInv'
      OBVIOUS
    <2>1. CASE IdeRead
      BY <2>1, FileStore, ShowsScreen DEF AllInv, Shows
    <2>2. CASE ~IdeRead
      BY <2>2, KernelShows, UserShows, OtherShows, ShowsScreen, UpdateScreenShows
         DEF Next, Boot
    <2> QED
      BY <2>1, <2>2
  <1>3. ScreenInv => ScreenFollows
    BY DEF ScreenInv
  <1> QED
    BY <1>1, <1>2, <1>3, Typed, PTL DEF Spec

-------------------------------------------------------------------------------
(* The program's memory is flat *)

FlatBytes == [l \in Usable |-> Byte(l)]

LEMMA ByteAt == ASSUME NEW l PROVE Byte(l) = mem[At(l)]
  BY DEF Byte, At

\* Nothing the program sees changes.
LEMMA SameBytes ==
  ASSUME UNCHANGED <<phase, map, cr3, brk, mem>>
  PROVE  FlatBytes' = FlatBytes
  BY DEF FlatBytes, Byte, Usable, PageWalk

LEMMA FlatStarts == ASSUME Init PROVE Flat!Init
  <1>1. Usable = {} /\ op = NoOp
    BY DEF Init, Usable
  <1>2. [l \in Usable |-> Byte(l)] = << >>
    BY <1>1
  <1> QED
    BY <1>1, <1>2 DEF Flat!Init, Flat!NoOp, NoOp

\* While the kernel boots, the program has no memory; then it gets all of it.
LEMMA FlatBoot ==
  ASSUME TestInv, TestInv', [Next]_vars, phase # "user"
  PROVE  Flat!Resize \/ UNCHANGED <<FlatBytes, op>>
  <1>1. Usable = {} /\ op = NoOp
    BY DEF Usable, TestInv
  <1>2. op' = op
    <2> USE DEF Abort
    <2>1. ASSUME NEW l, NEW len, NEW d, NEW next,
                 KernelLoad(l, len, d, next) \/ KernelStore(l, len, d, next)
          PROVE  op' = op
      BY <2>1 DEF KernelLoad, KernelStore
    <2>2. ~(UserStore \/ UserLoad \/ SysBrk)
      BY DEF UserStore, StoreAt, UserLoad, LoadAt, SysBrk
    <2>3. CASE WriteTest \/ IdeRead \/ ReadTest \/ Clear
      BY <2>1, <2>3 DEF WriteTest, IdeRead, ReadTest, Clear
    <2>4. CASE KernelRuns
      BY <2>4 DEF KernelRuns
    <2>5. CASE \/ InitPage \/ InitMm \/ LoadSegment \/ RecordBrk \/ Stack \/ CreateVideoMapping
               \/ WriteCr3 \/ BootLoopEnds \/ UpdateScreen \/ UNCHANGED vars
      BY <2>5 DEF InitPage, InitMm, LoadSegment, RecordBrk, Stack, CreateVideoMapping, WriteCr3,
                  BootLoopEnds, After, UpdateScreen, vars
    <2> QED
      BY <2>2, <2>3, <2>4, <2>5 DEF Next, Boot
  <1>3. CASE phase' # "user"
    <2>1. Usable' = {}
      BY <1>3 DEF Usable
    <2>2. FlatBytes = << >> /\ FlatBytes' = << >>
      BY <1>1, <2>1 DEF FlatBytes
    <2> QED
      BY <1>2, <2>2
  <1>4. CASE phase' = "user"
    BY <1>1, <1>2 DEF Flat!Resize, Flat!NoOp, NoOp
  <1> QED
    BY <1>3, <1>4

\* A store changes its own bytes and no others.
LEMMA FlatStore ==
  ASSUME AllInv, EvenSplits, UserStore PROVE Flat!Store
  <1>1. /\ phase = "user" /\ UNCHANGED <<phase, map, cr3, brk>>
        /\ \E a \in Accesses, d \in Data : Stores(a[1], a[2], d)
    BY UserStores DEF AllInv
  <1>2. PICK a \in Accesses, d \in Data : Stores(a[1], a[2], d)
    BY <1>1
  <1> DEFINE l == a[1]
             len == a[2]
  <1>3. /\ l \in Nat /\ len \in 1 .. 4 /\ Legal(l, len)
        /\ op' = [kind |-> "store", addr |-> l, len |-> len, data |-> d]
        /\ \A k \in 0 .. len - 1 : mem'[At(l + k)] = d[k + 1]
        /\ \A p \in Bytes : (\A k \in 0 .. len - 1 : At(l + k) # p) => mem'[p] = mem[p]
    BY <1>2 DEF Stores
  <1> HIDE DEF l, len
  <1>4. Usable' = Usable /\ \A q : Byte(q)' = mem'[At(q)]
    BY <1>1 DEF Usable, Byte, At, PageWalk
  <1>5. \A k \in 0 .. len - 1 : l + k \in Usable /\ l + k \in Nat
    BY <1>3 DEF Legal
  <1>6. ASSUME NEW q \in Usable
        PROVE  Byte(q)' = IF q \in l .. (l + len - 1) THEN d[q - l + 1] ELSE Byte(q)
    <2>1. q \in Nat /\ At(q) \in Bytes
      BY Injective DEF AllInv
    <2>2. CASE q \in l .. (l + len - 1)
      <3> DEFINE k == q - l
      <3>1. k \in 0 .. len - 1 /\ l + k = q
        BY <1>3, <2>1, <2>2
      <3> HIDE DEF k
      <3>2. mem'[At(q)] = d[k + 1]
        BY <3>1, <1>3
      <3> QED
        BY <3>2, <2>2, <1>4 DEF k
    <2>3. CASE q \notin l .. (l + len - 1)
      <3>1. \A k \in 0 .. len - 1 : l + k # q
        BY <1>3, <2>3
      <3>2. \A k \in 0 .. len - 1 : At(l + k) # At(q)
        BY <3>1, <1>5, Injective DEF AllInv
      <3>3. mem'[At(q)] = mem[At(q)]
        BY <3>2, <2>1, <1>3
      <3> QED
        BY <3>3, <2>3, <1>4, ByteAt
    <2> QED
      BY <2>2, <2>3
  <1>7. /\ op'.kind = "store" /\ op'.addr = l /\ op'.len = len /\ op'.data = d
        /\ Flat!Covers(op') = l .. (l + len - 1)
    BY <1>3 DEF Flat!Covers
  <1>8. Flat!Covers(op') \subseteq Usable
    BY <1>3, <1>7 DEF Legal
  <1> QED
    BY <1>4, <1>6, <1>7, <1>8 DEF Flat!Store

LEMMA FlatLoad ==
  ASSUME AllInv, EvenSplits, UserLoad PROVE Flat!Load
  <1>1. /\ phase = "user" /\ UNCHANGED <<phase, map, cr3, brk, mem>>
        /\ \E a \in Accesses : \E d : Loads(a[1], a[2], d)
    BY UserLoads DEF AllInv
  <1>0. PICK a \in Accesses : \E d : Loads(a[1], a[2], d)
    BY <1>1
  <1>2. PICK d : Loads(a[1], a[2], d)
    BY <1>0
  <1> DEFINE l == a[1]
             len == a[2]
  <1>3. /\ l \in Nat /\ len \in 1 .. 4 /\ Legal(l, len)
        /\ op' = [kind |-> "load", addr |-> l, len |-> len, data |-> d]
        /\ \A k \in 0 .. len - 1 : d[k + 1] = mem[At(l + k)]
    BY <1>2 DEF Loads
  <1> HIDE DEF l, len
  <1>4. /\ op'.kind = "load" /\ op'.addr = l /\ op'.len = len /\ op'.data = d
        /\ Flat!Covers(op') = l .. (l + len - 1)
    BY <1>3 DEF Flat!Covers
  <1>5. Flat!Covers(op') \subseteq Usable
    BY <1>3, <1>4 DEF Legal
  <1>6. ASSUME NEW q \in l .. (l + len - 1) PROVE d[q - l + 1] = FlatBytes[q]
    <2> DEFINE k == q - l
    <2>1. k \in 0 .. len - 1 /\ l + k = q
      BY <1>3, <1>6
    <2> HIDE DEF k
    <2>2. d[k + 1] = mem[At(q)]
      BY <2>1, <1>3
    <2>3. FlatBytes[q] = mem[At(q)]
      BY <1>4, <1>5, ByteAt DEF FlatBytes
    <2> QED
      BY <2>2, <2>3 DEF k
  <1>7. FlatBytes' = FlatBytes
    BY <1>1, SameBytes
  <1> QED
    BY <1>4, <1>5, <1>6, <1>7 DEF Flat!Load, FlatBytes

\* A new break moves nothing.
LEMMA FlatBreak ==
  ASSUME AllInv, SysBrk PROVE Flat!Resize
  <1>1. /\ phase = "user" /\ UNCHANGED <<phase, cr3, mem>> /\ cr3 = "updir" /\ op' = NoOp
        /\ IInv
    BY DEF SysBrk, boot, AllInv, IInv, TlbInv, DirInv, Phases, WithUpdir
  <1>2. \A p \in Pages : Mapped(p) => map'["updir"][p] = map["updir"][p]
    <2>1. PICK new \in Breaks : MmBrk(new)
      BY DEF SysBrk
    <2>2. CASE new > brk
      <3>1. /\ brk \in Nat /\ brk >= End - 1 /\ new \in Nat /\ new <= KOFFSET - STACK_SIZE
            /\ SpaceInv
        BY <1>1, ProgramAssumption, MemoryAssumption
           DEF IInv, SpaceInv, ProgramInv, Allocated, WithVideo
      <3>2. /\ new - brk \in Nat \ {0} /\ brk + (new - brk) <= KOFFSET
            /\ Page(brk) >= NrFrames /\ Page(brk) >= NR_PTE /\ MmMalloc(brk, new - brk)
        BY <2>1, <2>2, <3>1, Layout DEF MmBrk
      <3> QED
        BY <3>1, <3>2, MallocMaps
    <2>3. CASE ~(new > brk)
      BY <2>1, <2>3 DEF MmBrk
    <2> QED
      BY <2>2, <2>3
  <1>3. ASSUME NEW q \in Usable PROVE Byte(q)' = Byte(q)
    <2>1. Page(q) \in Pages /\ Mapped(Page(q))
      BY <1>1, UsablePages DEF IInv
    <2> QED
      BY <2>1, <1>1, <1>2 DEF Byte, PageWalk
  <1> QED
    BY <1>1, <1>3 DEF Flat!Resize, Flat!NoOp, NoOp

\* Splits at page boundaries (memory.c:53, 73), translation, frames that are
\* handed out when the break moves: of all this the program sees nothing but
\* its bytes, if its accesses are split right.
THEOREM FlatImplemented == OfWords /\ EvenSplits => (Spec => ImplementsFlatMemory)
  <1> SUFFICES ASSUME OfWords, EvenSplits PROVE Spec => ImplementsFlatMemory
    OBVIOUS
  <1>1. Init => Flat!Init
    BY FlatStarts
  <1>2. AllInv /\ TestInv /\ TestInv' /\ [Next]_vars => [Flat!Next]_<<FlatBytes, op>>
    <2> SUFFICES ASSUME AllInv, TestInv, TestInv', [Next]_vars
                 PROVE  Flat!Next \/ UNCHANGED <<FlatBytes, op>>
      OBVIOUS
    <2>1. CASE phase # "user"
      BY <2>1, FlatBoot DEF Flat!Next
    <2>2. CASE phase = "user"
      <3>1. CASE UserStore \/ UserLoad \/ SysBrk
        BY <3>1, FlatStore, FlatLoad, FlatBreak DEF Flat!Next
      <3>2. CASE KernelRuns
        <4>1. UNCHANGED <<phase, map, cr3, brk, mem, op>>
          BY <3>2, KernelRunsOn DEF AllInv, KernelRuns, paging
        <4> QED
          BY <4>1, SameBytes
      <3>3. CASE UpdateScreen \/ UNCHANGED vars
        <4>1. UNCHANGED <<phase, map, cr3, brk, mem, op>>
          BY <3>3 DEF UpdateScreen, vars, boot, paging
        <4> QED
          BY <4>1, SameBytes
      <3>4. ~Boot
        BY <2>2 DEF Boot, InitPage, InitMm, WriteTest, LoadSegment, IdeRead, RecordBrk, Stack,
                    CreateVideoMapping, WriteCr3, ReadTest, Clear, BootLoopEnds, After
      <3> QED
        BY <3>1, <3>2, <3>3, <3>4 DEF Next
    <2> QED
      BY <2>1, <2>2
  <1>3. Init => TestInv
    BY InitTest
  <1>4. AllInv /\ TestInv /\ [Next]_vars => TestInv'
    BY StepTest DEF AllInv
  <1> QED
    BY <1>1, <1>2, <1>3, <1>4, Typed, PTL DEF Spec, ImplementsFlatMemory, Flat!Spec, FlatBytes
===============================================================================
