---------------------------- MODULE IdeDiskProofs ----------------------------
(***************************************************************************)
(* IdeDisk: the driver and the disk stay in step, and every word read or   *)
(* written belongs where it goes, for every size of disk, sector, cache    *)
(* and register.                                                           *)
(*                                                                         *)
(* The invariant is IInv.  The proof has one lemma per action, and in it   *)
(* one step per conjunct.  The arithmetic (a sector number split over two  *)
(* registers, a position split into sector and word) comes first.          *)
(***************************************************************************)
EXTENDS IdeDisk, TLAPS

\* What the proof needs of the environment: no writeback with dirty lines
\* during a transfer, or no client that writes, which is how the kernel is.
Writeback == Polite \/ "write" \notin Ops

Transfers == [dir : {"read", "write"}, line : 0 .. NR_SEC_CACHE,
              sector : Sectors, i : Words]

-------------------------------------------------------------------------------
(* Arithmetic *)

\* Quotient and remainder.
LEMMA DivMod ==
  ASSUME NEW n \in Nat, NEW k \in Nat \ {0}
  PROVE  /\ n \div k \in Nat /\ n % k \in 0 .. k - 1
         /\ n = (n % k) + k * (n \div k)
  OBVIOUS

\* The quotient of a number of two digits has one.
LEMMA DivLess ==
  ASSUME NEW n \in Nat, NEW k \in Nat \ {0}, n < k * k
  PROVE  n \div k < k
  BY DivMod

\* A digit is its own remainder.
LEMMA ModSmall ==
  ASSUME NEW n \in Nat, NEW k \in Nat \ {0}, n < k
  PROVE  n % k = n
  BY DivMod

\* A product of naturals is a natural.
LEMMA Product ==
  ASSUME NEW m \in Nat, NEW n \in Nat
  PROVE  m * n \in Nat
  OBVIOUS

\* The position of word i of sector s gives back s and i.
LEMMA DivOf ==
  ASSUME NEW s \in Nat, NEW k \in Nat \ {0}, NEW i \in 0 .. k - 1
  PROVE  (s * k + i) \div k = s /\ (s * k + i) % k = i
  BY DivMod

\* The two registers of the disk hold a sector number without loss.
LEMMA Registers ==
  ASSUME NEW s \in Sectors
  PROVE  /\ s % Radix \in 0 .. Radix - 1
         /\ (s \div Radix) % Radix \in 0 .. Radix - 1
         /\ s = (s % Radix) + Radix * ((s \div Radix) % Radix)
  <1>1. s \in Nat /\ Radix \in Nat \ {0} /\ s < Radix * Radix
    BY SizesAssumption DEF Sectors
  <1>2. s \div Radix \in Nat /\ s = (s % Radix) + Radix * (s \div Radix)
    BY <1>1, DivMod
  <1>3. s \div Radix < Radix
    BY <1>1, DivLess
  <1>4. (s \div Radix) % Radix = s \div Radix
    BY <1>1, <1>2, <1>3, ModSmall
  <1> QED
    BY <1>1, <1>2, <1>4, DivMod

\* Every sector has a line.
LEMMA LineInLines ==
  ASSUME NEW s \in Sectors
  PROVE  Line(s) \in Lines
  BY SizesAssumption DEF Sectors, Line, Lines

\* A transfer starts at word 0.
LEMMA NewTransfer ==
  ASSUME NEW d \in {"read", "write"}, NEW l \in Lines, NEW s \in Sectors
  PROVE  Transfer(d, l, s) \in Transfers
  BY SizesAssumption DEF Transfer, Transfers, Lines, Words

-------------------------------------------------------------------------------
(* Every action preserves the invariant. *)

\* A new call of read_byte or write_byte only sets the request.
LEMMA RequestStep ==
  ASSUME IInv, Writeback,
         NEW op \in Ops, NEW s \in Sectors, NEW w \in Words, Request(op, s, w)
  PROVE  IInv'
  <1>0. /\ TypeOK /\ CacheInv /\ IoInv /\ DeviceInv /\ FillInv /\ ControlInv
        /\ Line(req.sector) \in Lines
    BY LineInLines DEF IInv, TypeOK
  <1>1. TypeOK'
    BY <1>0, SizesAssumption DEF Request, At, Goto, device, TypeOK, Contexts,
       Steps, DeviceInv, IoInv, Fetched, Runs
  <1>2. CacheInv'
    BY <1>0 DEF Request, At, Goto, device, CacheInv, Filling, Holds, TypeOK,
       Contexts
  <1>3. IoInv'
    BY <1>0 DEF Request, At, Goto, device, IoInv, Fetched, Contexts, TypeOK
  <1>4. DeviceInv'
    BY <1>0 DEF Request, At, Goto, device, DeviceInv, Contexts, TypeOK
  <1>5. FillInv'
    BY <1>0 DEF Request, At, Goto, device, FillInv, Filling, TypeOK, Contexts
  <1>6. ControlInv'
    BY <1>0, SizesAssumption DEF Request, At, Goto, device, ControlInv,
       Transferring, Dirty, TypeOK, Contexts, CacheInv, Filling, Holds, Runs
  <1> QED
    BY <1>1, <1>2, <1>3, <1>4, <1>5, <1>6 DEF IInv

\* A hit finds the line with the file's content of its sector.
LEMMA FetchHitStep ==
  ASSUME IInv, Writeback, FetchHit
  PROVE  IInv'
  <1>0. /\ TypeOK /\ CacheInv /\ IoInv /\ DeviceInv /\ FillInv /\ ControlInv
        /\ Line(req.sector) \in Lines
    BY LineInLines DEF IInv, TypeOK
  <1>1. TypeOK'
    BY <1>0 DEF FetchHit, Hit, Goto, kernel, device, At, Fetched, TypeOK,
       Contexts, Steps
  <1>2. CacheInv'
    BY <1>0 DEF FetchHit, Hit, Goto, kernel, device, At, Fetched, CacheInv,
       Filling, Holds, TypeOK, Contexts
  <1>3. IoInv'
    BY <1>0 DEF FetchHit, Hit, Goto, kernel, device, At, Fetched, IoInv,
       Contexts, TypeOK
  <1>4. DeviceInv'
    BY <1>0 DEF FetchHit, Hit, Goto, kernel, device, At, Fetched, DeviceInv,
       Contexts, TypeOK
  <1>5. FillInv'
    BY <1>0 DEF FetchHit, Hit, Goto, kernel, device, At, Fetched, FillInv,
       Filling, TypeOK, Contexts
  <1>6. ControlInv'
    BY <1>0 DEF FetchHit, Hit, Goto, kernel, device, At, Fetched, ControlInv,
       Transferring, Dirty, TypeOK, Contexts
  <1> QED
    BY <1>1, <1>2, <1>3, <1>4, <1>5, <1>6 DEF IInv

\* The victim of a miss is sent under the label it still has.
LEMMA FetchEvictStep ==
  ASSUME IInv, Writeback, FetchEvict
  PROVE  IInv'
  <1>0. /\ TypeOK /\ CacheInv /\ IoInv /\ DeviceInv /\ FillInv /\ ControlInv
        /\ Line(req.sector) \in Lines
    BY LineInLines DEF IInv, TypeOK
  <1>1. TypeOK'
    <2>1. Transfer("write", Line(req.sector), Fetched.sector) \in Transfers
      BY <1>0, NewTransfer DEF TypeOK, Fetched
    <2> QED
      BY <1>0, <2>1 DEF FetchEvict, Hit, At, Goto, Transfers, kernel, device,
         TypeOK, Steps
  <1>2. CacheInv'
    BY <1>0 DEF FetchEvict, At, Hit, Fetched, Transfer, Goto, kernel, device,
       CacheInv, Filling, Holds, TypeOK, Contexts
  <1>3. IoInv'
    BY <1>0 DEF FetchEvict, At, Hit, Fetched, Transfer, Goto, kernel, device,
       IoInv, Contexts, TypeOK
  <1>4. DeviceInv'
    BY <1>0 DEF FetchEvict, At, Hit, Fetched, Transfer, Goto, kernel, device,
       DeviceInv, Contexts, TypeOK
  <1>5. FillInv'
    BY <1>0 DEF FetchEvict, At, Hit, Fetched, Transfer, Goto, kernel, device,
       FillInv, Filling, TypeOK, Contexts
  <1>6. ControlInv'
    BY <1>0 DEF FetchEvict, At, Hit, Fetched, Transfer, Goto, kernel, device,
       ControlInv, Transferring, Dirty, TypeOK, Contexts
  <1> QED
    BY <1>1, <1>2, <1>3, <1>4, <1>5, <1>6 DEF IInv

\* A miss on a clean or unused line goes straight to the read.
LEMMA FetchCleanStep ==
  ASSUME IInv, Writeback, FetchClean
  PROVE  IInv'
  <1>0. /\ TypeOK /\ CacheInv /\ IoInv /\ DeviceInv /\ FillInv /\ ControlInv
        /\ Line(req.sector) \in Lines
    BY LineInLines DEF IInv, TypeOK
  <1>1. TypeOK'
    BY <1>0 DEF FetchClean, At, Hit, Fetched, Goto, kernel, device, TypeOK,
       Contexts, Steps
  <1>2. CacheInv'
    BY <1>0 DEF FetchClean, At, Hit, Fetched, Goto, kernel, device, CacheInv,
       Filling, Holds, TypeOK, Contexts
  <1>3. IoInv'
    BY <1>0 DEF FetchClean, At, Hit, Fetched, Goto, kernel, device, IoInv,
       Contexts, TypeOK
  <1>4. DeviceInv'
    BY <1>0 DEF FetchClean, At, Hit, Fetched, Goto, kernel, device, DeviceInv,
       Contexts, TypeOK
  <1>5. FillInv'
    BY <1>0 DEF FetchClean, At, Hit, Fetched, Goto, kernel, device, FillInv,
       Filling, TypeOK, Contexts
  <1>6. ControlInv'
    BY <1>0 DEF FetchClean, At, Hit, Fetched, Goto, kernel, device, ControlInv,
       Transferring, Dirty, TypeOK, Contexts
  <1> QED
    BY <1>1, <1>2, <1>3, <1>4, <1>5, <1>6 DEF IInv

\* The line gets its new label when all its words have arrived.
LEMMA FillStep ==
  ASSUME IInv, Writeback, Fill
  PROVE  IInv'
  <1>0. /\ TypeOK /\ CacheInv /\ IoInv /\ DeviceInv /\ FillInv /\ ControlInv
        /\ Line(req.sector) \in Lines
    BY LineInLines DEF IInv, TypeOK
  <1>1. TypeOK'
    <2>1. cache' \in [Lines -> [used : BOOLEAN, dirty : BOOLEAN, sector : Sectors,
                                content : [Words -> Places]]]
      BY <1>0 DEF Fill, TypeOK
    <2> QED
      BY <1>0, <2>1 DEF Fill, At, Goto, device, TypeOK, Steps
  <1>2. CacheInv'
    <2>1. cache'[Line(req.sector)].content = cache[Line(req.sector)].content
          /\ cache'[Line(req.sector)].sector = req.sector /\ ~cache'[Line(req.sector)].dirty
          /\ \A l \in Lines \ {Line(req.sector)} : cache'[l] = cache[l]
      BY <1>0 DEF Fill, TypeOK
    <2>2. Holds(Line(req.sector), req.sector)'
      BY <1>0, <2>1 DEF Fill, At, FillInv, Filling, Holds
    <2>3. ~Filling' /\ req' = req
      BY <1>0 DEF Fill, Goto, Filling, TypeOK, Contexts
    <2> SUFFICES ASSUME NEW l \in Lines
                 PROVE  /\ cache'[l].dirty => cache'[l].used
                        /\ cache'[l].used => Line(cache'[l].sector) = l
                        /\ cache'[l].used => Holds(l, cache[l].sector)'
      BY DEF CacheInv
    <2>4. CASE l = Line(req.sector)
      BY <2>1, <2>2, <2>3, <2>4 DEF Holds
    <2>5. CASE l # Line(req.sector)
      BY <1>0, <2>1, <2>5 DEF CacheInv, Holds
    <2> QED
      BY <2>4, <2>5
  <1>3. IoInv'
    BY <1>0, SizesAssumption DEF Fill, At, Goto, device, IoInv, Fetched,
       Contexts, TypeOK, CacheInv, Filling, Holds, ControlInv, Transferring,
       Dirty, Runs
  <1>4. DeviceInv'
    BY <1>0 DEF Fill, At, Goto, device, DeviceInv, Contexts, TypeOK
  <1>5. FillInv'
    BY <1>0 DEF Fill, At, Goto, device, FillInv, Filling, TypeOK, Contexts
  <1>6. ControlInv'
    BY <1>0 DEF Fill, At, Goto, device, ControlInv, Transferring, Dirty, TypeOK,
       Contexts
  <1> QED
    BY <1>1, <1>2, <1>3, <1>4, <1>5, <1>6 DEF IInv

\* The client takes the word from the line.
LEMMA AccessReadStep ==
  ASSUME IInv, Writeback, AccessRead
  PROVE  IInv'
  <1>0. /\ TypeOK /\ CacheInv /\ IoInv /\ DeviceInv /\ FillInv /\ ControlInv
        /\ Line(req.sector) \in Lines
    BY LineInLines DEF IInv, TypeOK
  <1>1. TypeOK'
    BY <1>0 DEF AccessRead, At, Goto, kernel, device, TypeOK, Contexts, Steps
  <1>2. CacheInv'
    BY <1>0 DEF AccessRead, At, Goto, kernel, device, CacheInv, Filling, Holds,
       TypeOK, Contexts
  <1>3. IoInv'
    BY <1>0 DEF AccessRead, At, Goto, kernel, device, IoInv, Fetched, Contexts,
       TypeOK
  <1>4. DeviceInv'
    BY <1>0 DEF AccessRead, At, Goto, kernel, device, DeviceInv, Contexts, TypeOK
  <1>5. FillInv'
    BY <1>0 DEF AccessRead, At, Goto, kernel, device, FillInv, Filling, TypeOK,
       Contexts
  <1>6. ControlInv'
    BY <1>0 DEF AccessRead, At, Goto, kernel, device, ControlInv, Transferring,
       Dirty, TypeOK, Contexts
  <1> QED
    BY <1>1, <1>2, <1>3, <1>4, <1>5, <1>6 DEF IInv

\* The client's word is stored in the line of its own sector.
LEMMA AccessWriteStep ==
  ASSUME IInv, Writeback, AccessWrite
  PROVE  IInv'
  <1>0. /\ TypeOK /\ CacheInv /\ IoInv /\ DeviceInv /\ FillInv /\ ControlInv
        /\ Line(req.sector) \in Lines
    BY LineInLines DEF IInv, TypeOK
  <1>1. TypeOK'
    <2>1. cache' \in [Lines -> [used : BOOLEAN, dirty : BOOLEAN, sector : Sectors,
                                content : [Words -> Places]]]
      BY <1>0 DEF AccessWrite, TypeOK, Places
    <2> QED
      BY <1>0, <2>1 DEF AccessWrite, At, Goto, device, TypeOK, Steps
  <1>2. CacheInv'
    BY <1>0, SizesAssumption DEF AccessWrite, At, Goto, device, Places,
       CacheInv, Filling, Holds, TypeOK, Contexts, ControlInv, Transferring,
       Dirty, IoInv, Fetched, Runs
  <1>3. IoInv'
    BY <1>0 DEF AccessWrite, At, Goto, device, Places, IoInv, Fetched, Contexts,
       TypeOK
  <1>4. DeviceInv'
    BY <1>0 DEF AccessWrite, At, Goto, device, Places, DeviceInv, Contexts, TypeOK
  <1>5. FillInv'
    BY <1>0 DEF AccessWrite, At, Goto, device, Places, FillInv, Filling, TypeOK,
       Contexts
  <1>6. ControlInv'
    BY <1>0 DEF AccessWrite, At, Goto, device, Places, ControlInv, Transferring,
       Dirty, TypeOK, Contexts
  <1> QED
    BY <1>1, <1>2, <1>3, <1>4, <1>5, <1>6 DEF IInv

\* The line that was written is in use when it becomes dirty.
LEMMA MarkDirtyStep ==
  ASSUME IInv, Writeback, MarkDirty
  PROVE  IInv'
  <1>0. /\ TypeOK /\ CacheInv /\ IoInv /\ DeviceInv /\ FillInv /\ ControlInv
        /\ Line(req.sector) \in Lines
    BY LineInLines DEF IInv, TypeOK
  <1>1. TypeOK'
    <2>1. cache' \in [Lines -> [used : BOOLEAN, dirty : BOOLEAN, sector : Sectors,
                                content : [Words -> Places]]]
      BY <1>0 DEF MarkDirty, TypeOK
    <2> QED
      BY <1>0, <2>1 DEF MarkDirty, At, Goto, device, TypeOK, Steps
  <1>2. CacheInv'
    BY <1>0, SizesAssumption DEF MarkDirty, At, Goto, device, CacheInv, Filling,
       Holds, TypeOK, Contexts, ControlInv, Transferring, Dirty, IoInv, Fetched,
       Runs
  <1>3. IoInv'
    BY <1>0 DEF MarkDirty, At, Goto, device, IoInv, Fetched, Contexts, TypeOK
  <1>4. DeviceInv'
    BY <1>0 DEF MarkDirty, At, Goto, device, DeviceInv, Contexts, TypeOK
  <1>5. FillInv'
    BY <1>0 DEF MarkDirty, At, Goto, device, FillInv, Filling, TypeOK, Contexts
  <1>6. ControlInv'
    BY <1>0 DEF MarkDirty, At, Goto, device, ControlInv, Transferring, Dirty,
       TypeOK, Contexts
  <1> QED
    BY <1>1, <1>2, <1>3, <1>4, <1>5, <1>6 DEF IInv

\* disk_do_read starts its transfer from the request's sector.
LEMMA ClearIntrStep ==
  ASSUME IInv, Writeback, ClearIntr
  PROVE  IInv'
  <1>0. /\ TypeOK /\ CacheInv /\ IoInv /\ DeviceInv /\ FillInv /\ ControlInv
        /\ Line(req.sector) \in Lines
    BY LineInLines DEF IInv, TypeOK
  <1>1. TypeOK'
    <2>1. Transfer("read", Line(req.sector), req.sector) \in Transfers
      BY <1>0, NewTransfer DEF TypeOK
    <2> QED
      BY <1>0, <2>1 DEF ClearIntr, At, Goto, Transfers, device, TypeOK, Steps
  <1>2. CacheInv'
    BY <1>0 DEF ClearIntr, At, Transfer, Goto, device, CacheInv, Filling, Holds,
       TypeOK, Contexts
  <1>3. IoInv'
    BY <1>0 DEF ClearIntr, At, Transfer, Goto, device, IoInv, Fetched, Contexts,
       TypeOK
  <1>4. DeviceInv'
    BY <1>0 DEF ClearIntr, At, Transfer, Goto, device, DeviceInv, Contexts, TypeOK
  <1>5. FillInv'
    BY <1>0 DEF ClearIntr, At, Transfer, Goto, device, FillInv, Filling, TypeOK,
       Contexts
  <1>6. ControlInv'
    BY <1>0 DEF ClearIntr, At, Transfer, Goto, device, ControlInv, Transferring,
       Dirty, TypeOK, Contexts
  <1> QED
    BY <1>1, <1>2, <1>3, <1>4, <1>5, <1>6 DEF IInv

\* The read command puts the disk at the first word of the sector.
LEMMA IssueReadStep ==
  ASSUME IInv, Writeback, IssueRead
  PROVE  IInv'
  <1>0. /\ TypeOK /\ CacheInv /\ IoInv /\ DeviceInv /\ FillInv /\ ControlInv
        /\ Line(req.sector) \in Lines
    BY LineInLines DEF IInv, TypeOK
  <1>p. position' = io["main"].sector * W
    <2>1. io["main"].sector \in Sectors
      BY <1>0 DEF TypeOK, Contexts
    <2>2. lo + Radix * hi = io["main"].sector
      BY <1>0, <2>1, Registers DEF IssueRead, At, DeviceInv, Contexts
    <2> QED
      BY <2>2 DEF IssueRead
  <1>1. TypeOK'
    <2>0. io["main"].sector \in Nat /\ W \in Nat
      BY <1>0, SizesAssumption DEF TypeOK, Sectors, Contexts
    <2>1. position' \in Nat /\ byte_cnt' \in 0 .. W
      BY <1>p, <2>0, Product DEF IssueRead
    <2> QED
      BY <1>0, <2>1 DEF IssueRead, At, Goto, kernel, TypeOK, Steps
  <1>2. CacheInv'
    BY <1>0 DEF IssueRead, At, Goto, kernel, CacheInv, Filling, Holds, TypeOK,
       Contexts
  <1>3. IoInv'
    BY <1>0 DEF IssueRead, At, Goto, kernel, IoInv, Fetched, Contexts, TypeOK
  <1>4. DeviceInv'
    <2>1. io["main"].i = 0
      BY <1>0 DEF IssueRead, At, IoInv, Contexts
    <2>2. position' = io["main"].sector * W + 0
      BY <1>0, <1>p, SizesAssumption DEF TypeOK, Sectors, Contexts
    <2>3. pc["irq"] = "idle"
      BY <1>0 DEF IssueRead, At, Runs
    <2> QED
      BY <1>0, <2>1, <2>2, <2>3 DEF IssueRead, At, Goto, DeviceInv, TypeOK, Contexts
  <1>5. FillInv'
    BY <1>0 DEF IssueRead, At, Goto, kernel, FillInv, Filling, TypeOK, Contexts
  <1>6. ControlInv'
    BY <1>0 DEF IssueRead, At, Goto, kernel, ControlInv, Transferring, Dirty,
       TypeOK, Contexts
  <1> QED
    BY <1>1, <1>2, <1>3, <1>4, <1>5, <1>6 DEF IInv

\* The test in wait_ide_intr leaves the disk and the line alone.
LEMMA CheckIntrStep ==
  ASSUME IInv, Writeback, CheckIntr
  PROVE  IInv'
  <1>0. /\ TypeOK /\ CacheInv /\ IoInv /\ DeviceInv /\ FillInv /\ ControlInv
        /\ Line(req.sector) \in Lines
    BY LineInLines DEF IInv, TypeOK
  <1>1. TypeOK'
    BY <1>0 DEF CheckIntr, At, Goto, device, TypeOK, Contexts, Steps
  <1>2. CacheInv'
    BY <1>0 DEF CheckIntr, At, Goto, device, CacheInv, Filling, Holds, TypeOK,
       Contexts
  <1>3. IoInv'
    BY <1>0 DEF CheckIntr, At, Goto, device, IoInv, Fetched, Contexts, TypeOK
  <1>4. DeviceInv'
    BY <1>0 DEF CheckIntr, At, Goto, device, DeviceInv, Contexts, TypeOK
  <1>5. FillInv'
    <2>1. CASE has_ide_intr
      <3>1. io["main"].i = 0
        BY <1>0 DEF CheckIntr, At, IoInv, Contexts
      <3> QED
        BY <1>0, <2>1, <3>1, SizesAssumption DEF CheckIntr, At, Goto, Filling,
           FillInv, TypeOK, Contexts, Words
    <2>2. CASE ~has_ide_intr
      BY <1>0, <2>2 DEF CheckIntr, At, Goto, Filling, FillInv, TypeOK, Contexts
    <2> QED
      BY <2>1, <2>2
  <1>6. ControlInv'
    BY <1>0 DEF CheckIntr, At, Goto, device, ControlInv, Transferring, Dirty,
       TypeOK, Contexts
  <1> QED
    BY <1>1, <1>2, <1>3, <1>4, <1>5, <1>6 DEF IInv

\* So does its hlt.
LEMMA HltStep ==
  ASSUME IInv, Writeback, Hlt
  PROVE  IInv'
  <1>0. /\ TypeOK /\ CacheInv /\ IoInv /\ DeviceInv /\ FillInv /\ ControlInv
        /\ Line(req.sector) \in Lines
    BY LineInLines DEF IInv, TypeOK
  <1>1. TypeOK'
    BY <1>0 DEF Hlt, At, Goto, kernel, device, TypeOK, Contexts, Steps
  <1>2. CacheInv'
    BY <1>0 DEF Hlt, At, Goto, kernel, device, CacheInv, Filling, Holds, TypeOK,
       Contexts
  <1>3. IoInv'
    BY <1>0 DEF Hlt, At, Goto, kernel, device, IoInv, Fetched, Contexts, TypeOK
  <1>4. DeviceInv'
    BY <1>0 DEF Hlt, At, Goto, kernel, device, DeviceInv, Contexts, TypeOK
  <1>5. FillInv'
    BY <1>0 DEF Hlt, At, Goto, kernel, device, FillInv, Filling, TypeOK, Contexts
  <1>6. ControlInv'
    BY <1>0 DEF Hlt, At, Goto, kernel, device, ControlInv, Transferring, Dirty,
       TypeOK, Contexts
  <1> QED
    BY <1>1, <1>2, <1>3, <1>4, <1>5, <1>6 DEF IInv

\* One word read: driver and disk advance together, and the word goes where
\* it belongs.
LEMMA InLongStep ==
  ASSUME IInv, Writeback, InLong
  PROVE  IInv'
  <1>0. /\ TypeOK /\ CacheInv /\ IoInv /\ DeviceInv /\ FillInv /\ ControlInv
        /\ Line(req.sector) \in Lines
    BY LineInLines DEF IInv, TypeOK
  <1>a. /\ io["main"].i \in Words /\ io["main"].sector = req.sector
        /\ req.sector \in Sectors /\ io["main"].line = Line(req.sector)
    BY <1>0 DEF InLong, At, IoInv, TypeOK, Contexts
  <1>b. /\ byte_cnt = io["main"].i
        /\ position = req.sector * W + io["main"].i
    BY <1>0, <1>a DEF InLong, At, DeviceInv, Contexts
  <1>n. req.sector \in Nat /\ W \in Nat \ {0} /\ io["main"].i \in 0 .. W - 1 /\ req.sector * W \in Nat
    BY <1>a, Product, SizesAssumption DEF Sectors, Words
  <1>c. <<position \div W, position % W>> = <<req.sector, io["main"].i>>
    BY <1>b, <1>n, DivOf
  <1>d. PICK v \in WordAt(position) :
          cache' = [cache EXCEPT ![io["main"].line].content[io["main"].i] = v]
    BY DEF InLong
  <1>e. v \in Places /\ (<<req.sector, io["main"].i>> \in File => v = <<req.sector, io["main"].i>>)
    BY <1>a, <1>c, SizesAssumption DEF WordAt, Places
  <1>1. TypeOK'
    <2>1. cache' \in [Lines -> [used : BOOLEAN, dirty : BOOLEAN, sector : Sectors,
                                content : [Words -> Places]]]
      BY <1>0, <1>a, <1>d, <1>e DEF TypeOK
    <2>2. position' \in Nat /\ byte_cnt' \in 0 .. W
      BY <1>b, <1>n DEF InLong
    <2>3. io' \in [Contexts -> Transfers]
      <3>1. CASE io["main"].i + 1 < W
        <4>1. io["main"].i + 1 \in Words /\ io' = [io EXCEPT !["main"].i = @ + 1]
          BY <1>n, <3>1 DEF InLong, Words
        <4> QED
          BY <1>0, <4>1 DEF TypeOK, Transfers
      <3>2. CASE ~(io["main"].i + 1 < W)
        BY <1>0, <3>2 DEF InLong, TypeOK, Transfers
      <3> QED
        BY <3>1, <3>2
    <2> QED
      BY <1>0, <2>1, <2>2, <2>3 DEF InLong, At, Goto, TypeOK, Steps, Transfers
  <1>2. CacheInv'
    BY <1>0, SizesAssumption DEF InLong, At, Accepts, WordAt, Goto, Places,
       CacheInv, Filling, Holds, TypeOK, Contexts, ControlInv, Transferring,
       Dirty, IoInv, Fetched, Runs
  <1>3. IoInv'
    BY <1>0 DEF InLong, At, Accepts, WordAt, Goto, Places, IoInv, Fetched,
       Contexts, TypeOK
  <1>4. DeviceInv'
    <2>1. pc["irq"] = "idle"
      BY DEF InLong, At, Runs
    <2>2. CASE io["main"].i + 1 < W
      <3>1. /\ pc' = pc /\ io'["irq"] = io["irq"]
            /\ io'["main"].i = io["main"].i + 1
            /\ io'["main"].sector = io["main"].sector /\ io'["main"].dir = "read"
        BY <1>0, <2>2 DEF InLong, TypeOK, Contexts
      <3>2. byte_cnt' = io'["main"].i /\ position' = io'["main"].sector * W + io'["main"].i
        BY <1>a, <1>b, <3>1, SizesAssumption DEF InLong, Words, Sectors
      <3> QED
        BY <1>0, <2>1, <3>1, <3>2 DEF InLong, At, DeviceInv, Contexts
    <2>3. CASE ~(io["main"].i + 1 < W)
      BY <1>0, <2>1, <2>3 DEF InLong, At, Goto, DeviceInv, TypeOK, Contexts
    <2> QED
      BY <2>2, <2>3
  <1>5. FillInv'
    <2>1. /\ cache'[Line(req.sector)].content[io["main"].i] = v
          /\ \A w \in Words \ {io["main"].i} :
               cache'[Line(req.sector)].content[w] = cache[Line(req.sector)].content[w]
      BY <1>0, <1>a, <1>d DEF TypeOK
    <2>2. \A w \in Words : w <= io["main"].i /\ <<req.sector, w>> \in File =>
            cache'[Line(req.sector)].content[w] = <<req.sector, w>>
      <3>1. \A w \in Words : w < io["main"].i /\ <<req.sector, w>> \in File =>
              cache[Line(req.sector)].content[w] = <<req.sector, w>>
        BY <1>0 DEF InLong, At, Filling, FillInv
      <3> SUFFICES ASSUME NEW w \in Words, w <= io["main"].i, <<req.sector, w>> \in File
                   PROVE  cache'[Line(req.sector)].content[w] = <<req.sector, w>>
        OBVIOUS
      <3>2. CASE w = io["main"].i
        BY <1>e, <2>1, <3>2
      <3>3. CASE w < io["main"].i
        BY <1>n, <2>1, <3>1, <3>3 DEF Words
      <3>4. w = io["main"].i \/ w < io["main"].i
        BY <1>n DEF Words
      <3> QED
        BY <3>2, <3>3, <3>4
    <2>3. req' = req
      BY DEF InLong
    <2>4. CASE io["main"].i + 1 < W
      <3>1. pc'["main"] = "data" /\ io'["main"].i = io["main"].i + 1
        BY <1>0, <2>4 DEF InLong, At, TypeOK, Contexts
      <3> QED
        BY <1>n, <2>2, <2>3, <3>1 DEF FillInv, Words
    <2>5. CASE ~(io["main"].i + 1 < W)
      BY <1>n, <2>2, <2>3, <2>5 DEF FillInv, Words
    <2> QED
      BY <2>4, <2>5
  <1>6. ControlInv'
    BY <1>0 DEF InLong, At, Accepts, WordAt, Goto, Places, ControlInv,
       Transferring, Dirty, TypeOK, Contexts
  <1> QED
    BY <1>1, <1>2, <1>3, <1>4, <1>5, <1>6 DEF IInv

\* A tick between two writebacks only counts, and wakes a halted CPU.
LEMMA TickStep ==
  ASSUME IInv, Writeback, Tick
  PROVE  IInv'
  <1>0. /\ TypeOK /\ CacheInv /\ IoInv /\ DeviceInv /\ FillInv /\ ControlInv
        /\ Line(req.sector) \in Lines
    BY LineInLines DEF IInv, TypeOK
  <1>1. TypeOK'
    BY <1>0, SizesAssumption DEF Tick, At, Wake, device, TypeOK, Contexts,
       Steps, DeviceInv, IoInv, Fetched, Runs
  <1>2. CacheInv'
    BY <1>0 DEF Tick, At, Wake, device, CacheInv, Filling, Holds, TypeOK, Contexts
  <1>3. IoInv'
    BY <1>0 DEF Tick, At, Wake, device, IoInv, Fetched, Contexts, TypeOK
  <1>4. DeviceInv'
    BY <1>0 DEF Tick, At, Wake, device, DeviceInv, Contexts, TypeOK
  <1>5. FillInv'
    BY <1>0 DEF Tick, At, Wake, device, FillInv, Filling, TypeOK, Contexts
  <1>6. ControlInv'
    BY <1>0 DEF Tick, At, Wake, device, ControlInv, Transferring, Dirty, TypeOK,
       Contexts
  <1> QED
    BY <1>1, <1>2, <1>3, <1>4, <1>5, <1>6 DEF IInv

\* ide_writeback starts when nothing is dirty or no transfer is under way.
LEMMA StartWritebackStep ==
  ASSUME IInv, Writeback, StartWriteback
  PROVE  IInv'
  <1>0. /\ TypeOK /\ CacheInv /\ IoInv /\ DeviceInv /\ FillInv /\ ControlInv
        /\ Line(req.sector) \in Lines
    BY LineInLines DEF IInv, TypeOK
  <1>1. TypeOK'
    <2>1. Transfer("write", 0, 0) \in Transfers
      BY SizesAssumption, NewTransfer DEF Lines, Sectors
    <2>2. counter' \in 0 .. HZ /\ pc' \in [Contexts -> Steps]
      BY <1>0, SizesAssumption DEF StartWriteback, Wake, TypeOK, Steps, Contexts
    <2> QED
      BY <1>0, <2>1, <2>2 DEF StartWriteback, Transfers, device, TypeOK
  <1>2. CacheInv'
    BY <1>0 DEF StartWriteback, At, Dirty, Transferring, Transfer, Wake, device,
       CacheInv, Filling, Holds, TypeOK, Contexts
  <1>3. IoInv'
    BY <1>0 DEF StartWriteback, At, Dirty, Transferring, Transfer, Wake, device,
       IoInv, Fetched, Contexts, TypeOK
  <1>4. DeviceInv'
    BY <1>0 DEF StartWriteback, At, Dirty, Transferring, Transfer, Wake, device,
       DeviceInv, Contexts, TypeOK
  <1>5. FillInv'
    BY <1>0 DEF StartWriteback, At, Dirty, Transferring, Transfer, Wake, device,
       FillInv, Filling, TypeOK, Contexts
  <1>6. ControlInv'
    <2>1. Transferring => Dirty = {}
      BY <1>0 DEF StartWriteback, ControlInv, Writeback
    <2>2. Transferring' = Transferring /\ Dirty' = Dirty
      BY <1>0 DEF StartWriteback, Wake, Transferring, Dirty, TypeOK, Contexts
    <2>3. pc'["irq"] = "scan" /\ pc'["main"] \notin {"scan", "clean"}
      BY <1>0 DEF StartWriteback, Wake, ControlInv, TypeOK, Contexts
    <2> QED
      BY <1>0, <2>1, <2>2, <2>3 DEF StartWriteback, Wake, ControlInv, TypeOK,
         Contexts
  <1> QED
    BY <1>1, <1>2, <1>3, <1>4, <1>5, <1>6 DEF IInv

\* cache_writeback takes a dirty line, skips a clean one, or ends.
LEMMA ScanStep ==
  ASSUME IInv, Writeback, Scan
  PROVE  IInv'
  <1>0. /\ TypeOK /\ CacheInv /\ IoInv /\ DeviceInv /\ FillInv /\ ControlInv
        /\ Line(req.sector) \in Lines
    BY LineInLines DEF IInv, TypeOK
  <1>1. TypeOK'
    <2>1. CASE io["irq"].line \in Dirty
      <3>1. Transfer("write", io["irq"].line, cache[io["irq"].line].sector) \in Transfers
        BY <1>0, <2>1, NewTransfer DEF TypeOK, Dirty
      <3> QED
        BY <1>0, <2>1, <3>1, SizesAssumption DEF Scan, At, Goto, Transfers,
           device, TypeOK, Steps, Dirty, Lines, Contexts
    <2>2. CASE io["irq"].line \in Lines \ Dirty
      <3>1. io["irq"].line + 1 \in 0 .. NR_SEC_CACHE
        BY <2>2, SizesAssumption DEF Lines
      <3>2. io' = [io EXCEPT !["irq"].line = io["irq"].line + 1] /\ UNCHANGED <<pc, counter>>
        BY <2>2, SizesAssumption DEF Scan, Dirty, Lines
      <3>3. io' \in [Contexts -> Transfers]
        BY <1>0, <3>1, <3>2 DEF TypeOK, Transfers
      <3> QED
        BY <1>0, <3>2, <3>3 DEF Scan, device, TypeOK, Transfers
    <2>3. CASE io["irq"].line = NR_SEC_CACHE
      BY <1>0, <2>3, SizesAssumption DEF Scan, At, Goto, device, TypeOK, Steps,
         Dirty, Lines, Contexts
    <2> QED
      BY <2>1, <2>2, <2>3 DEF Scan
  <1>2. CacheInv'
    BY <1>0 DEF Scan, At, Dirty, Transfer, Goto, device, CacheInv, Filling,
       Holds, TypeOK, Contexts
  <1>3. IoInv'
    BY <1>0, SizesAssumption DEF Scan, At, Dirty, Transfer, Goto, device, IoInv,
       Fetched, Contexts, TypeOK, CacheInv, Filling, Holds, ControlInv,
       Transferring, Runs
  <1>4. DeviceInv'
    BY <1>0 DEF Scan, At, Dirty, Transfer, Goto, device, DeviceInv, Contexts, TypeOK
  <1>5. FillInv'
    BY <1>0 DEF Scan, At, Dirty, Transfer, Goto, device, FillInv, Filling,
       TypeOK, Contexts
  <1>6. ControlInv'
    BY <1>0 DEF Scan, At, Dirty, Transfer, Goto, device, ControlInv,
       Transferring, TypeOK, Contexts
  <1> QED
    BY <1>1, <1>2, <1>3, <1>4, <1>5, <1>6 DEF IInv

\* A line becomes clean after its transfer.
LEMMA CleanStep ==
  ASSUME IInv, Writeback, Clean
  PROVE  IInv'
  <1>0. /\ TypeOK /\ CacheInv /\ IoInv /\ DeviceInv /\ FillInv /\ ControlInv
        /\ Line(req.sector) \in Lines
    BY LineInLines DEF IInv, TypeOK
  <1>1. TypeOK'
    <2>1. io["irq"].line + 1 \in 0 .. NR_SEC_CACHE
      BY <1>0, SizesAssumption DEF Clean, At, IoInv, Lines
    <2>2. cache' \in [Lines -> [used : BOOLEAN, dirty : BOOLEAN, sector : Sectors,
                                content : [Words -> Places]]]
      BY <1>0 DEF Clean, TypeOK
    <2> QED
      BY <1>0, <2>1, <2>2 DEF Clean, At, Goto, device, TypeOK, Steps, Contexts
  <1>2. CacheInv'
    BY <1>0 DEF Clean, At, Goto, device, CacheInv, Filling, Holds, TypeOK, Contexts
  <1>3. IoInv'
    BY <1>0 DEF Clean, At, Goto, device, IoInv, Fetched, Contexts, TypeOK
  <1>4. DeviceInv'
    BY <1>0 DEF Clean, At, Goto, device, DeviceInv, Contexts, TypeOK
  <1>5. FillInv'
    BY <1>0 DEF Clean, At, Goto, device, FillInv, Filling, TypeOK, Contexts
  <1>6. ControlInv'
    BY <1>0 DEF Clean, At, Goto, device, ControlInv, Transferring, Dirty,
       TypeOK, Contexts
  <1> QED
    BY <1>1, <1>2, <1>3, <1>4, <1>5, <1>6 DEF IInv

\* ide_intr sets the flag and wakes a halted CPU.
LEMMA DiskIntrStep ==
  ASSUME IInv, Writeback, DiskIntr
  PROVE  IInv'
  <1>0. /\ TypeOK /\ CacheInv /\ IoInv /\ DeviceInv /\ FillInv /\ ControlInv
        /\ Line(req.sector) \in Lines
    BY LineInLines DEF IInv, TypeOK
  <1>1. TypeOK'
    BY <1>0 DEF DiskIntr, At, Wake, device, TypeOK, Contexts, Steps
  <1>2. CacheInv'
    BY <1>0 DEF DiskIntr, At, Wake, device, CacheInv, Filling, Holds, TypeOK,
       Contexts
  <1>3. IoInv'
    BY <1>0 DEF DiskIntr, At, Wake, device, IoInv, Fetched, Contexts, TypeOK
  <1>4. DeviceInv'
    BY <1>0 DEF DiskIntr, At, Wake, device, DeviceInv, Contexts, TypeOK
  <1>5. FillInv'
    BY <1>0 DEF DiskIntr, At, Wake, device, FillInv, Filling, TypeOK, Contexts
  <1>6. ControlInv'
    BY <1>0 DEF DiskIntr, At, Wake, device, ControlInv, Transferring, Dirty,
       TypeOK, Contexts
  <1> QED
    BY <1>1, <1>2, <1>3, <1>4, <1>5, <1>6 DEF IInv

\* waitdisk leaves everything alone.
LEMMA WaitDiskStep ==
  ASSUME IInv, Writeback, NEW c \in Contexts, WaitDisk(c)
  PROVE  IInv'
  <1>0. /\ TypeOK /\ CacheInv /\ IoInv /\ DeviceInv /\ FillInv /\ ControlInv
        /\ Line(req.sector) \in Lines
    BY LineInLines DEF IInv, TypeOK
  <1>1. TypeOK'
    BY <1>0 DEF WaitDisk, At, Goto, kernel, device, TypeOK, Contexts, Steps
  <1>2. CacheInv'
    BY <1>0 DEF WaitDisk, At, Goto, kernel, device, CacheInv, Filling, Holds,
       TypeOK, Contexts
  <1>3. IoInv'
    BY <1>0 DEF WaitDisk, At, Goto, kernel, device, IoInv, Fetched, Contexts, TypeOK
  <1>4. DeviceInv'
    BY <1>0 DEF WaitDisk, At, Goto, kernel, device, DeviceInv, Contexts, TypeOK
  <1>5. FillInv'
    BY <1>0 DEF WaitDisk, At, Goto, kernel, device, FillInv, Filling, TypeOK,
       Contexts
  <1>6. ControlInv'
    BY <1>0 DEF WaitDisk, At, Goto, kernel, device, ControlInv, Transferring,
       Dirty, TypeOK, Contexts
  <1> QED
    BY <1>1, <1>2, <1>3, <1>4, <1>5, <1>6 DEF IInv

\* The low part of the sector number reaches its register.
LEMMA OutLoStep ==
  ASSUME IInv, Writeback, NEW c \in Contexts, OutLo(c)
  PROVE  IInv'
  <1>0. /\ TypeOK /\ CacheInv /\ IoInv /\ DeviceInv /\ FillInv /\ ControlInv
        /\ Line(req.sector) \in Lines
    BY LineInLines DEF IInv, TypeOK
  <1>1. TypeOK'
    <2>1. lo' \in 0 .. Radix - 1
      BY <1>0, Registers DEF OutLo, TypeOK
    <2> QED
      BY <1>0, <2>1 DEF OutLo, At, Goto, kernel, TypeOK, Steps
  <1>2. CacheInv'
    BY <1>0 DEF OutLo, At, Goto, kernel, CacheInv, Filling, Holds, TypeOK, Contexts
  <1>3. IoInv'
    BY <1>0 DEF OutLo, At, Goto, kernel, IoInv, Fetched, Contexts, TypeOK
  <1>4. DeviceInv'
    BY <1>0, SizesAssumption DEF OutLo, At, Goto, kernel, DeviceInv, Contexts,
       TypeOK, IoInv, Fetched, ControlInv, Transferring, Dirty, Runs
  <1>5. FillInv'
    BY <1>0 DEF OutLo, At, Goto, kernel, FillInv, Filling, TypeOK, Contexts
  <1>6. ControlInv'
    BY <1>0, SizesAssumption DEF OutLo, At, Goto, kernel, ControlInv,
       Transferring, Dirty, TypeOK, Contexts, CacheInv, Filling, Holds, Runs
  <1> QED
    BY <1>1, <1>2, <1>3, <1>4, <1>5, <1>6 DEF IInv

\* The high part of the sector number reaches its register.
LEMMA OutHiStep ==
  ASSUME IInv, Writeback, NEW c \in Contexts, OutHi(c)
  PROVE  IInv'
  <1>0. /\ TypeOK /\ CacheInv /\ IoInv /\ DeviceInv /\ FillInv /\ ControlInv
        /\ Line(req.sector) \in Lines
    BY LineInLines DEF IInv, TypeOK
  <1>1. TypeOK'
    <2>1. hi' \in 0 .. Radix - 1
      BY <1>0, Registers DEF OutHi, TypeOK
    <2> QED
      BY <1>0, <2>1 DEF OutHi, At, Goto, kernel, TypeOK, Steps
  <1>2. CacheInv'
    BY <1>0 DEF OutHi, At, Goto, kernel, CacheInv, Filling, Holds, TypeOK, Contexts
  <1>3. IoInv'
    BY <1>0 DEF OutHi, At, Goto, kernel, IoInv, Fetched, Contexts, TypeOK
  <1>4. DeviceInv'
    BY <1>0, SizesAssumption DEF OutHi, At, Goto, kernel, DeviceInv, Contexts,
       TypeOK, IoInv, Fetched, ControlInv, Transferring, Dirty, Runs
  <1>5. FillInv'
    BY <1>0 DEF OutHi, At, Goto, kernel, FillInv, Filling, TypeOK, Contexts
  <1>6. ControlInv'
    BY <1>0 DEF OutHi, At, Goto, kernel, ControlInv, Transferring, Dirty,
       TypeOK, Contexts
  <1> QED
    BY <1>1, <1>2, <1>3, <1>4, <1>5, <1>6 DEF IInv

\* The write command puts the disk at the sector, in write mode.
LEMMA IssueWriteStep ==
  ASSUME IInv, Writeback, NEW c \in Contexts, IssueWrite(c)
  PROVE  IInv'
  <1>0. /\ TypeOK /\ CacheInv /\ IoInv /\ DeviceInv /\ FillInv /\ ControlInv
        /\ Line(req.sector) \in Lines
    BY LineInLines DEF IInv, TypeOK
  <1>p. position' = io[c].sector * W
    <2>1. io[c].sector \in Sectors
      BY <1>0 DEF TypeOK
    <2>2. lo + Radix * hi = io[c].sector
      BY <1>0, <2>1, Registers DEF IssueWrite, At, DeviceInv
    <2> QED
      BY <2>2 DEF IssueWrite
  <1>1. TypeOK'
    <2>0. io[c].sector \in Nat /\ W \in Nat
      BY <1>0, SizesAssumption DEF TypeOK, Sectors, Contexts
    <2>1. position' \in Nat /\ byte_cnt' \in 0 .. W
      BY <1>p, <2>0, Product DEF IssueWrite
    <2> QED
      BY <1>0, <2>1 DEF IssueWrite, At, Goto, kernel, TypeOK, Steps
  <1>2. CacheInv'
    BY <1>0 DEF IssueWrite, At, Goto, kernel, CacheInv, Filling, Holds, TypeOK,
       Contexts
  <1>3. IoInv'
    BY <1>0 DEF IssueWrite, At, Goto, kernel, IoInv, Fetched, Contexts, TypeOK
  <1>4. DeviceInv'
    <2>1. io[c].i = 0
      BY <1>0 DEF IssueWrite, At, IoInv
    <2>2. position' = io[c].sector * W + 0
      BY <1>0, <1>p, SizesAssumption DEF TypeOK, Sectors
    <2>3. \A d \in Contexts \ {c} : pc[d] \notin {"hi", "cmd", "check", "hlt", "halted", "data"}
      BY <1>0 DEF IssueWrite, At, Runs, Contexts, ControlInv, Transferring
    <2> QED
      BY <1>0, <2>1, <2>2, <2>3 DEF IssueWrite, At, Goto, DeviceInv, TypeOK
  <1>5. FillInv'
    BY <1>0 DEF IssueWrite, At, Goto, kernel, FillInv, Filling, TypeOK, Contexts
  <1>6. ControlInv'
    BY <1>0 DEF IssueWrite, At, Goto, kernel, ControlInv, Transferring, Dirty,
       TypeOK, Contexts
  <1> QED
    BY <1>1, <1>2, <1>3, <1>4, <1>5, <1>6 DEF IInv

\* One word written: the disk's count follows the driver's.
LEMMA OutLongStep ==
  ASSUME IInv, Writeback, NEW c \in Contexts, OutLong(c)
  PROVE  IInv'
  <1>0. /\ TypeOK /\ CacheInv /\ IoInv /\ DeviceInv /\ FillInv /\ ControlInv
        /\ Line(req.sector) \in Lines
    BY LineInLines DEF IInv, TypeOK
  <1>1. TypeOK'
    <2>1. io[c].i \in Words /\ byte_cnt = io[c].i
      BY <1>0 DEF OutLong, At, DeviceInv, TypeOK
    <2>2. byte_cnt' \in 0 .. W
      BY <2>1, SizesAssumption DEF OutLong, Words
    <2>3. io' \in [Contexts -> Transfers]
      <3>1. CASE io[c].i + 1 < W
        <4>1. io[c].i + 1 \in Words /\ io' = [io EXCEPT ![c].i = @ + 1]
          BY <2>1, <3>1, SizesAssumption DEF OutLong, Words
        <4> QED
          BY <1>0, <4>1 DEF TypeOK, Transfers
      <3>2. CASE ~(io[c].i + 1 < W)
        BY <1>0, <3>2 DEF OutLong, TypeOK, Transfers
      <3> QED
        BY <3>1, <3>2
    <2> QED
      BY <1>0, <2>2, <2>3 DEF OutLong, At, Goto, kernel, TypeOK, Steps, Transfers
  <1>2. CacheInv'
    BY <1>0 DEF OutLong, At, Accepts, Goto, kernel, CacheInv, Filling, Holds,
       TypeOK, Contexts
  <1>3. IoInv'
    BY <1>0 DEF OutLong, At, Accepts, Goto, kernel, IoInv, Fetched, Contexts, TypeOK
  <1>4. DeviceInv'
    BY <1>0, SizesAssumption DEF OutLong, At, Accepts, Goto, kernel, DeviceInv,
       Contexts, TypeOK, IoInv, Fetched, ControlInv, Transferring, Dirty, Runs
  <1>5. FillInv'
    BY <1>0 DEF OutLong, At, Accepts, Goto, kernel, FillInv, Filling, TypeOK,
       Contexts
  <1>6. ControlInv'
    BY <1>0 DEF OutLong, At, Accepts, Goto, kernel, ControlInv, Transferring,
       Dirty, TypeOK, Contexts
  <1> QED
    BY <1>1, <1>2, <1>3, <1>4, <1>5, <1>6 DEF IInv

-------------------------------------------------------------------------------
(* The invariant and what follows from it *)

\* Initially no line is in use and no transfer is under way.
LEMMA InitInv == Init => IInv
  <1> SUFFICES ASSUME Init PROVE IInv
    OBVIOUS
  <1>0. 0 \in Sectors /\ 0 \in Words /\ 0 \in 0 .. NR_SEC_CACHE /\ 0 \in 0 .. Radix - 1
        /\ 0 \in 0 .. HZ /\ 0 \in 0 .. W
    BY SizesAssumption DEF Sectors, Words
  <1>1. TypeOK
    BY <1>0 DEF Init, TypeOK, Transfer, Contexts, Steps, Places
  <1>2. CacheInv /\ IoInv
    BY <1>0 DEF Init, CacheInv, IoInv, Contexts, Transfer
  <1>3. DeviceInv /\ FillInv
    BY DEF Init, DeviceInv, FillInv, Filling, Contexts
  <1>4. ControlInv
    BY DEF Init, ControlInv, Transferring, Dirty, Contexts
  <1> QED
    BY <1>1, <1>2, <1>3, <1>4 DEF IInv

\* A step that changes nothing preserves the invariant.
LEMMA StutterInv ==
  ASSUME IInv, UNCHANGED vars
  PROVE  IInv'
  BY DEF IInv, vars, TypeOK, CacheInv, IoInv, DeviceInv, FillInv, ControlInv,
     Fetched, Holds, Filling, Transferring, Dirty

\* The driver's steps, in either context.
LEMMA DriverInv ==
  ASSUME IInv, Writeback, NEW c \in Contexts, DriverStep(c)
  PROVE  IInv'
  BY WaitDiskStep, OutLoStep, OutHiStep, IssueWriteStep, OutLongStep DEF DriverStep

\* The main program's steps.
LEMMA MainInv ==
  ASSUME IInv, Writeback, MainStep
  PROVE  IInv'
  <1>1. CASE CacheStep
    BY <1>1, FetchHitStep, FetchEvictStep, FetchCleanStep, FillStep, AccessReadStep,
       AccessWriteStep, MarkDirtyStep DEF CacheStep
  <1>2. CASE DriverStep("main")
    BY <1>2, DriverInv DEF Contexts
  <1> QED
    BY <1>1, <1>2, ClearIntrStep, IssueReadStep, CheckIntrStep, HltStep, InLongStep
       DEF MainStep

\* Every step.
LEMMA NextInv ==
  ASSUME IInv, Writeback, [Next]_vars
  PROVE  IInv'
  <1>1. CASE \E op \in Ops, s \in Sectors, w \in Words : Request(op, s, w)
    BY <1>1, RequestStep
  <1>2. CASE MainStep
    BY <1>2, MainInv
  <1>3. CASE IrqStep
    BY <1>3, ScanStep, CleanStep, DriverInv DEF IrqStep, Contexts
  <1>4. CASE Tick \/ StartWriteback \/ DiskIntr
    BY <1>4, TickStep, StartWritebackStep, DiskIntrStep
  <1>5. CASE UNCHANGED vars
    BY <1>5, StutterInv
  <1> QED
    BY <1>1, <1>2, <1>3, <1>4, <1>5 DEF Next

\* The inductive invariant of the cache, the driver and the disk.
THEOREM Invariance ==
  ASSUME Writeback
  PROVE  Spec => []IInv
  <1>1. IInv /\ [Next]_vars => IInv'
    BY NextInv
  <1> QED
    BY <1>1, InitInv, PTL DEF Spec

\* Registers, counters and lines keep their types.
THEOREM TypeCorrect ==
  ASSUME Writeback
  PROVE  Spec => []TypeOK
  <1>1. IInv => TypeOK
    BY DEF IInv
  <1> QED
    BY <1>1, Invariance, PTL

\* None of handler_ide's assertions about a data access can fail.
THEOREM AssertionsHold ==
  ASSUME Writeback
  PROVE  Spec => []DiskAssertionsHold
  <1>1. IInv => DiskAssertionsHold
    <2> SUFFICES ASSUME IInv, NEW c \in Contexts, At(c, "data")
                 PROVE  Accepts(c)
      BY DEF DiskAssertionsHold
    <2>1. /\ ide_write = (io[c].dir = "write")
          /\ byte_cnt = io[c].i
      BY DEF IInv, DeviceInv, At
    <2>2. io[c].i \in Words
      BY DEF IInv, TypeOK
    <2>3. byte_cnt <= W
      BY <2>1, <2>2, SizesAssumption DEF Words
    <2> QED
      BY <2>1, <2>3 DEF Accepts
  <1> QED
    BY <1>1, Invariance, PTL

\* While a word is read, the disk stands where the driver believes.
THEOREM DiskInStep ==
  ASSUME Writeback
  PROVE  Spec => []InStep
  <1>1. IInv => InStep
    BY DEF IInv, DeviceInv, InStep, Contexts
  <1> QED
    BY <1>1, Invariance, PTL

\* The client reads the word it asked for.
THEOREM ReadsCorrect ==
  ASSUME Writeback
  PROVE  Spec => []RightWordRead
  <1>1. IInv => RightWordRead
    <2> SUFFICES ASSUME IInv, pc["main"] = "access", <<req.sector, req.word>> \in File
                 PROVE  cache[Line(req.sector)].content[req.word] = <<req.sector, req.word>>
      BY DEF RightWordRead
    <2>1. /\ Line(req.sector) \in Lines /\ req.word \in Words
      BY LineInLines DEF IInv, TypeOK
    <2>2. Fetched.used /\ Fetched.sector = req.sector
      BY DEF IInv, IoInv
    <2>3. Holds(Line(req.sector), req.sector)
      BY <2>1, <2>2 DEF IInv, CacheInv, Filling, Fetched
    <2> QED
      BY <2>1, <2>3 DEF Holds
  <1> QED
    BY <1>1, Invariance, PTL

\* A word that is written goes to its own place on the disk.
THEOREM WritesCorrect ==
  ASSUME Writeback
  PROVE  Spec => []RightWordSent
  <1>1. IInv => RightWordSent
    <2> SUFFICES ASSUME IInv, NEW c \in Contexts, pc[c] = "data", io[c].dir = "write",
                        <<position \div W, byte_cnt>> \in File
                 PROVE  cache[io[c].line].content[io[c].i] = <<position \div W, byte_cnt>>
      BY DEF RightWordSent
    <2>1. /\ io[c].sector \in Sectors /\ io[c].i \in Words
          /\ position = io[c].sector * W + 0 /\ byte_cnt = io[c].i
      <3>1. io[c].sector \in Sectors /\ io[c].i \in Words
        BY DEF IInv, TypeOK
      <3>2. position = io[c].sector * W + 0 /\ byte_cnt = io[c].i
        BY DEF IInv, DeviceInv
      <3> QED
        BY <3>1, <3>2
    <2>2. position \div W = io[c].sector
      <3>1. io[c].sector \in Nat /\ W \in Nat \ {0} /\ 0 \in 0 .. W - 1
        BY <2>1, SizesAssumption DEF Sectors
      <3> QED
        BY <2>1, <3>1, DivOf
    <2>3. /\ io[c].line \in Lines
          /\ cache[io[c].line].used /\ cache[io[c].line].sector = io[c].sector
      BY DEF IInv, IoInv
    <2>4. Holds(io[c].line, io[c].sector)
      <3>1. CASE c = "main"
        BY <2>3, <3>1 DEF IInv, CacheInv, Filling
      <3>2. CASE c = "irq"
        <4>1. ~Transferring
          BY <3>2 DEF IInv, ControlInv
        <4>2. ~Filling
          BY <4>1 DEF Filling, Transferring
        <4> QED
          BY <2>3, <4>2 DEF IInv, CacheInv
      <3> QED
        BY <3>1, <3>2 DEF Contexts
    <2> QED
      BY <2>1, <2>2, <2>4 DEF Holds
  <1> QED
    BY <1>1, Invariance, PTL

=============================================================================
