------------------------------ MODULE AudioProofs ------------------------------
(***************************************************************************)
(* Proofs about Audio, for any number of blocks of any length: every       *)
(* thread holds the mutex of the chunk it works on, although the callback  *)
(* exchanges the chunks and both look their index up at every use.         *)
(*                                                                         *)
(* Why: a request for a block is in one place at a time (the switch, the   *)
(* monitor, the controller, the guest's flag, the guest), and as long as   *)
(* it is under way the chunk to fill is not ready, so the callback does    *)
(* not exchange the chunks.  The interrupt that may be lost (audio.c:151)  *)
(* only ends the request.                                                  *)
(***************************************************************************)
EXTENDS Audio, TLAPS

Positions == {"start", "hlt", "halted", "test", "write", "lock", "create", "join", "len",
              "unlock", "clear"}
Steps == {"idle", "lock", "test", "lockfill", "peek", "swap", "unlockold", "signal", "mix",
          "unlock"}
Holders == {Free, "emu", "cb"}

\* The variables the ownership depends on have their types, and the chunks
\* are two different ones once the device has started.
ChunksInv ==
  /\ pc \in Positions /\ cb \in Steps /\ switch_buf \in BOOLEAN /\ audio_reload \in BOOLEAN
  /\ play \in Chunks /\ fill \in Chunks
  /\ mutex \in [Chunks -> Holders] /\ ready \in [Chunks -> BOOLEAN]
  /\ started <=> pc # "start"
  /\ started => play = Other(fill)
  /\ ~started => cb = "idle" /\ play = 0 /\ ready = [c \in Chunks |-> FALSE]

\* Where a request for a block is
Switching == switch_buf /\ monitor = "loop"
Raising == monitor = "raise"
Latched == slot = "audio"
Flagged == audio_reload /\ pc \in {"start", "hlt", "halted", "test"}
Writing == pc \in {"write", "lock", "create", "join"}
Requested == Switching \/ Raising \/ Latched \/ Flagged \/ Writing

RequestInv ==
  /\ Switching => ~Raising /\ ~Latched /\ ~Flagged /\ ~Writing
  /\ Raising => ~Latched /\ ~Flagged /\ ~Writing
  /\ Latched => ~Flagged /\ ~Writing
  /\ Requested => started /\ ~ready[fill] /\ cb \notin {"swap", "unlockold", "signal"}
  /\ query = "audio" => slot = "audio" /\ phase = "ack"
  /\ pc = "lock" => i = fill

\* The chunk the callback leaves is empty, the one it goes to is ready.
SwapInv ==
  /\ cb \in {"lockfill", "peek", "swap"} => ~ready[play]
  /\ cb = "swap" => ready[fill]
  /\ cb \in {"unlockold", "signal"} => ~ready[fill]

CbHolds(c) ==
  \/ c = play /\ cb \in {"test", "lockfill", "peek", "swap", "unlockold", "signal", "mix", "unlock"}
  \/ c = fill /\ cb \in {"peek", "swap", "unlockold"}

MutexInv ==
  \A c \in Chunks :
    /\ mutex[c] = "emu" <=> InHandler /\ c = fill
    /\ mutex[c] = "cb" <=> CbHolds(c)

IInv == ChunksInv /\ RequestInv /\ SwapInv /\ MutexInv

\* Of the data: the numbers are numbers,
DataInv ==
  /\ len \in [Chunks -> 0 .. Units] /\ chunk \in [Chunks -> [Places -> Nat]]
  /\ written \in Nat /\ heard \in Nat /\ block \in Nat
  /\ i \in 0 .. NUM_AUDIO_WORKER /\ idx \in [Workers -> 0 .. 2]
  /\ worker \in [Workers -> {"none", "created", "copy", "done"}]

\* c holds block b: no place is newer, and one is of it.
Holds(c, b) == (\E p \in Places : chunk[c][p] = b) /\ \A p \in Places : chunk[c][p] <= b

\* what is not heard yet is in the chunks, the older block in the one played,
SoundInv ==
  /\ \A c \in Chunks : ~ready[c] => len[c] = 0
  /\ len[fill] \in {0, Units} /\ (pc = "len" => len[fill] = 0 /\ ready[fill])
  /\ heard + len[0] + len[1] = written * Units
  /\ len[fill] > 0 => Holds(fill, written)
  /\ len[play] > 0 => Holds(play, IF len[fill] > 0 THEN written - 1 ELSE written)

\* and the block being copied is in the other one, when the first worker is done.
Copied ==
  \/ pc \in {"create", "join"} /\ worker[0] = "done"
  \/ pc = "join" /\ i > 0
  \/ pc = "len"

CopyInv ==
  /\ pc \in {"write", "lock", "create", "join", "len"} => block \in {0, written + 1}
  /\ \A w \in Workers :
       /\ worker[w] # "none" => pc \in {"create", "join"}
       /\ pc = "create" => (worker[w] # "none" <=> w < i)
       /\ pc = "join" => (worker[w] = "none" <=> w < i)
  /\ \A c \in Chunks : \A p \in Places :
       \/ chunk[c][p] <= written
       \/ c = fill /\ chunk[c][p] = block /\ pc \in {"create", "join", "len"}
  /\ Copied /\ block # 0 => \E p \in Places : chunk[fill][p] = block

StreamInv == DataInv /\ SoundInv /\ CopyInv

\* At first nothing is asked for, held or ready.
LEMMA InitOwned == Init => IInv
  BY DEF Init, IInv, ChunksInv, RequestInv, SwapInv, MutexInv, CbHolds, InHandler, Requested,
         Switching, Raising, Latched, Flagged, Writing, Positions, Steps, Holders, Chunks, Free

\* The guest's instructions and the port handler: a request becomes a write, and the
\* chunk to fill stays the same until it is ready.
LEMMA GuestOwned == ASSUME IInv, Guest PROVE IInv'
  <1> USE DEF Chunks, Free, Other, emulator, workers, callback, buffers, history,
              Requested, Switching, Raising, Latched, Flagged, Writing
  <1>0. ChunksInv /\ RequestInv /\ SwapInv /\ MutexInv
    BY DEF IInv
  <1>1. CASE AudioCtl
    <2>1. ChunksInv'
      BY <1>0, <1>1 DEF AudioCtl, At, Done, ChunksInv, Positions, Steps, Holders
    <2>2. RequestInv'
      BY <1>0, <1>1 DEF AudioCtl, At, Done, ChunksInv, RequestInv, SwapInv
    <2>3. SwapInv'
      BY <1>0, <1>1 DEF AudioCtl, At, Done, ChunksInv, RequestInv, SwapInv
    <2>4. MutexInv'
      BY <1>0, <1>1 DEF AudioCtl, At, Done, ChunksInv, RequestInv,
         MutexInv, CbHolds, InHandler
    <2> QED
      BY <2>1, <2>2, <2>3, <2>4 DEF IInv
  <1>2. CASE WaitIntr
    BY <1>0, <1>2 DEF WaitIntr, At, Done, IInv, ChunksInv, RequestInv, SwapInv,
       MutexInv, CbHolds, InHandler, Positions, Steps
  <1>3. CASE Halted
    BY <1>0, <1>3 DEF Halted, At, Done, IInv, ChunksInv, RequestInv, SwapInv,
       MutexInv, CbHolds, InHandler, Positions, Steps
  <1>4. CASE TestReload
    <2>1. ChunksInv'
      BY <1>0, <1>4 DEF TestReload, At, Done, ChunksInv, Positions, Steps, Holders
    <2>2. RequestInv'
      BY <1>0, <1>4 DEF TestReload, At, Done, ChunksInv, RequestInv, SwapInv
    <2>3. SwapInv'
      BY <1>0, <1>4 DEF TestReload, At, Done, ChunksInv, RequestInv, SwapInv
    <2>4. MutexInv'
      BY <1>0, <1>4 DEF TestReload, At, Done, ChunksInv, RequestInv,
         MutexInv, CbHolds, InHandler
    <2> QED
      BY <2>1, <2>2, <2>3, <2>4 DEF IInv
  <1>5. CASE WriteLooksUp
    BY <1>0, <1>5 DEF WriteLooksUp, At, Within, IInv, ChunksInv, RequestInv, SwapInv,
       MutexInv, CbHolds, InHandler, Positions, Steps
  <1>6. CASE WriteLocks
    <2>1. ChunksInv'
      BY <1>0, <1>6 DEF WriteLocks, At, Within, Lock, ChunksInv, Positions, Steps, Holders
    <2>2. RequestInv'
      BY <1>0, <1>6 DEF WriteLocks, At, Within, Lock, ChunksInv, RequestInv, SwapInv
    <2>3. SwapInv'
      BY <1>0, <1>6 DEF WriteLocks, At, Within, Lock, ChunksInv, RequestInv, SwapInv
    <2>4. MutexInv'
      BY <1>0, <1>6 DEF WriteLocks, At, Within, Lock, ChunksInv, RequestInv,
         MutexInv, CbHolds, InHandler
    <2> QED
      BY <2>1, <2>2, <2>3, <2>4 DEF IInv
  <1>7. CASE CreateWorker
    BY <1>0, <1>7 DEF CreateWorker, At, IInv, ChunksInv, RequestInv, SwapInv,
       MutexInv, CbHolds, InHandler, Positions, Steps
  <1>8. CASE AllCreated
    BY <1>0, <1>8 DEF AllCreated, At, Within, IInv, ChunksInv, RequestInv, SwapInv,
       MutexInv, CbHolds, InHandler, Positions, Steps
  <1>9. CASE WaitThread
    BY <1>0, <1>9 DEF WaitThread, At, IInv, ChunksInv, RequestInv, SwapInv,
       MutexInv, CbHolds, InHandler, Positions, Steps
  <1>10. CASE CopyDone
    <2>1. ChunksInv'
      BY <1>0, <1>10 DEF CopyDone, At, Within, ChunksInv, Positions, Steps, Holders
    <2>2. RequestInv'
      BY <1>0, <1>10 DEF CopyDone, At, Within, ChunksInv, RequestInv, SwapInv
    <2>3. SwapInv'
      BY <1>0, <1>10 DEF CopyDone, At, Within, ChunksInv, RequestInv, SwapInv
    <2>4. MutexInv'
      BY <1>0, <1>10 DEF CopyDone, At, Within, ChunksInv, RequestInv,
         MutexInv, CbHolds, InHandler
    <2> QED
      BY <2>1, <2>2, <2>3, <2>4 DEF IInv
  <1>11. CASE SetLen
    BY <1>0, <1>11 DEF SetLen, At, Within, IInv, ChunksInv, RequestInv, SwapInv,
       MutexInv, CbHolds, InHandler, Positions, Steps
  <1>12. CASE WriteUnlocks
    <2>1. ChunksInv'
      BY <1>0, <1>12 DEF WriteUnlocks, At, Done, Unlock, ChunksInv, Positions, Steps, Holders
    <2>2. RequestInv'
      BY <1>0, <1>12 DEF WriteUnlocks, At, Done, Unlock, ChunksInv, RequestInv, SwapInv
    <2>3. SwapInv'
      BY <1>0, <1>12 DEF WriteUnlocks, At, Done, Unlock, ChunksInv, RequestInv, SwapInv
    <2>4. MutexInv'
      BY <1>0, <1>12 DEF WriteUnlocks, At, Done, Unlock, ChunksInv, RequestInv,
         MutexInv, CbHolds, InHandler
    <2> QED
      BY <2>1, <2>2, <2>3, <2>4 DEF IInv
  <1>13. CASE ClearReload
    BY <1>0, <1>13 DEF ClearReload, At, Done, IInv, ChunksInv, RequestInv, SwapInv,
       MutexInv, CbHolds, InHandler, Positions, Steps
  <1> QED
    BY <1>1, <1>2, <1>3, <1>4, <1>5, <1>6, <1>7, <1>8, <1>9, <1>10, <1>11, <1>12, <1>13 DEF Guest

\* The loop of exec: a latched request becomes the guest's flag, or is lost.
LEMMA LoopOwned == ASSUME IInv, Loop PROVE IInv'
  <1> USE DEF Chunks, Free, Other, emulator, workers, callback, buffers, history,
              Requested, Switching, Raising, Latched, Flagged, Writing
  <1>0. ChunksInv /\ RequestInv /\ SwapInv /\ MutexInv
    BY DEF IInv
  <1>1. CASE DoTimer
    BY <1>0, <1>1 DEF DoTimer, IInv, ChunksInv, RequestInv, SwapInv,
       MutexInv, CbHolds, InHandler, Positions, Steps
  <1>2. CASE QueryIntr
    BY <1>0, <1>2 DEF QueryIntr, IInv, ChunksInv, RequestInv, SwapInv,
       MutexInv, CbHolds, InHandler, Positions, Steps
  <1>3. CASE AckIntr
    <2>1. ChunksInv'
      BY <1>0, <1>3 DEF AckIntr, ChunksInv, Positions, Steps, Holders
    <2>2. RequestInv'
      BY <1>0, <1>3 DEF AckIntr, ChunksInv, RequestInv, SwapInv
    <2>3. SwapInv'
      BY <1>0, <1>3 DEF AckIntr, ChunksInv, RequestInv, SwapInv
    <2>4. MutexInv'
      BY <1>0, <1>3 DEF AckIntr, ChunksInv, RequestInv,
         MutexInv, CbHolds, InHandler
    <2> QED
      BY <2>1, <2>2, <2>3, <2>4 DEF IInv
  <1> QED
    BY <1>1, <1>2, <1>3 DEF Loop

\* The monitor: the request goes from the switch to the controller.
LEMMA MonitorOwned == ASSUME IInv, Monitor PROVE IInv'
  <1> USE DEF Chunks, Free, Other, emulator, workers, callback, buffers, history,
              Requested, Switching, Raising, Latched, Flagged, Writing
  <1>0. ChunksInv /\ RequestInv /\ SwapInv /\ MutexInv
    BY DEF IInv
  <1>1. CASE MonitorTests
    BY <1>0, <1>1 DEF MonitorTests, MonitorStep, IInv, ChunksInv, RequestInv, SwapInv,
       MutexInv, CbHolds, InHandler, Positions, Steps
  <1>2. CASE MonitorRaises
    <2>1. ChunksInv'
      BY <1>0, <1>2 DEF MonitorRaises, MonitorStep, ChunksInv, Positions, Steps, Holders
    <2>2. RequestInv'
      BY <1>0, <1>2 DEF MonitorRaises, MonitorStep, ChunksInv, RequestInv, SwapInv
    <2>3. SwapInv'
      BY <1>0, <1>2 DEF MonitorRaises, MonitorStep, ChunksInv, RequestInv, SwapInv
    <2>4. MutexInv'
      BY <1>0, <1>2 DEF MonitorRaises, MonitorStep, ChunksInv, RequestInv,
         MutexInv, CbHolds, InHandler
    <2> QED
      BY <2>1, <2>2, <2>3, <2>4 DEF IInv
  <1>3. CASE MonitorClears
    <2>1. ChunksInv'
      BY <1>0, <1>3 DEF MonitorClears, MonitorStep, ChunksInv, Positions, Steps, Holders
    <2>2. RequestInv'
      BY <1>0, <1>3 DEF MonitorClears, MonitorStep, ChunksInv, RequestInv, SwapInv
    <2>3. SwapInv'
      BY <1>0, <1>3 DEF MonitorClears, MonitorStep, ChunksInv, RequestInv, SwapInv
    <2>4. MutexInv'
      BY <1>0, <1>3 DEF MonitorClears, MonitorStep, ChunksInv, RequestInv,
         MutexInv, CbHolds, InHandler
    <2> QED
      BY <2>1, <2>2, <2>3, <2>4 DEF IInv
  <1> QED
    BY <1>1, <1>2, <1>3 DEF Monitor

\* The callback: the chunks are exchanged when nothing is requested, and a new
\* request begins with an empty chunk.
LEMMA CallbackOwned == ASSUME IInv, Callback PROVE IInv'
  <1> USE DEF Chunks, Free, Other, emulator, workers, callback, buffers, history,
              Requested, Switching, Raising, Latched, Flagged, Writing
  <1>0. ChunksInv /\ RequestInv /\ SwapInv /\ MutexInv
    BY DEF IInv
  <1>1. CASE Call
    BY <1>0, <1>1 DEF Call, CbStep, IInv, ChunksInv, RequestInv, SwapInv,
       MutexInv, CbHolds, InHandler, Positions, Steps
  <1>2. CASE LockPlay
    <2>1. ChunksInv'
      BY <1>0, <1>2 DEF LockPlay, CbStep, Lock, ChunksInv, Positions, Steps, Holders
    <2>2. RequestInv'
      BY <1>0, <1>2 DEF LockPlay, CbStep, Lock, ChunksInv, RequestInv, SwapInv
    <2>3. SwapInv'
      BY <1>0, <1>2 DEF LockPlay, CbStep, Lock, ChunksInv, RequestInv, SwapInv
    <2>4. MutexInv'
      BY <1>0, <1>2 DEF LockPlay, CbStep, Lock, ChunksInv, RequestInv,
         MutexInv, CbHolds, InHandler
    <2> QED
      BY <2>1, <2>2, <2>3, <2>4 DEF IInv
  <1>3. CASE TestPlay
    <2>1. ChunksInv'
      BY <1>0, <1>3 DEF TestPlay, CbStep, HasSound, ChunksInv, Positions, Steps, Holders
    <2>2. RequestInv'
      BY <1>0, <1>3 DEF TestPlay, CbStep, HasSound, ChunksInv, RequestInv, SwapInv
    <2>3. SwapInv'
      BY <1>0, <1>3 DEF TestPlay, CbStep, HasSound, ChunksInv, RequestInv, SwapInv
    <2>4. MutexInv'
      BY <1>0, <1>3 DEF TestPlay, CbStep, HasSound, ChunksInv, RequestInv,
         MutexInv, CbHolds, InHandler
    <2> QED
      BY <2>1, <2>2, <2>3, <2>4 DEF IInv
  <1>4. CASE LockFill
    <2>1. ChunksInv'
      BY <1>0, <1>4 DEF LockFill, CbStep, Lock, ChunksInv, Positions, Steps, Holders
    <2>2. RequestInv'
      BY <1>0, <1>4 DEF LockFill, CbStep, Lock, ChunksInv, RequestInv, SwapInv
    <2>3. SwapInv'
      BY <1>0, <1>4 DEF LockFill, CbStep, Lock, ChunksInv, RequestInv, SwapInv
    <2>4. MutexInv'
      BY <1>0, <1>4 DEF LockFill, CbStep, Lock, ChunksInv, RequestInv,
         MutexInv, CbHolds, InHandler
    <2> QED
      BY <2>1, <2>2, <2>3, <2>4 DEF IInv
  <1>5. CASE Peek
    <2>1. ChunksInv'
      BY <1>0, <1>5 DEF Peek, CbStep, Unlock, ChunksInv, Positions, Steps, Holders
    <2>2. RequestInv'
      BY <1>0, <1>5 DEF Peek, CbStep, Unlock, ChunksInv, RequestInv, SwapInv
    <2>3. SwapInv'
      BY <1>0, <1>5 DEF Peek, CbStep, Unlock, ChunksInv, RequestInv, SwapInv
    <2>4. MutexInv'
      BY <1>0, <1>5 DEF Peek, CbStep, Unlock, ChunksInv, RequestInv,
         MutexInv, CbHolds, InHandler
    <2> QED
      BY <2>1, <2>2, <2>3, <2>4 DEF IInv
  <1>6. CASE Swap
    <2>1. ChunksInv'
      BY <1>0, <1>6 DEF Swap, CbStep, ChunksInv, Positions, Steps, Holders
    <2>2. RequestInv'
      BY <1>0, <1>6 DEF Swap, CbStep, ChunksInv, RequestInv, SwapInv
    <2>3. SwapInv'
      BY <1>0, <1>6 DEF Swap, CbStep, ChunksInv, RequestInv, SwapInv
    <2>4. MutexInv'
      BY <1>0, <1>6 DEF Swap, CbStep, ChunksInv, RequestInv,
         MutexInv, CbHolds, InHandler
    <2> QED
      BY <2>1, <2>2, <2>3, <2>4 DEF IInv
  <1>7. CASE UnlockOld
    <2>1. ChunksInv'
      BY <1>0, <1>7 DEF UnlockOld, CbStep, Unlock, ChunksInv, Positions, Steps, Holders
    <2>2. RequestInv'
      BY <1>0, <1>7 DEF UnlockOld, CbStep, Unlock, ChunksInv, RequestInv, SwapInv
    <2>3. SwapInv'
      BY <1>0, <1>7 DEF UnlockOld, CbStep, Unlock, ChunksInv, RequestInv, SwapInv
    <2>4. MutexInv'
      BY <1>0, <1>7 DEF UnlockOld, CbStep, Unlock, ChunksInv, RequestInv,
         MutexInv, CbHolds, InHandler
    <2> QED
      BY <2>1, <2>2, <2>3, <2>4 DEF IInv
  <1>8. CASE Signal
    <2>1. ChunksInv'
      BY <1>0, <1>8 DEF Signal, CbStep, ChunksInv, Positions, Steps, Holders
    <2>2. RequestInv'
      BY <1>0, <1>8 DEF Signal, CbStep, ChunksInv, RequestInv, SwapInv
    <2>3. SwapInv'
      BY <1>0, <1>8 DEF Signal, CbStep, ChunksInv, RequestInv, SwapInv
    <2>4. MutexInv'
      BY <1>0, <1>8 DEF Signal, CbStep, ChunksInv, RequestInv,
         MutexInv, CbHolds, InHandler
    <2> QED
      BY <2>1, <2>2, <2>3, <2>4 DEF IInv
  <1>9. CASE Mix
    BY <1>0, <1>9 DEF Mix, CbStep, IInv, ChunksInv, RequestInv, SwapInv,
       MutexInv, CbHolds, InHandler, Positions, Steps
  <1>10. CASE UnlockPlay
    <2>1. ChunksInv'
      BY <1>0, <1>10 DEF UnlockPlay, CbStep, Unlock, ChunksInv, Positions, Steps, Holders
    <2>2. RequestInv'
      BY <1>0, <1>10 DEF UnlockPlay, CbStep, Unlock, ChunksInv, RequestInv, SwapInv
    <2>3. SwapInv'
      BY <1>0, <1>10 DEF UnlockPlay, CbStep, Unlock, ChunksInv, RequestInv, SwapInv
    <2>4. MutexInv'
      BY <1>0, <1>10 DEF UnlockPlay, CbStep, Unlock, ChunksInv, RequestInv,
         MutexInv, CbHolds, InHandler
    <2> QED
      BY <2>1, <2>2, <2>3, <2>4 DEF IInv
  <1> QED
    BY <1>1, <1>2, <1>3, <1>4, <1>5, <1>6, <1>7, <1>8, <1>9, <1>10 DEF Callback

\* A worker touches nothing of this.
LEMMA WorkerOwned == ASSUME IInv, NEW w \in Workers, Worker(w) PROVE IInv'
  BY DEF Worker, ReadLane, CopyLane, emulator, callback, buffers, IInv, ChunksInv, RequestInv,
         SwapInv, MutexInv, CbHolds, InHandler, Requested, Switching, Raising, Latched,
         Flagged, Writing

LEMMA StepOwned == IInv /\ [Next]_vars => IInv'
  <1> SUFFICES ASSUME IInv, [Next]_vars PROVE IInv'
    OBVIOUS
  <1>1. CASE UNCHANGED vars
    BY <1>1 DEF vars, IInv, ChunksInv, RequestInv, SwapInv, MutexInv, CbHolds, InHandler,
                Requested, Switching, Raising, Latched, Flagged, Writing
  <1> QED
    BY <1>1, GuestOwned, LoopOwned, MonitorOwned, CallbackOwned, WorkerOwned DEF Next

\* Requests are in one place at a time, and mutexes with whom the code says.
THEOREM Invariance == Spec => []IInv
  BY InitOwned, StepOwned, PTL DEF Spec

\* Handler and callback hold the mutex of the chunk they work on and release
\* the one they took (audio.c:182, 193, 206, 256), and the assertion of line
\* 205 does not fail.
THEOREM Ownership == Spec => []ChunkOwned
  <1>1. IInv => ChunkOwned
    BY DEF IInv, ChunksInv, MutexInv, CbHolds, ChunkOwned, InHandler, Steps, Chunks, Other
  <1> QED
    BY <1>1, Invariance, PTL

-------------------------------------------------------------------------------
(* The stream.  The mutexes and the single request keep the chunk that is     *)
(* written from being exchanged before it is complete.                        *)

\* The newest place of a chunk that holds b is b.
LEMMA NewestHeld ==
  ASSUME DataInv, NEW c \in Chunks, NEW b \in Nat, Holds(c, b)
  PROVE  Newest(chunk[c]) = b
  <1> DEFINE R == Range(chunk[c])
  <1>1. R = {chunk[c][p] : p \in Places} /\ R \subseteq Nat
    BY DEF DataInv, Range
  <1>2. b \in R /\ \A d \in R : d <= b
    BY <1>1 DEF Holds
  <1>3. Newest(chunk[c]) \in R /\ \A d \in R : d <= Newest(chunk[c])
    BY <1>2 DEF Newest
  <1> QED
    BY <1>1, <1>2, <1>3

\* No block has been written at first.
LEMMA InitStream == Init => StreamInv
  <1> SUFFICES ASSUME Init PROVE StreamInv
    OBVIOUS
  <1>1. DataInv
    BY AudioAssumption DEF Init, DataInv, Chunks, Workers, Places, NUM_AUDIO_WORKER
  <1>2. SoundInv
    BY AudioAssumption DEF Init, SoundInv, Chunks
  <1>3. CopyInv
    BY DEF Init, CopyInv, Copied, Chunks, Workers, Places
  <1> QED
    BY <1>1, <1>2, <1>3 DEF StreamInv

\* The guest and the handler: the first call exchanges nothing that is heard.
LEMMA GuestStream == ASSUME IInv, StreamInv, Guest PROVE StreamInv'
  <1> USE DEF workers, callback, buffers, history, At, Done, Within, NUM_AUDIO_WORKER
  <1>0. /\ ChunksInv /\ RequestInv /\ SwapInv /\ MutexInv
        /\ DataInv /\ SoundInv /\ CopyInv
    BY DEF IInv, StreamInv
  <1>1. CASE AudioCtl
    <2>1. DataInv' /\ CopyInv'
      BY <1>0, <1>1 DEF AudioCtl, DataInv, CopyInv, Copied
    <2>2. \A c \in Chunks : ~ready[c] /\ len[c] = 0
      BY <1>0, <1>1 DEF AudioCtl, ChunksInv, SoundInv
    <2>3. SoundInv'
      BY <1>0, <1>1, <2>2 DEF AudioCtl, SoundInv, ChunksInv, Chunks
    <2> QED
      BY <2>1, <2>3 DEF StreamInv
  <1>2. CASE WaitIntr \/ Halted \/ ClearReload
    <2>1. DataInv' /\ CopyInv'
      BY <1>0, <1>2 DEF WaitIntr, Halted, ClearReload, DataInv, CopyInv, Copied
    <2>2. SoundInv'
      BY <1>0, <1>2 DEF WaitIntr, Halted, ClearReload, SoundInv, Holds
    <2> QED
      BY <2>1, <2>2 DEF StreamInv
  <1>3. CASE TestReload \/ WriteLooksUp
    <2>1. pc' # "len" /\ UNCHANGED <<len, chunk, written, heard, worker, idx, ready, fill, play>>
      BY <1>3 DEF TestReload, WriteLooksUp
    <2>2. DataInv'
      BY <1>0, <1>3, <2>1 DEF TestReload, WriteLooksUp, DataInv, ChunksInv, Chunks
    <2>3. CopyInv'
      BY <1>0, <1>3, <2>1 DEF TestReload, WriteLooksUp, DataInv, CopyInv, Copied
    <2>4. SoundInv'
      BY <1>0, <2>1 DEF SoundInv, Holds
    <2> QED
      BY <2>2, <2>3, <2>4 DEF StreamInv
  <1>4. CASE WriteLocks \/ CreateWorker \/ AllCreated \/ WaitThread
    <2>1. pc' # "len" /\ UNCHANGED <<len, chunk, written, heard, block, idx, ready, fill, play>>
      BY <1>4 DEF WriteLocks, CreateWorker, AllCreated, WaitThread
    <2>2. DataInv'
      BY <1>0, <1>4, <2>1 DEF WriteLocks, CreateWorker, AllCreated, WaitThread, DataInv, Workers
    <2>3. CopyInv'
      BY <1>0, <1>4, <2>1 DEF WriteLocks, CreateWorker, AllCreated, WaitThread, DataInv, CopyInv,
         Copied, Workers
    <2>4. SoundInv'
      BY <1>0, <2>1 DEF SoundInv, Holds
    <2> QED
      BY <2>2, <2>3, <2>4 DEF StreamInv
  <1>5. CASE CopyDone
    <2>1. ~ready[fill] /\ len[fill] = 0
      BY <1>0, <1>5 DEF CopyDone, ChunksInv, RequestInv, Requested, Writing, SoundInv
    <2>2. DataInv'
      BY <1>0, <1>5 DEF CopyDone, DataInv
    <2>3. CopyInv'
      BY <1>0, <1>5 DEF CopyDone, DataInv, CopyInv, Copied, Workers
    <2>4. SoundInv'
      BY <1>0, <1>5, <2>1 DEF CopyDone, SoundInv, Holds, ChunksInv
    <2> QED
      BY <2>2, <2>3, <2>4 DEF StreamInv
  <1>6. CASE SetLen
    <2>1. /\ pc = "len" /\ pc' = "unlock" /\ play = Other(fill) /\ fill \in Chunks
          /\ len[fill] = 0 /\ ready[fill] /\ block \in {0, written + 1}
          /\ UNCHANGED <<fill, play, ready, chunk, heard, block, i, idx, worker>>
      BY <1>0, <1>6 DEF SetLen, ChunksInv, SoundInv, CopyInv
    <2>2. DataInv'
      BY <1>0, <1>6, <2>1, AudioAssumption DEF SetLen, DataInv
    <2>3. CopyInv'
      BY <1>0, <1>6, <2>1 DEF SetLen, DataInv, CopyInv, Copied, Workers, Places, Chunks
    <2>4. CASE block = 0
      <3>1. len' = len /\ written' = written
        BY <1>0, <1>6, <2>1, <2>4 DEF SetLen, DataInv
      <3> QED
        BY <1>0, <2>1, <2>2, <2>3, <3>1 DEF SoundInv, Holds, StreamInv
    <2>5. CASE block = written + 1
      <3>1. written' = written + 1 /\ len' = [len EXCEPT ![fill] = Units]
        <4>1. block # 0
          BY <1>0, <2>5 DEF DataInv
        <4> QED
          BY <1>6, <2>5, <4>1 DEF SetLen
      <3>2. Holds(fill, written + 1)
        BY <1>0, <2>1, <2>5 DEF DataInv, CopyInv, Copied, Holds
      <3>3. len[play] > 0 => Holds(play, written)
        BY <1>0, <2>1 DEF SoundInv
      <3>4. heard + len'[0] + len'[1] = written' * Units
        <4>1. /\ fill = 0 \/ fill = 1
              /\ len'[0] = (IF fill = 0 THEN Units ELSE len[0])
              /\ len'[1] = (IF fill = 1 THEN Units ELSE len[1])
          BY <1>0, <2>1, <3>1 DEF DataInv, Chunks
        <4>2. heard + len[0] + len[1] + Units = written * Units + Units
          BY <1>0 DEF SoundInv
        <4>3. /\ heard \in Nat /\ len[0] \in Nat /\ len[1] \in Nat /\ Units \in Nat
              /\ written' * Units = written * Units + Units
          BY <1>0, <3>1, AudioAssumption DEF DataInv, Chunks
        <4> QED
          BY <2>1, <4>1, <4>2, <4>3
      <3>5. len'[fill] = Units /\ len'[play] = len[play] /\ Units > 0
        BY <1>0, <2>1, <3>1, AudioAssumption DEF DataInv, Chunks, Other
      <3>6. SoundInv'
        <4>1. Holds(fill, written)' /\ (len[play] > 0 => Holds(play, written - 1)')
          BY <1>0, <2>1, <3>1, <3>2, <3>3 DEF Holds, DataInv
        <4> QED
          BY <1>0, <2>1, <3>1, <3>4, <3>5, <4>1 DEF SoundInv, Holds, DataInv, Chunks
      <3> QED
        BY <2>2, <2>3, <3>6 DEF StreamInv
    <2> QED
      BY <2>1, <2>4, <2>5
  <1>7. CASE WriteUnlocks
    BY <1>0, <1>7 DEF WriteUnlocks, Unlock, StreamInv, DataInv, SoundInv, Holds, CopyInv, Copied
  <1> QED
    BY <1>1, <1>2, <1>3, <1>4, <1>5, <1>6, <1>7 DEF Guest

\* A worker writes to a chunk that nobody hears, whichever lane it has read.
LEMMA WorkerStream ==
  ASSUME IInv, StreamInv, NEW w \in Workers, Worker(w) PROVE StreamInv'
  <1> USE DEF emulator, callback, buffers, history, NUM_AUDIO_WORKER
  <1>0. /\ ChunksInv /\ RequestInv /\ DataInv /\ SoundInv /\ CopyInv
    BY DEF IInv, StreamInv
  <1>1. CASE ReadLane(w)
    <2>1. DataInv' /\ SoundInv'
      BY <1>0, <1>1 DEF ReadLane, DataInv, SoundInv, Holds
    <2>2. CopyInv'
      BY <1>0, <1>1 DEF ReadLane, DataInv, CopyInv, Copied, Workers
    <2> QED
      BY <2>1, <2>2 DEF StreamInv
  <1>2. CASE CopyLane(w)
    <2>1. /\ pc \in {"create", "join"} /\ worker[w] = "copy"
          /\ UNCHANGED <<pc, i, block, fill, play, ready, len, written, heard>>
      BY <1>0, <1>2 DEF CopyLane, CopyInv
    <2>2. len[fill] = 0 /\ play # fill /\ fill \in Chunks
      BY <1>0, <2>1 DEF ChunksInv, RequestInv, Requested, Writing, SoundInv, Chunks, Other
    <2>3. PICK q \in Places : q \in LanePlaces(idx[w])
      BY <1>0 DEF DataInv, LanePlaces, Places
    <2>4. DataInv'
      <3>1. chunk' \in [Chunks -> [Places -> Nat]]
        BY <1>0, <1>2 DEF CopyLane, DataInv
      <3>2. /\ worker' \in [Workers -> {"none", "created", "copy", "done"}]
            /\ idx' \in [Workers -> 0 .. 2]
        BY <1>0, <1>2 DEF CopyLane, DataInv
      <3> QED
        BY <1>0, <2>1, <3>1, <3>2 DEF DataInv
    <2>5. \A c \in Chunks : \A r \in Places :
            chunk'[c][r] = IF c = fill /\ r \in LanePlaces(idx[w]) /\ block # 0
                           THEN block ELSE chunk[c][r]
      BY <1>0, <1>2 DEF CopyLane, DataInv
    <2>6. CopyInv'
      <3>1. \A v \in Workers : worker'[v] = IF v = w THEN "done" ELSE worker[v]
        BY <1>0, <1>2 DEF CopyLane, DataInv
      <3>2. \A v \in Workers :
              /\ worker'[v] # "none" => pc' \in {"create", "join"}
              /\ pc' = "create" => (worker'[v] # "none" <=> v < i')
              /\ pc' = "join" => (worker'[v] = "none" <=> v < i')
        BY <1>0, <2>1, <3>1 DEF CopyInv
      <3>3. \A c \in Chunks : \A r \in Places :
              \/ chunk'[c][r] <= written'
              \/ c = fill' /\ chunk'[c][r] = block' /\ pc' \in {"create", "join", "len"}
        BY <1>0, <2>1, <2>5 DEF CopyInv
      <3>4. block # 0 => chunk'[fill][q] = block
        BY <2>2, <2>3, <2>5
      <3> QED
        BY <1>0, <2>1, <3>2, <3>3, <3>4 DEF CopyInv
    <2>7. SoundInv'
      <3>1. \A r \in Places : chunk'[play][r] = chunk[play][r]
        BY <1>0, <2>2, <2>5 DEF ChunksInv
      <3> QED
        BY <1>0, <2>1, <2>2, <3>1 DEF SoundInv, Holds
    <2> QED
      BY <2>4, <2>6, <2>7 DEF StreamInv
  <1> QED
    BY <1>1, <1>2 DEF Worker

\* The loop of exec and the monitor touch no data.
LEMMA RequestStream == ASSUME IInv, StreamInv, Loop \/ Monitor PROVE StreamInv'
  <1>1. /\ UNCHANGED <<workers, fill, play, buffers, history, block, i>>
        /\ pc' = pc \/ (pc = "halted" /\ pc' = "test")
    BY DEF Loop, DoTimer, QueryIntr, AckIntr, Monitor, MonitorTests, MonitorRaises, MonitorClears,
           MonitorStep, emulator, callback
  <1>2. DataInv'
    BY <1>1 DEF StreamInv, DataInv, workers, buffers, history
  <1>3. SoundInv'
    BY <1>1 DEF StreamInv, SoundInv, Holds, buffers, history
  <1>4. CopyInv'
    BY <1>1 DEF StreamInv, CopyInv, Copied, workers, buffers, history
  <1> QED
    BY <1>2, <1>3, <1>4 DEF StreamInv

\* The callback: an empty chunk is left for the one that waits, and a part of
\* it is heard at a time.
LEMMA CallbackStream == ASSUME IInv, StreamInv, Callback PROVE StreamInv'
  <1> USE DEF emulator, workers, CbStep
  <1>0. /\ ChunksInv /\ RequestInv /\ SwapInv /\ MutexInv /\ DataInv /\ SoundInv /\ CopyInv
    BY DEF IInv, StreamInv
  <1>1. CASE TestPlay
    <2>1. ready' = ready \/ (ready' = [ready EXCEPT ![play] = FALSE] /\ len[play] = 0)
      BY <1>0, <1>1 DEF TestPlay, HasSound, SoundInv, DataInv, ChunksInv
    <2>2. pc = "len" => ready'[fill]
      BY <1>0, <2>1 DEF ChunksInv, SoundInv, Chunks, Other
    <2>3. DataInv' /\ CopyInv'
      BY <1>0, <1>1 DEF TestPlay, DataInv, CopyInv, Copied
    <2>4. SoundInv'
      BY <1>0, <1>1, <2>1, <2>2 DEF TestPlay, SoundInv, Holds, ChunksInv
    <2> QED
      BY <2>3, <2>4 DEF StreamInv
  <1>2. CASE Swap
    <2>1. /\ started /\ play = Other(fill) /\ fill \in Chunks /\ len[play] = 0
          /\ pc \notin {"create", "join", "len"}
          /\ fill' = play /\ play' = fill
          /\ UNCHANGED <<pc, i, block, ready, len, chunk, written, heard, worker, idx>>
      BY <1>0, <1>2 DEF Swap, ChunksInv, SwapInv, SoundInv, MutexInv, CbHolds,
         InHandler, Chunks, Other
    <2>2. DataInv'
      BY <1>0, <2>1 DEF DataInv
    <2>3. CopyInv'
      BY <1>0, <2>1 DEF CopyInv, Copied
    <2>4. SoundInv'
      BY <1>0, <2>1 DEF SoundInv, Holds, Chunks, Other
    <2> QED
      BY <2>2, <2>3, <2>4 DEF StreamInv
  <1>3. CASE Mix
    <2>1. UNCHANGED <<pc, i, block, fill, play, ready, chunk, written, worker, idx>>
      BY <1>3 DEF Mix
    <2>2. CopyInv'
      BY <1>0, <2>1 DEF CopyInv, Copied
    <2>3. CASE len[play] = 0
      BY <1>0, <1>3, <2>1, <2>2, <2>3 DEF Mix, StreamInv, DataInv, SoundInv, Holds
    <2>4. CASE len[play] # 0
      <3>1. /\ len' = [len EXCEPT ![play] = len[play] - 1] /\ heard' = heard + 1
            /\ play = Other(fill) /\ fill \in Chunks
        BY <1>0, <1>3, <2>4 DEF Mix, ChunksInv
      <3>2. DataInv'
        BY <1>0, <2>1, <2>4, <3>1, AudioAssumption DEF DataInv, Chunks, Other
      <3>3. /\ len'[fill] = len[fill] /\ len'[play] = len[play] - 1 /\ len[play] \in Nat
            /\ heard' + len'[0] + len'[1] = heard + len[0] + len[1]
        BY <1>0, <3>1, AudioAssumption DEF DataInv, Chunks, Other
      <3>4. SoundInv'
        BY <1>0, <2>1, <2>4, <3>1, <3>3 DEF SoundInv, Holds, Chunks, Other
      <3> QED
        BY <2>2, <3>2, <3>4 DEF StreamInv
    <2> QED
      BY <2>3, <2>4
  <1>4. CASE Call \/ LockPlay \/ LockFill \/ Peek \/ UnlockOld \/ Signal \/ UnlockPlay
    <2>1. UNCHANGED <<pc, i, block, fill, play, ready, len, chunk, written, heard, worker, idx>>
      BY <1>4 DEF Call, LockPlay, LockFill, Peek, UnlockOld, Signal, UnlockPlay
    <2>2. DataInv' /\ CopyInv'
      BY <1>0, <2>1 DEF DataInv, CopyInv, Copied
    <2>3. SoundInv'
      BY <1>0, <2>1 DEF SoundInv, Holds
    <2> QED
      BY <2>2, <2>3 DEF StreamInv
  <1> QED
    BY <1>1, <1>2, <1>3, <1>4 DEF Callback

LEMMA StepStream == IInv /\ StreamInv /\ [Next]_vars => StreamInv'
  <1> SUFFICES ASSUME IInv, StreamInv, [Next]_vars PROVE StreamInv'
    OBVIOUS
  <1>1. CASE UNCHANGED vars
    BY <1>1 DEF vars, StreamInv, DataInv, SoundInv, Holds, CopyInv, Copied
  <1> QED
    BY <1>1, GuestStream, WorkerStream, RequestStream, CallbackStream DEF Next

LEMMA StreamInvariance == Spec => [](IInv /\ StreamInv)
  BY InitOwned, StepOwned, InitStream, StepStream, PTL DEF Spec

\* A part that is mixed is the next part of the block it belongs to.
LEMMA MixHears ==
  ASSUME IInv, StreamInv, Mix, len[play] # 0
  PROVE  Stream!Hear
  <1> DEFINE b == IF len[fill] > 0 THEN written - 1 ELSE written
  <1>0. /\ ChunksInv /\ DataInv /\ SoundInv /\ Units \in Nat
        /\ play = Other(fill) /\ fill \in Chunks /\ play \in Chunks
    BY AudioAssumption DEF IInv, StreamInv, Mix, CbStep, ChunksInv
  <1>1. heard' = heard + 1 /\ sound' = Newest(chunk[play]) /\ written' = written
    BY DEF Mix, CbStep
  <1>2. /\ heard \in Nat /\ written \in Nat /\ len[play] \in 1 .. Units
        /\ len[fill] \in {0, Units} /\ heard + len[play] + len[fill] = written * Units
    BY <1>0 DEF DataInv, SoundInv, Chunks, Other
  <1>3. Holds(play, b) /\ b \in Nat
    <2>1. Holds(play, b)
      BY <1>0, <1>2 DEF SoundInv
    <2>2. \E p \in Places : chunk[play][p] = b /\ chunk[play][p] \in Nat
      BY <1>0, <2>1 DEF Holds, DataInv
    <2> QED
      BY <2>1, <2>2
  <1>4. sound' = b /\ b <= written
    BY <1>0, <1>1, <1>2, <1>3, NewestHeld
  <1>5. heard + len[play] = b * Units /\ (b - 1) * Units = b * Units - Units
    <2>1. (b - 1) * Units = b * Units - Units
      BY <1>0, <1>3
    <2>2. (written - 1) * Units = written * Units - Units /\ written * Units \in Int
      BY <1>0, <1>2
    <2>3. (len[fill] = 0 /\ b = written) \/ (len[fill] = Units /\ b = written - 1)
      BY <1>0, <1>2
    <2> HIDE DEF b
    <2>4. heard + len[play] = b * Units
      <3>1. CASE len[fill] = 0 /\ b = written
        BY <1>2, <3>1
      <3>2. CASE len[fill] = Units /\ b = written - 1
        BY <1>0, <1>2, <2>2, <3>2
      <3> QED
        BY <2>3, <3>1, <3>2
    <2> QED
      BY <2>1, <2>4
  <1>6. (b - 1) * Units <= heard /\ heard < b * Units
    BY <1>0, <1>2, <1>3, <1>5
  <1> QED
    BY <1>1, <1>4, <1>6 DEF Stream!Hear

\* A block is written when the one before the last has been heard.
LEMMA SetLenWrites ==
  ASSUME IInv, StreamInv, SetLen, block # 0
  PROVE  Stream!Write
  <1>0. ChunksInv /\ DataInv /\ SoundInv /\ Units \in Nat
    BY AudioAssumption DEF IInv, StreamInv
  <1>1. written' = written + 1 /\ UNCHANGED <<heard, sound>> /\ len[fill] = 0
    BY <1>0 DEF SetLen, At, SoundInv
  <1>2. /\ heard \in Nat /\ written \in Nat /\ len[play] \in 0 .. Units
        /\ len[play] + heard = written * Units
    BY <1>0, <1>1 DEF SetLen, At, ChunksInv, DataInv, SoundInv, Chunks, Other
  <1>3. (written - 1) * Units = written * Units - Units
    BY <1>0, <1>2
  <1>4. (written - 1) * Units <= heard
    BY <1>0, <1>2, <1>3
  <1> QED
    BY <1>1, <1>4 DEF Stream!Write

\* Device, callback and game are a stream (AudioStream): SetLen is its Write,
\* Mix its Hear, and no other step is seen.
THEOREM StreamImplemented == Spec => ImplementsStream
  <1>1. Init => Stream!Init
    BY DEF Init, Stream!Init
  <1>2. IInv /\ StreamInv /\ [Next]_vars => [Stream!Next]_<<written, heard, sound>>
    <2> SUFFICES ASSUME IInv, StreamInv, [Next]_vars
                 PROVE  Stream!Next \/ UNCHANGED <<written, heard, sound>>
      OBVIOUS
    <2>1. CASE SetLen
      BY <2>1, SetLenWrites DEF SetLen, Stream!Next
    <2>2. CASE Mix
      BY <2>2, MixHears DEF Mix, CbStep, Stream!Next
    <2>3. Guest => SetLen \/ UNCHANGED history
      BY DEF Guest, AudioCtl, WaitIntr, Halted, TestReload, WriteLooksUp, WriteLocks, CreateWorker,
             AllCreated, WaitThread, CopyDone, WriteUnlocks, ClearReload, history
    <2>4. Callback => Mix \/ UNCHANGED history
      BY DEF Callback, Call, LockPlay, TestPlay, LockFill, Peek, Swap, UnlockOld, Signal,
             UnlockPlay, CbStep, history
    <2>5. Loop \/ Monitor => UNCHANGED history
      BY DEF Loop, DoTimer, QueryIntr, AckIntr, Monitor, MonitorTests, MonitorRaises, MonitorClears,
             history
    <2>6. \A w \in Workers : Worker(w) => UNCHANGED history
      BY DEF Worker, ReadLane, CopyLane, history
    <2> QED
      BY <2>1, <2>2, <2>3, <2>4, <2>5, <2>6 DEF Next, vars, history
  <1> QED
    BY <1>1, <1>2, StreamInvariance, PTL DEF Spec, ImplementsStream, Stream!Spec

-------------------------------------------------------------------------------
(* The types of the other variables, and the bounds of the file.              *)

BoundInv ==
  /\ phase \in {"exec", "intr", "ack"} /\ {query, slot} \subseteq {"none", "timer", "audio"}
  /\ block \in 0 .. NrBlocks /\ written \in 0 .. NrBlocks
  /\ chunk \in [Chunks -> [Places -> 0 .. NrBlocks]]

LEMMA StepBound == IInv /\ StreamInv /\ BoundInv /\ [Next]_vars => BoundInv'
  <1> SUFFICES ASSUME IInv, StreamInv, BoundInv, [Next]_vars PROVE BoundInv'
    OBVIOUS
  <1> USE DEF BoundInv, emulator, workers, callback, buffers, history
  <1>1. CASE UNCHANGED vars
    BY <1>1 DEF vars
  <1>2. CASE Guest
    <2>1. CASE TestReload
      BY <2>1, AudioAssumption DEF TestReload, At, Done
    <2>2. CASE SetLen
      <3>1. block \in {0, written + 1}
        BY <2>2 DEF SetLen, At, StreamInv, CopyInv
      <3> QED
        BY <2>2, <3>1 DEF SetLen, Within
    <2>3. CASE UNCHANGED <<block, written>>
      BY <1>2, <2>3 DEF Guest, AudioCtl, WaitIntr, Halted, TestReload, WriteLooksUp, WriteLocks,
         CreateWorker, AllCreated, WaitThread, CopyDone, SetLen, WriteUnlocks, ClearReload, Done,
         Within
    <2> QED
      BY <1>2, <2>1, <2>2, <2>3 DEF Guest, AudioCtl, WaitIntr, Halted, WriteLooksUp, WriteLocks,
         CreateWorker, AllCreated, WaitThread, CopyDone, WriteUnlocks, ClearReload
  <1>3. CASE Loop \/ Monitor
    BY <1>3 DEF Loop, DoTimer, QueryIntr, AckIntr, Monitor, MonitorTests, MonitorRaises,
       MonitorClears
  <1>4. CASE Callback
    BY <1>4 DEF Callback, Call, LockPlay, TestPlay, LockFill, Peek, Swap, UnlockOld, Signal, Mix,
       UnlockPlay, CbStep
  <1>5. ASSUME NEW w \in Workers, Worker(w) PROVE BoundInv'
    <2>1. CASE ReadLane(w)
      BY <2>1 DEF ReadLane, BoundInv, emulator, buffers, history, callback
    <2>2. CASE CopyLane(w)
      <3>1. \A p \in Places :
              (IF p \in LanePlaces(idx[w]) /\ block # 0 THEN block ELSE chunk[fill][p])
                \in 0 .. NrBlocks
        BY DEF IInv, ChunksInv
      <3>2. [p \in Places |-> IF p \in LanePlaces(idx[w]) /\ block # 0 THEN block
                              ELSE chunk[fill][p]] \in [Places -> 0 .. NrBlocks]
        BY <3>1
      <3>3. chunk' \in [Chunks -> [Places -> 0 .. NrBlocks]]
        BY <2>2, <3>2 DEF CopyLane, BoundInv
      <3> QED
        BY <2>2, <3>3 DEF CopyLane, BoundInv, emulator, history, callback
    <2> QED
      BY <1>5, <2>1, <2>2 DEF Worker
  <1> QED
    BY <1>1, <1>2, <1>3, <1>4, <1>5 DEF Next

\* All variables keep their types, and no more is heard than the file has.
THEOREM TypeCorrect == Spec => []TypeOK
  <1>1. Init => BoundInv
    BY AudioAssumption DEF Init, BoundInv
  <1>2. IInv /\ StreamInv /\ BoundInv => TypeOK
    <2> SUFFICES ASSUME IInv, StreamInv, BoundInv PROVE TypeOK
      OBVIOUS
    <2>1. heard \in 0 .. NrBlocks * Units
      <3>1. heard \in Nat /\ heard <= written * Units
        <4>1. heard \in Nat /\ len[0] \in Nat /\ len[1] \in Nat
              /\ heard + len[0] + len[1] = written * Units
          BY DEF StreamInv, DataInv, SoundInv, Chunks
        <4> QED
          BY <4>1
      <3>2. written * Units <= NrBlocks * Units
        BY AudioAssumption DEF BoundInv
      <3>3. written * Units \in Int /\ NrBlocks * Units \in Int
        BY AudioAssumption DEF BoundInv
      <3> QED
        BY <3>1, <3>2, <3>3
    <2> QED
      BY <2>1 DEF IInv, ChunksInv, StreamInv, DataInv, BoundInv, TypeOK, Positions, Steps, Holders
  <1> QED
    BY <1>1, <1>2, StepBound, Invariance, StreamInvariance, PTL DEF Spec

================================================================================
