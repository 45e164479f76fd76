--------------------------------- MODULE Audio ---------------------------------
(***************************************************************************)
(* The audio device with its two chunks, nemu/src/device/dev/audio.c, and  *)
(* the guest that feeds it, game/src/credits/credits.c.                    *)
(*                                                                         *)
(* Threads: the emulator (emu), which runs the guest and the port handler; *)
(* SDL's audio callback (cb); the monitor that raises the interrupt; and   *)
(* the workers that copy a block.  A block is known by its number; a chunk *)
(* has three places, for the workers copy even and odd bytes, and the lane *)
(* that starts at 2 leaves out the first.                                  *)
(*                                                                         *)
(* The game's file is taken to be readable, and its text is left out.      *)
(***************************************************************************)
EXTENDS Integers, Functions

CONSTANTS
  Units,         \* calls of the callback a block lasts
  NrBlocks       \* blocks of the file

ASSUME AudioAssumption == Units \in Nat \ {0} /\ NrBlocks \in Nat \ {0}

NUM_AUDIO_WORKER == 2
Workers == 0 .. NUM_AUDIO_WORKER - 1
Chunks == {0, 1}
Other(c) == 1 - c
Free == "free"
Places == {"first", "even", "odd"}

\* What a worker copies that found idx in its creator's loop variable.
LanePlaces(idx) ==
  CASE idx = 0 -> {"first", "even"} [] idx = 1 -> {"odd"} [] idx = 2 -> {"even"}

VARIABLES
  phase, query,      \* the emulator's loop: exec, intr, ack; do_intr's intr_no
  slot,              \* the interrupt controller's slot
  pc,                \* the guest, or the port handler it is in
  audio_reload,
  block,             \* the block the guest has read, 0 at the end of its file
  i,                 \* the handler's: the chunk it waits for, then the loop variable
  worker, idx,       \* the workers, and the lanes they have read
  started,           \* the first AUDIO_CTL write has been: monitor and callback run
  monitor,           \* AUDIO_Monitor_Thread: loop, raise or clear
  switch_buf,
  cb,                \* where the callback is
  play, fill,        \* audio_chunk_play_idx, audio_chunk_fill_idx
  mutex,             \* audio_mutex
  chunk, ready, len, \* audio_chunk, audio_chunk_ready, audio_len, per chunk
  written, heard, sound   \* history: blocks written, parts heard, the last one's block

emulator == <<phase, query, pc, audio_reload, block, i, started>>
workers == <<worker, idx>>
callback == <<cb, play>>
buffers == <<chunk, ready, len>>
history == <<written, heard, sound>>
vars == <<phase, query, slot, pc, audio_reload, block, i, worker, idx, started, monitor,
          switch_buf, cb, play, fill, mutex, chunk, ready, len, written, heard, sound>>

Init ==
  /\ phase = "exec" /\ query = "none" /\ slot = "none"
  /\ pc = "start" /\ audio_reload = FALSE /\ block = 0
  /\ i = 0 /\ worker = [w \in Workers |-> "none"] /\ idx = [w \in Workers |-> 0]
  /\ started = FALSE /\ monitor = "loop" /\ switch_buf = FALSE
  /\ cb = "idle" /\ play = 0 /\ fill = 0
  /\ mutex = [c \in Chunks |-> Free]
  /\ chunk = [c \in Chunks |-> [p \in Places |-> 0]]
  /\ ready = [c \in Chunks |-> FALSE] /\ len = [c \in Chunks |-> 0]
  /\ written = 0 /\ heard = 0 /\ sound = 0

Lock(c, t) == mutex[c] = Free /\ mutex' = [mutex EXCEPT ![c] = t]
Unlock(c) == mutex' = [mutex EXCEPT ![c] = Free]

-------------------------------------------------------------------------------
(* The guest, one instruction each, and the port handler *)

\* An instruction ends: the loop polls the devices and looks for interrupts.
Done(next) == pc' = next /\ phase' = "intr" /\ UNCHANGED <<query, slot>>
Within(next) == pc' = next /\ UNCHANGED <<phase, query, slot>>
At(p) == phase = "exec" /\ pc = p

\* audio_pause(0), the first write to AUDIO_CTL: the callback starts, and the
\* monitor is to ask for the first block.
AudioCtl ==
  /\ At("start") /\ Done("hlt")
  /\ fill' = 1 /\ started' = TRUE /\ switch_buf' = TRUE
  /\ UNCHANGED <<audio_reload, block, i, workers, monitor, callback, mutex, buffers, history>>

\* wait_intr: do_intr ends it.
WaitIntr ==
  /\ At("hlt") /\ Done("halted")
  /\ UNCHANGED <<audio_reload, block, i, started, workers, monitor, switch_buf, callback,
                 fill, mutex, buffers, history>>

Halted ==
  /\ At("halted") /\ Done("halted")
  /\ UNCHANGED <<audio_reload, block, i, started, workers, monitor, switch_buf, callback,
                 fill, mutex, buffers, history>>

\* Mutant: every interrupt brings a block.
TestReload_Always ==
  /\ At("test")
  /\ Done("write") /\ block' = IF written < NrBlocks THEN written + 1 ELSE 0
  /\ UNCHANGED <<audio_reload, i, started, workers, monitor, switch_buf, callback, fill, mutex,
                 buffers, history>>

\* The test of audio_reload, and the reading of the next block.
TestReload ==
  /\ At("test")
  /\ IF audio_reload
     THEN Done("write") /\ block' = IF written < NrBlocks THEN written + 1 ELSE 0
     ELSE Done("hlt") /\ UNCHANGED block
  /\ UNCHANGED <<audio_reload, i, started, workers, monitor, switch_buf, callback, fill, mutex,
                 buffers, history>>

\* AUDIO_DATA: the mutex of the chunk to fill is looked up,
WriteLooksUp ==
  /\ At("write") /\ Within("lock")
  /\ i' = fill
  /\ UNCHANGED <<audio_reload, block, started, workers, monitor, switch_buf, callback, fill,
                 mutex, buffers, history>>

\* and waited for.
WriteLocks ==
  /\ At("lock") /\ Within("create")
  /\ Lock(i, "emu") /\ i' = 0
  /\ UNCHANGED <<audio_reload, block, started, workers, monitor, switch_buf, callback, fill,
                 buffers, history>>

CreateWorker ==
  /\ At("create") /\ i < NUM_AUDIO_WORKER
  /\ worker' = [worker EXCEPT ![i] = "created"]
  /\ i' = i + 1
  /\ UNCHANGED <<phase, query, slot, pc, audio_reload, block, idx, started, monitor, switch_buf,
                 callback, fill, mutex, buffers, history>>

AllCreated ==
  /\ At("create") /\ i = NUM_AUDIO_WORKER /\ Within("join")
  /\ i' = 0
  /\ UNCHANGED <<audio_reload, block, started, workers, monitor, switch_buf, callback, fill,
                 mutex, buffers, history>>

WaitThread ==
  /\ At("join") /\ i < NUM_AUDIO_WORKER /\ worker[i] = "done"
  /\ worker' = [worker EXCEPT ![i] = "none"]
  /\ i' = i + 1
  /\ UNCHANGED <<phase, query, slot, pc, audio_reload, block, idx, started, monitor,
                 switch_buf, callback, fill, mutex, buffers, history>>

\* Mutant: the chunk is not marked.
CopyDone_NotReady ==
  /\ At("join") /\ i = NUM_AUDIO_WORKER /\ Within("len")
  /\ UNCHANGED <<audio_reload, block, i, started, workers, monitor, switch_buf, callback, fill,
                 mutex, buffers, history>>

CopyDone ==
  /\ At("join") /\ i = NUM_AUDIO_WORKER /\ Within("len")
  /\ ready' = [ready EXCEPT ![fill] = TRUE]
  /\ UNCHANGED <<audio_reload, block, i, started, workers, monitor, switch_buf, callback, fill,
                 mutex, chunk, len, history>>

SetLen ==
  /\ At("len") /\ Within("unlock")
  /\ len' = [len EXCEPT ![fill] = IF block = 0 THEN 0 ELSE Units]
  /\ written' = IF block = 0 THEN written ELSE written + 1
  /\ UNCHANGED <<audio_reload, block, i, started, workers, monitor, switch_buf, callback, fill,
                 mutex, chunk, ready, heard, sound>>

WriteUnlocks ==
  /\ At("unlock") /\ Done("clear")
  /\ Unlock(fill)
  /\ UNCHANGED <<audio_reload, block, i, started, workers, monitor, switch_buf, callback, fill,
                 buffers, history>>

ClearReload ==
  /\ At("clear") /\ Done("hlt")
  /\ audio_reload' = FALSE
  /\ UNCHANGED <<block, i, started, workers, monitor, switch_buf, callback, fill, mutex,
                 buffers, history>>

Guest ==
  \/ AudioCtl \/ WaitIntr \/ Halted \/ TestReload \/ WriteLooksUp \/ WriteLocks \/ CreateWorker
  \/ AllCreated \/ WaitThread \/ CopyDone \/ SetLen \/ WriteUnlocks \/ ClearReload

-------------------------------------------------------------------------------
(* AUDIO_CP_Thread.  It reads its lane from its creator's loop variable,   *)
(* which the creator goes on changing.                                     *)

ReadLane(w) ==
  /\ worker[w] = "created"
  /\ idx' = [idx EXCEPT ![w] = i] /\ worker' = [worker EXCEPT ![w] = "copy"]
  /\ UNCHANGED <<emulator, slot, monitor, switch_buf, callback, fill, mutex, buffers, history>>

CopyLane(w) ==
  /\ worker[w] = "copy"
  /\ chunk' = [chunk EXCEPT ![fill] = [p \in Places |->
                 IF p \in LanePlaces(idx[w]) /\ block # 0 THEN block ELSE @[p]]]
  /\ worker' = [worker EXCEPT ![w] = "done"] /\ idx' = [idx EXCEPT ![w] = 0]
  /\ UNCHANGED <<emulator, slot, monitor, switch_buf, callback, fill, mutex, ready, len,
                 history>>

Worker(w) == ReadLane(w) \/ CopyLane(w)

-------------------------------------------------------------------------------
(* The loop of exec: the timer and the interrupts *)

\* Another request is kept: the timer has the lowest line.
DoTimer ==
  /\ phase = "intr" /\ slot = "none"
  /\ slot' = "timer"
  /\ UNCHANGED <<emulator, workers, monitor, switch_buf, callback, fill, mutex, buffers, history>>

\* do_intr: the query,
QueryIntr ==
  /\ phase = "intr"
  /\ query' = slot
  /\ phase' = IF slot = "none" THEN "exec" ELSE "ack"
  /\ UNCHANGED <<slot, pc, audio_reload, block, i, started, workers, monitor, switch_buf,
                 callback, fill, mutex, buffers, history>>

\* the acknowledgement, which clears whatever is latched by then, and the
\* handler, timer_event or audio_event.
AckIntr ==
  /\ phase = "ack"
  /\ slot' = "none" /\ phase' = "exec" /\ query' = "none"
  /\ audio_reload' = (audio_reload \/ query = "audio")
  /\ pc' = IF pc = "halted" THEN "test" ELSE pc
  /\ UNCHANGED <<block, i, started, workers, monitor, switch_buf, callback, fill, mutex,
                 buffers, history>>

Loop == DoTimer \/ QueryIntr \/ AckIntr

\* AUDIO_Monitor_Thread
MonitorStep(from, to) == monitor = from /\ monitor' = to /\ started

MonitorTests ==
  /\ MonitorStep("loop", "raise") /\ switch_buf
  /\ UNCHANGED <<emulator, slot, workers, switch_buf, callback, fill, mutex, buffers, history>>

\* The audio line displaces the timer's.
MonitorRaises ==
  /\ MonitorStep("raise", "clear") /\ slot' = "audio"
  /\ UNCHANGED <<emulator, workers, switch_buf, callback, fill, mutex, buffers, history>>

MonitorClears ==
  /\ MonitorStep("clear", "loop") /\ switch_buf' = FALSE
  /\ UNCHANGED <<emulator, slot, workers, callback, fill, mutex, buffers, history>>

Monitor == MonitorTests \/ MonitorRaises \/ MonitorClears

-------------------------------------------------------------------------------
(* fill_audio, the callback *)

CbStep(from, to) ==
  /\ cb = from /\ cb' = to
  /\ UNCHANGED <<emulator, slot, workers, monitor, chunk, written>>

\* audio.c:205
Call ==
  /\ started /\ CbStep("idle", IF play = fill THEN "aborted" ELSE "lock")
  /\ UNCHANGED <<switch_buf, play, fill, mutex, ready, len, heard, sound>>

LockPlay ==
  /\ CbStep("lock", "test") /\ Lock(play, "cb")
  /\ UNCHANGED <<switch_buf, play, fill, ready, len, heard, sound>>

\* Mutant: a chunk is exhausted when its last part is left.
HasSound_Last == len[play] > 1 /\ ready[play]

HasSound == len[play] > 0 /\ ready[play]

TestPlay ==
  /\ CbStep("test", IF HasSound THEN "mix" ELSE "lockfill")
  /\ ready' = IF HasSound THEN ready ELSE [ready EXCEPT ![play] = FALSE]
  /\ UNCHANGED <<switch_buf, play, fill, mutex, len, heard, sound>>

\* The other chunk is waited for, with the mutex of this one held.
LockFill ==
  /\ CbStep("lockfill", "peek") /\ Lock(fill, "cb")
  /\ UNCHANGED <<switch_buf, play, fill, ready, len, heard, sound>>

Peek ==
  /\ CbStep("peek", IF ready[fill] THEN "swap" ELSE "lockfill")
  /\ IF ready[fill] THEN UNCHANGED mutex ELSE Unlock(fill)
  /\ UNCHANGED <<switch_buf, play, fill, ready, len, heard, sound>>

Swap ==
  /\ CbStep("swap", "unlockold")
  /\ fill' = play /\ play' = Other(play)
  /\ UNCHANGED <<switch_buf, mutex, ready, len, heard, sound>>

UnlockOld ==
  /\ CbStep("unlockold", "signal") /\ Unlock(fill)
  /\ UNCHANGED <<switch_buf, play, fill, ready, len, heard, sound>>

Signal ==
  /\ CbStep("signal", "mix") /\ switch_buf' = TRUE
  /\ UNCHANGED <<play, fill, mutex, ready, len, heard, sound>>

Newest(c) == CHOOSE b \in Range(c) : \A d \in Range(c) : d <= b

\* The next part, if there is one: an empty block has none.
Mix ==
  /\ CbStep("mix", "unlock")
  /\ IF len[play] = 0 THEN UNCHANGED <<len, heard, sound>>
     ELSE /\ len' = [len EXCEPT ![play] = @ - 1]
          /\ heard' = heard + 1
          /\ sound' = Newest(chunk[play])
  /\ UNCHANGED <<switch_buf, play, fill, mutex, ready>>

UnlockPlay ==
  /\ CbStep("unlock", "idle") /\ Unlock(play)
  /\ UNCHANGED <<switch_buf, play, fill, ready, len, heard, sound>>

Callback ==
  \/ Call \/ LockPlay \/ TestPlay \/ LockFill \/ Peek \/ Swap \/ UnlockOld \/ Signal \/ Mix
  \/ UnlockPlay

-------------------------------------------------------------------------------
Next == Guest \/ Loop \/ Monitor \/ Callback \/ \E w \in Workers : Worker(w)

Spec == Init /\ [][Next]_vars

\* The host runs every thread.  The callback sleeps a millisecond between two
\* looks at the other chunk, so that a handler waiting for its mutex gets it,
\* and the timer fires again and again.
Fairness ==
  /\ WF_vars(Guest \/ QueryIntr \/ AckIntr) /\ SF_vars(WriteLocks)
  /\ SF_vars(DoTimer)
  /\ WF_vars(Monitor) /\ WF_vars(Callback) /\ SF_vars(LockFill)
  /\ \A w \in Workers : WF_vars(Worker(w))

FairSpec == Spec /\ Fairness

-------------------------------------------------------------------------------
(* What must hold *)

InHandler == pc \in {"create", "join", "len", "unlock"}

\* Values have their types.
TypeOK ==
  /\ phase \in {"exec", "intr", "ack"} /\ {query, slot} \subseteq {"none", "timer", "audio"}
  /\ pc \in {"start", "hlt", "halted", "test", "write", "lock", "create", "join", "len",
            "unlock", "clear"}
  /\ block \in 0 .. NrBlocks /\ i \in 0 .. NUM_AUDIO_WORKER
  /\ worker \in [Workers -> {"none", "created", "copy", "done"}] /\ idx \in [Workers -> 0 .. 2]
  /\ cb \in {"idle", "lock", "test", "lockfill", "peek", "swap", "unlockold", "signal", "mix",
             "unlock", "aborted"}
  /\ {play, fill} \subseteq Chunks /\ mutex \in [Chunks -> {Free, "emu", "cb"}]
  /\ chunk \in [Chunks -> [Places -> 0 .. NrBlocks]]
  /\ ready \in [Chunks -> BOOLEAN] /\ len \in [Chunks -> 0 .. Units]
  /\ written \in 0 .. NrBlocks /\ heard \in 0 .. NrBlocks * Units

\* The handler and the callback look the index of their mutex up again at
\* every use (audio.c:182, 193, 206, 256), and the callback changes both
\* indices: each still holds the mutex of the chunk it works on and releases
\* the one it took, and the assertion of line 205 does not fail.
ChunkOwned ==
  /\ InHandler => mutex[fill] = "emu" /\ mutex[play] # "emu"
  /\ ~InHandler => \A c \in Chunks : mutex[c] # "emu"
  /\ cb \in {"test", "lockfill", "peek", "swap", "mix", "unlock"} => mutex[play] = "cb"
  /\ cb \in {"peek", "swap", "unlockold"} => mutex[fill] = "cb"
  /\ cb # "aborted"

\* The two chunks are a stream: what is written is heard in order, each part
\* once, and no block is overwritten before it was heard.  A block counts as
\* its number, whether or not all of it was copied.
Stream == INSTANCE AudioStream
ImplementsStream == Stream!Spec

\* What has been written is heard in the end, although the callback waits for
\* one mutex with the other in its hands (audio.c:206, 225).
BlocksHeard == \A n \in 1 .. NrBlocks : written >= n ~> heard >= n * Units

\* A chunk that is played is complete (audio.c:247: "should be already ready").
PlaysWholeBlocks ==
  cb = "mix" /\ len[play] > 0 => \A p, q \in Places : chunk[play][p] = chunk[play][q]
===============================================================================
