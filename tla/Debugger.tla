------------------------------- MODULE Debugger -------------------------------
(***************************************************************************)
(* What breakpoints promise to the user of the monitor, without INT3       *)
(* bytes, lists or counters: the program runs its own instructions, and    *)
(* it stops before each instruction that has a breakpoint.  The report     *)
(* holds for the instruction under the program counter; an interrupt that  *)
(* moves the counter away voids it, and the point is reported again.       *)
(***************************************************************************)
CONSTANTS Addr, Handlers      \* where instructions and handlers start

VARIABLES
  pc,         \* the next instruction
  points,     \* the addresses that have a breakpoint
  reported,   \* the user was told that pc is at a breakpoint
  mode        \* running, about to stop, or stopped

view == <<pc, points, reported, mode>>

Init ==
  /\ pc \in Addr /\ points = {} /\ reported = FALSE /\ mode = "stopped"

Set(a) ==
  /\ mode = "stopped"
  /\ points' = points \cup {a}
  /\ UNCHANGED <<pc, reported, mode>>

Clear(A) ==
  /\ mode = "stopped"
  /\ points' = points \ A
  /\ reported' = (reported /\ pc \notin A)
  /\ UNCHANGED <<pc, mode>>

Resume ==
  /\ mode = "stopped" /\ mode' = "running"
  /\ UNCHANGED <<pc, points, reported>>

\* An instruction under a breakpoint runs only after a report; it may be one
\* that stops the program.
Execute ==
  /\ mode = "running" /\ (pc \in points => reported)
  /\ pc' \in Addr /\ reported' = FALSE
  /\ mode' \in {"running", "stopping", "stopped"}
  /\ UNCHANGED points

Report ==
  /\ mode = "running" /\ pc \in points /\ ~reported
  /\ reported' = TRUE /\ mode' = "stopping"
  /\ UNCHANGED <<pc, points>>

Interrupt ==
  /\ mode # "stopped" /\ pc' \in Handlers
  /\ reported' = FALSE /\ mode' \in {mode, "stopped"}
  /\ UNCHANGED points

Stop ==
  /\ mode # "stopped" /\ mode' = "stopped"
  /\ UNCHANGED <<pc, points, reported>>

Next ==
  \/ Resume \/ Execute \/ Report \/ Interrupt \/ Stop
  \/ \E a \in Addr : Set(a)
  \/ \E A \in SUBSET Addr : Clear(A)

Spec == Init /\ [][Next]_view

===============================================================================
