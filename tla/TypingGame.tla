------------------------------ MODULE TypingGame ------------------------------
(***************************************************************************)
(* The typing game on NEMU: the main loop (game/src/typing/game.c), its    *)
(* letters (effect.c) in a pool of list nodes, its key flags (keyboard.c), *)
(* the two interrupt handlers, and the devices and the controller that     *)
(* call them (nemu/src/device).                                            *)
(*                                                                         *)
(* The main loop and the handlers share tick and the key flags; cli and    *)
(* sti keep them apart, and one path of update_keypress returns without    *)
(* the sti.                                                                *)
(*                                                                         *)
(* tick and now count for ever.  The model keeps their differences, due    *)
(* (tick - now) and todo (target - now), and now modulo CreateEvery.       *)
(* Positions and speeds are in half pixels.                                *)
(***************************************************************************)
EXTENDS I8259, LinkList

CONSTANTS
  Letters,
  Bottom,       \* the lowest position on the screen, 384 in the code
  Up,           \* speed of a letter that was struck, 6 in the code
  CreateEvery,  \* HZ / CHARACTER_PER_SECOND ticks, 33 in the code
  Wrap,         \* values of a score, 2^32 in the code
  MaxDue        \* bound: ticks the main loop may be behind when it sleeps

ASSUME GameAssumption ==
  /\ Bottom \in Nat \ {0} /\ Up \in Nat \ {0} /\ CreateEvery \in Nat \ {0, 1}
  /\ Wrap \in Nat \ {0} /\ MaxDue \in Nat \ {0}

\* Letters leave the screen before the pool is used up: one that is struck at the
\* bottom takes Bottom + Bottom / Up ticks (384 * 7 < 6 * 33 * 1000 in the code).
ASSUME PoolAssumption == Bottom * (1 + Up) < Up * CreateEvery * SIZE

VARIABLES
  due, todo, now,      \* tick - now, target - now, now % CreateEvery
  list, head,          \* the pool of nodes, the first letter
  fly,                 \* per node: x, v, text
  letter_pressed, hit, miss,
  pc,                  \* where the main loop is
  irq,                 \* the handler that runs
  IFlag, slot,         \* interrupts are on; i8259_intr_no
  scan_code_buf        \* the last key event: a letter, or another code

time == <<due, todo, now>>
letters == <<list, head, fly>>
score == <<hit, miss>>
machine == <<irq, IFlag, slot, scan_code_buf>>
vars == <<due, todo, now, list, head, fly, letter_pressed, hit, miss, pc,
          irq, IFlag, slot, scan_code_buf>>

TIMER_IRQ == 0
KEYBOARD_IRQ == 1

OtherCode == "other"   \* a key that is no letter, or one that is released

ASSUME CodeAssumption == OtherCode \notin Letters

\* The content of a free node, which nothing reads.
Blank == [x |-> 0, v |-> 0, text |-> OtherCode]

\* When the main loop starts, kernel and game have set up both handlers.
Init ==
  /\ due = 0 /\ todo = 0 /\ now = 0
  /\ list = Pool /\ head = NULL
  /\ fly = [n \in Nodes |-> Blank]
  /\ letter_pressed = [k \in Letters |-> FALSE]
  /\ hit = 0 /\ miss = 0
  /\ pc = "hlt" /\ irq = "none" /\ IFlag = TRUE /\ slot = NO_INTR
  /\ scan_code_buf = OtherCode

-------------------------------------------------------------------------------
(* The main loop *)

At(step) == irq = "none" /\ pc = step

Hlt ==
  /\ At("hlt")
  /\ pc' = "halted"
  /\ UNCHANGED <<time, letters, letter_pressed, score, machine>>

Cli ==
  /\ At("cli")
  /\ IFlag' = FALSE /\ pc' = "compare"
  /\ UNCHANGED <<time, letters, letter_pressed, score, irq, slot, scan_code_buf>>

\* Mutant: the keys are looked at only when the game is not late.
Compare_LateSkipsKeys ==
  /\ At("compare")
  /\ IF due = 0 THEN pc' = "hlt" /\ UNCHANGED todo ELSE pc' = "ticks" /\ todo' = due
  /\ IFlag' = TRUE
  /\ UNCHANGED <<due, now, letters, letter_pressed, score, irq, slot, scan_code_buf>>

\* now == tick: back to hlt; else target = tick.
Compare ==
  /\ At("compare")
  /\ IF due = 0 THEN pc' = "hlt" /\ UNCHANGED todo ELSE pc' = "keys" /\ todo' = due
  /\ IFlag' = TRUE
  /\ UNCHANGED <<due, now, letters, letter_pressed, score, irq, slot, scan_code_buf>>

\* update_keypress: cli, then the search for the letter to strike
Keys ==
  /\ At("keys")
  /\ IFlag' = FALSE /\ pc' = "search"
  /\ UNCHANGED <<time, letters, letter_pressed, score, irq, slot, scan_code_buf>>

OnScreen == Members(Chain(list, head))

Falling(n) == fly[n].v > 0

Candidates == {n \in OnScreen : Falling(n) /\ letter_pressed[fly[n].text]}

\* The lowest candidate, the first in the list of those.
Target(n) ==
  LET order == Chain(list, head)
      Rank(m) == CHOOSE i \in 1 .. Len(order) : order[i] = m
  IN  /\ n \in Candidates
      /\ \A m \in Candidates :
           fly[m].x < fly[n].x \/ (fly[m].x = fly[n].x /\ Rank(n) <= Rank(m))

\* update_keypress returns true, with interrupts off, and is called again.
Strike ==
  /\ At("search")
  /\ \E n \in OnScreen :
       /\ Target(n)
       /\ letter_pressed' = [letter_pressed EXCEPT ![fly[n].text] = FALSE]
       /\ fly' = [fly EXCEPT ![n].v = -Up]
  /\ pc' = "keys"
  /\ UNCHANGED <<time, list, head, score, machine>>

\* Mutant: the sti is forgotten.
NoStrike_NoSti ==
  /\ At("search") /\ Candidates = {}
  /\ pc' = "ticks"
  /\ UNCHANGED <<time, letters, letter_pressed, score, machine>>

NoStrike ==
  /\ At("search") /\ Candidates = {}
  /\ IFlag' = TRUE /\ pc' = "ticks"
  /\ UNCHANGED <<time, letters, letter_pressed, score, irq, slot, scan_code_buf>>

\* while (now < target); drawing changes nothing the loop depends on.
Ticks ==
  /\ At("ticks")
  /\ pc' = IF todo = 0 THEN "hlt" ELSE IF now = 0 THEN "create" ELSE "update"
  /\ UNCHANGED <<time, letters, letter_pressed, score, machine>>

\* create_new_letter.  The speed is (rand() % 1000) / 2000 + 0.5, and the
\* division is one of integers.
Create(t) ==
  /\ At("create")
  /\ LET n == Fresh(list)
     IN  /\ list' = IF head = NULL THEN New(list) ELSE Insert(New(list), head, n)
         /\ head' = n
         /\ fly' = [fly EXCEPT ![n] = [x |-> 0, v |-> 1, text |-> t]]
  /\ letter_pressed' = [letter_pressed EXCEPT ![t] = FALSE]
  /\ pc' = "update"
  /\ UNCHANGED <<time, score, machine>>

\* Letter s.it leaves the screen at x: hit when it was struck, else missed.
Left(s, x) ==
  LET next == s.list.next[s.it]
  IN  [s EXCEPT !.list = Free(Remove(s.list, s.it), s.it), !.fly[s.it] = Blank,
                !.head = IF s.it = @ THEN next ELSE @,
                !.hit = IF x < 0 THEN (@ + 1) % Wrap ELSE @,
                !.miss = IF x < 0 THEN @ ELSE (@ + 1) % Wrap]

\* Mutants: the next node is taken from the node that was freed; letters may
\* fall below the screen.
Moved_NextAfterFree(s) ==
  LET x == s.fly[s.it].x + s.fly[s.it].v
      t == IF x \in 0 .. Bottom THEN [s EXCEPT !.fly[s.it].x = x] ELSE Left(s, x)
  IN  [t EXCEPT !.it = t.list.next[s.it]]

Moved_NoBottom(s) ==
  LET x == s.fly[s.it].x + s.fly[s.it].v
      t == IF x >= 0 THEN [s EXCEPT !.fly[s.it].x = x] ELSE Left(s, x)
  IN  [t EXCEPT !.it = s.list.next[s.it]]

\* One turn of the loop of update_letter_pos, at node s.it.
Moved(s) ==
  LET x == s.fly[s.it].x + s.fly[s.it].v
      t == IF x \in 0 .. Bottom THEN [s EXCEPT !.fly[s.it].x = x] ELSE Left(s, x)
  IN  [t EXCEPT !.it = s.list.next[s.it]]

\* The loop of update_letter_pos: for (it = head; it != NULL;).  The list has at
\* most SIZE letters, so this many turns end it.
Walked(start) ==
  LET s[k \in 0 .. SIZE + 1] ==
        IF k = 0 THEN start
        ELSE IF s[k - 1].it = NULL THEN s[k - 1] ELSE Moved(s[k - 1])
  IN  s[SIZE + 1]

\* update_letter_pos, and the end of the turn of the main loop.  The handlers
\* touch nothing it uses, so it is one step.
Update ==
  /\ At("update")
  /\ LET end == Walked([it |-> head, head |-> head, list |-> list, fly |-> fly,
                       hit |-> hit, miss |-> miss])
     IN  /\ list' = end.list /\ head' = end.head /\ fly' = end.fly
         /\ hit' = end.hit /\ miss' = end.miss
  /\ due' = due - 1 /\ todo' = todo - 1 /\ now' = (now + 1) % CreateEvery
  /\ pc' = "ticks"
  /\ UNCHANGED <<letter_pressed, machine>>

MainStep ==
  \/ Hlt \/ Cli \/ Compare \/ Keys \/ Strike \/ NoStrike \/ Ticks \/ Update
  \/ \E t \in Letters : Create(t)

-------------------------------------------------------------------------------
(* Devices and handlers *)

Raise(line) == slot' = Latch(slot, line)

TimerTick ==
  /\ due < MaxDue \/ (due = MaxDue /\ pc = "halted")
  /\ Raise(TIMER_IRQ)
  /\ UNCHANGED <<time, letters, letter_pressed, score, pc, irq, IFlag, scan_code_buf>>

KeyEvent(code) ==
  /\ scan_code_buf' = code
  /\ Raise(KEYBOARD_IRQ)
  /\ UNCHANGED <<time, letters, letter_pressed, score, pc, irq, IFlag>>

Woken == IF pc = "halted" THEN "cli" ELSE pc

Delivers(line) == irq = "none" /\ IFlag /\ slot = Vector(line)

\* Mutant: the interrupt does not wake the CPU.
TimerIntr_NoWake ==
  /\ Delivers(TIMER_IRQ)
  /\ slot' = NO_INTR /\ due' = due + 1
  /\ UNCHANGED <<todo, now, letters, letter_pressed, score, irq, IFlag, pc, scan_code_buf>>

\* timer_event; nothing comes between it and the iret.
TimerIntr ==
  /\ Delivers(TIMER_IRQ)
  /\ slot' = NO_INTR /\ due' = due + 1
  /\ pc' = Woken
  /\ UNCHANGED <<todo, now, letters, letter_pressed, score, irq, IFlag, scan_code_buf>>

KeyIntr ==
  /\ Delivers(KEYBOARD_IRQ)
  /\ slot' = NO_INTR /\ IFlag' = FALSE /\ irq' = "keyboard"
  /\ pc' = Woken
  /\ UNCHANGED <<time, letters, letter_pressed, score, scan_code_buf>>

\* keyboard_event reads the code that is in the buffer by now.
KeyboardEvent ==
  /\ irq = "keyboard"
  /\ letter_pressed' = [k \in Letters |-> letter_pressed[k] \/ k = scan_code_buf]
  /\ irq' = "none" /\ IFlag' = TRUE
  /\ UNCHANGED <<time, letters, score, pc, slot, scan_code_buf>>

Next ==
  \/ MainStep
  \/ TimerTick \/ TimerIntr \/ KeyIntr \/ KeyboardEvent
  \/ \E code \in Letters \cup {OtherCode} : KeyEvent(code)

Spec == Init /\ [][Next]_vars

\* The CPU executes instructions, also between two key events, and interrupts
\* are on and no event is latched again and again: the keyboard is polled once
\* in a millisecond.  Ticks go on, whatever the CPU does.
Fairness ==
  /\ SF_vars(MainStep) /\ WF_vars(KeyIntr \/ KeyboardEvent) /\ SF_vars(TimerIntr)
  /\ SF_vars(TimerTick /\ IFlag /\ slot = NO_INTR)
  /\ []<>(IFlag /\ slot = NO_INTR)

FairSpec == Spec /\ Fairness

-------------------------------------------------------------------------------
(* Properties *)

Steps == {"hlt", "halted", "cli", "compare", "keys", "search", "ticks", "create", "update"}

Flies == [x : 0 .. Bottom, v : {1, -Up}, text : Letters]

\* A position is on the screen whenever the letters may be drawn: the
\* assertion of draw_pixel.
TypeOK ==
  /\ due \in 0 .. MaxDue + 1 /\ todo \in 0 .. due /\ now \in 0 .. CreateEvery - 1
  /\ list \in Pools /\ head \in Nodes \cup {NULL}
  /\ fly \in [Nodes -> Flies \cup {Blank}] /\ \A n \in OnScreen : fly[n] \in Flies
  /\ letter_pressed \in [Letters -> BOOLEAN]
  /\ hit \in 0 .. Wrap - 1 /\ miss \in 0 .. Wrap - 1
  /\ pc \in Steps /\ irq \in {"none", "keyboard"} /\ IFlag \in BOOLEAN
  /\ slot \in Slots /\ scan_code_buf \in Letters \cup {OtherCode}

\* The list is linked both ways and no node is lost, in it twice, or in use
\* and free at the same time, although nodes are freed while it is walked.
ListIntact == WellLinked(list, head)

\* The assertion of fly_new: letters leave as fast as they come.
PoolSuffices == pc = "create" => HasFree(list)

\* The main loop never sleeps with interrupts off, although update_keypress
\* leaves them off when it has struck a letter.
SleepsListening == pc \in {"hlt", "halted"} /\ irq = "none" => IFlag

\* The game is the one of the rules, with the letters in the order of the list.
Shown == LET order == Chain(list, head) IN [i \in 1 .. Len(order) |-> fly[order[i]]]
Pressed == {k \in Letters : letter_pressed[k]}
Created == pc = "update" /\ now = 0

Rules == INSTANCE TypingRules WITH letters <- Shown, pressed <- Pressed, created <- Created

ImplementsRules == Rules!Spec

\* The game keeps up: ticks come for ever, due never exceeds its bound (TypeOK),
\* and ticks are simulated for ever, so every tick that was counted is.
TicksSimulated == []<><<Update>>_vars

\* A key that is pressed while a letter shows it and will not have left the
\* screen when the ticks that were already taken up are simulated is used, or
\* cleared for a new letter: it is not left to strike a letter to come.
KeyAnswered ==
  \A k \in Letters :
    (/\ letter_pressed[k]
     /\ \E n \in OnScreen : fly[n].text = k /\ Falling(n) /\ fly[n].x + todo <= Bottom)
    ~> ~letter_pressed[k]

===============================================================================
