--------------------------- MODULE TypingGameProofs ---------------------------
(***************************************************************************)
(* Proofs about TypingGame, for every set of letters and all speeds, sizes *)
(* and intervals that let the letters leave the screen in time.            *)
(*                                                                         *)
(* What the main loop and the two handlers share: the loop never sleeps    *)
(* deaf, and never simulates a tick that has not been.                     *)
(*                                                                         *)
(* What the main loop does to the list: Order, the letters along _next,    *)
(* and Rest, the free chain, hold every node once (IsPool), and New,       *)
(* Remove and Free move a node from the one to the other.  WalkInv is the  *)
(* invariant of the loop of update_letter_pos, which does so while it      *)
(* walks the list.  AgeInv says how far a letter has come for its age, so  *)
(* that the oldest has left before the pool is used up.  Together they     *)
(* make every step of the game one of TypingRules, or a stutter.           *)
(***************************************************************************)
EXTENDS TypingGame, SequenceTheorems, FiniteSetTheorems, WellFoundedInduction, TLAPS

(* Interrupts and sleep *)

\* Interrupts are off only where cli has been and sti has not, and in the
\* keyboard handler, which comes only while they are on.
FlagInv ==
  /\ pc \in Steps /\ irq \in {"none", "keyboard"} /\ IFlag \in BOOLEAN
  /\ irq = "none" /\ pc \notin {"compare", "keys", "search"} => IFlag
  /\ irq = "keyboard" => ~IFlag
  /\ pc \in {"compare", "search"} => ~IFlag /\ irq = "none"

LEMMA FlagStep == FlagInv /\ [Next]_vars => FlagInv'
  <1> SUFFICES ASSUME FlagInv, [Next]_vars PROVE FlagInv'
    OBVIOUS
  <1> USE DEF FlagInv, Steps
  <1>1. CASE MainStep
    BY <1>1 DEF MainStep, Hlt, Cli, Compare, Keys, Strike, NoStrike, Ticks, Update, Create, At,
                machine
  <1>2. CASE TimerTick
    BY <1>2 DEF TimerTick
  <1>3. CASE TimerIntr
    BY <1>3 DEF TimerIntr, Delivers, Woken
  <1>4. CASE KeyIntr
    BY <1>4 DEF KeyIntr, Delivers, Woken
  <1>5. CASE KeyboardEvent
    BY <1>5 DEF KeyboardEvent
  <1>6. ASSUME NEW code \in Letters \cup {OtherCode}, KeyEvent(code) PROVE FlagInv'
    BY <1>6 DEF KeyEvent
  <1>7. CASE UNCHANGED vars
    BY <1>7 DEF vars
  <1> QED
    BY <1>1, <1>2, <1>3, <1>4, <1>5, <1>6, <1>7 DEF Next

\* The main loop never sleeps with interrupts off, although update_keypress
\* returns with them off when it has struck a letter (effect.c:97).
THEOREM Listening == Spec => []SleepsListening
  <1>1. Init => FlagInv
    BY DEF Init, FlagInv, Steps
  <1>2. FlagInv => SleepsListening
    BY DEF FlagInv, SleepsListening
  <1> QED
    BY <1>1, <1>2, FlagStep, PTL DEF Spec

-------------------------------------------------------------------------------
(* Ticks *)

\* What is being simulated has been counted, and is not over before its turn
\* ends; the bound of TimerTick is a bound of due.
BacklogInv ==
  /\ due \in 0 .. MaxDue + 1 /\ todo \in 0 .. due
  /\ slot = Vector(TIMER_IRQ) => due <= MaxDue
  /\ pc \in {"create", "update"} => todo > 0

LEMMA BacklogStep == BacklogInv /\ [Next]_vars => BacklogInv'
  <1> SUFFICES ASSUME BacklogInv, [Next]_vars PROVE BacklogInv'
    OBVIOUS
  <1> USE GameAssumption
      DEF BacklogInv, time, machine, Vector, TIMER_IRQ, KEYBOARD_IRQ, IRQ_BASE, NO_INTR
  <1>1. CASE Compare \/ Ticks
    BY <1>1 DEF Compare, Ticks, At
  <1>2. CASE Update
    <2>1. todo > 0 /\ due' = due - 1 /\ todo' = todo - 1 /\ pc' = "ticks" /\ slot' = slot
      BY <1>2 DEF Update, At
    <2> QED
      BY <2>1
  <1>3. CASE Hlt \/ Cli \/ Keys \/ Strike \/ NoStrike \/ \E t \in Letters : Create(t)
    BY <1>3 DEF Hlt, Cli, Keys, Strike, NoStrike, Create, At
  <1>4. CASE TimerTick
    BY <1>4 DEF TimerTick
  <1>5. CASE TimerIntr
    BY <1>5 DEF TimerIntr, Delivers, Woken
  <1>6. CASE KeyIntr \/ KeyboardEvent
    BY <1>6 DEF KeyIntr, KeyboardEvent, Delivers, Woken
  <1>7. ASSUME NEW code \in Letters \cup {OtherCode}, KeyEvent(code) PROVE BacklogInv'
    BY <1>7 DEF KeyEvent, Raise, Latch
  <1>8. CASE UNCHANGED vars
    BY <1>8 DEF vars
  <1> QED
    BY <1>1, <1>2, <1>3, <1>4, <1>5, <1>6, <1>7, <1>8 DEF Next, MainStep

\* The game never simulates a tick that has not come: now <= tick, so that the
\* assertion now < tick (game.c:51), made when they differ, holds.
THEOREM NeverAhead == Spec => [](due >= 0 /\ todo <= due)
  <1>1. Init => BacklogInv
    BY GameAssumption DEF Init, BacklogInv, Vector, IRQ_BASE, TIMER_IRQ, NO_INTR
  <1>2. BacklogInv => due >= 0 /\ todo <= due
    BY DEF BacklogInv
  <1> QED
    BY <1>1, <1>2, BacklogStep, PTL DEF Spec

-------------------------------------------------------------------------------
(* Induction *)

\* Induction, with a set for the property: no instance of an operator is needed.
LEMMA SetInduction ==
  ASSUME NEW S, 0 \in S, \A n \in Nat : n \in S => n + 1 \in S
  PROVE  Nat \subseteq S
  <1> SUFFICES ASSUME NEW m \in Nat \ S PROVE FALSE
    OBVIOUS
  <1> DEFINE I == Nat \ S
  <1>1. PICK x \in I : \A y \in I : ~(<<y, x>> \in OpToRel(<, Nat))
    BY NatLessThanWellFounded, WFMin
  <1>2. x # 0 /\ x - 1 \in Nat
    OBVIOUS
  <1>3. x - 1 \in I
    BY <1>2
  <1>4. <<x - 1, x>> \in OpToRel(<, Nat)
    BY <1>2 DEF OpToRel
  <1> QED
    BY <1>1, <1>3, <1>4

-------------------------------------------------------------------------------
(* The list of letters: its nodes, in the order of the links *)

\* The node after the i-th one.
After(s, i) == IF i = Len(s) THEN NULL ELSE s[i + 1]

\* s lists the nodes of the list that starts at n.
Linked(l, n, s) ==
  /\ s \in Seq(Nodes)
  /\ n = After(s, 0)
  /\ \A i \in 1 .. Len(s) : l.next[s[i]] = After(s, i)

LEMMA NullIsNoNode == NULL \notin Nodes
  BY SizeAssumption DEF Nodes, NULL

\* The nodes of a list are what Chain finds along _next.
LEMMA ChainIs ==
  ASSUME NEW l, NEW n, NEW s, Linked(l, n, s), Len(s) <= SIZE + 1
  PROVE  Chain(l, n) = s
  <1> DEFINE next == [m \in Nodes \cup {NULL} |-> IF m = NULL THEN NULL ELSE l.next[m]]
             Is(f) == f = [k \in Nodes |-> IF k = 0 THEN n ELSE next[f[k - 1]]]
             g == [k \in Nodes |-> IF k < Len(s) THEN s[k + 1] ELSE NULL]
             at == CHOOSE f : Is(f)
  <1>0. s \in Seq(Nodes) /\ Len(s) \in Nat /\ \A i \in 1 .. Len(s) : s[i] \in Nodes
    BY DEF Linked
  <1>1. Is(g)
    <2> SUFFICES ASSUME NEW k \in Nodes
                 PROVE  g[k] = IF k = 0 THEN n ELSE next[g[k - 1]]
      BY SizeAssumption, <1>0 DEF Nodes
    <2>1. CASE k = 0
      BY <2>1, <1>0 DEF Linked, After
    <2>2. CASE k # 0
      <3>1. k - 1 \in Nodes /\ k \in Nat
        BY <2>2, SizeAssumption DEF Nodes
      <3>2. CASE k - 1 < Len(s)
        <4>1. g[k - 1] = s[k] /\ s[k] \in Nodes /\ l.next[s[k]] = After(s, k)
          BY <3>1, <3>2, <2>2, <1>0 DEF Linked
        <4> QED
          BY <4>1, <3>1, <3>2, <2>2, <1>0, NullIsNoNode DEF After
      <3>3. CASE ~(k - 1 < Len(s))
        BY <3>1, <3>3, <2>2, <1>0
      <3> QED
        BY <3>2, <3>3
    <2> QED
      BY <2>1, <2>2
  <1>2. Is(at)
    <2> HIDE DEF Is, g
    <2> QED
      BY <1>1
  <1>3. /\ \A k \in Nodes : at[k] = IF k = 0 THEN n ELSE next[at[k - 1]]
        /\ \A k \in Nodes : g[k] = IF k = 0 THEN n ELSE next[g[k - 1]]
    <2> HIDE DEF at, g, next
    <2> QED
      BY <1>1, <1>2
  <1>4. Chain(l, n) = [i \in 1 .. Cardinality({k \in Nodes : at[k] # NULL}) |-> at[i - 1]]
    BY DEF Chain
  <1> HIDE DEF at, Is, next
  <1>5. \A k \in Nodes : at[k] = g[k]
    <2> DEFINE S == {k \in Nat : k \in Nodes => at[k] = g[k]}
    <2> HIDE DEF g
    <2>1. 0 \in S
      BY <1>3, SizeAssumption DEF Nodes
    <2>2. ASSUME NEW k \in Nat, k \in S PROVE k + 1 \in S
      <3> SUFFICES ASSUME k + 1 \in Nodes PROVE at[k + 1] = g[k + 1]
        OBVIOUS
      <3>1. k \in Nodes /\ k + 1 # 0 /\ (k + 1) - 1 = k
        BY SizeAssumption DEF Nodes
      <3>2. at[k] = g[k]
        BY <3>1, <2>2
      <3> HIDE DEF S
      <3> QED
        BY <3>1, <3>2, <1>3
    <2>3. Nat \subseteq S
      <3> HIDE DEF S
      <3> QED
        BY <2>1, <2>2, SetInduction
    <2>4. \A k \in Nodes : k \in Nat
      BY SizeAssumption DEF Nodes
    <2> QED
      BY <2>3, <2>4
  <1>6. {k \in Nodes : at[k] # NULL} = 0 .. Len(s) - 1
    <2>1. \A k \in Nodes : at[k] # NULL <=> k < Len(s)
      <3> SUFFICES ASSUME NEW k \in Nodes PROVE g[k] # NULL <=> k < Len(s)
        BY <1>5
      <3>1. k < Len(s) => k + 1 \in 1 .. Len(s)
        BY <1>0, SizeAssumption DEF Nodes
      <3> QED
        BY <3>1, <1>0, NullIsNoNode
    <2> QED
      BY <2>1, <1>0, SizeAssumption DEF Nodes
  <1>7. Cardinality(0 .. Len(s) - 1) = Len(s)
    <2> DEFINE b == Len(s) - 1
    <2>1. b \in Int /\ 0 \in Int /\ b + 1 = Len(s) /\ b >= -1
      BY <1>0
    <2> HIDE DEF b
    <2>2. Cardinality(0 .. b) = IF 0 > b THEN 0 ELSE b - 0 + 1
      BY <2>1, FS_Interval
    <2>3. Cardinality(0 .. b) = b + 1
      BY <2>1, <2>2
    <2> QED
      BY <2>1, <2>3 DEF b
  <1>8. \A i \in 1 .. Len(s) : at[i - 1] = s[i]
    <2> SUFFICES ASSUME NEW i \in 1 .. Len(s) PROVE at[i - 1] = s[i]
      OBVIOUS
    <2>1. i - 1 \in Nodes /\ i - 1 < Len(s) /\ (i - 1) + 1 = i
      BY <1>0, SizeAssumption DEF Nodes
    <2> QED
      BY <2>1, <1>5
  <1>9. s = [i \in 1 .. Len(s) |-> s[i]]
    BY <1>0
  <1>10. Chain(l, n) = [i \in 1 .. Len(s) |-> at[i - 1]]
    BY <1>4, <1>6, <1>7
  <1> HIDE DEF g
  <1>11. [i \in 1 .. Len(s) |-> at[i - 1]] = [i \in 1 .. Len(s) |-> s[i]]
    BY <1>8
  <1> QED
    BY <1>9, <1>10, <1>11

\* s with n before it, and s without its i-th element.
Prepended(n, s) == [i \in 1 .. Len(s) + 1 |-> IF i = 1 THEN n ELSE s[i - 1]]
Without(s, i) == [j \in 1 .. Len(s) - 1 |-> IF j < i THEN s[j] ELSE s[j + 1]]

LEMMA PrependedIs ==
  ASSUME NEW S, NEW s \in Seq(S), NEW n \in S
  PROVE  /\ Prepended(n, s) \in Seq(S) /\ Len(Prepended(n, s)) = Len(s) + 1
         /\ Len(s) \in Nat
         /\ Prepended(n, s)[1] = n
         /\ \A i \in 2 .. Len(s) + 1 : Prepended(n, s)[i] = s[i - 1]
  <1>1. Len(s) \in Nat /\ \A i \in 1 .. Len(s) : s[i] \in S
    OBVIOUS
  <1>2. \A i \in 1 .. Len(s) + 1 : i # 1 => i - 1 \in 1 .. Len(s)
    BY <1>1
  <1>3. Prepended(n, s) \in [1 .. Len(s) + 1 -> S]
    BY <1>1, <1>2 DEF Prepended
  <1>4. Prepended(n, s) \in Seq(S) /\ Len(Prepended(n, s)) = Len(s) + 1
    BY <1>1, <1>3
  <1> QED
    BY <1>1, <1>4 DEF Prepended

LEMMA PrependedNode ==
  ASSUME NEW s \in Seq(Nodes), NEW n \in Nodes
  PROVE  /\ Prepended(n, s) \in Seq(Nodes) /\ Len(Prepended(n, s)) = Len(s) + 1
         /\ Len(s) \in Nat
         /\ Prepended(n, s)[1] = n
         /\ \A i \in 2 .. Len(s) + 1 : Prepended(n, s)[i] = s[i - 1]
  BY PrependedIs

LEMMA WithoutIs ==
  ASSUME NEW S, NEW s \in Seq(S), NEW i \in 1 .. Len(s)
  PROVE  /\ Without(s, i) \in Seq(S) /\ Len(Without(s, i)) = Len(s) - 1
         /\ Len(s) \in Nat \ {0} /\ s[i] \in S
         /\ \A j \in 1 .. Len(s) - 1 : j < i => Without(s, i)[j] = s[j]
         /\ \A j \in 1 .. Len(s) - 1 : j >= i => Without(s, i)[j] = s[j + 1]
  <1>1. Len(s) \in Nat \ {0} /\ \A j \in 1 .. Len(s) : s[j] \in S
    OBVIOUS
  <1>2. \A j \in 1 .. Len(s) - 1 : j \in 1 .. Len(s) /\ j + 1 \in 1 .. Len(s)
    BY <1>1
  <1>3. Without(s, i) \in [1 .. Len(s) - 1 -> S]
    BY <1>1, <1>2 DEF Without
  <1>4. Without(s, i) \in Seq(S) /\ Len(Without(s, i)) = Len(s) - 1
    BY <1>1, <1>3
  <1> QED
    BY <1>1, <1>4 DEF Without

\* Every node is in one of the two sequences, once.
Split(s, r) ==
  /\ s \in Seq(Nodes) /\ r \in Seq(Nodes) /\ Len(s) + Len(r) = SIZE + 1
  /\ \A i, j \in 1 .. Len(s) : s[i] = s[j] => i = j
  /\ \A i, j \in 1 .. Len(r) : r[i] = r[j] => i = j
  /\ \A i \in 1 .. Len(s) : \A j \in 1 .. Len(r) : s[i] # r[j]
  /\ \A n \in Nodes : \/ \E i \in 1 .. Len(s) : n = s[i]
                      \/ \E j \in 1 .. Len(r) : n = r[j]

LEMMA SplitSym == ASSUME NEW s, NEW r, Split(s, r) PROVE Split(r, s)
  BY DEF Split

\* A node moves from one of the two to the other.
LEMMA MoveOne ==
  ASSUME NEW s, NEW r, Split(s, r), NEW i \in 1 .. Len(s)
  PROVE  Split(Without(s, i), Prepended(s[i], r))
  <1> DEFINE t == Without(s, i)
             q == Prepended(s[i], r)
  <1>1. s \in Seq(Nodes) /\ r \in Seq(Nodes) /\ s[i] \in Nodes
    BY DEF Split
  <1>2. /\ t \in Seq(Nodes) /\ Len(t) = Len(s) - 1 /\ Len(s) \in Nat \ {0}
        /\ \A j \in 1 .. Len(s) - 1 : j < i => t[j] = s[j]
        /\ \A j \in 1 .. Len(s) - 1 : j >= i => t[j] = s[j + 1]
    BY <1>1, WithoutIs
  <1>3. /\ q \in Seq(Nodes) /\ Len(q) = Len(r) + 1 /\ Len(r) \in Nat
        /\ q[1] = s[i] /\ \A j \in 2 .. Len(r) + 1 : q[j] = r[j - 1]
    <2> DEFINE n == s[i]
    <2>1. r \in Seq(Nodes) /\ n \in Nodes
      BY <1>1
    <2> HIDE DEF n, t, q
    <2>2. /\ Prepended(n, r) \in Seq(Nodes) /\ Len(Prepended(n, r)) = Len(r) + 1
          /\ Prepended(n, r)[1] = n
          /\ \A j \in 2 .. Len(r) + 1 : Prepended(n, r)[j] = r[j - 1]
      BY <2>1, PrependedNode
    <2> QED
      BY <2>1, <2>2 DEF n, q
  <1> HIDE DEF t, q
  <1>4. \A j \in 1 .. Len(t) : \E k \in 1 .. Len(s) :
          t[j] = s[k] /\ k # i /\ k = IF j < i THEN j ELSE j + 1
    BY <1>2
  <1>5. \A j \in 1 .. Len(q) : j = 1 \/ (j - 1 \in 1 .. Len(r) /\ q[j] = r[j - 1])
    BY <1>3
  <1>6. \A j, k \in 1 .. Len(t) : t[j] = t[k] => j = k
    <2> SUFFICES ASSUME NEW j \in 1 .. Len(t), NEW k \in 1 .. Len(t), t[j] = t[k]
                 PROVE  j = k
      OBVIOUS
    <2>1. PICK a \in 1 .. Len(s) : t[j] = s[a] /\ a = IF j < i THEN j ELSE j + 1
      BY <1>4
    <2>2. PICK b \in 1 .. Len(s) : t[k] = s[b] /\ b = IF k < i THEN k ELSE k + 1
      BY <1>4
    <2>3. a = b
      BY <2>1, <2>2 DEF Split
    <2> QED
      BY <2>1, <2>2, <2>3, <1>2
  <1>7. \A j, k \in 1 .. Len(q) : q[j] = q[k] => j = k
    <2> SUFFICES ASSUME NEW j \in 1 .. Len(q), NEW k \in 1 .. Len(q), q[j] = q[k]
                 PROVE  j = k
      OBVIOUS
    <2>1. CASE j = 1 \/ k = 1
      BY <2>1, <1>3, <1>5 DEF Split
    <2>2. CASE j # 1 /\ k # 1
      <3>1. /\ j - 1 \in 1 .. Len(r) /\ q[j] = r[j - 1] /\ k - 1 \in 1 .. Len(r)
            /\ q[k] = r[k - 1]
        BY <2>2, <1>5
      <3>2. j - 1 = k - 1
        BY <3>1 DEF Split
      <3> QED
        BY <3>2
    <2> QED
      BY <2>1, <2>2
  <1>8. \A j \in 1 .. Len(t) : \A k \in 1 .. Len(q) : t[j] # q[k]
    <2> SUFFICES ASSUME NEW j \in 1 .. Len(t), NEW k \in 1 .. Len(q) PROVE t[j] # q[k]
      OBVIOUS
    <2>1. PICK a \in 1 .. Len(s) : t[j] = s[a] /\ a # i
      BY <1>4
    <2> QED
      BY <2>1, <1>3, <1>5 DEF Split
  <1>9. \A n \in Nodes : \/ \E j \in 1 .. Len(t) : n = t[j]
                         \/ \E j \in 1 .. Len(q) : n = q[j]
    <2> SUFFICES ASSUME NEW n \in Nodes
                 PROVE  \/ \E j \in 1 .. Len(t) : n = t[j]
                        \/ \E j \in 1 .. Len(q) : n = q[j]
      OBVIOUS
    <2>1. CASE \E j \in 1 .. Len(r) : n = r[j]
      <3>1. PICK j \in 1 .. Len(r) : n = r[j]
        BY <2>1
      <3>2. j + 1 \in 2 .. Len(r) + 1 /\ (j + 1) - 1 = j
        BY <1>3
      <3>3. j + 1 \in 1 .. Len(q) /\ q[j + 1] = r[j]
        BY <3>2, <1>3
      <3> QED
        BY <3>1, <3>3
    <2>2. CASE n = s[i]
      BY <2>2, <1>3
    <2>3. ASSUME NEW j \in 1 .. Len(s), n = s[j], j # i
          PROVE  \E k \in 1 .. Len(t) : n = t[k]
      <3>1. CASE j < i
        BY <3>1, <2>3, <1>2
      <3>2. CASE j > i
        <4>1. j - 1 \in 1 .. Len(s) - 1 /\ j - 1 >= i /\ (j - 1) + 1 = j
          BY <3>2, <1>2
        <4> QED
          BY <4>1, <2>3, <1>2
      <3> QED
        BY <3>1, <3>2, <2>3
    <2> QED
      BY <2>1, <2>2, <2>3 DEF Split
  <1>10. Len(t) + Len(q) = SIZE + 1
    BY <1>2, <1>3, SizeAssumption DEF Split
  <1> QED
    BY <1>2, <1>3, <1>6, <1>7, <1>8, <1>9, <1>10 DEF Split, t, q

\* The list l has the nodes s, and the nodes r are free.  The free chain does
\* not run out: New leaves its last node.
IsPool(l, h, s, r) ==
  /\ l \in Pools
  /\ Split(s, r)
  /\ Linked(l, h, s)
  /\ Linked(Chained(l), Chained(l).free, r)
  /\ \A i \in 1 .. Len(s) : l.prev[s[i]] = IF i = 1 THEN NULL ELSE s[i - 1]
  /\ (l = Pool /\ s = << >>) \/ l.free # NULL

\* Static storage is the empty list, with all nodes free.
LEMMA EmptyPool == IsPool(Pool, NULL, << >>, [i \in 1 .. SIZE + 1 |-> i - 1])
  <1> DEFINE r == [i \in 1 .. SIZE + 1 |-> i - 1]
             c == Chained(Pool)
  <1>0. SIZE \in Nat \ {0} /\ NULL \notin Nodes
    BY SizeAssumption, NullIsNoNode
  <1>1. r \in [1 .. SIZE + 1 -> Nodes]
    BY <1>0 DEF Nodes
  <1>2. r \in Seq(Nodes) /\ Len(r) = SIZE + 1
    BY <1>0, <1>1
  <1>3. c.free = 0 /\ \A n \in Nodes : c.next[n] = IF n < SIZE THEN n + 1 ELSE NULL
    BY <1>0 DEF Chained, Pool
  <1>4. Pool \in Pools /\ << >> \in Seq(Nodes) /\ Len(<< >>) = 0
    BY DEF Pool, Pools
  <1>5. Split(<< >>, r)
    <2>1. \A n \in Nodes : n + 1 \in 1 .. Len(r) /\ r[n + 1] = n
      BY <1>0, <1>2 DEF Nodes
    <2>2. \A i, j \in 1 .. Len(r) : r[i] = r[j] => i = j
      BY <1>0, <1>2
    <2>3. 1 .. Len(<< >>) = {}
      BY <1>4
    <2> HIDE DEF r
    <2> QED
      BY <1>0, <1>2, <1>4, <2>1, <2>2, <2>3 DEF Split
  <1>6. Linked(Pool, NULL, << >>)
    BY <1>4 DEF Linked, After
  <1>7. Linked(c, c.free, r)
    <2>1. c.free = After(r, 0)
      BY <1>0, <1>2, <1>3 DEF After
    <2>2. ASSUME NEW i \in 1 .. Len(r) PROVE c.next[r[i]] = After(r, i)
      <3>1. r[i] = i - 1 /\ i - 1 \in Nodes /\ i \in Nat
        BY <1>0, <1>2 DEF Nodes
      <3>2. CASE i = Len(r)
        BY <3>1, <3>2, <1>0, <1>2, <1>3 DEF After
      <3>3. CASE i # Len(r)
        <4>1. i + 1 \in 1 .. SIZE + 1 /\ r[i + 1] = i
          BY <3>3, <1>0, <1>2
        <4> QED
          BY <3>1, <3>3, <4>1, <1>0, <1>2, <1>3 DEF After
      <3> QED
        BY <3>2, <3>3
    <2> QED
      BY <2>1, <2>2, <1>2 DEF Linked
  <1> HIDE DEF r, c
  <1> QED
    BY <1>4, <1>5, <1>6, <1>7 DEF IsPool, c, r

\* What a list and its free nodes are, whether or not the pool has been chained yet.
LEMMA PoolFacts ==
  ASSUME NEW l, NEW h, NEW s, NEW r, IsPool(l, h, s, r)
  PROVE  /\ s \in Seq(Nodes) /\ r \in Seq(Nodes)
         /\ Len(s) \in Nat /\ Len(r) \in Nat \ {0} /\ Len(s) + Len(r) = SIZE + 1
         /\ Chained(l) \in Pools /\ Chained(l).free = r[1] /\ Chained(l).free \in Nodes
         /\ Chained(l).prev = l.prev
         /\ \A i \in 1 .. Len(s) : Chained(l).next[s[i]] = After(s, i)
         /\ h = After(s, 0)
         /\ s # << >> => Chained(l) = l
  <1>0. SIZE \in Nat \ {0} /\ NULL \notin Nodes
    BY SizeAssumption, NullIsNoNode
  <1>1. /\ s \in Seq(Nodes) /\ r \in Seq(Nodes) /\ Len(s) + Len(r) = SIZE + 1
        /\ Len(s) \in Nat /\ Len(r) \in Nat
    BY DEF IsPool, Split
  <1>2. /\ Chained(l) \in Pools /\ Chained(l).free # NULL /\ Chained(l).prev = l.prev
        /\ l.free # NULL => Chained(l) = l
    <2>1. l \in Pools
      BY DEF IsPool
    <2>2. CASE l.free # NULL
      BY <2>1, <2>2 DEF Chained
    <2>3. CASE l.free = NULL
      <3> DEFINE f == [n \in Nodes |-> IF n < SIZE THEN n + 1 ELSE l.next[n]]
      <3>1. Chained(l) = [l EXCEPT !.next = f, !.free = 0]
        BY <2>1, <2>3 DEF Chained, Pools
      <3>2. f \in [Nodes -> Nodes \cup {NULL}] /\ 0 \in Nodes
        BY <2>1, <1>0 DEF Pools, Nodes
      <3> HIDE DEF f
      <3> QED
        BY <3>1, <3>2, <2>1, <2>3, <1>0 DEF Pools
    <2> QED
      BY <2>2, <2>3
  <1>3. Len(r) # 0 /\ Chained(l).free = r[1]
    BY <1>1, <1>2 DEF IsPool, Linked, After
  <1> QED
    BY <1>1, <1>2, <1>3 DEF IsPool, Linked

-------------------------------------------------------------------------------
(* What New, Remove and Free do to the list *)

LEMMA AfterPrepended ==
  ASSUME NEW S, NEW s \in Seq(S), NEW n \in S
  PROVE  /\ After(Prepended(n, s), 0) = n
         /\ \A i \in 0 .. Len(s) : After(Prepended(n, s), i + 1) = After(s, i)
  <1> DEFINE t == Prepended(n, s)
  <1>1. /\ Len(t) = Len(s) + 1 /\ Len(s) \in Nat /\ t[1] = n
        /\ \A i \in 2 .. Len(s) + 1 : t[i] = s[i - 1]
    BY PrependedIs
  <1> HIDE DEF t
  <1>2. After(t, 0) = n
    BY <1>1 DEF After
  <1>3. ASSUME NEW i \in 0 .. Len(s) PROVE After(t, i + 1) = After(s, i)
    <2>1. CASE i = Len(s)
      BY <2>1, <1>1 DEF After
    <2>2. CASE i # Len(s)
      <3>1. (i + 1) + 1 \in 2 .. Len(s) + 1 /\ ((i + 1) + 1) - 1 = i + 1 /\ i + 1 # Len(t)
        BY <2>2, <1>1
      <3>2. t[(i + 1) + 1] = s[i + 1]
        BY <3>1, <1>1
      <3> QED
        BY <3>1, <3>2, <2>2, <1>1 DEF After
    <2> QED
      BY <2>1, <2>2
  <1> QED
    BY <1>2, <1>3 DEF t

LEMMA AfterWithout ==
  ASSUME NEW S, NEW s \in Seq(S), NEW i \in 1 .. Len(s), NEW j \in 0 .. Len(s) - 1
  PROVE  After(Without(s, i), j) = IF j + 1 < i THEN After(s, j) ELSE After(s, j + 1)
  <1> DEFINE t == Without(s, i)
  <1>1. /\ Len(t) = Len(s) - 1 /\ Len(s) \in Nat \ {0}
        /\ \A k \in 1 .. Len(s) - 1 : k < i => t[k] = s[k]
        /\ \A k \in 1 .. Len(s) - 1 : k >= i => t[k] = s[k + 1]
    BY WithoutIs
  <1> HIDE DEF t
  <1>2. CASE j = Len(s) - 1
    BY <1>1, <1>2 DEF After, t
  <1>3. CASE j # Len(s) - 1
    <2>1. j + 1 \in 1 .. Len(s) - 1 /\ j # Len(s) /\ j + 1 # Len(s) /\ j # Len(t) /\ j \in Nat
      BY <1>1, <1>3
    <2>2. After(t, j) = t[j + 1] /\ After(s, j) = s[j + 1] /\ After(s, j + 1) = s[(j + 1) + 1]
      BY <2>1 DEF After
    <2> QED
      BY <2>1, <2>2, <1>1 DEF t
  <1> QED
    BY <1>2, <1>3

\* New, and insert when the list is not empty, take the first free node and make
\* it the first of the list.
LEMMA NewIsPool ==
  ASSUME NEW l, NEW h, NEW s, NEW r, IsPool(l, h, s, r), HasFree(l)
  PROVE  LET n == Fresh(l)
             l2 == IF h = NULL THEN New(l) ELSE Insert(New(l), h, n)
         IN  n = r[1] /\ n \in Nodes /\ IsPool(l2, n, Prepended(n, s), Without(r, 1))
  <1> DEFINE n == Fresh(l)
             c == Chained(l)
             l2 == IF h = NULL THEN New(l) ELSE Insert(New(l), h, n)
             t == Prepended(n, s)
             q == Without(r, 1)
  <1>0. NULL \notin Nodes
    BY NullIsNoNode
  <1>1. /\ s \in Seq(Nodes) /\ r \in Seq(Nodes)
        /\ Len(s) \in Nat /\ Len(r) \in Nat \ {0} /\ Len(s) + Len(r) = SIZE + 1
        /\ c \in Pools /\ n = r[1] /\ n \in Nodes /\ c.free = n /\ c.prev = l.prev
        /\ \A i \in 1 .. Len(s) : c.next[s[i]] = After(s, i)
        /\ h = After(s, 0)
    BY PoolFacts DEF Fresh
  <1>2. \A i \in 1 .. Len(r) : c.next[r[i]] = After(r, i)
    BY DEF IsPool, Linked
  <1>3. Len(r) >= 2 /\ c.next[n] = r[2] /\ r[2] \in Nodes
    <2>1. c.next[n] = After(r, 1) /\ c.next[n] # NULL
      BY <1>1, <1>2 DEF HasFree
    <2>2. Len(r) # 1
      BY <2>1 DEF After
    <2>3. 2 \in 1 .. Len(r)
      <3> HIDE DEF n, c, l2, t, q
      <3>1. Len(r) \in Nat \ {0}
        BY <1>1
      <3>2. \A k \in Nat \ {0} : k # 1 => 2 \in 1 .. k
        OBVIOUS
      <3> QED
        BY <3>1, <3>2, <2>2
    <2> QED
      BY <2>1, <2>2, <2>3, <1>1 DEF After
  <1>4. h \in Nodes \cup {NULL} /\ (h # NULL => Len(s) # 0 /\ h = s[1])
    BY <1>1, <1>0 DEF After
  <1> HIDE DEF n, c
  <1>5. /\ l2 \in Pools /\ l2.free = r[2]
        /\ \A m \in Nodes : l2.next[m] = IF m = n THEN h ELSE c.next[m]
        /\ \A m \in Nodes : l2.prev[m] = IF m = n THEN (IF m = h THEN n ELSE NULL)
                                         ELSE IF m = h THEN n ELSE c.prev[m]
    <2> DEFINE a == New(l)
    <2>1. /\ a \in Pools /\ a.free = r[2]
          /\ \A m \in Nodes : a.next[m] = IF m = n THEN NULL ELSE c.next[m]
          /\ \A m \in Nodes : a.prev[m] = IF m = n THEN NULL ELSE c.prev[m]
      BY <1>1, <1>3 DEF New, Pools, n, c
    <2> HIDE DEF a
    <2>2. CASE h = NULL
      BY <2>1, <2>2, <1>0, <1>1 DEF a
    <2>3. CASE h # NULL
      <3>1. l2 = Insert(a, h, n) /\ h \in Nodes /\ n \in Nodes
        BY <2>3, <1>1, <1>4 DEF a
      <3> HIDE DEF l2
      <3> QED
        BY <3>1, <2>1 DEF Insert, Pools
    <2> QED
      BY <2>2, <2>3
  <1>6. Split(t, q)
    <2>1. Split(r, s) /\ 1 \in 1 .. Len(r)
      BY <1>1, SplitSym DEF IsPool
    <2>2. Split(q, t)
      BY <2>1, <1>1, MoveOne
    <2> QED
      BY <2>2, SplitSym
  <1>7. /\ t \in Seq(Nodes) /\ Len(t) = Len(s) + 1 /\ t[1] = n
        /\ \A i \in 2 .. Len(s) + 1 : t[i] = s[i - 1]
        /\ After(t, 0) = n /\ \A i \in 0 .. Len(s) : After(t, i + 1) = After(s, i)
    <2>1. s \in Seq(Nodes) /\ n \in Nodes
      BY <1>1
    <2>2. /\ t \in Seq(Nodes) /\ Len(t) = Len(s) + 1 /\ t[1] = n
          /\ \A i \in 2 .. Len(s) + 1 : t[i] = s[i - 1]
      BY <2>1, PrependedIs
    <2>3. After(t, 0) = n /\ \A i \in 0 .. Len(s) : After(t, i + 1) = After(s, i)
      BY <2>1, AfterPrepended
    <2> QED
      BY <2>2, <2>3
  <1>8. /\ q \in Seq(Nodes) /\ Len(q) = Len(r) - 1
        /\ \A j \in 1 .. Len(r) - 1 : q[j] = r[j + 1]
        /\ \A j \in 0 .. Len(r) - 1 : After(q, j) = After(r, j + 1)
    <2>1. 1 \in 1 .. Len(r)
      BY <1>1
    <2>2. /\ q \in Seq(Nodes) /\ Len(q) = Len(r) - 1
          /\ \A j \in 1 .. Len(r) - 1 : j >= 1 => q[j] = r[j + 1]
      BY <2>1, <1>1, WithoutIs
    <2>3. \A j \in 0 .. Len(r) - 1 :
            After(q, j) = IF j + 1 < 1 THEN After(r, j) ELSE After(r, j + 1)
      BY <2>1, <1>1, AfterWithout
    <2> HIDE DEF q
    <2> QED
      BY <2>2, <2>3, <1>1
  <1> HIDE DEF l2, t, q
  <1>9. \A i \in 1 .. Len(s) : s[i] # n /\ s[i] \in Nodes
    BY <1>1 DEF IsPool, Split
  <1>10. \A i \in 2 .. Len(r) : r[i] # n /\ r[i] \in Nodes
    BY <1>1 DEF IsPool, Split
  <1>11. Linked(l2, n, t)
    <2> SUFFICES ASSUME NEW i \in 1 .. Len(t) PROVE l2.next[t[i]] = After(t, i)
      BY <1>7 DEF Linked
    <2>1. CASE i = 1
      <3>1. After(t, 0 + 1) = After(s, 0)
        BY <1>1, <1>7
      <3> QED
        BY <3>1, <2>1, <1>1, <1>5, <1>7
    <2>2. CASE i # 1
      <3>1. /\ i \in 2 .. Len(s) + 1 /\ i - 1 \in 1 .. Len(s) /\ i - 1 \in 0 .. Len(s)
            /\ (i - 1) + 1 = i
        BY <2>2, <1>1, <1>7
      <3>2. t[i] = s[i - 1] /\ After(t, i) = After(s, i - 1)
        BY <3>1, <1>7
      <3> QED
        BY <3>1, <3>2, <1>1, <1>5, <1>9
    <2> QED
      BY <2>1, <2>2
  <1>12. Chained(l2) = l2
    BY <1>0, <1>3, <1>5 DEF Chained
  <1>13. Linked(l2, l2.free, q)
    <2>1. l2.free = After(q, 0)
      <3>1. After(q, 0) = After(r, 0 + 1)
        BY <1>1, <1>8
      <3> QED
        BY <3>1, <1>1, <1>3, <1>5 DEF After
    <2>2. ASSUME NEW i \in 1 .. Len(q) PROVE l2.next[q[i]] = After(q, i)
      <3>1. i \in 1 .. Len(r) - 1 /\ i \in 0 .. Len(r) - 1 /\ i + 1 \in 2 .. Len(r)
            /\ i + 1 \in 1 .. Len(r)
        BY <1>1, <1>8
      <3>2. q[i] = r[i + 1] /\ After(q, i) = After(r, i + 1)
        BY <3>1, <1>8
      <3> QED
        BY <3>1, <3>2, <1>2, <1>5, <1>10
    <2> QED
      BY <2>1, <2>2, <1>8 DEF Linked
  <1>14. \A i \in 1 .. Len(t) : l2.prev[t[i]] = IF i = 1 THEN NULL ELSE t[i - 1]
    <2> SUFFICES ASSUME NEW i \in 1 .. Len(t)
                 PROVE  l2.prev[t[i]] = IF i = 1 THEN NULL ELSE t[i - 1]
      OBVIOUS
    <2>0. h # n
      <3>1. h # NULL => 1 \in 1 .. Len(s) /\ h = s[1]
        BY <1>1, <1>4
      <3> QED
        BY <3>1, <1>0, <1>1, <1>9
    <2>1. CASE i = 1
      BY <2>0, <2>1, <1>1, <1>5, <1>7
    <2>2. CASE i = 2
      <3>1. 2 \in 2 .. Len(s) + 1 /\ 1 \in 1 .. Len(s) /\ 0 # Len(s) /\ 2 - 1 = 1 /\ 0 + 1 = 1
        BY <2>2, <1>1, <1>7
      <3>2. t[2] = s[1] /\ t[1] = n
        BY <3>1, <1>7
      <3>3. h = s[1]
        BY <3>1, <1>1 DEF After
      <3> QED
        BY <3>1, <3>2, <3>3, <2>2, <1>5, <1>9
    <2>3. CASE i # 1 /\ i # 2
      <3>1. /\ i \in 2 .. Len(s) + 1 /\ i - 1 \in 2 .. Len(s) + 1
            /\ i - 1 \in 1 .. Len(s) /\ i - 1 # 1 /\ 1 \in 1 .. Len(s)
            /\ 0 # Len(s) /\ 0 + 1 = 1
        BY <2>3, <1>1, <1>7
      <3>2. t[i] = s[i - 1] /\ t[i - 1] = s[(i - 1) - 1]
        BY <3>1, <1>7
      <3>3. h = s[1]
        BY <3>1, <1>1 DEF After
      <3>4. s[i - 1] # s[1] /\ l.prev[s[i - 1]] = s[(i - 1) - 1] /\ s[i - 1] \in Nodes
        BY <3>1 DEF IsPool, Split
      <3>5. s[i - 1] # n
        BY <3>1, <1>9
      <3>6. l2.prev[s[i - 1]] = l.prev[s[i - 1]]
        <4>1. s[i - 1] # h /\ s[i - 1] # n /\ s[i - 1] \in Nodes
          BY <3>3, <3>4, <3>5
        <4>2. \A m \in Nodes : m # n /\ m # h => l2.prev[m] = l.prev[m]
          BY <1>1, <1>5
        <4> QED
          BY <4>1, <4>2
      <3> QED
        BY <3>2, <3>4, <3>6, <2>3
    <2> QED
      BY <2>1, <2>2, <2>3
  <1>15. IsPool(l2, n, t, q)
    BY <1>0, <1>3, <1>5, <1>6, <1>11, <1>12, <1>13, <1>14 DEF IsPool
  <1> QED
    BY <1>1, <1>15 DEF l2, t, q, n

\* Remove and Free take the i-th node out of the list and make it the first of
\* the free ones.
LEMMA FreeIsPool ==
  ASSUME NEW l, NEW h, NEW s, NEW r, IsPool(l, h, s, r), NEW i \in 1 .. Len(s)
  PROVE  /\ s[i] \in Nodes /\ l.next[s[i]] = After(s, i)
         /\ s[i] = h <=> i = 1
         /\ IsPool(Free(Remove(l, s[i]), s[i]), IF i = 1 THEN After(s, 1) ELSE h,
                   Without(s, i), Prepended(s[i], r))
  <1> DEFINE m == s[i]
             a == Remove(l, m)
             l2 == Free(a, m)
             h2 == IF i = 1 THEN After(s, 1) ELSE h
             t == Without(s, i)
             q == Prepended(m, r)
  <1>0. NULL \notin Nodes
    BY NullIsNoNode
  <1>1. /\ s \in Seq(Nodes) /\ r \in Seq(Nodes)
        /\ Len(s) \in Nat \ {0} /\ Len(r) \in Nat \ {0} /\ Len(s) + Len(r) = SIZE + 1
        /\ l \in Pools /\ l.free = r[1] /\ l.free \in Nodes /\ Chained(l) = l
        /\ h = After(s, 0) /\ m \in Nodes
    <2>1. s \in Seq(Nodes) /\ r \in Seq(Nodes)
      BY PoolFacts
    <2>2. s # << >> /\ Len(s) \in Nat \ {0} /\ m \in Nodes
      BY <2>1
    <2> HIDE DEF m, a, l2, t, q
    <2>3. /\ Chained(l) = l /\ Chained(l).free = r[1] /\ Chained(l).free \in Nodes
          /\ Len(r) \in Nat \ {0} /\ Len(s) + Len(r) = SIZE + 1
          /\ h = After(s, 0) /\ Chained(l) \in Pools
      BY <2>2, PoolFacts
    <2> QED
      BY <2>1, <2>2, <2>3
  <1>2. /\ \A j \in 1 .. Len(s) : l.next[s[j]] = After(s, j)
        /\ \A j \in 1 .. Len(r) : l.next[r[j]] = After(r, j)
        /\ \A j \in 1 .. Len(s) : l.prev[s[j]] = IF j = 1 THEN NULL ELSE s[j - 1]
    BY <1>1 DEF IsPool, Linked
  <1>3. \A j \in 1 .. Len(s) : s[j] \in Nodes /\ \A k \in 1 .. Len(s) : s[j] = s[k] => j = k
    BY DEF IsPool, Split
  <1>4. \A j \in 1 .. Len(r) : r[j] \in Nodes /\ \A k \in 1 .. Len(s) : r[j] # s[k]
    BY DEF IsPool, Split
  <1>5. s[i] = h <=> i = 1
    <2>1. 1 \in 1 .. Len(s) /\ h = s[1]
      BY <1>1 DEF After
    <2> QED
      BY <2>1, <1>3
  <1>6. \A j \in 1 .. Len(s) : l.prev[m] = s[j] <=> j = i - 1
    <2>1. CASE i = 1
      BY <2>1, <1>0, <1>1, <1>2, <1>3
    <2>2. CASE i # 1
      <3>1. i - 1 \in 1 .. Len(s) /\ l.prev[m] = s[i - 1]
        BY <2>2, <1>1, <1>2
      <3> QED
        BY <3>1, <1>3
    <2> QED
      BY <2>1, <2>2
  <1>7. \A j \in 1 .. Len(s) : l.next[m] = s[j] <=> j = i + 1
    <2>0. l.next[m] = After(s, i)
      BY <1>2
    <2>1. CASE i = Len(s)
      BY <2>0, <2>1, <1>0, <1>1, <1>3 DEF After
    <2>2. CASE i # Len(s)
      <3>1. i + 1 \in 1 .. Len(s) /\ l.next[m] = s[i + 1]
        BY <2>0, <2>2, <1>1 DEF After
      <3> QED
        BY <3>1, <1>3
    <2> QED
      BY <2>1, <2>2
  <1>8. /\ l2 \in Pools /\ l2.free = m
        /\ \A n \in Nodes : l2.next[n] = IF n = m THEN l.free
                                         ELSE IF n = l.prev[m] THEN l.next[m] ELSE l.next[n]
        /\ \A n \in Nodes : l2.prev[n] = IF n = l.next[m] THEN l.prev[m] ELSE l.prev[n]
    <2> HIDE DEF m
    <2>0. l.prev[m] \in Nodes \cup {NULL} /\ l.next[m] \in Nodes \cup {NULL}
      BY <1>1 DEF Pools
    <2> DEFINE fn == [n \in Nodes |-> IF n = l.prev[m] THEN l.next[m] ELSE l.next[n]]
               fp == [n \in Nodes |-> IF n = l.next[m] THEN l.prev[m] ELSE l.prev[n]]
    <2>1. fn \in [Nodes -> Nodes \cup {NULL}] /\ fp \in [Nodes -> Nodes \cup {NULL}]
      BY <2>0, <1>1 DEF Pools
    <2>2. a = [l EXCEPT !.next = fn, !.prev = fp]
      BY <1>1 DEF Remove, Pools
    <2>3. /\ \A n \in Nodes : fn[n] = IF n = l.prev[m] THEN l.next[m] ELSE l.next[n]
          /\ \A n \in Nodes : fp[n] = IF n = l.next[m] THEN l.prev[m] ELSE l.prev[n]
      OBVIOUS
    <2> HIDE DEF fn, fp
    <2>4. a \in Pools /\ a.next = fn /\ a.prev = fp /\ a.free = l.free
      BY <2>1, <2>2, <1>1 DEF Pools
    <2> HIDE DEF a
    <2>5. l2 \in Pools /\ l2.free = m /\ l2.prev = fp /\ l2.next = [fn EXCEPT ![m] = l.free]
      BY <2>4, <1>1 DEF Free, Pools
    <2> HIDE DEF l2
    <2> QED
      BY <2>1, <2>3, <2>5, <1>1
  <1>9. Split(t, q)
    BY MoveOne DEF IsPool
  <1>10. /\ q \in Seq(Nodes) /\ Len(q) = Len(r) + 1 /\ q[1] = m
         /\ \A j \in 2 .. Len(r) + 1 : q[j] = r[j - 1]
    <2>1. r \in Seq(Nodes) /\ m \in Nodes
      BY <1>1
    <2> HIDE DEF a, l2, h2, t, m
    <2> QED
      BY <2>1, PrependedIs
  <1>11. After(q, 0) = m /\ \A j \in 0 .. Len(r) : After(q, j + 1) = After(r, j)
    BY <1>1, AfterPrepended
  <1>12. /\ t \in Seq(Nodes) /\ Len(t) = Len(s) - 1
         /\ \A j \in 1 .. Len(s) - 1 : j < i => t[j] = s[j]
         /\ \A j \in 1 .. Len(s) - 1 : j >= i => t[j] = s[j + 1]
    BY <1>1, WithoutIs
  <1>13. \A j \in 0 .. Len(s) - 1 :
           After(t, j) = IF j + 1 < i THEN After(s, j) ELSE After(s, j + 1)
    BY <1>1, AfterWithout
  <1> HIDE DEF a, l2, h2, t, q
  <1>14. Linked(l2, h2, t)
    <2>1. h2 = After(t, 0)
      <3>1. 0 \in 0 .. Len(s) - 1 /\ i \in Nat
        BY <1>1
      <3> QED
        BY <3>1, <1>1, <1>13 DEF h2
    <2>2. ASSUME NEW j \in 1 .. Len(t) PROVE l2.next[t[j]] = After(t, j)
      <3>0. /\ j \in 1 .. Len(s) - 1 /\ j \in 0 .. Len(s) - 1
            /\ j \in 1 .. Len(s) /\ j + 1 \in 1 .. Len(s)
        BY <1>1, <1>12
      <3>1. CASE j < i
        <4>1. t[j] = s[j] /\ s[j] \in Nodes /\ s[j] # m
          BY <3>0, <3>1, <1>3, <1>12
        <4>2. j = i - 1 <=> j + 1 = i
          BY <3>0
        <4>3. l.prev[m] = s[j] <=> j + 1 = i
          BY <4>2, <3>0, <1>6
        <4>4. CASE j + 1 < i
          <5>1. j + 1 # i
            BY <4>4, <3>0
          <5>2. l2.next[s[j]] = l.next[s[j]]
            BY <5>1, <4>1, <4>3, <1>8
          <5>3. After(t, j) = After(s, j)
            BY <4>4, <3>0, <1>13
          <5> QED
            BY <5>2, <5>3, <4>1, <3>0, <1>2
        <4>5. CASE j + 1 = i
          <5>1. l2.next[s[j]] = l.next[m]
            BY <4>1, <4>3, <4>5, <1>8
          <5>2. After(t, j) = After(s, i)
            BY <4>5, <3>0, <1>13
          <5> QED
            BY <5>1, <5>2, <4>1, <1>2
        <4> QED
          BY <3>1, <4>4, <4>5, <3>0
      <3>2. CASE j >= i
        <4>0. j + 1 # i /\ j + 1 \in 1 .. Len(s)
          BY <3>0, <3>2
        <4>1. t[j] = s[j + 1] /\ s[j + 1] \in Nodes /\ s[j + 1] # m
          <5>1. t[j] = s[j + 1]
            BY <3>0, <3>2, <1>12
          <5> QED
            BY <5>1, <4>0, <1>3
        <4>2. j + 1 # i - 1 /\ ~(j + 1 < i)
          BY <3>0, <3>2
        <4>3. l.prev[m] # s[j + 1]
          BY <4>2, <3>0, <1>6
        <4>4. l2.next[s[j + 1]] = l.next[s[j + 1]]
          BY <4>1, <4>3, <1>8
        <4>5. After(t, j) = After(s, j + 1)
          BY <4>2, <3>0, <1>13
        <4> QED
          BY <4>1, <4>4, <4>5, <3>0, <1>2
      <3> QED
        BY <3>1, <3>2, <3>0
    <2> QED
      BY <2>1, <2>2, <1>12 DEF Linked
  <1>15. Chained(l2) = l2
    BY <1>0, <1>1, <1>8 DEF Chained
  <1>16. Linked(l2, l2.free, q)
    <2>1. ASSUME NEW j \in 1 .. Len(q) PROVE l2.next[q[j]] = After(q, j)
      <3>1. CASE j = 1
        <4>1. 0 \in 0 .. Len(r) /\ 0 + 1 = 1 /\ 0 # Len(r)
          BY <1>1
        <4>2. After(q, 1) = After(r, 0)
          BY <4>1, <1>11
        <4>3. After(r, 0) = r[1]
          BY <4>1 DEF After
        <4> QED
          BY <3>1, <4>2, <4>3, <1>1, <1>8, <1>10
      <3>2. CASE j # 1
        <4>1. /\ j \in 2 .. Len(r) + 1 /\ j - 1 \in 1 .. Len(r) /\ j - 1 \in 0 .. Len(r)
              /\ (j - 1) + 1 = j
          BY <3>2, <1>1, <1>10
        <4>2. q[j] = r[j - 1] /\ After(q, j) = After(r, j - 1)
          BY <4>1, <1>10, <1>11
        <4>3. r[j - 1] \in Nodes /\ r[j - 1] # m /\ r[j - 1] # l.prev[m]
          <5>1. l.prev[m] = NULL \/ \E k \in 1 .. Len(s) : l.prev[m] = s[k]
            <6>1. i # 1 => i - 1 \in 1 .. Len(s)
              BY <1>1
            <6> QED
              BY <6>1, <1>2
          <5> QED
            BY <5>1, <4>1, <1>0, <1>4
        <4>4. l2.next[r[j - 1]] = l.next[r[j - 1]]
          BY <4>3, <1>8
        <4> QED
          BY <4>1, <4>2, <4>4, <1>2
      <3> QED
        BY <3>1, <3>2
    <2> QED
      BY <2>1, <1>8, <1>10, <1>11 DEF Linked
  <1>17. \A j \in 1 .. Len(t) : l2.prev[t[j]] = IF j = 1 THEN NULL ELSE t[j - 1]
    <2> SUFFICES ASSUME NEW j \in 1 .. Len(t)
                 PROVE  l2.prev[t[j]] = IF j = 1 THEN NULL ELSE t[j - 1]
      OBVIOUS
    <2>0. /\ j \in 1 .. Len(s) - 1 /\ j \in 1 .. Len(s) /\ j + 1 \in 1 .. Len(s)
          /\ j # 1 => j - 1 \in 1 .. Len(s) - 1
          /\ (j - 1) + 1 = j /\ (j + 1) - 1 = j /\ i \in Nat
      BY <1>1, <1>12
    <2>1. CASE j < i
      <3>1. t[j] = s[j] /\ s[j] \in Nodes /\ (j # 1 => t[j - 1] = s[j - 1])
        BY <2>0, <2>1, <1>3, <1>12
      <3>2. j # i + 1
        BY <2>0, <2>1
      <3>3. l.next[m] # s[j]
        BY <3>2, <2>0, <1>7
      <3>4. l2.prev[s[j]] = l.prev[s[j]]
        BY <3>1, <3>3, <1>8
      <3> QED
        BY <3>1, <3>4, <2>0, <1>2
    <2>2. CASE j = i
      <3>1. t[j] = s[j + 1] /\ s[j + 1] \in Nodes /\ (j # 1 => t[j - 1] = s[j - 1])
        BY <2>0, <2>2, <1>3, <1>12
      <3>2. l.next[m] = s[j + 1]
        BY <2>0, <2>2, <1>7
      <3>3. l2.prev[s[j + 1]] = l.prev[m]
        BY <3>1, <3>2, <1>8
      <3> QED
        BY <3>1, <3>3, <2>0, <2>2, <1>2
    <2>3. CASE j > i
      <3>1. t[j] = s[j + 1] /\ s[j + 1] \in Nodes /\ j # 1 /\ t[j - 1] = s[(j - 1) + 1]
        <4>1. j # 1 /\ j >= i /\ j - 1 >= i
          BY <2>0, <2>3, <1>1
        <4>2. t[j] = s[j + 1] /\ t[j - 1] = s[(j - 1) + 1]
          BY <4>1, <2>0, <1>12
        <4> QED
          BY <4>1, <4>2, <2>0, <1>3
      <3>2. l.prev[s[j + 1]] = s[j] /\ t[j - 1] = s[j]
        <4>1. j + 1 # 1 /\ s[(j + 1) - 1] = s[j] /\ s[(j - 1) + 1] = s[j]
          BY <2>0
        <4> QED
          BY <4>1, <3>1, <2>0, <1>2
      <3>3. j + 1 # i + 1
        BY <2>0, <2>3
      <3>4. l.next[m] # s[j + 1]
        BY <3>3, <2>0, <1>7
      <3>5. l2.prev[s[j + 1]] = l.prev[s[j + 1]]
        BY <3>1, <3>4, <1>8
      <3> QED
        BY <3>1, <3>2, <3>5
    <2> QED
      BY <2>0, <2>1, <2>2, <2>3
  <1>18. IsPool(l2, h2, t, q)
    BY <1>0, <1>1, <1>8, <1>9, <1>14, <1>15, <1>16, <1>17 DEF IsPool
  <1> QED
    BY <1>1, <1>2, <1>5, <1>18 DEF l2, a, h2, t, q

-------------------------------------------------------------------------------
(* Counting *)

\* The elements of Q up to k.
UpTo(Q, k) == {i \in 1 .. k : i \in Q}

LEMMA CountNone == ASSUME NEW Q PROVE Cardinality(UpTo(Q, 0)) = 0
  <1>1. UpTo(Q, 0) = {}
    BY DEF UpTo
  <1> QED
    BY <1>1, FS_EmptySet

LEMMA CountFinite ==
  ASSUME NEW Q, NEW k \in Nat
  PROVE  IsFiniteSet(UpTo(Q, k)) /\ Cardinality(UpTo(Q, k)) \in Nat
  <1>1. IsFiniteSet(1 .. k) /\ UpTo(Q, k) \subseteq 1 .. k
    BY FS_Interval DEF UpTo
  <1> QED
    BY <1>1, FS_Subset, FS_CardinalityType

LEMMA CountStep ==
  ASSUME NEW Q, NEW k \in Nat
  PROVE  Cardinality(UpTo(Q, k + 1)) = Cardinality(UpTo(Q, k)) + IF k + 1 \in Q THEN 1 ELSE 0
  <1>1. IsFiniteSet(UpTo(Q, k)) /\ Cardinality(UpTo(Q, k)) \in Nat
    BY CountFinite
  <1>2. CASE k + 1 \in Q
    <2>1. UpTo(Q, k + 1) = UpTo(Q, k) \cup {k + 1} /\ k + 1 \notin UpTo(Q, k)
      BY <1>2 DEF UpTo
    <2> QED
      BY <2>1, <1>1, <1>2, FS_AddElement
  <1>3. CASE k + 1 \notin Q
    <2>1. UpTo(Q, k + 1) = UpTo(Q, k)
      BY <1>3 DEF UpTo
    <2> QED
      BY <2>1, <1>1, <1>3
  <1> QED
    BY <1>2, <1>3

LEMMA ModRange == ASSUME NEW a \in Nat, NEW w \in Nat \ {0} PROVE a % w \in 0 .. w - 1
  OBVIOUS

LEMMA PlusOne ==
  ASSUME NEW a \in Nat, NEW b \in Nat
  PROVE  (a + b) + 1 = a + (b + 1) /\ b + 0 = b
  OBVIOUS

\* A score is counted modulo Wrap, one letter at a time or all at once.
LEMMA ModStep ==
  ASSUME NEW a \in Nat, NEW w \in Nat \ {0}
  PROVE  ((a % w) + 1) % w = (a + 1) % w
  <1>1. a % w \in 0 .. w - 1 /\ a = w * (a \div w) + (a % w) /\ a \div w \in Int
    OBVIOUS
  <1> DEFINE r == a % w
             q == a \div w
  <1> HIDE DEF r, q
  <1>2. r \in 0 .. w - 1 /\ a = w * q + r /\ q \in Int
    BY <1>1 DEF r, q
  <1>3. CASE r + 1 < w
    BY <1>2, <1>3
  <1>4. CASE r + 1 = w
    <2>1. a + 1 = w * (q + 1)
      BY <1>2, <1>4
    <2> QED
      BY <2>1, <1>2, <1>4
  <1> QED
    BY <1>2, <1>3, <1>4 DEF r

-------------------------------------------------------------------------------
(* The loop of update_letter_pos *)

\* Where letter i of s comes when all letters move, and who stays on the screen.
Lands(f, s, i) == f[s[i]].x + f[s[i]].v
Staying(f, s) == {i \in 1 .. Len(s) : Lands(f, s, i) \in 0 .. Bottom}
Risen(f, s) == {i \in 1 .. Len(s) : Lands(f, s, i) < 0}
Fallen(f, s) == {i \in 1 .. Len(s) : Lands(f, s, i) > Bottom}

\* The elements of s that e picks.
Picked(s, e) == [j \in 1 .. Len(e) |-> s[e[j]]]

\* The states of the loop of update_letter_pos.
Walks ==
  [it : Nodes \cup {NULL}, head : Nodes \cup {NULL}, list : Pools,
   fly : [Nodes -> Flies \cup {Blank}], hit : 0 .. Wrap - 1, miss : 0 .. Wrap - 1]

\* The loop began in b, with the letters s, and is in st after k of them: e picks
\* the letters in the list, of which the first p have moved and stayed.
WalkInv(b, s, st, k, e, p, r) ==
  /\ st \in Walks
  /\ p \in Nat /\ e \in Seq(1 .. Len(s)) /\ Len(e) = p + Len(s) - k
  /\ \A i, j \in 1 .. Len(e) : i < j => e[i] < e[j]
  /\ \A j \in 1 .. Len(e) : j <= p => e[j] <= k /\ e[j] \in Staying(b.fly, s)
  /\ \A j \in 1 .. Len(e) : j > p => e[j] = k + j - p
  /\ IsPool(st.list, st.head, Picked(s, e), r)
  /\ st.it = After(s, k)
  /\ \A j \in 1 .. Len(e) :
       st.fly[s[e[j]]] =
         IF j <= p THEN [b.fly[s[e[j]]] EXCEPT !.x = Lands(b.fly, s, e[j])]
         ELSE b.fly[s[e[j]]]
  /\ p = Cardinality(UpTo(Staying(b.fly, s), k))
  /\ st.hit = (b.hit + Cardinality(UpTo(Risen(b.fly, s), k))) % Wrap
  /\ st.miss = (b.miss + Cardinality(UpTo(Fallen(b.fly, s), k))) % Wrap

\* The letters s can be walked from b.
Walkable(b, s, r) ==
  /\ b \in Walks /\ IsPool(b.list, b.head, s, r) /\ b.it = b.head
  /\ \A i \in 1 .. Len(s) : b.fly[s[i]] \in Flies

\* Before the first turn the loop is at head, and no letter has moved.
LEMMA WalkBegins ==
  ASSUME NEW b, NEW s, NEW r, Walkable(b, s, r)
  PROVE  \E e : WalkInv(b, s, b, 0, e, 0, r)
  <1> DEFINE e == [i \in 1 .. Len(s) |-> i]
  <1>1. s \in Seq(Nodes) /\ Len(s) \in Nat
    BY PoolFacts DEF Walkable
  <1>2. e \in Seq(1 .. Len(s)) /\ Len(e) = Len(s) /\ \A i \in 1 .. Len(e) : e[i] = i
    BY <1>1
  <1> HIDE DEF e
  <1>3. Picked(s, e) = s
    <2>1. s = [i \in 1 .. Len(s) |-> s[i]]
      BY <1>1
    <2> QED
      BY <2>1, <1>2 DEF Picked
  <1>4. b.it = After(s, 0)
    BY DEF Walkable, IsPool, Linked
  <1>5. b.hit \in 0 .. Wrap - 1 /\ b.miss \in 0 .. Wrap - 1
    BY DEF Walkable, Walks
  <1>6. b.hit = (b.hit + 0) % Wrap /\ b.miss = (b.miss + 0) % Wrap
    BY <1>5, GameAssumption
  <1>7. WalkInv(b, s, b, 0, e, 0, r)
    BY <1>1, <1>2, <1>3, <1>4, <1>6, CountNone DEF WalkInv, Walkable
  <1> QED
    BY <1>7

\* What holds of the letter that it points to, and of the ones in the list.
Walking(b, s, st, k, e, p, r) ==
  /\ s \in Seq(Nodes) /\ Len(s) \in Nat /\ k + 1 \in 1 .. Len(s) /\ s[k + 1] \in Nodes
  /\ st \in Walks /\ p \in Nat /\ e \in Seq(1 .. Len(s)) /\ Len(e) = p + Len(s) - k
  /\ Len(e) \in Nat /\ \A j \in 1 .. Len(e) : e[j] \in 1 .. Len(s)
  /\ \A j \in 1 .. Len(e) : j <= p => e[j] <= k /\ e[j] \in Staying(b.fly, s)
  /\ \A j \in 1 .. Len(e) : j > p => e[j] = k + j - p
  /\ st.it = s[k + 1] /\ IsPool(st.list, st.head, Picked(s, e), r)
  /\ \A j \in 1 .. Len(e) :
       st.fly[s[e[j]]] =
         IF j <= p THEN [b.fly[s[e[j]]] EXCEPT !.x = Lands(b.fly, s, e[j])]
         ELSE b.fly[s[e[j]]]
  /\ p + 1 \in 1 .. Len(e) /\ e[p + 1] = k + 1
  /\ st.fly[s[k + 1]] = b.fly[s[k + 1]] /\ b.fly[s[k + 1]] \in Flies
  /\ st.list.next[s[k + 1]] = After(s, k + 1)
  /\ \A j \in 1 .. Len(e) : s[e[j]] = s[k + 1] <=> j = p + 1

LEMMA WalkFacts ==
  ASSUME NEW b, NEW s, NEW r0, Walkable(b, s, r0),
         NEW st, NEW k \in Nat, NEW e, NEW p, NEW r, WalkInv(b, s, st, k, e, p, r),
         k < Len(s)
  PROVE  Walking(b, s, st, k, e, p, r)
  <1> DEFINE n == s[k + 1]
  <1>1. /\ s \in Seq(Nodes) /\ Len(s) \in Nat /\ k + 1 \in 1 .. Len(s) /\ n \in Nodes
    BY PoolFacts DEF Walkable
  <1>2. /\ st \in Walks /\ p \in Nat /\ e \in Seq(1 .. Len(s)) /\ Len(e) = p + Len(s) - k
        /\ Len(e) \in Nat /\ \A j \in 1 .. Len(e) : e[j] \in 1 .. Len(s)
    BY DEF WalkInv
  <1>8. /\ \A j \in 1 .. Len(e) : j <= p => e[j] <= k /\ e[j] \in Staying(b.fly, s)
        /\ \A j \in 1 .. Len(e) : j > p => e[j] = k + j - p
    BY DEF WalkInv
  <1>9. st.it = After(s, k) /\ IsPool(st.list, st.head, Picked(s, e), r)
    BY DEF WalkInv
  <1>10. \A j \in 1 .. Len(e) :
           st.fly[s[e[j]]] =
             IF j <= p THEN [b.fly[s[e[j]]] EXCEPT !.x = Lands(b.fly, s, e[j])]
             ELSE b.fly[s[e[j]]]
    BY DEF WalkInv
  <1>3. p + 1 \in 1 .. Len(e) /\ e[p + 1] = k + 1
    <2>1. p + 1 \in 1 .. Len(e) /\ p + 1 > p
      BY <1>1, <1>2
    <2>2. e[p + 1] = k + (p + 1) - p
      BY <2>1, <1>8
    <2> QED
      BY <2>1, <2>2, <1>2
  <1>4. st.it = n /\ st.fly[n] = b.fly[n] /\ b.fly[n] \in Flies
    <2>1. st.it = n
      BY <1>1, <1>9 DEF After
    <2>2. st.fly[n] = b.fly[n]
      <3>1. ~(p + 1 <= p) /\ s[e[p + 1]] = n
        BY <1>2, <1>3
      <3> HIDE DEF n
      <3> QED
        BY <3>1, <1>10, <1>3
    <2> QED
      BY <2>1, <2>2, <1>1 DEF Walkable
  <1>5. st.list.next[n] = After(s, k + 1)
    <2>1. st.list.next[Picked(s, e)[p + 1]] = After(Picked(s, e), p + 1)
      <3>1. Picked(s, e) \in Seq(Nodes) /\ Len(Picked(s, e)) = Len(e)
        BY <1>1, <1>2 DEF Picked
      <3>2. Linked(st.list, st.head, Picked(s, e))
        BY <1>9 DEF IsPool
      <3> QED
        BY <3>1, <3>2, <1>3 DEF Linked
    <2>2. Picked(s, e)[p + 1] = n
      BY <1>3 DEF Picked
    <2>3. After(Picked(s, e), p + 1) = After(s, k + 1)
      <3>1. Len(Picked(s, e)) = Len(e)
        BY <1>2 DEF Picked
      <3>2. CASE p + 1 = Len(e)
        BY <3>1, <3>2, <1>1, <1>2 DEF After
      <3>3. CASE p + 1 # Len(e)
        <4>1. p + 2 \in 1 .. Len(e) /\ e[p + 2] = k + 2 /\ k + 1 # Len(s)
          <5>0. /\ p \in Nat /\ Len(e) \in Nat /\ Len(s) \in Nat /\ Len(e) = p + Len(s) - k
                /\ p + 1 <= Len(e) /\ p + 1 # Len(e)
            BY <3>3, <1>1, <1>2, <1>3
          <5> DEFINE a == Len(e)
                     c == Len(s)
          <5> HIDE DEF a, c, n
          <5>01. p \in Nat /\ a \in Nat /\ c \in Nat /\ a = p + c - k /\ p + 1 <= a /\ p + 1 # a
            BY <5>0 DEF a, c
          <5>02. p + 2 \in 1 .. a /\ p + 2 > p /\ k + 1 # c
            BY <5>01
          <5>1. p + 2 \in 1 .. Len(e) /\ p + 2 > p /\ k + 1 # Len(s)
            BY <5>02 DEF a, c
          <5>2. e[p + 2] = k + (p + 2) - p
            BY <5>1, <1>8
          <5> QED
            BY <5>1, <5>2, <1>2
        <4>2. Picked(s, e)[p + 2] = s[k + 2]
          BY <4>1 DEF Picked
        <4> QED
          BY <4>1, <4>2, <3>1, <3>3, <1>2 DEF After
      <3> QED
        BY <3>2, <3>3
    <2> QED
      BY <2>1, <2>2, <2>3
  <1>6. \A i, j \in 1 .. Len(s) : s[i] = s[j] => i = j
    BY DEF Walkable, IsPool, Split
  <1>7. \A j \in 1 .. Len(e) : s[e[j]] = n <=> j = p + 1
    <2>1. \A j \in 1 .. Len(e) : s[e[j]] = n => e[j] = k + 1
      BY <1>1, <1>2, <1>6
    <2>2. \A j \in 1 .. Len(e) : e[j] = k + 1 => j = p + 1
      BY <1>2, <1>8
    <2> QED
      BY <2>1, <2>2, <1>3
  <1> QED
    BY <1>1, <1>2, <1>8, <1>9, <1>10, <1>3, <1>4, <1>5, <1>7 DEF Walking

\* A letter that stays on the screen.
LEMMA WalkStays ==
  ASSUME NEW b, NEW s, NEW r0, Walkable(b, s, r0),
         NEW st, NEW k \in Nat, NEW e, NEW p, NEW r, WalkInv(b, s, st, k, e, p, r),
         k < Len(s), k + 1 \in Staying(b.fly, s)
  PROVE  WalkInv(b, s, Moved(st), k + 1, e, p + 1, r)
  <1> DEFINE n == s[k + 1]
             x == Lands(b.fly, s, k + 1)
             st2 == [st EXCEPT !.fly[n].x = x, !.it = After(s, k + 1)]
  <1>0. Walking(b, s, st, k, e, p, r)
    BY WalkFacts
  <1> HIDE DEF n, x, st2
  <1>1. /\ s \in Seq(Nodes) /\ Len(s) \in Nat /\ k + 1 \in 1 .. Len(s) /\ n \in Nodes
    BY <1>0 DEF Walking, n
  <1>2. /\ st \in Walks /\ p \in Nat /\ e \in Seq(1 .. Len(s)) /\ Len(e) = p + Len(s) - k
        /\ Len(e) \in Nat /\ \A j \in 1 .. Len(e) : e[j] \in 1 .. Len(s)
    BY <1>0 DEF Walking, n
  <1>3. /\ \A j \in 1 .. Len(e) : j <= p => e[j] <= k /\ e[j] \in Staying(b.fly, s)
        /\ \A j \in 1 .. Len(e) : j > p => e[j] = k + j - p
    BY <1>0 DEF Walking, n
  <1>4. \A j \in 1 .. Len(e) :
          st.fly[s[e[j]]] =
            IF j <= p THEN [b.fly[s[e[j]]] EXCEPT !.x = Lands(b.fly, s, e[j])]
            ELSE b.fly[s[e[j]]]
    BY <1>0 DEF Walking, n
  <1>5. p + 1 \in 1 .. Len(e) /\ e[p + 1] = k + 1
    BY <1>0 DEF Walking, n
  <1>6. st.it = n /\ st.fly[n] = b.fly[n] /\ b.fly[n] \in Flies
    BY <1>0 DEF Walking, n
  <1>7. st.list.next[n] = After(s, k + 1)
    BY <1>0 DEF Walking, n
  <1>8. \A j \in 1 .. Len(e) : s[e[j]] = n <=> j = p + 1
    BY <1>0 DEF Walking, n
  <1> USE DEF n
  <1>9. x \in 0 .. Bottom /\ x = b.fly[n].x + b.fly[n].v
    BY DEF Staying, Lands, x
  <1>10. Moved(st) = st2
    BY <1>2, <1>6, <1>7, <1>9 DEF Moved, Walks, st2
  <1>11. [b.fly[n] EXCEPT !.x = x] \in Flies
    BY <1>6, <1>9 DEF Flies
  <1>12. /\ st2 \in Walks /\ st2.list = st.list /\ st2.head = st.head
         /\ st2.hit = st.hit /\ st2.miss = st.miss /\ st2.it = After(s, k + 1)
         /\ st2.fly = [st.fly EXCEPT ![n] = [b.fly[n] EXCEPT !.x = x]]
    <2>1. After(s, k + 1) \in Nodes \cup {NULL}
      BY <1>1 DEF After
    <2> HIDE DEF n, x
    <2>2. st2 = [st EXCEPT !.fly = [st.fly EXCEPT ![n] = [b.fly[n] EXCEPT !.x = x]],
                           !.it = After(s, k + 1)]
      BY <1>2, <1>6 DEF Walks, st2
    <2>3. [st.fly EXCEPT ![n] = [b.fly[n] EXCEPT !.x = x]] \in [Nodes -> Flies \cup {Blank}]
      BY <1>2, <1>11 DEF Walks
    <2> QED
      BY <2>1, <2>2, <2>3, <1>2 DEF Walks
  <1>13. ASSUME NEW j \in 1 .. Len(e)
         PROVE  st2.fly[s[e[j]]] =
                  IF j <= p + 1 THEN [b.fly[s[e[j]]] EXCEPT !.x = Lands(b.fly, s, e[j])]
                  ELSE b.fly[s[e[j]]]
    <2>1. CASE j = p + 1
      BY <2>1, <1>1, <1>2, <1>5, <1>12 DEF Walks, x
    <2>2. CASE j # p + 1
      <3>1. st2.fly[s[e[j]]] = st.fly[s[e[j]]]
        <4>1. s[e[j]] # n /\ s[e[j]] \in Nodes
          BY <2>2, <1>1, <1>2, <1>8
        <4> QED
          BY <4>1, <1>2, <1>12 DEF Walks
      <3>2. j <= p + 1 <=> j <= p
        BY <2>2, <1>2
      <3> QED
        BY <3>1, <3>2, <1>4
    <2> QED
      BY <2>1, <2>2
  <1>14. /\ p + 1 \in Nat /\ Len(e) = (p + 1) + Len(s) - (k + 1)
         /\ \A j \in 1 .. Len(e) : j <= p + 1 => e[j] <= k + 1 /\ e[j] \in Staying(b.fly, s)
         /\ \A j \in 1 .. Len(e) : j > p + 1 => e[j] = (k + 1) + j - (p + 1)
    <2>1. ASSUME NEW j \in 1 .. Len(e), j <= p + 1
          PROVE  e[j] <= k + 1 /\ e[j] \in Staying(b.fly, s)
      <3>1. CASE j = p + 1
        BY <3>1, <1>5
      <3>2. CASE j <= p
        BY <3>2, <1>2, <1>3
      <3> QED
        BY <2>1, <3>1, <3>2, <1>2
    <2>2. \A j \in 1 .. Len(e) : j > p + 1 => j > p /\ (k + 1) + j - (p + 1) = k + j - p
      BY <1>2
    <2>3. Len(e) = (p + 1) + Len(s) - (k + 1)
      BY <1>1, <1>2
    <2> QED
      BY <2>1, <2>2, <2>3, <1>2, <1>3
  <1>15. /\ Cardinality(UpTo(Staying(b.fly, s), k + 1)) = p + 1
         /\ Cardinality(UpTo(Risen(b.fly, s), k + 1)) = Cardinality(UpTo(Risen(b.fly, s), k))
         /\ Cardinality(UpTo(Fallen(b.fly, s), k + 1)) = Cardinality(UpTo(Fallen(b.fly, s), k))
    <2>1. k + 1 \notin Risen(b.fly, s) /\ k + 1 \notin Fallen(b.fly, s)
      BY <1>9, GameAssumption DEF Risen, Fallen, x
    <2>2. /\ Cardinality(UpTo(Risen(b.fly, s), k)) \in Nat
          /\ Cardinality(UpTo(Fallen(b.fly, s), k)) \in Nat
      BY CountFinite
    <2> QED
      BY <2>1, <2>2, CountStep DEF WalkInv
  <1>16. WalkInv(b, s, st2, k + 1, e, p + 1, r)
    BY <1>2, <1>12, <1>13, <1>14, <1>15 DEF WalkInv
  <1> QED
    BY <1>10, <1>16

LEMMA PickedIs ==
  ASSUME NEW S, NEW s \in Seq(S), NEW e \in Seq(1 .. Len(s))
  PROVE  /\ Picked(s, e) \in Seq(S) /\ Len(Picked(s, e)) = Len(e) /\ Len(e) \in Nat
         /\ \A j \in 1 .. Len(e) : e[j] \in 1 .. Len(s) /\ Picked(s, e)[j] = s[e[j]]
  BY DEF Picked

LEMMA PickedWithout ==
  ASSUME NEW S, NEW s \in Seq(S), NEW e \in Seq(1 .. Len(s)), NEW i \in 1 .. Len(e)
  PROVE  Picked(s, Without(e, i)) = Without(Picked(s, e), i)
  <1>1. /\ Picked(s, e) \in Seq(S) /\ Len(Picked(s, e)) = Len(e) /\ Len(e) \in Nat
        /\ \A j \in 1 .. Len(e) : e[j] \in 1 .. Len(s) /\ Picked(s, e)[j] = s[e[j]]
    BY PickedIs
  <1>2. /\ Without(e, i) \in Seq(1 .. Len(s)) /\ Len(Without(e, i)) = Len(e) - 1
        /\ \A j \in 1 .. Len(e) - 1 : j < i => Without(e, i)[j] = e[j]
        /\ \A j \in 1 .. Len(e) - 1 : j >= i => Without(e, i)[j] = e[j + 1]
    <2> DEFINE I == 1 .. Len(s)
    <2>1. e \in Seq(I)
      OBVIOUS
    <2> HIDE DEF I
    <2>2. /\ Without(e, i) \in Seq(I) /\ Len(Without(e, i)) = Len(e) - 1
          /\ \A j \in 1 .. Len(e) - 1 : j < i => Without(e, i)[j] = e[j]
          /\ \A j \in 1 .. Len(e) - 1 : j >= i => Without(e, i)[j] = e[j + 1]
      BY <2>1, WithoutIs
    <2> QED
      BY <2>2 DEF I
  <1>3. Without(Picked(s, e), i) =
          [j \in 1 .. Len(e) - 1 |-> IF j < i THEN Picked(s, e)[j] ELSE Picked(s, e)[j + 1]]
    BY <1>1 DEF Without
  <1>4. Picked(s, Without(e, i)) = [j \in 1 .. Len(e) - 1 |-> s[Without(e, i)[j]]]
    BY <1>2 DEF Picked
  <1>5. ASSUME NEW j \in 1 .. Len(e) - 1
        PROVE  s[Without(e, i)[j]] = IF j < i THEN Picked(s, e)[j] ELSE Picked(s, e)[j + 1]
    <2>1. j \in 1 .. Len(e) /\ j + 1 \in 1 .. Len(e) /\ (j < i \/ j >= i)
      BY <1>1
    <2> QED
      BY <2>1, <1>1, <1>2
  <1> QED
    BY <1>3, <1>4, <1>5

\* A letter that leaves the screen.
LEMMA WalkLeaves ==
  ASSUME NEW b, NEW s, NEW r0, Walkable(b, s, r0),
         NEW st, NEW k \in Nat, NEW e, NEW p, NEW r, WalkInv(b, s, st, k, e, p, r),
         k < Len(s), k + 1 \notin Staying(b.fly, s)
  PROVE  WalkInv(b, s, Moved(st), k + 1, Without(e, p + 1), p, Prepended(s[k + 1], r))
  <1> DEFINE n == s[k + 1]
             x == Lands(b.fly, s, k + 1)
             d == Without(e, p + 1)
             cur == Picked(s, e)
             next == After(s, k + 1)
             st2 == [st EXCEPT !.list = Free(Remove(st.list, n), n), !.fly[n] = Blank,
                       !.head = IF n = st.head THEN next ELSE st.head, !.it = next,
                       !.hit = IF x < 0 THEN (st.hit + 1) % Wrap ELSE st.hit,
                       !.miss = IF x < 0 THEN st.miss ELSE (st.miss + 1) % Wrap]
  <1> HIDE DEF n, x, d, cur, next, st2
  <1>0. Walking(b, s, st, k, e, p, r)
    BY WalkFacts
  <1>1. /\ s \in Seq(Nodes) /\ Len(s) \in Nat /\ k + 1 \in 1 .. Len(s) /\ n \in Nodes
    BY <1>0 DEF Walking, n
  <1>2. /\ st \in Walks /\ p \in Nat /\ e \in Seq(1 .. Len(s)) /\ Len(e) = p + Len(s) - k
        /\ Len(e) \in Nat /\ \A j \in 1 .. Len(e) : e[j] \in 1 .. Len(s)
    BY <1>0 DEF Walking
  <1>3. /\ \A j \in 1 .. Len(e) : j <= p => e[j] <= k /\ e[j] \in Staying(b.fly, s)
        /\ \A j \in 1 .. Len(e) : j > p => e[j] = k + j - p
    BY <1>0 DEF Walking
  <1>4. \A j \in 1 .. Len(e) :
           st.fly[s[e[j]]] =
             IF j <= p THEN [b.fly[s[e[j]]] EXCEPT !.x = Lands(b.fly, s, e[j])]
             ELSE b.fly[s[e[j]]]
    BY <1>0 DEF Walking
  <1>5. p + 1 \in 1 .. Len(e) /\ e[p + 1] = k + 1
    BY <1>0 DEF Walking
  <1>6. /\ st.it = n /\ st.fly[n] = b.fly[n] /\ b.fly[n] \in Flies /\ st.list.next[n] = next
        /\ IsPool(st.list, st.head, cur, r)
    BY <1>0 DEF Walking, n, next, cur
  <1>7. \A j \in 1 .. Len(e) : s[e[j]] = n <=> j = p + 1
    BY <1>0 DEF Walking, n
  <1>8. /\ x = b.fly[n].x + b.fly[n].v /\ x \notin 0 .. Bottom /\ x \in Int
        /\ next \in Nodes \cup {NULL}
    <2>1. x = b.fly[n].x + b.fly[n].v
      BY DEF Lands, x, n
    <2>2. x \notin 0 .. Bottom
      BY <1>1 DEF Staying, x
    <2>3. b.fly[n].x \in Int /\ b.fly[n].v \in Int
      BY <1>6, GameAssumption DEF Flies
    <2> QED
      BY <2>1, <2>2, <2>3, <1>1 DEF next, After
  <1>9. Moved(st) = st2
    BY <1>2, <1>6, <1>8 DEF Moved, Left, Walks, st2
  <1>10. /\ cur \in Seq(Nodes) /\ Len(cur) = Len(e) /\ cur[p + 1] = n
    <2>1. s \in Seq(Nodes) /\ e \in Seq(1 .. Len(s))
      BY <1>1, <1>2
    <2>2. /\ cur \in Seq(Nodes) /\ Len(cur) = Len(e)
          /\ \A j \in 1 .. Len(e) : cur[j] = s[e[j]]
      BY <2>1, PickedIs DEF cur
    <2> QED
      BY <2>2, <1>5 DEF n
  <1>11. /\ n = st.head <=> p + 1 = 1
         /\ After(cur, p + 1) = next
         /\ IsPool(Free(Remove(st.list, n), n), IF p + 1 = 1 THEN After(cur, 1) ELSE st.head,
                   Without(cur, p + 1), Prepended(n, r))
    <2>1. p + 1 \in 1 .. Len(cur)
      BY <1>5, <1>10
    <2>2. /\ st.list.next[cur[p + 1]] = After(cur, p + 1)
          /\ cur[p + 1] = st.head <=> p + 1 = 1
          /\ IsPool(Free(Remove(st.list, cur[p + 1]), cur[p + 1]),
                    IF p + 1 = 1 THEN After(cur, 1) ELSE st.head,
                    Without(cur, p + 1), Prepended(cur[p + 1], r))
      BY <2>1, <1>6, FreeIsPool
    <2> QED
      BY <2>2, <1>6, <1>10
  <1>12. /\ st2.list = Free(Remove(st.list, n), n)
         /\ st2.head = IF p + 1 = 1 THEN next ELSE st.head
         /\ st2.it = next /\ st2.fly = [st.fly EXCEPT ![n] = Blank]
         /\ st2.hit = (IF x < 0 THEN (st.hit + 1) % Wrap ELSE st.hit)
         /\ st2.miss = (IF x < 0 THEN st.miss ELSE (st.miss + 1) % Wrap)
         /\ st2 \in Walks
    <2>1. Free(Remove(st.list, n), n) \in Pools
      BY <1>11 DEF IsPool
    <2>2. [st.fly EXCEPT ![n] = Blank] \in [Nodes -> Flies \cup {Blank}]
      BY <1>1, <1>2 DEF Walks
    <2>3. (st.hit + 1) % Wrap \in 0 .. Wrap - 1 /\ (st.miss + 1) % Wrap \in 0 .. Wrap - 1
      <3>1. st.hit + 1 \in Nat /\ st.miss + 1 \in Nat /\ Wrap \in Nat \ {0}
        BY <1>2, GameAssumption DEF Walks
      <3> QED
        BY <3>1, ModRange
    <2> QED
      BY <2>1, <2>2, <2>3, <1>2, <1>8, <1>11 DEF Walks, st2
  <1>13. /\ d \in Seq(1 .. Len(s)) /\ Len(d) = Len(e) - 1
         /\ \A j \in 1 .. Len(e) - 1 : j < p + 1 => d[j] = e[j]
         /\ \A j \in 1 .. Len(e) - 1 : j >= p + 1 => d[j] = e[j + 1]
    <2> DEFINE I == 1 .. Len(s)
               i == p + 1
    <2>1. e \in Seq(I) /\ i \in 1 .. Len(e)
      BY <1>2, <1>5
    <2> HIDE DEF I, i
    <2>2. /\ Without(e, i) \in Seq(I) /\ Len(Without(e, i)) = Len(e) - 1
          /\ \A j \in 1 .. Len(e) - 1 : j < i => Without(e, i)[j] = e[j]
          /\ \A j \in 1 .. Len(e) - 1 : j >= i => Without(e, i)[j] = e[j + 1]
      BY <2>1, WithoutIs
    <2> QED
      BY <2>2 DEF I, i, d
  <1>14. IsPool(st2.list, st2.head, Picked(s, d), Prepended(n, r))
    <2>1. Picked(s, d) = Without(cur, p + 1)
      BY <1>1, <1>2, <1>5, PickedWithout DEF cur, d
    <2>2. st2.head = IF p + 1 = 1 THEN After(cur, 1) ELSE st.head
      BY <1>11, <1>12
    <2> QED
      BY <2>1, <2>2, <1>11, <1>12
  <1>15. \A j \in 1 .. Len(d) : \E i \in 1 .. Len(e) :
           d[j] = e[i] /\ i # p + 1 /\ i = IF j < p + 1 THEN j ELSE j + 1
    <2> SUFFICES ASSUME NEW j \in 1 .. Len(d)
                 PROVE  \E i \in 1 .. Len(e) :
                          d[j] = e[i] /\ i # p + 1 /\ i = IF j < p + 1 THEN j ELSE j + 1
      OBVIOUS
    <2>1. j \in 1 .. Len(e) - 1 /\ j \in 1 .. Len(e) /\ j + 1 \in 1 .. Len(e)
      BY <1>2, <1>13
    <2>2. CASE j < p + 1
      <3>1. d[j] = e[j] /\ j # p + 1
        BY <2>1, <2>2, <1>13
      <3> QED
        BY <2>1, <2>2, <3>1
    <2>3. CASE j >= p + 1
      <3>1. d[j] = e[j + 1] /\ j + 1 # p + 1 /\ ~(j < p + 1)
        BY <2>1, <2>3, <1>2, <1>13
      <3> QED
        BY <2>1, <3>1
    <2> QED
      BY <2>1, <2>2, <2>3, <1>2
  <1>16. \A i, j \in 1 .. Len(d) : i < j => d[i] < d[j]
    <2> SUFFICES ASSUME NEW i \in 1 .. Len(d), NEW j \in 1 .. Len(d), i < j
                 PROVE  d[i] < d[j]
      OBVIOUS
    <2>1. PICK i2 \in 1 .. Len(e) : d[i] = e[i2] /\ i2 = IF i < p + 1 THEN i ELSE i + 1
      BY <1>15
    <2>2. PICK j2 \in 1 .. Len(e) : d[j] = e[j2] /\ j2 = IF j < p + 1 THEN j ELSE j + 1
      BY <1>15
    <2>3. i \in Nat /\ j \in Nat /\ p \in Nat
      BY <1>2, <1>13
    <2>4. i2 < j2
      <3> HIDE DEF d
      <3> QED
        BY <2>1, <2>2, <2>3
    <2> QED
      BY <2>1, <2>2, <2>4 DEF WalkInv
  <1>17. ASSUME NEW j \in 1 .. Len(d)
         PROVE  /\ j <= p => d[j] <= k + 1 /\ d[j] \in Staying(b.fly, s)
                /\ j > p => d[j] = (k + 1) + j - p
                /\ st2.fly[s[d[j]]] =
                     IF j <= p THEN [b.fly[s[d[j]]] EXCEPT !.x = Lands(b.fly, s, d[j])]
                     ELSE b.fly[s[d[j]]]
    <2>1. PICK i \in 1 .. Len(e) :
            d[j] = e[i] /\ i # p + 1 /\ i = IF j < p + 1 THEN j ELSE j + 1
      BY <1>15
    <2>2. j <= p <=> i <= p
      BY <2>1, <1>2
    <2>3. st2.fly[s[d[j]]] = st.fly[s[e[i]]]
      <3>1. s[e[i]] # n /\ s[e[i]] \in Nodes
        <4>1. i # p + 1 /\ e[i] \in 1 .. Len(s)
          BY <2>1, <1>2
        <4>2. s[e[i]] # n
          BY <4>1, <1>7
        <4> QED
          BY <4>1, <4>2, <1>1
      <3> QED
        BY <3>1, <2>1, <1>2, <1>12 DEF Walks
    <2>4. j <= p => d[j] <= k + 1 /\ d[j] \in Staying(b.fly, s)
      <3> SUFFICES ASSUME j <= p PROVE d[j] <= k + 1 /\ d[j] \in Staying(b.fly, s)
        OBVIOUS
      <3>1. e[i] <= k /\ e[i] \in Staying(b.fly, s) /\ e[i] \in Int
        BY <2>2, <1>2, <1>3
      <3> QED
        BY <3>1, <2>1
    <2>5. j > p => d[j] = (k + 1) + j - p
      <3> SUFFICES ASSUME j > p PROVE d[j] = (k + 1) + j - p
        OBVIOUS
      <3>1. i = j + 1 /\ i > p
        BY <2>1, <1>2
      <3>2. e[i] = k + i - p
        BY <3>1, <1>3
      <3> QED
        BY <3>1, <3>2, <2>1, <1>2
    <2>6. st2.fly[s[d[j]]] =
            IF j <= p THEN [b.fly[s[d[j]]] EXCEPT !.x = Lands(b.fly, s, d[j])]
            ELSE b.fly[s[d[j]]]
      BY <2>1, <2>2, <2>3, <1>4
    <2> QED
      BY <2>4, <2>5, <2>6
  <1>18. /\ p = Cardinality(UpTo(Staying(b.fly, s), k + 1))
         /\ st2.hit = (b.hit + Cardinality(UpTo(Risen(b.fly, s), k + 1))) % Wrap
         /\ st2.miss = (b.miss + Cardinality(UpTo(Fallen(b.fly, s), k + 1))) % Wrap
    <2>0. /\ p = Cardinality(UpTo(Staying(b.fly, s), k))
          /\ st.hit = (b.hit + Cardinality(UpTo(Risen(b.fly, s), k))) % Wrap
          /\ st.miss = (b.miss + Cardinality(UpTo(Fallen(b.fly, s), k))) % Wrap
      BY DEF WalkInv
    <2>1. k + 1 \in Risen(b.fly, s) <=> x < 0
      BY <1>1 DEF Risen, x
    <2>2. k + 1 \in Fallen(b.fly, s) <=> ~(x < 0)
      BY <1>1, <1>8, GameAssumption DEF Fallen, x
    <2> DEFINE cr == Cardinality(UpTo(Risen(b.fly, s), k))
               cf == Cardinality(UpTo(Fallen(b.fly, s), k))
    <2>3. cr \in Nat /\ cf \in Nat
      BY CountFinite
    <2>4. /\ Cardinality(UpTo(Staying(b.fly, s), k + 1)) = p
          /\ Cardinality(UpTo(Risen(b.fly, s), k + 1)) = cr + IF x < 0 THEN 1 ELSE 0
          /\ Cardinality(UpTo(Fallen(b.fly, s), k + 1)) = cf + IF x < 0 THEN 0 ELSE 1
      <3>1. Cardinality(UpTo(Staying(b.fly, s), k + 1)) = p + 0
        BY <2>0, CountStep
      <3>2. Cardinality(UpTo(Risen(b.fly, s), k + 1)) =
              cr + IF k + 1 \in Risen(b.fly, s) THEN 1 ELSE 0
        BY CountStep
      <3>3. Cardinality(UpTo(Fallen(b.fly, s), k + 1)) =
              cf + IF k + 1 \in Fallen(b.fly, s) THEN 1 ELSE 0
        BY CountStep
      <3> QED
        BY <3>1, <3>2, <3>3, <2>1, <2>2, <1>2
    <2>5. b.hit \in Nat /\ b.miss \in Nat /\ Wrap \in Nat \ {0}
      BY GameAssumption DEF Walkable, Walks
    <2> HIDE DEF cr, cf
    <2>6. b.hit + cr \in Nat /\ b.miss + cf \in Nat
      BY <2>3, <2>5
    <2>7. /\ (((b.hit + cr) % Wrap) + 1) % Wrap = ((b.hit + cr) + 1) % Wrap
          /\ (((b.miss + cf) % Wrap) + 1) % Wrap = ((b.miss + cf) + 1) % Wrap
      BY <2>5, <2>6, ModStep
    <2>8. /\ (b.hit + cr) + 1 = b.hit + (cr + 1) /\ (b.miss + cf) + 1 = b.miss + (cf + 1)
          /\ cr + 0 = cr /\ cf + 0 = cf
      BY <2>3, <2>5, PlusOne
    <2>9. st.hit = (b.hit + cr) % Wrap /\ st.miss = (b.miss + cf) % Wrap
      BY <2>0 DEF cr, cf
    <2> QED
      BY <2>4, <2>7, <2>8, <2>9, <1>12
  <1>19. Len(d) = p + Len(s) - (k + 1)
    BY <1>1, <1>2, <1>13
  <1>20. WalkInv(b, s, st2, k + 1, d, p, Prepended(n, r))
    BY <1>2, <1>12, <1>13, <1>14, <1>16, <1>17, <1>18, <1>19 DEF WalkInv, next
  <1> QED
    BY <1>9, <1>20 DEF d, n

\* One turn of the loop, when it has not ended; the states of n turns from b.
Turn(st) == IF st.it = NULL THEN st ELSE Moved(st)
Turns(b, n, f) == f = [k \in 0 .. n |-> IF k = 0 THEN b ELSE Turn(f[k - 1])]

LEMMA TurnsExist == ASSUME NEW b, NEW n \in Nat PROVE \E f : Turns(b, n, f)
  <1> DEFINE S == {m \in Nat : \E f : Turns(b, m, f)}
  <1>1. 0 \in S
    <2> DEFINE f == [k \in 0 .. 0 |-> b]
    <2>1. f = [k \in 0 .. 0 |-> IF k = 0 THEN b ELSE Turn(f[k - 1])]
      OBVIOUS
    <2> QED
      BY <2>1 DEF Turns
  <1>2. ASSUME NEW m \in Nat, m \in S PROVE m + 1 \in S
    <2>1. PICK f : Turns(b, m, f)
      BY <1>2
    <2> DEFINE g == [k \in 0 .. m + 1 |-> IF k <= m THEN f[k] ELSE Turn(f[m])]
    <2>2. \A k \in 0 .. m : f[k] = IF k = 0 THEN b ELSE Turn(f[k - 1])
      BY <2>1 DEF Turns
    <2>3. ASSUME NEW k \in 0 .. m + 1
          PROVE  g[k] = IF k = 0 THEN b ELSE Turn(g[k - 1])
      <3>1. CASE k = 0
        BY <3>1, <2>2
      <3>2. CASE k # 0 /\ k <= m
        <4>1. k - 1 \in 0 .. m + 1 /\ k - 1 <= m /\ k \in 0 .. m
          BY <3>2
        <4>2. g[k] = f[k] /\ g[k - 1] = f[k - 1]
          BY <4>1
        <4> HIDE DEF g
        <4> QED
          BY <3>2, <4>1, <4>2, <2>2
      <3>3. CASE k = m + 1
        <4>1. k - 1 = m /\ m \in 0 .. m + 1 /\ k # 0 /\ ~(k <= m)
          BY <3>3
        <4>2. g[k] = Turn(f[m]) /\ g[m] = f[m]
          BY <4>1
        <4> HIDE DEF g
        <4> QED
          BY <4>1, <4>2
      <3> QED
        BY <3>1, <3>2, <3>3
    <2>4. g = [k \in 0 .. m + 1 |-> IF k = 0 THEN b ELSE Turn(g[k - 1])]
      <3> DEFINE h == [k \in 0 .. m + 1 |-> IF k = 0 THEN b ELSE Turn(g[k - 1])]
      <3>1. \A k \in 0 .. m + 1 : g[k] = h[k]
        BY <2>3
      <3>2. g = [k \in 0 .. m + 1 |-> g[k]] /\ h = [k \in 0 .. m + 1 |-> h[k]]
        OBVIOUS
      <3> HIDE DEF g, h
      <3>3. g = h
        BY <3>1, <3>2
      <3> QED
        BY <3>3 DEF h
    <2> HIDE DEF g
    <2>5. Turns(b, m + 1, g)
      BY <2>4 DEF Turns
    <2> QED
      BY <2>5
  <1> HIDE DEF S
  <1>3. Nat \subseteq S
    BY <1>1, <1>2, SetInduction
  <1> QED
    BY <1>3 DEF S

\* Walked is the last of these states.
LEMMA WalkedIs ==
  ASSUME NEW b
  PROVE  \E f : /\ f[0] = b /\ Walked(b) = f[SIZE + 1]
                /\ \A k \in 0 .. SIZE : f[k + 1] = Turn(f[k])
  <1> DEFINE f == CHOOSE f : Turns(b, SIZE + 1, f)
  <1>0. SIZE + 1 \in Nat
    BY SizeAssumption
  <1>1. Turns(b, SIZE + 1, f)
    BY <1>0, TurnsExist
  <1>2. Walked(b) = f[SIZE + 1]
    BY DEF Walked, Turns, Turn
  <1> HIDE DEF f
  <1>3. \A k \in 0 .. SIZE + 1 : f[k] = IF k = 0 THEN b ELSE Turn(f[k - 1])
    BY <1>1 DEF Turns
  <1>4. f[0] = b
    BY <1>3, SizeAssumption
  <1>5. ASSUME NEW k \in 0 .. SIZE PROVE f[k + 1] = Turn(f[k])
    <2>1. k + 1 \in 0 .. SIZE + 1 /\ k + 1 # 0 /\ (k + 1) - 1 = k
      BY SizeAssumption
    <2>2. f[k + 1] = Turn(f[(k + 1) - 1])
      BY <2>1, <1>3
    <2> QED
      BY <2>1, <2>2
  <1> QED
    BY <1>2, <1>4, <1>5

\* The loop of update_letter_pos ends, with all letters moved.
LEMMA WalkEnds ==
  ASSUME NEW b, NEW s, NEW r0, Walkable(b, s, r0)
  PROVE  \E e : \E r : WalkInv(b, s, Walked(b), Len(s), e, Len(e), r)
  <1>1. PICK f : /\ f[0] = b /\ Walked(b) = f[SIZE + 1]
                 /\ \A k \in 0 .. SIZE : f[k + 1] = Turn(f[k])
    BY WalkedIs
  <1>2. s \in Seq(Nodes) /\ Len(s) \in 0 .. SIZE /\ SIZE \in Nat
    BY PoolFacts, SizeAssumption DEF Walkable
  <1> DEFINE AtTurn(k) == \E e : \E p : \E r :
               WalkInv(b, s, f[k], IF k <= Len(s) THEN k ELSE Len(s), e, p, r)
             S == {k \in Nat : k <= SIZE + 1 => AtTurn(k)}
  <1>3. 0 \in S
    <2>1. PICK e : WalkInv(b, s, b, 0, e, 0, r0)
      BY WalkBegins
    <2> QED
      BY <2>1, <1>1, <1>2
  <1>4. ASSUME NEW k \in Nat, k \in S PROVE k + 1 \in S
    <2> SUFFICES ASSUME k + 1 <= SIZE + 1 PROVE AtTurn(k + 1)
      OBVIOUS
    <2>1. AtTurn(k) /\ k \in 0 .. SIZE /\ f[k + 1] = Turn(f[k])
      BY <1>1, <1>2, <1>4
    <2>2. PICK e : \E p : \E r : WalkInv(b, s, f[k], IF k <= Len(s) THEN k ELSE Len(s), e, p, r)
      BY <2>1
    <2>3. PICK p : \E r : WalkInv(b, s, f[k], IF k <= Len(s) THEN k ELSE Len(s), e, p, r)
      BY <2>2
    <2>4. PICK r : WalkInv(b, s, f[k], IF k <= Len(s) THEN k ELSE Len(s), e, p, r)
      BY <2>3
    <2>5. CASE k < Len(s)
      <3>1. WalkInv(b, s, f[k], k, e, p, r)
        BY <2>4, <2>5, <1>2
      <3>2. f[k].it = s[k + 1] /\ s[k + 1] \in Nodes
        BY <3>1, <2>5, <1>2 DEF WalkInv, After
      <3>3. f[k + 1] = Moved(f[k])
        BY <3>2, <2>1, NullIsNoNode DEF Turn
      <3>4. \E e2 : \E p2 : \E r2 : WalkInv(b, s, Moved(f[k]), k + 1, e2, p2, r2)
        BY <3>1, <2>5, WalkStays, WalkLeaves
      <3>5. k + 1 <= Len(s)
        BY <2>5, <1>2
      <3> QED
        BY <3>3, <3>4, <3>5
    <2>6. CASE ~(k < Len(s))
      <3>1. WalkInv(b, s, f[k], Len(s), e, p, r)
        <4>1. (IF k <= Len(s) THEN k ELSE Len(s)) = Len(s)
          BY <2>6, <1>2
        <4> QED
          BY <2>4, <4>1
      <3>2. f[k].it = NULL
        BY <3>1 DEF WalkInv, After
      <3>3. f[k + 1] = f[k] /\ ~(k + 1 <= Len(s))
        BY <3>2, <2>1, <2>6, <1>2 DEF Turn
      <3> QED
        BY <3>1, <3>3
    <2> QED
      BY <2>5, <2>6
  <1>5. SIZE + 1 \in S
    <2> HIDE DEF S
    <2>1. Nat \subseteq S
      BY <1>3, <1>4, SetInduction
    <2> QED
      BY <2>1, <1>2
  <1>6. AtTurn(SIZE + 1) /\ (IF SIZE + 1 <= Len(s) THEN SIZE + 1 ELSE Len(s)) = Len(s)
    BY <1>5, <1>2
  <1>7. PICK e : \E p : \E r : WalkInv(b, s, Walked(b), Len(s), e, p, r)
    BY <1>6, <1>1
  <1>8. PICK p : \E r : WalkInv(b, s, Walked(b), Len(s), e, p, r)
    BY <1>7
  <1>9. PICK r : WalkInv(b, s, Walked(b), Len(s), e, p, r)
    BY <1>8
  <1>10. p = Len(e)
    BY <1>2, <1>9 DEF WalkInv
  <1> QED
    BY <1>9, <1>10

-------------------------------------------------------------------------------
(* The invariant of the game *)

Order == Chain(list, head)
Rest == Chain(Chained(list), Chained(list).free)

\* The letters on the screen are the list, and every other node is free.
PoolInv ==
  /\ IsPool(list, head, Order, Rest)
  /\ fly \in [Nodes -> Flies \cup {Blank}]
  /\ \A i \in 1 .. Len(Order) : fly[Order[i]] \in Flies

DataInv ==
  /\ letter_pressed \in [Letters -> BOOLEAN] /\ scan_code_buf \in Letters \cup {OtherCode}
  /\ hit \in 0 .. Wrap - 1 /\ miss \in 0 .. Wrap - 1 /\ now \in 0 .. CreateEvery - 1
  /\ pc = "create" => now = 0

\* The ticks since the newest letter came, or will have been made room for.
Since == IF now # 0 THEN now ELSE IF pc = "update" THEN 0 ELSE CreateEvery

\* A letter that has been on the screen for a ticks, or for more: a falling one
\* is that far down, and one that was struck at the bottom, or higher, is that
\* far up again.
Aged(fl, a) == IF fl.v = 1 THEN a <= fl.x ELSE fl.x + Up * a <= Bottom * (1 + Up)

\* Letters come CreateEvery ticks apart.
AgeInv == \A i \in 1 .. Len(Order) : Aged(fly[Order[i]], Since + CreateEvery * (i - 1))

GameInv == PoolInv /\ DataInv /\ AgeInv

\* The list after a step is known when its nodes are.
LEMMA OrderIs ==
  ASSUME NEW l, NEW h, NEW s, NEW r, IsPool(l, h, s, r)
  PROVE  Chain(l, h) = s /\ Chain(Chained(l), Chained(l).free) = r
  <1>1. Linked(l, h, s) /\ Linked(Chained(l), Chained(l).free, r)
    BY DEF IsPool
  <1>2. Len(s) <= SIZE + 1 /\ Len(r) <= SIZE + 1
    BY PoolFacts, SizeAssumption
  <1> QED
    BY <1>1, <1>2, ChainIs

LEMMA ShownIs ==
  ASSUME Order \in Seq(Nodes)
  PROVE  /\ Len(Shown) = Len(Order) /\ Len(Order) \in Nat
         /\ \A i \in 1 .. Len(Order) : Shown[i] = fly[Order[i]]
         /\ Shown = [i \in 1 .. Len(Order) |-> fly[Order[i]]]
  <1>1. Shown = [i \in 1 .. Len(Order) |-> fly[Order[i]]]
    BY DEF Shown, Order
  <1>2. Len(Order) \in Nat
    OBVIOUS
  <1> HIDE DEF Shown, Order
  <1> QED
    BY <1>1, <1>2

\* A step that leaves the letters and the ticks alone.
LEMMA Quiet ==
  ASSUME GameInv, UNCHANGED <<letters, score, now>>,
         letter_pressed' \in [Letters -> BOOLEAN], scan_code_buf' \in Letters \cup {OtherCode},
         pc' = "create" => now = 0, (pc' = "update" /\ now = 0) <=> Created
  PROVE  GameInv' /\ Shown' = Shown /\ Created' = Created
  <1>1. UNCHANGED <<list, head, fly, hit, miss, now>>
    BY DEF letters, score
  <1>2. Order' = Order /\ Rest' = Rest
    BY <1>1 DEF Order, Rest
  <1>3. Shown' = Shown
    BY <1>1 DEF Shown
  <1>4. PoolInv'
    BY <1>1, <1>2 DEF GameInv, PoolInv
  <1>5. Created' = Created /\ Since' = Since
    BY <1>1 DEF Since, Created
  <1>6. AgeInv'
    BY <1>1, <1>2, <1>5 DEF GameInv, AgeInv
  <1>7. DataInv'
    BY <1>1 DEF GameInv, DataInv
  <1> QED
    BY <1>3, <1>4, <1>5, <1>6, <1>7 DEF GameInv

-------------------------------------------------------------------------------
(* The steps of the game *)

\* The steps of the main loop that touch no letter, and the two devices: the rules
\* see nothing.
LEMMA QuietSteps ==
  ASSUME GameInv,
         \/ Hlt \/ Cli \/ Compare \/ Keys \/ NoStrike \/ Ticks
         \/ TimerTick \/ TimerIntr \/ KeyIntr
         \/ \E code \in Letters \cup {OtherCode} : KeyEvent(code)
         \/ UNCHANGED vars
  PROVE  GameInv' /\ UNCHANGED Rules!vars
  <1>1. UNCHANGED <<letters, score, now, letter_pressed>>
    BY DEF Hlt, Cli, Compare, Keys, NoStrike, Ticks, TimerTick, TimerIntr, KeyIntr, KeyEvent,
           time, vars, letters, score
  <1>2. scan_code_buf' \in Letters \cup {OtherCode}
    BY DEF Hlt, Cli, Compare, Keys, NoStrike, Ticks, TimerTick, TimerIntr, KeyIntr, KeyEvent,
           machine, vars, GameInv, DataInv
  <1>3. /\ pc' = "create" => now = 0
        /\ (pc' = "update" /\ now = 0) <=> Created
    BY DEF Hlt, Cli, Compare, Keys, NoStrike, Ticks, TimerTick, TimerIntr, KeyIntr, KeyEvent,
           At, Woken, vars, GameInv, DataInv, Created
  <1>4. letter_pressed' \in [Letters -> BOOLEAN]
    BY <1>1 DEF GameInv, DataInv
  <1>5. GameInv' /\ Shown' = Shown /\ Created' = Created
    BY <1>1, <1>2, <1>3, <1>4, Quiet
  <1>6. Pressed' = Pressed /\ hit' = hit /\ miss' = miss /\ now' = now
    BY <1>1 DEF Pressed, score
  <1> QED
    BY <1>5, <1>6 DEF Rules!vars

\* keyboard_event presses the key that is in the buffer, if it is a letter.
LEMMA KeyboardSteps ==
  ASSUME GameInv, KeyboardEvent
  PROVE  GameInv' /\ [Rules!Next]_(Rules!vars)
  <1>1. /\ UNCHANGED <<letters, score, now, pc, scan_code_buf>>
        /\ letter_pressed' = [k \in Letters |-> letter_pressed[k] \/ k = scan_code_buf]
    BY DEF KeyboardEvent, time
  <1>2. letter_pressed' \in [Letters -> BOOLEAN]
    BY <1>1
  <1>3. GameInv' /\ Shown' = Shown /\ Created' = Created
    BY <1>1, <1>2, Quiet DEF GameInv, DataInv, Created
  <1>4. hit' = hit /\ miss' = miss /\ now' = now
    BY <1>1 DEF score
  <1>5. Pressed' = {k \in Letters : letter_pressed[k] \/ k = scan_code_buf}
    BY <1>1 DEF Pressed
  <1>6. CASE scan_code_buf \in Letters
    <2>1. Pressed' = Pressed \cup {scan_code_buf}
      BY <1>5, <1>6 DEF Pressed
    <2>2. Rules!Press(scan_code_buf)
      BY <2>1, <1>3, <1>4 DEF Rules!Press
    <2> QED
      BY <2>2, <1>3, <1>6 DEF Rules!Next
  <1>7. CASE scan_code_buf \notin Letters
    <2>1. Pressed' = Pressed
      BY <1>5, <1>7 DEF Pressed
    <2> QED
      BY <2>1, <1>3, <1>4 DEF Rules!vars
  <1> QED
    BY <1>6, <1>7

\* A falling letter that is struck is as far up as its age allows.
LEMMA NoOverflow ==
  ASSUME NEW a \in Nat, NEW x \in 0 .. Bottom, a <= x
  PROVE  x + Up * a <= Bottom * (1 + Up)
  <1>1. x \in Nat /\ Bottom \in Nat /\ Up \in Nat /\ x <= Bottom
    BY GameAssumption
  <1>2. Up * a <= Up * x
    BY <1>1
  <1>3. Up * x <= Up * Bottom
    BY <1>1
  <1>4. Up * a \in Nat /\ Up * x \in Nat /\ Up * Bottom \in Nat
    BY <1>1
  <1>5. Bottom * (1 + Up) = Bottom + Up * Bottom
    BY <1>1
  <1> QED
    BY <1>1, <1>2, <1>3, <1>4, <1>5

LEMMA SinceNat ==
  ASSUME DataInv
  PROVE  /\ Since \in Nat
         /\ \A i \in Nat \ {0} : Since + CreateEvery * (i - 1) \in Nat
  <1>1. Since \in Nat /\ CreateEvery \in Nat
    BY GameAssumption DEF DataInv, Since
  <1>2. ASSUME NEW i \in Nat \ {0} PROVE Since + CreateEvery * (i - 1) \in Nat
    <2>1. i - 1 \in Nat
      OBVIOUS
    <2>2. CreateEvery * (i - 1) \in Nat
      BY <2>1, <1>1
    <2> QED
      BY <2>2, <1>1
  <1> QED
    BY <1>1, <1>2

\* update_keypress strikes the letter the rules say: the lowest of those that show a
\* pressed key and, of several, the first in the list.
LEMMA StrikeSteps ==
  ASSUME GameInv, Strike
  PROVE  GameInv' /\ Rules!Next
  <1>0. /\ Order \in Seq(Nodes) /\ Len(Order) \in Nat
        /\ \A i, j \in 1 .. Len(Order) : Order[i] = Order[j] => i = j
        /\ \A i \in 1 .. Len(Order) : Order[i] \in Nodes /\ fly[Order[i]] \in Flies
    BY PoolFacts DEF GameInv, PoolInv, IsPool, Split
  <1>1. PICK n \in OnScreen :
          /\ Target(n)
          /\ letter_pressed' = [letter_pressed EXCEPT ![fly[n].text] = FALSE]
          /\ fly' = [fly EXCEPT ![n].v = -Up]
    BY DEF Strike
  <1>2. PICK i \in 1 .. Len(Order) : n = Order[i]
    BY DEF OnScreen, Members, Order
  <1>3. /\ UNCHANGED <<list, head, hit, miss, now, scan_code_buf>>
        /\ pc = "search" /\ pc' = "keys"
    BY DEF Strike, At, score, machine, time
  <1>4. Order' = Order /\ Rest' = Rest
    BY <1>3 DEF Order, Rest
  <1>5. /\ Shown \in Seq(Flies) /\ Len(Shown) = Len(Order)
        /\ \A j \in 1 .. Len(Order) : Shown[j] = fly[Order[j]]
    <2>1. /\ Len(Shown) = Len(Order)
          /\ \A j \in 1 .. Len(Order) : Shown[j] = fly[Order[j]]
          /\ Shown = [j \in 1 .. Len(Order) |-> fly[Order[j]]]
      BY <1>0, ShownIs
    <2> HIDE DEF Shown
    <2> QED
      BY <2>1, <1>0
  <1>6. /\ fly[n] \in Flies /\ fly[n].v > 0
        /\ fly[n].text \in Letters /\ letter_pressed[fly[n].text]
    <2>1. fly[n] \in Flies
      BY <1>0, <1>2
    <2>2. Falling(n) /\ letter_pressed[fly[n].text]
      BY <1>1 DEF Target, Candidates
    <2> QED
      BY <2>1, <2>2 DEF Flies, Falling
  <1>7. fly[n].v = 1
    BY <1>6, GameAssumption DEF Flies
  <1>8. /\ \A j \in 1 .. Len(Order) : fly'[Order[j]] =
             IF j = i THEN [fly[Order[j]] EXCEPT !.v = -Up] ELSE fly[Order[j]]
        /\ fly' \in [Nodes -> Flies \cup {Blank}]
        /\ \A j \in 1 .. Len(Order) : fly'[Order[j]] \in Flies
    <2>1. fly \in [Nodes -> Flies \cup {Blank}]
      BY DEF GameInv, PoolInv
    <2>2. fly' = [fly EXCEPT ![n] = [fly[n] EXCEPT !.v = -Up]]
      BY <1>1, <2>1
    <2>3. [fly[n] EXCEPT !.v = -Up] \in Flies
      BY <1>6 DEF Flies
    <2>4. fly' \in [Nodes -> Flies \cup {Blank}]
      BY <2>1, <2>2, <2>3
    <2>5. ASSUME NEW j \in 1 .. Len(Order)
          PROVE  fly'[Order[j]] =
                   IF j = i THEN [fly[Order[j]] EXCEPT !.v = -Up] ELSE fly[Order[j]]
      <3>1. Order[j] \in Nodes /\ (j = i <=> Order[j] = n)
        BY <1>0, <1>2
      <3> QED
        BY <3>1, <2>1, <2>2
    <2> QED
      BY <2>3, <2>4, <2>5, <1>0, <1>2
  <1>9. PoolInv'
    BY <1>3, <1>4, <1>8 DEF GameInv, PoolInv
  <1>10. DataInv'
    BY <1>1, <1>3 DEF GameInv, DataInv
  <1>11. Since' = Since
    BY <1>3 DEF Since
  <1>12. AgeInv'
    <2> SUFFICES ASSUME NEW j \in 1 .. Len(Order)
                 PROVE  Aged(fly'[Order[j]], Since + CreateEvery * (j - 1))
      BY <1>4, <1>11 DEF AgeInv
    <2>1. Aged(fly[Order[j]], Since + CreateEvery * (j - 1))
      BY DEF GameInv, AgeInv
    <2>2. CASE j # i
      BY <2>1, <2>2, <1>8
    <2>3. CASE j = i
      <3> DEFINE a == Since + CreateEvery * (i - 1)
      <3>1. a \in Nat
        BY <1>0, SinceNat DEF GameInv
      <3>2. a <= fly[n].x /\ fly[n].x \in 0 .. Bottom
        BY <2>1, <2>3, <1>2, <1>6, <1>7 DEF Aged, Flies
      <3> HIDE DEF a
      <3>3. fly[n].x + Up * a <= Bottom * (1 + Up)
        BY <3>1, <3>2, NoOverflow
      <3>4. fly'[Order[j]].v = -Up /\ fly'[Order[j]].x = fly[n].x
        BY <2>3, <1>2, <1>6, <1>8 DEF Flies
      <3>5. -Up # 1
        BY GameAssumption
      <3>6. a = Since + CreateEvery * (j - 1)
        BY <2>3 DEF a
      <3> QED
        BY <3>3, <3>4, <3>5, <3>6 DEF Aged
    <2> QED
      BY <2>2, <2>3
  <1>13. Shown' = [Shown EXCEPT ![i].v = -Up]
    <2>1. Shown' = [j \in 1 .. Len(Order) |-> fly'[Order[j]]]
      BY <1>4 DEF Shown, Order
    <2>2. \A j \in 1 .. Len(Order) :
            fly'[Order[j]] = IF j = i THEN [Shown[j] EXCEPT !.v = -Up] ELSE Shown[j]
      BY <1>5, <1>8
    <2>3. [Shown EXCEPT ![i].v = -Up] =
            [j \in 1 .. Len(Order) |-> IF j = i THEN [Shown[j] EXCEPT !.v = -Up] ELSE Shown[j]]
      BY <1>5
    <2> HIDE DEF Shown
    <2> QED
      BY <2>1, <2>2, <2>3
  <1>14. Pressed' = Pressed \ {Shown[i].text}
    <2>1. Shown[i].text = fly[n].text
      BY <1>2, <1>5
    <2>2. letter_pressed \in [Letters -> BOOLEAN]
      BY DEF GameInv, DataInv
    <2>3. \A k \in Letters : letter_pressed'[k] <=> (letter_pressed[k] /\ k # fly[n].text)
      BY <2>2, <1>1, <1>6
    <2> QED
      BY <2>1, <2>3 DEF Pressed
  <1>15. Created' = Created
    BY <1>3 DEF Created
  <1>16. Rules!Lowest(i)
    <2> DEFINE C == {j \in 1 .. Len(Shown) : Shown[j].v > 0 /\ Shown[j].text \in Pressed}
    <2>1. \A j \in C : j \in 1 .. Len(Order) /\ Order[j] \in Candidates
      BY <1>5 DEF Candidates, OnScreen, Members, Order, Falling, Pressed
    <2>2. i \in C
      BY <1>2, <1>5, <1>6 DEF Pressed
    <2> DEFINE Rank(m) == CHOOSE j \in 1 .. Len(Order) : Order[j] = m
    <2>3. \A j \in 1 .. Len(Order) : Rank(Order[j]) = j
      BY <1>0
    <2>4. \A m \in Candidates :
            fly[m].x < fly[n].x \/ (fly[m].x = fly[n].x /\ Rank(n) <= Rank(m))
      BY <1>1 DEF Target, Order
    <2> HIDE DEF Rank, C
    <2>5. ASSUME NEW j \in C
          PROVE  Shown[j].x <= Shown[i].x /\ (Shown[j].x = Shown[i].x => i <= j)
      <3>1. /\ j \in 1 .. Len(Order) /\ Order[j] \in Candidates
            /\ Shown[j] = fly[Order[j]] /\ Shown[i] = fly[n]
        BY <2>1, <1>2, <1>5
      <3>2. \/ fly[Order[j]].x < fly[n].x
            \/ fly[Order[j]].x = fly[n].x /\ Rank(n) <= Rank(Order[j])
        BY <3>1, <2>4
      <3>3. Rank(n) = i /\ Rank(Order[j]) = j
        BY <3>1, <2>3, <1>2
      <3>4. fly[Order[j]].x \in Int /\ fly[n].x \in Int
        BY <3>1, <1>0, <1>6 DEF Flies
      <3> QED
        BY <3>1, <3>2, <3>3, <3>4
    <2> QED
      BY <2>2, <2>5 DEF Rules!Lowest, C
  <1>17. Rules!Strike(i)
    BY <1>3, <1>13, <1>14, <1>15, <1>16 DEF Rules!Strike
  <1>18. i \in 1 .. Len(Shown)
    BY <1>5
  <1> QED
    BY <1>9, <1>10, <1>12, <1>17, <1>18 DEF GameInv, Rules!Next

\* When a letter is to come there are fewer than SIZE: the oldest has been on the
\* screen for CreateEvery ticks per letter.
LEMMA FewLetters == ASSUME GameInv, pc = "create" PROVE Len(Order) < SIZE
  <1> DEFINE m == Len(Order)
  <1>0. m \in Nat /\ \A i \in 1 .. m : fly[Order[i]] \in Flies
    BY PoolFacts DEF GameInv, PoolInv
  <1>1. Since = CreateEvery
    BY DEF GameInv, DataInv, Since
  <1>2. /\ Bottom \in Nat /\ Up \in Nat \ {0} /\ CreateEvery \in Nat \ {0} /\ SIZE \in Nat \ {0}
    BY GameAssumption, SizeAssumption
  <1>3. CASE m = 0
    BY <1>2, <1>3
  <1>4. CASE m # 0
    <2> DEFINE fl == fly[Order[m]]
               a == CreateEvery * m
    <2>1. m \in 1 .. m /\ m - 1 \in Nat
      BY <1>0, <1>4
    <2>2. Since + CreateEvery * (m - 1) = a
      BY <1>0, <1>1, <1>2
    <2>3. Aged(fl, a) /\ fl \in Flies
      BY <2>1, <2>2, <1>0 DEF GameInv, AgeInv
    <2>4. a \in Nat
      BY <1>0, <1>2
    <2> HIDE DEF fl, a
    <2>5. Up * a <= Bottom * (1 + Up)
      <3>1. fl.x \in 0 .. Bottom
        BY <2>3 DEF Flies
      <3>2. Up * a \in Nat /\ Bottom * (1 + Up) \in Nat
        BY <2>4, <1>2
      <3>3. fl.x + Up * a <= Bottom * (1 + Up)
        BY <2>3, <2>4, <3>1, NoOverflow DEF Aged
      <3> QED
        BY <3>1, <3>2, <3>3
    <2>6. Up * a = (Up * CreateEvery) * m
      BY <1>0, <1>2 DEF a
    <2>7. Bottom * (1 + Up) < (Up * CreateEvery) * SIZE
      BY PoolAssumption
    <2> DEFINE c == Up * CreateEvery
    <2>8. c \in Nat \ {0}
      BY <1>2
    <2>9. Bottom * (1 + Up) \in Nat
      BY <1>2
    <2>10. c * m < c * SIZE
      <3>1. c * m \in Nat /\ c * SIZE \in Nat
        BY <2>8, <1>0, <1>2
      <3> QED
        BY <3>1, <2>5, <2>6, <2>7, <2>9
    <2> HIDE DEF c, m
    <2>11. SUFFICES ASSUME m >= SIZE PROVE FALSE
      BY <1>0, <1>2 DEF m
    <2>12. c * m >= c * SIZE
      BY <2>8, <2>11, <1>0, <1>2
    <2>13. c * m \in Nat /\ c * SIZE \in Nat
      BY <2>8, <1>0, <1>2
    <2> QED
      BY <2>10, <2>12, <2>13
  <1> QED
    BY <1>3, <1>4

\* The assertion of New holds whenever create_new_letter calls it.
LEMMA Room == ASSUME GameInv, pc = "create" PROVE HasFree(list)
  <1>1. Len(Order) < SIZE
    BY FewLetters
  <1>2. /\ Rest \in Seq(Nodes) /\ Len(Rest) \in Nat /\ Len(Order) \in Nat
        /\ Len(Order) + Len(Rest) = SIZE + 1 /\ Chained(list).free = Rest[1]
    BY PoolFacts DEF GameInv, PoolInv
  <1>3. \A i \in 1 .. Len(Rest) : Chained(list).next[Rest[i]] = After(Rest, i)
    BY DEF GameInv, PoolInv, IsPool, Linked
  <1>4. Len(Rest) # 1 /\ 1 \in 1 .. Len(Rest) /\ 2 \in 1 .. Len(Rest)
    <2> DEFINE a == Len(Rest)
               c == Len(Order)
    <2> HIDE DEF a, c
    <2>1. a \in Nat /\ c \in Nat /\ c < SIZE /\ c + a = SIZE + 1 /\ SIZE \in Nat
      BY <1>1, <1>2, SizeAssumption DEF a, c
    <2>2. a # 1 /\ 1 \in 1 .. a /\ 2 \in 1 .. a
      BY <2>1
    <2> QED
      BY <2>2 DEF a
  <1>5. Chained(list).next[Rest[1]] = Rest[2] /\ Rest[2] \in Nodes
    BY <1>2, <1>3, <1>4 DEF After
  <1> QED
    BY <1>2, <1>5, NullIsNoNode DEF HasFree

\* create_new_letter puts a new letter first, as the rules do.
LEMMA CreateSteps ==
  ASSUME GameInv, NEW t \in Letters, Create(t)
  PROVE  GameInv' /\ Rules!Next
  <1> DEFINE n == Fresh(list)
             new == [x |-> 0, v |-> 1, text |-> t]
             s == Prepended(n, Order)
             m == Len(Order)
  <1> HIDE DEF n, s, m
  <1>0. /\ Order \in Seq(Nodes) /\ m \in Nat /\ m = Len(Order)
        /\ \A i \in 1 .. m : Order[i] \in Nodes /\ fly[Order[i]] \in Flies
        /\ fly \in [Nodes -> Flies \cup {Blank}]
    BY PoolFacts DEF GameInv, PoolInv, m
  <1>1. /\ list' = IF head = NULL THEN New(list) ELSE Insert(New(list), head, n)
        /\ head' = n /\ fly' = [fly EXCEPT ![n] = new]
        /\ letter_pressed' = [letter_pressed EXCEPT ![t] = FALSE]
        /\ pc = "create" /\ pc' = "update" /\ UNCHANGED <<hit, miss, now, scan_code_buf>>
    BY DEF Create, At, n, time, score, machine
  <1>2. now = 0
    BY <1>1 DEF GameInv, DataInv
  <1>3. n = Rest[1] /\ n \in Nodes /\ IsPool(list', head', s, Without(Rest, 1))
    <2>1. IsPool(list, head, Order, Rest) /\ HasFree(list)
      BY <1>1, Room DEF GameInv, PoolInv
    <2> QED
      BY <2>1, <1>1, NewIsPool DEF n, s
  <1>4. Order' = s /\ Rest' = Without(Rest, 1)
    <2>1. /\ Chain(list', head') = s
          /\ Chain(Chained(list'), Chained(list').free) = Without(Rest, 1)
      BY <1>3, OrderIs
    <2> QED
      BY <2>1 DEF Order, Rest
  <1>5. /\ s \in Seq(Nodes) /\ Len(s) = m + 1 /\ s[1] = n
        /\ \A i \in 2 .. m + 1 : s[i] = Order[i - 1]
    <2>1. /\ s \in Seq(Nodes) /\ Len(s) = Len(Order) + 1 /\ s[1] = n
          /\ \A i \in 2 .. Len(Order) + 1 : s[i] = Order[i - 1]
      <3>1. Order \in Seq(Nodes) /\ n \in Nodes
        BY <1>0, <1>3
      <3> HIDE DEF new
      <3> QED
        BY <3>1, PrependedIs DEF s
    <2> QED
      BY <2>1, <1>0
  <1>6. \A i \in 1 .. m : Order[i] # n
    <2>1. 1 \in 1 .. Len(Rest)
      BY PoolFacts DEF GameInv, PoolInv
    <2> QED
      BY <2>1, <1>0, <1>3 DEF GameInv, PoolInv, IsPool, Split
  <1>7. new \in Flies
    BY GameAssumption DEF Flies
  <1>8. /\ fly' \in [Nodes -> Flies \cup {Blank}] /\ fly'[n] = new
        /\ \A i \in 1 .. m : fly'[Order[i]] = fly[Order[i]]
    BY <1>0, <1>1, <1>3, <1>6, <1>7
  <1> HIDE DEF new
  <1>9. \A i \in 1 .. m + 1 : i = 1 \/ (i \in 2 .. m + 1 /\ i - 1 \in 1 .. m)
    BY <1>0
  <1>10. \A i \in 1 .. m + 1 : fly'[s[i]] = IF i = 1 THEN new ELSE fly[Order[i - 1]]
    BY <1>5, <1>8, <1>9
  <1>11. PoolInv'
    <2>1. \A i \in 1 .. Len(s) : fly'[s[i]] \in Flies
      BY <1>0, <1>5, <1>7, <1>9, <1>10
    <2> QED
      BY <2>1, <1>3, <1>4, <1>8 DEF PoolInv
  <1>12. DataInv'
    BY <1>1 DEF GameInv, DataInv
  <1>13. AgeInv'
    <2>1. Since' = 0 /\ Since = CreateEvery
      BY <1>1, <1>2 DEF Since
    <2> SUFFICES ASSUME NEW i \in 1 .. m + 1
                 PROVE  Aged(fly'[s[i]], 0 + CreateEvery * (i - 1))
      BY <2>1, <1>4, <1>5 DEF AgeInv
    <2>2. CreateEvery \in Nat
      BY GameAssumption
    <2>3. CASE i = 1
      <3>1. fly'[s[i]].v = 1 /\ fly'[s[i]].x = 0
        BY <2>3, <1>10 DEF new
      <3>2. 0 + CreateEvery * (i - 1) = 0
        BY <2>2, <2>3
      <3> QED
        BY <3>1, <3>2 DEF Aged
    <2>4. CASE i # 1
      <3>1. i - 1 \in 1 .. m /\ fly'[s[i]] = fly[Order[i - 1]]
        BY <2>4, <1>9, <1>10
      <3>2. Aged(fly[Order[i - 1]], CreateEvery + CreateEvery * ((i - 1) - 1))
        BY <3>1, <2>1, <1>0 DEF GameInv, AgeInv
      <3>3. CreateEvery + CreateEvery * ((i - 1) - 1) = 0 + CreateEvery * (i - 1)
        <4>1. i \in Int
          OBVIOUS
        <4> QED
          BY <4>1, <2>2
      <3> QED
        BY <3>1, <3>2, <3>3
    <2> QED
      BY <2>3, <2>4
  <1>14. /\ Shown \in Seq(Flies) /\ Len(Shown) = m
         /\ \A j \in 1 .. m : Shown[j] = fly[Order[j]]
    <2>1. Shown = [j \in 1 .. m |-> fly[Order[j]]]
      BY <1>0, ShownIs
    <2> HIDE DEF Shown
    <2> QED
      BY <2>1, <1>0
  <1>15. Shown' = <<new>> \o Shown
    <2>1. Shown' = [j \in 1 .. m + 1 |-> fly'[s[j]]]
      BY <1>4, <1>5 DEF Shown, Order
    <2> DEFINE q == <<new>> \o Shown
    <2>2. /\ q \in Seq(Flies) /\ Len(q) = m + 1
          /\ q[1] = new /\ \A j \in 2 .. m + 1 : q[j] = Shown[j - 1]
      <3>1. <<new>> \in Seq(Flies) /\ Len(<<new>>) = 1 /\ <<new>>[1] = new
        BY <1>7
      <3>2. q \in Seq(Flies) /\ Len(q) = 1 + m
        BY <3>1, <1>14, <1>0, ConcatProperties
      <3>3. \A j \in 1 .. 1 + m : q[j] = IF j <= 1 THEN <<new>>[j] ELSE Shown[j - 1]
        BY <3>1, <1>14, <1>0, ConcatProperties
      <3> HIDE DEF q
      <3>4. 1 \in 1 .. 1 + m /\ \A j \in 2 .. m + 1 : j \in 1 .. 1 + m /\ ~(j <= 1)
        BY <1>0
      <3>5. q[1] = new
        BY <3>1, <3>3, <3>4
      <3>6. \A j \in 2 .. m + 1 : q[j] = Shown[j - 1]
        BY <3>3, <3>4
      <3> QED
        BY <3>2, <3>5, <3>6, <1>0
    <2> HIDE DEF q
    <2>3. q = [j \in 1 .. m + 1 |-> q[j]]
      BY <2>2
    <2>4. \A j \in 1 .. m + 1 : q[j] = fly'[s[j]]
      BY <2>2, <1>9, <1>10, <1>14
    <2> QED
      BY <2>1, <2>3, <2>4 DEF q
  <1>16. Pressed' = Pressed \ {t}
    <2>1. letter_pressed \in [Letters -> BOOLEAN]
      BY DEF GameInv, DataInv
    <2>2. \A k \in Letters : letter_pressed'[k] <=> (letter_pressed[k] /\ k # t)
      BY <2>1, <1>1
    <2> QED
      BY <2>2 DEF Pressed
  <1>17. ~Created /\ Created' = TRUE
    BY <1>1, <1>2 DEF Created
  <1>18. Rules!Create(t)
    BY <1>1, <1>2, <1>15, <1>16, <1>17 DEF Rules!Create, new
  <1> QED
    BY <1>11, <1>12, <1>13, <1>18 DEF GameInv, Rules!Next

\* The instance of the rules counts as the game does.
LEMMA CardinalityIs == \A S : Rules!Cardinality(S) = Cardinality(S)
  BY DEF Rules!Cardinality, Cardinality

\* One tick makes every letter one tick older.
LEMMA AgedStep ==
  ASSUME NEW fl \in Flies, NEW a \in Nat, NEW c \in Nat, c <= a + 1, Aged(fl, a)
  PROVE  Aged([fl EXCEPT !.x = fl.x + fl.v], c)
  <1> DEFINE g == [fl EXCEPT !.x = fl.x + fl.v]
  <1>1. g.x = fl.x + fl.v /\ g.v = fl.v /\ fl.x \in 0 .. Bottom /\ fl.v \in {1, -Up}
    BY DEF Flies
  <1>2. Up \in Nat \ {0} /\ Bottom \in Nat
    BY GameAssumption
  <1> HIDE DEF g
  <1>3. CASE fl.v = 1
    BY <1>1, <1>2, <1>3 DEF Aged
  <1>4. CASE fl.v # 1
    <2>1. fl.v = -Up /\ fl.x + Up * a <= Bottom * (1 + Up)
      BY <1>1, <1>4 DEF Aged
    <2>2. Up * c <= Up * (a + 1) /\ Up * (a + 1) = Up * a + Up
      BY <1>2
    <2>3. Up * c \in Nat /\ Up * a \in Nat /\ Bottom * (1 + Up) \in Nat
      BY <1>2
    <2>4. g.x + Up * c <= Bottom * (1 + Up)
      BY <2>1, <2>2, <2>3, <1>1, <1>2
    <2> QED
      BY <2>4, <1>1, <1>4 DEF Aged
  <1> QED
    BY <1>3, <1>4 DEF g

\* An increasing sequence of positive numbers.
LEMMA AtLeast ==
  ASSUME NEW m \in Nat, NEW e \in Seq(1 .. m),
         \A i, j \in 1 .. Len(e) : i < j => e[i] < e[j]
  PROVE  \A j \in 1 .. Len(e) : j <= e[j]
  <1> DEFINE S == {j \in Nat : j \in 1 .. Len(e) => j <= e[j]}
  <1>0. \A j \in 1 .. Len(e) : e[j] \in 1 .. m
    OBVIOUS
  <1>1. 0 \in S
    OBVIOUS
  <1>2. ASSUME NEW j \in Nat, j \in S PROVE j + 1 \in S
    <2> SUFFICES ASSUME j + 1 \in 1 .. Len(e) PROVE j + 1 <= e[j + 1]
      OBVIOUS
    <2>1. CASE j = 0
      BY <2>1, <1>0
    <2>2. CASE j # 0
      <3>1. j \in 1 .. Len(e) /\ j < j + 1
        BY <2>2
      <3>2. j <= e[j] /\ e[j] < e[j + 1] /\ e[j] \in Nat /\ e[j + 1] \in Nat
        BY <3>1, <1>0, <1>2
      <3> QED
        BY <3>2
    <2> QED
      BY <2>1, <2>2
  <1>3. Nat \subseteq S
    <2> HIDE DEF S
    <2> QED
      BY <1>1, <1>2, SetInduction
  <1>4. \A j \in 1 .. Len(e) : j \in Nat
    OBVIOUS
  <1> QED
    BY <1>3, <1>4

\* update_letter_pos moves every letter, as the rules say, although the nodes of
\* those that leave are given back while the list is walked.
LEMMA UpdateSteps ==
  ASSUME GameInv, Update
  PROVE  GameInv' /\ Rules!Next
  <1> DEFINE b == [it |-> head, head |-> head, list |-> list, fly |-> fly,
                   hit |-> hit, miss |-> miss]
             end == Walked(b)
             m == Len(Order)
  <1>0. /\ Order \in Seq(Nodes) /\ m \in Nat
        /\ \A i \in 1 .. m : Order[i] \in Nodes /\ fly[Order[i]] \in Flies
        /\ fly \in [Nodes -> Flies \cup {Blank}] /\ list \in Pools /\ head \in Nodes \cup {NULL}
    <2>1. IsPool(list, head, Order, Rest) /\ list \in Pools
      BY DEF GameInv, PoolInv, IsPool
    <2>2. Order \in Seq(Nodes) /\ m \in Nat /\ head = After(Order, 0)
      BY <2>1, PoolFacts
    <2>3. head \in Nodes \cup {NULL}
      BY <2>2 DEF After
    <2> QED
      BY <2>1, <2>2, <2>3 DEF GameInv, PoolInv
  <1>1. /\ list' = end.list /\ head' = end.head /\ fly' = end.fly
        /\ hit' = end.hit /\ miss' = end.miss
        /\ now' = (now + 1) % CreateEvery /\ pc = "update" /\ pc' = "ticks"
        /\ UNCHANGED <<letter_pressed, scan_code_buf>>
    BY DEF Update, At, machine
  <1>2. b.fly = fly /\ b.hit = hit /\ b.miss = miss
    OBVIOUS
  <1>3. Walkable(b, Order, Rest)
    BY <1>0 DEF Walkable, Walks, GameInv, PoolInv, DataInv
  <1> HIDE DEF b, end, m
  <1>4. PICK e : \E r : WalkInv(b, Order, end, m, e, Len(e), r)
    BY <1>3, WalkEnds DEF end, m
  <1>5. PICK r : WalkInv(b, Order, end, m, e, Len(e), r)
    BY <1>4
  <1> DEFINE q == Picked(Order, e)
  <1>6. /\ end \in Walks /\ e \in Seq(1 .. m) /\ Len(e) \in Nat
        /\ \A i, j \in 1 .. Len(e) : i < j => e[i] < e[j]
        /\ IsPool(end.list, end.head, q, r)
    BY <1>5 DEF WalkInv, m
  <1>7. ASSUME NEW j \in 1 .. Len(e)
        PROVE  /\ e[j] \in Staying(fly, Order) /\ e[j] \in 1 .. m
               /\ end.fly[Order[e[j]]] = [fly[Order[e[j]]] EXCEPT !.x = Lands(fly, Order, e[j])]
    <2>1. j <= Len(e)
      BY <1>6
    <2> QED
      BY <2>1, <1>2, <1>5, <1>6 DEF WalkInv
  <1>8. /\ Len(e) = Cardinality(Staying(fly, Order))
        /\ end.hit = (hit + Cardinality(Risen(fly, Order))) % Wrap
        /\ end.miss = (miss + Cardinality(Fallen(fly, Order))) % Wrap
    <2>1. /\ UpTo(Staying(fly, Order), m) = Staying(fly, Order)
          /\ UpTo(Risen(fly, Order), m) = Risen(fly, Order)
          /\ UpTo(Fallen(fly, Order), m) = Fallen(fly, Order)
      BY DEF UpTo, Staying, Risen, Fallen, m
    <2> QED
      BY <2>1, <1>2, <1>5 DEF WalkInv
  <1>9. Order' = q /\ Rest' = r
    <2>1. Chain(list', head') = q /\ Chain(Chained(list'), Chained(list').free) = r
      BY <1>1, <1>6, OrderIs
    <2> QED
      BY <2>1 DEF Order, Rest
  <1>10. Len(q) = Len(e) /\ \A j \in 1 .. Len(e) : q[j] = Order[e[j]]
    BY <1>6 DEF Picked
  <1> HIDE DEF q
  <1>11. \A i \in 1 .. m : /\ Lands(fly, Order, i) = fly[Order[i]].x + fly[Order[i]].v
                           /\ Lands(fly, Order, i) \in Int
    BY <1>0, GameAssumption DEF Lands, Flies
  <1>12. \A j \in 1 .. Len(e) :
           /\ fly'[q[j]] = [fly[Order[e[j]]] EXCEPT !.x = Lands(fly, Order, e[j])]
           /\ fly'[q[j]] \in Flies
    <2> SUFFICES ASSUME NEW j \in 1 .. Len(e)
                 PROVE  /\ fly'[q[j]] = [fly[Order[e[j]]] EXCEPT !.x = Lands(fly, Order, e[j])]
                        /\ fly'[q[j]] \in Flies
      OBVIOUS
    <2>1. fly'[q[j]] = [fly[Order[e[j]]] EXCEPT !.x = Lands(fly, Order, e[j])]
      BY <1>1, <1>7, <1>10
    <2>2. fly[Order[e[j]]] \in Flies /\ Lands(fly, Order, e[j]) \in 0 .. Bottom
      BY <1>0, <1>7 DEF Staying
    <2> QED
      BY <2>1, <2>2 DEF Flies
  <1>13. PoolInv'
    BY <1>1, <1>6, <1>9, <1>10, <1>12 DEF PoolInv, Walks
  <1>14. DataInv'
    <2>1. now' \in 0 .. CreateEvery - 1
      BY <1>1, GameAssumption DEF GameInv, DataInv
    <2>2. hit' \in 0 .. Wrap - 1 /\ miss' \in 0 .. Wrap - 1
      BY <1>1, <1>6 DEF Walks
    <2> QED
      BY <2>1, <2>2, <1>1 DEF GameInv, DataInv
  <1>15. AgeInv'
    <2>1. Since \in Nat /\ CreateEvery \in Nat
      BY SinceNat, GameAssumption DEF GameInv
    <2>2. Since' = Since + 1
      <3>1. now \in 0 .. CreateEvery - 1 /\ CreateEvery \in Nat \ {0, 1}
        BY GameAssumption DEF GameInv, DataInv
      <3>2. CASE now + 1 = CreateEvery
        <4>1. now' = 0 /\ now # 0
          BY <3>1, <3>2, <1>1
        <4> QED
          BY <4>1, <3>1, <3>2, <1>1 DEF Since
      <3>3. CASE now + 1 # CreateEvery
        <4>1. now' = now + 1
          BY <3>1, <3>3, <1>1
        <4> QED
          BY <4>1, <3>1, <1>1 DEF Since
      <3> QED
        BY <3>2, <3>3
    <2>8. \A j \in 1 .. Len(e) : j <= e[j]
      BY <1>0, <1>6, AtLeast
    <2> SUFFICES ASSUME NEW j \in 1 .. Len(e)
                 PROVE  Aged(fly'[q[j]], (Since + 1) + CreateEvery * (j - 1))
      BY <2>2, <1>9, <1>10 DEF AgeInv
    <2>9. /\ e[j] \in 1 .. m /\ j <= e[j] /\ j \in Nat \ {0} /\ e[j] \in Nat \ {0}
      <3>1. j \in Nat \ {0}
        BY <1>6
      <3>2. e[j] \in 1 .. m 
        BY <1>7
      <3>3. j <= e[j]
        BY <2>8
      <3> QED
        BY <3>1, <3>2, <3>3, <1>0
    <2> DEFINE i == e[j]
               fl == fly[Order[i]]
               a == Since + CreateEvery * (i - 1)
               c == (Since + 1) + CreateEvery * (j - 1)
    <2>3. i \in 1 .. m /\ j <= i /\ j \in Nat \ {0} /\ i \in Nat \ {0}
      BY <2>9
    <2>4. fl \in Flies /\ Aged(fl, a)
      BY <2>3, <1>0 DEF GameInv, AgeInv, m
    <2>5. fly'[q[j]] = [fl EXCEPT !.x = fl.x + fl.v]
      BY <2>3, <1>11, <1>12
    <2>6. a \in Nat /\ c \in Nat /\ c <= a + 1
      <3> HIDE DEF i
      <3> DEFINE u == CreateEvery * (i - 1)
                 w == CreateEvery * (j - 1)
      <3>1. i - 1 \in Nat /\ j - 1 \in Nat /\ j - 1 <= i - 1
        BY <2>3
      <3>2. u \in Nat /\ w \in Nat
        BY <3>1, <2>1
      <3>3. w <= u
        BY <3>1, <2>1
      <3> HIDE DEF u, w
      <3>4. Since + u \in Nat /\ (Since + 1) + w \in Nat /\ (Since + 1) + w <= (Since + u) + 1
        BY <3>2, <3>3, <2>1
      <3> QED
        BY <3>4 DEF u, w
    <2> HIDE DEF a, c, fl
    <2>7. Aged([fl EXCEPT !.x = fl.x + fl.v], c)
      BY <2>4, <2>6, AgedStep
    <2> QED
      BY <2>5, <2>7 DEF c
  <1>16. /\ Len(Shown) = m /\ \A i \in 1 .. m : Shown[i] = fly[Order[i]]
    BY <1>0, ShownIs DEF m
  <1>17. Rules!Fall
    <2> DEFINE X(i) == Shown[i].x + Shown[i].v
               Here == {i \in 1 .. Len(Shown) : X(i) \in 0 .. Bottom}
    <2>1. \A i \in 1 .. m : X(i) = Lands(fly, Order, i)
      BY <1>11, <1>16
    <2>2. /\ Here = Staying(fly, Order)
          /\ {i \in 1 .. Len(Shown) : X(i) < 0} = Risen(fly, Order)
          /\ {i \in 1 .. Len(Shown) : X(i) > Bottom} = Fallen(fly, Order)
      <3> HIDE DEF X
      <3> QED
        BY <2>1, <1>16 DEF Staying, Risen, Fallen, m
    <2>3. e \in [1 .. Cardinality(Here) -> Here]
      <3>1. DOMAIN e = 1 .. Len(e) /\ e = [j \in 1 .. Len(e) |-> e[j]]
        BY <1>6
      <3> QED
        BY <3>1, <2>2, <1>7, <1>8
    <2>4. \A i, j \in DOMAIN e : i < j => e[i] < e[j]
      BY <1>6
    <2>5. Shown' = [j \in DOMAIN e |-> [Shown[e[j]] EXCEPT !.x = X(e[j])]]
      <3>1. Shown' = [j \in 1 .. Len(e) |-> fly'[q[j]]]
        BY <1>9, <1>10 DEF Shown, Order
      <3>2. \A j \in 1 .. Len(e) : fly'[q[j]] = [Shown[e[j]] EXCEPT !.x = X(e[j])]
        BY <2>1, <1>7, <1>12, <1>16
      <3>3. DOMAIN e = 1 .. Len(e)
        BY <1>6
      <3> HIDE DEF X, Shown
      <3> QED
        BY <3>1, <3>2, <3>3
    <2>6. Pressed' = Pressed
      BY <1>1 DEF Pressed
    <2>7. (now = 0 => Created) /\ Created' = FALSE
      BY <1>1 DEF Created
    <2>8. /\ hit' = (hit + Cardinality({i \in 1 .. Len(Shown) : X(i) < 0})) % Wrap
          /\ miss' = (miss + Cardinality({i \in 1 .. Len(Shown) : X(i) > Bottom})) % Wrap
      <3> HIDE DEF X
      <3> QED
        BY <2>2, <1>1, <1>8
    <2>9. \E kept \in [1 .. Cardinality(Here) -> Here] :
             /\ \A i, j \in DOMAIN kept : i < j => kept[i] < kept[j]
             /\ Shown' = [j \in DOMAIN kept |-> [Shown[kept[j]] EXCEPT !.x = X(kept[j])]]
      <3> HIDE DEF X, Here, Shown
      <3> QED
        BY <2>3, <2>4, <2>5
    <2>10. now' = (now + 1) % CreateEvery
      BY <1>1
    <2> HIDE DEF Shown, Pressed, Created, X, Here
    <2>11. LET Y(i) == Shown[i].x + Shown[i].v
               There == {i \in 1 .. Len(Shown) : Y(i) \in 0 .. Bottom}
           IN \E kept \in [1 .. Cardinality(There) -> There] :
             /\ \A i, j \in DOMAIN kept : i < j => kept[i] < kept[j]
             /\ Shown' = [j \in DOMAIN kept |-> [Shown[kept[j]] EXCEPT !.x = Y(kept[j])]]
      BY <2>9 DEF X, Here
    <2>12. LET Y(i) == Shown[i].x + Shown[i].v
           IN  /\ hit' = (hit + Cardinality({i \in 1 .. Len(Shown) : Y(i) < 0})) % Wrap
               /\ miss' = (miss + Cardinality({i \in 1 .. Len(Shown) : Y(i) > Bottom})) % Wrap
      BY <2>8 DEF X, Here
    <2> QED
      BY <2>6, <2>7, <2>10, <2>11, <2>12, CardinalityIs DEF Rules!Fall
  <1> QED
    BY <1>13, <1>14, <1>15, <1>17 DEF GameInv, Rules!Next

-------------------------------------------------------------------------------
(* The game *)

LEMMA GameInit == Init => GameInv /\ Rules!Init
  <1> SUFFICES ASSUME Init PROVE GameInv /\ Rules!Init
    OBVIOUS
  <1>1. /\ list = Pool /\ head = NULL /\ now = 0 /\ hit = 0 /\ miss = 0 /\ pc = "hlt"
        /\ fly = [n \in Nodes |-> Blank] /\ letter_pressed = [k \in Letters |-> FALSE]
        /\ scan_code_buf = OtherCode
    BY DEF Init
  <1>2. PICK r : IsPool(list, head, << >>, r)
    BY <1>1, EmptyPool
  <1>3. Order = << >> /\ Rest = r
    BY <1>2, OrderIs DEF Order, Rest
  <1>4. Len(Order) = 0 /\ 1 .. Len(Order) = {} /\ Order \in Seq(Nodes)
    BY <1>3
  <1>5. PoolInv
    BY <1>1, <1>2, <1>3, <1>4 DEF PoolInv
  <1>6. DataInv
    BY <1>1, GameAssumption DEF DataInv
  <1>7. AgeInv
    BY <1>4 DEF AgeInv
  <1>8. Shown = << >>
    <2>1. Shown = [i \in 1 .. Len(Order) |-> fly[Order[i]]]
      BY <1>4, ShownIs
    <2> QED
      BY <2>1, <1>4
  <1>9. Pressed = {} /\ Created = FALSE
    BY <1>1 DEF Pressed, Created
  <1> QED
    BY <1>1, <1>5, <1>6, <1>7, <1>8, <1>9 DEF GameInv, Rules!Init

\* Every step of the game is one of the rules, or one that the player does not see.
LEMMA GameStep == GameInv /\ [Next]_vars => GameInv' /\ [Rules!Next]_(Rules!vars)
  <1> SUFFICES ASSUME GameInv, [Next]_vars PROVE GameInv' /\ [Rules!Next]_(Rules!vars)
    OBVIOUS
  <1>1. CASE Strike
    BY <1>1, StrikeSteps
  <1>2. CASE Update
    BY <1>2, UpdateSteps
  <1>3. ASSUME NEW t \in Letters, Create(t) PROVE GameInv' /\ Rules!Next
    BY <1>3, CreateSteps
  <1>4. CASE KeyboardEvent
    BY <1>4, KeyboardSteps
  <1>5. CASE \/ Hlt \/ Cli \/ Compare \/ Keys \/ NoStrike \/ Ticks
             \/ TimerTick \/ TimerIntr \/ KeyIntr
             \/ \E code \in Letters \cup {OtherCode} : KeyEvent(code)
             \/ UNCHANGED vars
    BY <1>5, QuietSteps
  <1> QED
    BY <1>1, <1>2, <1>3, <1>4, <1>5 DEF Next, MainStep

LEMMA GameListIntact == GameInv => ListIntact
  <1> SUFFICES ASSUME GameInv PROVE ListIntact
    OBVIOUS
  <1>1. IsPool(list, head, Order, Rest)
    BY DEF GameInv, PoolInv
  <1>2. Split(Order, Rest)
    BY <1>1 DEF IsPool
  <1>3. Members(Order) \cup Members(Rest) = Nodes
    BY <1>2 DEF Split, Members
  <1> QED
    BY <1>1, <1>2, <1>3 DEF ListIntact, WellLinked, IsPool, Split, Order, Rest

SlotInv == slot \in Slots

LEMMA SlotStep == SlotInv /\ [Next]_vars => SlotInv'
  <1> SUFFICES ASSUME SlotInv, [Next]_vars PROVE SlotInv'
    OBVIOUS
  <1>1. NO_INTR \in Slots /\ Vector(TIMER_IRQ) \in Slots /\ Vector(KEYBOARD_IRQ) \in Slots
    BY DEF Slots, IrqLines, TIMER_IRQ, KEYBOARD_IRQ
  <1>2. slot' \in {slot, NO_INTR, Vector(TIMER_IRQ), Vector(KEYBOARD_IRQ)}
    <2>1. CASE MainStep \/ KeyboardEvent \/ UNCHANGED vars
      BY <2>1 DEF MainStep, Hlt, Cli, Compare, Keys, Strike, NoStrike, Ticks, Update, Create,
                  KeyboardEvent, machine, vars
    <2>2. CASE TimerIntr \/ KeyIntr
      BY <2>2 DEF TimerIntr, KeyIntr
    <2>3. CASE TimerTick \/ \E code \in Letters \cup {OtherCode} : KeyEvent(code)
      BY <2>3 DEF TimerTick, KeyEvent, Raise, Latch
    <2> QED
      BY <2>1, <2>2, <2>3 DEF Next
  <1> QED
    BY <1>1, <1>2 DEF SlotInv

LEMMA GameTyped == FlagInv /\ BacklogInv /\ SlotInv /\ GameInv => TypeOK
  <1> SUFFICES ASSUME FlagInv, BacklogInv, SlotInv, GameInv PROVE TypeOK
    OBVIOUS
  <1>1. IsPool(list, head, Order, Rest) /\ list \in Pools
    BY DEF GameInv, PoolInv, IsPool
  <1>2. Order \in Seq(Nodes) /\ head = After(Order, 0)
    BY <1>1, PoolFacts
  <1>3. head \in Nodes \cup {NULL}
    BY <1>2 DEF After
  <1>4. \A n \in OnScreen : fly[n] \in Flies
    BY DEF OnScreen, Members, GameInv, PoolInv, Order
  <1>5. /\ due \in 0 .. MaxDue + 1 /\ todo \in 0 .. due
        /\ pc \in Steps /\ irq \in {"none", "keyboard"} /\ IFlag \in BOOLEAN
        /\ slot \in Slots
    BY DEF FlagInv, BacklogInv, SlotInv
  <1>6. /\ now \in 0 .. CreateEvery - 1 /\ hit \in 0 .. Wrap - 1 /\ miss \in 0 .. Wrap - 1
        /\ letter_pressed \in [Letters -> BOOLEAN] /\ scan_code_buf \in Letters \cup {OtherCode}
        /\ fly \in [Nodes -> Flies \cup {Blank}]
    BY DEF GameInv, DataInv, PoolInv
  <1> QED
    BY <1>1, <1>3, <1>4, <1>5, <1>6 DEF TypeOK

\* Everything above holds of every state of the game.
THEOREM Game == Spec => []GameInv
  BY GameInit, GameStep, PTL DEF Spec

\* Every variable has its type; in particular no letter is drawn outside the
\* screen (the assertion of draw_pixel), and the game is never more than one tick
\* behind the bound of the timer.
THEOREM Typed == Spec => []TypeOK
  <1>1. Init => FlagInv /\ BacklogInv /\ SlotInv /\ GameInv
    BY GameInit, GameAssumption
       DEF Init, FlagInv, Steps, BacklogInv, SlotInv, Slots, Vector, IRQ_BASE, TIMER_IRQ, NO_INTR
  <1> QED
    BY <1>1, FlagStep, BacklogStep, SlotStep, GameStep, GameTyped, PTL DEF Spec

\* The list of letters stays linked both ways, and every node is in it or free,
\* although update_letter_pos removes and frees nodes while it walks the list
\* (effect.c:56).
THEOREM Intact == Spec => []ListIntact
  BY Game, GameListIntact, PTL

\* The assertion of fly_new never fails: letters leave the screen as fast as they
\* come, so the pool has a node for each new one (effect.c:36).
THEOREM Suffices == Spec => []PoolSuffices
  <1>1. GameInv => PoolSuffices
    BY Room DEF PoolSuffices
  <1> QED
    BY <1>1, Game, PTL

\* The game, with its interrupts, its ticks and its pool of nodes, is the game of
\* the rules: each step of it is a step of the rules or leaves their state alone.
THEOREM Refines == Spec => ImplementsRules
  BY GameInit, GameStep, PTL DEF Spec, ImplementsRules, Rules!Spec
===============================================================================
