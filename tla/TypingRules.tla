------------------------------ MODULE TypingRules ------------------------------
(***************************************************************************)
(* What the typing game promises its player, without interrupts, ticks     *)
(* and pools: letters appear, fall, and leave the screen; a key strikes    *)
(* the lowest letter that shows it, which then rises and scores.           *)
(***************************************************************************)
EXTENDS Integers, Sequences, FiniteSets

CONSTANTS Letters, Bottom, Up, CreateEvery, Wrap

VARIABLES letters,    \* the letters on the screen, the newest first
          pressed,    \* keys pressed and not yet used
          hit, miss,  \* scores, counted modulo Wrap
          now, created

vars == <<letters, pressed, hit, miss, now, created>>

Init ==
  /\ letters = << >> /\ pressed = {}
  /\ hit = 0 /\ miss = 0 /\ now = 0 /\ created = FALSE

Press(k) == pressed' = pressed \cup {k} /\ UNCHANGED <<letters, hit, miss, now, created>>

\* Letter i is the one to strike: none that shows a pressed key is lower.
Lowest(i) ==
  LET Candidates == {j \in 1 .. Len(letters) :
                       letters[j].v > 0 /\ letters[j].text \in pressed}
  IN  /\ i \in Candidates
      /\ \A j \in Candidates : letters[j].x <= letters[i].x
      /\ \A j \in Candidates : letters[j].x = letters[i].x => i <= j

Strike(i) ==
  /\ Lowest(i)
  /\ letters' = [letters EXCEPT ![i].v = -Up]
  /\ pressed' = pressed \ {letters[i].text}
  /\ UNCHANGED <<hit, miss, now, created>>

Create(t) ==
  /\ now = 0 /\ ~created
  /\ letters' = <<[x |-> 0, v |-> 1, text |-> t]>> \o letters
  /\ pressed' = pressed \ {t}
  /\ created' = TRUE
  /\ UNCHANGED <<hit, miss, now>>

\* All letters move.  The ones that stay on the screen keep their order, and the
\* ones that leave it are counted.
Fall ==
  LET X(i) == letters[i].x + letters[i].v
      Here == {i \in 1 .. Len(letters) : X(i) \in 0 .. Bottom}
  IN  /\ now = 0 => created
      /\ \E kept \in [1 .. Cardinality(Here) -> Here] :
           /\ \A i, j \in DOMAIN kept : i < j => kept[i] < kept[j]
           /\ letters' = [i \in DOMAIN kept |-> [letters[kept[i]] EXCEPT !.x = X(kept[i])]]
      /\ hit' = (hit + Cardinality({i \in 1 .. Len(letters) : X(i) < 0})) % Wrap
      /\ miss' = (miss + Cardinality({i \in 1 .. Len(letters) : X(i) > Bottom})) % Wrap
      /\ now' = (now + 1) % CreateEvery /\ created' = FALSE
      /\ UNCHANGED pressed

Next ==
  \/ \E k \in Letters : Press(k) \/ Create(k)
  \/ \E i \in 1 .. Len(letters) : Strike(i)
  \/ Fall

Spec == Init /\ [][Next]_vars

===============================================================================
