------------------------------- MODULE LinkList -------------------------------
(***************************************************************************)
(* The linked lists of the games, game/include/adt/linklist.h: a pool of   *)
(* SIZE + 1 nodes, linked through _next and _prev, the unused ones chained *)
(* through _next from free_head.  A list is a record of the pool's links   *)
(* and free_head; an operator returns the record after the call.           *)
(***************************************************************************)
EXTENDS Integers, Sequences, FiniteSets

CONSTANT SIZE

ASSUME SizeAssumption == SIZE \in Nat \ {0}

Nodes == 0 .. SIZE
NULL == -1

\* Static storage: no links, and a free chain that is built by the first call
\* of New.
Pool == [next |-> [n \in Nodes |-> NULL], prev |-> [n \in Nodes |-> NULL],
         free |-> NULL]

Pools == [next : [Nodes -> Nodes \cup {NULL}], prev : [Nodes -> Nodes \cup {NULL}],
          free : Nodes \cup {NULL}]

Chained(l) ==
  IF l.free # NULL THEN l
  ELSE [l EXCEPT !.next = [n \in Nodes |-> IF n < SIZE THEN n + 1 ELSE @[n]], !.free = 0]

\* The assertion of New: the last node of the chain is never given away.
HasFree(l) == Chained(l).next[Chained(l).free] # NULL

\* The node that New returns, and the list after it.
Fresh(l) == Chained(l).free

New(l) ==
  [Chained(l) EXCEPT !.free = Chained(l).next[Fresh(l)],
                     !.next[Fresh(l)] = NULL, !.prev[Fresh(l)] = NULL]

\* insert(NULL, next, obj)
Insert(l, next, obj) ==
  [l EXCEPT !.prev = [@ EXCEPT ![obj] = NULL, ![next] = obj], !.next[obj] = next]

\* Mutant: only _next is mended.
Remove_OneWay(l, n) ==
  [l EXCEPT !.next = [m \in Nodes |-> IF m = l.prev[n] THEN l.next[n] ELSE @[m]]]

Remove(l, n) ==
  [l EXCEPT !.next = [m \in Nodes |-> IF m = l.prev[n] THEN l.next[n] ELSE @[m]],
            !.prev = [m \in Nodes |-> IF m = l.next[n] THEN l.prev[n] ELSE @[m]]]

\* Mutant: the node does not go back to the pool.
Free_Leak(l, n) == l

Free(l, n) == [l EXCEPT !.next[n] = l.free, !.free = n]

-------------------------------------------------------------------------------
(* What the links mean *)

\* The nodes met from n along _next.
Chain(l, n) ==
  LET next == [m \in Nodes \cup {NULL} |-> IF m = NULL THEN NULL ELSE l.next[m]]
      at[k \in Nodes] == IF k = 0 THEN n ELSE next[at[k - 1]]
  IN  [i \in 1 .. Cardinality({k \in Nodes : at[k] # NULL}) |-> at[i - 1]]

Members(s) == {s[i] : i \in 1 .. Len(s)}

\* The list that starts at head is linked both ways, and every node is either
\* in it or in the free chain.
WellLinked(l, head) ==
  LET list == Chain(l, head)
      rest == Chain(Chained(l), Chained(l).free)
  IN  /\ \A i \in 1 .. Len(list) :
           l.prev[list[i]] = IF i = 1 THEN NULL ELSE list[i - 1]
      /\ Len(list) + Len(rest) = SIZE + 1
      /\ Members(list) \cup Members(rest) = Nodes

===============================================================================
