------------------------------- MODULE MCMemory -------------------------------
(* Pages of eight bytes, tables of four pages; the kernel at page 16. *)
EXTENDS Memory

MCSegments == <<[vaddr |-> 64, memsz |-> 6, bytes |-> <<1, 2, 3, 1>>],
                [vaddr |-> 74, memsz |-> 6, bytes |-> <<2, 1, 0>>]>>
MCVideo == {1, 2}
MCMapped == {1}
\* A word over the boundary of two heap pages, parts of words beside it, the
\* end of a segment, the stack, and a line of the screen.
MCAccesses == {<<86, 4>>, <<88, 1>>, <<86, 2>>, <<76, 4>>, <<70, 2>>, <<124, 4>>, <<12, 4>>, <<10, 2>>}
MCCross == MCAccesses \union {<<85, 4>>, <<87, 2>>, <<87, 4>>}
MCData == {<<4, 5, 6, 7>>, <<9, 0, 0, 0>>}
MCBreaks == {80, 81, 90, 96}
===============================================================================
