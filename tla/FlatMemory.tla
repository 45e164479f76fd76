------------------------------ MODULE FlatMemory ------------------------------
(***************************************************************************)
(* What memory promises a program: a byte per address it may use.  A store *)
(* changes its own bytes and no others, a load returns the bytes that are  *)
(* there, and getting more memory moves nothing.                           *)
(***************************************************************************)
EXTENDS Integers

VARIABLES
  bytes,    \* from the addresses the program may use to what they hold
  op        \* the last access: kind, addr, len, data

NoOp == [kind |-> "none", addr |-> 0, len |-> 0, data |-> <<0, 0, 0, 0>>]

Covers(o) == o.addr .. (o.addr + o.len - 1)

Init == bytes = << >> /\ op = NoOp

Store ==
  /\ op'.kind = "store" /\ Covers(op') \subseteq DOMAIN bytes
  /\ bytes' = [a \in DOMAIN bytes |->
                 IF a \in Covers(op') THEN op'.data[a - op'.addr + 1] ELSE bytes[a]]

Load ==
  /\ op'.kind = "load" /\ Covers(op') \subseteq DOMAIN bytes
  /\ \A a \in Covers(op') : op'.data[a - op'.addr + 1] = bytes[a]
  /\ UNCHANGED bytes

\* The program starts, or moves its break.
Resize ==
  /\ op' = NoOp
  /\ \A a \in DOMAIN bytes \cap DOMAIN bytes' : bytes'[a] = bytes[a]

Next == Store \/ Load \/ Resize

Spec == Init /\ [][Next]_<<bytes, op>>
===============================================================================
