---------------------------- MODULE OutputChannel ----------------------------
(* What a glove's output channel promises the threads that write to it.  It    *)
(* may lose outputs; those that arrive were written, arrive once and arrive in *)
(* their writer's order.                                                       *)
EXTENDS Naturals

CONSTANT Writers

VARIABLES
  made,     \* made[w]: the outputs w has written
  glove     \* the outputs that arrived, each <<writer, number>>

Init == made = [w \in Writers |-> 0] /\ glove = {}

Write(w) == made' = [made EXCEPT ![w] = @ + 1] /\ UNCHANGED glove

\* Some written outputs arrive, newer than all that arrived from their writer.
Deliver ==
  /\ glove \subseteq glove'
  /\ \A o \in glove' \ glove :
       /\ o[1] \in Writers /\ o[2] \in 1..made[o[1]]
       /\ \A p \in glove : p[1] = o[1] => p[2] < o[2]
  /\ UNCHANGED made

Next == Deliver \/ \E w \in Writers : Write(w)

Spec == Init /\ [][Next]_<<made, glove>>
================================================================================
