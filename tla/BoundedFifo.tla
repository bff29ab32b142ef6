----------------------------- MODULE BoundedFifo -----------------------------
(***************************************************************************)
(* What the ring buffers of dedup (dedup/src/queue.h) promise: a first-in  *)
(* first-out buffer for Capacity elements.                                 *)
(***************************************************************************)
EXTENDS Integers, Sequences

CONSTANTS Elements, Capacity

VARIABLES contents,  \* oldest element first
          got        \* the element the last remove returned

Init == contents = << >> /\ got \in Elements

Put(x) ==
  /\ Len(contents) < Capacity
  /\ contents' = Append(contents, x)
  /\ UNCHANGED got

Get ==
  /\ contents # << >>
  /\ got' = contents[1]
  /\ contents' = Tail(contents)

Next == (\E x \in Elements : Put(x)) \/ Get

Spec == Init /\ [][Next]_<<contents, got>>
=============================================================================
