----------------------------- MODULE AtomicSwap -----------------------------
(***************************************************************************)
(* What AtomicPtr::Swap promises: two pointers are exchanged in one step.  *)
(***************************************************************************)
CONSTANTS Ptrs,  \* the atomic pointers (canneal: present_loc of an element)
          Locs,  \* what they point to
          Start  \* their initial values

VARIABLE placement

Init == placement = Start

Swap(a, b) ==
  placement' = [placement EXCEPT ![a] = placement[b], ![b] = placement[a]]

Next == \E a, b \in Ptrs : a # b /\ Swap(a, b)

Spec == Init /\ [][Next]_placement
=============================================================================
