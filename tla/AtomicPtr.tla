------------------------------ MODULE AtomicPtr ------------------------------
(***************************************************************************)
(* The atomic pointers of canneal (AtomicPtr.h) and the threads that swap  *)
(* them (netlist::swap_locations).                                         *)
(*                                                                         *)
(* Checkout stores ATOMIC_NULL in a pointer; until Checkin every Get of it *)
(* spins, so a Get is enabled when the pointer is not checked out.  Each   *)
(* load, compare-and-set and store is one step; memory is sequentially     *)
(* consistent.  Pointers are numbered in the order of their addresses.     *)
(***************************************************************************)
EXTENDS Integers, FiniteSets

CONSTANTS NPtrs,       \* number of atomic pointers
          Locs,        \* locations
          Start,       \* initial placement
          Threads,
          MaxSwaps,    \* bound: swaps per thread
          ATOMIC_NULL

Ptrs == 1..NPtrs

ASSUME AtomicPtrAssumption ==
  /\ NPtrs \in Nat
  /\ Start \in [Ptrs -> Locs]
  /\ ATOMIC_NULL \notin Locs
  /\ MaxSwaps \in Nat

VARIABLES p,        \* the pointers
          pc,       \* per thread: the step of Swap or TrySwap it is at
          first,    \* per thread: the pointer it checks out
          last,     \* per thread: the pointer it sets
          try,      \* per thread: whether it is in TrySwap
          val,      \* per thread: what Get returned
          valFirst, \* per thread: the value it checked out
          valLast,  \* per thread: the value it replaced
          swaps     \* per thread: calls so far

vars == <<p, pc, first, last, try, val, valFirst, valLast, swaps>>

Init ==
  /\ p = Start
  /\ pc = [t \in Threads |-> "idle"]
  /\ first = [t \in Threads |-> 0]
  /\ last = [t \in Threads |-> 0]
  /\ try = [t \in Threads |-> FALSE]
  /\ val = [t \in Threads |-> ATOMIC_NULL]
  /\ valFirst = [t \in Threads |-> ATOMIC_NULL]
  /\ valLast = [t \in Threads |-> ATOMIC_NULL]
  /\ swaps = [t \in Threads |-> 0]

Goto(t, place) == pc' = [pc EXCEPT ![t] = place]

\* Faulty variant: the pointers are taken in the order of the arguments.
AsCalled(a, b) == <<a, b>>

\* "always process elements from lower to higher memory addresses"
InOrder(a, b) == IF a < b THEN <<a, b>> ELSE <<b, a>>

\* Swap or TrySwap is called for two pointers.
Call(t, a, b) ==
  /\ pc[t] = "idle"
  /\ swaps[t] < MaxSwaps
  /\ a # b
  /\ first' = [first EXCEPT ![t] = InOrder(a, b)[1]]
  /\ last' = [last EXCEPT ![t] = InOrder(a, b)[2]]
  /\ try' \in {[try EXCEPT ![t] = x] : x \in BOOLEAN}
  /\ swaps' = [swaps EXCEPT ![t] = @ + 1]
  /\ Goto(t, "getFirst")
  /\ UNCHANGED <<p, val, valFirst, valLast>>

\* Get and TryGet of the first pointer.
GetFirst(t) ==
  /\ pc[t] = "getFirst"
  /\ p[first[t]] # ATOMIC_NULL
  /\ val' = [val EXCEPT ![t] = p[first[t]]]
  /\ Goto(t, "checkout")
  /\ UNCHANGED <<p, first, last, try, valFirst, valLast, swaps>>

\* TrySwap gives up: the first pointer is checked out.
TryGetFirst(t) ==
  /\ pc[t] = "getFirst"
  /\ try[t] /\ p[first[t]] = ATOMIC_NULL
  /\ Goto(t, "idle")
  /\ UNCHANGED <<p, first, last, try, val, valFirst, valLast, swaps>>

\* The compare-and-set of Checkout succeeds.
Checkout(t) ==
  /\ pc[t] = "checkout"
  /\ p[first[t]] = val[t]
  /\ p' = [p EXCEPT ![first[t]] = ATOMIC_NULL]
  /\ valFirst' = [valFirst EXCEPT ![t] = val[t]]
  /\ Goto(t, "getLast")
  /\ UNCHANGED <<first, last, try, val, valLast, swaps>>

\* It fails: Checkout starts again, TryCheckout gives up.
CheckoutFails(t) ==
  /\ pc[t] = "checkout"
  /\ p[first[t]] # val[t]
  /\ Goto(t, IF try[t] THEN "idle" ELSE "getFirst")
  /\ UNCHANGED <<p, first, last, try, val, valFirst, valLast, swaps>>

GetLast(t) ==
  /\ pc[t] = "getLast"
  /\ p[last[t]] # ATOMIC_NULL
  /\ val' = [val EXCEPT ![t] = p[last[t]]]
  /\ Goto(t, "set")
  /\ UNCHANGED <<p, first, last, try, valFirst, valLast, swaps>>

\* TrySwap undoes its checkout: the last pointer is checked out.
TryGetLast(t) ==
  /\ pc[t] = "getLast"
  /\ try[t] /\ p[last[t]] = ATOMIC_NULL
  /\ Goto(t, "undo")
  /\ UNCHANGED <<p, first, last, try, val, valFirst, valLast, swaps>>

\* Faulty variant: a plain store instead of the compare-and-set.
PlainSet(t) ==
  /\ pc[t] = "set"
  /\ p' = [p EXCEPT ![last[t]] = valFirst[t]]
  /\ valLast' = [valLast EXCEPT ![t] = val[t]]
  /\ Goto(t, "checkin")
  /\ UNCHANGED <<first, last, try, val, valFirst, swaps>>

\* The compare-and-set of PrivateSet succeeds.
PrivateSet(t) ==
  /\ pc[t] = "set"
  /\ p[last[t]] = val[t]
  /\ p' = [p EXCEPT ![last[t]] = valFirst[t]]
  /\ valLast' = [valLast EXCEPT ![t] = val[t]]
  /\ Goto(t, "checkin")
  /\ UNCHANGED <<first, last, try, val, valFirst, swaps>>

PrivateSetFails(t) ==
  /\ pc[t] = "set"
  /\ p[last[t]] # val[t]
  /\ Goto(t, IF try[t] THEN "undo" ELSE "getLast")
  /\ UNCHANGED <<p, first, last, try, val, valFirst, valLast, swaps>>

Checkin(t) ==
  /\ pc[t] = "checkin"
  /\ p' = [p EXCEPT ![first[t]] = valLast[t]]
  /\ Goto(t, "idle")
  /\ UNCHANGED <<first, last, try, val, valFirst, valLast, swaps>>

Undo(t) ==
  /\ pc[t] = "undo"
  /\ p' = [p EXCEPT ![first[t]] = valFirst[t]]
  /\ Goto(t, "idle")
  /\ UNCHANGED <<first, last, try, val, valFirst, valLast, swaps>>

GoOn(t) ==
  \/ GetFirst(t) \/ TryGetFirst(t) \/ Checkout(t) \/ CheckoutFails(t)
  \/ GetLast(t) \/ TryGetLast(t) \/ PrivateSet(t) \/ PrivateSetFails(t)
  \/ Checkin(t) \/ Undo(t)

Next == \E t \in Threads : (\E a, b \in Ptrs : Call(t, a, b)) \/ GoOn(t)

Spec == Init /\ [][Next]_vars

\* A thread in Swap runs on; whether another swap is called is not promised.
FairSpec == Spec /\ \A t \in Threads : WF_vars(GoOn(t))

-----------------------------------------------------------------------------
\* Types; what a thread has got from a pointer is a location, never the mark
\* of a pointer that is checked out.
TypeOK ==
  /\ p \in [Ptrs -> Locs \cup {ATOMIC_NULL}]
  /\ pc \in [Threads -> {"idle", "getFirst", "checkout", "getLast", "set",
                         "checkin", "undo"}]
  /\ first \in [Threads -> Ptrs \cup {0}]
  /\ last \in [Threads -> Ptrs \cup {0}]
  /\ try \in [Threads -> BOOLEAN]
  /\ val \in [Threads -> Locs \cup {ATOMIC_NULL}]
  /\ valFirst \in [Threads -> Locs \cup {ATOMIC_NULL}]
  /\ valLast \in [Threads -> Locs \cup {ATOMIC_NULL}]
  /\ swaps \in [Threads -> 0..MaxSwaps]
  /\ \A t \in Threads :
       /\ pc[t] # "idle" => first[t] \in Ptrs /\ last[t] \in Ptrs
       /\ pc[t] \in {"checkout", "set"} => val[t] \in Locs
       /\ pc[t] \in {"getLast", "set", "checkin", "undo"} => valFirst[t] \in Locs
       /\ pc[t] = "checkin" => valLast[t] \in Locs

\* A thread that has its first pointer checked out.
Holds(t) == pc[t] \in {"getLast", "set", "checkin", "undo"}

\* "Only one thread can have the atomic pointer at any time": a pointer is
\* checked out by exactly one thread or by none.
CheckedOutOnce ==
  /\ \A t \in Threads : Holds(t) => p[first[t]] = ATOMIC_NULL
  /\ \A t, u \in Threads : Holds(t) /\ Holds(u) /\ first[t] = first[u] => t = u
  /\ \A x \in Ptrs : p[x] = ATOMIC_NULL => \E t \in Threads : Holds(t) /\ first[t] = x

\* The location of a pointer that is checked out is what its holder is going
\* to check in if it were to go on alone.
Holder(x) == CHOOSE t \in Threads : Holds(t) /\ first[t] = x

placement ==
  [x \in Ptrs |-> IF p[x] # ATOMIC_NULL THEN p[x]
                  ELSE IF pc[Holder(x)] = "checkin" THEN valLast[Holder(x)]
                  ELSE valFirst[Holder(x)]]

\* Swap and TrySwap are atomic: "swap pointers atomically".
Swapping == INSTANCE AtomicSwap

SwapIsAtomic == Swapping!Spec

\* Two elements never share a location, whatever is swapped (netlist::netlist
\* gives every element a location of its own).
OneToOne(f) == \A x, y \in Ptrs : f[x] = f[y] => x = y

StaysOneToOne == OneToOne(Start) => OneToOne(placement)

\* "and deadlock-free": no call of Swap or TrySwap is left.  This must come true
\* and stay: threads
\* that spin for each other's pointers do not wait in a ring.
SwapsEnded == \A t \in Threads : pc[t] = "idle"
=============================================================================
