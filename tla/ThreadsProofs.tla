--------------------------- MODULE ThreadsProofs ----------------------------
(***************************************************************************)
(* Proofs about canneal's threads and the thread library of bodytrack, for *)
(* any number of threads, pointers and swaps, any size of the buffer and of*)
(* the image, and any sequence of commands.  The parts share no state.     *)
(***************************************************************************)
EXTENDS Canneal, AsyncImageLoader, Barrier, WorkerGroup, FiniteSetTheorems,
        SequenceTheorems, TLAPS

-----------------------------------------------------------------------------
(***************************************************************************)
(* Canneal.  CheckedOutOnce is inductive with the types: a thread checks a *)
(* pointer out with a compare-and-set on a location, so nobody else has it.*)
(* The refinement rests on it: placement gives a checked-out pointer the   *)
(* value its only holder will check in, which changes in PrivateSet only.  *)
(***************************************************************************)

\* A swap is of two different pointers.
Different == \A t \in Threads : pc[t] # "idle" => first[t] # last[t]

IInv == TypeOK /\ CheckedOutOnce /\ Different

\* What the holder of a pointer will check in.
Due(t) == IF pc[t] = "checkin" THEN valLast[t] ELSE valFirst[t]

LEMMA InvInit == Init => IInv
  BY AtomicPtrAssumption
     DEF Init, IInv, TypeOK, CheckedOutOnce, Different, Holds

\* What a call changes.
LEMMA CallIs ==
  ASSUME NEW t \in Threads, NEW a \in Ptrs, NEW b \in Ptrs, Call(t, a, b)
  PROVE  \E x, y \in Ptrs :
           /\ x # y /\ pc[t] = "idle" /\ swaps[t] < MaxSwaps
           /\ first' = [first EXCEPT ![t] = x] /\ last' = [last EXCEPT ![t] = y]
           /\ try' \in {[try EXCEPT ![t] = z] : z \in BOOLEAN}
           /\ swaps' = [swaps EXCEPT ![t] = @ + 1]
           /\ pc' = [pc EXCEPT ![t] = "getFirst"]
           /\ UNCHANGED <<p, val, valFirst, valLast>>
<1>1. InOrder(a, b)[1] \in Ptrs /\ InOrder(a, b)[2] \in Ptrs
  BY DEF InOrder
<1>2. InOrder(a, b)[1] # InOrder(a, b)[2]
  BY DEF Call, InOrder
<1> QED
  BY <1>1, <1>2 DEF Call, Goto

LEMMA TypeStep == TypeOK /\ [Next]_vars => TypeOK'
<1> SUFFICES ASSUME TypeOK, [Next]_vars PROVE TypeOK'
  OBVIOUS
<1> USE AtomicPtrAssumption DEF TypeOK, Goto
<1>1. ASSUME NEW t \in Threads, NEW a \in Ptrs, NEW b \in Ptrs, Call(t, a, b)
      PROVE TypeOK'
  <2>1. PICK x, y \in Ptrs :
           /\ x # y /\ pc[t] = "idle" /\ swaps[t] < MaxSwaps
           /\ first' = [first EXCEPT ![t] = x] /\ last' = [last EXCEPT ![t] = y]
           /\ try' \in {[try EXCEPT ![t] = z] : z \in BOOLEAN}
           /\ swaps' = [swaps EXCEPT ![t] = @ + 1]
           /\ pc' = [pc EXCEPT ![t] = "getFirst"]
           /\ UNCHANGED <<p, val, valFirst, valLast>>
    BY <1>1, CallIs
  <2> QED
    BY <2>1
<1>2. ASSUME NEW t \in Threads, GoOn(t) PROVE TypeOK'
  <2>1. CASE GetFirst(t)
    BY <2>1 DEF GetFirst
  <2>2. CASE TryGetFirst(t)
    BY <2>2 DEF TryGetFirst
  <2>3. CASE Checkout(t)
    BY <2>3 DEF Checkout
  <2>4. CASE CheckoutFails(t)
    BY <2>4 DEF CheckoutFails
  <2>5. CASE GetLast(t)
    BY <2>5 DEF GetLast
  <2>6. CASE TryGetLast(t)
    BY <2>6 DEF TryGetLast
  <2>7. CASE PrivateSet(t)
    BY <2>7 DEF PrivateSet
  <2>8. CASE PrivateSetFails(t)
    BY <2>8 DEF PrivateSetFails
  <2>9. CASE Checkin(t)
    BY <2>9 DEF Checkin
  <2>10. CASE Undo(t)
    BY <2>10 DEF Undo
  <2> QED
    BY <1>2, <2>1, <2>2, <2>3, <2>4, <2>5, <2>6, <2>7, <2>8, <2>9, <2>10 DEF GoOn
<1>3. CASE UNCHANGED vars
  BY <1>3 DEF vars
<1> QED
  BY <1>1, <1>2, <1>3 DEF Next

LEMMA HoldStep == IInv /\ [Next]_vars => CheckedOutOnce' /\ Different'
<1> SUFFICES ASSUME IInv, [Next]_vars PROVE CheckedOutOnce' /\ Different'
  OBVIOUS
<1> USE AtomicPtrAssumption DEF IInv, TypeOK, CheckedOutOnce, Different, Holds, Goto
<1>1. ASSUME NEW t \in Threads, NEW a \in Ptrs, NEW b \in Ptrs, Call(t, a, b)
      PROVE CheckedOutOnce' /\ Different'
  <2>1. PICK x, y \in Ptrs :
           /\ x # y /\ pc[t] = "idle"
           /\ first' = [first EXCEPT ![t] = x] /\ last' = [last EXCEPT ![t] = y]
           /\ pc' = [pc EXCEPT ![t] = "getFirst"]
           /\ UNCHANGED <<p, val, valFirst, valLast>>
    BY <1>1, CallIs
  <2> QED
    BY <2>1
<1>2. ASSUME NEW t \in Threads, GoOn(t) PROVE CheckedOutOnce' /\ Different'
  <2>1. CASE GetFirst(t)
    BY <2>1 DEF GetFirst
  <2>2. CASE TryGetFirst(t)
    BY <2>2 DEF TryGetFirst
  <2>3. CASE Checkout(t)
    BY <2>3 DEF Checkout
  <2>4. CASE CheckoutFails(t)
    BY <2>4 DEF CheckoutFails
  <2>5. CASE GetLast(t)
    BY <2>5 DEF GetLast
  <2>6. CASE TryGetLast(t)
    BY <2>6 DEF TryGetLast
  <2>7. CASE PrivateSet(t)
    BY <2>7 DEF PrivateSet
  <2>8. CASE PrivateSetFails(t)
    BY <2>8 DEF PrivateSetFails
  <2>9. CASE Checkin(t)
    BY <2>9 DEF Checkin
  <2>10. CASE Undo(t)
    BY <2>10 DEF Undo
  <2> QED
    BY <1>2, <2>1, <2>2, <2>3, <2>4, <2>5, <2>6, <2>7, <2>8, <2>9, <2>10 DEF GoOn
<1>3. CASE UNCHANGED vars
  BY <1>3 DEF vars
<1> QED
  BY <1>1, <1>2, <1>3 DEF Next

LEMMA Invariance == Spec => []IInv
<1>1. IInv /\ [Next]_vars => IInv'
  BY TypeStep, HoldStep DEF IInv
<1> QED
  BY InvInit, <1>1, PTL DEF Spec

\* The type invariant: no thread ever takes the mark of a checked-out pointer
\* for a location.
THEOREM PointerTypes == Spec => []TypeOK
  BY Invariance, PTL DEF IInv

\* A pointer is checked out by one thread at most, the token semantics that
\* AtomicPtr.h describes.
THEOREM ExclusiveCheckout == Spec => []CheckedOutOnce
  BY Invariance, PTL DEF IInv

-----------------------------------------------------------------------------
(* Refinement. *)

\* What placement is, for pointers that are there and for those checked out.
PlacementIs ==
  /\ placement \in [Ptrs -> Locs]
  /\ \A x \in Ptrs : p[x] # ATOMIC_NULL => placement[x] = p[x]
  /\ \A t \in Threads : Holds(t) => placement[first[t]] = Due(t)

LEMMA PlacementOf == IInv => PlacementIs
<1> SUFFICES ASSUME IInv PROVE PlacementIs
  OBVIOUS
<1> USE AtomicPtrAssumption DEF IInv, TypeOK, CheckedOutOnce
<1>1. ASSUME NEW t \in Threads, Holds(t) PROVE Holder(first[t]) = t
  BY <1>1 DEF Holder
<1>2. ASSUME NEW x \in Ptrs, p[x] # ATOMIC_NULL PROVE placement[x] = p[x]
  BY <1>2 DEF placement
<1>3. ASSUME NEW t \in Threads, Holds(t) PROVE placement[first[t]] = Due(t)
  <2>1. first[t] \in Ptrs /\ p[first[t]] = ATOMIC_NULL
    BY <1>3 DEF Holds
  <2> QED
    BY <2>1, <1>1, <1>3 DEF placement, Due
<1>4. ASSUME NEW x \in Ptrs PROVE placement[x] \in Locs
  <2>1. CASE p[x] # ATOMIC_NULL
    BY <2>1, <1>2
  <2>2. CASE p[x] = ATOMIC_NULL
    <3>1. PICK t \in Threads : Holds(t) /\ first[t] = x
      BY <2>2
    <3>2. Due(t) \in Locs
      BY <3>1 DEF Due, Holds
    <3> QED
      BY <3>1, <3>2, <1>3
  <2> QED
    BY <2>1, <2>2
<1>5. placement = [x \in Ptrs |-> placement[x]]
  BY DEF placement
<1> QED
  BY <1>2, <1>3, <1>4, <1>5 DEF PlacementIs

\* A step that changes no pointer and no holder's value keeps placement.
LEMMA Frame ==
  ASSUME IInv, PlacementIs, PlacementIs', p' = p,
         \A t \in Threads : Holds(t) =>
            Holds(t)' /\ first'[t] = first[t] /\ Due(t)' = Due(t)
  PROVE  placement' = placement
<1>1. ASSUME NEW x \in Ptrs PROVE placement'[x] = placement[x]
  <2>1. CASE p[x] # ATOMIC_NULL
    BY <2>1 DEF PlacementIs
  <2>2. CASE p[x] = ATOMIC_NULL
    <3>1. PICK t \in Threads : Holds(t) /\ first[t] = x
      BY <2>2 DEF IInv, CheckedOutOnce
    <3> QED
      BY <3>1 DEF PlacementIs
  <2> QED
    BY <2>1, <2>2
<1> QED
  BY <1>1 DEF PlacementIs

\* A step of t leaves the pointers alone that it does not store to and that
\* t has not checked out.
LEMMA Others ==
  ASSUME IInv, PlacementIs, PlacementIs', NEW t \in Threads, NEW x \in Ptrs,
         p'[x] = p[x], x # first[t],
         first' = first,
         \A u \in Threads \ {t} :
            pc'[u] = pc[u] /\ valFirst'[u] = valFirst[u] /\ valLast'[u] = valLast[u]
  PROVE  placement'[x] = placement[x]
<1>1. CASE p[x] # ATOMIC_NULL
  BY <1>1 DEF PlacementIs
<1>2. CASE p[x] = ATOMIC_NULL
  <2>1. PICK u \in Threads : Holds(u) /\ first[u] = x
    BY <1>2 DEF IInv, CheckedOutOnce
  <2>2. Holds(u)' /\ first'[u] = x /\ Due(u)' = Due(u)
    BY <2>1 DEF Holds, Due
  <2> QED
    BY <2>1, <2>2 DEF PlacementIs
<1> QED
  BY <1>1, <1>2

LEMMA StepRefines ==
  ASSUME IInv, PlacementIs, PlacementIs', [Next]_vars
  PROVE  [Swapping!Next]_placement
<1> USE AtomicPtrAssumption DEF Goto
<1>1. ASSUME NEW t \in Threads, NEW a \in Ptrs, NEW b \in Ptrs, Call(t, a, b)
      PROVE placement' = placement
  BY <1>1, Frame DEF Call, Holds, Due, IInv, TypeOK
<1>2. ASSUME NEW t \in Threads, GoOn(t) PROVE [Swapping!Next]_placement
  <2>1. CASE GetFirst(t)
    BY <2>1, Frame DEF GetFirst, Holds, Due, IInv, TypeOK
  <2>2. CASE TryGetFirst(t)
    BY <2>2, Frame DEF TryGetFirst, Holds, Due, IInv, TypeOK
  <2>4. CASE CheckoutFails(t)
    BY <2>4, Frame DEF CheckoutFails, Holds, Due, IInv, TypeOK
  <2>5. CASE GetLast(t)
    BY <2>5, Frame DEF GetLast, Holds, Due, IInv, TypeOK
  <2>6. CASE TryGetLast(t)
    BY <2>6, Frame DEF TryGetLast, Holds, Due, IInv, TypeOK
  <2>8. CASE PrivateSetFails(t)
    BY <2>8, Frame DEF PrivateSetFails, Holds, Due, IInv, TypeOK
  <2>3. CASE Checkout(t)
    <3>1. first[t] \in Ptrs /\ p[first[t]] = val[t] /\ val[t] \in Locs
      BY <2>3 DEF Checkout, IInv, TypeOK
    <3>2. Holds(t)' /\ first' = first /\ Due(t)' = val[t]
      BY <2>3 DEF Checkout, Holds, Due, IInv, TypeOK
    <3>3. placement'[first[t]] = placement[first[t]]
      BY <3>1, <3>2 DEF PlacementIs
    <3>4. ASSUME NEW x \in Ptrs, x # first[t] PROVE placement'[x] = placement[x]
      BY <2>3, <3>4, Others DEF Checkout, IInv, TypeOK
    <3> QED
      BY <3>3, <3>4 DEF PlacementIs
  <2>9. CASE Checkin(t)
    <3>1. first[t] \in Ptrs /\ valLast[t] \in Locs /\ Holds(t) /\ Due(t) = valLast[t]
      BY <2>9 DEF Checkin, IInv, TypeOK, Holds, Due
    <3>2. placement'[first[t]] = placement[first[t]]
      BY <2>9, <3>1 DEF Checkin, PlacementIs, IInv, TypeOK
    <3>3. ASSUME NEW x \in Ptrs, x # first[t] PROVE placement'[x] = placement[x]
      BY <2>9, <3>3, Others DEF Checkin, IInv, TypeOK
    <3> QED
      BY <3>2, <3>3 DEF PlacementIs
  <2>10. CASE Undo(t)
    <3>1. first[t] \in Ptrs /\ valFirst[t] \in Locs /\ Holds(t) /\ Due(t) = valFirst[t]
      BY <2>10 DEF Undo, IInv, TypeOK, Holds, Due
    <3>2. placement'[first[t]] = placement[first[t]]
      BY <2>10, <3>1 DEF Undo, PlacementIs, IInv, TypeOK
    <3>3. ASSUME NEW x \in Ptrs, x # first[t] PROVE placement'[x] = placement[x]
      BY <2>10, <3>3, Others DEF Undo, IInv, TypeOK
    <3> QED
      BY <3>2, <3>3 DEF PlacementIs
  <2>7. CASE PrivateSet(t)
    <3> DEFINE a == first[t]
               b == last[t]
    <3>1. a \in Ptrs /\ b \in Ptrs /\ a # b /\ val[t] \in Locs /\ valFirst[t] \in Locs
      BY <2>7 DEF PrivateSet, IInv, TypeOK, Different
    <3>2. Holds(t) /\ Due(t) = valFirst[t] /\ Holds(t)' /\ Due(t)' = val[t] /\ first' = first
      BY <2>7 DEF PrivateSet, IInv, TypeOK, Holds, Due
    <3>3. placement[a] = valFirst[t] /\ placement'[a] = val[t]
      BY <3>2 DEF PlacementIs
    <3>4. placement[b] = val[t] /\ placement'[b] = valFirst[t]
      BY <2>7, <3>1 DEF PrivateSet, PlacementIs, IInv, TypeOK
    <3>5. ASSUME NEW x \in Ptrs, x # a, x # b PROVE placement'[x] = placement[x]
      BY <2>7, <3>5, Others DEF PrivateSet, IInv, TypeOK
    <3>6. placement' = [placement EXCEPT ![a] = placement[b], ![b] = placement[a]]
      BY <3>1, <3>3, <3>4, <3>5 DEF PlacementIs
    <3> QED
      BY <3>1, <3>6 DEF Swapping!Next, Swapping!Swap
  <2> QED
    BY <1>2, <2>1, <2>2, <2>3, <2>4, <2>5, <2>6, <2>7, <2>8,
       <2>9, <2>10 DEF GoOn
<1>3. CASE UNCHANGED vars
  BY <1>3, Frame DEF vars, Holds, Due
<1> QED
  BY <1>1, <1>2, <1>3 DEF Next

LEMMA InitRefines == Init => Swapping!Init
  BY AtomicPtrAssumption DEF Init, Swapping!Init, placement

\* Every behaviour of the pointers is one of atomic swaps: Swap and TrySwap
\* take effect in their compare-and-set of the last pointer.
THEOREM SwapLinearizable == Spec => SwapIsAtomic
<1>1. IInv /\ IInv' /\ [Next]_vars => [Swapping!Next]_placement
  <2>1. IInv' => PlacementIs'
    BY PlacementOf, PTL
  <2> QED
    BY <2>1, PlacementOf, StepRefines
<1> QED
  BY <1>1, InitRefines, Invariance, PTL DEF Spec, SwapIsAtomic, Swapping!Spec

-----------------------------------------------------------------------------
(* Atomic swaps keep the placement one to one. *)

LEMMA OneToOneKept ==
  ASSUME NEW f \in [Ptrs -> Locs], NEW g \in [Ptrs -> Locs],
         NEW a \in Ptrs, NEW b \in Ptrs, OneToOne(f),
         g = [f EXCEPT ![a] = f[b], ![b] = f[a]]
  PROVE  OneToOne(g)
  BY DEF OneToOne

\* No two elements ever share a location, if they did not in the beginning.
THEOREM PlacementOneToOne == Spec => []StaysOneToOne
<1>1. Init => StaysOneToOne
  BY InitRefines DEF StaysOneToOne, Swapping!Init
<1>2. IInv /\ IInv' /\ StaysOneToOne /\ [Next]_vars => StaysOneToOne'
  <2> SUFFICES ASSUME IInv, IInv', StaysOneToOne, [Next]_vars PROVE StaysOneToOne'
    OBVIOUS
  <2>1. PlacementIs /\ PlacementIs'
    <3>1. IInv' => PlacementIs'
      BY PlacementOf, PTL
    <3> QED
      BY <3>1, PlacementOf
  <2>2. CASE placement' = placement
    BY <2>2 DEF StaysOneToOne, OneToOne
  <2>3. CASE Swapping!Next
    BY <2>1, <2>3, OneToOneKept
       DEF StaysOneToOne, PlacementIs, Swapping!Next, Swapping!Swap
  <2> QED
    BY <2>1, <2>2, <2>3, StepRefines
<1> QED
  BY <1>1, <1>2, Invariance, PTL DEF Spec

-----------------------------------------------------------------------------
(***************************************************************************)
(* The pointers at work in the annealing threads (module Canneal).  What   *)
(* holds of the pointers holds there, for every step of Canneal is one of  *)
(* the pointers or leaves them alone.                                      *)
(***************************************************************************)

LEMMA CannealIsAtomicPtr == CannealSpec => Spec
<1>1. CannealInit => Init
  BY DEF CannealInit
<1>2. [CannealNext]_allVars => [Next]_vars
  BY DEF CannealNext, allVars, Next, swap_locations, SwapGoesOn, Run, Barrier
<1> QED
  BY <1>1, <1>2, PTL DEF CannealSpec, Spec

\* The swaps the annealing threads call are atomic, too.
THEOREM CannealSwapsLinearizable == CannealSpec => SwapIsAtomic
BY CannealIsAtomicPtr, SwapLinearizable, PTL

\* However the threads anneal, no two elements share a location.
THEOREM CannealPlacementOneToOne == CannealSpec => []StaysOneToOne
BY CannealIsAtomicPtr, PlacementOneToOne, PTL

\* The temperature steps thread t has begun before the present one: at the
\* barrier it has already counted the step it waits to end.
Begun(t) == IF phase[t] = "barrier" THEN steps[t] - 1 ELSE steps[t]

\* Threads that have not returned are in the same temperature step: one that
\* has returned keeps the others at the barrier, so they never get ahead.
StepInv ==
  /\ phase \in [Threads -> {"test", "signal", "swap", "barrier", "done"}]
  /\ steps \in [Threads -> Nat]
  /\ \A t, u \in Threads :
       phase[t] # "done" /\ phase[u] # "done" => Begun(t) = Begun(u)
  /\ \A t \in Threads : pc[t] # "idle" => phase[t] = "swap"

LEMMA StepInvInit == CannealInit => StepInv
  BY DEF CannealInit, Annealing!Init, Init, StepInv, Begun

LEMMA StepInvKept == TypeOK /\ StepInv /\ [CannealNext]_allVars => StepInv'
<1> SUFFICES ASSUME TypeOK, StepInv, [CannealNext]_allVars PROVE StepInv'
  OBVIOUS
<1>1. ASSUME NEW t \in Threads, swap_locations(t) PROVE StepInv'
  <2>1. pc' = [pc EXCEPT ![t] = "getFirst"] /\ phase[t] = "swap"
    BY <1>1 DEF swap_locations, Call, Goto
  <2> QED
    BY <1>1, <2>1 DEF swap_locations, StepInv, Begun, annealVars, TypeOK
<1>2. ASSUME NEW t \in Threads, SwapGoesOn(t) PROVE StepInv'
  <2>1. pc[t] # "idle" /\ \A u \in Threads \ {t} : pc'[u] = pc[u]
    BY <1>2 DEF SwapGoesOn, GoOn, GetFirst, TryGetFirst, Checkout, CheckoutFails, GetLast,
                TryGetLast, PrivateSet, PrivateSetFails, Checkin, Undo, Goto, TypeOK
  <2> QED
    BY <1>2, <2>1 DEF SwapGoesOn, StepInv, Begun, annealVars
<1>3. ASSUME NEW t \in Threads, Run(t) PROVE StepInv'
  <2> USE <1>3 DEF Run, vars, Annealing!Run, Annealing!Goto
  <2>1. CASE Annealing!keep_going(t)
    BY <2>1 DEF Annealing!keep_going, StepInv, Begun
  <2>2. CASE Annealing!SignalConverged(t)
    BY <2>2 DEF Annealing!SignalConverged, StepInv, Begun
  <2>3. CASE Annealing!SwapStep(t)
    BY <2>3 DEF Annealing!SwapStep, StepInv, Begun
  <2> QED
    BY <2>1, <2>2, <2>3
<1>4. CASE Barrier
  BY <1>4 DEF Barrier, Annealing!Barrier, vars, StepInv, Begun
<1>5. CASE UNCHANGED allVars
  BY <1>5 DEF allVars, annealVars, vars, StepInv, Begun
<1> QED
  BY <1>1, <1>2, <1>3, <1>4, <1>5 DEF CannealNext

LEMMA StepInvariance == CannealSpec => []StepInv
BY CannealIsAtomicPtr, PointerTypes, StepInvInit, StepInvKept, PTL DEF CannealSpec

\* The barrier keeps the annealing threads together: no thread swaps at a
\* temperature that others have not reached or have left.
THEOREM OneTemperature == CannealSpec => []SameTemperature
<1>1. StepInv => SameTemperature
  BY DEF StepInv, Begun, SameTemperature, Annealing!SameTemperature
<1> QED
  BY <1>1, StepInvariance, PTL

\* Two calls of Swap that are under way at the same time belong to the same
\* temperature: no swap of netlist::swap_locations outlives its step.
SwapsAtOneTemperature ==
  \A t, u \in Threads : pc[t] # "idle" /\ pc[u] # "idle" => steps[t] = steps[u]

THEOREM NoSwapOutlivesStep == CannealSpec => []SwapsAtOneTemperature
<1>1. StepInv => SwapsAtOneTemperature
  BY DEF StepInv, Begun, SwapsAtOneTemperature
<1> QED
  BY <1>1, StepInvariance, PTL

-----------------------------------------------------------------------------
(***************************************************************************)
(* Bodytrack.                                                              *)
(***************************************************************************)

(***************************************************************************)
(* The image loader.                                                       *)
(***************************************************************************)
LoaderPlaces ==
  {"loop", "push", "full?", "next", "call", "empty?", "pop", "done",
   "wait", "test", "block", "blocked", "wake", "leave", "notify", "ticket", "signal"}

\* All frames that were pushed, taken or not.
Pushed == got \o buffer

\* Only the main thread takes from the buffer, and the loader has pushed the
\* frames up to the current one in their order.
LoaderInv ==
  /\ lpc \in [Both -> LoaderPlaces]
  /\ buffer \in Seq(Nat) /\ got \in Seq(Nat) /\ currentFrame \in Nat
  /\ lpc["main"] = "pop" => buffer # << >>
  /\ Len(Pushed) = IF lpc["loader"] \in {"loop", "push", "done"}
                   THEN currentFrame ELSE currentFrame + 1
  /\ \A i \in DOMAIN Pushed : Pushed[i] = i - 1

\* GetNextImageSet returns the sets of images in the order of the frames, and
\* none of them twice.
FramesInOrder == \A i \in 1..Len(got) : got[i] = i - 1

LEMMA LoaderInitInv == LoaderInit => LoaderInv
<1> SUFFICES ASSUME LoaderInit PROVE LoaderInv
  OBVIOUS
<1>1. Pushed = << >>
  BY DEF LoaderInit, Pushed
<1> QED
  BY <1>1 DEF LoaderInit, LoaderInv, LoaderPlaces, Both

\* Waiting and notifying moves one thread, or wakes the other one as well; it
\* reaches no place where the buffer is used.
LEMMA ConditionKeepsLoaderInv ==
  ASSUME LoaderInv, NEW t \in Both, Condition(t) \/ SpuriousWakeup(t)
  PROVE  LoaderInv'
<1>1. buffer' = buffer /\ got' = got /\ currentFrame' = currentFrame
  BY DEF Condition, WaitEnter, WaitTest, WaitBlock, SpuriousWakeup, WaitTakeTicket,
         WaitLeave, NotifySlack, NotifyTicket, NotifySignal
<1>2. /\ lpc' \in [Both -> LoaderPlaces]
      /\ lpc'["main"] = "pop" => lpc["main"] = "pop"
      /\ lpc'["loader"] \in {"loop", "push", "done"} <=> lpc["loader"] \in {"loop", "push", "done"}
  <2>1. lpc \in [Both -> LoaderPlaces] /\ (t = "loader" \/ t = "main")
    BY DEF LoaderInv, Both
  <2>2. CASE NotifySignal(t)
    BY <2>1, <2>2 DEF NotifySignal, AfterNotify, LoaderPlaces, Both, LoaderAt
  <2>3. CASE WaitEnter(t) \/ WaitTest(t) \/ WaitBlock(t) \/ WaitTakeTicket(t)
    BY <2>1, <2>3 DEF WaitEnter, WaitTest, WaitBlock, WaitTakeTicket, LoaderGoto, LoaderAt,
                      LoaderPlaces, Both
  <2>4. CASE WaitLeave(t) \/ SpuriousWakeup(t) \/ NotifySlack(t) \/ NotifyTicket(t)
    BY <2>1, <2>4 DEF WaitLeave, SpuriousWakeup, NotifySlack, NotifyTicket, AfterWait,
                      AfterNotify, LoaderGoto, LoaderAt, LoaderPlaces, Both
  <2> QED
    BY <2>2, <2>3, <2>4 DEF Condition
<1> QED
  BY <1>1, <1>2 DEF LoaderInv, Pushed

\* The loader pushes the current frame behind the others and then counts it.
LEMMA LoaderRunKeepsLoaderInv ==
  ASSUME LoaderInv, LoaderRun
  PROVE  LoaderInv'
<1>1. lpc \in [Both -> LoaderPlaces] /\ "loader" \in Both /\ "main" \in Both
  BY DEF LoaderInv, Both
<1>2. CASE Push
  <2>1. /\ lpc["loader"] = "push" /\ lpc' = [lpc EXCEPT !["loader"] = "notify"]
        /\ buffer' = Append(buffer, currentFrame)
        /\ got' = got /\ currentFrame' = currentFrame
    BY <1>2 DEF Push, LoaderAt, LoaderGoto
  <2>2. /\ lpc' \in [Both -> LoaderPlaces] /\ lpc'["main"] = lpc["main"]
        /\ lpc'["loader"] = "notify"
    BY <1>1, <2>1 DEF LoaderPlaces
  <2>3. buffer \in Seq(Nat) /\ got \in Seq(Nat) /\ currentFrame \in Nat
    BY DEF LoaderInv
  <2>4. Pushed \in Seq(Nat) /\ Len(Pushed) = currentFrame
    BY <2>1, <2>3 DEF LoaderInv, Pushed
  <2>5. \A i \in 1..Len(Pushed) : Pushed[i] = i - 1
    <3>1. DOMAIN Pushed = 1..Len(Pushed)
      BY <2>4
    <3> QED
      BY <3>1 DEF LoaderInv
  <2>6. buffer' \in Seq(Nat) /\ buffer' # << >>
    BY <2>1, <2>3, AppendProperties
  <2>7. Pushed' = Append(Pushed, currentFrame)
    <3>1. << currentFrame >> \in Seq(Nat)
      BY <2>3
    <3>2. buffer' = buffer \o << currentFrame >>
      BY <2>1, <2>3, AppendIsConcat
    <3>3. (got \o buffer) \o << currentFrame >> = got \o (buffer \o << currentFrame >>)
      BY <2>3, <3>1, ConcatAssociative
    <3>4. Append(Pushed, currentFrame) = Pushed \o << currentFrame >>
      BY <2>3, <2>4, AppendIsConcat
    <3> QED
      BY <2>1, <3>2, <3>3, <3>4 DEF Pushed
  <2>8. /\ Pushed' \in Seq(Nat) /\ Len(Pushed') = currentFrame + 1
        /\ \A i \in 1..currentFrame : Pushed'[i] = Pushed[i]
        /\ Pushed'[currentFrame + 1] = currentFrame
    BY <2>3, <2>4, <2>7, AppendProperties
  <2>9. ASSUME NEW i \in 1..(currentFrame + 1) PROVE Pushed'[i] = i - 1
    BY <2>3, <2>4, <2>5, <2>8
  <2> QED
    BY <2>1, <2>2, <2>3, <2>6, <2>8, <2>9 DEF LoaderInv
<1>3. CASE Load \/ TestFull \/ NextFrame
  <2>1. buffer' = buffer /\ got' = got
    BY <1>3 DEF Load, TestFull, NextFrame
  <2>2. lpc' \in [Both -> LoaderPlaces] /\ lpc'["main"] = lpc["main"]
    BY <1>1, <1>3 DEF Load, TestFull, NextFrame, LoaderGoto, LoaderPlaces
  <2>3. currentFrame' \in Nat
    <3>1. currentFrame \in Nat
      BY DEF LoaderInv
    <3>2. currentFrame' = currentFrame \/ currentFrame' = currentFrame + 1
      BY <1>3 DEF Load, TestFull, NextFrame
    <3> QED
      BY <3>1, <3>2
  <2>4. (IF lpc'["loader"] \in {"loop", "push", "done"} THEN currentFrame' ELSE currentFrame' + 1)
         = IF lpc["loader"] \in {"loop", "push", "done"} THEN currentFrame ELSE currentFrame + 1
    BY <1>1, <1>3 DEF Load, TestFull, NextFrame, LoaderAt, LoaderGoto, LoaderInv
  <2> QED
    BY <2>1, <2>2, <2>3, <2>4 DEF LoaderInv, Pushed
<1> QED
  BY <1>2, <1>3 DEF LoaderRun

\* A frame that is taken moves from the head of the buffer to the end of what
\* was returned.
LEMMA GetNextKeepsLoaderInv ==
  ASSUME LoaderInv, GetNextImageSet
  PROVE  LoaderInv'
<1>1. lpc \in [Both -> LoaderPlaces] /\ "loader" \in Both /\ "main" \in Both
  BY DEF LoaderInv, Both
<1>2. CASE Pop
  <2>1. lpc["main"] = "pop" /\ buffer # << >> /\ buffer \in Seq(Nat) /\ got \in Seq(Nat)
    BY <1>2 DEF Pop, LoaderAt, LoaderInv
  <2>2. /\ got' = Append(got, Head(buffer)) /\ buffer' = Tail(buffer)
        /\ lpc' = [lpc EXCEPT !["main"] = "notify"] /\ currentFrame' = currentFrame
    BY <1>2, <2>1 DEF Pop, LoaderGoto
  <2>3. got' \in Seq(Nat) /\ buffer' \in Seq(Nat) /\ Pushed' = Pushed
    BY <2>1, <2>2, SMTT(30) DEF Pushed
  <2>4. /\ lpc' \in [Both -> LoaderPlaces] /\ lpc'["main"] = "notify"
        /\ lpc'["loader"] = lpc["loader"]
    BY <1>1, <2>2 DEF LoaderPlaces
  <2> QED
    BY <2>2, <2>3, <2>4 DEF LoaderInv
<1>3. CASE AskForNext \/ TestEmpty
  <2>1. buffer' = buffer /\ got' = got /\ currentFrame' = currentFrame
    BY <1>3 DEF AskForNext, TestEmpty
  <2>2. /\ lpc' \in [Both -> LoaderPlaces] /\ lpc'["loader"] = lpc["loader"]
        /\ lpc'["main"] = "pop" => buffer # << >>
    BY <1>1, <1>3 DEF AskForNext, TestEmpty, LoaderGoto, LoaderPlaces
  <2> QED
    BY <2>1, <2>2 DEF LoaderInv, Pushed
<1> QED
  BY <1>2, <1>3 DEF GetNextImageSet

LEMMA LoaderInvariance == LoaderSpec => []LoaderInv
<1>1. LoaderInv /\ [LoaderNext]_loaderVars => LoaderInv'
  <2> SUFFICES ASSUME LoaderInv, [LoaderNext]_loaderVars PROVE LoaderInv'
    OBVIOUS
  <2>1. CASE UNCHANGED loaderVars
    BY <2>1 DEF loaderVars, LoaderInv, Pushed
  <2>2. CASE LoaderNext
    BY <2>2, ConditionKeepsLoaderInv, LoaderRunKeepsLoaderInv, GetNextKeepsLoaderInv
    DEF LoaderNext, LoaderStep
  <2> QED
    BY <2>1, <2>2
<1> QED
  BY <1>1, LoaderInitInv, PTL DEF LoaderSpec

\* Whatever the two threads do between the test of the size and the sleep, the
\* main thread never takes from an empty deque (GetNextImageSet).
THEOREM BufferNeverPoppedEmpty == LoaderSpec => []NeverPopsEmpty
<1>1. LoaderInv => NeverPopsEmpty
  BY DEF LoaderInv, NeverPopsEmpty, LoaderPlaces, Both
<1> QED
  BY <1>1, LoaderInvariance, PTL

\* A load that fails, a buffer that is full or empty and a notification that is
\* lost change nothing of the order of the frames.
THEOREM FramesComeInOrder == LoaderSpec => []FramesInOrder
<1>1. LoaderInv => FramesInOrder
  <2> SUFFICES ASSUME LoaderInv, NEW i \in 1..Len(got) PROVE got[i] = i - 1
    BY DEF FramesInOrder
  <2>1. got \in Seq(Nat) /\ buffer \in Seq(Nat)
    BY DEF LoaderInv
  <2>2. i \in DOMAIN Pushed /\ Pushed[i] = got[i]
    BY <2>1 DEF Pushed
  <2> QED
    BY <2>2 DEF LoaderInv
<1> QED
  BY <1>1, LoaderInvariance, PTL

(***************************************************************************)
(* The barrier.                                                            *)
(***************************************************************************)
Sleepers == {t \in Parties : bpc[t] = "sleep"}

\* k rounds are complete.  While threads enter, the next round is open and
\* nobody can be woken; while they leave, all who sleep belong to the last
\* round, and each of them has a ticket.
Filling(k) ==
  /\ countSleep < n /\ entered = k * n + countSleep
  /\ CSleep.tickets = 0 /\ Cardinality(Sleepers) = countSleep
  /\ \A t \in Sleepers : round[t] = k + 1

Emptying(k) ==
  /\ countSleep = n /\ entered = k * n /\ k # 0
  /\ countReset \in 1..(n - 1)
  /\ CSleep.tickets = n - countReset /\ Cardinality(Sleepers) = n - countReset
  /\ \A t \in Sleepers : round[t] = k

BarrierTypeOK ==
  /\ bpc \in [Parties -> {"out", "full", "sleep", "leave"}]
  /\ round \in [Parties -> Nat] /\ entered \in Nat
  /\ countSleep \in Nat
  /\ CSleep \in [waiting : SUBSET Parties, tickets : Nat, gen : Int]

\* Who waits for the reset of the barrier is outside, or in a round that is
\* complete.
PlacesInv ==
  /\ CSleep.waiting = Sleepers
  /\ \A t \in Parties : bpc[t] \in {"out", "full"} => round[t] = 0
  /\ \A t \in Parties : bpc[t] = "leave" => round[t] # 0 /\ n * round[t] <= entered

BarrierInv ==
  /\ BarrierTypeOK /\ PlacesInv
  /\ \E k \in Nat : Filling(k) \/ Emptying(k)

LEMMA PartiesSize == n \in Nat \ {0} /\ GenMod \in Nat \ {0}
<1>1. Cardinality(Parties) \in Nat
  BY BarrierAssumption, FS_CardinalityType
<1> QED
  BY <1>1, BarrierAssumption

\* How the number of sleepers changes with one of them.
LEMMA SleepersChange ==
  ASSUME NEW S \in SUBSET Parties, NEW t \in Parties
  PROVE  /\ Cardinality(S) \in Nat
         /\ t \notin S => Cardinality(S \cup {t}) = Cardinality(S) + 1
         /\ t \in S => Cardinality(S \ {t}) = Cardinality(S) - 1
         /\ Cardinality(S) = 0 <=> S = {}
<1>1. IsFiniteSet(S)
  BY BarrierAssumption, FS_Subset
<1> QED
  BY <1>1, FS_CardinalityType, FS_AddElement, FS_RemoveElement, FS_EmptySet

\* The round of the next thread to enter.
LEMMA RoundOfNext ==
  ASSUME NEW m \in Nat \ {0}, NEW k \in Nat, NEW x \in 0..(m - 1)
  PROVE  (k * m + x) \div m = k
<1>1. k * m + x \in Nat
  OBVIOUS
<1> QED
  BY <1>1

LEMMA RoundIsFull ==
  ASSUME NEW m \in Nat \ {0}, NEW k \in Nat
  PROVE  (k * m + m) % m = 0
<1>1. k * m + m = (k + 1) * m /\ k * m + m \in Nat
  OBVIOUS
<1>2. ((k + 1) * m) \div m = k + 1
  OBVIOUS
<1>3. ((k + 1) * m) % m = 0
  BY <1>1, <1>2
<1> QED
  BY <1>1, <1>3

LEMMA BarrierInitInv == BarrierInit => BarrierInv
<1> SUFFICES ASSUME BarrierInit PROVE BarrierInv
  OBVIOUS
<1>1. BarrierTypeOK
  BY DEF BarrierInit, BarrierTypeOK, NewCondition
<1>2. Sleepers = {}
  BY DEF BarrierInit, Sleepers
<1>3. PlacesInv
  BY <1>2 DEF BarrierInit, PlacesInv, NewCondition
<1>4. Filling(0)
  BY <1>2, PartiesSize, FS_EmptySet DEF BarrierInit, Filling, NewCondition
<1> QED
  BY <1>1, <1>3, <1>4 DEF BarrierInv

\* Entering, whatever the thread finds in CReset.
LEMMA EnterKeepsInv ==
  ASSUME BarrierInv, NEW t \in Parties, bpc[t] \in {"out", "full"}, NEW reset, Enter(t, reset)
  PROVE  BarrierInv' /\ (Rounds!Enter(t) \/ Rounds!Complete(t))
<1>1. PICK k \in Nat : Filling(k) \/ Emptying(k)
  BY DEF BarrierInv
<1>2. /\ Filling(k) /\ countSleep \in 0..(n - 1) /\ entered = k * n + countSleep
      /\ CSleep.tickets = 0 /\ Cardinality(Sleepers) = countSleep
      /\ entered' = entered + 1 /\ n \in Nat \ {0}
  BY <1>1, PartiesSize DEF Enter, IsFull, Filling, Emptying, BarrierInv, BarrierTypeOK
<1>3. entered \div n + 1 = k + 1
  BY <1>2, RoundOfNext
<1>4. /\ round[t] = 0 /\ t \notin Sleepers /\ CSleep.waiting = Sleepers
      /\ BarrierTypeOK /\ PlacesInv
  BY DEF BarrierInv, PlacesInv, Sleepers
<1>5. entered' \in Nat /\ entered' = k * n + (countSleep + 1)
  BY <1>2
<1>6. CASE countSleep + 1 < n
  <2>1. /\ countSleep' = countSleep + 1
        /\ bpc' = [bpc EXCEPT ![t] = "sleep"]
        /\ CSleep' = [CSleep EXCEPT !.waiting = @ \cup {t}]
        /\ round' = [round EXCEPT ![t] = k + 1]
    BY <1>3, <1>6 DEF Enter, SleepAt, Asleep
  <2>2. Sleepers' = Sleepers \cup {t}
    BY <1>4, <2>1 DEF Sleepers, BarrierTypeOK
  <2>3. BarrierTypeOK'
    BY <1>2, <1>4, <1>5, <2>1 DEF BarrierTypeOK
  <2>4. /\ round'[t] = k + 1 /\ bpc'[t] = "sleep"
        /\ \A u \in Parties : u # t => round'[u] = round[u] /\ bpc'[u] = bpc[u]
    BY <1>4, <2>1 DEF BarrierTypeOK
  <2>5. PlacesInv'
    <3>1. CSleep'.waiting = Sleepers'
      BY <1>4, <2>1, <2>2 DEF BarrierTypeOK
    <3>2. ASSUME NEW u \in Parties, bpc'[u] = "leave"
          PROVE  round'[u] # 0 /\ n * round'[u] <= entered'
      <4>1. u # t /\ round[u] \in Nat /\ round[u] # 0 /\ n * round[u] <= entered
        BY <1>4, <2>4, <3>2 DEF PlacesInv, BarrierTypeOK
      <4> QED
        BY <1>2, <1>4, <2>4, <4>1 DEF BarrierTypeOK
    <3> QED
      BY <1>4, <2>4, <3>1, <3>2 DEF PlacesInv
  <2>6. Filling(k)'
    <3>1. Cardinality(Sleepers') = countSleep'
      BY <1>2, <1>4, <2>1, <2>2, SleepersChange DEF Sleepers
    <3>2. \A u \in Sleepers' : round'[u] = k + 1
      BY <1>2, <2>2, <2>4 DEF Filling, Sleepers
    <3>3. CSleep'.tickets = 0
      BY <1>2, <1>4, <2>1 DEF BarrierTypeOK
    <3> QED
      BY <1>5, <1>6, <2>1, <3>1, <3>2, <3>3 DEF Filling
  <2>7. Rounds!Enter(t)
    BY <1>2, <1>3, <1>4, <2>1 DEF Rounds!Enter
  <2> QED
    BY <2>3, <2>5, <2>6, <2>7 DEF BarrierInv
<1>7. CASE countSleep + 1 = n
  <2>1. CSleep' = Notified(CSleep) /\ Leave(t, k + 1, n, 0, reset)
    BY <1>2, <1>3, <1>7 DEF Enter
  <2>2. /\ Cardinality(Sleepers) = n - 1 /\ WaitingOn(CSleep) = n - 1
        /\ Sleepers \in SUBSET Parties
    BY <1>2, <1>4, <1>7 DEF WaitingOn, Sleepers
  <2>3. CSleep'.waiting = Sleepers /\ CSleep'.tickets = n - 1
        /\ CSleep' \in [waiting : SUBSET Parties, tickets : Nat, gen : Int]
    <3>1. CASE n = 1
      BY <1>2, <1>4, <2>1, <2>2, <3>1 DEF Notified, BarrierTypeOK
    <3>2. CASE n # 1
      <4>1. CSleep' = [CSleep EXCEPT !.tickets = n - 1, !.gen = (@ + 1) % GenMod]
        BY <1>2, <2>1, <2>2, <3>2 DEF Notified
      <4>2. (CSleep.gen + 1) % GenMod \in Int
        BY <1>4, PartiesSize DEF BarrierTypeOK
      <4>3. PICK g \in Int : CSleep' = [CSleep EXCEPT !.tickets = n - 1, !.gen = g]
        BY <4>1, <4>2
      <4>4. n - 1 \in Nat /\ CSleep \in [waiting : SUBSET Parties, tickets : Nat, gen : Int]
        BY <1>2, <1>4 DEF BarrierTypeOK
      <4> QED
        BY <1>4, <4>3, <4>4
    <3> QED
      BY <3>1, <3>2
  <2>4. entered' = (k + 1) * n /\ k + 1 \in Nat /\ k + 1 # 0
    BY <1>2, <1>5, <1>7
  <2>5. \A u \in Sleepers : round[u] = k + 1
    BY <1>2 DEF Filling
  <2>6. CASE n = 1
    <3>1. /\ bpc' = [bpc EXCEPT ![t] = "out"] /\ round' = [round EXCEPT ![t] = 0]
          /\ countSleep' = 0
      BY <2>1, <2>6 DEF Leave, ReturnFromWait
    <3>2. round' = round /\ Sleepers = {}
      <4>1. round' = round
        BY <1>4, <3>1 DEF BarrierTypeOK
      <4>2. Cardinality(Sleepers) = 0
        BY <2>2, <2>6
      <4> QED
        BY <2>2, <4>1, <4>2, SleepersChange
    <3>3. Sleepers' = {}
      BY <1>4, <3>1, <3>2 DEF Sleepers, BarrierTypeOK
    <3>4. BarrierTypeOK'
      BY <1>4, <1>5, <2>3, <3>1, <3>2 DEF BarrierTypeOK
    <3>5. PlacesInv'
      <4>1. \A u \in Parties : n * round[u] <= entered => n * round[u] <= entered'
        BY <1>2, <1>4 DEF BarrierTypeOK
      <4> QED
        BY <1>4, <2>3, <3>1, <3>2, <3>3, <4>1 DEF PlacesInv, BarrierTypeOK
    <3>6. Filling(k + 1)'
      BY <2>3, <2>4, <2>6, <3>1, <3>3, FS_EmptySet DEF Filling
    <3>7. Rounds!Complete(t)
      <4>1. (entered + 1) % n = 0
        BY <1>2, <1>7, RoundIsFull
      <4> QED
        BY <1>2, <1>4, <3>2, <4>1 DEF Rounds!Complete
    <3> QED
      BY <2>4, <3>4, <3>5, <3>6, <3>7 DEF BarrierInv
  <2>7. CASE n # 1
    <3>1. /\ bpc' = [bpc EXCEPT ![t] = "leave"] /\ round' = [round EXCEPT ![t] = k + 1]
          /\ countSleep' = n /\ countReset' = 1
      BY <1>2, <2>1, <2>7 DEF Leave, SleepAt
    <3>2. Sleepers' = Sleepers
      BY <1>4, <3>1 DEF Sleepers, BarrierTypeOK
    <3>3. BarrierTypeOK'
      BY <1>2, <1>4, <1>5, <2>3, <2>4, <3>1 DEF BarrierTypeOK
    <3>4. /\ round'[t] = k + 1 /\ bpc'[t] = "leave"
          /\ \A u \in Parties : u # t => round'[u] = round[u] /\ bpc'[u] = bpc[u]
      BY <1>4, <3>1 DEF BarrierTypeOK
    <3>5. PlacesInv'
      <4>1. ASSUME NEW u \in Parties, bpc'[u] = "leave"
            PROVE  round'[u] # 0 /\ n * round'[u] <= entered'
        <5>1. CASE u = t
          BY <1>2, <2>4, <3>4, <5>1
        <5>2. CASE u # t
          <6>1. round[u] \in Nat /\ round[u] # 0 /\ n * round[u] <= entered
            BY <1>4, <3>4, <4>1, <5>2 DEF PlacesInv, BarrierTypeOK
          <6> QED
            BY <1>2, <1>4, <3>4, <5>2, <6>1 DEF BarrierTypeOK
        <5> QED
          BY <5>1, <5>2
      <4> QED
        BY <1>4, <2>3, <3>2, <3>4, <4>1 DEF PlacesInv
    <3>6. Emptying(k + 1)'
      <4>1. \A u \in Sleepers' : round'[u] = k + 1
        BY <2>5, <3>2, <3>4 DEF Sleepers
      <4> QED
        BY <1>2, <2>2, <2>3, <2>4, <2>7, <3>1, <3>2, <4>1 DEF Emptying
    <3>7. Rounds!Enter(t)
      BY <1>2, <1>3, <1>4, <3>1 DEF Rounds!Enter
    <3> QED
      BY <2>4, <3>3, <3>5, <3>6, <3>7 DEF BarrierInv
  <2> QED
    BY <2>6, <2>7
<1> QED
  BY <1>2, <1>6, <1>7

\* A thread that finds the barrier full waits for the reset outside any round.
LEMMA SleepUntilResetKeepsInv ==
  ASSUME BarrierInv, NEW t \in Parties, bpc[t] \in {"out", "full"}, NEW reset,
         SleepUntilReset(t, reset)
  PROVE  BarrierInv' /\ UNCHANGED <<entered, round>>
<1>1. /\ bpc' = [bpc EXCEPT ![t] = "full"]
      /\ UNCHANGED <<countSleep, countReset, CSleep, entered, round>>
  BY DEF SleepUntilReset, SleepAt
<1>2. Sleepers' = Sleepers
  BY <1>1 DEF Sleepers, BarrierInv, BarrierTypeOK
<1>3. BarrierTypeOK'
  BY <1>1 DEF BarrierInv, BarrierTypeOK
<1>4. PlacesInv'
  BY <1>1, <1>2 DEF BarrierInv, PlacesInv, BarrierTypeOK
<1>5. \A k \in Nat : (Filling(k) => Filling(k)') /\ (Emptying(k) => Emptying(k)')
  BY <1>1, <1>2 DEF Filling, Emptying
<1> QED
  BY <1>1, <1>3, <1>4, <1>5 DEF BarrierInv

\* A thread that has slept leaves its round, which is complete; the last one
\* to do so lets the next round begin.
LEMMA WakeAndLeaveKeepsInv ==
  ASSUME BarrierInv, NEW t \in Parties, WakeAndLeave(t)
  PROVE  BarrierInv' /\ (Rounds!Leave(t) \/ UNCHANGED <<entered, round>>)
<1>1. PICK k \in Nat : Filling(k) \/ Emptying(k)
  BY DEF BarrierInv
<1>2. /\ bpc[t] = "sleep" /\ CSleep.tickets > 0 /\ CSleep' = Woken(CSleep, t)
      /\ Leave(t, round[t], countSleep, countReset, CReset)
      /\ entered' = entered /\ BarrierTypeOK /\ PlacesInv /\ t \in Sleepers
  BY DEF WakeAndLeave, MayWake, BarrierInv, Sleepers
<1>3. /\ Emptying(k) /\ n \in Nat \ {0} /\ countReset \in 1..(n - 1) /\ round[t] = k
      /\ Cardinality(Sleepers) = n - countReset /\ CSleep.tickets = n - countReset
      /\ countSleep = n /\ entered = k * n /\ k # 0
  BY <1>1, <1>2, PartiesSize DEF Filling, Emptying
<1>4. /\ CSleep'.waiting = Sleepers \ {t} /\ CSleep'.tickets = n - countReset - 1
      /\ CSleep' \in [waiting : SUBSET Parties, tickets : Nat, gen : Int]
  <2>1. CSleep' = [CSleep EXCEPT !.waiting = @ \ {t}, !.tickets = @ - 1]
    BY <1>2 DEF Woken
  <2>2. /\ CSleep \in [waiting : SUBSET Parties, tickets : Nat, gen : Int]
        /\ CSleep.waiting = Sleepers
    BY <1>2 DEF PlacesInv, BarrierTypeOK
  <2>3. CSleep.tickets - 1 \in Nat /\ CSleep.tickets - 1 = n - countReset - 1
    BY <1>3
  <2> QED
    BY <2>1, <2>2, <2>3
<1>5. Cardinality(Sleepers \ {t}) = n - countReset - 1
  <2>1. Sleepers \in SUBSET Parties
    BY DEF Sleepers
  <2> QED
    BY <1>2, <1>3, <2>1, SleepersChange
<1>6. CASE countReset + 1 < n
  <2>1. /\ bpc' = [bpc EXCEPT ![t] = "leave"] /\ round' = [round EXCEPT ![t] = round[t]]
        /\ countSleep' = n /\ countReset' = countReset + 1
    BY <1>2, <1>3, <1>6 DEF Leave, SleepAt
  <2>2. round' = round /\ Sleepers' = Sleepers \ {t}
    BY <1>2, <2>1 DEF BarrierTypeOK, Sleepers
  <2>3. BarrierTypeOK'
    BY <1>2, <1>3, <1>4, <2>1, <2>2 DEF BarrierTypeOK
  <2>4. PlacesInv'
    <3>1. n * round[t] <= entered
      BY <1>3
    <3> QED
      BY <1>2, <1>3, <1>4, <2>1, <2>2, <3>1 DEF PlacesInv, BarrierTypeOK
  <2>5. Emptying(k)'
    BY <1>2, <1>3, <1>4, <1>5, <1>6, <2>1, <2>2 DEF Emptying
  <2> QED
    BY <1>2, <2>2, <2>3, <2>4, <2>5 DEF BarrierInv
<1>7. CASE countReset + 1 = n
  <2>1. /\ bpc' = [bpc EXCEPT ![t] = "out"] /\ round' = [round EXCEPT ![t] = 0]
        /\ countSleep' = 0
    BY <1>2, <1>3, <1>7 DEF Leave, ReturnFromWait
  <2>2. Sleepers' = Sleepers \ {t} /\ Sleepers \ {t} \in SUBSET Parties
    BY <1>2, <2>1 DEF BarrierTypeOK, Sleepers
  <2>3. Sleepers' = {}
    <3>1. Cardinality(Sleepers \ {t}) = 0
      BY <1>3, <1>5, <1>7
    <3> QED
      BY <2>2, <3>1, SleepersChange
  <2>4. BarrierTypeOK'
    BY <1>2, <1>4, <2>1 DEF BarrierTypeOK
  <2>5. PlacesInv'
    BY <1>2, <1>4, <2>1, <2>2 DEF PlacesInv, BarrierTypeOK
  <2>6. Filling(k)'
    BY <1>2, <1>3, <1>4, <1>7, <2>1, <2>3, FS_EmptySet DEF Filling
  <2>7. Rounds!Leave(t)
    BY <1>2, <1>3, <2>1 DEF Rounds!Leave
  <2> QED
    BY <2>4, <2>5, <2>6, <2>7 DEF BarrierInv
<1> QED
  BY <1>3, <1>6, <1>7

LEMMA WakeAndReturnKeepsInv ==
  ASSUME BarrierInv, NEW t \in Parties, WakeAndReturn(t)
  PROVE  BarrierInv' /\ Rounds!Leave(t)
<1>1. /\ bpc[t] = "leave" /\ bpc' = [bpc EXCEPT ![t] = "out"]
      /\ round' = [round EXCEPT ![t] = 0]
      /\ UNCHANGED <<countSleep, countReset, CSleep, entered>>
      /\ BarrierTypeOK /\ PlacesInv
  BY DEF WakeAndReturn, ReturnFromWait, BarrierInv
<1>2. Sleepers' = Sleepers /\ t \notin Sleepers
  BY <1>1 DEF Sleepers, BarrierTypeOK
<1>3. BarrierTypeOK'
  BY <1>1 DEF BarrierTypeOK
<1>4. PlacesInv'
  BY <1>1, <1>2 DEF PlacesInv, BarrierTypeOK
<1>5. \A u \in Sleepers : round'[u] = round[u]
  BY <1>1, <1>2 DEF Sleepers, BarrierTypeOK
<1>6. \A k \in Nat : (Filling(k) => Filling(k)') /\ (Emptying(k) => Emptying(k)')
  BY <1>1, <1>2, <1>5 DEF Filling, Emptying
<1>7. Rounds!Leave(t)
  BY <1>1 DEF Rounds!Leave, PlacesInv
<1> QED
  BY <1>3, <1>4, <1>6, <1>7 DEF BarrierInv

LEMMA BarrierStep ==
  ASSUME BarrierInv, [BarrierNext]_barrierVars
  PROVE  BarrierInv' /\ [Rounds!Next]_<<entered, round>>
<1>1. CASE UNCHANGED barrierVars
  <2>1. UNCHANGED <<bpc, round, entered, countSleep, countReset, CSleep>> /\ Sleepers' = Sleepers
    BY <1>1 DEF barrierVars, Sleepers
  <2>2. BarrierTypeOK' /\ PlacesInv'
    BY <2>1 DEF BarrierInv, BarrierTypeOK, PlacesInv
  <2>3. \A k \in Nat : (Filling(k) => Filling(k)') /\ (Emptying(k) => Emptying(k)')
    BY <2>1 DEF Filling, Emptying
  <2> QED
    BY <2>1, <2>2, <2>3 DEF BarrierInv
<1>2. CASE BarrierNext
  <2>1. PICK t \in Parties : Wait(t) \/ WaitGoesOn(t)
    BY <1>2 DEF BarrierNext
  <2>2. CASE Wait(t)
    BY <2>2, EnterKeepsInv, SleepUntilResetKeepsInv DEF Wait, Rounds!Next
  <2>3. CASE RetryAfterReset(t)
    BY <2>3, EnterKeepsInv, SleepUntilResetKeepsInv DEF RetryAfterReset, Rounds!Next
  <2>4. CASE WakeAndLeave(t)
    BY <2>4, WakeAndLeaveKeepsInv DEF Rounds!Next
  <2>5. CASE WakeAndReturn(t)
    BY <2>5, WakeAndReturnKeepsInv DEF Rounds!Next
  <2> QED
    BY <2>1, <2>2, <2>3, <2>4, <2>5 DEF WaitGoesOn
<1> QED
  BY <1>1, <1>2

\* No thread returns from Barrier::Wait before n threads have entered its
\* round, although a fast thread can come back while others are still leaving
\* and both sleep on CReset.
THEOREM BarrierImplementsRounds == BarrierSpec => ImplementsBarrier
<1>1. BarrierInit => Rounds!Init
  BY DEF BarrierInit, Rounds!Init
<1>2. BarrierInv /\ [BarrierNext]_barrierVars => BarrierInv' /\ [Rounds!Next]_(Rounds!vars)
  BY BarrierStep DEF Rounds!vars
<1> QED
  BY <1>1, <1>2, BarrierInitInv, PTL DEF BarrierSpec, ImplementsBarrier, Rounds!Spec

(***************************************************************************)
(* The worker group.  A command is sent at rest; all workers receive it,   *)
(* filter and end together, since a barrier separates these phases.        *)
(***************************************************************************)
GroupPlaces ==
  {"recv", "wait", "exec", "init", "loop", "unit", "ack", "master", "done", "pool", "exited"}

\* What was sent last.
Order == IF sent <= Len(Script) THEN Script[sent] ELSE "shutdown"

\* The index of the loop that stands for row y.
IndexOf(c, y) == IF c = "gradient" THEN y - 1 ELSE y

\* A worker holds the ticket for index i.
Pending(i) == \E w \in Workers : wpc[w] = "unit" /\ i \in ticket[w]..(ticket[w] + WorkUnit - 1)

\* The dispenser starts at the first row of a filter (the gradient starts where
\* the operation before it did).
StartOf(c) == c # "gradient" => loopTickets.init = First(c)

RowDone(c, y) ==
  /\ IndexOf(c, y) >= loopTickets.init
  /\ IndexOf(c, y) < loopTickets.value /\ IndexOf(c, y) < Limit(c)
  /\ ~Pending(IndexOf(c, y))

\* The rows when all workers have ended the loop.
RowsDone(c) ==
  /\ StartOf(c)
  /\ \A y \in Rows :
       computed[y] = IF IndexOf(c, y) >= loopTickets.init /\ IndexOf(c, y) < Limit(c)
                     THEN 1 ELSE 0

GroupTypeOK ==
  /\ wpc \in [Workers -> GroupPlaces]
  /\ myCmd \in [Workers -> Cmds \cup {"idle", "shutdown"}]
  /\ ticket \in [Workers -> Nat] /\ ran \in [Workers -> Nat]
  /\ loopTickets \in [init : Nat, inc : Nat, value : Nat]
  /\ computed \in [Rows -> Nat]
  /\ waiting = {w \in Workers : wpc[w] = "wait"}

AtRest ==
  /\ mainPc = "ready" /\ cmd = "idle" /\ tickets = 0
  /\ sent \in 0..Len(Script)
  /\ \A w \in Workers : wpc[w] \in {"recv", "wait"} /\ ran[w] = sent
  /\ IF sent = 0 THEN computed = None
     ELSE RowsDone(Script[sent]) /\ \A w \in Workers : myCmd[w] = Script[sent]

Sending == mainPc \in {"send", "pool"} /\ sent \in 1..(Len(Script) + 1)

StartingAt(w) ==
  /\ ran[w] = sent - 1
  /\ \/ wpc[w] \in {"recv", "wait"}
     \/ wpc[w] \in {"exec", "init"} /\ sent <= Len(Script) /\ myCmd[w] = Order
     \/ wpc[w] = "ack" /\ sent > Len(Script) /\ myCmd[w] = Order

Starting ==
  /\ Sending /\ cmd = Order /\ tickets = Cardinality(waiting) /\ computed = None
  /\ \A w \in Workers : StartingAt(w)
  /\ wpc[0] = "init" =>
       /\ StartOf(Order)
       /\ loopTickets.inc = WorkUnit /\ loopTickets.value = loopTickets.init

FilteringAt(w) ==
  /\ wpc[w] \in {"loop", "unit", "ack"} /\ myCmd[w] = Order
  /\ ran[w] = IF wpc[w] = "ack" THEN sent ELSE sent - 1
  /\ wpc[w] = "ack" => loopTickets.value >= Limit(Order)
  /\ wpc[w] = "unit" => /\ loopTickets.init <= ticket[w]
                        /\ ticket[w] + WorkUnit <= loopTickets.value

\* Two workers never hold tickets for the same row.
Apart ==
  \A v, w \in Workers : v # w /\ wpc[v] = "unit" /\ wpc[w] = "unit" =>
     ticket[v] + WorkUnit <= ticket[w] \/ ticket[w] + WorkUnit <= ticket[v]

Filtering ==
  /\ Sending /\ cmd = Order /\ tickets = 0 /\ sent <= Len(Script)
  /\ StartOf(Order) /\ loopTickets.inc = WorkUnit
  /\ loopTickets.init <= loopTickets.value
  /\ \A w \in Workers : FilteringAt(w)
  /\ Apart
  /\ \A y \in Rows : computed[y] = IF RowDone(Order, y) THEN 1 ELSE 0

EndingAt(w) ==
  /\ wpc[w] \in {"master", "done", "pool"} /\ myCmd[w] = Order
  /\ ran[w] = IF sent > Len(Script) THEN sent - 1 ELSE sent

Ending ==
  /\ Sending /\ tickets = 0
  /\ \A w \in Workers : EndingAt(w)
  /\ \A v, w \in Workers : wpc[v] = "master" /\ wpc[w] = "master" => v = w
  /\ (\A w \in Workers : wpc[w] # "master") => cmd = "idle"
  /\ IF sent > Len(Script) THEN computed = None ELSE RowsDone(Order)

Over ==
  /\ mainPc = "joined" /\ sent = Len(Script) + 1 /\ computed = None
  /\ \A w \in Workers : wpc[w] = "exited" /\ ran[w] = sent - 1

GroupInv == GroupTypeOK /\ (AtRest \/ Starting \/ Filtering \/ Ending \/ Over)

-----------------------------------------------------------------------------
LEMMA GroupConstants ==
  /\ NWorkers \in Nat \ {0} /\ WorkUnit \in Nat \ {0} /\ Half \in Nat /\ Height \in Nat
  /\ Script \in Seq(Cmds) /\ Len(Script) \in Nat
  /\ 0 \in Workers /\ MainThread \notin Workers /\ IsFiniteSet(Workers)
  /\ "shutdown" \notin Cmds /\ "idle" \notin Cmds
<1>1. IsFiniteSet(0..(NWorkers - 1))
  BY WorkerGroupAssumption, FS_Interval
<1> QED
  BY <1>1, WorkerGroupAssumption DEF Workers, MainThread, Cmds

LEMMA OrderIs ==
  ASSUME sent \in 1..(Len(Script) + 1)
  PROVE  /\ sent <= Len(Script) => Order = Script[sent] /\ Order \in Cmds
         /\ sent > Len(Script) => Order = "shutdown"
         /\ Order # "idle"
  BY GroupConstants DEF Order

LEMMA LoopBounds ==
  ASSUME NEW c \in Cmds
  PROVE  First(c) \in Nat /\ Limit(c) \in Int
<1>1. c = "gradient" \/ c = "filterRow" \/ c = "filterColumn"
  BY DEF Cmds
<1> QED
  BY <1>1, GroupConstants DEF First, Limit

LEMMA NoneIs == None \in [Rows -> Nat] /\ \A y \in Rows : None[y] = 0
  BY DEF None

LEMMA RowsAreNat == Rows \subseteq Nat
  BY GroupConstants DEF Rows

\* The rows of a ticket are those whose index is in it and below the limit.
LEMMA UnitIs ==
  ASSUME NEW c \in Cmds, NEW from \in Nat, NEW y \in Rows
  PROVE  y \in Unit(c, from) <=>
           /\ IndexOf(c, y) \in from..(from + WorkUnit - 1)
           /\ IndexOf(c, y) < Limit(c)
<1>1. y \in Nat /\ Limit(c) \in Int /\ WorkUnit \in Nat
  BY RowsAreNat, LoopBounds, GroupConstants
<1>2. CASE c = "gradient"
  BY <1>1, <1>2 DEF Unit, RowOf, IndexOf
<1>3. CASE c # "gradient"
  BY <1>1, <1>3 DEF Unit, RowOf, IndexOf
<1> QED
  BY <1>2, <1>3

LEMMA GroupInitInv == GroupInit => GroupInv
<1> SUFFICES ASSUME GroupInit PROVE GroupInv
  OBVIOUS
<1>1. GroupTypeOK
  BY NoneIs DEF GroupInit, GroupTypeOK, GroupPlaces
<1>2. AtRest
  BY GroupConstants DEF GroupInit, AtRest
<1> QED
  BY <1>1, <1>2 DEF GroupInv

\* At rest nobody is notified in vain: who waits gets a ticket, who does not
\* sees the command.
LEMMA SendKeepsInv ==
  ASSUME GroupInv, SendInternalCmd
  PROVE  GroupInv'
<1>1. GroupTypeOK /\ AtRest
  BY DEF GroupInv, SendInternalCmd, Starting, Filtering, Ending, Over, Sending
<1>2. /\ sent \in 0..Len(Script) /\ sent' = sent + 1 /\ mainPc' = "send"
      /\ tickets' = Cardinality(waiting) /\ computed' = None
      /\ UNCHANGED <<waiting, wpc, myCmd, ticket, ran, loopTickets>>
      /\ cmd' = IF sent < Len(Script) THEN Script[sent + 1] ELSE "shutdown"
  BY <1>1 DEF AtRest, SendInternalCmd
<1>3. GroupTypeOK'
  BY <1>1, <1>2, NoneIs DEF GroupTypeOK
<1>4. sent' \in 1..(Len(Script) + 1) /\ cmd' = Order'
  BY <1>2, GroupConstants DEF Order
<1>5. \A w \in Workers : StartingAt(w)'
  BY <1>1, <1>2 DEF AtRest, StartingAt
<1>6. wpc'[0] # "init"
  BY <1>1, <1>2, GroupConstants DEF AtRest
<1>7. Starting'
  BY <1>2, <1>4, <1>5, <1>6 DEF Starting, Sending
<1> QED
  BY <1>3, <1>7 DEF GroupInv

-----------------------------------------------------------------------------
(* The workers receive the command. *)

\* Only one worker moves, and it neither joins nor leaves those who wait.
LEMMA ReceiveKeepsInv ==
  ASSUME GroupInv, NEW w \in Workers, RecvCmd(w) \/ RecvWakeup(w)
  PROVE  GroupInv'
<1>1. GroupTypeOK /\ Starting
  BY DEF GroupInv, RecvCmd, RecvWakeup, Receive, AtRest, Filtering, FilteringAt, Ending,
         EndingAt, Over
<1>2. /\ sent \in 1..(Len(Script) + 1) /\ cmd = Order /\ wpc[w] \in {"recv", "wait"}
      /\ myCmd' = [myCmd EXCEPT ![w] = Order]
      /\ wpc' = [wpc EXCEPT ![w] = IF Order = "shutdown" THEN "ack" ELSE "exec"]
      /\ UNCHANGED <<cmd, mainPc, sent, ticket, ran, loopTickets, computed>>
  BY <1>1 DEF Starting, Sending, RecvCmd, RecvWakeup, Receive, Moved
<1>3. Order' = Order /\ Order \in Cmds \cup {"shutdown"}
  BY <1>2, OrderIs DEF Order
<1>4. /\ \A u \in Workers : u # w => wpc'[u] = wpc[u] /\ myCmd'[u] = myCmd[u]
      /\ wpc'[w] = (IF Order = "shutdown" THEN "ack" ELSE "exec") /\ myCmd'[w] = Order
  BY <1>1, <1>2 DEF GroupTypeOK
<1>5. waiting' = {u \in Workers : wpc'[u] = "wait"} /\ tickets' = Cardinality(waiting')
  <2>1. waiting = {u \in Workers : wpc[u] = "wait"} /\ tickets = Cardinality(waiting)
    BY <1>1 DEF GroupTypeOK, Starting
  <2>2. CASE RecvCmd(w)
    BY <1>4, <2>1, <2>2 DEF RecvCmd
  <2>3. CASE RecvWakeup(w)
    <3>1. /\ tickets' = tickets - 1 /\ waiting' = waiting \ {w} /\ w \in waiting
      BY <2>1, <2>3 DEF RecvWakeup
    <3>2. IsFiniteSet(waiting)
      BY <2>1, GroupConstants, FS_Subset
    <3>3. Cardinality(waiting \ {w}) = Cardinality(waiting) - 1
      BY <3>1, <3>2, FS_RemoveElement
    <3> QED
      BY <1>4, <2>1, <3>1, <3>3
  <2> QED
    BY <2>2, <2>3
<1>6. GroupTypeOK'
  <2>1. myCmd' \in [Workers -> Cmds \cup {"idle", "shutdown"}]
    BY <1>1, <1>2, <1>3 DEF GroupTypeOK
  <2>2. wpc' \in [Workers -> GroupPlaces]
    BY <1>1, <1>2 DEF GroupTypeOK, GroupPlaces
  <2> QED
    BY <1>1, <1>2, <1>5, <2>1, <2>2 DEF GroupTypeOK
<1>7. Starting'
  <2>1. ASSUME NEW u \in Workers PROVE StartingAt(u)'
    <3>1. StartingAt(u)
      BY <1>1 DEF Starting
    <3>2. CASE u = w
      BY <1>2, <1>3, <1>4, <3>1, <3>2, OrderIs, GroupConstants DEF StartingAt
    <3>3. CASE u # w
      BY <1>2, <1>3, <1>4, <3>1, <3>3 DEF StartingAt
    <3> QED
      BY <3>2, <3>3
  <2>2. wpc'[0] = "init" => wpc[0] = "init"
    BY <1>4, GroupConstants
  <2> QED
    BY <1>1, <1>2, <1>3, <1>5, <2>1, <2>2 DEF Starting, Sending, StartOf
<1> QED
  BY <1>6, <1>7 DEF GroupInv

LEMMA RecvWaitKeepsInv ==
  ASSUME GroupInv, NEW w \in Workers, RecvWait(w)
  PROVE  GroupInv'
<1>1. GroupTypeOK /\ AtRest
  <2>1. ~Starting
    BY OrderIs DEF Starting, Sending, RecvWait
  <2> QED
    BY <2>1 DEF GroupInv, RecvWait, Filtering, FilteringAt, Ending, EndingAt, Over
<1>2. /\ wpc' = [wpc EXCEPT ![w] = "wait"] /\ waiting' = waiting \cup {w}
      /\ UNCHANGED <<cmd, tickets, mainPc, sent, myCmd, ticket, ran, loopTickets, computed>>
  BY DEF RecvWait, Moved
<1>3. wpc'[w] = "wait" /\ \A u \in Workers : u # w => wpc'[u] = wpc[u]
  BY <1>1, <1>2 DEF GroupTypeOK
<1>4. GroupTypeOK'
  BY <1>1, <1>2, <1>3 DEF GroupTypeOK, GroupPlaces
<1>5. AtRest'
  BY <1>1, <1>2, <1>3 DEF AtRest, RowsDone, StartOf
<1> QED
  BY <1>4, <1>5 DEF GroupInv

\* Rank 0 sets the dispenser before it comes to the barrier workInit.
LEMMA PrepareKeepsInv ==
  ASSUME GroupInv, NEW w \in Workers, Prepare(w)
  PROVE  GroupInv'
<1>1. GroupTypeOK /\ Starting /\ StartingAt(w)
  BY DEF GroupInv, Prepare, AtRest, Starting, Filtering, FilteringAt, Ending, EndingAt, Over
<1>2. /\ sent \in 1..(Len(Script) + 1) /\ sent <= Len(Script) /\ myCmd[w] = Order
      /\ Order \in Cmds
  BY <1>1, OrderIs DEF Starting, Sending, StartingAt, Prepare
<1>3. /\ wpc' = [wpc EXCEPT ![w] = "init"] /\ wpc[w] = "exec"
      /\ UNCHANGED <<cmd, waiting, tickets, mainPc, sent, myCmd, ticket, ran>>
      /\ loopTickets' = IF w = 0 THEN Reset(Order) ELSE loopTickets
      /\ computed' = None /\ Order' = Order
  BY <1>1, <1>2 DEF Prepare, Moved, Starting, Order
<1>4. wpc'[w] = "init" /\ \A u \in Workers : u # w => wpc'[u] = wpc[u]
  BY <1>1, <1>3 DEF GroupTypeOK
<1>5. /\ loopTickets \in [init : Nat, inc : Nat, value : Nat] /\ WorkUnit \in Nat
      /\ First(Order) \in Nat
  BY <1>1, <1>2, LoopBounds, GroupConstants DEF GroupTypeOK
<1>6. w = 0 => /\ loopTickets' \in [init : Nat, inc : Nat, value : Nat]
               /\ loopTickets'.inc = WorkUnit /\ loopTickets'.value = loopTickets'.init
               /\ Order # "gradient" => loopTickets'.init = First(Order)
  BY <1>3, <1>5 DEF Reset
<1>7. GroupTypeOK'
  <2>1. wpc' \in [Workers -> GroupPlaces] /\ waiting' = {u \in Workers : wpc'[u] = "wait"}
    BY <1>1, <1>3, <1>4 DEF GroupTypeOK, GroupPlaces
  <2>2. loopTickets' \in [init : Nat, inc : Nat, value : Nat]
    BY <1>3, <1>5, <1>6
  <2> QED
    BY <1>1, <1>3, <2>1, <2>2, NoneIs DEF GroupTypeOK
<1>8. Starting'
  <2>1. \A u \in Workers : StartingAt(u)'
    BY <1>1, <1>2, <1>3, <1>4 DEF Starting, StartingAt
  <2>2. wpc'[0] = "init" =>
          /\ StartOf(Order)'
          /\ loopTickets'.inc = WorkUnit /\ loopTickets'.value = loopTickets'.init
    <3>1. CASE w = 0
      BY <1>3, <1>6, <3>1 DEF StartOf
    <3>2. CASE w # 0
      <4>1. loopTickets' = loopTickets /\ wpc'[0] = wpc[0]
        BY <1>3, <1>4, <3>2, GroupConstants
      <4> QED
        BY <1>1, <1>3, <4>1 DEF Starting, StartOf
    <3> QED
      BY <3>1, <3>2
  <2> QED
    BY <1>1, <1>3, <2>1, <2>2 DEF Starting, Sending
<1> QED
  BY <1>7, <1>8 DEF GroupInv

-----------------------------------------------------------------------------
(* The rows. *)

\* When all workers are at the barrier, so is rank 0, which has set the
\* dispenser; and nobody waits for a command.
LEMMA WorkInitKeepsInv ==
  ASSUME GroupInv, WorkInit
  PROVE  GroupInv'
<1>1. \A w \in Workers : wpc[w] = "init"
  BY DEF WorkInit
<1>2. GroupTypeOK /\ Starting
  BY <1>1, GroupConstants
  DEF GroupInv, AtRest, Filtering, FilteringAt, Ending, EndingAt, Over
<1>3. /\ wpc' = [w \in Workers |-> "loop"]
      /\ UNCHANGED <<cmd, waiting, tickets, mainPc, sent, myCmd, ticket, ran,
                     loopTickets, computed>>
      /\ Order' = Order
  BY DEF WorkInit, Order
<1>4. sent <= Len(Script) /\ \A w \in Workers : myCmd[w] = Order /\ ran[w] = sent - 1
  BY <1>1, <1>2, GroupConstants DEF Starting, StartingAt
<1>5. /\ StartOf(Order)
      /\ loopTickets.inc = WorkUnit /\ loopTickets.value = loopTickets.init
  BY <1>1, <1>2, GroupConstants DEF Starting
<1>6. waiting = {} /\ tickets = 0
  BY <1>1, <1>2, FS_EmptySet DEF GroupTypeOK, Starting
<1>7. GroupTypeOK'
  BY <1>2, <1>3, <1>6 DEF GroupTypeOK, GroupPlaces
<1>8. Filtering'
  <2>1. \A w \in Workers : FilteringAt(w)'
    BY <1>3, <1>4 DEF FilteringAt
  <2>2. Apart'
    BY <1>3 DEF Apart
  <2>3. \A y \in Rows : computed'[y] = IF RowDone(Order, y)' THEN 1 ELSE 0
    <3>1. SUFFICES ASSUME NEW y \in Rows PROVE computed'[y] = 0 /\ ~RowDone(Order, y)'
      OBVIOUS
    <3>2. computed'[y] = 0
      BY <1>2, <1>3, NoneIs DEF Starting
    <3>3. loopTickets.init \in Nat /\ IndexOf(Order, y) \in Int
      BY <1>2, RowsAreNat DEF GroupTypeOK, IndexOf
    <3> QED
      BY <1>3, <1>5, <3>2, <3>3 DEF RowDone
  <2> QED
    BY <1>2, <1>3, <1>4, <1>5, <1>6, <2>1, <2>2, <2>3
    DEF Filtering, Starting, Sending, StartOf, GroupTypeOK
<1> QED
  BY <1>7, <1>8 DEF GroupInv

\* The ticket covers rows that nobody held and that come after all the others.
LEMMA GetTicketKeepsInv ==
  ASSUME GroupInv, NEW w \in Workers, GetTicket(w)
  PROVE  GroupInv'
<1>1. GroupTypeOK /\ Filtering /\ wpc[w] = "loop"
  BY DEF GroupInv, GetTicket, AtRest, Starting, StartingAt, Ending, EndingAt, Over
<1>2. /\ loopTickets \in [init : Nat, inc : Nat, value : Nat]
      /\ loopTickets.inc = WorkUnit /\ WorkUnit \in Nat \ {0}
      /\ sent \in 1..(Len(Script) + 1) /\ sent <= Len(Script) /\ Order \in Cmds
      /\ ticket \in [Workers -> Nat]
  BY <1>1, OrderIs, GroupConstants DEF GroupTypeOK, Filtering, Sending
<1>3. /\ ticket' = [ticket EXCEPT ![w] = loopTickets.value]
      /\ loopTickets' = [loopTickets EXCEPT !.value = @ + loopTickets.inc]
      /\ wpc' = [wpc EXCEPT ![w] = "unit"]
      /\ UNCHANGED <<cmd, waiting, tickets, mainPc, sent, myCmd, ran, computed>>
      /\ Order' = Order
  BY DEF GetTicket, Moved, Order
<1>4. /\ loopTickets'.init = loopTickets.init /\ loopTickets'.inc = WorkUnit
      /\ loopTickets'.value = loopTickets.value + WorkUnit
      /\ loopTickets' \in [init : Nat, inc : Nat, value : Nat]
      /\ loopTickets.value \in Nat /\ loopTickets.init \in Nat
  BY <1>2, <1>3
<1>5. /\ wpc'[w] = "unit" /\ ticket'[w] = loopTickets.value
      /\ \A u \in Workers : u # w => wpc'[u] = wpc[u] /\ ticket'[u] = ticket[u]
  BY <1>1, <1>2, <1>3 DEF GroupTypeOK
<1>6. GroupTypeOK'
  BY <1>1, <1>2, <1>3, <1>4, <1>5 DEF GroupTypeOK, GroupPlaces
<1>7. loopTickets.init <= loopTickets.value /\ loopTickets'.init <= loopTickets'.value
  BY <1>1, <1>2, <1>4 DEF Filtering
<1>8. ASSUME NEW u \in Workers PROVE FilteringAt(u)'
  <2>1. FilteringAt(u) /\ ticket[u] \in Nat /\ Limit(Order) \in Int
    BY <1>1, <1>2, LoopBounds DEF Filtering
  <2>2. CASE u = w
    BY <1>1, <1>2, <1>3, <1>4, <1>5, <1>7, <2>1, <2>2 DEF FilteringAt
  <2>3. CASE u # w
    BY <1>2, <1>3, <1>4, <1>5, <2>1, <2>3 DEF FilteringAt
  <2> QED
    BY <2>2, <2>3
<1>9. Apart'
  <2>1. SUFFICES ASSUME NEW u \in Workers, NEW v \in Workers,
                        u # v, wpc'[u] = "unit", wpc'[v] = "unit"
                 PROVE  \/ ticket'[u] + WorkUnit <= ticket'[v]
                        \/ ticket'[v] + WorkUnit <= ticket'[u]
    BY <1>3 DEF Apart
  <2>2. \A x \in Workers : x # w /\ wpc[x] = "unit" => ticket[x] + WorkUnit <= loopTickets.value
    BY <1>1 DEF Filtering, FilteringAt
  <2>3. CASE u = w \/ v = w
    BY <1>5, <2>1, <2>2, <2>3
  <2>4. CASE u # w /\ v # w
    BY <1>1, <1>5, <2>1, <2>4 DEF Filtering, Apart
  <2> QED
    BY <2>3, <2>4
<1>10. ASSUME NEW y \in Rows PROVE RowDone(Order, y)' <=> RowDone(Order, y)
  <2> DEFINE i == IndexOf(Order, y)
  <2>1. i \in Int /\ i' = i /\ Limit(Order)' = Limit(Order)
    BY <1>3, RowsAreNat DEF IndexOf, Limit
  <2>2. ASSUME i < loopTickets.value PROVE Pending(i)' <=> Pending(i)
    <3>1. ~(i \in ticket'[w]..(ticket'[w] + WorkUnit - 1))
      BY <1>2, <1>4, <1>5, <2>1, <2>2
    <3> QED
      BY <1>1, <1>3, <1>5, <2>1, <3>1 DEF Pending
  <2>3. ASSUME i >= loopTickets.value, i < loopTickets'.value PROVE Pending(i)'
    <3>1. i \in ticket'[w]..(ticket'[w] + WorkUnit - 1)
      BY <1>2, <1>4, <1>5, <2>1, <2>3
    <3> QED
      BY <1>3, <1>5, <2>1, <3>1 DEF Pending
  <2> HIDE DEF i
  <2>4. RowDone(Order, y) <=> /\ i >= loopTickets.init /\ i < loopTickets.value
                              /\ i < Limit(Order) /\ ~Pending(i)
    BY DEF RowDone, i
  <2>5. RowDone(Order, y)' <=> /\ i >= loopTickets'.init /\ i < loopTickets'.value
                               /\ i < Limit(Order) /\ ~Pending(i)'
    BY <2>1 DEF RowDone, i
  <2>6. CASE i < loopTickets.value
    BY <1>2, <1>4, <2>1, <2>2, <2>4, <2>5, <2>6
  <2>7. CASE i >= loopTickets.value
    BY <1>2, <1>4, <2>1, <2>3, <2>4, <2>5, <2>7
  <2> QED
    BY <1>4, <2>1, <2>6, <2>7
<1>11. Filtering'
  BY <1>1, <1>3, <1>4, <1>7, <1>8, <1>9, <1>10 DEF Filtering, Sending, StartOf
<1> QED
  BY <1>6, <1>11 DEF GroupInv

\* A worker computes the rows of its ticket, which nobody else computes.
LEMMA DoUnitKeepsInv ==
  ASSUME GroupInv, NEW w \in Workers, DoUnit(w)
  PROVE  GroupInv'
<1>1. GroupTypeOK /\ Filtering /\ wpc[w] = "unit" /\ FilteringAt(w)
  BY DEF GroupInv, DoUnit, AtRest, Starting, StartingAt, Filtering, Ending, EndingAt, Over
<1>2. /\ sent \in 1..(Len(Script) + 1) /\ sent <= Len(Script) /\ Order \in Cmds
      /\ myCmd[w] = Order /\ ticket[w] \in Nat /\ WorkUnit \in Nat \ {0}
      /\ loopTickets.init \in Nat /\ loopTickets.value \in Nat
      /\ loopTickets.init <= ticket[w] /\ ticket[w] + WorkUnit <= loopTickets.value
      /\ Limit(Order) \in Int
  BY <1>1, OrderIs, LoopBounds, GroupConstants DEF GroupTypeOK, Filtering, FilteringAt, Sending
<1>3. /\ computed' = [y \in Rows |-> IF y \in Unit(Order, ticket[w])
                                     THEN computed[y] + 1 ELSE computed[y]]
      /\ wpc' = [wpc EXCEPT ![w] = "loop"]
      /\ UNCHANGED <<cmd, waiting, tickets, mainPc, sent, myCmd, ticket, ran, loopTickets>>
      /\ Order' = Order
  BY <1>2 DEF DoUnit, Moved, Order
<1>4. wpc'[w] = "loop" /\ \A u \in Workers : u # w => wpc'[u] = wpc[u]
  BY <1>1, <1>3 DEF GroupTypeOK
<1>5. GroupTypeOK'
  <2>1. \A y \in Rows : computed[y] \in Nat
    BY <1>1 DEF GroupTypeOK
  <2>2. computed' \in [Rows -> Nat]
    BY <1>3, <2>1
  <2> QED
    BY <1>1, <1>3, <1>4, <2>2 DEF GroupTypeOK, GroupPlaces
<1>6. ASSUME NEW u \in Workers PROVE FilteringAt(u)'
  <2>1. FilteringAt(u) /\ Limit(Order)' = Limit(Order)
    BY <1>1, <1>3 DEF Filtering, Limit
  <2> QED
    BY <1>1, <1>3, <1>4, <2>1 DEF FilteringAt
<1>7. Apart'
  BY <1>1, <1>3, <1>4 DEF Filtering, Apart
<1>8. ASSUME NEW y \in Rows PROVE computed'[y] = IF RowDone(Order, y)' THEN 1 ELSE 0
  <2> DEFINE i == IndexOf(Order, y)
             mine == i \in ticket[w]..(ticket[w] + WorkUnit - 1)
  <2>1. i \in Int /\ i' = i /\ Limit(Order)' = Limit(Order)
    BY <1>3, RowsAreNat DEF IndexOf, Limit
  <2>2. mine => Pending(i)
    BY <1>1 DEF Pending
  <2>3. mine => ~Pending(i)'
    <3>1. SUFFICES ASSUME mine, NEW u \in Workers, wpc'[u] = "unit",
                          i \in ticket'[u]..(ticket'[u] + WorkUnit - 1)
                   PROVE  FALSE
      BY <1>3, <2>1 DEF Pending
    <3>2. /\ u # w /\ wpc[u] = "unit" /\ ticket'[u] = ticket[u] /\ ticket[u] \in Nat
      BY <1>1, <1>3, <1>4, <3>1 DEF GroupTypeOK
    <3>3. ticket[u] + WorkUnit <= ticket[w] \/ ticket[w] + WorkUnit <= ticket[u]
      BY <1>1, <3>2 DEF Filtering, Apart
    <3> QED
      BY <1>2, <2>1, <3>1, <3>2, <3>3
  <2>4. ~mine => (Pending(i)' <=> Pending(i))
    BY <1>1, <1>3, <1>4, <2>1 DEF Pending
  <2>5. y \in Unit(Order, ticket[w]) <=> mine /\ i < Limit(Order)
    BY <1>2, UnitIs
  <2>6. computed[y] = IF RowDone(Order, y) THEN 1 ELSE 0
    BY <1>1 DEF Filtering
  <2>7. mine => i >= loopTickets.init /\ i < loopTickets.value
    BY <1>2, <2>1
  <2> HIDE DEF mine, i
  <2>8. RowDone(Order, y) <=> /\ i >= loopTickets.init /\ i < loopTickets.value
                              /\ i < Limit(Order) /\ ~Pending(i)
    BY DEF RowDone, i
  <2>9. RowDone(Order, y)' <=> /\ i >= loopTickets.init /\ i < loopTickets.value
                               /\ i < Limit(Order) /\ ~Pending(i)'
    BY <1>3, <2>1 DEF RowDone, i
  <2>10. CASE mine /\ i < Limit(Order)
    <3>1. computed[y] = 0 /\ RowDone(Order, y)'
      BY <2>2, <2>3, <2>6, <2>7, <2>8, <2>9, <2>10
    <3> QED
      BY <1>3, <2>5, <2>10, <3>1
  <2>11. CASE ~(mine /\ i < Limit(Order))
    <3>1. RowDone(Order, y)' <=> RowDone(Order, y)
      BY <2>4, <2>8, <2>9, <2>11
    <3> QED
      BY <1>3, <2>5, <2>6, <2>11, <3>1
  <2> QED
    BY <2>10, <2>11
<1>9. Filtering'
  BY <1>1, <1>3, <1>6, <1>7, <1>8 DEF Filtering, Sending, StartOf
<1> QED
  BY <1>5, <1>9 DEF GroupInv

\* The ticket a worker ends with is behind the last row.
LEMMA EndLoopKeepsInv ==
  ASSUME GroupInv, NEW w \in Workers, EndLoop(w)
  PROVE  GroupInv'
<1>1. GroupTypeOK /\ Filtering /\ wpc[w] = "unit" /\ FilteringAt(w)
  BY DEF GroupInv, EndLoop, AtRest, Starting, StartingAt, Filtering, Ending, EndingAt, Over
<1>2. /\ sent \in 1..(Len(Script) + 1) /\ sent <= Len(Script) /\ Order \in Cmds
      /\ myCmd[w] = Order /\ ticket[w] \in Nat /\ WorkUnit \in Nat \ {0}
      /\ loopTickets.value \in Nat /\ ticket[w] + WorkUnit <= loopTickets.value
      /\ Limit(Order) \in Int /\ ticket[w] >= Limit(Order)
      /\ ran[w] = sent - 1 /\ sent \in Nat
  BY <1>1, OrderIs, LoopBounds, GroupConstants
  DEF GroupTypeOK, Filtering, FilteringAt, Sending, EndLoop
<1>3. /\ wpc' = [wpc EXCEPT ![w] = "ack"] /\ ran' = [ran EXCEPT ![w] = sent]
      /\ UNCHANGED <<cmd, waiting, tickets, mainPc, sent, myCmd, ticket, loopTickets, computed>>
      /\ Order' = Order
  BY <1>1, <1>2 DEF EndLoop, Moved, Order, GroupTypeOK
<1>4. /\ wpc'[w] = "ack" /\ ran'[w] = sent
      /\ \A u \in Workers : u # w => wpc'[u] = wpc[u] /\ ran'[u] = ran[u]
  BY <1>1, <1>3 DEF GroupTypeOK
<1>5. GroupTypeOK'
  BY <1>1, <1>2, <1>3, <1>4 DEF GroupTypeOK, GroupPlaces
<1>6. ASSUME NEW u \in Workers PROVE FilteringAt(u)'
  <2>1. FilteringAt(u) /\ Limit(Order)' = Limit(Order)
    BY <1>1, <1>3 DEF Filtering, Limit
  <2>2. loopTickets.value >= Limit(Order)
    BY <1>2
  <2> QED
    BY <1>2, <1>3, <1>4, <2>1, <2>2 DEF FilteringAt
<1>7. Apart'
  BY <1>1, <1>3, <1>4 DEF Filtering, Apart
<1>8. ASSUME NEW y \in Rows PROVE RowDone(Order, y)' <=> RowDone(Order, y)
  <2> DEFINE i == IndexOf(Order, y)
             mine == i \in ticket[w]..(ticket[w] + WorkUnit - 1)
  <2>1. i \in Int /\ i' = i /\ Limit(Order)' = Limit(Order)
    BY <1>3, RowsAreNat DEF IndexOf, Limit
  <2>2. mine => ~(i < Limit(Order))
    BY <1>2, <2>1
  <2>3. ~mine => (Pending(i)' <=> Pending(i))
    BY <1>1, <1>3, <1>4, <2>1 DEF Pending
  <2> HIDE DEF mine, i
  <2>4. RowDone(Order, y) <=> /\ i >= loopTickets.init /\ i < loopTickets.value
                              /\ i < Limit(Order) /\ ~Pending(i)
    BY DEF RowDone, i
  <2>5. RowDone(Order, y)' <=> /\ i >= loopTickets.init /\ i < loopTickets.value
                               /\ i < Limit(Order) /\ ~Pending(i)'
    BY <1>3, <2>1 DEF RowDone, i
  <2> QED
    BY <2>2, <2>3, <2>4, <2>5
<1>9. Filtering'
  BY <1>1, <1>3, <1>6, <1>7, <1>8 DEF Filtering, Sending, StartOf
<1> QED
  BY <1>5, <1>9 DEF GroupInv

-----------------------------------------------------------------------------
(* The end of a command. *)

\* All workers have ended the loop, so no ticket is held and the tickets go
\* beyond the last row; or all have received the shutdown.
LEMMA WorkDoneKeepsInv ==
  ASSUME GroupInv, WorkDone
  PROVE  GroupInv'
<1>1. \A w \in Workers : wpc[w] = "ack"
  BY DEF WorkDone
<1>2. PICK master \in Workers :
        wpc' = [w \in Workers |-> IF w = master THEN "master" ELSE "done"]
  BY DEF WorkDone
<1>3. /\ UNCHANGED <<cmd, waiting, tickets, mainPc, sent, myCmd, ticket, ran,
                     loopTickets, computed>>
      /\ Order' = Order
  BY DEF WorkDone, Order
<1>4. GroupTypeOK /\ (Starting \/ Filtering)
  BY <1>1, GroupConstants DEF GroupInv, AtRest, Ending, EndingAt, Over
<1>5. waiting = {} /\ Cardinality(waiting) = 0
  BY <1>1, <1>4, FS_EmptySet DEF GroupTypeOK
<1>6. GroupTypeOK'
  BY <1>2, <1>3, <1>4, <1>5 DEF GroupTypeOK, GroupPlaces
<1>7. sent \in 1..(Len(Script) + 1) /\ Sending /\ tickets = 0
  BY <1>4, <1>5 DEF Starting, Filtering, Sending
<1>8. \A w \in Workers : EndingAt(w)'
  <2>1. CASE Starting
    BY <1>1, <1>2, <1>3, <2>1 DEF Starting, StartingAt, EndingAt
  <2>2. CASE Filtering
    <3>1. ~(sent > Len(Script))
      BY <1>7, <2>2, GroupConstants DEF Filtering
    <3> QED
      BY <1>1, <1>2, <1>3, <2>2, <3>1 DEF Filtering, FilteringAt, EndingAt
  <2> QED
    BY <1>4, <2>1, <2>2
<1>9. IF sent > Len(Script) THEN computed = None ELSE RowsDone(Order)
  <2>1. CASE Starting
    BY <1>1, <1>7, <2>1, GroupConstants DEF Starting, StartingAt
  <2>2. CASE Filtering
    <3>1. Order \in Cmds /\ Limit(Order) \in Int /\ ~(sent > Len(Script))
      BY <1>7, <2>2, OrderIs, LoopBounds, GroupConstants DEF Filtering
    <3>2. loopTickets.value >= Limit(Order) /\ loopTickets.value \in Nat
      BY <1>1, <1>4, <2>2, GroupConstants DEF Filtering, FilteringAt, GroupTypeOK
    <3>3. \A i : ~Pending(i)
      BY <1>1 DEF Pending
    <3>4. ASSUME NEW y \in Rows
          PROVE  RowDone(Order, y) <=> /\ IndexOf(Order, y) >= loopTickets.init
                                       /\ IndexOf(Order, y) < Limit(Order)
      <4>1. IndexOf(Order, y) \in Int
        BY RowsAreNat DEF IndexOf
      <4> QED
        BY <3>1, <3>2, <3>3, <4>1 DEF RowDone
    <3> QED
      BY <2>2, <3>1, <3>4 DEF Filtering, RowsDone
  <2> QED
    BY <1>4, <2>1, <2>2
<1>10. Ending'
  <2>1. IF sent' > Len(Script) THEN computed' = None ELSE RowsDone(Order)'
    BY <1>3, <1>9 DEF RowsDone, StartOf, IndexOf, Limit, First
  <2>2. \A v, w \in Workers : wpc'[v] = "master" /\ wpc'[w] = "master" => v = w
    BY <1>2
  <2>3. wpc'[master] = "master"
    BY <1>2
  <2> QED
    BY <1>3, <1>7, <1>8, <2>1, <2>2, <2>3 DEF Ending, Sending
<1> QED
  BY <1>6, <1>10 DEF GroupInv

LEMMA GoIdleKeepsInv ==
  ASSUME GroupInv, NEW w \in Workers, GoIdle(w)
  PROVE  GroupInv'
<1>1. GroupTypeOK /\ Ending /\ wpc[w] = "master"
  BY DEF GroupInv, GoIdle, AtRest, Starting, StartingAt, Filtering, FilteringAt, Over
<1>2. /\ cmd' = "idle" /\ wpc' = [wpc EXCEPT ![w] = "done"]
      /\ UNCHANGED <<waiting, tickets, mainPc, sent, myCmd, ticket, ran, loopTickets, computed>>
      /\ Order' = Order
  BY DEF GoIdle, Moved, Order
<1>3. wpc'[w] = "done" /\ \A u \in Workers : u # w => wpc'[u] = wpc[u]
  BY <1>1, <1>2 DEF GroupTypeOK
<1>4. GroupTypeOK'
  BY <1>1, <1>2, <1>3 DEF GroupTypeOK, GroupPlaces
<1>5. \A u \in Workers : EndingAt(u)'
  BY <1>1, <1>2, <1>3 DEF Ending, EndingAt
<1>6. Ending'
  BY <1>1, <1>2, <1>3, <1>5 DEF Ending, Sending, RowsDone, StartOf
<1> QED
  BY <1>4, <1>6 DEF GroupInv

\* The barrier poolReadyBarrier, reached by one more thread: at the end of a
\* command it opens when all are there, and nobody is its master any more.
LEMMA PoolReadyEnds ==
  ASSUME GroupTypeOK, Ending, NEW x,
         \/ x = MainThread
         \/ x \in Workers /\ wpc[x] = "done",
         PoolReady(AtPool \cup {x}),
         UNCHANGED <<cmd, waiting, tickets, sent, myCmd, ticket, ran, loopTickets, computed>>
  PROVE  GroupInv'
<1> DEFINE here == AtPool \cup {x}
<1>1. /\ sent \in 1..(Len(Script) + 1) /\ tickets = 0 /\ mainPc \in {"send", "pool"}
      /\ \A w \in Workers : EndingAt(w)
      /\ Order' = Order
  BY DEF Ending, Sending, Order
<1>2. waiting = {} /\ \A w \in Workers : wpc[w] # "wait"
  BY <1>1 DEF EndingAt, GroupTypeOK
<1>3. \A w \in Workers : w \in here <=> wpc[w] = "pool" \/ w = x
  BY GroupConstants DEF AtPool
<1>4. CASE here = {MainThread} \cup Workers
  <2>1. /\ mainPc' = IF sent > Len(Script) THEN "joined" ELSE "ready"
        /\ wpc' = [w \in Workers |-> IF myCmd[w] = "shutdown" THEN "exited" ELSE "recv"]
    BY <1>4 DEF PoolReady
  <2>2. \A w \in Workers : wpc[w] # "master"
    BY <1>3, <1>4, GroupConstants
  <2>3. cmd = "idle"
    BY <2>2 DEF Ending
  <2>4. GroupTypeOK'
    BY <1>2, <2>1 DEF GroupTypeOK, GroupPlaces
  <2>5. CASE sent > Len(Script)
    <3>1. sent = Len(Script) + 1 /\ Order = "shutdown"
      BY <1>1, <2>5, OrderIs, GroupConstants
    <3>2. \A w \in Workers : wpc'[w] = "exited" /\ ran'[w] = sent - 1
      BY <1>1, <2>1, <2>5, <3>1 DEF EndingAt
    <3>3. Over'
      BY <2>1, <2>5, <3>1, <3>2 DEF Over, Ending
    <3> QED
      BY <2>4, <3>3 DEF GroupInv
  <2>6. CASE ~(sent > Len(Script))
    <3>1. /\ sent \in 1..Len(Script) /\ Order = Script[sent] /\ Order # "shutdown"
      BY <1>1, <2>6, OrderIs, GroupConstants
    <3>2. \A w \in Workers : wpc'[w] = "recv" /\ ran'[w] = sent /\ myCmd'[w] = Script[sent]
      BY <1>1, <2>1, <2>6, <3>1 DEF EndingAt
    <3>3. RowsDone(Script[sent])'
      BY <2>6, <3>1 DEF Ending, RowsDone, StartOf
    <3>4. AtRest'
      BY <1>1, <2>1, <2>3, <2>6, <3>1, <3>2, <3>3 DEF AtRest
    <3> QED
      BY <2>4, <3>4 DEF GroupInv
  <2> QED
    BY <2>5, <2>6
<1>5. CASE here # {MainThread} \cup Workers
  <2>1. /\ mainPc' = IF MainThread \in here THEN "pool" ELSE mainPc
        /\ wpc' = [w \in Workers |-> IF w \in here THEN "pool" ELSE wpc[w]]
    BY <1>5 DEF PoolReady
  <2>2. mainPc' \in {"send", "pool"}
    BY <1>1, <2>1
  <2>3. \A w \in Workers : \/ wpc'[w] = wpc[w]
                           \/ wpc'[w] = "pool" /\ wpc[w] # "master"
    BY <1>3, <2>1, GroupConstants
  <2>4. GroupTypeOK'
    BY <1>2, <2>1, <2>3 DEF GroupTypeOK, GroupPlaces
  <2>5. \A w \in Workers : EndingAt(w)'
    BY <1>1, <2>3 DEF EndingAt
  <2>6. Ending'
    BY <1>1, <2>2, <2>3, <2>5 DEF Ending, Sending, RowsDone, StartOf
  <2> QED
    BY <2>4, <2>6 DEF GroupInv
<1> QED
  BY <1>4, <1>5

\* The main thread may come to the barrier at any time after it has sent the
\* command.
LEMMA MainWaitsKeepsInv ==
  ASSUME GroupInv, MainWaits
  PROVE  GroupInv'
<1>1. /\ mainPc = "send" /\ PoolReady(AtPool \cup {MainThread})
      /\ UNCHANGED <<cmd, waiting, tickets, sent, myCmd, ticket, ran, loopTickets, computed>>
  BY DEF MainWaits
<1>2. GroupTypeOK /\ (Starting \/ Filtering \/ Ending)
  BY <1>1 DEF GroupInv, AtRest, Over
<1>3. CASE Ending
  BY <1>1, <1>2, <1>3, PoolReadyEnds
<1>4. CASE Starting \/ Filtering
  <2>1. \A w \in Workers : wpc[w] # "pool"
    BY <1>4 DEF Starting, StartingAt, Filtering, FilteringAt
  <2>2. AtPool = {}
    BY <1>1, <2>1 DEF AtPool
  <2>3. mainPc' = "pool" /\ wpc' = [w \in Workers |-> wpc[w]]
    BY <1>1, <2>2, GroupConstants DEF PoolReady
  <2>4. wpc' = wpc /\ Order' = Order
    BY <1>1, <1>2, <2>3 DEF GroupTypeOK, Order
  <2>5. GroupTypeOK'
    BY <1>1, <1>2, <2>4 DEF GroupTypeOK
  <2>6. CASE Starting
    BY <1>1, <2>3, <2>4, <2>5, <2>6 DEF Starting, StartingAt, Sending, StartOf, GroupInv
  <2>7. CASE Filtering
    <3>1. \A y \in Rows : RowDone(Order, y)' <=> RowDone(Order, y)
      BY <1>1, <2>4 DEF RowDone, Pending
    <3>2. Apart' /\ \A w \in Workers : FilteringAt(w)'
      BY <1>1, <2>4, <2>7 DEF Filtering, FilteringAt, Apart
    <3> QED
      BY <1>1, <2>3, <2>4, <2>5, <2>7, <3>1, <3>2 DEF Filtering, Sending, StartOf, GroupInv
  <2> QED
    BY <1>4, <2>6, <2>7
<1> QED
  BY <1>2, <1>3, <1>4

LEMMA WorkerWaitsKeepsInv ==
  ASSUME GroupInv, NEW w \in Workers, WorkerWaits(w)
  PROVE  GroupInv'
<1>1. /\ wpc[w] = "done" /\ PoolReady(AtPool \cup {w})
      /\ UNCHANGED <<cmd, waiting, tickets, sent, myCmd, ticket, ran, loopTickets, computed>>
  BY DEF WorkerWaits
<1>2. GroupTypeOK /\ Ending
  BY <1>1 DEF GroupInv, AtRest, Starting, StartingAt, Filtering, FilteringAt, Over
<1> QED
  BY <1>1, <1>2, PoolReadyEnds

LEMMA GroupInvariance == GroupSpec => []GroupInv
<1>1. GroupInv /\ [GroupNext]_workerVars => GroupInv'
  <2> SUFFICES ASSUME GroupInv, [GroupNext]_workerVars PROVE GroupInv'
    OBVIOUS
  <2>1. CASE UNCHANGED workerVars
    <3>1. /\ UNCHANGED <<cmd, waiting, tickets, mainPc, sent, wpc, myCmd, ticket, ran,
                         loopTickets, computed>>
          /\ Order' = Order
      BY <2>1 DEF workerVars, Order
    <3>2. GroupTypeOK' = GroupTypeOK /\ AtRest' = AtRest /\ Over' = Over
      BY <3>1 DEF GroupTypeOK, AtRest, Over, RowsDone, StartOf
    <3>3. Starting' = Starting /\ Ending' = Ending
      BY <3>1 DEF Starting, StartingAt, Ending, EndingAt, Sending, RowsDone, StartOf
    <3>4. Filtering' = Filtering
      BY <3>1 DEF Filtering, FilteringAt, Sending, StartOf, Apart, RowDone, Pending
    <3> QED
      BY <3>2, <3>3, <3>4 DEF GroupInv
  <2>2. CASE Main
    BY <2>2, SendKeepsInv, MainWaitsKeepsInv DEF Main
  <2>3. CASE \E w \in Workers : Worker(w)
    BY <2>3, ReceiveKeepsInv, RecvWaitKeepsInv, PrepareKeepsInv, GetTicketKeepsInv,
       DoUnitKeepsInv, EndLoopKeepsInv, GoIdleKeepsInv, WorkerWaitsKeepsInv DEF Worker
  <2>4. CASE WorkInit \/ WorkDone
    BY <2>4, WorkInitKeepsInv, WorkDoneKeepsInv
  <2> QED
    BY <2>1, <2>2, <2>3, <2>4 DEF GroupNext
<1> QED
  BY <1>1, GroupInitInv, PTL DEF GroupSpec

\* No worker misses a command or takes one twice, and SendCmd returns when all
\* have carried it out, however the main thread and the workers come to
\* poolReadyBarrier.
THEOREM CommandsInStep == GroupSpec => []WorkersInStep
<1>1. GroupInv => WorkersInStep
  <2> SUFFICES ASSUME GroupInv PROVE WorkersInStep
    OBVIOUS
  <2>1. \A w \in Workers : ran[w] \in {sent - 1, sent}
    BY DEF GroupInv, AtRest, Starting, StartingAt, Filtering, FilteringAt, Ending, EndingAt, Over
  <2>2. ASSUME Returned PROVE \A w \in Workers : ran[w] = sent /\ myCmd[w] = Script[sent]
    <3>1. AtRest /\ sent # 0
      BY <2>2, GroupConstants
      DEF GroupInv, Returned, AtRest, Starting, Filtering, Ending, Over, Sending
    <3> QED
      BY <3>1 DEF AtRest
  <2> QED
    BY <2>1, <2>2 DEF WorkersInStep
<1> QED
  BY <1>1, GroupInvariance, PTL

\* The rows of a filter are dealt out completely and none twice, for any size
\* of the image, of the kernel and of a ticket (TrackingModelPthread::Exec).
THEOREM RowsDealtOnce == GroupSpec => []RowsOnce
<1>1. GroupInv => RowsOnce
  <2> SUFFICES ASSUME GroupInv PROVE RowsOnce
    OBVIOUS
  <2>1. ASSUME NEW y \in Rows PROVE computed[y] <= 1
    <3>1. computed[y] \in {0, 1}
      BY NoneIs DEF GroupInv, AtRest, Starting, Filtering, Ending, Over, RowsDone
    <3> QED
      BY <3>1
  <2>2. ASSUME Returned, Script[sent] # "gradient", NEW y \in RowsOf(Script[sent])
        PROVE  computed[y] = 1
    <3>1. AtRest /\ sent \in 1..Len(Script)
      BY <2>2, GroupConstants
      DEF GroupInv, Returned, AtRest, Starting, Filtering, Ending, Over, Sending
    <3>2. RowsDone(Script[sent]) /\ Script[sent] \in {"filterRow", "filterColumn"}
      BY <2>2, <3>1, GroupConstants DEF AtRest, Cmds
    <3>3. /\ y \in Rows /\ y \in Nat /\ IndexOf(Script[sent], y) = y
          /\ y >= First(Script[sent]) /\ y < Limit(Script[sent])
      BY <2>2, <3>2, GroupConstants DEF RowsOf, Rows, IndexOf, First, Limit
    <3> QED
      BY <2>2, <3>2, <3>3 DEF RowsDone, StartOf
  <2> QED
    BY <2>1, <2>2 DEF RowsOnce
<1> QED
  BY <1>1, GroupInvariance, PTL

=============================================================================
