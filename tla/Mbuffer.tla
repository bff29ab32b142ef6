------------------------------- MODULE Mbuffer -------------------------------
(***************************************************************************)
(* The reference-counted memory buffers of dedup (dedup/src/mbuffer.c).    *)
(*                                                                         *)
(* A handle (mbuffer_t) is a view of a block of memory; mbuffer_split and  *)
(* mbuffer_clone make further handles for the same block, and the handles  *)
(* travel to different threads of the pipeline.  The block's control block *)
(* (mcb_t) counts them; whoever drops the last handle frees block and mcb. *)
(* The model follows one block.  Updating the counter under the lock is    *)
(* one step; what mbuffer_free does after the unlock is a step of its own. *)
(* A pointer is its offset from the start of the block, mcb->ptr.          *)
(***************************************************************************)
EXTENDS Integers, FiniteSets

CONSTANTS Handles,  \* handles that may come to refer to the block
          First,    \* the handle mbuffer_create initialises
          MaxSize   \* bound on the size of the block

ASSUME MbufferAssumption ==
  /\ IsFiniteSet(Handles)
  /\ First \in Handles
  /\ MaxSize \in Nat \ {0}

VARIABLES count,    \* mcb->i
          live,     \* handles that refer to the block
          ptr, n,   \* per handle: where its view starts, and its length
          block,    \* how many bytes are allocated at mcb->ptr
          stale,    \* handles that were live when realloc moved the block away
          dropped,  \* handles whose mbuffer_free has decremented the counter
          ref,      \* per handle: the local variable ref of mbuffer_free
          freed     \* how often block and mcb were given to free()

bufferVars == <<count, live, ptr, n, block, stale, dropped, ref, freed>>

views == <<ptr, n, block, stale>>

Unused == Handles \ (live \cup dropped)

(* The thread that has the first handle makes the block. *)
mbuffer_create ==
  /\ count = 1
  /\ live = {First}
  /\ ptr = [h \in Handles |-> 0]
  /\ block \in 1..MaxSize
  /\ n = [h \in Handles |-> IF h = First THEN block ELSE 0]
  /\ stale = {} /\ dropped = {}
  /\ ref = [h \in Handles |-> 1]
  /\ freed = 0

(* mbuffer_split: m1 keeps the front, the new handle m2 gets the back. *)
mbuffer_split(m1, m2, split) ==
  /\ m1 \in live /\ m2 \in Unused
  /\ split < n[m1]
  /\ count' = count + 1
  /\ live' = live \cup {m2}
  /\ ptr' = [ptr EXCEPT ![m2] = ptr[m1] + split]
  /\ n' = [n EXCEPT ![m2] = n[m1] - split, ![m1] = split]
  /\ UNCHANGED <<block, stale, dropped, ref, freed>>

(* mbuffer_clone: the new handle is a copy of m. *)
mbuffer_clone(m, temp) ==
  /\ m \in live /\ temp \in Unused
  /\ count' = count + 1
  /\ live' = live \cup {temp}
  /\ ptr' = [ptr EXCEPT ![temp] = ptr[m]]
  /\ n' = [n EXCEPT ![temp] = n[m]]
  /\ UNCHANGED <<block, stale, dropped, ref, freed>>

(* mbuffer_free up to the unlock: decrement and remember the result. *)
DropRef(m) ==
  /\ m \in live
  /\ count' = count - 1
  /\ live' = live \ {m}
  /\ dropped' = dropped \cup {m}
  /\ ref' = [ref EXCEPT ![m] = count']
  /\ UNCHANGED views /\ UNCHANGED freed

\* Faulty variants of the rest of mbuffer_free: look at the counter again
\* after the unlock; never free.
ReleaseByCounter(m) ==
  /\ m \in dropped
  /\ dropped' = dropped \ {m}
  /\ freed' = IF count = 0 THEN freed + 1 ELSE freed
  /\ UNCHANGED views /\ UNCHANGED <<count, live, ref>>

ReleaseOneEarly(m) ==
  /\ m \in dropped
  /\ dropped' = dropped \ {m}
  /\ freed' = IF ref[m] <= 1 THEN freed + 1 ELSE freed
  /\ UNCHANGED views /\ UNCHANGED <<count, live, ref>>

(* mbuffer_free after the unlock: free if the remembered count was 0. *)
FreeIfLast(m) ==
  /\ m \in dropped
  /\ dropped' = dropped \ {m}
  /\ freed' = IF ref[m] = 0 THEN freed + 1 ELSE freed
  /\ UNCHANGED views /\ UNCHANGED <<count, live, ref>>

\* Faulty variant: only the handle's own pointer is looked at.
ReallocShared(m, size) ==
  /\ m \in live
  /\ ptr[m] = 0
  /\ n' = [n EXCEPT ![m] = size]
  /\ block' = size
  /\ stale' = stale \cup (live \ {m})
  /\ UNCHANGED <<count, live, ptr, dropped, ref, freed>>

(* mbuffer_realloc succeeds only for the one handle, and only if its view  *)
(* starts where the block starts; m gets the block's new address.          *)
mbuffer_realloc(m, size) ==
  /\ m \in live
  /\ count <= 1
  /\ ptr[m] = 0
  /\ n' = [n EXCEPT ![m] = size]
  /\ block' = size
  /\ stale' = stale \cup (live \ {m})
  /\ UNCHANGED <<count, live, ptr, dropped, ref, freed>>

(* No handle is left and every mbuffer_free has returned. *)
Gone == live = {} /\ dropped = {} /\ UNCHANGED bufferVars

BufferNext ==
  \/ \E m1, m2 \in Handles, split \in 1..MaxSize : mbuffer_split(m1, m2, split)
  \/ \E m, temp \in Handles : mbuffer_clone(m, temp)
  \/ \E m \in Handles : DropRef(m) \/ FreeIfLast(m)
  \/ \E m \in Handles, size \in 1..MaxSize : mbuffer_realloc(m, size)
  \/ Gone

BufferSpec == mbuffer_create /\ [][BufferNext]_bufferVars

-----------------------------------------------------------------------------
BufferTypeOK ==
  /\ count \in Nat
  /\ live \subseteq Handles
  /\ dropped \subseteq Handles
  /\ stale \subseteq Handles
  /\ ptr \in [Handles -> Nat]
  /\ n \in [Handles -> Nat]
  /\ block \in 1..MaxSize
  /\ ref \in [Handles -> Nat]
  /\ freed \in Nat

\* No handle outlives the memory it views: block and mcb are freed only when
\* no handle refers to them any more, although mbuffer_free decides after
\* the unlock, with a count another thread may have changed meanwhile.
NoUseAfterFree == freed > 0 => live = {}

\* Freed exactly once: no double free by two threads that drop the last two
\* handles at the same time, and no leak.
FreedOnce ==
  /\ freed <= 1
  /\ live = {} /\ dropped = {} => freed = 1

\* Every live handle views bytes of the block where it is now: no handle is
\* left with an address realloc has freed, and no view reaches over the end.
ViewsInBounds ==
  \A h \in live : h \notin stale /\ ptr[h] + n[h] <= block
=============================================================================
