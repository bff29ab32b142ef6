----------------------------- MODULE RingBuffer -----------------------------
(***************************************************************************)
(* The ring buffer of dedup (dedup/src/queue.h): an array with one element *)
(* more than the capacity, so that head = tail means empty and nothing     *)
(* else.  Its users hold the queue's mutex or own the buffer, so one       *)
(* insert or remove is one step; a call that returns NULL or -1 changes    *)
(* nothing and is left out.                                                *)
(***************************************************************************)
EXTENDS Integers, Sequences

CONSTANTS Elements,  \* what may be stored; pointers in the code
          Capacity   \* the argument of ringbuffer_init

ASSUME RingBufferAssumption == Elements # {} /\ Capacity \in Nat \ {0}

VARIABLES data, head, tail,
          got         \* history: the element the last remove returned

ringVars == <<data, head, tail, got>>

size == Capacity + 1

(* ringbuffer_init; the array is not initialised. *)
ringbuffer_init ==
  /\ data \in [0..(size - 1) -> Elements]
  /\ head = 0
  /\ tail = 0
  /\ got \in Elements

ringbuffer_isEmpty == tail = head

\* Faulty variant: no element is kept free.
isFullNever == FALSE

ringbuffer_isFull == head = (tail - 1 + size) % size

ringbuffer_insert(x) ==
  /\ ~ringbuffer_isFull
  /\ data' = [data EXCEPT ![head] = x]
  /\ head' = IF head + 1 = size THEN 0 ELSE head + 1
  /\ UNCHANGED <<tail, got>>

ringbuffer_remove ==
  /\ ~ringbuffer_isEmpty
  /\ got' = data[tail]
  /\ tail' = IF tail + 1 >= size THEN 0 ELSE tail + 1
  /\ UNCHANGED <<data, head>>

RingNext == (\E x \in Elements : ringbuffer_insert(x)) \/ ringbuffer_remove

RingSpec == ringbuffer_init /\ [][RingNext]_ringVars

-----------------------------------------------------------------------------
RingTypeOK ==
  /\ data \in [0..(size - 1) -> Elements]
  /\ head \in 0..(size - 1)
  /\ tail \in 0..(size - 1)
  /\ got \in Elements

\* How many elements there are from tail up to head, around the end.
Count == IF tail <= head THEN head - tail ELSE head + size - tail

\* The index i places after tail.
Index(i) == IF tail + i < size THEN tail + i ELSE tail + i - size

Contents == [i \in 1..Count |-> data[Index(i - 1)]]

Fifo == INSTANCE BoundedFifo WITH contents <- Contents

\* Elements come out in the order they went in, each once; Capacity elements
\* fit, and not one more.
ImplementsFifo == Fifo!Spec

\* The buffer is called full exactly when Capacity elements are in it.
FullAtCapacity == ringbuffer_isFull <=> Count = Capacity
=============================================================================
