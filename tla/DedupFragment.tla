---------------------------- MODULE DedupFragment ----------------------------
(***************************************************************************)
(* How dedup cuts its input into chunks (dedup/src/encoder.c): Fragment    *)
(* reads the file block by block and cuts coarse chunks, FragmentRefine    *)
(* cuts each of them into fine chunks and numbers them.                    *)
(*                                                                         *)
(* A chunk is the interval lo..hi-1 of input positions it holds.  rabinseg *)
(* returns the offset of an anchor, or the length when there is none; the  *)
(* anchors depend on the data, so any offset from 1 on may come back.      *)
(***************************************************************************)
EXTENDS Integers, Sequences

CONSTANTS MaxLen,      \* bound: the input has at most this many bytes
          MAXBUF,      \* bytes read into one buffer
          ANCHOR_JUMP, \* no coarse anchor is looked for before this offset
          NULL         \* no chunk

ASSUME FragmentAssumption ==
  /\ MaxLen \in Nat
  /\ MAXBUF \in Nat \ {0}
  /\ ANCHOR_JUMP \in Nat

CoarseChunk == [l1num : Nat, lo : Nat, hi : Nat]

ASSUME NullIsNoChunk == NULL \notin CoarseChunk

VARIABLES length,      \* length of the input file
          seek,        \* bytes read so far
          chunk,       \* Fragment's current chunk
          temp,        \* the part left over for the next iteration
          anchorcount, \* next L1 number
          coarse,      \* coarse chunks sent to FragmentRefine
          pc,          \* Fragment: reading, splitting or done
          part,        \* FragmentRefine's current chunk
          chcount,     \* next L2 number
          fine         \* fine chunks, in the order they were sent

cuttingVars == <<length, seek, chunk, temp, anchorcount, coarse, pc, part, chcount, fine>>

fragmentVars == <<seek, chunk, temp, anchorcount, pc>>

Length(c) == c.hi - c.lo

rabinseg(n) == 1..n

CuttingInit ==
  /\ length \in 0..MaxLen
  /\ seek = 0 /\ chunk = NULL /\ temp = NULL /\ anchorcount = 0
  /\ coarse = << >> /\ pc = "read"
  /\ part = NULL /\ chcount = 0 /\ fine = << >>

-----------------------------------------------------------------------------
BytesRead == IF MAXBUF <= length - seek THEN MAXBUF ELSE length - seek

\* Faulty variant: a fresh L1 number for an extended buffer.
ExtendedRenumbered ==
  IF temp # NULL
  THEN [l1num |-> anchorcount, lo |-> temp.lo, hi |-> seek + BytesRead]
  ELSE [l1num |-> anchorcount, lo |-> seek, hi |-> seek + BytesRead]

\* The new buffer: what was left over, extended by what can be read.
Extended ==
  IF temp # NULL
  THEN [l1num |-> temp.l1num, lo |-> temp.lo, hi |-> seek + BytesRead]
  ELSE [l1num |-> anchorcount, lo |-> seek, hi |-> seek + BytesRead]

(* Faulty variant: the stub left at the end of the file is not sent. *)
ReadLosesStub ==
  /\ pc = "read"
  /\ seek' = seek + BytesRead
  /\ temp' = NULL
  /\ anchorcount' = IF temp = NULL THEN anchorcount + 1 ELSE anchorcount
  /\ chunk' = IF BytesRead > 0 THEN Extended ELSE NULL
  /\ pc' = IF BytesRead > 0 THEN "split" ELSE "done"
  /\ UNCHANGED <<length, coarse, part, chcount, fine>>

(* One iteration of the read loop up to the splitting of the buffer. *)
Read ==
  /\ pc = "read"
  /\ seek' = seek + BytesRead
  /\ temp' = NULL
  /\ anchorcount' = IF temp = NULL THEN anchorcount + 1 ELSE anchorcount
  /\ IF BytesRead > 0
     THEN /\ chunk' = Extended
          /\ pc' = "split"
          /\ UNCHANGED coarse
     ELSE /\ chunk' = NULL
          /\ pc' = "done"
          /\ coarse' = IF temp = NULL THEN coarse ELSE Append(coarse, Extended)
  /\ UNCHANGED <<length, part, chcount, fine>>

(* Cut off a coarse chunk and send it. *)
CutOff(at) ==
  /\ coarse' = Append(coarse, [chunk EXCEPT !.hi = at])
  /\ chunk' = [l1num |-> anchorcount, lo |-> at, hi |-> chunk.hi]
  /\ anchorcount' = anchorcount + 1
  /\ UNCHANGED <<temp, pc>>

(* No anchor, or not long enough for one: keep all of it for the next read. *)
KeepRest ==
  /\ temp' = chunk
  /\ chunk' = NULL
  /\ pc' = "read"
  /\ UNCHANGED <<anchorcount, coarse>>

Split ==
  /\ pc = "split"
  /\ IF ANCHOR_JUMP < Length(chunk)
     THEN \E offset \in rabinseg(Length(chunk) - ANCHOR_JUMP) :
            IF offset + ANCHOR_JUMP < Length(chunk)
            THEN CutOff(chunk.lo + offset + ANCHOR_JUMP)
            ELSE KeepRest
     ELSE KeepRest
  /\ UNCHANGED <<length, seek, part, chcount, fine>>

-----------------------------------------------------------------------------
(* FragmentRefine takes a coarse chunk from its queue. *)
TakeCoarse ==
  /\ part = NULL
  /\ coarse # << >>
  /\ part' = Head(coarse)
  /\ coarse' = Tail(coarse)
  /\ chcount' = 0
  /\ UNCHANGED <<length, seek, chunk, temp, anchorcount, pc, fine>>

FineChunk(lo, hi, last) ==
  [l1num |-> part.l1num, l2num |-> chcount, isLastL2Chunk |-> last,
   lo |-> lo, hi |-> hi]

(* Cut the next fine chunk off, or send the rest. *)
RefineCoarse ==
  /\ part # NULL
  /\ \E offset \in rabinseg(Length(part)) :
       LET at == part.lo + offset
       IN  IF at < part.hi
           THEN /\ fine' = Append(fine, FineChunk(part.lo, at, FALSE))
                /\ part' = [part EXCEPT !.lo = at]
           ELSE /\ fine' = Append(fine, FineChunk(part.lo, part.hi, TRUE))
                /\ part' = NULL
  /\ chcount' = chcount + 1
  /\ UNCHANGED <<length, coarse>> /\ UNCHANGED fragmentVars

CuttingFinished == pc = "done" /\ coarse = << >> /\ part = NULL

CuttingDone == CuttingFinished /\ UNCHANGED cuttingVars

CuttingNext == Read \/ Split \/ TakeCoarse \/ RefineCoarse \/ CuttingDone

\* Both threads keep running.
CuttingSpec ==
  /\ CuttingInit /\ [][CuttingNext]_cuttingVars
  /\ WF_cuttingVars(Read \/ Split)
  /\ WF_cuttingVars(TakeCoarse \/ RefineCoarse)

-----------------------------------------------------------------------------
\* The sequence number Reorder waits for after chunk c.
Expected(c) ==
  IF c.isLastL2Chunk THEN <<c.l1num + 1, 0>> ELSE <<c.l1num, c.l2num + 1>>

\* The fine chunks tile the input from its start, no byte twice and none
\* left out, and carry exactly the sequence numbers Reorder will wait for:
\* (0,0), then the successor of the one before.
FragmentTilesInput ==
  \A i \in 1..Len(fine) :
     /\ fine[i].lo < fine[i].hi
     /\ fine[i].lo = IF i = 1 THEN 0 ELSE fine[i - 1].hi
     /\ <<fine[i].l1num, fine[i].l2num>> =
           IF i = 1 THEN <<0, 0>> ELSE Expected(fine[i - 1])

\* The read loop has come to its end with every byte of the file in a chunk,
\* whether the file ends within a block, at a block boundary, or before the
\* first anchor.
InputCut ==
  /\ CuttingFinished
  /\ length = 0 => fine = << >>
  /\ length > 0 => /\ fine # << >>
                   /\ fine[Len(fine)].hi = length
                   /\ fine[Len(fine)].isLastL2Chunk
=============================================================================
