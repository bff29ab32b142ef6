----------------------------- MODULE DedupSerial -----------------------------
(***************************************************************************)
(* The serial version of dedup's encoder: SerialIntegratedPipeline         *)
(* (dedup/src/encoder.c) cuts the input straight into fine chunks and      *)
(* deduplicates, compresses and writes each of them before it goes on.     *)
(*                                                                         *)
(* A buffer is the sequence of bytes it holds; rabinseg may find an anchor *)
(* anywhere, except at the very beginning.                                 *)
(***************************************************************************)
EXTENDS Integers, Sequences, DedupFormat

LOCAL INSTANCE SequencesExt

CONSTANTS Bytes,   \* the values a byte of the input can have
          MaxLen,  \* bound: the input has at most this many bytes
          MAXBUF   \* bytes read into one buffer

SerialAssumption == MaxLen \in Nat /\ MAXBUF \in Nat \ {0}

VARIABLES input,  \* contents of the input file
          seek,   \* bytes read so far
          chunk,  \* the buffer being split
          temp,   \* what is left over for the next read, << >> if nothing
          cache,  \* contents of the chunks in the hash table
          file,   \* the output file
          pc      \* reading, splitting or done

vars == <<input, seek, chunk, temp, cache, file, pc>>

FirstBytes(s, n) == SubSeq(s, 1, n)
RestAfter(s, n)  == SubSeq(s, n + 1, Len(s))

rabinseg(s) == 1..Len(s)

Init ==
  /\ input \in BoundedSeq(Bytes, MaxLen)
  /\ seek = 0
  /\ chunk = << >> /\ temp = << >>
  /\ cache = {}
  /\ file = << >>
  /\ pc = "read"

(* sub_Deduplicate, sub_Compress if unique, write_chunk_to_file. *)
Archive(s) ==
  /\ file' = Append(file, IF s \in cache THEN Fingerprint(s) ELSE Data(s))
  /\ cache' = cache \cup {s}

Available == SubSeq(input, seek + 1, IF MAXBUF <= Len(input) - seek
                                     THEN seek + MAXBUF ELSE Len(input))

(* One iteration of the read loop, up to the splitting.  Without new data   *)
(* the left-over is archived as the last chunk.                            *)
Read ==
  /\ pc = "read"
  /\ seek' = seek + Len(Available)
  /\ temp' = << >>
  /\ IF Available # << >>
     THEN /\ chunk' = temp \o Available
          /\ pc' = "split"
          /\ UNCHANGED <<cache, file>>
     ELSE /\ pc' = "done"
          /\ UNCHANGED chunk
          /\ IF temp = << >> THEN UNCHANGED <<cache, file>> ELSE Archive(temp)
  /\ UNCHANGED input

(* An anchor inside the buffer: archive what is before it. *)
SplitAt(offset) ==
  /\ offset < Len(chunk)
  /\ Archive(FirstBytes(chunk, offset))
  /\ chunk' = RestAfter(chunk, offset)
  /\ UNCHANGED <<temp, pc>>

(* No anchor, or one at the end of the buffer: read more first. *)
KeepAll(offset) ==
  /\ offset = Len(chunk)
  /\ temp' = chunk
  /\ chunk' = << >>
  /\ pc' = "read"
  /\ UNCHANGED <<cache, file>>

Split ==
  /\ pc = "split"
  /\ \E offset \in rabinseg(chunk) : SplitAt(offset) \/ KeepAll(offset)
  /\ UNCHANGED <<input, seek>>

Done == pc = "done" /\ UNCHANGED vars

Next == Read \/ Split \/ Done

Spec == Init /\ [][Next]_vars /\ WF_vars(Read \/ Split)

-----------------------------------------------------------------------------
\* What the decoder makes of the file written so far.
Restored == FlattenSeq(Decode(file))

\* The program has returned with a file from which the whole input can be
\* restored: nothing is lost at a block boundary, and no fingerprint stands for
\* data that is not in the file.
Restorable == pc = "done" /\ Restored = input
=============================================================================
