---------------------------- MODULE DedupArchive ----------------------------
(***************************************************************************)
(* What dedup promises, whatever its parallel runtime: the decoder         *)
(* (dedup/src/decoder.c), run on the output file, gives back the input,    *)
(* chunk by chunk and in order.                                            *)
(***************************************************************************)
EXTENDS Integers, Sequences

CONSTANT Stream       \* the contents of the input's chunks, in input order

VARIABLE restored     \* what decoding the file written so far gives back

Init == restored = << >>

Restore ==
  /\ Len(restored) < Len(Stream)
  /\ restored' = Append(restored, Stream[Len(restored) + 1])

Next == Restore

Spec == Init /\ [][Next]_restored

FairSpec == Spec /\ WF_restored(Restore)
=============================================================================
