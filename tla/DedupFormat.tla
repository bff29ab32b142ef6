----------------------------- MODULE DedupFormat -----------------------------
(***************************************************************************)
(* The records of a dedup archive and how decoder.c reads them.  A chunk's *)
(* data and its SHA1 sum are both abstracted to its content: the sum is    *)
(* assumed to identify the data, as hashtable lookups in the code do.      *)
(***************************************************************************)
EXTENDS Integers, Sequences

Data(content)        == [type |-> "TYPE_COMPRESS", content |-> content]
Fingerprint(content) == [type |-> "TYPE_FINGERPRINT", content |-> content]

\* Decode stops with EXIT_TRACE at a fingerprint whose data it has not seen.
Resolvable(file, i) ==
  file[i].type = "TYPE_FINGERPRINT" =>
     \E j \in 1..(i - 1) : file[j] = Data(file[i].content)

\* The contents Decode writes out before it stops.
Decode(file) ==
  LET good == {n \in 0..Len(file) : \A i \in 1..n : Resolvable(file, i)}
      last == CHOOSE n \in good : \A m \in good : m <= n
  IN  [i \in 1..last |-> file[i].content]

\* The archive is deduplicated: the data of a content is stored at most once.
StoredOnce(file) ==
  \A i, j \in 1..Len(file) :
     file[i].type = "TYPE_COMPRESS" /\ file[i] = file[j] => i = j
=============================================================================
