--------------------------- MODULE MCDedupPipeline ---------------------------
(* Instances of DedupPipeline for TLC. *)
EXTENDS DedupPipeline

CONSTANTS a, b

\* The second chunk has the contents of the first, in the other order.
InputFour == << <<a, b>>, <<b, a>> >>

\* Many duplicates of one original.
InputDup == << <<a>>, <<a, a, a, a>> >>
=============================================================================
