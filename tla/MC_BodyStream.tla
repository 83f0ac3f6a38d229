--------------------------- MODULE MC_BodyStream ---------------------------
(* Small instances of BodyStream for TLC. *)
EXTENDS BodyStream, TLC

CONSTANTS p1, p2, r1, r2

OneProducer == {p1}
TwoProducers == {p1, p2}
OneReader == {r1}
TwoReaders == {r1, r2}

\* The tasks of one side are interchangeable.  Sound for safety properties only.
Symmetry == Permutations(Producers) \cup Permutations(Readers)
=============================================================================
