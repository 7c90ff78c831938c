------------------------ MODULE MCIdempotentProducer ------------------------
(***************************************************************************)
(* Instances of IdempotentProducer for TLC; the .cfg files name the        *)
(* partitions, the brokers, the kinds of fault and the bounds.             *)
(***************************************************************************)
EXTENDS IdempotentProducer

\* Partitions, and brokers, are interchangeable.
Symmetry == Permutations(Partitions) \cup Permutations(Brokers)
=============================================================================
