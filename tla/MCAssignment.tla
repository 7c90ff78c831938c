---------------------------- MODULE MCAssignment ----------------------------
(***************************************************************************)
(* Instances of Assignment for TLC; the .cfg files name the partitions,    *)
(* the features and the bounds.                                            *)
(***************************************************************************)
EXTENDS Assignment

\* Partitions are interchangeable.
AssignmentSymmetry == Permutations(Partitions)

\* The start offsets the application passes: INVALID stands for "not given".
NotGiven == {INVALID}
=============================================================================
