-------------------------- MODULE MCCollectionJobs --------------------------
(* Constants of CollectionJobs for model checking. *)
EXTENDS CollectionJobs, TLC

\* Job ids are interchangeable.
SymmetricJobs == Permutations(Jobs)
=============================================================================
