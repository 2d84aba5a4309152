-------------------------- MODULE MCVersionedStore --------------------------
(* Small instances of VersionedStore for TLC. *)
EXTENDS VersionedStore, TLC

\* Calls are interchangeable: each takes its mutation in Init from the same
\* set; so are run ids.
Symmetry == Permutations(Calls) \cup Permutations(Runs)

\* Every mutation; and, for the properties of the document alone, two that
\* differ in what can happen to their call ("ensure" may throw).
AllMutations == [kind : {"edit"}, run : {NoRun}]
                    \cup [kind : {"start", "append", "ensure"}, run : Runs]
DocumentMutations == [kind : {"append", "ensure"}, run : Runs]
=============================================================================
