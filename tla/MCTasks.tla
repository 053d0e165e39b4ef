------------------------------ MODULE MCTasks ------------------------------
(* Instances of Tasks for model checking. *)
EXTENDS TaskProperties, TLC

\* Kernel stacks are interchangeable, and so are page-table roots.
Interchangeable == Permutations(Stacks) \cup Permutations(Spaces)

=============================================================================
