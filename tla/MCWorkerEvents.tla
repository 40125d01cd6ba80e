--------------------------- MODULE MCWorkerEvents ---------------------------
(* Small instances of WorkerEvents for TLC.                                *)
EXTENDS WorkerEvents, TLC

CONSTANT p1

\* All environments belong to the first project.
FirstProject == [e \in Env |-> p1]

Symmetry == Permutations(Slot) \cup Permutations(Env)
=============================================================================
