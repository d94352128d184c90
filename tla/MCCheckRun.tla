----------------------------- MODULE MCCheckRun -----------------------------
(* CheckRun on small instances.  Containers and hosts are only ever        *)
(* compared for equality, so both may be permuted in safety runs.           *)
EXTENDS CheckRun, TLC

Symmetry == Permutations(Containers) \cup Permutations(Hosts)
=============================================================================
