------------------------------ MODULE MCDaemon ------------------------------
(* Daemon on small instances.  Every entry key, tag and digest is treated   *)
(* alike, so permutations of the keys are a symmetry of the safety runs.    *)
EXTENDS DaemonPromise, TLC

KeySymmetry == Permutations(Keys)
=============================================================================
