----------------------------- MODULE MCBuildJob -----------------------------
(* Instances of BuildJob for TLC: identities are interchangeable. *)
EXTENDS BuildJob, TLC

CallsSymmetry == Permutations(Requests)
JobsAndCallsSymmetry == Permutations(Jobs) \cup Permutations(Humans) \cup Permutations(Requests)
=============================================================================
