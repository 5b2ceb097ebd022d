--------------------------- MODULE MCClientQueue ---------------------------
(* ClientQueue for TLC: small sets of calls as model values.               *)
EXTENDS ClientQueue, TLC

\* Calls of the same kind are interchangeable in the safety properties.
CallSymmetry == Permutations(Records) \cup Permutations(Flushes) \cup Permutations(Shutdowns)
=============================================================================
