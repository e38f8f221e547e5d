--------------------------- MODULE MCLogMonitoring ---------------------------
(* LogMonitoring for TLC. *)
EXTENDS LogMonitoring, TLC

\* Workers differ in nothing but their name.
Symmetry == Permutations(Workers)
=============================================================================
