--------------------------- MODULE MCConfigPublish ---------------------------
(* ConfigPublish for TLC. *)
EXTENDS ConfigPublish, TLC

\* Requests differ in nothing but their name, and so do the valid configs.
Symmetry == Permutations(Requests) \cup Permutations(ValidConfigs)
=============================================================================
