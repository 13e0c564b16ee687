--------------------------- MODULE MCMpsdSessions ---------------------------
(* MpsdSessions on small instances.                                        *)
EXTENDS MpsdSessions, TLC

\* Callers, Sessions and documents are interchangeable.
Symmetry == Permutations(Callers) \cup Permutations(Handles)
            \cup Permutations(Refs)
=============================================================================
