--------------------------- MODULE MCOfflineBuild ---------------------------
(* Instances of OfflineBuild for TLC.                                        *)
EXTENDS OfflineBuild, TLC

\* Skills, contents, chunk sizes and slots are only compared with each other.
Symmetric ==
  Permutations(Names) \cup Permutations(Versions) \cup Permutations(Chunks)
    \cup Permutations(Slots)
==============================================================================
