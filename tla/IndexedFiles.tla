---------------------------- MODULE IndexedFiles ----------------------------
\* What the index engine and the index store both speak of: the files of a workspace.
EXTENDS Naturals, FiniteSets

CONSTANTS
    Paths,     \* indexable paths
    Versions,  \* contents a file may have, 0 when there is none
    None

ASSUME FilesAssumption ==
    /\ IsFiniteSet(Paths)
    /\ Versions \subseteq Nat /\ 0 \in Versions
=============================================================================
