--------------------------- MODULE MCIndexEngine ---------------------------
\* Two paths and two commits that differ in the first; one path may be touched, and
\* one may wait in a burst, so that both caps are exceeded.
EXTENDS IndexEngine

CONSTANTS p1, p2, c1, c2

MCTree == [c \in Commits |-> [p \in Paths |-> IF c = c2 /\ p = p1 THEN 2 ELSE 1]]
=============================================================================
