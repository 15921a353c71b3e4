-------------------------- MODULE MCEvidenceLedger --------------------------
\* Two files, one or two calls that write the first, and checks: the first covers
\* the file that is written, the second both.
EXTENDS EvidenceLedger

CONSTANTS f1, f2, c1, c2

MCTarget == [w \in Writers |-> f1]
MCCovers == [c \in Checks |-> IF c = c1 THEN {f1} ELSE {f1, f2}]
=============================================================================
