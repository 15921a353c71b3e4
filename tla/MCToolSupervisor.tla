--------------------------- MODULE MCToolSupervisor --------------------------
(* Two identical calls nobody cancels, or calls that are cancelled at will. *)
EXTENDS ToolSupervisor
CONSTANTS c1, c2, c3, f, g

OneFingerprint  == [c \in Calls |-> f]
TwoFingerprints == [c \in Calls |-> IF c = c3 THEN g ELSE f]
=============================================================================
