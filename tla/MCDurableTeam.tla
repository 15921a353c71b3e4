---------------------------- MODULE MCDurableTeam ----------------------------
(* A team of two whose members may each make a tool round before they answer: *)
(* three attempts of a sequential team, two of a parallel one.                *)
EXTENDS DurableTeam

MCMaxAttempts == [s \in Strategies |-> IF s = "sequential" THEN 3 ELSE 2]
=============================================================================
