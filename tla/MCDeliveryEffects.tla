------------------------- MODULE MCDeliveryEffects --------------------------
(* Three attempts at a conversation of up to two rounds, one of them with two *)
(* effectful calls, so that a round can be left half observed.                *)
EXTENDS DeliveryEffects

CONSTANTS c1, c2

MCCalls == {c1, c2}
MCMayCall == <<{c1, c2}, {c2}>>
MCClasses == [c \in MCCalls |-> IF c = c1 THEN {"unknown", "idempotent_external"}
                                           ELSE {"fingerprinted_write"}]
=============================================================================
