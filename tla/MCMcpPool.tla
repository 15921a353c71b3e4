------------------------------ MODULE MCMcpPool ------------------------------
(* As many generations as leases. *)
EXTENDS McpPool
=============================================================================
