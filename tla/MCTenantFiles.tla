--------------------------- MODULE MCTenantFiles ---------------------------
(****************************************************************************)
(* Two tenants, two requests and one CLI command.                           *)
(****************************************************************************)
EXTENDS TenantFiles, TLC

Symmetry == Permutations(Tenants) \cup Permutations(Slots)

===============================================================================
