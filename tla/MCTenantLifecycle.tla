-------------------------- MODULE MCTenantLifecycle --------------------------
(***************************************************************************)
(* A small tenant manager: the free plan, a plan that lists no feature and *)
(* has one in updateTenant's own map, and a code that is not in the table. *)
(***************************************************************************)
EXTENDS TenantLifecycle, TLC

CONSTANT f1

MCPlans == {"free", "bare", "gone"}
MCListed == {"free", "bare"}
MCPlanFeatures == ("free" :> {f1}) @@ ("bare" :> {})
MCStaticFeatures == ("free" :> {f1}) @@ ("bare" :> {f1}) @@ ("gone" :> {})
MCSymmetry == Permutations(Requests)

=============================================================================
