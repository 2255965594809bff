----------------------------- MODULE MCSdkRequest -----------------------------
(***************************************************************************)
(* Services with a gated, audited route, whose tenant manager has the      *)
(* route that the SDK asks for or, like this repository's, does not.       *)
(***************************************************************************)
EXTENDS SdkRequest

CONSTANT t1

MCCaller(tenant, user, admin, allowed) ==
    [tenant |-> tenant, user |-> user, admin |-> admin, allowed |-> allowed]

\* A member of the tenant, an administrator in it and one outside any, somebody without the
\* permission and somebody without a token.
MCCallers ==
    {MCCaller(t1, TRUE, FALSE, TRUE), MCCaller(t1, TRUE, TRUE, FALSE),
     MCCaller(NoTenant, TRUE, TRUE, FALSE), MCCaller(t1, TRUE, FALSE, FALSE),
     MCCaller(NoTenant, FALSE, FALSE, FALSE)}

MCGatedRoute ==
    [public |-> FALSE, role |-> FALSE, permission |-> TRUE, feature |-> TRUE, audited |-> TRUE]
MCPublicRoute ==
    [public |-> TRUE, role |-> FALSE, permission |-> FALSE, feature |-> FALSE, audited |-> FALSE]
MCRoutes == {MCGatedRoute, MCPublicRoute}

MCOption(on, mounted, served) ==
    [gating |-> on, auditing |-> on, mounted |-> mounted, served |-> served]

\* A service that mounts everything, with a tenant manager that has the SDK's route and with
\* this repository's, one with its options off, and one that sets the options, imports
\* ChassisModule and does no more.
MCOptions ==
    {MCOption(TRUE, Parts, TRUE), MCOption(TRUE, Parts, FALSE), MCOption(FALSE, Parts, TRUE),
     MCOption(TRUE, {}, TRUE)}
=============================================================================
