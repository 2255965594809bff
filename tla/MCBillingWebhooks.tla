-------------------------- MODULE MCBillingWebhooks --------------------------
(***************************************************************************)
(* Small instances of the billing engine.                                  *)
(***************************************************************************)
EXTENDS BillingWebhooks, TLC

\* Requests, customer ids and tenants are interchangeable.
MCSymmetry == Permutations(Workers) \cup Permutations(CustomerIds) \cup Permutations(Tenants)

=============================================================================
