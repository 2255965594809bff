---------------------------- MODULE MCFeatureFlags ----------------------------
(***************************************************************************)
(* A small instance of the feature flags.                                  *)
(***************************************************************************)
EXTENDS FeatureFlags
=============================================================================
