---------------------------- MODULE MCMemberships ----------------------------
(***************************************************************************)
(* A small instance of the memberships.                                    *)
(***************************************************************************)
EXTENDS Memberships
=============================================================================
