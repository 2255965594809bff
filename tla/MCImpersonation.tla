---------------------------- MODULE MCImpersonation ----------------------------
(***************************************************************************)
(* A small instance of the impersonation sessions.  Requests are alike.    *)
(***************************************************************************)
EXTENDS Impersonation, TLC

Alike == Permutations(Requests)
=============================================================================
