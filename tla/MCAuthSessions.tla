---------------------------- MODULE MCAuthSessions ----------------------------
(***************************************************************************)
(* A small instance of the login, refresh and logout requests.             *)
(***************************************************************************)
EXTENDS AuthSessions
=============================================================================
