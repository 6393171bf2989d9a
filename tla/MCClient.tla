------------------------------ MODULE MCClient ------------------------------
(***************************************************************************)
(* Client for TLC: the ways in which server and client may be set up.      *)
(***************************************************************************)
EXTENDS Client

AnySetup == Setup
Unprotected == {[required |-> FALSE, password |-> "none"]}
=============================================================================
