------------------------------ MODULE MCServer ------------------------------
(***************************************************************************)
(* Server for TLC.  The slots the whitelist admits are interchangeable.    *)
(***************************************************************************)
EXTENDS Server, TLC

Symmetry == Permutations(Allowed)
=============================================================================
