------------------------------ MODULE MCService ------------------------------
(***************************************************************************)
(* Values for the constants of Service.                                     *)
(***************************************************************************)
EXTENDS Service

CONSTANTS w1, w2, s1, s2
=============================================================================
