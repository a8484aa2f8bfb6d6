------------------------------- MODULE MCWire --------------------------------
(***************************************************************************)
(* Values for the constants of Wire: lengths 1 and 2, a letter in upper     *)
(* case, a dot, and a buffer that a name of two labels can fill exactly.    *)
(***************************************************************************)
EXTENDS Wire

CONSTANTS d1, sink

ToLower == [c \in Byte |-> IF c = 65 THEN 97 ELSE c]
=============================================================================
