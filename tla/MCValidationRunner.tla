-------------------------- MODULE MCValidationRunner --------------------------
(* A host of two addresses, so that one may be silent and the other refuse, *)
(* the five attempts of the code, and up to two reads, the second of which  *)
(* may be the one that fails.                                               *)
EXTENDS ValidationRunner
===============================================================================
