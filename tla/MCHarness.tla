------------------------------ MODULE MCHarness ------------------------------
(* Two declared reads and a name the contract does not declare; the inputs *)
(* change twice, so that a second fetch would see another version.         *)
EXTENDS Harness

CONSTANTS orders, rates, missing

MCReads == {orders, rates}
MCNames == {orders, rates, missing}
=============================================================================
