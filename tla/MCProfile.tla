------------------------------ MODULE MCProfile ------------------------------
(* A small instance of Profile.                                             *)
EXTENDS Profile

MCHouseholds == {<<1, 100>>}
=============================================================================
