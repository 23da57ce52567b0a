------------------------ MODULE MCIdentitySimulation ------------------------
(***************************************************************************)
(* Model of a simulation run: two simulation accounts, two sample         *)
(* addresses for the genesis records, draws of r.Intn at both ends of its *)
(* range and where the id gains a tenth digit.                            *)
(***************************************************************************)
EXTENDS IdentitySimulation

CONSTANTS a1, a2, s1, s2

MCCccdDraws == {0, 899999999, 900000000, 999999998}

=============================================================================
