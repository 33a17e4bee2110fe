------------------------------ MODULE MCGroup -------------------------------
(***************************************************************************)
(* Model values for Group: three or four identities.                      *)
(***************************************************************************)
EXTENDS Group

CONSTANTS a, b, c, d, e

====
