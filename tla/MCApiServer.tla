----------------------------- MODULE MCApiServer -----------------------------
(* An instance of ApiServer for TLC: requests are interchangeable, and the   *)
(* properties over time are checked without symmetry.                        *)
EXTENDS ApiServer
=============================================================================
