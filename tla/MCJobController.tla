--------------------------- MODULE MCJobController ---------------------------
(***************************************************************************)
(* Model values for the goroutines of JobController.                       *)
(***************************************************************************)
EXTENDS JobController

CONSTANTS g1, g2
=============================================================================
