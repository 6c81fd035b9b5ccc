--------------------------- MODULE MCDiscrepancies ---------------------------
(* A small instance of Discrepancies: two issues, two scans, one operator. *)
EXTENDS Discrepancies
=============================================================================
