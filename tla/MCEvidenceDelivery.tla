-------------------------- MODULE MCEvidenceDelivery --------------------------
(* A small instance of EvidenceDelivery: two events and two workers. *)
EXTENDS EvidenceDelivery
=============================================================================
