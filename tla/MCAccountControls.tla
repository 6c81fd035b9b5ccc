-------------------------- MODULE MCAccountControls --------------------------
(* A small instance of AccountControls: four commands and one operator. *)
EXTENDS AccountControls

\* First there are controls, then there are lifts.
Script ==
  <<{"apply_restriction", "apply_freeze"},
    {"apply_suspension", "apply_freeze", "lift_freeze"},
    {"lift_restriction", "lift_freeze", "apply_freeze"},
    {"lift_suspension", "lift_freeze", "apply_freeze"}>>
=============================================================================
