--------------------------- MODULE MCApplianceHost ---------------------------
(* A small instance of ApplianceHost for TLC. *)
EXTENDS ApplianceHost
==============================================================================
