----------------------------- MODULE MCStateLock -----------------------------
(* A small instance of StateLock for TLC. *)
EXTENDS StateLock
==============================================================================
