--------------------------- MODULE MCJsonFileSink ---------------------------
(* Instances of JsonFileSink for TLC. *)
EXTENDS JsonFileSink
=============================================================================
