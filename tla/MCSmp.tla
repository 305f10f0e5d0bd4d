-------------------------------- MODULE MCSmp -------------------------------
(* Small instances of Smp. *)
EXTENDS Smp
=============================================================================
