-------------------------------- MODULE Calls -------------------------------
(***************************************************************************)
(* The variable of the sequential algorithms: the call under way, a record *)
(* of the function's name, fn, and its arguments.                          *)
(***************************************************************************)
VARIABLE call
=============================================================================
