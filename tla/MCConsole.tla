------------------------------ MODULE MCConsole -----------------------------
(* A small console: keys with and without E0, a serial line, a short screen. *)
EXTENDS Console

Printed == {<<"x", "LF", "TAB">>}
=============================================================================
