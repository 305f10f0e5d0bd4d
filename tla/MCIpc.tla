-------------------------------- MODULE MCIpc -------------------------------
(* Small instances of Ipc. *)
EXTENDS Ipc

\* One environment sends a value alone, the others one with a page.
OneWithout(e) == IF e = 1 THEN {<<7, NoPage>>} ELSE {<<8, 5>>}

\* Everyone sends with and without a page.
Both(e) == {<<7, NoPage>>, <<8, 5>>}
=============================================================================
