------------------------------- MODULE MCFork -------------------------------
(* A small instance of Fork. *)
EXTENDS Fork, TLC

MCLayout == <<"text", "data", "stack">>

\* The slots that start free are interchangeable.
Sym == Permutations(Env \ {First})
=============================================================================
