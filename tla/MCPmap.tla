------------------------------- MODULE MCPmap -------------------------------
(* Small instances of Pmap: model values for pages, environments, indices. *)
EXTENDS Pmap, TLC

CONSTANTS k0, k1, p1, p2, p3, p4, p5, p6

MCBoot == {k0, k1}
Free4 == {p1, p2, p3, p4}
Free6 == Free4 \cup {p5, p6}
Page4 == MCBoot \cup Free4
Page6 == MCBoot \cup Free6

\* Free pages, environments and indices are interchangeable in Pmap.
Sym(F) == Permutations(F) \cup Permutations(Env) \cup Permutations(PDX) \cup Permutations(PTX)
Sym4 == Sym(Free4)
Sym6 == Sym(Free6)
=============================================================================
