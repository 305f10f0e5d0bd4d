--------------------------- MODULE PrivateImages ---------------------------
(***************************************************************************)
(* What lib/fork.c promises: every environment has memory of its own, a    *)
(* store changes nobody else's, and fork gives the child the memory its    *)
(* parent has at that moment, all at once.                                 *)
(***************************************************************************)
EXTENDS FiniteSets

CONSTANTS Env, Area, Val, Zero, NoImage

VARIABLE image    \* the memory of an environment, or NoImage

Init ==
  \E e \in Env : image = [x \in Env |-> IF x = e THEN [v \in Area |-> Zero] ELSE NoImage]

Store(e, v, x) == image[e] # NoImage /\ image' = [image EXCEPT ![e][v] = x]

Fork(e, c) ==
  image[e] # NoImage /\ image[c] = NoImage /\ image' = [image EXCEPT ![c] = image[e]]

Exit(e) == image[e] # NoImage /\ image' = [image EXCEPT ![e] = NoImage]

Next ==
  \E e \in Env : \/ \E v \in Area, x \in Val : Store(e, v, x)
                 \/ \E c \in Env : Fork(e, c)
                 \/ Exit(e)

Spec == Init /\ [][Next]_image
=============================================================================
