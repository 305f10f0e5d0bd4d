----------------------------- MODULE InputQueue -----------------------------
(***************************************************************************)
(* What the console's input side promises to its readers: characters come  *)
(* out in the order in which they went in, each once.  The queue holds     *)
(* Size - 1 characters; one more empties it, because the ring's indices    *)
(* then meet (kern/console.c has no overflow test).                        *)
(***************************************************************************)
EXTENDS Naturals, Sequences

CONSTANTS Char, None, Size
VARIABLES queue, returned

Init == queue = <<>> /\ returned = None

Put(c) ==
  /\ queue' = IF Len(queue) = Size - 1 THEN <<>> ELSE Append(queue, c)
  /\ UNCHANGED returned

Get ==
  \/ queue # <<>> /\ returned' = Head(queue) /\ queue' = Tail(queue)
  \/ queue = <<>> /\ returned' = None /\ UNCHANGED queue

Next == Get \/ \E c \in Char : Put(c)

Spec == Init /\ [][Next]_<<queue, returned>>
=============================================================================
