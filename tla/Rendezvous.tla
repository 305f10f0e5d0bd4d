----------------------------- MODULE Rendezvous -----------------------------
(***************************************************************************)
(* What ipc_send and ipc_recv promise together: a message passes in one    *)
(* step from a process that offers it to the process it is meant for, in   *)
(* the life it was meant for, while that process waits; it arrives once    *)
(* and unaltered, and nothing arrives that was not offered.                *)
(***************************************************************************)
EXTENDS Naturals

CONSTANTS Proc, Message, NoOffer, NoMessage
VARIABLES
  life,     \* the number of the process's present life, 0 before the first
  offer,    \* what a process is sending: [to, life, msg], or NoOffer
  waiting,  \* is the process receiving?
  result    \* what its last receive returned, until its next call

vars == <<life, offer, waiting, result>>

Idle(p) == offer[p] = NoOffer /\ ~waiting[p]

Offer(p, q, m) ==
  /\ Idle(p)
  /\ offer' = [offer EXCEPT ![p] = [to |-> q, life |-> life[q], msg |-> m]]
  /\ result' = [result EXCEPT ![p] = NoMessage]
  /\ UNCHANGED <<life, waiting>>

Wait(p) ==
  /\ Idle(p)
  /\ waiting' = [waiting EXCEPT ![p] = TRUE]
  /\ result' = [result EXCEPT ![p] = NoMessage]
  /\ UNCHANGED <<life, offer>>

Transfer(p, q) ==
  /\ offer[p] # NoOffer /\ offer[p].to = q /\ offer[p].life = life[q]
  /\ waiting[q]
  /\ offer' = [offer EXCEPT ![p] = NoOffer]
  /\ waiting' = [waiting EXCEPT ![q] = FALSE]
  /\ result' = [result EXCEPT ![q] = [from |-> p, msg |-> offer[p].msg]]
  /\ UNCHANGED life

\* An idle process ends or begins a life.
Turn(p) ==
  /\ Idle(p)
  /\ life' = [life EXCEPT ![p] = @ + 1]
  /\ result' = [result EXCEPT ![p] = NoMessage]
  /\ UNCHANGED <<offer, waiting>>

Init ==
  /\ life = [p \in Proc |-> 0]
  /\ offer = [p \in Proc |-> NoOffer]
  /\ waiting = [p \in Proc |-> FALSE]
  /\ result = [p \in Proc |-> NoMessage]

Next == \E p \in Proc : Wait(p) \/ Turn(p) \/ \E q \in Proc : Transfer(p, q) \/ \E m \in Message : Offer(p, q, m)

Spec == Init /\ [][Next]_vars
=============================================================================
