------------------------------ MODULE IpcProofs -----------------------------
(***************************************************************************)
(* Proof that lib/ipc.c over the IPC system calls implements module        *)
(* Rendezvous, for any number of environments, values and permissions and  *)
(* any number of reuses of a slot short of the wrap of its env_id.         *)
(***************************************************************************)
EXTENDS Ipc, TLAPS

Places == {"free", "run", "send", "recv", "got"}
Requests == [to : Env, gen : Nat, life : Nat, val : Values, perm : Perms \cup {NoPage}]
Messages == [from : 0..NENV, val : Values \cup {0}, perm : Perms \cup {NoPage}]

IpcType ==
  /\ pc \in [Env -> Places]
  /\ env_id \in [Env -> Nat]
  /\ request \in [Env -> Requests \cup {NoRequest}]
  /\ env_ipc_recving \in [Env -> BOOLEAN]
  /\ env_ipc_from \in [Env -> 0..NENV]
  /\ env_ipc_value \in [Env -> Values \cup {0}]
  /\ env_ipc_perm \in [Env -> Perms \cup {NoPage}]
  /\ ret \in [Env -> Messages]
  /\ life \in [Env -> Nat]
  /\ forks \in 0..MaxForks

\* The generation of a slot after k allocations.
Gen(k) == IF StartGen + k < GenMod THEN StartGen + k ELSE (StartGen + k) - (GenMod - 1)

\* A slot's env_id is a matter of how often it was allocated, which its life
\* tells: even while the slot is in use, odd while it is free.
IdInv ==
  \A e \in Env :
    /\ life[e] % 2 = (IF pc[e] = "free" THEN 1 ELSE 0)
    /\ life[e] \div 2 <= forks
    /\ env_id[e] = Gen(life[e] \div 2)

\* An ipc_send in progress holds the id its target had in the life it is meant
\* for, now or earlier.
RequestInv ==
  \A e \in Env : pc[e] = "send" =>
    LET q == request[e]
    IN /\ q \in Requests /\ q.to # e
       /\ q.life % 2 = 0 /\ q.life <= life[q.to]
       /\ q.gen = Gen(q.life \div 2)

\* env_ipc_recving is set exactly in blocked receivers; a woken one has a
\* message, and one that is not back from ipc_recv has returned none.
RecvInv ==
  \A e \in Env :
    /\ env_ipc_recving[e] <=> pc[e] = "recv"
    /\ pc[e] = "got" => env_ipc_from[e] # 0
    /\ pc[e] \in {"free", "send", "recv"} => ret[e].from = 0

IInv == IpcType /\ IdInv /\ RequestInv /\ RecvInv

-----------------------------------------------------------------------------
\* Generations differ as long as a slot is allocated less often than there are
\* generations.
LEMMA GenInjective ==
  ASSUME NEW j \in 0..MaxForks, NEW k \in 0..MaxForks, Gen(j) = Gen(k)
  PROVE  j = k
BY GenAssumption DEF Gen

LEMMA GenStep ==
  ASSUME NEW k \in 0..(MaxForks - 1)
  PROVE  /\ Gen(k) \in Nat /\ Gen(k + 1) \in Nat
         /\ Gen(k + 1) = IF Gen(k) + 1 = GenMod THEN 1 ELSE Gen(k) + 1
BY GenAssumption DEF Gen

\* envid2env finds the slot a sender asks for exactly in the life it means.
LEMMA IdMeansLife ==
  ASSUME IInv, NEW e \in Env, pc[e] = "send"
  PROVE  LET q == request[e]
         IN  q \in Requests /\ q.to \in Env /\ q.to # e
             /\ (envid2env(q.to, q.gen) <=> life[q.to] = q.life)
<1> DEFINE q == request[e]
<1>1. /\ q \in Requests /\ q.to \in Env /\ q.to # e /\ q.life \in Nat /\ life[q.to] \in Nat
      /\ q.life % 2 = 0 /\ q.life <= life[q.to] /\ q.gen = Gen(q.life \div 2)
  BY DEF IInv, RequestInv, IpcType, Requests
<1>2. /\ life[q.to] % 2 = (IF pc[q.to] = "free" THEN 1 ELSE 0)
      /\ life[q.to] \div 2 <= forks /\ env_id[q.to] = Gen(life[q.to] \div 2)
      /\ forks \in 0..MaxForks
  BY <1>1 DEF IInv, IdInv, IpcType
<1> HIDE DEF q
<1>3. q.life \div 2 \in 0..MaxForks /\ life[q.to] \div 2 \in 0..MaxForks
  BY <1>1, <1>2, GenAssumption
<1>4. ASSUME life[q.to] = q.life PROVE envid2env(q.to, q.gen)
  BY <1>1, <1>2, <1>4 DEF envid2env
<1>5. ASSUME envid2env(q.to, q.gen) PROVE life[q.to] = q.life
  <2>1. life[q.to] % 2 = 0 /\ Gen(life[q.to] \div 2) = Gen(q.life \div 2)
    BY <1>1, <1>2, <1>5 DEF envid2env
  <2>2. life[q.to] \div 2 = q.life \div 2
    BY <1>3, <2>1, GenInjective
  <2>3. QED  BY <1>1, <2>1, <2>2
<1>6. QED  BY <1>1, <1>4, <1>5 DEF q

LEMMA LetterParts ==
  ASSUME NEW e \in Env, NEW m \in Letters(e)
  PROVE  m[1] \in Values /\ m[2] \in Perms \cup {NoPage}
BY LetterAssumption

LEMMA InitInv == Init => IInv
<1> SUFFICES ASSUME Init PROVE IInv
  OBVIOUS
<1> USE GenAssumption, EnvAssumption, PermAssumption DEF Init
<1>1. IpcType
  BY DEF IpcType, Places, NoRequest, NoMessage, Messages, NoPage
<1>2. IdInv
  BY DEF IdInv, Gen
<1>3. RequestInv /\ RecvInv
  BY DEF RequestInv, RecvInv, NoMessage
<1>4. QED  BY <1>1, <1>2, <1>3 DEF IInv

-----------------------------------------------------------------------------
LEMMA TypeStep == IInv /\ [Next]_vars => IpcType'
<1> SUFFICES ASSUME IInv, [Next]_vars PROVE IpcType'
  OBVIOUS
<1> USE GenAssumption, EnvAssumption DEF IInv, IpcType, Places, NoPage
<1>1. CASE UNCHANGED vars
  BY <1>1 DEF vars, ipcvars
<1>2. ASSUME NEW e \in Env, exit(e) PROVE IpcType'
  <2>1. NoMessage \in Messages
    BY DEF NoMessage, Messages
  <2>2. QED  BY <1>2, <2>1 DEF exit, ipcvars
<1>3. ASSUME NEW e \in Env, sys_ipc_try_send(e) PROVE IpcType'
  <2>1. /\ request[e].to \in Env /\ request[e].val \in Values
        /\ request[e].perm \in Perms \cup {NoPage}
    BY <1>3, IdMeansLife DEF sys_ipc_try_send, Requests
  <2>2. e \in 0..NENV
    BY DEF Env
  <2>3. QED  BY <1>3, <2>1, <2>2 DEF sys_ipc_try_send
<1>4. ASSUME NEW e \in Env, ipc_send_retry(e) \/ ipc_send_panic(e) PROVE IpcType'
  BY <1>4 DEF ipc_send_retry, ipc_send_panic, vars, ipcvars
<1>5. ASSUME NEW e \in Env, ipc_recv_return(e) PROVE IpcType'
  <2>1. fields(e) \in Messages
    BY DEF fields, Messages
  <2>2. QED  BY <1>5, <2>1 DEF ipc_recv_return, ipcvars
<1>6. ASSUME NEW e \in Env, NEW asks \in Asks, ipc_recv(e, asks) PROVE IpcType'
  <2>1. NoMessage \in Messages
    BY DEF NoMessage, Messages
  <2>2. QED  BY <1>6, <2>1 DEF ipc_recv
<1>7. ASSUME NEW e \in Env, NEW f \in Env, fork(e, f) PROVE IpcType'
  BY <1>7 DEF fork, generation, ipcvars
<1>8. ASSUME NEW e \in Env, NEW f \in Env, NEW m \in Letters(e), ipc_send(e, f, m[1], m[2])
      PROVE  IpcType'
  <2>1. NoMessage \in Messages
    BY DEF NoMessage, Messages
  <2>2. [to |-> f, gen |-> env_id[f], life |-> life[f], val |-> m[1], perm |-> m[2]] \in Requests
    BY LetterParts DEF Requests
  <2>3. QED  BY <1>8, <2>1, <2>2 DEF ipc_send, ipcvars
<1>9. QED  BY <1>1, <1>2, <1>3, <1>4, <1>5, <1>6, <1>7, <1>8 DEF Next

\* Only the birth or the death of its owner moves a slot's life.
LEMMA IdStep == IInv /\ [Next]_vars => IdInv'
<1> SUFFICES ASSUME IInv, [Next]_vars PROVE IdInv'
  OBVIOUS
<1>t. IpcType /\ IdInv /\ RequestInv
  BY DEF IInv
<1>0. ASSUME UNCHANGED <<env_id, life, forks>>, \A e \in Env : pc'[e] = "free" <=> pc[e] = "free"
      PROVE  IdInv'
  BY <1>0, <1>t DEF IdInv, Gen
<1>1. CASE UNCHANGED vars
  BY <1>0, <1>1 DEF vars
<1>2. ASSUME NEW e \in Env, exit(e) PROVE IdInv'
  <2>1. ASSUME NEW f \in Env PROVE IdInv!(f)'
    BY <1>t, <1>2 DEF IdInv, IpcType, exit, Gen
  <2>2. QED  BY <2>1 DEF IdInv
<1>3. ASSUME NEW e \in Env, sys_ipc_try_send(e) PROVE IdInv'
  BY <1>0, <1>3, <1>t, IdMeansLife DEF sys_ipc_try_send, envid2env, IpcType
<1>4. ASSUME NEW e \in Env, ipc_send_retry(e) \/ ipc_send_panic(e) PROVE IdInv'
  BY <1>0, <1>4 DEF ipc_send_retry, ipc_send_panic, vars
<1>5. ASSUME NEW e \in Env, ipc_recv_return(e) PROVE IdInv'
  BY <1>0, <1>5, <1>t DEF ipc_recv_return, IpcType
<1>6. ASSUME NEW e \in Env, NEW asks \in Asks, ipc_recv(e, asks) PROVE IdInv'
  BY <1>0, <1>6, <1>t DEF ipc_recv, IpcType
<1>7. ASSUME NEW e \in Env, NEW f \in Env, fork(e, f) PROVE IdInv'
  <2> DEFINE k == life[f] \div 2
  <2>1. /\ life[f] \in Nat /\ life[f] % 2 = 1 /\ k <= forks /\ env_id[f] = Gen(k)
        /\ forks \in Nat /\ forks < MaxForks
    BY <1>7, <1>t DEF IdInv, IpcType, fork
  <2>2. /\ k \in 0..(MaxForks - 1) /\ (life[f] + 1) \div 2 = k + 1 /\ (life[f] + 1) % 2 = 0
    BY <2>1, GenAssumption
  <2>3. generation(f) = Gen(k + 1)
    BY <2>1, <2>2, GenStep DEF generation
  <2>4. /\ pc'[f] = "run" /\ life'[f] = life[f] + 1 /\ env_id'[f] = Gen(k + 1) /\ forks' = forks + 1
    BY <1>7, <1>t, <2>3 DEF fork, IpcType
  <2>5. \A g \in Env \ {f} : pc'[g] = pc[g] /\ life'[g] = life[g] /\ env_id'[g] = env_id[g]
    BY <1>7, <1>t DEF fork, IpcType
  <2>6. ASSUME NEW g \in Env, g # f PROVE IdInv!(g)'
    BY <1>t, <2>1, <2>4, <2>5, <2>6 DEF IdInv, IpcType, Gen
  <2>7. IdInv!(f)'
    BY <2>1, <2>2, <2>4 DEF Gen
  <2>8. QED  BY <2>6, <2>7 DEF IdInv
<1>8. ASSUME NEW e \in Env, NEW f \in Env, NEW m \in Letters(e), ipc_send(e, f, m[1], m[2])
      PROVE  IdInv'
  BY <1>0, <1>8, <1>t DEF ipc_send, IpcType
<1>9. QED  BY <1>1, <1>2, <1>3, <1>4, <1>5, <1>6, <1>7, <1>8 DEF Next

\* Lives only move on, so a sender's notion of its target stays a past or
\* present one.
LEMMA RequestStep == IInv /\ [Next]_vars => RequestInv'
<1> SUFFICES ASSUME IInv, [Next]_vars PROVE RequestInv'
  OBVIOUS
<1>t. IpcType /\ IdInv /\ RequestInv
  BY DEF IInv
<1>0. ASSUME \A e \in Env : life'[e] \in Nat /\ life[e] <= life'[e],
             \A e \in Env : pc'[e] = "send" => pc[e] = "send" /\ request'[e] = request[e]
      PROVE  RequestInv'
  <2> SUFFICES ASSUME NEW e \in Env, pc'[e] = "send" PROVE RequestInv!(e)!2'
    BY DEF RequestInv
  <2>1. pc[e] = "send" /\ request'[e] = request[e] /\ request[e].to \in Env /\ request[e].life \in Nat
    BY <1>0, <1>t DEF RequestInv, Requests
  <2>2. /\ life[request[e].to] \in Nat
        /\ life'[request[e].to] \in Nat /\ life[request[e].to] <= life'[request[e].to]
    BY <1>0, <1>t, <2>1 DEF IpcType
  <2>3. request[e].life <= life'[request[e].to]
    BY <1>t, <2>1, <2>2 DEF RequestInv
  <2>4. QED  BY <1>t, <2>1, <2>3 DEF RequestInv, Gen
<1>1. CASE UNCHANGED vars
  BY <1>0, <1>1, <1>t DEF vars, IpcType
<1>2. ASSUME NEW e \in Env, exit(e) PROVE RequestInv'
  BY <1>0, <1>2, <1>t DEF IpcType, exit
<1>3. ASSUME NEW e \in Env, sys_ipc_try_send(e) PROVE RequestInv'
  <2>1. request[e].to \in Env
    BY <1>3, IdMeansLife DEF sys_ipc_try_send
  <2>2. QED  BY <1>0, <1>3, <1>t, <2>1 DEF sys_ipc_try_send, IpcType
<1>4. ASSUME NEW e \in Env, ipc_send_retry(e) \/ ipc_send_panic(e) PROVE RequestInv'
  BY <1>0, <1>4, <1>t DEF ipc_send_retry, ipc_send_panic, vars, IpcType
<1>5. ASSUME NEW e \in Env, ipc_recv_return(e) PROVE RequestInv'
  BY <1>0, <1>5, <1>t DEF ipc_recv_return, IpcType
<1>6. ASSUME NEW e \in Env, NEW asks \in Asks, ipc_recv(e, asks) PROVE RequestInv'
  BY <1>0, <1>6, <1>t DEF ipc_recv, IpcType
<1>7. ASSUME NEW e \in Env, NEW f \in Env, fork(e, f) PROVE RequestInv'
  BY <1>0, <1>7, <1>t DEF fork, IpcType
<1>8. ASSUME NEW e \in Env, NEW f \in Env, NEW m \in Letters(e), ipc_send(e, f, m[1], m[2])
      PROVE  RequestInv'
  <2> DEFINE q == [to |-> f, gen |-> env_id[f], life |-> life[f], val |-> m[1], perm |-> m[2]]
  <2>1. /\ request' = [request EXCEPT ![e] = q] /\ pc' = [pc EXCEPT ![e] = "send"]
        /\ life' = life /\ f # e /\ pc[f] # "free"
    BY <1>8 DEF ipc_send
  <2>2. /\ q \in Requests /\ life[f] \in Nat
        /\ life[f] % 2 = 0 /\ env_id[f] = Gen(life[f] \div 2)
    BY <1>t, <2>1, LetterParts DEF IpcType, IdInv, Requests
  <2>3. RequestInv!(e)!2'
    BY <1>t, <2>1, <2>2 DEF IpcType, Gen
  <2>4. ASSUME NEW g \in Env \ {e}, pc'[g] = "send" PROVE RequestInv!(g)!2'
    <3>1. pc[g] = "send" /\ request'[g] = request[g]
      BY <1>t, <2>1, <2>4 DEF IpcType
    <3>2. QED  BY <1>t, <2>1, <3>1 DEF RequestInv, Gen
  <2>5. QED  BY <2>3, <2>4 DEF RequestInv
<1>9. QED  BY <1>1, <1>2, <1>3, <1>4, <1>5, <1>6, <1>7, <1>8 DEF Next

LEMMA RecvStep == IInv /\ [Next]_vars => RecvInv'
<1> SUFFICES ASSUME IInv, [Next]_vars PROVE RecvInv'
  OBVIOUS
<1>t. IpcType /\ RecvInv
  BY DEF IInv
<1> USE <1>t DEF IpcType, RecvInv
<1>1. CASE UNCHANGED vars
  BY <1>1 DEF vars, ipcvars
<1>2. ASSUME NEW e \in Env, exit(e) PROVE RecvInv'
  BY <1>2 DEF exit, ipcvars, NoMessage
<1>3. ASSUME NEW e \in Env, sys_ipc_try_send(e) PROVE RecvInv'
  <2>1. request[e].to \in Env /\ request[e].to # e
    BY <1>3, IdMeansLife DEF sys_ipc_try_send
  <2>2. e # 0
    BY EnvAssumption DEF Env
  <2>3. QED  BY <1>3, <2>1, <2>2 DEF sys_ipc_try_send
<1>4. ASSUME NEW e \in Env, ipc_send_retry(e) \/ ipc_send_panic(e) PROVE RecvInv'
  BY <1>4 DEF ipc_send_retry, ipc_send_panic, vars, ipcvars
<1>5. ASSUME NEW e \in Env, ipc_recv_return(e) PROVE RecvInv'
  BY <1>5 DEF ipc_recv_return, ipcvars
<1>6. ASSUME NEW e \in Env, NEW asks \in Asks, ipc_recv(e, asks) PROVE RecvInv'
  BY <1>6 DEF ipc_recv, NoMessage
<1>7. ASSUME NEW e \in Env, NEW f \in Env, fork(e, f) PROVE RecvInv'
  BY <1>7 DEF fork, ipcvars
<1>8. ASSUME NEW e \in Env, NEW f \in Env, NEW m \in Letters(e), ipc_send(e, f, m[1], m[2])
      PROVE  RecvInv'
  BY <1>8 DEF ipc_send, ipcvars, NoMessage
<1>9. QED  BY <1>1, <1>2, <1>3, <1>4, <1>5, <1>6, <1>7, <1>8 DEF Next

\* The inductive invariant: an env_id held by a sender tells the lives of a
\* slot apart, and env_ipc_recving is set exactly in blocked receivers.
THEOREM Invariant == Spec => []IInv
<1>1. IInv /\ [Next]_vars => IInv'
  BY TypeStep, IdStep, RequestStep, RecvStep DEF IInv
<1>2. QED  BY InitInv, <1>1, PTL DEF Spec

-----------------------------------------------------------------------------
(***************************************************************************)
(* The refinement.  A transfer of the rendezvous is the successful try of  *)
(* the sender; the receiver's later reading of its Env structure stutters, *)
(* since the message already shows.                                        *)
(***************************************************************************)

\* What each slot shows is a matter of that slot alone.
LEMMA ShownLocally ==
  ASSUME NEW e \in Env, pc'[e] = pc[e], request'[e] = request[e], ret'[e] = ret[e],
         env_ipc_from'[e] = env_ipc_from[e], env_ipc_value'[e] = env_ipc_value[e]
  PROVE  offered(e)' = offered(e) /\ received(e)' = received(e)
BY DEF offered, received, message, fields

\* A slot offers exactly while it sends, and shows no message to itself while
\* it sends, waits or is free.
LEMMA ShownStates ==
  ASSUME IInv, NEW e \in Env
  PROVE  /\ offered(e) = NoRequest <=> pc[e] # "send"
         /\ pc[e] \in {"free", "send", "recv"} => received(e) = NoMessage
<1>1. pc[e] = "send" => request[e].to \in Env
  BY IdMeansLife
<1>2. 0 \notin Env
  BY EnvAssumption DEF Env
<1>3. ASSUME pc[e] = "send" PROVE offered(e).to \in Env
  BY <1>1, <1>3 DEF offered
<1>4. NoRequest.to = 0
  BY DEF NoRequest
<1>5. offered(e) = NoRequest <=> pc[e] # "send"
  BY <1>2, <1>3, <1>4 DEF offered
<1>6. pc[e] \in {"free", "send", "recv"} => received(e) = NoMessage
  BY DEF IInv, RecvInv, received, message
<1>7. QED  BY <1>5, <1>6

LEMMA InitMeets == Init => Meeting!Init
<1> SUFFICES ASSUME Init PROVE Meeting!Init
  OBVIOUS
<1>1. ASSUME NEW e \in Env PROVE offered(e) = NoRequest /\ received(e) = NoMessage /\ pc[e] # "recv"
  BY DEF Init, offered, received, message, NoMessage
<1>2. life = [e \in Env |-> 0]
  BY DEF Init
<1>3. QED  BY <1>1, <1>2 DEF Meeting!Init

LEMMA StepMeets == IInv /\ IInv' /\ [Next]_vars => [Meeting!Next]_(Meeting!vars)
<1> SUFFICES ASSUME IInv, IInv', [Next]_vars PROVE [Meeting!Next]_(Meeting!vars)
  OBVIOUS
<1>t. IpcType /\ IpcType'
  BY DEF IInv
<1> DEFINE off == [e \in Env |-> offered(e)]
           wait == [e \in Env |-> pc[e] = "recv"]
           res == [e \in Env |-> received(e)]
           Same(S) == \A g \in Env \ S : /\ offered(g)' = offered(g) /\ received(g)' = received(g)
                                         /\ pc'[g] = pc[g]
\* Where an action leaves a slot alone, so does its image.
<1>0. ASSUME NEW S, \A g \in Env \ S : /\ pc'[g] = pc[g] /\ request'[g] = request[g] /\ ret'[g] = ret[g]
                                       /\ env_ipc_from'[g] = env_ipc_from[g]
                                       /\ env_ipc_value'[g] = env_ipc_value[g]
      PROVE  Same(S)
  BY <1>0, ShownLocally
<1>1. CASE UNCHANGED vars
  <2>1. Same({}) /\ life' = life
    BY <1>0, <1>1 DEF vars, ipcvars
  <2>2. QED  BY <2>1 DEF Meeting!vars
<1>2. ASSUME NEW e \in Env, exit(e) PROVE Meeting!Next
  <2>1. /\ Same({e}) /\ pc[e] = "run" /\ pc'[e] = "free" /\ life' = [life EXCEPT ![e] = @ + 1]
        /\ ret'[e] = NoMessage
    BY <1>0, <1>2, <1>t DEF exit, ipcvars, IpcType
  <2>2. offered(e) = NoRequest /\ offered(e)' = NoRequest /\ received(e)' = NoMessage
    BY <2>1 DEF offered, received, message, NoMessage
  <2>3. off' = off /\ wait' = wait /\ res' = [res EXCEPT ![e] = NoMessage]
    BY <2>1, <2>2
  <2>4. Meeting!Turn(e)
    BY <2>1, <2>2, <2>3 DEF Meeting!Turn, Meeting!Idle
  <2>5. QED  BY <2>4 DEF Meeting!Next
<1>3. ASSUME NEW e \in Env, sys_ipc_try_send(e) PROVE Meeting!Next
  <2>1. PICK q \in Requests, r \in Env :
          /\ q = request[e] /\ r = q.to /\ pc[e] = "send" /\ r # e /\ q.val \in Values /\ e # 0
          /\ life[r] = q.life /\ pc[r] = "recv"
    BY <1>3, IdMeansLife, EnvAssumption DEF sys_ipc_try_send, Requests, Env, IInv, RecvInv
  <2>2. /\ Same({e, r}) /\ life' = life /\ pc'[e] = "run" /\ pc'[r] = "got"
        /\ env_ipc_from'[r] = e /\ env_ipc_value'[r] = q.val /\ ret' = ret
    <3>1. /\ pc' = [pc EXCEPT ![e] = "run", ![r] = "got"]
          /\ request' = [request EXCEPT ![e] = NoRequest] /\ ret' = ret /\ life' = life
          /\ env_ipc_from' = [env_ipc_from EXCEPT ![r] = e]
          /\ env_ipc_value' = [env_ipc_value EXCEPT ![r] = q.val]
      BY <1>3, <2>1 DEF sys_ipc_try_send
    <3>2. QED  BY <1>0, <1>t, <2>1, <3>1 DEF IpcType
  <2>3. offered(e) = [to |-> r, life |-> life[r], msg |-> q.val]
    BY <2>1 DEF offered
  <2>4. offered(e)' = NoRequest /\ offered(r)' = NoRequest /\ offered(r) = NoRequest
    BY <2>1, <2>2 DEF offered
  <2>5. received(r)' = [from |-> e, msg |-> q.val]
    BY <2>1, <2>2 DEF received, message, fields
  <2>6. received(e)' = received(e)
    BY <1>t, <2>1, <2>2 DEF received
  <2>7. /\ off[e] # NoRequest /\ off[e].to = r /\ off[e].life = life[r] /\ off[e].msg = q.val
        /\ wait[r]
    <3>1. offered(e) # NoRequest
      BY <2>1, ShownStates
    <3>2. off[e] = offered(e) /\ wait[r] = (pc[r] = "recv")
      OBVIOUS
    <3> HIDE DEF off, wait
    <3>3. off[e].to = r /\ off[e].life = life[r] /\ off[e].msg = q.val
      BY <2>3, <3>2
    <3>4. QED  BY <2>1, <3>1, <3>2, <3>3
  <2>8. off' = [off EXCEPT ![e] = NoRequest]
    BY <2>1, <2>2, <2>4
  <2>9. wait' = [wait EXCEPT ![r] = FALSE]
    BY <2>1, <2>2
  <2>10. res' = [res EXCEPT ![r] = [from |-> e, msg |-> q.val]]
    BY <2>1, <2>2, <2>5, <2>6
  <2> HIDE DEF off, wait, res
  <2>11. Meeting!Transfer(e, r)
    BY <2>2, <2>7, <2>8, <2>9, <2>10 DEF Meeting!Transfer, off, wait, res
  <2>12. QED  BY <2>1, <2>11 DEF Meeting!Next
<1>4. ASSUME NEW e \in Env, ipc_send_retry(e) \/ ipc_send_panic(e) PROVE UNCHANGED Meeting!vars
  <2>1. Same({}) /\ life' = life
    BY <1>0, <1>4 DEF ipc_send_retry, ipc_send_panic, vars, ipcvars
  <2>2. QED  BY <2>1 DEF Meeting!vars
<1>5. ASSUME NEW e \in Env, ipc_recv_return(e) PROVE UNCHANGED Meeting!vars
  <2>1. Same({e}) /\ life' = life /\ pc[e] = "got" /\ pc'[e] = "run" /\ ret'[e] = fields(e)
    BY <1>0, <1>5, <1>t DEF ipc_recv_return, ipcvars, IpcType
  <2>2. offered(e)' = offered(e) /\ received(e)' = received(e)
    BY <2>1 DEF offered, received, message
  <2>3. off' = off /\ wait' = wait /\ res' = res
    BY <2>1, <2>2
  <2>4. QED  BY <2>1, <2>3 DEF Meeting!vars
<1>6. ASSUME NEW e \in Env, NEW asks \in Asks, ipc_recv(e, asks) PROVE Meeting!Next
  <2>1. /\ Same({e}) /\ life' = life /\ pc[e] = "run" /\ pc'[e] = "recv" /\ ret'[e] = NoMessage
    BY <1>0, <1>6, <1>t DEF ipc_recv, IpcType
  <2>2. /\ offered(e) = NoRequest /\ offered(e)' = NoRequest /\ received(e)' = NoMessage
    BY <2>1 DEF offered, received, message, NoMessage
  <2>3. /\ off' = off /\ wait' = [wait EXCEPT ![e] = TRUE] /\ res' = [res EXCEPT ![e] = NoMessage]
    BY <2>1, <2>2
  <2>4. Meeting!Wait(e)
    BY <2>1, <2>2, <2>3 DEF Meeting!Wait, Meeting!Idle
  <2>5. QED  BY <2>4 DEF Meeting!Next
<1>7. ASSUME NEW e \in Env, NEW f \in Env, fork(e, f) PROVE Meeting!Next
  <2>1. /\ Same({f}) /\ life' = [life EXCEPT ![f] = @ + 1] /\ pc[f] = "free" /\ pc'[f] = "run" /\ ret' = ret
    BY <1>0, <1>7, <1>t DEF fork, ipcvars, IpcType
  <2>2. offered(f) = NoRequest /\ offered(f)' = NoRequest /\ received(f) = NoMessage
    BY <2>1, ShownStates DEF offered
  <2>3. received(f)' = NoMessage
    BY <2>1, <2>2 DEF received, message
  <2>4. off' = off /\ wait' = wait /\ res' = [res EXCEPT ![f] = NoMessage]
    BY <2>1, <2>2, <2>3
  <2>5. Meeting!Turn(f)
    BY <2>1, <2>2, <2>4 DEF Meeting!Turn, Meeting!Idle
  <2>6. QED  BY <2>5 DEF Meeting!Next
<1>8. ASSUME NEW e \in Env, NEW f \in Env, NEW m \in Letters(e), ipc_send(e, f, m[1], m[2])
      PROVE  Meeting!Next
  <2>1. /\ Same({e}) /\ life' = life /\ pc[e] = "run" /\ pc'[e] = "send" /\ ret'[e] = NoMessage
        /\ request'[e] = [to |-> f, gen |-> env_id[f], life |-> life[f], val |-> m[1], perm |-> m[2]]
    BY <1>0, <1>8, <1>t DEF ipc_send, ipcvars, IpcType
  <2>2. /\ offered(e) = NoRequest /\ received(e)' = NoMessage
        /\ offered(e)' = [to |-> f, life |-> life[f], msg |-> m[1]]
    BY <2>1 DEF offered, received, message, NoMessage
  <2>3. /\ off' = [off EXCEPT ![e] = [to |-> f, life |-> life[f], msg |-> m[1]]]
        /\ wait' = wait /\ res' = [res EXCEPT ![e] = NoMessage]
    BY <2>1, <2>2
  <2>4. Meeting!Offer(e, f, m[1])
    BY <2>1, <2>2, <2>3 DEF Meeting!Offer, Meeting!Idle
  <2>5. QED  BY <2>4, LetterParts DEF Meeting!Next
<1>9. QED  BY <1>1, <1>2, <1>3, <1>4, <1>5, <1>6, <1>7, <1>8 DEF Next

\* ipc_send and ipc_recv implement the rendezvous: each message arrives once,
\* unmixed with others, at the environment and in the life it was meant for.
THEOREM IpcImplementsRendezvous == Spec => MessagesMeet
<1>1. QED  BY Invariant, InitMeets, StepMeets, PTL DEF Spec, MessagesMeet, Meeting!Spec
=============================================================================
