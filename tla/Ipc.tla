--------------------------------- MODULE Ipc --------------------------------
(***************************************************************************)
(* Messages between environments: lib/ipc.c over sys_ipc_try_send and      *)
(* sys_ipc_recv of kern/syscall.c, and the env_ids that address them.      *)
(*                                                                         *)
(* A system call is one step (the big kernel lock, module Kernel).  The    *)
(* steps of others fall between the retries of ipc_send, and between the   *)
(* wake-up of a receiver and its reading of its own Env structure.  Slots  *)
(* of envs[] are reused while senders may still hold the former owner's    *)
(* env_id.                                                                 *)
(***************************************************************************)
EXTENDS Naturals

CONSTANTS
  NENV,         \* length of envs[]
  Values,       \* what is sent
  Perms,        \* permissions a page may be sent with
  Letters(_),   \* what an environment sends: pairs of a value and a permission, or NoPage
  Asks,         \* do receivers ask for a page?  A subset of BOOLEAN
  GenMod,       \* generations of an env_id before it wraps (2^19 in the code)
  StartGen,     \* generation of the slots at the start
  MaxForks      \* bound: how often a slot is allocated from then on

Env == 1..NENV
NoPage == 0     \* env_ipc_perm without a page, a srcva or dstva at UTOP

\* No id comes round while someone may still hold it: there are GenMod - 1.
ASSUME GenAssumption == GenMod \in Nat /\ MaxForks \in Nat /\ MaxForks < GenMod - 1 /\ StartGen \in 1..(GenMod - 1)
ASSUME EnvAssumption == NENV \in Nat
ASSUME PermAssumption == NoPage \notin Perms
ASSUME LetterAssumption == \A e \in Env : Letters(e) \subseteq Values \X (Perms \cup {NoPage})

VARIABLES
  pc,           \* "free", "run", "send" (ipc_send's loop), "recv" (blocked), "got" (woken)
  env_id,       \* the generation in the slot's env_id
  request,      \* arguments of the ipc_send in progress: [to, gen, life, val, perm]
  env_ipc_recving, env_ipc_dstva,   \* dstva: does the receiver ask for a page?
  env_ipc_from, env_ipc_value, env_ipc_perm,
  ret,          \* what ipc_recv returned, until the next call: [from, val, perm]
  stopped,      \* does a processor sit in the kernel monitor, holding the kernel lock?
  life,         \* ghost: births and deaths in the slot since the start
  forks,        \* ghost: slots allocated since the start
  page          \* ghost: did that message bring a page?

ipcvars == <<env_ipc_recving, env_ipc_dstva, env_ipc_from, env_ipc_value, env_ipc_perm>>
vars == <<pc, env_id, request, ipcvars, ret, stopped, life, forks, page>>

NoRequest == [to |-> 0]
NoMessage == [from |-> 0, val |-> 0, perm |-> NoPage]

-----------------------------------------------------------------------------
\* Mutant: a reused slot keeps its id.
generation_kept(e) == IF env_id[e] = 0 THEN 1 ELSE env_id[e]

\* env_alloc's next generation; 0 is skipped.
generation(e) == IF env_id[e] + 1 = GenMod THEN 1 ELSE env_id[e] + 1

\* envid2env without checkperm: does <<e, gen>> name an environment?
envid2env(e, gen) == pc[e] # "free" /\ env_id[e] = gen

\* The kernel lock, which every system call takes, is not lost to the monitor.
kernel_lives == ~stopped

\* fork as far as it matters here (module Fork): env_alloc gives the slot a
\* new id and leaves the env_ipc fields as its former owner left them.
fork(e, child) ==
  /\ kernel_lives /\ pc[e] = "run" /\ pc[child] = "free" /\ forks < MaxForks
  /\ pc' = [pc EXCEPT ![child] = "run"]
  /\ env_id' = [env_id EXCEPT ![child] = generation(child)]
  /\ life' = [life EXCEPT ![child] = @ + 1]
  /\ forks' = forks + 1
  /\ UNCHANGED <<request, ipcvars, ret, stopped, page>>

\* exit, with the env_free it ends in.
exit(e) ==
  /\ kernel_lives /\ pc[e] = "run"
  /\ pc' = [pc EXCEPT ![e] = "free"]
  /\ request' = [request EXCEPT ![e] = NoRequest]
  /\ ret' = [ret EXCEPT ![e] = NoMessage]
  /\ page' = [page EXCEPT ![e] = FALSE]
  /\ life' = [life EXCEPT ![e] = @ + 1]
  /\ UNCHANGED <<env_id, ipcvars, stopped, forks>>

-----------------------------------------------------------------------------
\* ipc_send(to_env, val, pg, perm), perm = NoPage for a null pg.
ipc_send(e, to, val, perm) ==
  /\ pc[e] = "run" /\ to # e /\ pc[to] # "free"
  /\ pc' = [pc EXCEPT ![e] = "send"]
  /\ request' = [request EXCEPT ![e] =
       [to |-> to, gen |-> env_id[to], life |-> life[to], val |-> val, perm |-> perm]]
  /\ ret' = [ret EXCEPT ![e] = NoMessage]
  /\ page' = [page EXCEPT ![e] = FALSE]
  /\ UNCHANGED <<env_id, ipcvars, stopped, life, forks>>

\* Mutant: the receiver is not made runnable.
sys_ipc_try_send_asleep(e) ==
  LET q == request[e]
  IN /\ kernel_lives /\ pc[e] = "send" /\ envid2env(q.to, q.gen) /\ env_ipc_recving[q.to]
     /\ env_ipc_recving' = [env_ipc_recving EXCEPT ![q.to] = FALSE]
     /\ env_ipc_from' = [env_ipc_from EXCEPT ![q.to] = e]
     /\ env_ipc_value' = [env_ipc_value EXCEPT ![q.to] = q.val]
     /\ pc' = [pc EXCEPT ![e] = "run"]
     /\ request' = [request EXCEPT ![e] = NoRequest]
     /\ UNCHANGED <<env_id, env_ipc_dstva, env_ipc_perm, ret, stopped, life, page, forks>>

\* A try that succeeds: the receiver's fields are set and it is woken.  With a
\* page its permission is recorded; without one env_ipc_perm is left alone.
sys_ipc_try_send(e) ==
  LET q == request[e]
  IN /\ kernel_lives /\ pc[e] = "send" /\ envid2env(q.to, q.gen) /\ env_ipc_recving[q.to]
     /\ env_ipc_recving' = [env_ipc_recving EXCEPT ![q.to] = FALSE]
     /\ env_ipc_from' = [env_ipc_from EXCEPT ![q.to] = e]
     /\ env_ipc_value' = [env_ipc_value EXCEPT ![q.to] = q.val]
     /\ env_ipc_perm' = IF q.perm = NoPage THEN env_ipc_perm ELSE [env_ipc_perm EXCEPT ![q.to] = q.perm]
     /\ page' = [page EXCEPT ![q.to] = q.perm # NoPage /\ env_ipc_dstva[q.to]]
     /\ pc' = [pc EXCEPT ![e] = "run", ![q.to] = "got"]
     /\ request' = [request EXCEPT ![e] = NoRequest]
     /\ UNCHANGED <<env_id, env_ipc_dstva, ret, stopped, life, forks>>

\* -E_IPC_NOT_RECV: sys_yield and try again.
ipc_send_retry(e) ==
  LET q == request[e]
  IN kernel_lives /\ pc[e] = "send" /\ envid2env(q.to, q.gen) /\ ~env_ipc_recving[q.to] /\ UNCHANGED vars

\* The tries that end in panic: -E_BAD_ENV, and for a page to a receiver that
\* waits -E_INVAL (perm refused, nothing mapped at srcva, PTE_W on a read-only
\* page) or -E_NO_MEM (no page for a table), which the address spaces decide
\* (module Pmap).  Nothing of the receiver has changed.  panic breaks into the
\* kernel monitor, which never gives the kernel lock back.
ipc_send_panic(e) ==
  LET q == request[e]
  IN /\ kernel_lives /\ pc[e] = "send"
     /\ envid2env(q.to, q.gen) => env_ipc_recving[q.to] /\ q.perm # NoPage
     /\ stopped' = TRUE
     /\ UNCHANGED <<pc, env_id, request, ipcvars, ret, life, forks, page>>

\* ipc_recv(from, pg, perm), asks = is pg non-null?  sys_ipc_recv blocks.
ipc_recv(e, asks) ==
  /\ kernel_lives /\ pc[e] = "run"
  /\ pc' = [pc EXCEPT ![e] = "recv"]
  /\ env_ipc_recving' = [env_ipc_recving EXCEPT ![e] = TRUE]
  /\ env_ipc_dstva' = [env_ipc_dstva EXCEPT ![e] = asks]
  /\ ret' = [ret EXCEPT ![e] = NoMessage]
  /\ page' = [page EXCEPT ![e] = FALSE]
  /\ UNCHANGED <<env_id, request, env_ipc_from, env_ipc_value, env_ipc_perm, stopped, life, forks>>

\* The rest of ipc_recv, once the environment is scheduled again.  It runs in
\* user mode, like the call of ipc_send, and needs no kernel.
fields(e) == [from |-> env_ipc_from[e], val |-> env_ipc_value[e], perm |-> env_ipc_perm[e]]

ipc_recv_return(e) ==
  /\ pc[e] = "got"
  /\ pc' = [pc EXCEPT ![e] = "run"]
  /\ ret' = [ret EXCEPT ![e] = fields(e)]
  /\ UNCHANGED <<env_id, request, ipcvars, stopped, life, page, forks>>

-----------------------------------------------------------------------------
\* All slots are in use, after any number of uses before.
Init ==
  /\ pc = [e \in Env |-> "run"]
  /\ env_id = [e \in Env |-> StartGen]
  /\ request = [e \in Env |-> NoRequest]
  /\ env_ipc_recving = [e \in Env |-> FALSE] /\ env_ipc_dstva = [e \in Env |-> FALSE]
  /\ env_ipc_from = [e \in Env |-> 0] /\ env_ipc_value = [e \in Env |-> 0]
  /\ env_ipc_perm = [e \in Env |-> NoPage]
  /\ ret = [e \in Env |-> NoMessage]
  /\ life = [e \in Env |-> 0]
  /\ page = [e \in Env |-> FALSE]
  /\ forks = 0 /\ stopped = FALSE

Next ==
  \E e \in Env :
    \/ exit(e) \/ sys_ipc_try_send(e) \/ ipc_send_retry(e) \/ ipc_send_panic(e) \/ ipc_recv_return(e)
    \/ \E asks \in Asks : ipc_recv(e, asks)
    \/ \E f \in Env : fork(e, f) \/ \E m \in Letters(e) : ipc_send(e, f, m[1], m[2])

Spec == Init /\ [][Next]_vars

\* The scheduler runs every environment that can run again and again (module
\* Kernel).  For a sender that retries this is weak fairness only: it succeeds
\* if from some time on every try would, not if its tries keep coming when the
\* receiver is busy with others.
Try(e) == sys_ipc_try_send(e) \/ ipc_send_panic(e)
Fairness == \A e \in Env : WF_vars(Try(e)) /\ WF_vars(kernel_lives /\ ipc_recv_return(e))

FairSpec == Spec /\ Fairness

-----------------------------------------------------------------------------
\* What the rendezvous shows of a state: a blocked sender offers, and a woken
\* receiver already has the message its Env structure holds.
offered(e) ==
  IF pc[e] # "send" THEN NoRequest
  ELSE [to |-> request[e].to, life |-> request[e].life, msg |-> request[e].val]
message(m) == IF m.from = 0 THEN NoMessage ELSE [from |-> m.from, msg |-> m.val]
received(e) == message(IF pc[e] = "got" THEN fields(e) ELSE ret[e])

Meeting == INSTANCE Rendezvous WITH
  Proc <- Env, Message <- Values, NoOffer <- NoRequest, NoMessage <- NoMessage,
  offer <- [e \in Env |-> offered(e)],
  waiting <- [e \in Env |-> pc[e] = "recv"],
  result <- [e \in Env |-> received(e)]

\* ipc_send and ipc_recv implement the rendezvous: although a receiver reads
\* the message from its Env structure only later, and senders go by an env_id,
\* each message arrives once, unmixed with others, at the environment it was
\* meant for and never at a later owner of the slot.
MessagesMeet == Meeting!Spec

\* ipc_send "keeps trying until it succeeds": while someone is sending to a
\* blocked receiver, the receiver gets a message and wakes, unless a panic of
\* some sender stops the machine.
AwaitedMessageArrives ==
  \A e \in Env :
    (pc[e] = "recv" /\ \E f \in Env : pc[f] = "send" /\ request[f].to = e /\ request[f].gen = env_id[e])
      ~> (pc[e] # "recv" \/ stopped)

\* ipc_recv's "this is nonzero iff a page was successfully transferred": the
\* permission ipc_recv returns tells whether this message brought a page.
PermTellsPage ==
  \A e \in Env : (pc[e] = "run" /\ ret[e].from # 0) => (ret[e].perm # NoPage <=> page[e])
=============================================================================
