------------------------------- MODULE Kernel -------------------------------
(***************************************************************************)
(* Environments, processors and the big kernel lock: kern/env.c,           *)
(* kern/sched.c, kern/trap.c, kern/spinlock.[ch] and the environment and   *)
(* IPC system calls of kern/syscall.c.                                     *)
(*                                                                         *)
(* A processor enters the kernel by a trap, spins for the lock, runs one   *)
(* handler to its end (trap() never returns: it leaves through env_run or  *)
(* sched_halt) and releases the lock.  A handler is one step; the steps of *)
(* other processors fall between trap entry, lock acquisition, handler,    *)
(* and the iret of env_pop_tf, which comes after unlock_kernel().  Memory  *)
(* (module Pmap), registers and message values are abstracted.             *)
(***************************************************************************)
EXTENDS Integers, Sequences, FiniteSets

CONSTANTS
  CPU, BSP,   \* processors, the boot processor
  NENV,       \* length of envs[]
  NInit,      \* environments i386_init creates before it calls sched_yield
  GenMod,     \* env_id generations before the number wraps (2^19 in the code)
  NoCpu,      \* kernel_lock when it is free
  Calls,      \* the traps in play, a subset of AllCalls
  Rules       \* discipline of the user programs, see MaySetStatus and MayDestroy

AllCalls == {"sched", "fork", "wake", "sleep", "destroy", "ipc", "brkpt"}

ASSUME CpuAssumption == BSP \in CPU /\ NoCpu \notin CPU
ASSUME EnvAssumption == NENV \in Nat /\ NInit \in 1..NENV /\ GenMod \in Nat /\ GenMod > 1
ASSUME CallsAssumption ==
  Calls \subseteq AllCalls /\ Rules \subseteq {"settled", "destroy_once", "spare_receiver"}

Env == 0..(NENV - 1)
NoEnv == -1              \* a NULL curenv; sched_yield's index then starts at -1

VARIABLES
  kernel_lock,      \* the processor holding the lock, or NoCpu
  pc,               \* where a processor is, see Places
  cpu_env,          \* curenv of a processor
  cpu_status,       \* cpu_status of a processor
  env_status,
  env_id,           \* the generation part of env_id
  env_parent_id,    \* <<slot, generation>> of the parent
  env_ipc_recving,
  env_free_list     \* the free list, head first

ids == <<env_id, env_parent_id>>
cpuvars == <<kernel_lock, pc, cpu_env, cpu_status>>
vars == <<cpuvars, env_status, ids, env_ipc_recving, env_free_list>>

Statuses == {"FREE", "DYING", "RUNNABLE", "RUNNING", "NOT_RUNNABLE"}
Places ==
  {"user",      \* user mode
   "enter",     \* trapped from user mode, spinning in lock_kernel()
   "trap",      \* has the lock, before trap()'s test for ENV_DYING
   "pop",       \* released the lock in env_run, before env_pop_tf's iret
   "halted",    \* hlt loop of sched_halt, interrupts on
   "wake",      \* interrupted there, spinning in trap()'s first lock_kernel()
   "apboot",    \* mp_main, spinning in lock_kernel()
   "sched",     \* has the lock, before sched_yield()
   "monitor",   \* sched_halt found nothing to run: kernel monitor for good
   "brkpt",     \* monitor() called for a breakpoint trap
   "panic"}     \* spin_lock's "already holding"
InKernel == {"trap", "sched", "monitor", "brkpt"}
OnCpu == {"user", "enter", "trap", "pop", "brkpt"}

TypeOK ==
  /\ kernel_lock \in CPU \cup {NoCpu}
  /\ pc \in [CPU -> Places]
  /\ cpu_env \in [CPU -> Env \cup {NoEnv}]
  /\ cpu_status \in [CPU -> {"STARTED", "HALTED"}]
  /\ env_status \in [Env -> Statuses]
  /\ env_id \in [Env -> 0..(GenMod - 1)]
  /\ env_parent_id \in [Env -> (Env \cup {NoEnv}) \X (0..(GenMod - 1))]
  /\ env_ipc_recving \in [Env -> BOOLEAN]
  /\ env_free_list \in Seq(Env)

-----------------------------------------------------------------------------
\* Operators ending in the processor's departure from the kernel take cur, the
\* value curenv has by then, and st, the statuses the handler left.

\* Mutant: the environment is not marked ENV_RUNNING.
env_run_unmarked(c, cur, e, st) ==
  /\ env_status' = st
  /\ cpu_env' = [cpu_env EXCEPT ![c] = e]
  /\ kernel_lock' = NoCpu
  /\ pc' = [pc EXCEPT ![c] = "pop"]
  /\ UNCHANGED cpu_status

\* The environment switched away from goes back to ENV_RUNNABLE if it was
\* ENV_RUNNING; the lock is released before the registers are restored.
preempted(cur, st) ==
  [x \in Env |-> IF x = cur /\ st[x] = "RUNNING" THEN "RUNNABLE" ELSE st[x]]

env_run(c, cur, e, st) ==
  /\ env_status' = [preempted(cur, st) EXCEPT ![e] = "RUNNING"]
  /\ cpu_env' = [cpu_env EXCEPT ![c] = e]
  /\ kernel_lock' = NoCpu
  /\ pc' = [pc EXCEPT ![c] = "pop"]
  /\ UNCHANGED cpu_status

\* Mutant: only ENV_RUNNABLE environments keep the system out of the monitor.
sched_halt_runnable(c, cur, st) ==
  /\ env_status' = st
  /\ pc' = [pc EXCEPT ![c] = "monitor"]
  /\ cpu_env' = [cpu_env EXCEPT ![c] = cur]
  /\ UNCHANGED <<cpu_status, kernel_lock>>

\* Mutant: cpu_status is not set to CPU_HALTED.
sched_halt_unmarked(c, cur, st) ==
  /\ env_status' = st
  /\ pc' = [pc EXCEPT ![c] = "halted"]
  /\ cpu_env' = [cpu_env EXCEPT ![c] = NoEnv]
  /\ kernel_lock' = NoCpu
  /\ UNCHANGED cpu_status

sched_halt(c, cur, st) ==
  /\ env_status' = st
  /\ IF \E e \in Env : st[e] \in {"RUNNABLE", "RUNNING", "DYING"}
     THEN /\ pc' = [pc EXCEPT ![c] = "halted"]
          /\ cpu_env' = [cpu_env EXCEPT ![c] = NoEnv]
          /\ cpu_status' = [cpu_status EXCEPT ![c] = "HALTED"]
          /\ kernel_lock' = NoCpu
     ELSE /\ pc' = [pc EXCEPT ![c] = "monitor"]
          /\ cpu_env' = [cpu_env EXCEPT ![c] = cur]
          /\ UNCHANGED <<cpu_status, kernel_lock>>

\* How many slots after cur the circular search meets slot i (cur may be -1).
dist(i, cur) == IF i > cur THEN i - cur ELSE (i - cur) + NENV

\* Mutant: the scheduler takes any environment that wants a processor.
runnable_dying(st) == {e \in Env : st[e] \in {"RUNNABLE", "DYING"}}

runnable(st) == {e \in Env : st[e] = "RUNNABLE"}

\* Mutant: the search does not wrap at NENV.
sched_yield_nowrap(c, cur, st) ==
  IF runnable(st) = {} THEN sched_halt(c, cur, st) ELSE env_run(c, cur, cur + 1, st)

\* Mutant: curenv keeps the processor as long as it is ENV_RUNNING.
sched_yield_self(c, cur, st) ==
  IF cur # NoEnv /\ st[cur] = "RUNNING" THEN env_run(c, cur, cur, st)
  ELSE \/ \E e \in runnable(st) :
            /\ \A f \in runnable(st) : dist(e, cur) <= dist(f, cur)
            /\ env_run(c, cur, e, st)
       \/ runnable(st) = {} /\ sched_halt(c, cur, st)

\* The first ENV_RUNNABLE slot after curenv's; else curenv if it is still
\* ENV_RUNNING; else halt.
sched_yield(c, cur, st) ==
  \/ \E e \in runnable(st) :
       /\ \A f \in runnable(st) : dist(e, cur) <= dist(f, cur)
       /\ env_run(c, cur, e, st)
  \/ /\ runnable(st) = {}
     /\ IF cur # NoEnv /\ st[cur] = "RUNNING"
        THEN env_run(c, cur, cur, st)
        ELSE sched_halt(c, cur, st)

\* The end of trap(): back to curenv if it is still ENV_RUNNING.
trap_tail(c, st) ==
  IF st[cpu_env[c]] = "RUNNING"
  THEN env_run(c, cpu_env[c], cpu_env[c], st)
  ELSE sched_yield(c, cpu_env[c], st)

-----------------------------------------------------------------------------
\* Trap entry from user mode.  A processor marked CPU_HALTED would take the
\* lock twice, on which spin_lock panics.
trap_user(c) ==
  /\ pc[c] = "user"
  /\ pc' = [pc EXCEPT ![c] = IF cpu_status[c] = "HALTED" THEN "panic" ELSE "enter"]
  /\ cpu_status' = [cpu_status EXCEPT ![c] = "STARTED"]
  /\ UNCHANGED <<kernel_lock, cpu_env, env_status, ids, env_ipc_recving, env_free_list>>

\* The timer interrupts the hlt loop.  trap() takes the lock only if the
\* processor was marked CPU_HALTED, and goes on to sched_yield.
trap_halted(c) ==
  /\ pc[c] = "halted"
  /\ pc' = [pc EXCEPT ![c] = IF cpu_status[c] = "HALTED" THEN "wake" ELSE "sched"]
  /\ cpu_status' = [cpu_status EXCEPT ![c] = "STARTED"]
  /\ UNCHANGED <<kernel_lock, cpu_env, env_status, ids, env_ipc_recving, env_free_list>>

lock_kernel(c) ==
  /\ pc[c] \in {"enter", "wake", "apboot"}
  /\ kernel_lock = NoCpu
  /\ kernel_lock' = c
  /\ pc' = [pc EXCEPT ![c] = IF pc[c] = "enter" THEN "trap" ELSE "sched"]
  /\ UNCHANGED <<cpu_env, cpu_status, env_status, ids, env_ipc_recving, env_free_list>>

\* sched_yield of i386_init, mp_main and of the timer interrupt of a halted
\* processor.
sched(c) ==
  /\ pc[c] = "sched"
  /\ sched_yield(c, cpu_env[c], env_status)
  /\ UNCHANGED <<ids, env_ipc_recving, env_free_list>>

env_pop_tf(c) ==
  /\ pc[c] = "pop"
  /\ pc' = [pc EXCEPT ![c] = "user"]
  /\ UNCHANGED <<kernel_lock, cpu_env, cpu_status, env_status, ids, env_ipc_recving, env_free_list>>

\* Mutant: the zombie is descheduled but not freed.
reap_nofree(c) ==
  /\ pc[c] = "trap" /\ env_status[cpu_env[c]] = "DYING"
  /\ sched_yield(c, NoEnv, env_status)
  /\ UNCHANGED <<env_free_list, ids, env_ipc_recving>>

\* trap() garbage-collects a zombie: env_free, curenv = NULL, sched_yield.
reap(c) ==
  LET e == cpu_env[c]
  IN /\ pc[c] = "trap" /\ env_status[e] = "DYING"
     /\ env_free_list' = <<e>> \o env_free_list
     /\ sched_yield(c, NoEnv, [env_status EXCEPT ![e] = "FREE"])
     /\ UNCHANGED <<ids, env_ipc_recving>>

\* A trap is dispatched for an environment that is not a zombie.
Dispatch(c, call) ==
  pc[c] = "trap" /\ env_status[cpu_env[c]] # "DYING" /\ call \in Calls

\* A clock interrupt (lapic_eoi, sched_yield) or sys_yield.
sys_yield(c) ==
  /\ Dispatch(c, "sched")
  /\ sched_yield(c, cpu_env[c], env_status)
  /\ UNCHANGED <<ids, env_ipc_recving, env_free_list>>

\* Every trap that leaves this state alone: the other system calls and all
\* error returns, a spurious interrupt, a page fault with an upcall.
trap_other(c) ==
  /\ Dispatch(c, "sched")
  /\ trap_tail(c, env_status)
  /\ UNCHANGED <<ids, env_ipc_recving, env_free_list>>

\* A breakpoint enters the monitor, none of whose commands returns.
brkpt(c) ==
  /\ Dispatch(c, "brkpt")
  /\ pc' = [pc EXCEPT ![c] = "brkpt"]
  /\ UNCHANGED <<kernel_lock, cpu_env, cpu_status, env_status, ids, env_ipc_recving, env_free_list>>

\* The monitor's read loop; it keeps the lock.
monitor(c) == pc[c] \in {"monitor", "brkpt"} /\ UNCHANGED vars

-----------------------------------------------------------------------------
\* Mutant: env_alloc does not take the slot off the list.
sys_exofork_kept(c) ==
  /\ Dispatch(c, "fork") /\ env_free_list # <<>>
  /\ trap_tail(c, [env_status EXCEPT ![Head(env_free_list)] = "NOT_RUNNABLE"])
  /\ UNCHANGED <<ids, env_free_list, env_ipc_recving>>

\* env_alloc takes the head of the list, gives it the next generation of its
\* env_id, and leaves env_ipc_recving as it was.
sys_exofork(c) ==
  LET e == Head(env_free_list)
      generation == IF env_id[e] = GenMod - 1 THEN 1 ELSE env_id[e] + 1
  IN /\ Dispatch(c, "fork") /\ env_free_list # <<>>
     /\ env_free_list' = Tail(env_free_list)
     /\ env_id' = [env_id EXCEPT ![e] = generation]
     /\ env_parent_id' = [env_parent_id EXCEPT ![e] = <<cpu_env[c], env_id[cpu_env[c]]>>]
     /\ trap_tail(c, [env_status EXCEPT ![e] = "NOT_RUNNABLE"])
     /\ UNCHANGED env_ipc_recving

\* envid2env with checkperm: the caller itself or an immediate child.
envid2env(c, e) ==
  LET cur == cpu_env[c]
  IN env_status[e] # "FREE" /\ (e = cur \/ env_parent_id[e] = <<cur, env_id[cur]>>)

\* Rule "settled": sys_env_set_status names the caller or an environment that
\* is neither on a processor nor blocked in sys_ipc_recv, as lib/fork.c and
\* user/dumbfork.c do when they start the child sys_exofork made.
MaySetStatus(c, e) ==
  "settled" \in Rules =>
    \/ e = cpu_env[c]
    \/ env_status[e] \in {"RUNNABLE", "NOT_RUNNABLE"} /\ ~env_ipc_recving[e]

sys_env_set_status(c, e, s) ==
  /\ Dispatch(c, IF s = "RUNNABLE" THEN "wake" ELSE "sleep")
  /\ envid2env(c, e) /\ MaySetStatus(c, e)
  /\ trap_tail(c, [env_status EXCEPT ![e] = s])
  /\ UNCHANGED <<ids, env_ipc_recving, env_free_list>>

\* Rule "destroy_once": nobody destroys an environment that is already
\* ENV_DYING.  Rule "spare_receiver": nor one that is blocked in sys_ipc_recv.
MayDestroy(e) ==
  /\ "destroy_once" \in Rules => env_status[e] # "DYING"
  /\ "spare_receiver" \in Rules => ~env_ipc_recving[e]

\* Mutant: env_destroy frees an environment another processor is running.
env_destroy_now(c, e) ==
  /\ env_free_list' = <<e>> \o env_free_list
  /\ LET st == [env_status EXCEPT ![e] = "FREE"]
     IN IF e = cpu_env[c] THEN sched_yield(c, NoEnv, st) ELSE trap_tail(c, st)

\* An environment running on another processor becomes a zombie, any other is
\* freed; destroying curenv ends in sched_yield.
env_destroy(c, e) ==
  IF env_status[e] = "RUNNING" /\ e # cpu_env[c]
  THEN /\ trap_tail(c, [env_status EXCEPT ![e] = "DYING"])
       /\ UNCHANGED env_free_list
  ELSE /\ env_free_list' = <<e>> \o env_free_list
       /\ LET st == [env_status EXCEPT ![e] = "FREE"]
          IN IF e = cpu_env[c] THEN sched_yield(c, NoEnv, st) ELSE trap_tail(c, st)

\* sys_env_destroy; with e = curenv also a page fault without an upcall or
\* exception stack, and any trap the kernel does not expect.
sys_env_destroy(c, e) ==
  /\ Dispatch(c, "destroy")
  /\ envid2env(c, e) /\ MayDestroy(e)
  /\ env_destroy(c, e)
  /\ UNCHANGED <<ids, env_ipc_recving>>

sys_ipc_recv(c) ==
  /\ Dispatch(c, "ipc")
  /\ env_ipc_recving' = [env_ipc_recving EXCEPT ![cpu_env[c]] = TRUE]
  /\ sched_yield(c, cpu_env[c], [env_status EXCEPT ![cpu_env[c]] = "NOT_RUNNABLE"])
  /\ UNCHANGED <<ids, env_free_list>>

\* Mutant: env_ipc_recving is not reset.
sys_ipc_try_send_norst(c, e) ==
  /\ Dispatch(c, "ipc")
  /\ env_status[e] # "FREE" /\ env_ipc_recving[e]
  /\ trap_tail(c, [env_status EXCEPT ![e] = "RUNNABLE"])
  /\ UNCHANGED <<ids, env_free_list, env_ipc_recving>>

\* Only env_ipc_recving is tested; env_status is overwritten.
sys_ipc_try_send(c, e) ==
  /\ Dispatch(c, "ipc")
  /\ env_status[e] # "FREE" /\ env_ipc_recving[e]
  /\ env_ipc_recving' = [env_ipc_recving EXCEPT ![e] = FALSE]
  /\ trap_tail(c, [env_status EXCEPT ![e] = "RUNNABLE"])
  /\ UNCHANGED <<ids, env_free_list>>

-----------------------------------------------------------------------------
\* The state in which i386_init calls sched_yield: the boot processor holds
\* the lock, envs[0..NInit-1] exist, the others spin in mp_main.
Init ==
  /\ kernel_lock = BSP
  /\ pc = [c \in CPU |-> IF c = BSP THEN "sched" ELSE "apboot"]
  /\ cpu_env = [c \in CPU |-> NoEnv]
  /\ cpu_status = [c \in CPU |-> "STARTED"]
  /\ env_status = [e \in Env |-> IF e < NInit THEN "RUNNABLE" ELSE "FREE"]
  /\ env_id = [e \in Env |-> IF e < NInit THEN 1 ELSE 0]
  /\ env_parent_id = [e \in Env |-> <<NoEnv, 0>>]
  /\ env_ipc_recving = [e \in Env |-> FALSE]
  /\ env_free_list = [i \in 1..(NENV - NInit) |-> (NInit + i) - 1]

Handler(c) ==
  \/ sched(c) \/ reap(c) \/ sys_yield(c) \/ trap_other(c) \/ brkpt(c) \/ monitor(c)
  \/ sys_exofork(c) \/ sys_ipc_recv(c)
  \/ \E e \in Env : \/ sys_env_destroy(c, e) \/ sys_ipc_try_send(c, e)
                    \/ \E s \in {"RUNNABLE", "NOT_RUNNABLE"} : sys_env_set_status(c, e, s)

Next ==
  \E c \in CPU : trap_user(c) \/ trap_halted(c) \/ lock_kernel(c) \/ env_pop_tf(c) \/ Handler(c)

Spec == Init /\ [][Next]_vars

\* Processors never stop (the timer interrupts both user mode and hlt), a
\* processor that keeps spinning gets the lock, and the timer interrupts an
\* environment again and again, so that among the traps it makes there are
\* always more clock interrupts.
Fairness ==
  \A c \in CPU :
    /\ WF_vars(trap_user(c)) /\ WF_vars(trap_halted(c)) /\ WF_vars(env_pop_tf(c))
    /\ WF_vars(Handler(c))
    /\ SF_vars(lock_kernel(c))
    /\ SF_vars(sys_yield(c))

FairSpec == Spec /\ Fairness

-----------------------------------------------------------------------------
\* The big kernel lock excludes: exactly the holder executes kernel code, also
\* across env_run's early release, the halted processors' re-acquisition in
\* trap() and the boot of the APs; and no processor takes it twice.
LockExclusive ==
  \A c \in CPU : pc[c] # "panic" /\ (pc[c] \in InKernel <=> kernel_lock = c)

\* user/stresssched.c's "Check that one environment doesn't run on two CPUs at
\* once": no environment is curenv of two processors.
RunsOnOneCpu ==
  \A c, d \in CPU : (cpu_env[c] = cpu_env[d] /\ cpu_env[c] # NoEnv) => c = d

\* The environment a processor runs, or has just trapped from, or is about to
\* iret to, is ENV_RUNNING or a zombie, so that its Env and page directory
\* (in %cr3) are not freed or reused; trap()'s assert(curenv) holds; and an
\* idle processor has no curenv.
CurEnvAlive ==
  \A c \in CPU :
    /\ pc[c] \in OnCpu => (cpu_env[c] # NoEnv /\ env_status[cpu_env[c]] \in {"RUNNING", "DYING"})
    /\ pc[c] \in {"halted", "wake", "apboot", "sched"} => cpu_env[c] = NoEnv

\* Conversely an ENV_RUNNING environment or a zombie is on some processor,
\* which will preempt or reap it: none is lost to the scheduler.
OnSomeCpu ==
  \A e \in Env : env_status[e] \in {"RUNNING", "DYING"} =>
    \E c \in CPU : cpu_env[c] = e /\ pc[c] \in OnCpu

\* sys_ipc_try_send's "The send fails ... if the target is not blocked, waiting
\* for an IPC": env_ipc_recving is set only for a blocked environment.
ReceiverBlocked == \A e \in Env : env_ipc_recving[e] => env_status[e] = "NOT_RUNNABLE"

\* env_alloc's "Also clear the IPC receiving flag.": a new environment is not
\* receiving, whatever the slot's former owner was doing when it died.
NewEnvNotReceiving ==
  [][\A e \in Env : (env_status[e] = "FREE" /\ env_status'[e] # "FREE") => ~env_ipc_recving'[e]]_vars

\* The free list holds the ENV_FREE slots, each once: no double env_free, no
\* slot lost, none handed out while in use.
FreeListExact ==
  /\ \A e \in Env : env_status[e] = "FREE" <=> \E i \in 1..Len(env_free_list) : env_free_list[i] = e
  /\ \A i, j \in 1..Len(env_free_list) : env_free_list[i] = env_free_list[j] => i = j

\* sched_halt's "if there are no runnable environments in the system": once a
\* processor is in the monitor for good, no other one is running user code or
\* on its way out of it.
MonitorQuiet ==
  (\E c \in CPU : pc[c] = "monitor") =>
    \A d \in CPU : pc[d] \in {"monitor", "halted", "wake", "apboot"}

\* env_destroy's "A zombie environment will be freed the next time it traps to
\* the kernel": a zombie stays one until its own processor is in trap().
ZombieUntilTrap ==
  [][\A e \in Env : (env_status[e] = "DYING" /\ env_status'[e] # "DYING") =>
       \E c \in CPU : pc[c] = "trap" /\ cpu_env[c] = e]_vars

\* A breakpoint has stopped the system: its processor sits in the monitor and
\* keeps the kernel lock.
Stopped == \E c \in CPU : pc[c] = "brkpt"

\* sched_yield's round robin: an ENV_RUNNABLE environment gets to run, unless a
\* breakpoint stops the system.
RunnableRuns ==
  \A e \in Env : env_status[e] = "RUNNABLE" ~> (env_status[e] # "RUNNABLE" \/ Stopped)

\* It does once no environment exits any more (an exit makes the next search
\* start at envs[0]), whatever forks, blocks and wakes go on.
NoExit == \A e \in Env : env_status'[e] = "FREE" => env_status[e] = "FREE"
RunnableRunsUnlessExits == <>[][NoExit]_vars => RunnableRuns

\* That trap comes, and frees the zombie: under fairness none stays, unless a
\* breakpoint stops the system.
ZombieFreed == \A e \in Env : env_status[e] = "DYING" ~> (env_status[e] = "FREE" \/ Stopped)
=============================================================================
