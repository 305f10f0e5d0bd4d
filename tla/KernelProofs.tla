---------------------------- MODULE KernelProofs ----------------------------
(***************************************************************************)
(* Proofs for module Kernel, for any number of processors and              *)
(* environments: the lock excludes, an environment runs on one processor   *)
(* at a time and is not freed under it, and the free list is exact, for    *)
(* programs that keep the discipline Rules describes.                      *)
(***************************************************************************)
EXTENDS Kernel, TLAPS

Discipline == {"settled", "destroy_once", "spare_receiver"} \subseteq Rules

\* FreeListExact for the statuses st and the list fl.
FreeList(st, fl) ==
  /\ \A e \in Env : st[e] = "FREE" <=> \E i \in 1..Len(fl) : fl[i] = e
  /\ \A i, j \in 1..Len(fl) : fl[i] = fl[j] => i = j

\* What LockExclusive, CurEnvAlive and the others leave out: only a processor
\* in the hlt loop is marked CPU_HALTED, and nothing wants a processor once
\* sched_halt has entered the monitor.
HaltedMarked == \A c \in CPU : cpu_status[c] = "HALTED" <=> pc[c] = "halted"
MonitorIdle ==
  \A c \in CPU : pc[c] = "monitor" =>
    \A e \in Env : env_status[e] \notin {"RUNNABLE", "RUNNING", "DYING"}

CpuType ==
  /\ kernel_lock \in CPU \cup {NoCpu}
  /\ pc \in [CPU -> Places]
  /\ cpu_env \in [CPU -> Env \cup {NoEnv}]
  /\ cpu_status \in [CPU -> {"STARTED", "HALTED"}]
  /\ env_status \in [Env -> Statuses]
  /\ env_ipc_recving \in [Env -> BOOLEAN]
ListType ==
  /\ env_id \in [Env -> 0..(GenMod - 1)]
  /\ env_parent_id \in [Env -> (Env \cup {NoEnv}) \X (0..(GenMod - 1))]
  /\ env_free_list \in Seq(Env)

\* The part of the invariant about processors, and the inductive invariant.
CpuInv ==
  /\ CpuType
  /\ LockExclusive /\ HaltedMarked
  /\ RunsOnOneCpu /\ CurEnvAlive /\ OnSomeCpu
  /\ ReceiverBlocked /\ MonitorIdle
IInv == CpuInv /\ ListType /\ FreeListExact

-----------------------------------------------------------------------------
\* Pushing a slot that was in use, as env_free does, keeps the list exact.
LEMMA FreeListPush ==
  ASSUME NEW st \in [Env -> Statuses], NEW fl \in Seq(Env), FreeList(st, fl),
         NEW e \in Env, st[e] # "FREE"
  PROVE  /\ <<e>> \o fl \in Seq(Env)
         /\ FreeList([st EXCEPT ![e] = "FREE"], <<e>> \o fl)
<1> DEFINE nl == <<e>> \o fl
<1>1. nl \in Seq(Env) /\ Len(nl) = Len(fl) + 1 /\ nl[1] = e
  OBVIOUS
<1>2. \A i \in 1..Len(fl) : nl[i + 1] = fl[i]
  OBVIOUS
<1>3. \A i \in 1..Len(nl) : i # 1 => (i - 1) \in 1..Len(fl) /\ nl[i] = fl[i - 1]
  BY <1>1, <1>2
<1>4. \A i \in 1..Len(fl) : fl[i] # e
  BY DEF FreeList
<1>5. \A i, j \in 1..Len(nl) : nl[i] = nl[j] => i = j
  BY <1>1, <1>3, <1>4 DEF FreeList
<1>6. ASSUME NEW x \in Env
      PROVE  [st EXCEPT ![e] = "FREE"][x] = "FREE" <=> \E i \in 1..Len(nl) : nl[i] = x
  <2>1. CASE x = e
    BY <2>1, <1>1
  <2>2. CASE x # e
    <3>1. ASSUME st[x] = "FREE" PROVE \E i \in 1..Len(nl) : nl[i] = x
      <4>1. PICK i \in 1..Len(fl) : fl[i] = x
        BY <3>1 DEF FreeList
      <4>2. i + 1 \in 1..Len(nl) /\ nl[i + 1] = x
        BY <4>1, <1>1, <1>2
      <4>3. QED  BY <4>2
    <3>2. ASSUME NEW i \in 1..Len(nl), nl[i] = x PROVE st[x] = "FREE"
      <4>1. i # 1
        BY <3>2, <2>2, <1>1
      <4>2. QED  BY <4>1, <3>2, <1>3 DEF FreeList
    <3>3. QED  BY <3>1, <3>2, <2>2
  <2>3. QED  BY <2>1, <2>2
<1>7. QED  BY <1>1, <1>5, <1>6 DEF FreeList

\* Popping the head, as env_alloc does, keeps the list exact.
LEMMA FreeListPop ==
  ASSUME NEW st \in [Env -> Statuses], NEW fl \in Seq(Env), FreeList(st, fl),
         fl # <<>>, NEW s \in Statuses, s # "FREE"
  PROVE  /\ Head(fl) \in Env /\ st[Head(fl)] = "FREE"
         /\ Tail(fl) \in Seq(Env)
         /\ FreeList([st EXCEPT ![Head(fl)] = s], Tail(fl))
<1> DEFINE e == Head(fl)  nl == Tail(fl)
<1>1. Len(fl) \in Nat /\ Len(fl) > 0 /\ e = fl[1] /\ e \in Env
  OBVIOUS
<1>2. nl \in Seq(Env) /\ Len(nl) = Len(fl) - 1
  OBVIOUS
<1>3. \A i \in 1..Len(nl) : nl[i] = fl[i + 1] /\ (i + 1) \in 1..Len(fl)
  BY <1>1, <1>2
<1>4. \A i \in 1..Len(fl) : i # 1 => (i - 1) \in 1..Len(nl) /\ fl[i] = nl[i - 1]
  BY <1>1, <1>2, <1>3
<1>5. st[e] = "FREE"
  BY <1>1 DEF FreeList
<1>6. \A i, j \in 1..Len(nl) : nl[i] = nl[j] => i = j
  BY <1>3, <1>2 DEF FreeList
<1>7. \A i \in 1..Len(nl) : nl[i] # e
  <2> SUFFICES ASSUME NEW i \in 1..Len(nl), nl[i] = e PROVE FALSE
    OBVIOUS
  <2>1. fl[i + 1] = fl[1] /\ (i + 1) \in 1..Len(fl) /\ 1 \in 1..Len(fl)
    BY <1>1, <1>3
  <2>2. i + 1 = 1
    BY <2>1 DEF FreeList
  <2>3. QED  BY <2>2
<1>8. ASSUME NEW x \in Env
      PROVE  [st EXCEPT ![e] = s][x] = "FREE" <=> \E i \in 1..Len(nl) : nl[i] = x
  <2>1. CASE x = e
    BY <2>1, <1>7
  <2>2. CASE x # e
    <3>1. ASSUME st[x] = "FREE" PROVE \E i \in 1..Len(nl) : nl[i] = x
      <4>1. PICK i \in 1..Len(fl) : fl[i] = x
        BY <3>1 DEF FreeList
      <4>2. i # 1
        BY <4>1, <2>2, <1>1
      <4>3. QED  BY <4>1, <4>2, <1>4
    <3>2. ASSUME NEW i \in 1..Len(nl), nl[i] = x PROVE st[x] = "FREE"
      BY <3>2, <1>3 DEF FreeList
    <3>3. QED  BY <3>1, <3>2, <2>2
  <2>3. QED  BY <2>1, <2>2
<1>9. QED  BY <1>1, <1>2, <1>5, <1>6, <1>8 DEF FreeList

-----------------------------------------------------------------------------
\* A handler of processor c, which has the lock, has computed the statuses st
\* and receiving flags rc and is about to leave the kernel with curenv = cur.
Mid(c, cur, st, rc) ==
  /\ kernel_lock = c
  /\ \A d \in CPU \ {c} : pc[d] \in OnCpu => st[cpu_env[d]] \in {"RUNNING", "DYING"}
  /\ \A d \in CPU \ {c} : cpu_env[d] # NoEnv => cpu_env[d] # cur
  /\ \A e \in Env : st[e] \in {"RUNNING", "DYING"} =>
       \/ e = cur
       \/ \E d \in CPU \ {c} : cpu_env[d] = e /\ pc[d] \in OnCpu
  /\ cur # NoEnv => st[cur] \in {"RUNNING", "RUNNABLE", "NOT_RUNNABLE"}
  /\ \A e \in Env : rc[e] => st[e] = "NOT_RUNNABLE"

\* env_run from such a point re-establishes the invariant.
LEMMA EnvRunInv ==
  ASSUME CpuInv, NEW c \in CPU, NEW cur \in Env \cup {NoEnv},
         NEW st \in [Env -> Statuses], NEW rc \in [Env -> BOOLEAN],
         Mid(c, cur, st, rc), env_ipc_recving' = rc,
         NEW e \in Env, st[e] = "RUNNABLE" \/ (e = cur /\ st[e] = "RUNNING"),
         env_run(c, cur, e, st)
  PROVE  CpuInv' /\ \A x \in Env : env_status'[x] = "FREE" <=> st[x] = "FREE"
<1>1. preempted(cur, st) \in [Env -> Statuses]
  BY DEF preempted, Statuses
<1>2. /\ env_status'[e] = "RUNNING"
      /\ \A x \in Env : x # e => env_status'[x] =
           IF x = cur /\ st[x] = "RUNNING" THEN "RUNNABLE" ELSE st[x]
  BY <1>1 DEF env_run, preempted
<1>3. cpu_env'[c] = e /\ pc'[c] = "pop" /\ kernel_lock' = NoCpu /\ cpu_status' = cpu_status
  BY DEF env_run, CpuInv, CpuType
<1>4. \A d \in CPU \ {c} : cpu_env'[d] = cpu_env[d] /\ pc'[d] = pc[d]
  BY DEF env_run, CpuInv, CpuType
<1>5. \A d \in CPU \ {c} : pc[d] \notin InKernel /\ pc[d] # "panic"
  BY DEF CpuInv, LockExclusive, Mid
<1>6. \A d \in CPU \ {c} : cpu_env[d] # e
  <2> SUFFICES ASSUME NEW d \in CPU \ {c}, cpu_env[d] = e PROVE FALSE
    OBVIOUS
  <2>1. e # NoEnv
    BY EnvAssumption DEF Env, NoEnv
  <2>2. pc[d] \in OnCpu
    BY <2>1, <1>5 DEF CpuInv, CurEnvAlive, OnCpu, InKernel, CpuType, Places
  <2>3. st[e] \in {"RUNNING", "DYING"} /\ e # cur
    BY <2>2, <2>1 DEF Mid
  <2>4. QED  BY <2>3
<1>7. CpuType'
  <2>1. env_status' \in [Env -> Statuses]
    BY <1>1 DEF env_run, Statuses
  <2>2. QED  BY <2>1 DEF env_run, CpuInv, CpuType, Places
<1>8. LockExclusive' /\ HaltedMarked'
  <2>1. pc[c] \in InKernel
    BY DEF CpuInv, LockExclusive, Mid
  <2>2. LockExclusive'
    BY CpuAssumption, <1>3, <1>4, <1>5 DEF LockExclusive, InKernel
  <2>3. HaltedMarked'
    BY <2>1, <1>3, <1>4 DEF CpuInv, HaltedMarked, InKernel
  <2>4. QED  BY <2>2, <2>3
<1>9. RunsOnOneCpu'
  BY <1>3, <1>4, <1>6 DEF CpuInv, RunsOnOneCpu
<1>10. CurEnvAlive'
  <2> SUFFICES ASSUME NEW d \in CPU
               PROVE /\ pc'[d] \in OnCpu => (cpu_env'[d] # NoEnv /\ env_status'[cpu_env'[d]] \in {"RUNNING", "DYING"})
                     /\ pc'[d] \in {"halted", "wake", "apboot", "sched"} => cpu_env'[d] = NoEnv
    BY DEF CurEnvAlive
  <2>1. CASE d = c
    BY <2>1, <1>2, <1>3, EnvAssumption DEF OnCpu, Env, NoEnv
  <2>2. CASE d # c
    <3>1. pc[d] \in OnCpu => (cpu_env[d] # NoEnv /\ cpu_env[d] \in Env)
      BY <2>2 DEF CpuInv, CurEnvAlive, CpuType
    <3>2. pc[d] \in OnCpu => env_status'[cpu_env[d]] = st[cpu_env[d]]
      BY <2>2, <3>1, <1>2, <1>6 DEF Mid
    <3>3. QED  BY <2>2, <3>1, <3>2, <1>4 DEF Mid, CpuInv, CurEnvAlive
  <2>3. QED  BY <2>1, <2>2
<1>11. OnSomeCpu'
  <2> SUFFICES ASSUME NEW x \in Env, env_status'[x] \in {"RUNNING", "DYING"}
               PROVE  \E d \in CPU : cpu_env'[d] = x /\ pc'[d] \in OnCpu
    BY DEF OnSomeCpu
  <2>1. CASE x = e
    BY <2>1, <1>3 DEF OnCpu
  <2>2. CASE x # e
    <3>1. st[x] \in {"RUNNING", "DYING"} /\ x # cur
      <4>1. CASE x = cur /\ st[x] = "RUNNING"
        BY <4>1, <2>2, <1>2
      <4>2. CASE ~(x = cur /\ st[x] = "RUNNING")
        <5>1. st[x] \in {"RUNNING", "DYING"}
          BY <4>2, <2>2, <1>2
        <5>2. x = cur => FALSE
          BY <5>1, <4>2, EnvAssumption DEF Mid, Env, NoEnv
        <5>3. QED  BY <5>1, <5>2
      <4>3. QED  BY <4>1, <4>2
    <3>2. PICK d \in CPU \ {c} : cpu_env[d] = x /\ pc[d] \in OnCpu
      BY <3>1 DEF Mid
    <3>3. QED  BY <3>2, <1>4
  <2>3. QED  BY <2>1, <2>2
<1>12. ReceiverBlocked'
  <2> SUFFICES ASSUME NEW x \in Env, rc[x] PROVE env_status'[x] = "NOT_RUNNABLE"
    BY DEF ReceiverBlocked
  <2>1. st[x] = "NOT_RUNNABLE"
    BY DEF Mid
  <2>2. QED  BY <2>1, <1>2
<1>13. MonitorIdle'
  BY <1>3, <1>4, <1>5 DEF MonitorIdle, InKernel
<1>14. \A x \in Env : env_status'[x] = "FREE" <=> st[x] = "FREE"
  BY <1>2
<1>15. QED  BY <1>7, <1>8, <1>9, <1>10, <1>11, <1>12, <1>13, <1>14 DEF CpuInv

\* So does sched_halt, when nothing is ENV_RUNNABLE and curenv is not running.
LEMMA SchedHaltInv ==
  ASSUME CpuInv, NEW c \in CPU, NEW cur \in Env \cup {NoEnv},
         NEW st \in [Env -> Statuses], NEW rc \in [Env -> BOOLEAN],
         Mid(c, cur, st, rc), env_ipc_recving' = rc,
         runnable(st) = {}, ~(cur # NoEnv /\ st[cur] = "RUNNING"),
         sched_halt(c, cur, st)
  PROVE  CpuInv' /\ \A x \in Env : env_status'[x] = "FREE" <=> st[x] = "FREE"
<1>0. env_status' = st
  BY DEF sched_halt
<1>1. \A d \in CPU \ {c} : pc[d] \notin InKernel /\ pc[d] # "panic"
  BY DEF CpuInv, LockExclusive, Mid
<1>2. pc[c] \in InKernel
  BY DEF CpuInv, LockExclusive, Mid
<1>3. cur # NoEnv => st[cur] \notin {"RUNNING", "DYING"}
  BY DEF Mid
<1>4. \A x \in Env : st[x] \in {"RUNNING", "DYING"} =>
        \E d \in CPU \ {c} : cpu_env[d] = x /\ pc[d] \in OnCpu
  BY <1>3, EnvAssumption DEF Mid, Env, NoEnv
<1>5. \A x \in Env : st[x] # "RUNNABLE"
  BY DEF runnable
<1>6. ReceiverBlocked'
  BY <1>0 DEF Mid, ReceiverBlocked
<1>7. /\ \A d \in CPU \ {c} : cpu_env'[d] = cpu_env[d] /\ pc'[d] = pc[d] /\ cpu_status'[d] = cpu_status[d]
      /\ cpu_env'[c] \in {NoEnv, cur}
  BY DEF sched_halt, CpuInv, CpuType
<1>8. RunsOnOneCpu'
  BY <1>7 DEF Mid, CpuInv, RunsOnOneCpu
<1>9. OnSomeCpu'
  BY <1>0, <1>4, <1>7 DEF OnSomeCpu
<1>10. CASE \E e \in Env : st[e] \in {"RUNNABLE", "RUNNING", "DYING"}
  <2>1. /\ pc' = [pc EXCEPT ![c] = "halted"]
        /\ cpu_env' = [cpu_env EXCEPT ![c] = NoEnv]
        /\ cpu_status' = [cpu_status EXCEPT ![c] = "HALTED"]
        /\ kernel_lock' = NoCpu
    BY <1>10 DEF sched_halt
  <2>2. CpuType'
    BY <1>0, <2>1 DEF CpuInv, CpuType, Places
  <2>3. LockExclusive'
    BY CpuAssumption, <2>1, <1>1 DEF LockExclusive, InKernel, CpuInv, CpuType
  <2>4. HaltedMarked'
    BY <2>1, <1>7 DEF HaltedMarked, CpuInv, CpuType
  <2>5. CurEnvAlive'
    BY <2>1, <1>0, <1>7 DEF CurEnvAlive, CpuInv, CpuType, Mid, OnCpu
  <2>6. MonitorIdle'
    BY <2>1, <1>1, <1>7 DEF MonitorIdle, InKernel, CpuInv, CpuType
  <2>7. QED  BY <1>0, <1>6, <1>8, <1>9, <2>2, <2>3, <2>4, <2>5, <2>6 DEF CpuInv
<1>11. CASE ~ \E e \in Env : st[e] \in {"RUNNABLE", "RUNNING", "DYING"}
  <2>1. /\ pc' = [pc EXCEPT ![c] = "monitor"]
        /\ cpu_env' = [cpu_env EXCEPT ![c] = cur]
        /\ cpu_status' = cpu_status /\ kernel_lock' = kernel_lock
    BY <1>11 DEF sched_halt
  <2>2. CpuType'
    BY <1>0, <2>1 DEF CpuInv, CpuType, Places
  <2>3. LockExclusive'
    BY <2>1, <1>1 DEF LockExclusive, InKernel, CpuInv, CpuType, Mid
  <2>4. HaltedMarked'
    BY <2>1, <1>2 DEF HaltedMarked, CpuInv, CpuType, InKernel
  <2>5. CurEnvAlive'
    BY <2>1, <1>0, <1>7 DEF CurEnvAlive, CpuInv, CpuType, Mid, OnCpu
  <2>6. MonitorIdle'
    BY <1>11, <1>0 DEF MonitorIdle
  <2>7. QED  BY <1>0, <1>6, <1>8, <1>9, <2>2, <2>3, <2>4, <2>5, <2>6 DEF CpuInv
<1>12. QED  BY <1>10, <1>11

\* Hence sched_yield re-establishes the invariant, whichever way it leaves.
LEMMA SchedYieldInv ==
  ASSUME CpuInv, NEW c \in CPU, NEW cur \in Env \cup {NoEnv},
         NEW st \in [Env -> Statuses], NEW rc \in [Env -> BOOLEAN],
         Mid(c, cur, st, rc), env_ipc_recving' = rc,
         sched_yield(c, cur, st)
  PROVE  CpuInv' /\ \A x \in Env : env_status'[x] = "FREE" <=> st[x] = "FREE"
<1>1. CASE \E e \in runnable(st) : env_run(c, cur, e, st)
  <2>1. PICK e \in runnable(st) : env_run(c, cur, e, st)
    BY <1>1
  <2>2. e \in Env /\ st[e] = "RUNNABLE"
    BY DEF runnable
  <2>3. QED  BY <2>1, <2>2, EnvRunInv
<1>2. CASE cur # NoEnv /\ st[cur] = "RUNNING" /\ env_run(c, cur, cur, st)
  <2>1. cur \in Env
    BY <1>2
  <2>2. QED  BY <1>2, <2>1, EnvRunInv
<1>3. CASE /\ runnable(st) = {} /\ ~(cur # NoEnv /\ st[cur] = "RUNNING")
           /\ sched_halt(c, cur, st)
  BY <1>3, SchedHaltInv
<1>4. QED  BY <1>1, <1>2, <1>3 DEF sched_yield

\* And so does the end of trap(), which resumes curenv or calls sched_yield.
LEMMA TrapTailInv ==
  ASSUME CpuInv, NEW c \in CPU, cpu_env[c] \in Env,
         NEW st \in [Env -> Statuses], NEW rc \in [Env -> BOOLEAN],
         Mid(c, cpu_env[c], st, rc), env_ipc_recving' = rc,
         trap_tail(c, st)
  PROVE  CpuInv' /\ \A x \in Env : env_status'[x] = "FREE" <=> st[x] = "FREE"
<1>1. CASE st[cpu_env[c]] = "RUNNING"
  <2>1. env_run(c, cpu_env[c], cpu_env[c], st)
    BY <1>1 DEF trap_tail
  <2>2. QED  BY <1>1, <2>1, EnvRunInv
<1>2. CASE st[cpu_env[c]] # "RUNNING"
  <2>1. sched_yield(c, cpu_env[c], st)
    BY <1>2 DEF trap_tail
  <2>2. QED  BY <2>1, SchedYieldInv
<1>3. QED  BY <1>1, <1>2

-----------------------------------------------------------------------------
\* The state in which trap() dispatches for an environment that is no zombie.
LEMMA DispatchMid ==
  ASSUME CpuInv, NEW c \in CPU, pc[c] = "trap", env_status[cpu_env[c]] # "DYING"
  PROVE  /\ kernel_lock = c
         /\ cpu_env[c] \in Env /\ env_status[cpu_env[c]] = "RUNNING"
         /\ \A d \in CPU \ {c} : pc[d] \in OnCpu =>
              /\ cpu_env[d] \in Env /\ cpu_env[d] # cpu_env[c]
              /\ env_status[cpu_env[d]] \in {"RUNNING", "DYING"}
         /\ Mid(c, cpu_env[c], env_status, env_ipc_recving)
<1>1. kernel_lock = c
  BY DEF CpuInv, LockExclusive, InKernel
<1>2. cpu_env[c] \in Env /\ cpu_env[c] # NoEnv /\ env_status[cpu_env[c]] = "RUNNING"
  BY DEF CpuInv, CurEnvAlive, OnCpu, CpuType
<1>3. \A d \in CPU \ {c} : cpu_env[d] # NoEnv => cpu_env[d] # cpu_env[c]
  BY <1>2 DEF CpuInv, RunsOnOneCpu
<1>4. \A d \in CPU \ {c} : pc[d] \in OnCpu =>
        /\ cpu_env[d] \in Env /\ cpu_env[d] # cpu_env[c]
        /\ env_status[cpu_env[d]] \in {"RUNNING", "DYING"}
  BY <1>3 DEF CpuInv, CurEnvAlive, CpuType
<1>5. \A e \in Env : env_status[e] \in {"RUNNING", "DYING"} =>
        \/ e = cpu_env[c]
        \/ \E d \in CPU \ {c} : cpu_env[d] = e /\ pc[d] \in OnCpu
  BY DEF CpuInv, OnSomeCpu
<1>6. QED  BY <1>1, <1>2, <1>3, <1>4, <1>5 DEF Mid, CpuInv, ReceiverBlocked

\* Steps that change neither environments nor lists.
LEMMA EntryInv ==
  ASSUME IInv, NEW c \in CPU,
         trap_user(c) \/ trap_halted(c) \/ lock_kernel(c) \/ env_pop_tf(c) \/ brkpt(c)
  PROVE  IInv'
<1> USE DEF IInv, CpuInv, CpuType
<1>1. UNCHANGED <<cpu_env, env_status, ids, env_ipc_recving, env_free_list>>
  BY DEF trap_user, trap_halted, lock_kernel, env_pop_tf, brkpt
<1>2. \A d \in CPU \ {c} : pc'[d] = pc[d] /\ cpu_status'[d] = cpu_status[d]
  BY DEF trap_user, trap_halted, lock_kernel, env_pop_tf, brkpt
<1>3. /\ ListType' /\ FreeListExact' /\ RunsOnOneCpu' /\ ReceiverBlocked'
  BY <1>1 DEF ListType, FreeListExact, RunsOnOneCpu, ReceiverBlocked, ids
<1>4. ASSUME NEW q \in Places, pc' = [pc EXCEPT ![c] = q],
             pc[c] \in OnCpu <=> q \in OnCpu,
             ~(pc[c] \in OnCpu) => q \in {"wake", "sched"} /\ pc[c] # "monitor",
             q # "monitor"
      PROVE  CurEnvAlive' /\ OnSomeCpu' /\ MonitorIdle'
  <2>1. pc'[c] = q /\ \A d \in CPU : pc'[d] \in OnCpu <=> pc[d] \in OnCpu
    BY <1>4
  <2>2. CurEnvAlive'
    BY <2>1, <1>4, <1>2, <1>1 DEF CurEnvAlive, OnCpu, Places, LockExclusive
  <2>3. OnSomeCpu' /\ MonitorIdle'
    BY <2>1, <1>4, <1>2, <1>1 DEF OnSomeCpu, MonitorIdle
  <2>4. QED  BY <2>2, <2>3
<1>5. CASE trap_user(c)
  <2>1. cpu_status[c] = "STARTED" /\ kernel_lock # c
    BY <1>5 DEF trap_user, HaltedMarked, LockExclusive, InKernel
  <2>2. pc' = [pc EXCEPT ![c] = "enter"] /\ cpu_status' = [cpu_status EXCEPT ![c] = "STARTED"]
        /\ kernel_lock' = kernel_lock /\ pc[c] = "user"
    BY <1>5, <2>1 DEF trap_user
  <2>3. CpuType' /\ HaltedMarked' /\ LockExclusive'
    BY <2>1, <2>2, <1>1 DEF Places, HaltedMarked, LockExclusive, InKernel
  <2>4. CurEnvAlive' /\ OnSomeCpu' /\ MonitorIdle'
    BY <2>2, <1>4 DEF OnCpu, Places
  <2>5. QED  BY <1>3, <2>3, <2>4
<1>6. CASE trap_halted(c)
  <2>1. cpu_status[c] = "HALTED" /\ kernel_lock # c
    BY <1>6 DEF trap_halted, HaltedMarked, LockExclusive, InKernel
  <2>2. pc' = [pc EXCEPT ![c] = "wake"] /\ cpu_status' = [cpu_status EXCEPT ![c] = "STARTED"]
        /\ kernel_lock' = kernel_lock /\ pc[c] = "halted"
    BY <1>6, <2>1 DEF trap_halted
  <2>3. CpuType' /\ HaltedMarked' /\ LockExclusive'
    BY <2>1, <2>2, <1>1 DEF Places, HaltedMarked, LockExclusive, InKernel
  <2>4. CurEnvAlive' /\ OnSomeCpu' /\ MonitorIdle'
    BY <2>2, <1>4 DEF OnCpu, Places
  <2>5. QED  BY <1>3, <2>3, <2>4
<1>7. CASE lock_kernel(c)
  <2>1. /\ kernel_lock = NoCpu /\ kernel_lock' = c /\ cpu_status' = cpu_status
        /\ pc[c] \in {"enter", "wake", "apboot"}
        /\ pc' = [pc EXCEPT ![c] = IF pc[c] = "enter" THEN "trap" ELSE "sched"]
    BY <1>7 DEF lock_kernel
  <2>2. CpuType' /\ HaltedMarked'
    BY <2>1, <1>1 DEF Places, HaltedMarked
  <2>3. LockExclusive'
    BY <2>1, CpuAssumption DEF LockExclusive, InKernel
  <2>4. CASE pc[c] = "enter"
    <3>1. CurEnvAlive' /\ OnSomeCpu' /\ MonitorIdle'
      BY <2>1, <2>4, <1>4 DEF OnCpu, Places
    <3>2. QED  BY <1>3, <2>2, <2>3, <3>1
  <2>5. CASE pc[c] # "enter"
    <3>1. CurEnvAlive' /\ OnSomeCpu' /\ MonitorIdle'
      BY <2>1, <2>5, <1>4 DEF OnCpu, Places
    <3>2. QED  BY <1>3, <2>2, <2>3, <3>1
  <2>6. QED  BY <2>4, <2>5
<1>8. CASE env_pop_tf(c)
  <2>1. /\ kernel_lock' = kernel_lock /\ cpu_status' = cpu_status
        /\ pc[c] = "pop" /\ pc' = [pc EXCEPT ![c] = "user"]
    BY <1>8 DEF env_pop_tf
  <2>2. CpuType' /\ HaltedMarked' /\ LockExclusive'
    BY <2>1, <1>1 DEF Places, HaltedMarked, LockExclusive, InKernel
  <2>3. CurEnvAlive' /\ OnSomeCpu' /\ MonitorIdle'
    BY <2>1, <1>4 DEF OnCpu, Places
  <2>4. QED  BY <1>3, <2>2, <2>3
<1>9. CASE brkpt(c)
  <2>1. /\ kernel_lock' = kernel_lock /\ cpu_status' = cpu_status
        /\ pc[c] = "trap" /\ pc' = [pc EXCEPT ![c] = "brkpt"]
    BY <1>9 DEF brkpt, Dispatch
  <2>2. CpuType' /\ HaltedMarked' /\ LockExclusive'
    BY <2>1, <1>1 DEF Places, HaltedMarked, LockExclusive, InKernel
  <2>3. CurEnvAlive' /\ OnSomeCpu' /\ MonitorIdle'
    BY <2>1, <1>4 DEF OnCpu, Places
  <2>4. QED  BY <1>3, <2>2, <2>3
<1>10. QED  BY <1>5, <1>6, <1>7, <1>8, <1>9

-----------------------------------------------------------------------------
\* The list part: it only depends on which slots are ENV_FREE.
LEMMA ListInv ==
  ASSUME NEW st, FreeList(st, env_free_list'),
         \A x \in Env : env_status'[x] = "FREE" <=> st[x] = "FREE"
  PROVE  FreeListExact'
BY DEF FreeList, FreeListExact

\* The scheduling steps: sched, sys_yield and the traps with no effect here.
LEMMA ScheduleInv ==
  ASSUME IInv, NEW c \in CPU, sched(c) \/ sys_yield(c) \/ trap_other(c)
  PROVE  IInv'
<1> DEFINE st == env_status  rc == env_ipc_recving
<1>1. UNCHANGED <<ids, env_ipc_recving, env_free_list>>
  BY DEF sched, sys_yield, trap_other
<1>2. ListType' /\ FreeList(st, env_free_list')
  BY <1>1 DEF IInv, ListType, FreeListExact, FreeList, ids
<1>3. st \in [Env -> Statuses] /\ rc \in [Env -> BOOLEAN]
  BY DEF IInv, CpuInv, CpuType
<1>4. CpuInv' /\ \A x \in Env : env_status'[x] = "FREE" <=> st[x] = "FREE"
  <2>1. CASE sched(c)
    <3>1. kernel_lock = c /\ cpu_env[c] = NoEnv /\ sched_yield(c, NoEnv, st)
      BY <2>1 DEF sched, IInv, CpuInv, LockExclusive, InKernel, CurEnvAlive
    <3>2. Mid(c, NoEnv, st, rc)
      BY <3>1, <2>1 DEF sched, Mid, IInv, CpuInv, CurEnvAlive, OnSomeCpu, OnCpu, ReceiverBlocked
    <3>3. QED  BY <3>1, <3>2, <1>1, <1>3, SchedYieldInv DEF IInv
  <2>2. CASE sys_yield(c)
    <3>1. pc[c] = "trap" /\ st[cpu_env[c]] # "DYING" /\ sched_yield(c, cpu_env[c], st)
      BY <2>2 DEF sys_yield, Dispatch
    <3>2. Mid(c, cpu_env[c], st, rc) /\ cpu_env[c] \in Env
      BY <3>1, DispatchMid DEF IInv
    <3>3. QED  BY <3>1, <3>2, <1>1, <1>3, SchedYieldInv DEF IInv
  <2>3. CASE trap_other(c)
    <3>1. pc[c] = "trap" /\ st[cpu_env[c]] # "DYING" /\ trap_tail(c, st)
      BY <2>3 DEF trap_other, Dispatch
    <3>2. Mid(c, cpu_env[c], st, rc) /\ cpu_env[c] \in Env
      BY <3>1, DispatchMid DEF IInv
    <3>3. QED  BY <3>1, <3>2, <1>1, <1>3, TrapTailInv DEF IInv
  <2>4. QED  BY <2>1, <2>2, <2>3
<1>5. QED  BY <1>2, <1>4, ListInv DEF IInv

\* trap() frees the zombie it came from.
LEMMA ReapInv ==
  ASSUME IInv, NEW c \in CPU, reap(c)
  PROVE  IInv'
<1> DEFINE e == cpu_env[c]  st == [env_status EXCEPT ![e] = "FREE"]  rc == env_ipc_recving
<1>1. /\ pc[c] = "trap" /\ env_status[e] = "DYING" /\ sched_yield(c, NoEnv, st)
      /\ env_free_list' = <<e>> \o env_free_list /\ UNCHANGED <<ids, env_ipc_recving>>
  BY DEF reap
<1>2. e \in Env /\ e # NoEnv /\ kernel_lock = c
  BY <1>1 DEF IInv, CpuInv, CpuType, CurEnvAlive, OnCpu, LockExclusive, InKernel
<1>3. st \in [Env -> Statuses] /\ rc \in [Env -> BOOLEAN] /\ env_status \in [Env -> Statuses]
  BY DEF IInv, CpuInv, CpuType, Statuses
<1>4. \A d \in CPU \ {c} : pc[d] \in OnCpu => cpu_env[d] \in Env /\ cpu_env[d] # e
  BY <1>2 DEF IInv, CpuInv, CpuType, CurEnvAlive, RunsOnOneCpu
<1>5. Mid(c, NoEnv, st, rc)
  <2>1. \A d \in CPU \ {c} : pc[d] \in OnCpu => st[cpu_env[d]] \in {"RUNNING", "DYING"}
    BY <1>3, <1>4 DEF IInv, CpuInv, CurEnvAlive
  <2>2. \A x \in Env : st[x] \in {"RUNNING", "DYING"} =>
          \E d \in CPU \ {c} : cpu_env[d] = x /\ pc[d] \in OnCpu
    BY <1>2, <1>3 DEF IInv, CpuInv, OnSomeCpu
  <2>3. \A x \in Env : rc[x] => st[x] = "NOT_RUNNABLE"
    BY <1>1, <1>2, <1>3 DEF IInv, CpuInv, ReceiverBlocked
  <2>4. QED  BY <1>2, <2>1, <2>2, <2>3 DEF Mid
<1>6. CpuInv' /\ \A x \in Env : env_status'[x] = "FREE" <=> st[x] = "FREE"
  BY <1>1, <1>3, <1>5, SchedYieldInv DEF IInv
<1>7. env_free_list' \in Seq(Env) /\ FreeList(st, env_free_list')
  <2>1. FreeList(env_status, env_free_list) /\ env_free_list \in Seq(Env)
    BY DEF IInv, ListType, FreeListExact, FreeList
  <2>2. QED  BY <2>1, <1>1, <1>2, <1>3, FreeListPush
<1>8. QED  BY <1>1, <1>6, <1>7, ListInv DEF IInv, ListType, ids

\* env_alloc hands out a slot nobody uses.
LEMMA ExoforkInv ==
  ASSUME IInv, NEW c \in CPU, sys_exofork(c)
  PROVE  IInv'
<1> DEFINE cur == cpu_env[c]  e == Head(env_free_list)
           st == [env_status EXCEPT ![e] = "NOT_RUNNABLE"]  rc == env_ipc_recving
           gen == IF env_id[e] = GenMod - 1 THEN 1 ELSE env_id[e] + 1
<1>1. /\ pc[c] = "trap" /\ env_status[cur] # "DYING" /\ env_free_list # <<>>
      /\ trap_tail(c, st) /\ env_free_list' = Tail(env_free_list)
      /\ env_id' = [env_id EXCEPT ![e] = gen]
      /\ env_parent_id' = [env_parent_id EXCEPT ![e] = <<cur, env_id[cur]>>]
      /\ UNCHANGED env_ipc_recving
  BY DEF sys_exofork, Dispatch
<1>2. st \in [Env -> Statuses] /\ rc \in [Env -> BOOLEAN] /\ env_status \in [Env -> Statuses]
  BY DEF IInv, CpuInv, CpuType, Statuses
<1>3. /\ e \in Env /\ env_status[e] = "FREE"
      /\ env_free_list' \in Seq(Env) /\ FreeList(st, env_free_list')
  <2>1. FreeList(env_status, env_free_list) /\ env_free_list \in Seq(Env)
    BY DEF IInv, ListType, FreeListExact, FreeList
  <2>2. QED  BY <2>1, <1>1, <1>2, FreeListPop DEF Statuses
<1>4. /\ cur \in Env /\ env_status[cur] = "RUNNING" /\ kernel_lock = c
      /\ \A d \in CPU \ {c} : pc[d] \in OnCpu =>
           cpu_env[d] \in Env /\ env_status[cpu_env[d]] \in {"RUNNING", "DYING"}
      /\ Mid(c, cur, env_status, rc)
  BY <1>1, DispatchMid DEF IInv
<1>5. Mid(c, cur, st, rc)
  <2>1. e # cur /\ st[cur] = "RUNNING"
    BY <1>2, <1>3, <1>4
  <2>2. \A d \in CPU \ {c} : pc[d] \in OnCpu => st[cpu_env[d]] \in {"RUNNING", "DYING"}
    BY <1>2, <1>3, <1>4
  <2>3. \A x \in Env : st[x] \in {"RUNNING", "DYING"} => st[x] = env_status[x]
    BY <1>2, <1>3
  <2>4. \A x \in Env : rc[x] => st[x] = "NOT_RUNNABLE"
    BY <1>2, <1>3, <1>4 DEF Mid
  <2>5. QED  BY <1>4, <2>1, <2>2, <2>3, <2>4 DEF Mid
<1>6. CpuInv' /\ \A x \in Env : env_status'[x] = "FREE" <=> st[x] = "FREE"
  BY <1>1, <1>2, <1>4, <1>5, TrapTailInv DEF IInv
<1>7. gen \in 0..(GenMod - 1)
  BY <1>3, EnvAssumption DEF IInv, ListType
<1>8. env_id' \in [Env -> 0..(GenMod - 1)]
  BY <1>1, <1>7 DEF IInv, ListType
<1>9. env_parent_id' \in [Env -> (Env \cup {NoEnv}) \X (0..(GenMod - 1))]
  BY <1>1, <1>4 DEF IInv, ListType
<1>10. QED  BY <1>3, <1>6, <1>8, <1>9, ListInv DEF IInv, ListType

\* sys_env_set_status, under rule "settled".
LEMMA SetStatusInv ==
  ASSUME Discipline, IInv, NEW c \in CPU, NEW e \in Env,
         NEW s \in {"RUNNABLE", "NOT_RUNNABLE"}, sys_env_set_status(c, e, s)
  PROVE  IInv'
<1> DEFINE cur == cpu_env[c]  st == [env_status EXCEPT ![e] = s]  rc == env_ipc_recving
<1>1. /\ pc[c] = "trap" /\ env_status[cur] # "DYING" /\ env_status[e] # "FREE"
      /\ e = cur \/ (env_status[e] \in {"RUNNABLE", "NOT_RUNNABLE"} /\ ~rc[e])
      /\ trap_tail(c, st) /\ UNCHANGED <<ids, env_ipc_recving, env_free_list>>
  BY DEF sys_env_set_status, Dispatch, envid2env, MaySetStatus, Discipline
<1>2. st \in [Env -> Statuses] /\ rc \in [Env -> BOOLEAN] /\ env_status \in [Env -> Statuses]
  BY DEF IInv, CpuInv, CpuType, Statuses
<1>3. /\ cur \in Env /\ env_status[cur] = "RUNNING" /\ kernel_lock = c
      /\ \A d \in CPU \ {c} : pc[d] \in OnCpu =>
           /\ cpu_env[d] \in Env /\ cpu_env[d] # cur
           /\ env_status[cpu_env[d]] \in {"RUNNING", "DYING"}
      /\ Mid(c, cur, env_status, rc)
  BY <1>1, DispatchMid DEF IInv
<1>4. Mid(c, cur, st, rc)
  <2>1. st[cur] \in {"RUNNING", "RUNNABLE", "NOT_RUNNABLE"}
    BY <1>2, <1>3
  <2>2. \A d \in CPU \ {c} : pc[d] \in OnCpu => st[cpu_env[d]] \in {"RUNNING", "DYING"}
    BY <1>1, <1>2, <1>3
  <2>3. \A x \in Env : st[x] \in {"RUNNING", "DYING"} => st[x] = env_status[x]
    BY <1>2
  <2>4. \A x \in Env : rc[x] => st[x] = "NOT_RUNNABLE"
    BY <1>1, <1>2, <1>3 DEF Mid
  <2>5. QED  BY <1>3, <2>1, <2>2, <2>3, <2>4 DEF Mid
<1>5. CpuInv' /\ \A x \in Env : env_status'[x] = "FREE" <=> st[x] = "FREE"
  BY <1>1, <1>2, <1>3, <1>4, TrapTailInv DEF IInv
<1>6. \A x \in Env : st[x] = "FREE" <=> env_status[x] = "FREE"
  BY <1>1, <1>2
<1>7. ListType' /\ FreeListExact'
  BY <1>1, <1>5, <1>6 DEF IInv, ListType, FreeListExact, ids
<1>8. QED  BY <1>5, <1>7 DEF IInv

\* sys_env_destroy and the faults, under rules "destroy_once" and
\* "spare_receiver".
LEMMA DestroyInv ==
  ASSUME Discipline, IInv, NEW c \in CPU, NEW e \in Env, sys_env_destroy(c, e)
  PROVE  IInv'
<1> DEFINE cur == cpu_env[c]  rc == env_ipc_recving
           dying == [env_status EXCEPT ![e] = "DYING"]
           free == [env_status EXCEPT ![e] = "FREE"]
<1>1. /\ pc[c] = "trap" /\ env_status[cur] # "DYING" /\ env_status[e] # "FREE"
      /\ env_status[e] # "DYING" /\ ~rc[e]
      /\ env_destroy(c, e) /\ UNCHANGED <<ids, env_ipc_recving>>
  BY DEF sys_env_destroy, Dispatch, envid2env, MayDestroy, Discipline
<1>2. /\ dying \in [Env -> Statuses] /\ free \in [Env -> Statuses]
      /\ rc \in [Env -> BOOLEAN] /\ env_status \in [Env -> Statuses]
  BY DEF IInv, CpuInv, CpuType, Statuses
<1>3. /\ cur \in Env /\ env_status[cur] = "RUNNING" /\ kernel_lock = c
      /\ \A d \in CPU \ {c} : pc[d] \in OnCpu =>
           /\ cpu_env[d] \in Env /\ cpu_env[d] # cur
           /\ env_status[cpu_env[d]] \in {"RUNNING", "DYING"}
      /\ Mid(c, cur, env_status, rc)
  BY <1>1, DispatchMid DEF IInv
<1>4. FreeList(env_status, env_free_list) /\ env_free_list \in Seq(Env)
  BY DEF IInv, ListType, FreeListExact, FreeList
<1>5. CASE env_status[e] = "RUNNING" /\ e # cur
  <2>1. trap_tail(c, dying) /\ env_free_list' = env_free_list
    BY <1>1, <1>5 DEF env_destroy
  <2>2. Mid(c, cur, dying, rc)
    <3>1. dying[cur] = "RUNNING"
      BY <1>2, <1>3, <1>5
    <3>2. \A d \in CPU \ {c} : pc[d] \in OnCpu => dying[cpu_env[d]] \in {"RUNNING", "DYING"}
      BY <1>2, <1>3
    <3>3. \A x \in Env : dying[x] \in {"RUNNING", "DYING"} => env_status[x] \in {"RUNNING", "DYING"}
      BY <1>2, <1>5
    <3>4. \A x \in Env : rc[x] => dying[x] = "NOT_RUNNABLE"
      BY <1>1, <1>2, <1>3 DEF Mid
    <3>5. QED  BY <1>3, <3>1, <3>2, <3>3, <3>4 DEF Mid
  <2>3. CpuInv' /\ \A x \in Env : env_status'[x] = "FREE" <=> dying[x] = "FREE"
    BY <1>1, <1>2, <1>3, <2>1, <2>2, TrapTailInv DEF IInv
  <2>4. \A x \in Env : dying[x] = "FREE" <=> env_status[x] = "FREE"
    BY <1>1, <1>2
  <2>5. ListType' /\ FreeListExact'
    BY <1>1, <2>1, <2>3, <2>4 DEF IInv, ListType, FreeListExact, ids
  <2>6. QED  BY <2>3, <2>5 DEF IInv
<1>6. CASE ~(env_status[e] = "RUNNING" /\ e # cur)
  <2>1. env_free_list' = <<e>> \o env_free_list
    BY <1>1, <1>6 DEF env_destroy
  <2>2. env_free_list' \in Seq(Env) /\ FreeList(free, env_free_list')
    BY <2>1, <1>1, <1>2, <1>4, FreeListPush
  <2>3. /\ \A d \in CPU \ {c} : pc[d] \in OnCpu => free[cpu_env[d]] \in {"RUNNING", "DYING"}
        /\ \A x \in Env : free[x] \in {"RUNNING", "DYING"} => free[x] = env_status[x] /\ x # e
        /\ \A x \in Env : rc[x] => free[x] = "NOT_RUNNABLE"
    <3>1. \A d \in CPU \ {c} : pc[d] \in OnCpu => cpu_env[d] # e
      BY <1>1, <1>3, <1>6
    <3>2. QED  BY <1>1, <1>2, <1>3, <3>1 DEF Mid
  <2>4. CASE e = cur
    <3>1. sched_yield(c, NoEnv, free)
      BY <1>1, <1>6, <2>4 DEF env_destroy
    <3>2. Mid(c, NoEnv, free, rc)
      BY <1>3, <2>3, <2>4 DEF Mid
    <3>3. CpuInv' /\ \A x \in Env : env_status'[x] = "FREE" <=> free[x] = "FREE"
      BY <1>1, <1>2, <3>1, <3>2, SchedYieldInv DEF IInv
    <3>4. QED  BY <1>1, <2>2, <3>3, ListInv DEF IInv, ListType, ids
  <2>5. CASE e # cur
    <3>1. trap_tail(c, free)
      BY <1>1, <1>6, <2>5 DEF env_destroy
    <3>2. free[cur] = "RUNNING"
      BY <1>2, <1>3, <2>5
    <3>3. Mid(c, cur, free, rc)
      BY <1>3, <2>3, <3>2 DEF Mid
    <3>4. CpuInv' /\ \A x \in Env : env_status'[x] = "FREE" <=> free[x] = "FREE"
      BY <1>1, <1>2, <1>3, <3>1, <3>3, TrapTailInv DEF IInv
    <3>5. QED  BY <1>1, <2>2, <3>4, ListInv DEF IInv, ListType, ids
  <2>6. QED  BY <2>4, <2>5
<1>7. QED  BY <1>5, <1>6

\* Blocking in sys_ipc_recv and being woken by sys_ipc_try_send.
LEMMA IpcInv ==
  ASSUME IInv, NEW c \in CPU,
         sys_ipc_recv(c) \/ \E e \in Env : sys_ipc_try_send(c, e)
  PROVE  IInv'
<1> DEFINE cur == cpu_env[c]
<1>1. /\ pc[c] = "trap" /\ env_status[cur] # "DYING"
      /\ UNCHANGED <<ids, env_free_list>>
  BY DEF sys_ipc_recv, sys_ipc_try_send, Dispatch
<1>2. /\ cur \in Env /\ env_status[cur] = "RUNNING" /\ kernel_lock = c
      /\ \A d \in CPU \ {c} : pc[d] \in OnCpu =>
           /\ cpu_env[d] \in Env /\ cpu_env[d] # cur
           /\ env_status[cpu_env[d]] \in {"RUNNING", "DYING"}
      /\ Mid(c, cur, env_status, env_ipc_recving)
  BY <1>1, DispatchMid DEF IInv
<1>3. env_status \in [Env -> Statuses] /\ env_ipc_recving \in [Env -> BOOLEAN]
  BY DEF IInv, CpuInv, CpuType
<1>4. ASSUME CpuInv', \A x \in Env : env_status'[x] = "FREE" <=> env_status[x] = "FREE"
      PROVE  IInv'
  <2>1. ListType' /\ FreeListExact'
    BY <1>1, <1>4 DEF IInv, ListType, FreeListExact, ids
  <2>2. QED  BY <1>4, <2>1 DEF IInv
<1>5. CASE sys_ipc_recv(c)
  <2> DEFINE st == [env_status EXCEPT ![cur] = "NOT_RUNNABLE"]
             rc == [env_ipc_recving EXCEPT ![cur] = TRUE]
  <2>1. env_ipc_recving' = rc /\ sched_yield(c, cur, st)
    BY <1>5 DEF sys_ipc_recv
  <2>2. st \in [Env -> Statuses] /\ rc \in [Env -> BOOLEAN]
    BY <1>3 DEF Statuses
  <2>3. Mid(c, cur, st, rc)
    <3>1. st[cur] = "NOT_RUNNABLE"
      BY <1>2, <1>3
    <3>2. \A x \in Env : st[x] \in {"RUNNING", "DYING"} => st[x] = env_status[x]
      BY <1>2, <1>3
    <3>3. \A d \in CPU \ {c} : pc[d] \in OnCpu => st[cpu_env[d]] \in {"RUNNING", "DYING"}
      BY <1>2, <1>3
    <3>4. \A x \in Env : rc[x] => st[x] = "NOT_RUNNABLE"
      BY <1>2, <1>3 DEF Mid
    <3>5. QED  BY <1>2, <3>1, <3>2, <3>3, <3>4 DEF Mid
  <2>4. CpuInv' /\ \A x \in Env : env_status'[x] = "FREE" <=> st[x] = "FREE"
    <3> HIDE DEF st, rc, cur
    <3> QED  BY <1>2, <2>1, <2>2, <2>3, SchedYieldInv DEF IInv
  <2>5. \A x \in Env : st[x] = "FREE" <=> env_status[x] = "FREE"
    BY <1>2, <1>3
  <2>6. QED  BY <1>4, <2>4, <2>5
<1>6. ASSUME NEW e \in Env, sys_ipc_try_send(c, e) PROVE IInv'
  <2> DEFINE st == [env_status EXCEPT ![e] = "RUNNABLE"]
             rc == [env_ipc_recving EXCEPT ![e] = FALSE]
  <2>1. /\ env_ipc_recving' = rc /\ trap_tail(c, st)
        /\ env_ipc_recving[e] /\ env_status[e] # "FREE"
    BY <1>6 DEF sys_ipc_try_send
  <2>2. st \in [Env -> Statuses] /\ rc \in [Env -> BOOLEAN] /\ env_status[e] = "NOT_RUNNABLE"
    BY <1>2, <1>3, <2>1 DEF Statuses, Mid
  <2>3. Mid(c, cur, st, rc)
    <3>1. st[cur] = "RUNNING"
      BY <1>2, <1>3, <2>2
    <3>2. \A x \in Env : st[x] \in {"RUNNING", "DYING"} => st[x] = env_status[x]
      BY <1>3
    <3>3. \A d \in CPU \ {c} : pc[d] \in OnCpu => st[cpu_env[d]] \in {"RUNNING", "DYING"}
      BY <1>2, <1>3, <2>2
    <3>4. \A x \in Env : rc[x] => st[x] = "NOT_RUNNABLE"
      BY <1>2, <1>3 DEF Mid
    <3>5. QED  BY <1>2, <3>1, <3>2, <3>3, <3>4 DEF Mid
  <2>4. CpuInv' /\ \A x \in Env : env_status'[x] = "FREE" <=> st[x] = "FREE"
    BY <1>2, <2>1, <2>2, <2>3, TrapTailInv DEF IInv
  <2>5. \A x \in Env : st[x] = "FREE" <=> env_status[x] = "FREE"
    BY <1>3, <2>1
  <2>6. QED  BY <1>4, <2>4, <2>5
<1>7. QED  BY <1>5, <1>6

-----------------------------------------------------------------------------
\* The state in which i386_init calls sched_yield satisfies the invariant.
LEMMA InitInv == Init => IInv
<1> SUFFICES ASSUME Init PROVE IInv
  OBVIOUS
<1> USE CpuAssumption, EnvAssumption DEF Init
<1>1. CpuType
  BY DEF CpuType, Places, Statuses, Env, NoEnv
<1>2. LockExclusive /\ HaltedMarked
  BY DEF LockExclusive, HaltedMarked, InKernel
<1>3. RunsOnOneCpu /\ CurEnvAlive /\ OnSomeCpu
  BY DEF RunsOnOneCpu, CurEnvAlive, OnSomeCpu, OnCpu
<1>4. ReceiverBlocked /\ MonitorIdle
  BY DEF ReceiverBlocked, MonitorIdle
<1>5. ListType
  <2>1. env_id \in [Env -> 0..(GenMod - 1)]
    OBVIOUS
  <2>2. env_parent_id \in [Env -> (Env \cup {NoEnv}) \X (0..(GenMod - 1))]
    OBVIOUS
  <2>3. \A i \in 1..(NENV - NInit) : (NInit + i) - 1 \in Env
    BY DEF Env
  <2>4. env_free_list \in Seq(Env)
    BY <2>3
  <2>5. QED  BY <2>1, <2>2, <2>4 DEF ListType
<1>6. FreeListExact
  <2>1. Len(env_free_list) = NENV - NInit
    OBVIOUS
  <2>2. \A i \in 1..(NENV - NInit) : env_free_list[i] = (NInit + i) - 1
    OBVIOUS
  <2>3. ASSUME NEW e \in Env
        PROVE  env_status[e] = "FREE" <=> \E i \in 1..Len(env_free_list) : env_free_list[i] = e
    <3>1. env_status[e] = "FREE" <=> e >= NInit
      BY DEF Env
    <3>2. e >= NInit => (e - NInit) + 1 \in 1..(NENV - NInit) /\ env_free_list[(e - NInit) + 1] = e
      BY <2>2 DEF Env
    <3>3. QED  BY <2>1, <2>2, <3>1, <3>2 DEF Env
  <2>4. QED  BY <2>1, <2>2, <2>3 DEF FreeListExact
<1>7. QED  BY <1>1, <1>2, <1>3, <1>4, <1>5, <1>6 DEF IInv, CpuInv

\* Every step of every processor preserves the invariant.
LEMMA NextInv == ASSUME Discipline, IInv, [Next]_vars PROVE IInv'
<1>1. CASE UNCHANGED vars
  BY <1>1 DEF IInv, CpuInv, CpuType, LockExclusive, HaltedMarked, RunsOnOneCpu, CurEnvAlive,
     OnSomeCpu, ReceiverBlocked, MonitorIdle, ListType, FreeListExact, vars, cpuvars, ids
<1>2. ASSUME NEW c \in CPU, trap_user(c) \/ trap_halted(c) \/ lock_kernel(c) \/ env_pop_tf(c)
      PROVE  IInv'
  BY <1>2, EntryInv
<1>3. ASSUME NEW c \in CPU, Handler(c) PROVE IInv'
  <2>1. CASE brkpt(c)
    BY <2>1, EntryInv
  <2>2. CASE sched(c) \/ sys_yield(c) \/ trap_other(c)
    BY <2>2, ScheduleInv
  <2>3. CASE reap(c)
    BY <2>3, ReapInv
  <2>4. CASE monitor(c)
    BY <2>4, <1>1 DEF monitor
  <2>5. CASE sys_exofork(c)
    BY <2>5, ExoforkInv
  <2>6. CASE sys_ipc_recv(c) \/ \E e \in Env : sys_ipc_try_send(c, e)
    BY <2>6, IpcInv
  <2>7. CASE \E e \in Env : sys_env_destroy(c, e)
    BY <2>7, DestroyInv
  <2>8. CASE \E e \in Env : \E s \in {"RUNNABLE", "NOT_RUNNABLE"} : sys_env_set_status(c, e, s)
    BY <2>8, SetStatusInv
  <2>9. QED  BY <1>3, <2>1, <2>2, <2>3, <2>4, <2>5, <2>6, <2>7, <2>8 DEF Handler
<1>4. QED  BY <1>1, <1>2, <1>3 DEF Next

\* The inductive invariant holds in every behaviour of programs that keep the
\* discipline of Rules, for any number of processors and environments.
THEOREM Invariant == ASSUME Discipline PROVE Spec => []IInv
BY InitInv, NextInv, PTL DEF Spec

\* Every variable keeps the type Kernel declares: in particular curenv is
\* always a slot of envs[] or NULL and sched_yield's index never leaves envs[].
THEOREM TypeCorrect == ASSUME Discipline PROVE Spec => []TypeOK
<1>1. IInv => TypeOK
  BY DEF IInv, CpuInv, CpuType, ListType, TypeOK
<1>2. QED  BY <1>1, Invariant, PTL

\* The big kernel lock excludes and is never taken twice (spinlock.c, trap()).
THEOREM LockSafe == ASSUME Discipline PROVE Spec => []LockExclusive
<1>1. IInv => LockExclusive
  BY DEF IInv, CpuInv
<1>2. QED  BY <1>1, Invariant, PTL

\* sched_yield and env_run never give an environment to two processors.
THEOREM OneCpu == ASSUME Discipline PROVE Spec => []RunsOnOneCpu
<1>1. IInv => RunsOnOneCpu
  BY DEF IInv, CpuInv
<1>2. QED  BY <1>1, Invariant, PTL

\* An ENV_RUNNING environment or a zombie is on some processor, which will
\* preempt or reap it: env_run, env_destroy and sched_halt lose none.
THEOREM NoneLost == ASSUME Discipline PROVE Spec => []OnSomeCpu
<1>1. IInv => OnSomeCpu
  BY DEF IInv, CpuInv
<1>2. QED  BY <1>1, Invariant, PTL

\* sys_ipc_try_send finds env_ipc_recving only in a blocked environment, so that
\* waking it up never makes a running one runnable a second time.
THEOREM ReceiversBlocked == ASSUME Discipline PROVE Spec => []ReceiverBlocked
<1>1. IInv => ReceiverBlocked
  BY DEF IInv, CpuInv
<1>2. QED  BY <1>1, Invariant, PTL

\* The Env and page directory a processor uses are never freed under it: it
\* runs an environment that is running or dying (env_destroy, trap()).
THEOREM Alive == ASSUME Discipline PROVE Spec => []CurEnvAlive
<1>1. IInv => CurEnvAlive
  BY DEF IInv, CpuInv
<1>2. QED  BY <1>1, Invariant, PTL

\* env_alloc and env_free keep the free list exact.
THEOREM FreeListSafe == ASSUME Discipline PROVE Spec => []FreeListExact
<1>1. IInv => FreeListExact
  BY DEF IInv
<1>2. QED  BY <1>1, Invariant, PTL

\* A processor enters the monitor for good only in a quiet system (sched_halt).
THEOREM MonitorSafe == ASSUME Discipline PROVE Spec => []MonitorQuiet
<1>1. ASSUME IInv PROVE MonitorQuiet
  <2> SUFFICES ASSUME NEW c \in CPU, pc[c] = "monitor", NEW d \in CPU
               PROVE  pc[d] \in {"monitor", "halted", "wake", "apboot"}
    BY DEF MonitorQuiet
  <2>1. kernel_lock = c
    BY <1>1 DEF IInv, CpuInv, LockExclusive, InKernel
  <2>2. d # c => pc[d] \notin InKernel /\ pc[d] # "panic"
    BY <1>1, <2>1 DEF IInv, CpuInv, LockExclusive
  <2>3. pc[d] \notin OnCpu
    BY <1>1 DEF IInv, CpuInv, CpuType, CurEnvAlive, MonitorIdle
  <2>4. QED  BY <1>1, <2>2, <2>3 DEF IInv, CpuInv, CpuType, Places, OnCpu, InKernel
<1>2. QED  BY <1>1, Invariant, PTL

\* Leaving the kernel does not change which environments are zombies.
LEMMA DyingKept ==
  ASSUME NEW c \in CPU, NEW cur \in Env \cup {NoEnv}, NEW st \in [Env -> Statuses],
         NEW e \in Env, st[e] = "DYING",
         \/ sched_yield(c, cur, st)
         \/ st[cur] = "RUNNING" /\ env_run(c, cur, cur, st)
  PROVE  env_status'[e] = "DYING"
<1>1. ASSUME NEW f, st[f] # "DYING", env_run(c, cur, f, st)
      PROVE  env_status'[e] = "DYING"
  BY <1>1 DEF env_run, preempted
<1>2. CASE \E f \in runnable(st) : env_run(c, cur, f, st)
  BY <1>2, <1>1 DEF runnable
<1>3. CASE st[cur] = "RUNNING" /\ env_run(c, cur, cur, st)
  BY <1>3, <1>1
<1>4. CASE sched_halt(c, cur, st)
  BY <1>4 DEF sched_halt
<1>5. QED  BY <1>2, <1>3, <1>4 DEF sched_yield

\* A zombie is freed by its own processor's trap and by nothing else
\* (env_destroy's comment): from the invariant, for every step.
THEOREM ZombieSafe == ASSUME Discipline PROVE Spec => ZombieUntilTrap
<1> DEFINE Freed == \A e \in Env : (env_status[e] = "DYING" /\ env_status'[e] # "DYING") =>
                      \E c \in CPU : pc[c] = "trap" /\ cpu_env[c] = e
<1>1. ASSUME Discipline, IInv, [Next]_vars PROVE [Freed]_vars
  <2> SUFFICES ASSUME Next, NEW e \in Env, env_status[e] = "DYING", env_status'[e] # "DYING"
               PROVE  \E c \in CPU : pc[c] = "trap" /\ cpu_env[c] = e
    BY <1>1
  <2>1. PICK c \in CPU : \/ trap_user(c) \/ trap_halted(c) \/ lock_kernel(c) \/ env_pop_tf(c)
                         \/ Handler(c)
    BY DEF Next
  <2>2. env_status \in [Env -> Statuses] /\ cpu_env[c] \in Env \cup {NoEnv}
    BY <1>1 DEF IInv, CpuInv, CpuType
  <2>3. ASSUME NEW cur \in Env \cup {NoEnv}, sched_yield(c, cur, env_status) PROVE FALSE
    BY <2>2, <2>3, DyingKept
  <2>4. ASSUME NEW x \in Env, x # e, NEW s \in Statuses, NEW cur \in Env \cup {NoEnv},
               sched_yield(c, cur, [env_status EXCEPT ![x] = s])
        PROVE  FALSE
    <3>1. [env_status EXCEPT ![x] = s] \in [Env -> Statuses]
          /\ [env_status EXCEPT ![x] = s][e] = "DYING"
      BY <2>2, <2>4
    <3>2. QED  BY <3>1, <2>4, DyingKept
  <2>5. ASSUME NEW x \in Env, x # e, NEW s \in Statuses,
               trap_tail(c, [env_status EXCEPT ![x] = s])
        PROVE  FALSE
    <3>1. [env_status EXCEPT ![x] = s] \in [Env -> Statuses]
          /\ [env_status EXCEPT ![x] = s][e] = "DYING"
      BY <2>2, <2>5
    <3>2. QED  BY <3>1, <2>2, <2>5, DyingKept DEF trap_tail
  <2>6. env_status' # env_status
    OBVIOUS
  <2>7. ~(trap_user(c) \/ trap_halted(c) \/ lock_kernel(c) \/ env_pop_tf(c) \/ brkpt(c) \/ monitor(c))
    BY <2>6 DEF trap_user, trap_halted, lock_kernel, env_pop_tf, brkpt, monitor, vars
  <2>8. CASE sched(c) \/ sys_yield(c) \/ trap_other(c)
    <3>1. CASE sched_yield(c, cpu_env[c], env_status)
      BY <3>1, <2>2, <2>3
    <3>2. CASE trap_tail(c, env_status)
      BY <3>2, <2>2, DyingKept DEF trap_tail
    <3>3. QED  BY <2>8, <3>1, <3>2 DEF sched, sys_yield, trap_other
  <2>9. CASE reap(c)
    <3>1. /\ pc[c] = "trap" /\ env_status[cpu_env[c]] = "DYING"
          /\ sched_yield(c, NoEnv, [env_status EXCEPT ![cpu_env[c]] = "FREE"])
      BY <2>9 DEF reap
    <3>2. cpu_env[c] \in Env
      BY <3>1, <1>1 DEF IInv, CpuInv, CpuType, CurEnvAlive, OnCpu
    <3>3. cpu_env[c] = e
      BY <3>1, <3>2, <2>4 DEF Statuses
    <3>4. QED  BY <3>1, <3>3
  <2>10. ASSUME pc[c] = "trap", env_status[cpu_env[c]] # "DYING"
         PROVE  cpu_env[c] \in Env /\ cpu_env[c] # e
    BY <2>10, <1>1, DispatchMid DEF IInv
  <2>11. CASE sys_exofork(c)
    <3>1. /\ env_free_list # <<>>
          /\ trap_tail(c, [env_status EXCEPT ![Head(env_free_list)] = "NOT_RUNNABLE"])
      BY <2>11 DEF sys_exofork
    <3>2. FreeList(env_status, env_free_list) /\ env_free_list \in Seq(Env)
      BY <1>1 DEF IInv, ListType, FreeListExact, FreeList
    <3>3. Head(env_free_list) \in Env /\ env_status[Head(env_free_list)] = "FREE"
      BY <3>1, <3>2, <2>2, FreeListPop DEF Statuses
    <3>4. QED  BY <3>1, <3>3, <2>5 DEF Statuses
  <2>12. CASE sys_ipc_recv(c)
    <3>1. cpu_env[c] \in Env /\ cpu_env[c] # e
      BY <2>12, <2>10 DEF sys_ipc_recv, Dispatch
    <3>2. QED  BY <2>12, <3>1, <2>4 DEF sys_ipc_recv, Statuses
  <2>13. ASSUME NEW x \in Env, sys_ipc_try_send(c, x) PROVE FALSE
    <3>1. x # e
      BY <2>13, <1>1 DEF sys_ipc_try_send, IInv, CpuInv, ReceiverBlocked
    <3>2. QED  BY <2>13, <3>1, <2>5 DEF sys_ipc_try_send, Statuses
  <2>14. ASSUME NEW x \in Env, NEW s \in {"RUNNABLE", "NOT_RUNNABLE"}, sys_env_set_status(c, x, s)
         PROVE  FALSE
    <3>1. x # e
      BY <2>14, <2>10, <1>1 DEF sys_env_set_status, Dispatch, MaySetStatus, Discipline
    <3>2. QED  BY <2>14, <3>1, <2>5 DEF sys_env_set_status, Statuses
  <2>15. ASSUME NEW x \in Env, sys_env_destroy(c, x) PROVE FALSE
    <3>1. x # e
      BY <2>15, <1>1 DEF sys_env_destroy, MayDestroy, Discipline
    <3>2. QED
      BY <2>15, <3>1, <2>4, <2>5 DEF sys_env_destroy, env_destroy, Statuses
  <2>16. QED  BY <2>1, <2>7, <2>8, <2>9, <2>11, <2>12, <2>13, <2>14, <2>15 DEF Handler
<1>2. QED  BY <1>1, Invariant, PTL DEF Spec, ZombieUntilTrap
=============================================================================
