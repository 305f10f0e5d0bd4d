--------------------------------- MODULE Smp --------------------------------
(***************************************************************************)
(* Multiprocessor start-up and the spin lock: mp_init (kern/mpconfig.c),   *)
(* boot_aps and mp_main (kern/init.c), kern/mpentry.S, lapic_startap, and  *)
(* kern/spinlock.c instruction by instruction.  Module Kernel begins where *)
(* this one ends and takes the lock in one step.                           *)
(*                                                                         *)
(* Processor 0 is the boot processor, and the processors' local APIC ids   *)
(* are their positions among the processor entries of the MP table, as     *)
(* mp_init and cpunum() take for granted.                                  *)
(***************************************************************************)
EXTENDS Integers, Sequences, FiniteSets

CONSTANTS
  NCPU,        \* length of cpus[]
  MaxEntries   \* bound: entries of the MP table

ASSUME NcpuAssumption == NCPU \in Nat \ {0} /\ MaxEntries \in Nat \ {0}

Proc == 0..(MaxEntries - 1)
BSP == 0
None == -1

\* The table BIOS leaves: the tests of mpconfig it fails, and its entries.
Tests == {"search", "default", "signature", "checksum", "version", "xchecksum"}
Tables == [fails : {{}} \cup {{t} : t \in Tests},
           entries : {s \in UNION {[1..n -> {"MPPROC", "MPBUS", "unknown"}] : n \in 1..MaxEntries} : s[1] = "MPPROC"}]

VARIABLES
  table,            \* the MP table
  pc,               \* where a processor is
  ncpu, cpu_status, \* cpus[]
  cpu,              \* boot_aps's loop variable c - cpus
  mpentry_kstack,   \* the stack boot_aps hands over
  esp,              \* the kernel stack a processor runs on
  tr,               \* the TSS it has loaded, which names its stack for traps
  startups,         \* STARTUP interrupts on their way to it
  locked, lk_cpu    \* kernel_lock

boot == <<table, ncpu, cpu_status, cpu, mpentry_kstack, esp, tr, startups>>
lock == <<locked, lk_cpu>>
vars == <<pc, boot, lock>>

Goto(p, place) == pc' = [pc EXCEPT ![p] = place]

-----------------------------------------------------------------------------
\* The processors a table announces, before and beyond NCPU.
present(t) == Cardinality({i \in DOMAIN t.entries : t.entries[i] = "MPPROC"})

mpconfig(t) == t.fails = {}

\* Entries count until an unknown one, which turns SMP off.  Without a valid
\* table mp_init returns before it sets anything.
mp_init ==
  /\ pc[BSP] = "mp_init"
  /\ Goto(BSP, "lock")
  /\ LET known == \A i \in DOMAIN table.entries : table.entries[i] # "unknown"
         n == present(table)
     IN IF mpconfig(table)
        THEN /\ ncpu' = IF ~known THEN 1 ELSE IF n < NCPU THEN n ELSE NCPU
             /\ cpu_status' = [cpu_status EXCEPT ![BSP] = "STARTED"]
        ELSE UNCHANGED <<ncpu, cpu_status>>
  /\ UNCHANGED <<table, cpu, mpentry_kstack, esp, tr, startups, lock>>

\* Mutant: boot_aps does not wait for the processor it started.
boot_aps_nowait ==
  /\ pc[BSP] = "boot" /\ cpu < ncpu
  /\ cpu' = cpu + 1
  /\ IF cpu = BSP THEN UNCHANGED <<pc, mpentry_kstack, startups>>
     ELSE /\ mpentry_kstack' = cpu
          /\ pc' = [pc EXCEPT ![cpu] = "init"]
          /\ startups' = [startups EXCEPT ![cpu] = 2]
  /\ UNCHANGED <<table, ncpu, cpu_status, esp, tr, lock>>

\* One turn of boot_aps's loop: name the stack, send INIT and two STARTUPs.
boot_aps ==
  /\ pc[BSP] = "boot" /\ cpu < ncpu
  /\ IF cpu = BSP
     THEN cpu' = cpu + 1 /\ UNCHANGED <<pc, mpentry_kstack, startups>>
     ELSE /\ mpentry_kstack' = cpu
          /\ pc' = [pc EXCEPT ![cpu] = "init", ![BSP] = "wait"]
          /\ startups' = [startups EXCEPT ![cpu] = 2]
          /\ UNCHANGED cpu
  /\ UNCHANGED <<table, ncpu, cpu_status, esp, tr, lock>>

\* "Wait for the CPU to finish some basic setup in mp_main()".
boot_aps_spin == pc[BSP] = "wait" /\ cpu_status[cpu] # "STARTED" /\ UNCHANGED vars

boot_aps_wait ==
  /\ pc[BSP] = "wait" /\ cpu_status[cpu] = "STARTED"
  /\ cpu' = cpu + 1
  /\ Goto(BSP, "boot")
  /\ UNCHANGED <<table, ncpu, cpu_status, mpentry_kstack, esp, tr, startups, lock>>

\* The rest of i386_init: create environments, and leave by sched_yield.
i386_init ==
  /\ pc[BSP] = "boot" /\ cpu >= ncpu
  /\ Goto(BSP, "critical")
  /\ UNCHANGED <<boot, lock>>

-----------------------------------------------------------------------------
\* A STARTUP starts a processor that INIT has reset; others ignore it.  The
\* first one may be lost.
startup(p) ==
  /\ startups[p] > 0
  /\ startups' = [startups EXCEPT ![p] = @ - 1]
  /\ \/ pc[p] = "init" /\ Goto(p, "mpentry")
     \/ (startups[p] = 2 \/ pc[p] # "init") /\ UNCHANGED pc
  /\ UNCHANGED <<table, ncpu, cpu_status, cpu, mpentry_kstack, esp, tr, lock>>

mpentry(p) ==
  /\ pc[p] = "mpentry"
  /\ esp' = [esp EXCEPT ![p] = mpentry_kstack]
  /\ Goto(p, "mp_main")
  /\ UNCHANGED <<table, ncpu, cpu_status, cpu, mpentry_kstack, tr, startups, lock>>

\* trap_init_percpu: the TSS of slot cpunum().
trap_init_percpu(p) ==
  /\ pc[p] = "mp_main"
  /\ tr' = [tr EXCEPT ![p] = p]
  /\ Goto(p, "mp_started")
  /\ UNCHANGED <<table, ncpu, cpu_status, cpu, mpentry_kstack, esp, startups, lock>>

\* Mutant: the processor takes the kernel lock before it reports.
mp_started_locked(p) ==
  /\ pc[p] = "mp_started" /\ locked = 0
  /\ cpu_status' = [cpu_status EXCEPT ![p] = "STARTED"]
  /\ Goto(p, "lock")
  /\ UNCHANGED <<table, ncpu, cpu, mpentry_kstack, esp, tr, startups, lock>>

mp_started(p) ==
  /\ pc[p] = "mp_started"
  /\ cpu_status' = [cpu_status EXCEPT ![p] = "STARTED"]
  /\ Goto(p, "lock")
  /\ UNCHANGED <<table, ncpu, cpu, mpentry_kstack, esp, tr, startups, lock>>

-----------------------------------------------------------------------------
\* spin_lock.  holding() reads locked, then cpu, while others may be changing
\* them; each read is a step.
spin_lock_locked(p) ==
  /\ pc[p] = "lock"
  /\ Goto(p, IF locked = 0 THEN "xchg" ELSE "lock_cpu")
  /\ UNCHANGED <<boot, lock>>

spin_lock_cpu(p) ==
  /\ pc[p] = "lock_cpu"
  /\ Goto(p, IF lk_cpu = p THEN "panic" ELSE "xchg")
  /\ UNCHANGED <<boot, lock>>

spin_lock_pause(p) == pc[p] = "xchg" /\ locked = 1 /\ UNCHANGED vars

spin_lock_xchg(p) ==
  /\ pc[p] = "xchg" /\ locked = 0
  /\ locked' = 1
  /\ Goto(p, "own")
  /\ UNCHANGED <<boot, lk_cpu>>

\* With the lock, i386_init goes on to boot_aps, all others to the scheduler.
spin_lock_own(p) ==
  /\ pc[p] = "own"
  /\ lk_cpu' = p
  /\ Goto(p, IF p = BSP /\ cpu < ncpu THEN "boot" ELSE "critical")
  /\ UNCHANGED <<boot, locked>>

\* spin_unlock, called by env_run or sched_halt.
spin_unlock_locked(p) ==
  /\ pc[p] = "critical"
  /\ Goto(p, IF locked = 0 THEN "panic" ELSE "unlock_cpu")
  /\ UNCHANGED <<boot, lock>>

spin_unlock_cpu(p) ==
  /\ pc[p] = "unlock_cpu"
  /\ Goto(p, IF lk_cpu = p THEN "disown" ELSE "panic")
  /\ UNCHANGED <<boot, lock>>

\* Mutant: the two stores of spin_unlock are swapped.
spin_unlock_disown_late(p) ==
  /\ pc[p] = "disown"
  /\ locked' = 0
  /\ Goto(p, "unlock_xchg")
  /\ UNCHANGED <<boot, lk_cpu>>

spin_unlock_disown(p) ==
  /\ pc[p] = "disown"
  /\ lk_cpu' = None
  /\ Goto(p, "unlock_xchg")
  /\ UNCHANGED <<boot, locked>>

spin_unlock_xchg(p) ==
  /\ pc[p] = "unlock_xchg"
  /\ locked' = 0
  /\ Goto(p, "user")
  /\ UNCHANGED <<boot, lk_cpu>>

\* A trap, or the timer of a halted processor.
trap(p) == pc[p] = "user" /\ Goto(p, "lock") /\ UNCHANGED <<boot, lock>>

-----------------------------------------------------------------------------
\* trap_init has run before mp_init: the boot processor has TSS 0.
Init ==
  /\ table \in Tables
  /\ pc = [p \in Proc |-> IF p = BSP THEN "mp_init" ELSE "off"]
  /\ ncpu = 0 /\ cpu_status = [i \in 0..(NCPU - 1) |-> "UNUSED"]
  /\ cpu = 0 /\ mpentry_kstack = None
  /\ esp = [p \in Proc |-> IF p = BSP THEN BSP ELSE None]
  /\ tr = [p \in Proc |-> IF p = BSP THEN BSP ELSE None]
  /\ startups = [p \in Proc |-> 0]
  /\ locked = 0 /\ lk_cpu = None

Step(p) ==
  \/ mpentry(p) \/ trap_init_percpu(p) \/ mp_started(p)
  \/ spin_lock_locked(p) \/ spin_lock_cpu(p) \/ spin_lock_pause(p) \/ spin_lock_xchg(p) \/ spin_lock_own(p)
  \/ spin_unlock_locked(p) \/ spin_unlock_cpu(p) \/ spin_unlock_disown(p) \/ spin_unlock_xchg(p)
  \/ trap(p)

BootStep == mp_init \/ boot_aps \/ boot_aps_spin \/ boot_aps_wait \/ i386_init

Next == BootStep \/ \E p \in Proc : startup(p) \/ Step(p)

Spec == Init /\ [][Next]_vars

\* Processors that run do not stop, and interrupts arrive.  The lock is not
\* assumed to be fair.
FairSpec ==
  Spec /\ WF_vars(BootStep) /\ \A p \in Proc : WF_vars(startup(p)) /\ WF_vars(Step(p))

-----------------------------------------------------------------------------
Owns(p) == pc[p] \in {"own", "boot", "wait", "critical", "unlock_cpu", "disown", "unlock_xchg"}

\* The spin lock lets in one processor at a time, and holding()'s unprotected
\* reads never mistake the caller for the holder, or the holder for someone
\* else, which would be a panic.
LockSound ==
  /\ \A p, q \in Proc : (Owns(p) /\ Owns(q)) => p = q
  /\ \A p \in Proc : pc[p] # "panic"

\* boot_aps's "Tell mpentry.S what stack to use": every processor runs on the
\* stack and with the TSS of its own slot, inside percpu_kstacks, although one
\* variable hands the stacks over and STARTUPs may come twice and late.
OwnStack ==
  \A p \in Proc :
    /\ esp[p] # None => (esp[p] = p /\ p < NCPU)
    /\ tr[p] # None => (tr[p] = p /\ p < NCPU)

\* boot_aps ends: every processor in cpus[] reports while the boot processor
\* holds the kernel lock, so that none waits for the other for ever.
BootCompletes ==
  <>[](pc[BSP] \notin {"mp_init", "boot", "wait"} /\ \A p \in Proc : p < ncpu => cpu_status[p] = "STARTED")
=============================================================================
