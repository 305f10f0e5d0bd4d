------------------------------ MODULE SmpProofs -----------------------------
(***************************************************************************)
(* Proofs for module Smp, for any number of processors and any MP table:   *)
(* the spin lock excludes and never panics, and every processor starts on  *)
(* its own stack.                                                          *)
(***************************************************************************)
EXTENDS Smp, FiniteSetTheorems, TLAPS

Places == {"off", "init", "mpentry", "mp_main", "mp_started", "mp_init", "boot", "wait",
           "lock", "lock_cpu", "xchg", "own", "critical", "unlock_cpu", "disown",
           "unlock_xchg", "user"}

\* Without "panic": that no processor gets there is part of the invariant.
SmpType ==
  /\ table \in Tables
  /\ pc \in [Proc -> Places]
  /\ ncpu \in 0..NCPU
  /\ cpu_status \in [0..(NCPU - 1) -> {"UNUSED", "STARTED"}]
  /\ cpu \in Nat
  /\ esp \in [Proc -> Proc \cup {None}]
  /\ tr \in [Proc -> Proc \cup {None}]
  /\ startups \in [Proc -> 0..2]
  /\ locked \in {0, 1}
  /\ lk_cpu \in Proc \cup {None}

\* The holder's name is in lk_cpu from the store after the xchg to the store
\* before the next one, and no other name ever is.
Named == {"boot", "wait", "critical", "unlock_cpu", "disown"}
LockInv ==
  /\ \A p, q \in Proc : (Owns(p) /\ Owns(q)) => p = q
  /\ \A p \in Proc : Owns(p) => locked = 1
  /\ locked = 1 => \E p \in Proc : Owns(p)
  /\ \A p \in Proc : lk_cpu = p <=> pc[p] \in Named

\* boot_aps starts the processors in turn: the one it waits for is on its way
\* to mp_main and has not reported, those after it have not been touched.
Starting == {"init", "mpentry", "mp_main", "mp_started"}
Waiting == pc[BSP] = "wait"
BootInv ==
  /\ pc[BSP] \notin Starting \cup {"off"}
  /\ pc[BSP] = "mp_init" => cpu = 0
  /\ Waiting => (cpu > BSP /\ cpu < ncpu /\ mpentry_kstack = cpu)
  /\ \A p \in Proc \ {BSP} :
       /\ pc[p] \notin {"mp_init", "boot", "wait"}
       /\ pc[p] \in Starting => (Waiting /\ p = cpu /\ cpu_status[p] = "UNUSED")
       /\ (p > cpu \/ (p = cpu /\ ~Waiting)) =>
            (pc[p] = "off" /\ (p < NCPU => cpu_status[p] = "UNUSED"))

IInv == SmpType /\ LockInv /\ BootInv /\ OwnStack

-----------------------------------------------------------------------------
\* mp_init counts a finite number of processors.
LEMMA PresentType ==
  ASSUME NEW t \in Tables
  PROVE  present(t) \in Nat
<1>1. PICK n \in 1..MaxEntries : t.entries \in [1..n -> {"MPPROC", "MPBUS", "unknown"}]
  BY DEF Tables
<1>2. IsFiniteSet(1..n)
  BY FS_Interval, NcpuAssumption
<1>3. DOMAIN t.entries = 1..n
  BY <1>1
<1>4. IsFiniteSet({i \in DOMAIN t.entries : t.entries[i] = "MPPROC"})
  BY <1>2, <1>3, FS_Subset
<1>5. QED  BY <1>4, FS_CardinalityType DEF present

LEMMA InitInv == Init => IInv
<1> SUFFICES ASSUME Init PROVE IInv
  OBVIOUS
<1> USE NcpuAssumption DEF Init, Proc, BSP, None
<1>1. SmpType
  BY DEF SmpType, Places
<1>2. LockInv
  BY DEF LockInv, Owns, Named
<1>3. BootInv
  BY DEF BootInv, Starting, Waiting
<1>4. OwnStack
  BY DEF OwnStack
<1>5. QED  BY <1>1, <1>2, <1>3, <1>4 DEF IInv

\* Types, one action at a time.
LEMMA TypeStep ==
  ASSUME IInv, Next
  PROVE  SmpType'
<1> USE NcpuAssumption DEF IInv, SmpType, Places, Proc, BSP, None
<1>1. CASE mp_init
  <2>1. present(table) \in Nat
    BY PresentType
  <2>2. QED  BY <1>1, <2>1 DEF mp_init, Goto, lock
<1>2. CASE boot_aps
  <2>1. CASE cpu = BSP
    BY <1>2, <2>1 DEF boot_aps, lock
  <2>2. CASE cpu # BSP
    <3>1. pc' = [[pc EXCEPT ![cpu] = "init"] EXCEPT ![BSP] = "wait"]
      BY <1>2, <2>2 DEF boot_aps
    <3>2. [pc EXCEPT ![cpu] = "init"] \in [Proc -> Places]
      OBVIOUS
    <3>3. pc' \in [Proc -> Places]
      BY <3>1, <3>2
    <3>4. startups' \in [Proc -> 0..2]
      BY <1>2, <2>2 DEF boot_aps
    <3>5. QED  BY <1>2, <2>2, <3>3, <3>4 DEF boot_aps, lock
  <2>3. QED  BY <2>1, <2>2
<1>3. CASE boot_aps_spin \/ boot_aps_wait \/ i386_init
  BY <1>3 DEF boot_aps_spin, boot_aps_wait, i386_init, Goto, vars, boot, lock
<1>4. ASSUME NEW p \in Proc, startup(p) PROVE SmpType'
  BY <1>4 DEF startup, Goto, lock
<1>5. ASSUME NEW p \in Proc, mpentry(p) PROVE SmpType'
  <2>1. p # BSP /\ mpentry_kstack = p
    BY <1>5 DEF mpentry, BootInv, Starting
  <2>2. QED  BY <1>5, <2>1 DEF mpentry, Goto, lock
<1>6. ASSUME NEW p \in Proc, trap_init_percpu(p) \/ mp_started(p) PROVE SmpType'
  BY <1>6 DEF trap_init_percpu, mp_started, Goto, lock
<1>7. ASSUME NEW p \in Proc,
             spin_lock_locked(p) \/ spin_lock_cpu(p) \/ spin_lock_pause(p) \/ spin_lock_xchg(p)
               \/ spin_lock_own(p)
      PROVE  SmpType'
  <2>1. pc[p] = "lock_cpu" => lk_cpu # p
    BY DEF LockInv, Named
  <2>2. QED
    BY <1>7, <2>1 DEF spin_lock_locked, spin_lock_cpu, spin_lock_pause, spin_lock_xchg,
                      spin_lock_own, Goto, vars, boot, lock
<1>8. ASSUME NEW p \in Proc,
             spin_unlock_locked(p) \/ spin_unlock_cpu(p) \/ spin_unlock_disown(p)
               \/ spin_unlock_xchg(p) \/ trap(p)
      PROVE  SmpType'
  <2>1. (pc[p] = "critical" => locked = 1) /\ (pc[p] = "unlock_cpu" => lk_cpu = p)
    BY DEF LockInv, Named, Owns
  <2>2. QED
    BY <1>8, <2>1 DEF spin_unlock_locked, spin_unlock_cpu, spin_unlock_disown, spin_unlock_xchg,
                      trap, Goto, boot, lock
<1>9. QED
  BY <1>1, <1>2, <1>3, <1>4, <1>5, <1>6, <1>7, <1>8 DEF Next, BootStep, Step

\* A step that changes no processor's hold of the lock, and leaves the lock
\* alone, keeps LockInv.
LEMMA LockKept ==
  ASSUME LockInv, UNCHANGED <<locked, lk_cpu>>,
         \A p \in Proc : pc'[p] \in Named <=> pc[p] \in Named,
         \A p \in Proc : pc'[p] \in {"own", "unlock_xchg"} <=> pc[p] \in {"own", "unlock_xchg"}
  PROVE  LockInv'
<1>1. \A p \in Proc : Owns(p)' <=> Owns(p)
  BY DEF Owns, Named
<1>2. QED  BY <1>1 DEF LockInv

LEMMA LockStep ==
  ASSUME IInv, Next
  PROVE  LockInv'
<1> USE DEF IInv, SmpType, LockInv, Named, Owns
<1>1. CASE BootStep
  <2> USE NcpuAssumption DEF Proc, BSP
  <2>1. CASE mp_init
    BY <2>1, LockKept DEF mp_init, Goto, lock
  <2>2. CASE boot_aps_spin
    BY <2>2, LockKept DEF boot_aps_spin, vars, lock
  <2>3. CASE boot_aps_wait \/ i386_init
    BY <2>3, LockKept DEF boot_aps_wait, i386_init, Goto, lock
  <2>4. CASE boot_aps
    <3>1. CASE cpu = BSP
      BY <2>4, <3>1, LockKept DEF boot_aps, lock
    <3>2. CASE cpu # BSP
      <4>1. cpu \in Proc => pc[cpu] = "off"
        BY <2>4, <3>2 DEF boot_aps, BootInv, Waiting
      <4>2. \A p \in Proc : pc'[p] = IF p = BSP THEN "wait" ELSE IF p = cpu THEN "init" ELSE pc[p]
        BY <2>4, <3>2 DEF boot_aps
      <4>3. pc[BSP] = "boot" /\ UNCHANGED <<locked, lk_cpu>>
        BY <2>4 DEF boot_aps, lock
      <4>4. QED  BY <4>1, <4>2, <4>3, LockKept
    <3>3. QED  BY <3>1, <3>2
  <2>5. QED  BY <1>1, <2>1, <2>2, <2>3, <2>4 DEF BootStep
<1>2. ASSUME NEW p \in Proc, startup(p) PROVE LockInv'
  BY <1>2, LockKept DEF startup, Goto, lock
<1>3. ASSUME NEW p \in Proc,
             \/ mpentry(p) \/ trap_init_percpu(p) \/ mp_started(p) \/ trap(p)
             \/ spin_lock_locked(p) \/ spin_lock_cpu(p) \/ spin_lock_pause(p)
      PROVE  LockInv'
  BY <1>3, LockKept DEF mpentry, trap_init_percpu, mp_started, trap, spin_lock_locked, spin_lock_cpu,
                        spin_lock_pause, Goto, lock, vars
<1>4. ASSUME NEW p \in Proc, spin_lock_xchg(p) PROVE LockInv'
  BY <1>4 DEF spin_lock_xchg, Goto, boot
<1>5. ASSUME NEW p \in Proc, spin_lock_own(p) PROVE LockInv'
  BY <1>5 DEF spin_lock_own, Goto, boot
<1>6. ASSUME NEW p \in Proc, spin_unlock_locked(p) PROVE LockInv'
  BY <1>6 DEF spin_unlock_locked, Goto, lock
<1>7. ASSUME NEW p \in Proc, spin_unlock_cpu(p) PROVE LockInv'
  BY <1>7 DEF spin_unlock_cpu, Goto, lock
<1>8. ASSUME NEW p \in Proc, spin_unlock_disown(p) PROVE LockInv'
  <2>1. None \notin Proc
    BY DEF None, Proc
  <2>2. QED  BY <1>8, <2>1 DEF spin_unlock_disown, Goto
<1>9. ASSUME NEW p \in Proc, spin_unlock_xchg(p) PROVE LockInv'
  BY <1>9 DEF spin_unlock_xchg, Goto
<1>10. QED
  BY <1>1, <1>2, <1>3, <1>4, <1>5, <1>6, <1>7, <1>8, <1>9 DEF Next, Step

\* Steps of the lock, which move a processor among the places after start-up,
\* do not concern boot_aps.
LEMMA BootKept ==
  ASSUME IInv, UNCHANGED <<ncpu, cpu_status, cpu, mpentry_kstack>>,
         NEW p \in Proc, NEW place, Goto(p, place),
         pc[p] \notin Starting \cup {"off", "wait", "mp_init"},
         place \notin Starting \cup {"off", "wait", "mp_init"},
         place = "boot" => p = BSP
  PROVE  BootInv'
<1> USE DEF IInv, SmpType, BootInv, Waiting
<1>1. pc' = [pc EXCEPT ![p] = place]
  BY DEF Goto
<1>2. \A q \in Proc : pc'[q] = IF q = p THEN place ELSE pc[q]
  BY <1>1
<1>3. BSP \in Proc
  BY NcpuAssumption DEF BSP, Proc
<1>4. Waiting' <=> Waiting
  BY <1>2, <1>3
<1>5. QED  BY <1>2, <1>3, <1>4

LEMMA BootInvStep ==
  ASSUME IInv, Next
  PROVE  BootInv'
<1> USE NcpuAssumption DEF Starting, BSP
<1>0. BSP \in Proc
  BY DEF Proc
<1>1. CASE mp_init
  BY <1>0, <1>1 DEF mp_init, Goto, IInv, SmpType, BootInv, Waiting, Proc
<1>2. CASE boot_aps
  <2>1. CASE cpu = BSP
    BY <1>0, <1>2, <2>1 DEF boot_aps, IInv, SmpType, BootInv, Waiting, Proc
  <2>2. CASE cpu # BSP
    <3>1. \A p \in Proc : pc'[p] = IF p = BSP THEN "wait" ELSE IF p = cpu THEN "init" ELSE pc[p]
      BY <1>2, <2>2 DEF boot_aps, IInv, SmpType
    <3>2. pc[BSP] = "boot" /\ cpu < ncpu /\ mpentry_kstack' = cpu /\ UNCHANGED <<cpu, ncpu, cpu_status>>
      BY <1>2, <2>2 DEF boot_aps
    <3>3. QED
      BY <1>0, <2>2, <3>1, <3>2 DEF IInv, SmpType, BootInv, Waiting, Proc
  <2>3. QED  BY <2>1, <2>2
<1>3. CASE boot_aps_spin
  BY <1>3 DEF boot_aps_spin, vars, boot, IInv, BootInv, Waiting
<1>4. CASE boot_aps_wait
  BY <1>0, <1>4 DEF boot_aps_wait, Goto, IInv, SmpType, BootInv, Waiting, Proc
<1>5. CASE i386_init
  BY <1>0, <1>5, BootKept DEF i386_init, boot
<1>6. ASSUME NEW p \in Proc, startup(p) PROVE BootInv'
  BY <1>0, <1>6 DEF startup, Goto, IInv, SmpType, BootInv, Waiting, Proc
<1>7. ASSUME NEW p \in Proc, mpentry(p) \/ trap_init_percpu(p) PROVE BootInv'
  BY <1>0, <1>7 DEF mpentry, trap_init_percpu, Goto, IInv, SmpType, BootInv, Waiting, Proc
<1>8. ASSUME NEW p \in Proc, mp_started(p) PROVE BootInv'
  BY <1>0, <1>8 DEF mp_started, Goto, IInv, SmpType, BootInv, Waiting, Proc
<1>9. ASSUME NEW p \in Proc,
             \/ spin_lock_locked(p) \/ spin_lock_cpu(p) \/ spin_lock_xchg(p) \/ spin_lock_own(p)
             \/ spin_unlock_locked(p) \/ spin_unlock_cpu(p) \/ spin_unlock_disown(p)
             \/ spin_unlock_xchg(p) \/ trap(p)
      PROVE  BootInv'
  BY <1>9, BootKept DEF spin_lock_locked, spin_lock_cpu, spin_lock_xchg, spin_lock_own,
       spin_unlock_locked, spin_unlock_cpu, spin_unlock_disown, spin_unlock_xchg, trap, boot
<1>10. ASSUME NEW p \in Proc, spin_lock_pause(p) PROVE BootInv'
  BY <1>10 DEF spin_lock_pause, vars, boot, IInv, BootInv, Waiting
<1>11. QED
  BY <1>1, <1>2, <1>3, <1>4, <1>5, <1>6, <1>7, <1>8, <1>9, <1>10 DEF Next, BootStep, Step

\* mpentry.S and trap_init_percpu are reached only by the processor boot_aps
\* waits for, while mpentry_kstack still names its stack.
LEMMA StackStep ==
  ASSUME IInv, Next
  PROVE  OwnStack'
<1> USE DEF IInv, SmpType, OwnStack
<1>1. ASSUME NEW p \in Proc, pc[p] \in Starting
      PROVE  p < NCPU /\ mpentry_kstack = p
  <2>1. p # BSP
    BY <1>1 DEF BootInv
  <2>2. QED  BY <1>1, <2>1, NcpuAssumption DEF BootInv, Proc
<1>2. CASE BootStep
  BY <1>2 DEF BootStep, mp_init, boot_aps, boot_aps_spin, boot_aps_wait, i386_init, vars, boot
<1>3. ASSUME NEW p \in Proc, startup(p) PROVE OwnStack'
  BY <1>3 DEF startup
<1>4. ASSUME NEW p \in Proc, mpentry(p) PROVE OwnStack'
  BY <1>1, <1>4 DEF mpentry, Starting
<1>5. ASSUME NEW p \in Proc, trap_init_percpu(p) PROVE OwnStack'
  BY <1>1, <1>5 DEF trap_init_percpu, Starting
<1>6. ASSUME NEW p \in Proc, Step(p), ~mpentry(p), ~trap_init_percpu(p) PROVE OwnStack'
  BY <1>6 DEF Step, mp_started, spin_lock_locked, spin_lock_cpu, spin_lock_pause, spin_lock_xchg,
       spin_lock_own, spin_unlock_locked, spin_unlock_cpu, spin_unlock_disown, spin_unlock_xchg,
       trap, vars, boot
<1>7. QED  BY <1>2, <1>3, <1>4, <1>5, <1>6 DEF Next

-----------------------------------------------------------------------------
\* The inductive invariant holds throughout start-up and after, for every MP
\* table, every order of interrupts and every interleaving of the lock's steps.
THEOREM Invariant == Spec => []IInv
<1>1. ASSUME IInv, [Next]_vars PROVE IInv'
  <2>1. CASE Next
    BY <1>1, <2>1, TypeStep, LockStep, BootInvStep, StackStep DEF IInv
  <2>2. CASE UNCHANGED vars
    <3>1. SmpType'
      BY <1>1, <2>2 DEF IInv, SmpType, vars, boot, lock
    <3>2. LockInv'
      BY <1>1, <2>2, LockKept DEF IInv, vars, lock
    <3>3. BootInv' /\ OwnStack'
      BY <1>1, <2>2 DEF IInv, BootInv, OwnStack, Waiting, vars, boot
    <3>4. QED  BY <3>1, <3>2, <3>3 DEF IInv
  <2>3. QED  BY <1>1, <2>1, <2>2
<1>2. QED  BY <1>1, InitInv, PTL DEF Spec

\* spin_lock and spin_unlock of kern/spinlock.c, step by step, exclude, and
\* holding()'s unprotected reads never lead to a panic.
THEOREM SpinLockSound == Spec => []LockSound
<1>1. IInv => LockSound
  BY DEF IInv, SmpType, LockInv, LockSound, Places
<1>2. QED  BY <1>1, Invariant, PTL

\* boot_aps and mpentry.S give every processor its own stack and TSS.
THEOREM StacksHandedOver == Spec => []OwnStack
<1>1. IInv => OwnStack
  BY DEF IInv
<1>2. QED  BY <1>1, Invariant, PTL
=============================================================================
