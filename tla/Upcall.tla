------------------------------- MODULE Upcall -------------------------------
(***************************************************************************)
(* A user page fault, instruction by instruction: page_fault_handler of    *)
(* kern/trap.c pushes a frame on the exception stack, lib/pfentry.S calls  *)
(* the C handler and returns to the instruction that faulted, and the      *)
(* handler, or pfentry.S itself, may fault again.  set_pgfault_handler of  *)
(* lib/pgfault.c comes first.  Module Fork takes all this as one step.     *)
(*                                                                         *)
(* Stacks are memory at the level of words.  The user stack is the words   *)
(* 0..USTACKTOP - 1 and the exception stack one page, below which nothing  *)
(* is mapped.  A UTrapframe has seven words, eax and ebp standing for the  *)
(* eight registers of PushRegs.                                            *)
(***************************************************************************)
EXTENDS Integers, Sequences, SequencesExt

CONSTANTS
  PGWORDS,     \* words of the exception stack
  MaxFaults    \* bound: faults on data in a behaviour

ASSUME UpcallAssumption == {PGWORDS, MaxFaults} \subseteq Nat \ {0}

USTACKTOP == 3
XSTACKBASE == 20
UXSTACKTOP == XSTACKBASE + PGWORDS
Addr == 0..(USTACKTOP - 1) \cup XSTACKBASE..(UXSTACKTOP - 1)
DATA == 15          \* an address the program and the handler may fault on

\* struct UTrapframe, in words.
UTF == [fault_va |-> 0, err |-> 1, ebp |-> 2, eax |-> 3, eip |-> 4, eflags |-> 5, esp |-> 6]
UTFSIZE == 7
T_PGFLT == 14

\* Code: set_pgfault_handler, the program, _pgfault_upcall and the C handler.
SET_ALLOC == 1
SET_UPCALL == 2
SET_HANDLER == 3
PROGRAM == 4
UPCALL == 10
HANDLER == 30

VARIABLES
  eip, esp, eax, ebp, eflags,   \* the environment's registers
  mem,        \* its two stacks
  readonly,   \* the user stack is copy-on-write
  xpage,      \* the exception stack is mapped
  upcall,     \* env_pgfault_upcall is set
  alive,      \* the environment has not been destroyed
  faults,     \* faults on data so far
  pending     \* history: what each unfinished fault interrupted

regs == <<eip, esp, eax, ebp, eflags>>
vars == <<regs, mem, readonly, xpage, upcall, alive, faults, pending>>
kernel == <<xpage, upcall, alive, faults>>

OnXstack(a) == a \in XSTACKBASE..(UXSTACKTOP - 1)
Writable(a) == IF OnXstack(a) THEN xpage ELSE a \in Addr /\ ~readonly

\* The words in use on the stack that a points into.
InUse(a) == IF OnXstack(a) THEN a..(UXSTACKTOP - 1) ELSE a..(USTACKTOP - 1)

-----------------------------------------------------------------------------
env_destroy == alive' = FALSE /\ UNCHANGED <<regs, mem, readonly, xpage, upcall, pending>>

\* Mutant: no free word between the frames of nested faults.
utf_of_tight(sp) == IF OnXstack(sp) THEN sp - UTFSIZE ELSE UXSTACKTOP - UTFSIZE

utf_of(sp) == IF OnXstack(sp) THEN sp - (UTFSIZE + 1) ELSE UXSTACKTOP - UTFSIZE

\* The frame the fault at va pushes.
frame(va) ==
  [f \in DOMAIN UTF |->
     CASE f = "fault_va" -> va [] f = "err" -> T_PGFLT [] f = "ebp" -> ebp [] f = "eax" -> eax
       [] f = "eip" -> eip [] f = "eflags" -> eflags [] f = "esp" -> esp]

page_fault_handler(va) ==
  LET utf == utf_of(esp)
      f == frame(va)
  IN IF upcall /\ xpage /\ utf >= XSTACKBASE
     THEN /\ mem' = [a \in Addr |-> IF a \in utf..(utf + UTFSIZE - 1)
                                    THEN f[CHOOSE n \in DOMAIN UTF : UTF[n] = a - utf] ELSE mem[a]]
          /\ eip' = UPCALL /\ esp' = utf
          /\ pending' = Append(pending, [regs |-> regs, stack |-> [a \in InUse(esp) |-> mem[a]]])
          /\ UNCHANGED <<eax, ebp, eflags, readonly, xpage, upcall, alive>>
     ELSE env_destroy

\* A fault on data, which a handler that repairs it meets a few times.
data_fault == faults < MaxFaults /\ faults' = faults + 1 /\ page_fault_handler(DATA)

\* An instruction that writes w to a and goes on at next with the stack at sp.
Store(a, w, sp, next) ==
  IF Writable(a)
  THEN /\ mem' = [mem EXCEPT ![a] = w] /\ esp' = sp /\ eip' = next
       /\ UNCHANGED <<eax, ebp, eflags, readonly, pending, kernel>>
  ELSE page_fault_handler(a) /\ UNCHANGED faults

-----------------------------------------------------------------------------
\* set_pgfault_handler, for a program that has no handler yet.  sys_page_alloc
\* may fail, and the program then panics.
set_pgfault_handler ==
  /\ alive /\ eip \in {SET_ALLOC, SET_UPCALL, SET_HANDLER}
  /\ \/ /\ eip' = eip + 1 /\ xpage' = TRUE /\ upcall' = (upcall \/ eip = SET_UPCALL)
        /\ UNCHANGED <<esp, eax, ebp, eflags, mem, readonly, alive, faults, pending>>
     \/ eip = SET_ALLOC /\ env_destroy /\ UNCHANGED faults

\* The program: it calls and returns, faults on its data, and with each fork
\* its stack becomes copy-on-write.  It leaves a word of its stack free.
program_push == alive /\ eip = PROGRAM /\ esp > 1 /\ Store(esp - 1, eax, esp - 1, PROGRAM)
program_pop ==
  /\ alive /\ eip = PROGRAM /\ esp < USTACKTOP /\ esp' = esp + 1
  /\ UNCHANGED <<eip, eax, ebp, eflags, mem, readonly, pending, kernel>>
program_fault == alive /\ eip \in {SET_ALLOC, PROGRAM} /\ data_fault
program_fork ==
  /\ alive /\ eip = PROGRAM /\ ~readonly /\ readonly' = TRUE
  /\ UNCHANGED <<regs, mem, pending, kernel>>

-----------------------------------------------------------------------------
\* _pgfault_upcall, from the call of the handler to the ret.
pushl_esp == alive /\ eip = UPCALL /\ Store(esp - 1, esp, esp - 1, UPCALL + 1)

call_handler == alive /\ eip = UPCALL + 1 /\ Store(esp - 1, UPCALL + 2, esp - 1, HANDLER)

pop_argument ==
  /\ alive /\ eip = UPCALL + 2 /\ eip' = UPCALL + 3 /\ esp' = esp + 1
  /\ UNCHANGED <<eax, ebp, eflags, mem, readonly, pending, kernel>>

\* Mutant: the word taken for the trap-time eip is the one after it.
lower_trap_esp_off ==
  /\ alive /\ eip = UPCALL + 3 /\ eip' = UPCALL + 4
  /\ ebp' = mem[esp + UTF.esp] - 1
  /\ mem' = [mem EXCEPT ![esp + UTF.esp] = @ - 1]
  /\ eax' = mem[esp + UTF.eflags] /\ eflags' = 0
  /\ UNCHANGED <<esp, readonly, pending, kernel>>

\* 48(%esp), the trap-time esp, is lowered by a word; 40(%esp) is the eip.
lower_trap_esp ==
  /\ alive /\ eip = UPCALL + 3 /\ eip' = UPCALL + 4
  /\ ebp' = mem[esp + UTF.esp] - 1
  /\ mem' = [mem EXCEPT ![esp + UTF.esp] = @ - 1]
  /\ eax' = mem[esp + UTF.eip] /\ eflags' = 0
  /\ UNCHANGED <<esp, readonly, pending, kernel>>

\* The trap-time eip goes to the word below the trap-time esp, which is on the
\* user stack, and may fault, or in the word left free on the exception stack.
push_trap_eip == alive /\ eip = UPCALL + 4 /\ Store(ebp, eax, esp, UPCALL + 5)

popal ==
  /\ alive /\ eip = UPCALL + 5 /\ eip' = UPCALL + 6
  /\ ebp' = mem[esp + UTF.ebp] /\ eax' = mem[esp + UTF.eax]
  /\ esp' = esp + UTF.eip
  /\ UNCHANGED <<eflags, mem, readonly, pending, kernel>>

popfl ==
  /\ alive /\ eip = UPCALL + 6 /\ eip' = UPCALL + 7
  /\ eflags' = mem[esp + 1] /\ esp' = esp + 2
  /\ UNCHANGED <<eax, ebp, mem, readonly, pending, kernel>>

popl_esp ==
  /\ alive /\ eip = UPCALL + 7 /\ eip' = UPCALL + 8
  /\ esp' = mem[esp]
  /\ UNCHANGED <<eax, ebp, eflags, mem, readonly, pending, kernel>>

ret ==
  /\ alive /\ eip = UPCALL + 8
  /\ eip' = mem[esp] /\ esp' = esp + 1 /\ pending' = Front(pending)
  /\ UNCHANGED <<eax, ebp, eflags, mem, readonly, kernel>>

-----------------------------------------------------------------------------
\* A C handler: its frame, a local variable, its work on the address it is
\* told, and its return.  It keeps its stack within the page.
handler_enter == alive /\ eip = HANDLER /\ Store(esp - 1, ebp, esp - 1, HANDLER + 1)

handler_frame ==
  /\ alive /\ eip = HANDLER + 1 /\ eip' = HANDLER + 2
  /\ ebp' = esp /\ esp' = (IF esp > XSTACKBASE THEN esp - 1 ELSE esp) /\ eflags' = 0
  /\ UNCHANGED <<eax, mem, readonly, pending, kernel>>

\* The fault address is read through the argument.
handler_fault == alive /\ eip = HANDLER + 2 /\ data_fault
handler_work ==
  LET va == mem[mem[ebp + 2] + UTF.fault_va]
  IN /\ alive /\ eip = HANDLER + 2 /\ eip' = HANDLER + 3
     /\ readonly' = (readonly /\ va \notin 0..(USTACKTOP - 1)) /\ eax' = 0
     /\ UNCHANGED <<esp, ebp, eflags, mem, pending, kernel>>

handler_return ==
  /\ alive /\ eip = HANDLER + 3
  /\ ebp' = mem[ebp] /\ eip' = mem[ebp + 1] /\ esp' = ebp + 2
  /\ UNCHANGED <<eax, eflags, mem, readonly, pending, kernel>>

upcall_step ==
  \/ pushl_esp \/ call_handler \/ pop_argument \/ lower_trap_esp \/ push_trap_eip
  \/ popal \/ popfl \/ popl_esp \/ ret
  \/ handler_enter \/ handler_frame \/ handler_work \/ handler_return

-----------------------------------------------------------------------------
Init ==
  /\ eip = SET_ALLOC /\ esp = USTACKTOP /\ eax = 101 /\ ebp = 102 /\ eflags = 103
  /\ mem = [a \in Addr |-> 0]
  /\ readonly = FALSE /\ xpage = FALSE /\ upcall = FALSE /\ alive = TRUE
  /\ faults = 0 /\ pending = <<>>

Next ==
  \/ set_pgfault_handler
  \/ program_push \/ program_pop \/ program_fault \/ program_fork
  \/ upcall_step \/ handler_fault

Spec == Init /\ [][Next]_vars

\* The environment is scheduled again and again (module Kernel), so a step of
\* the upcall or the handler that can happen does.
FairSpec == Spec /\ WF_vars(upcall_step)

-----------------------------------------------------------------------------
\* When pfentry.S has returned from a fault, at any depth, the registers are
\* those of the instruction that faulted, which runs again, and no word of the
\* stack in use at the time has changed.
ResumesExactly ==
  [][Len(pending') < Len(pending)
       => /\ regs' = Last(pending).regs
          /\ \A a \in DOMAIN Last(pending).stack : mem'[a] = Last(pending).stack[a]]_vars

\* Every fault is returned from, nested ones and those of pfentry.S itself
\* included, or the environment is destroyed because the exception stack is
\* full.
FaultsReturn == pending # <<>> ~> (pending = <<>> \/ ~alive)
=============================================================================
