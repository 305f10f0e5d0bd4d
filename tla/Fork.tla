-------------------------------- MODULE Fork --------------------------------
(***************************************************************************)
(* Copy-on-write fork in user space: lib/fork.c, lib/pgfault.c, the return *)
(* path of lib/pfentry.S and the user half of kern/trap.c's                *)
(* page_fault_handler.                                                     *)
(*                                                                         *)
(* An environment is one thread; its system calls are steps (each runs     *)
(* under the big kernel lock, module Kernel), and the steps of parent,     *)
(* child and their pending page faults interleave.  Page reference counts  *)
(* are exact (module Pmap), so a page is free when nothing maps it; what a *)
(* page holds is one value of Val.  Every call pushes on the caller's      *)
(* stack: a library step that makes a call faults first when the stack     *)
(* page is not writable.  Those pushes, and the word pfentry.S stores      *)
(* below the trap-time stack pointer, are outside the frames the program   *)
(* still uses, and do not change the value.                                *)
(***************************************************************************)
EXTENDS Naturals, Sequences, FiniteSets

CONSTANTS
  Env,        \* slots of envs[]
  First,      \* the environment env_create makes
  NoPage,     \* an entry without PTE_P
  Layout,     \* the areas fork copies, in order of their addresses; the last
              \* one is the stack
  ReadOnly,   \* those without PTE_W (program text)
  Val, Zero,  \* contents of a page
  NoEnv,
  MaxFork     \* bound on the calls of fork

Area == {Layout[i] : i \in 1..Len(Layout)}
Writable == Area \ ReadOnly

ASSUME EnvAssumption == IsFiniteSet(Env) /\ First \in Env /\ NoEnv \notin Env /\ MaxFork \in Nat
\* PFTEMP is below the program and the exception stack above its stack.
ASSUME LayoutAssumption ==
  /\ Layout \in Seq(STRING \ {"PFTEMP", "UXSTACK"})
  /\ "data" \in Writable /\ "stack" \in Writable /\ Layout[Len(Layout)] = "stack"
ASSUME ValAssumption == Zero \in Val /\ NoEnv \notin [Writable -> Val]

VA == Area \cup {"PFTEMP", "UXSTACK"}
\* A page is named for the environment and the area it is allocated for, and
\* numbered: at most every environment holds on to one such page.  That memory
\* is finite is in the failures of the system calls.
Page == Env \X (Area \cup {"UXSTACK"}) \X (1..Cardinality(Env))
ASSUME PageAssumption == NoPage \notin Page

VARIABLES
  pt,          \* page table: [p, w, cow] for every environment and address
  mem,         \* contents of a page; Zero when nothing maps it
  pc,          \* where the program of an environment is
  pn,          \* fork's loop index
  cow,         \* duppage's perm & PTE_COW
  child,       \* fork's child_id
  handler,     \* _pgfault_handler # 0 (in the data area)
  upcall,      \* env_pgfault_upcall # 0
  utf,         \* the page faults being handled, innermost last: [va, step]
  forks        \* calls of fork so far

vars == <<pt, mem, pc, pn, cow, child, handler, upcall, utf, forks>>

Entry == [p : Page \cup {NoPage}, w : BOOLEAN, cow : BOOLEAN]
Absent == [p |-> NoPage, w |-> FALSE, cow |-> FALSE]

ForkSteps == {"set_handler", "set_handler_upcall", "set_handler_store", "exofork",
              "dup_read", "dup_child", "dup_self", "stk_alloc", "stk_map", "stk_unmap",
              "set_upcall", "set_status"}
Slots == {"free",       \* ENV_FREE
          "killed",     \* ENV_FREE after page_fault_handler destroyed it
          "embryo"}     \* made by sys_exofork, not yet ENV_RUNNABLE
Stopped == {"panic",    \* lib/panic.c after a failed system call
            "panic_cow"}\* after pgfault's own check
Places == ForkSteps \cup Slots \cup Stopped
            \cup {"main",      \* the program itself
                  "thisenv"}   \* the child, back from sys_exofork with 0

TypeOK ==
  /\ pt \in [Env -> [VA -> Entry]]
  /\ mem \in [Page -> Val]
  /\ pc \in [Env -> Places]
  /\ pn \in [Env -> 0..Len(Layout)]
  /\ cow \in [Env -> BOOLEAN]
  /\ child \in [Env -> Env \cup {NoEnv}]
  /\ forks \in 0..MaxFork
  /\ handler \in [Env -> BOOLEAN] /\ upcall \in [Env -> BOOLEAN]
  /\ \A e \in Env : Len(utf[e]) <= 2 /\ \A i \in 1..Len(utf[e]) : utf[e][i].va \in Area

-----------------------------------------------------------------------------
\* New page tables; a page nobody maps any more is free, and page_alloc clears
\* it before its next use.
Used(pts) == {pts[e][v].p : e \in Env, v \in VA}
maps(pts) ==
  /\ pt' = pts
  /\ LET used == Used(pts) IN mem' = [p \in Page |-> IF p \in used THEN mem[p] ELSE Zero]

\* Which free page page_alloc takes makes no difference: here the lowest number.
sys_page_alloc(e, v, area) ==
  \E i \in 1..Cardinality(Env) :
    /\ <<e, area, i>> \notin Used(pt) /\ \A j \in 1..(i - 1) : <<e, area, j>> \in Used(pt)
    /\ maps([pt EXCEPT ![e][v] = [p |-> <<e, area, i>>, w |-> TRUE, cow |-> FALSE]])
sys_page_map(e, v, d, u, w, c) ==
  maps([pt EXCEPT ![d][u] = [p |-> pt[e][v].p, w |-> w, cow |-> c]])
sys_page_unmap(e, v) == maps([pt EXCEPT ![e][v] = Absent])

goto(e, place) == pc' = [pc EXCEPT ![e] = place]

\* panic() of a library function whose system call failed.
panic(e, place) ==
  goto(e, place) /\ UNCHANGED <<pt, mem, pn, cow, child, handler, upcall, utf>>

\* env_free of e.
env_free(e, place) ==
  /\ maps([pt EXCEPT ![e] = [v \in VA |-> Absent]])
  /\ goto(e, place)
  /\ upcall' = [upcall EXCEPT ![e] = FALSE]
  /\ handler' = [handler EXCEPT ![e] = FALSE]
  /\ utf' = [utf EXCEPT ![e] = <<>>]
  /\ pn' = [pn EXCEPT ![e] = 0]
  /\ cow' = [cow EXCEPT ![e] = FALSE]
  /\ child' = [child EXCEPT ![e] = NoEnv]

\* page_fault_handler: the upcall gets a frame on the exception stack, or the
\* environment is destroyed, also when _pgfault_upcall calls a null handler:
\* that faults again until the exception stack overflows.
page_fault_handler(e, v) ==
  IF upcall[e] /\ pt[e]["UXSTACK"].w /\ handler[e]
  THEN /\ utf' = [utf EXCEPT ![e] = Append(@, [va |-> v, step |-> "alloc"])]
       /\ UNCHANGED <<pt, mem, pc, pn, cow, child, handler, upcall>>
  ELSE env_free(e, "killed")

-----------------------------------------------------------------------------
\* pgfault.  at(e, s): the innermost handler is before step s.
top(e) == utf[e][Len(utf[e])]
at(e, s) == utf[e] # <<>> /\ top(e).step = s
then(e, s) == utf' = [utf EXCEPT ![e][Len(utf[e])].step = s]
locals == <<pc, pn, cow, child, handler, upcall>>

\* The check for PTE_COW (utf_err & FEC_WR is always set, as utf_err holds
\* the trap number 14), then sys_page_alloc at PFTEMP, which may fail: it also
\* needs a page for the page table, which this model leaves out.
pgfault_alloc(e) ==
  /\ at(e, "alloc")
  /\ \/ panic(e, IF pt[e][top(e).va].cow THEN "panic" ELSE "panic_cow")
     \/ /\ pt[e][top(e).va].cow
        /\ sys_page_alloc(e, "PFTEMP", top(e).va) /\ then(e, "copy") /\ UNCHANGED locals

pgfault_copy(e) ==
  /\ at(e, "copy")
  /\ mem' = [mem EXCEPT ![pt[e]["PFTEMP"].p] = mem[pt[e][top(e).va].p]]
  /\ then(e, "unmap") /\ UNCHANGED <<pt, locals>>

pgfault_unmap(e) ==
  /\ at(e, "unmap")
  /\ sys_page_unmap(e, top(e).va) /\ then(e, "map") /\ UNCHANGED locals

\* Mutant: the private copy is mapped back with the permissions of the old page.
pgfault_map_cow(e) ==
  /\ at(e, "map")
  /\ sys_page_map(e, "PFTEMP", e, top(e).va, FALSE, TRUE)
  /\ then(e, "unmap_temp") /\ UNCHANGED locals

pgfault_map(e) ==
  /\ at(e, "map")
  /\ sys_page_map(e, "PFTEMP", e, top(e).va, TRUE, FALSE)
  /\ then(e, "unmap_temp") /\ UNCHANGED locals

pgfault_unmap_temp(e) ==
  /\ at(e, "unmap_temp")
  /\ sys_page_unmap(e, "PFTEMP") /\ then(e, "ret") /\ UNCHANGED locals

\* _pgfault_upcall pushes the trap-time eip on the trap-time stack, which is
\* the program's for the outermost fault: if that page is still not writable
\* the store faults in turn.  The retried instruction may fault again.
pfentry_ret(e) ==
  /\ at(e, "ret")
  /\ IF Len(utf[e]) = 1 /\ ~pt[e]["stack"].w
     THEN page_fault_handler(e, "stack")
     ELSE /\ utf' = [utf EXCEPT ![e] = SubSeq(@, 1, Len(@) - 1)]
          /\ UNCHANGED <<pt, mem, locals>>

pgfault(e) == \/ pgfault_alloc(e) \/ pgfault_copy(e) \/ pgfault_unmap(e)
              \/ pgfault_map(e) \/ pgfault_unmap_temp(e) \/ pfentry_ret(e)

-----------------------------------------------------------------------------
\* The areas a library step writes: its calls push on the stack (exofork is
\* inlined and uvpt is read in place), and two of the steps store a variable.
needs(e) ==
  CASE pc[e] = "set_handler_store" -> {"data"}
    [] pc[e] = "thisenv" -> {"stack", "data"}
    [] pc[e] \in ForkSteps \ {"set_handler_store", "exofork", "dup_read"} -> {"stack"}
    [] OTHER -> {}
ready(e, place) == pc[e] = place /\ utf[e] = <<>> /\ \A v \in needs(e) : pt[e][v].w

write_fault(e) ==
  /\ utf[e] = <<>>
  /\ \E v \in needs(e) : ~pt[e][v].w /\ page_fault_handler(e, v)

\* A system call of fork or set_pgfault_handler finds no memory or no slot.
no_mem(e) ==
  /\ \E s \in {"set_handler", "exofork", "dup_child", "stk_alloc", "stk_map"} : ready(e, s)
  /\ panic(e, "panic")

set_pgfault_handler(e) ==
  \/ /\ ready(e, "set_handler") /\ ~handler[e]
     /\ sys_page_alloc(e, "UXSTACK", "UXSTACK") /\ goto(e, "set_handler_upcall")
     /\ UNCHANGED <<pn, cow, child, handler, upcall, utf>>
  \/ /\ ready(e, "set_handler") /\ handler[e] /\ goto(e, "set_handler_store")
     /\ UNCHANGED <<pt, mem, pn, cow, child, handler, upcall, utf>>
  \/ /\ ready(e, "set_handler_upcall") /\ goto(e, "set_handler_store")
     /\ upcall' = [upcall EXCEPT ![e] = TRUE]
     /\ UNCHANGED <<pt, mem, pn, cow, child, handler, utf>>
  \/ /\ ready(e, "set_handler_store") /\ goto(e, "exofork")
     /\ handler' = [handler EXCEPT ![e] = TRUE]
     /\ UNCHANGED <<pt, mem, pn, cow, child, upcall, utf>>

sys_exofork(e) ==
  \E c \in Env :
    /\ ready(e, "exofork") /\ pc[c] \in {"free", "killed"}
    /\ pc' = [pc EXCEPT ![e] = "dup_read", ![c] = "embryo"]
    /\ child' = [child EXCEPT ![e] = c]
    /\ pn' = [pn EXCEPT ![e] = 1]
    /\ UNCHANGED <<pt, mem, cow, handler, upcall, utf>>

\* Mutant: the loop goes one page too far.
next_page_past(e) ==
  /\ cow' = [cow EXCEPT ![e] = FALSE]
  /\ goto(e, "dup_read") /\ pn' = [pn EXCEPT ![e] = @ + 1]

\* The loop moves on to the next page, or to the exception stack.
next_page(e) ==
  /\ cow' = [cow EXCEPT ![e] = FALSE]
  /\ IF pn[e] = Len(Layout)
     THEN goto(e, "stk_alloc") /\ pn' = [pn EXCEPT ![e] = 0]
     ELSE goto(e, "dup_read") /\ pn' = [pn EXCEPT ![e] = @ + 1]

here(e) == Layout[pn[e]]

dup_read(e) ==
  /\ ready(e, "dup_read")
  /\ IF pt[e][here(e)].p = NoPage
     THEN next_page(e)
     ELSE /\ cow' = [cow EXCEPT ![e] = pt[e][here(e)].w \/ pt[e][here(e)].cow]
          /\ goto(e, "dup_child") /\ UNCHANGED pn
  /\ UNCHANGED <<pt, mem, child, handler, upcall, utf>>

\* Mutant: our own mapping becomes copy-on-write before the child's is made.
duppage_self_first(e) ==
  \/ /\ ready(e, "dup_child") /\ goto(e, "dup_self")
     /\ IF cow[e] THEN sys_page_map(e, here(e), e, here(e), FALSE, TRUE) ELSE UNCHANGED <<pt, mem>>
     /\ UNCHANGED <<pn, cow, child, handler, upcall, utf>>
  \/ /\ ready(e, "dup_self") /\ next_page(e)
     /\ sys_page_map(e, here(e), child[e], here(e), FALSE, cow[e])
     /\ UNCHANGED <<child, handler, upcall, utf>>

\* Mutant: only the child's mapping is made copy-on-write.
duppage_child_only(e) ==
  /\ ready(e, "dup_child") /\ next_page(e)
  /\ sys_page_map(e, here(e), child[e], here(e), FALSE, cow[e])
  /\ UNCHANGED <<child, handler, upcall, utf>>

duppage(e) ==
  \/ /\ ready(e, "dup_child")
     /\ sys_page_map(e, here(e), child[e], here(e), FALSE, cow[e])
     /\ IF cow[e] THEN goto(e, "dup_self") /\ UNCHANGED <<pn, cow>> ELSE next_page(e)
     /\ UNCHANGED <<child, handler, upcall, utf>>
  \/ /\ ready(e, "dup_self") /\ next_page(e)
     /\ sys_page_map(e, here(e), e, here(e), FALSE, TRUE)
     /\ UNCHANGED <<child, handler, upcall, utf>>

\* The child's exception stack.  The copy through PFTEMP, which the code makes
\* from PFTEMP to our own exception stack, is part of the last step: nothing
\* is in use on either stack, so that their contents are left out.
exception_stack(e) ==
  /\ \/ /\ ready(e, "stk_alloc") /\ goto(e, "stk_map")
        /\ sys_page_alloc(child[e], "UXSTACK", "UXSTACK")
     \/ /\ ready(e, "stk_map") /\ goto(e, "stk_unmap")
        /\ sys_page_map(child[e], "UXSTACK", e, "PFTEMP", TRUE, FALSE)
     \/ /\ ready(e, "stk_unmap") /\ goto(e, "set_upcall")
        /\ sys_page_unmap(e, "PFTEMP")
  /\ UNCHANGED <<pn, cow, child, handler, upcall, utf>>

\* Mutant: the child is started before its upcall is set.
start_child_early(e) ==
  \/ /\ ready(e, "set_upcall")
     /\ pc' = [pc EXCEPT ![e] = "set_status", ![child[e]] = "thisenv"]
     /\ handler' = [handler EXCEPT ![child[e]] = handler[e]]
     /\ UNCHANGED <<pt, mem, pn, cow, child, upcall, utf>>
  \/ /\ ready(e, "set_status") /\ goto(e, "main")
     /\ upcall' = [upcall EXCEPT ![child[e]] = TRUE]
     /\ child' = [child EXCEPT ![e] = NoEnv]
     /\ UNCHANGED <<pt, mem, pn, cow, handler, utf>>

\* sys_env_set_pgfault_upcall and sys_env_set_status of the child, which from
\* then on runs with the data area, _pgfault_handler in it, that it was given.
start_child(e) ==
  \/ /\ ready(e, "set_upcall") /\ goto(e, "set_status")
     /\ upcall' = [upcall EXCEPT ![child[e]] = TRUE]
     /\ UNCHANGED <<pt, mem, pn, cow, child, handler, utf>>
  \/ /\ ready(e, "set_status")
     /\ pc' = [pc EXCEPT ![e] = "main", ![child[e]] = "thisenv"]
     /\ handler' = [handler EXCEPT ![child[e]] = handler[e]]
     /\ child' = [child EXCEPT ![e] = NoEnv]
     /\ UNCHANGED <<pt, mem, pn, cow, upcall, utf>>

\* The child stores thisenv, and fork returns 0.
set_thisenv(e) ==
  /\ ready(e, "thisenv") /\ goto(e, "main")
  /\ UNCHANGED <<pt, mem, pn, cow, child, handler, upcall, utf>>

fork(e) == \/ set_pgfault_handler(e) \/ sys_exofork(e) \/ dup_read(e) \/ duppage(e)
           \/ exception_stack(e) \/ start_child(e) \/ set_thisenv(e) \/ no_mem(e)

-----------------------------------------------------------------------------
\* The program: it calls fork, stores to its memory, exits.
call_fork(e) ==
  /\ ready(e, "main") /\ goto(e, "set_handler")
  /\ forks < MaxFork /\ forks' = forks + 1
  /\ UNCHANGED <<pt, mem, pn, cow, child, handler, upcall, utf>>

store(e, v, x) ==
  /\ ready(e, "main") /\ mem[pt[e][v].p] # x
  /\ IF pt[e][v].w
     THEN /\ mem' = [mem EXCEPT ![pt[e][v].p] = x]
          /\ UNCHANGED <<pt, pc, pn, cow, child, handler, upcall, utf>>
     ELSE page_fault_handler(e, v)

exit(e) == ready(e, "main") /\ env_free(e, "free")

Step(e) ==
  \/ call_fork(e)
  \/ /\ \/ exit(e) \/ \E v \in Writable, x \in Val : store(e, v, x)
        \/ pgfault(e) \/ write_fault(e) \/ fork(e)
     /\ UNCHANGED forks

\* env_create's load_icode maps each area of the first environment.
Init ==
  /\ pt = [e \in Env |-> [v \in VA |->
             IF e = First /\ v \in Area
             THEN [p |-> <<e, v, 1>>, w |-> v \in Writable, cow |-> FALSE] ELSE Absent]]
  /\ mem = [p \in Page |-> Zero]
  /\ pc = [e \in Env |-> IF e = First THEN "main" ELSE "free"]
  /\ pn = [e \in Env |-> 0]
  /\ cow = [e \in Env |-> FALSE]
  /\ child = [e \in Env |-> NoEnv]
  /\ handler = [e \in Env |-> FALSE]
  /\ upcall = [e \in Env |-> FALSE]
  /\ utf = [e \in Env |-> <<>>]
  /\ forks = 0

\* lib/panic.c executes int3, which leaves the kernel in its monitor, with the
\* lock, for good (module Kernel): no environment makes a system call again.
Next ==
  /\ \A e \in Env : pc[e] \notin Stopped
  /\ \E e \in Env : Step(e)

Spec == Init /\ [][Next]_vars

-----------------------------------------------------------------------------
\* The memory a program sees: while pgfault has unmapped the page and not yet
\* mapped its copy (the program cannot run then) the copy stands for it.
frame(e, v) ==
  IF at(e, "map") /\ top(e).va = v THEN pt[e]["PFTEMP"].p ELSE pt[e][v].p
Born(e) == pc[e] \notin Slots

\* fork's "Copy our address space": copy-on-write with its shared pages,
\* its page faults in the middle of fork, of main and of each other, and its
\* children running already is the same as a memory of one's own, copied at
\* once when the child starts.
Images == INSTANCE PrivateImages WITH
  NoImage <- NoEnv,
  Area <- Writable,
  image <- [e \in Env |-> IF Born(e) THEN [v \in Writable |-> mem[frame(e, v)]] ELSE NoEnv]
ForkCopies == Images!Spec

\* A page some environment can write is mapped by nobody else, except that
\* fork itself is between the two halves of duppage or fills the child's
\* exception stack: then the other one is its embryo.
PrivateWhenWritable ==
  \A e \in Env, v \in VA : pt[e][v].w => \A d \in Env \ {e}, u \in VA :
    pt[d][u].p = pt[e][v].p =>
      \/ child[e] = d /\ pc[d] = "embryo" /\ pc[e] \in {"dup_self", "stk_unmap"}
      \/ child[d] = e /\ pc[e] = "embryo" /\ pc[d] = "stk_unmap"

\* pgfault's and page_fault_handler's conditions are met by every fault that
\* copy-on-write causes: no environment is destroyed for one, or panics
\* because the page is not copy-on-write, not even a child at its first
\* store or a fault inside the return from another one.
FaultsHandled == \A e \in Env : pc[e] \notin {"killed", "panic_cow"}

\* pgfault's "map in our own private writable copy": when a fault returns, to
\* the program or to the fault it interrupted, the page it was for is
\* writable, so that the retried store does not fault again.
FaultRepaired ==
  [][\A e \in Env : Len(utf'[e]) < Len(utf[e]) => pt'[e][top(e).va].w]_vars
=============================================================================
