-------------------------------- MODULE Pmap --------------------------------
(***************************************************************************)
(* Physical pages, page tables and the system calls that change them       *)
(* (kern/pmap.c, kern/env.c, kern/syscall.c).                              *)
(*                                                                         *)
(* Every operation below runs from trap() to its return under the big      *)
(* kernel lock (module Kernel shows the lock's mutual exclusion), so each  *)
(* one is a single step.  What is kept: the reference counts with their    *)
(* 16-bit wrap, the free list as a set (the order in which page_alloc pops *)
(* pages is left open), and for every environment the page directory and   *)
(* the two levels of its table.  What is abstracted: page contents, the    *)
(* permission bits other than PTE_W, and addresses, which are the pair of  *)
(* indices <<PDX(va), PTX(va)>>.  A page table is named by the directory   *)
(* entry that points to it; TablesPrivate below is what makes that sound.  *)
(***************************************************************************)
EXTENDS Naturals, FiniteSets

CONSTANTS
  Page,       \* physical pages, the members of pages[]
  BootPage,   \* pages page_init marks in use: page 0, the kernel, pages[], envs[]
  Page0,      \* &pages[0], physical page 0
  EnvsPage,   \* the page of envs[] that mem_init maps at UENVS
  Env,        \* slots of envs[]
  PDX, PTX,   \* directory and table indices of the addresses below UTOP
  NoPage,     \* an entry without PTE_P
  RefMod,     \* pp_ref is a uint16_t: 2^16, scaled down in the runs
  Rules       \* discipline of the callers: see SafeVa, CountFits, sys_ipc_try_send_utop

ASSUME PagesAssumption ==
  /\ IsFiniteSet(Page) /\ BootPage \subseteq Page
  /\ Page0 \in BootPage /\ EnvsPage \in BootPage \ {Page0}
  /\ NoPage \notin Page
ASSUME SpaceAssumption == IsFiniteSet(Env) /\ IsFiniteSet(PDX) /\ IsFiniteSet(PTX)
ASSUME RefModAssumption == RefMod \in Nat /\ RefMod > 1
ASSUME RulesAssumption == Rules \subseteq {"mapped", "few", "asked"}

VARIABLES
  pp_ref,           \* pages[p].pp_ref
  page_free_list,   \* the pages on the free list
  env_pgdir,        \* env_pgdir of a slot, NoPage when the slot is ENV_FREE
  pde,              \* directory entries below UTOP
  pte,              \* PTE_ADDR of the table entries below UTOP
  pte_w,            \* their PTE_W bit
  uenvs,            \* the page mapped at UENVS in the table all directories share
  ret,              \* what the last system call returned
  panicstr          \* page_free was handed a page that is already free

space == <<env_pgdir, pde, pte, pte_w, uenvs>>
vars == <<pp_ref, page_free_list, space, ret, panicstr>>

Tbl == Env \X PDX
Slot == Env \X PDX \X PTX
tbl(s) == <<s[1], s[2]>>
OrNone == Page \cup {NoPage}

Results == {"0", "E_NO_MEM", "E_INVAL", "E_BAD_ENV"}

TypeOK ==
  /\ pp_ref \in [Page -> 0..(RefMod - 1)]
  /\ page_free_list \subseteq Page
  /\ env_pgdir \in [Env -> OrNone]
  /\ pde \in [Tbl -> OrNone]
  /\ pte \in [Slot -> OrNone]
  /\ pte_w \in [Slot -> BOOLEAN]
  /\ uenvs \in Page
  /\ ret \in Results
  /\ panicstr \in BOOLEAN

-----------------------------------------------------------------------------
\* pp_ref++ and --pp_ref on a uint16_t.
incref(n) == IF n = RefMod - 1 THEN 0 ELSE n + 1
decref(n) == IF n = 0 THEN RefMod - 1 ELSE n - 1

\* page_decref(q) frees q when the count drops to zero.
freed(q) == IF pp_ref[q] = 1 THEN {q} ELSE {}

\* page_free panics on a page that is already on the list.
page_free(S) == panicstr' = (panicstr \/ S \cap page_free_list # {})

\* page_lookup: NULL (NoPage) without a page table; the entry is not tested
\* for PTE_P, so that an empty entry of an existing table yields &pages[0].
page_lookup(s) ==
  IF pde[tbl(s)] = NoPage THEN NoPage
  ELSE IF pte[s] = NoPage THEN Page0 ELSE pte[s]

\* Mutant: the count is decremented without page_decref's page_free.
page_remove_nofree(s) ==
  IF page_lookup(s) = NoPage
  THEN UNCHANGED <<pp_ref, page_free_list, pte, pte_w, panicstr>>
  ELSE /\ pp_ref' = [pp_ref EXCEPT ![page_lookup(s)] = decref(@)]
       /\ pte' = [pte EXCEPT ![s] = NoPage]
       /\ pte_w' = [pte_w EXCEPT ![s] = FALSE]
       /\ UNCHANGED <<page_free_list, panicstr>>

\* page_remove: drop whatever page_lookup returned and clear the entry.
page_remove(s) ==
  IF page_lookup(s) = NoPage
  THEN UNCHANGED <<pp_ref, page_free_list, pte, pte_w, panicstr>>
  ELSE LET q == page_lookup(s)
       IN  /\ pp_ref' = [pp_ref EXCEPT ![q] = decref(@)]
           /\ page_free_list' = page_free_list \cup freed(q)
           /\ page_free(freed(q))
           /\ pte' = [pte EXCEPT ![s] = NoPage]
           /\ pte_w' = [pte_w EXCEPT ![s] = FALSE]

\* pgdir_walk(.., create) returns NULL: there is no table and no page for one.
walk_fails(s, free) == pde[tbl(s)] = NoPage /\ free = {}

\* Mutant: the page of a new page table stays on the free list.
insert_table_kept(s, p, free) ==
  /\ pde[tbl(s)] = NoPage
  /\ \E t \in free :
       /\ pde' = [pde EXCEPT ![tbl(s)] = t]
       /\ pp_ref' = [pp_ref EXCEPT ![t] = incref(@), ![p] = incref(@)]
  /\ page_free_list' = free
  /\ UNCHANGED panicstr

\* Mutant: re-inserting a page at its own address counts it again.
insert_same_recount(s, p, free) ==
  /\ pde[tbl(s)] # NoPage /\ pte[s] = p
  /\ pp_ref' = [pp_ref EXCEPT ![p] = incref(@)]
  /\ page_free_list' = free
  /\ UNCHANGED <<pde, panicstr>>

\* Mutant: re-inserting a page removes it first, which may free it.
insert_same_removed(s, p, free) ==
  /\ pde[tbl(s)] # NoPage /\ pte[s] = p
  /\ page_free_list' = free \cup freed(p)
  /\ UNCHANGED <<pde, pp_ref, panicstr>>

\* page_insert when pgdir_walk succeeds; free is the list left by the caller.
insert_table(s, p, free) ==          \* the walk allocates the page table
  /\ pde[tbl(s)] = NoPage
  /\ \E t \in free :
       /\ pde' = [pde EXCEPT ![tbl(s)] = t]
       /\ pp_ref' = [pp_ref EXCEPT ![t] = incref(@), ![p] = incref(@)]
       /\ page_free_list' = free \ {t}
  /\ UNCHANGED panicstr

insert_same(s, p, free) ==           \* p is already there: new permissions only
  /\ pde[tbl(s)] # NoPage /\ pte[s] = p
  /\ page_free_list' = free
  /\ UNCHANGED <<pde, pp_ref, panicstr>>

insert_other(s, p, free) ==          \* page_remove what is there
  /\ pde[tbl(s)] # NoPage /\ pte[s] \notin {p, NoPage}
  /\ pp_ref' = [pp_ref EXCEPT ![pte[s]] = decref(@), ![p] = incref(@)]
  /\ page_free_list' = free \cup freed(pte[s])
  /\ page_free(freed(pte[s]))
  /\ UNCHANGED pde

insert_empty(s, p, free) ==
  /\ pde[tbl(s)] # NoPage /\ pte[s] = NoPage
  /\ pp_ref' = [pp_ref EXCEPT ![p] = incref(@)]
  /\ page_free_list' = free
  /\ UNCHANGED <<pde, panicstr>>

page_insert(s, p, w, free) ==
  /\ pte' = [pte EXCEPT ![s] = p]
  /\ pte_w' = [pte_w EXCEPT ![s] = w]
  /\ UNCHANGED <<env_pgdir, uenvs>>
  /\ \/ insert_table(s, p, free)
     \/ insert_same(s, p, free)
     \/ insert_other(s, p, free)
     \/ insert_empty(s, p, free)

-----------------------------------------------------------------------------
Exists(e) == env_pgdir[e] # NoPage

\* The addresses a caller names.  Under rule "mapped" it never names an empty
\* entry of an existing page table, which is how lib/fork.c (it tests uvpt
\* first), user/dumbfork.c and user/sendpage.c use the calls.
SafeVa(s) == "mapped" \in Rules => (pde[tbl(s)] = NoPage \/ pte[s] # NoPage)

\* Under rule "few" it never maps or sends a page that already has RefMod - 1
\* pointers: page_insert increments pp_ref without a test, and no program of
\* the repository maps one page some 65000 times.
CountFits(p) == "few" \in Rules => pp_ref[p] < RefMod - 1

fail(r) == ret' = r /\ UNCHANGED <<pp_ref, page_free_list, space, panicstr>>

\* env_alloc with its env_setup_vm, called by sys_exofork and env_create.
env_setup_vm(e) ==
  /\ ~Exists(e)
  /\ \/ page_free_list = {} /\ fail("E_NO_MEM")
     \/ \E p \in page_free_list :
          /\ page_free_list' = page_free_list \ {p}
          /\ env_pgdir' = [env_pgdir EXCEPT ![e] = p]
          /\ pp_ref' = [pp_ref EXCEPT ![p] = incref(@)]
          /\ ret' = "0"
          /\ UNCHANGED <<pde, pte, pte_w, uenvs, panicstr>>

\* How many decrements env_free(e) applies to page p: one per table entry,
\* one per page table, one for the directory.
drops(e, p) ==
  Cardinality({s \in Slot : s[1] = e /\ pte[s] = p})
    + Cardinality({t \in Tbl : t[1] = e /\ pde[t] = p})
    + (IF env_pgdir[e] = p THEN 1 ELSE 0)

env_free(e) ==
  LET reached0 == {p \in Page : pp_ref[p] > 0 /\ pp_ref[p] <= drops(e, p)}
  IN /\ Exists(e)
     /\ pp_ref' = [p \in Page |-> IF pp_ref[p] >= drops(e, p)
                                  THEN pp_ref[p] - drops(e, p)
                                  ELSE (pp_ref[p] + RefMod) - drops(e, p)]
     /\ page_free_list' = page_free_list \cup reached0
     /\ page_free(reached0)
     /\ env_pgdir' = [env_pgdir EXCEPT ![e] = NoPage]
     /\ pde' = [t \in Tbl |-> IF t[1] = e THEN NoPage ELSE pde[t]]
     /\ pte' = [s \in Slot |-> IF s[1] = e THEN NoPage ELSE pte[s]]
     /\ pte_w' = [s \in Slot |-> IF s[1] = e THEN FALSE ELSE pte_w[s]]
     /\ ret' = "0"
     /\ UNCHANGED uenvs

\* The page sys_page_alloc took stays off the list when page_insert fails.
sys_page_alloc(s, w) ==
  /\ Exists(s[1])
  /\ \/ page_free_list = {} /\ fail("E_NO_MEM")
     \/ \E p \in page_free_list :
          LET free == page_free_list \ {p}
          IN \/ /\ walk_fails(s, free)
                /\ page_free_list' = free
                /\ ret' = "E_NO_MEM"
                /\ UNCHANGED <<pp_ref, space, panicstr>>
             \/ page_insert(s, p, w, free) /\ ret' = "0"

\* Mutant: the test that w needs a writable source is missing.
sys_page_map_rw(a, b, w) ==
  LET src == page_lookup(a)
  IN /\ Exists(a[1]) /\ Exists(b[1]) /\ SafeVa(a) /\ src # NoPage
     /\ page_insert(b, src, w, page_free_list)
     /\ ret' = "0"

\* Mutant: srcva is not tested against UTOP, and may be UENVS.
sys_page_map_anyva(a, b, w) ==
  /\ Exists(a[1]) /\ Exists(b[1]) /\ ~w
  /\ page_insert(b, uenvs, w, page_free_list)
  /\ ret' = "0"

\* The page mapped at a becomes mapped at b, writable if w.
sys_page_map(a, b, w) ==
  LET src == page_lookup(a)
  IN /\ Exists(a[1]) /\ Exists(b[1]) /\ SafeVa(a)
     /\ \/ (src = NoPage \/ (w /\ ~pte_w[a])) /\ fail("E_INVAL")
        \/ /\ src # NoPage /\ (w => pte_w[a]) /\ CountFits(src)
           /\ \/ walk_fails(b, page_free_list) /\ fail("E_NO_MEM")
              \/ page_insert(b, src, w, page_free_list) /\ ret' = "0"

sys_page_unmap(s) ==
  /\ Exists(s[1]) /\ SafeVa(s)
  /\ page_remove(s)
  /\ ret' = "0"
  /\ UNCHANGED <<env_pgdir, pde, uenvs>>

\* sys_ipc_try_send of the page at a to an environment receiving at b < UTOP.
sys_ipc_try_send(a, b, w) ==
  LET pp == page_lookup(a)
  IN /\ Exists(a[1]) /\ Exists(b[1]) /\ a[1] # b[1] /\ SafeVa(a)
     /\ \/ (pp = NoPage \/ (w /\ ~pte_w[a])) /\ fail("E_INVAL")
        \/ /\ pp # NoPage /\ (w => pte_w[a]) /\ CountFits(pp)
           /\ \/ walk_fails(b, page_free_list) /\ fail("E_NO_MEM")
              \/ page_insert(b, pp, w, page_free_list) /\ ret' = "0"

\* The same to an environment that asked for no page: sys_ipc_recv stored UTOP,
\* which is UENVS, and page_insert works on the table every directory shares.
\* Under rule "asked" senders send pages only to receivers that want one.
sys_ipc_try_send_utop(a, e, w) ==
  LET pp == page_lookup(a)
  IN /\ "asked" \notin Rules
     /\ Exists(a[1]) /\ Exists(e) /\ a[1] # e /\ SafeVa(a)
     /\ pp # NoPage /\ (w => pte_w[a]) /\ CountFits(pp)
     /\ uenvs' = pp
     /\ IF pp = uenvs
        THEN UNCHANGED <<pp_ref, page_free_list, panicstr>>
        ELSE /\ pp_ref' = [pp_ref EXCEPT ![uenvs] = decref(@), ![pp] = incref(@)]
             /\ page_free_list' = page_free_list \cup freed(uenvs)
             /\ page_free(freed(uenvs))
     /\ ret' = "0"
     /\ UNCHANGED <<env_pgdir, pde, pte, pte_w>>

\* envid2env rejects a slot that is ENV_FREE.
bad_env == (\E e \in Env : ~Exists(e)) /\ fail("E_BAD_ENV")

\* The early returns on an address above UTOP or not page-aligned, and on a
\* perm without PTE_U | PTE_P or outside PTE_SYSCALL.
bad_arg == (\E e \in Env : Exists(e)) /\ fail("E_INVAL")

-----------------------------------------------------------------------------
\* After mem_init and env_init: page_init has counted the pages in use once
\* and put the others on the list; no environment exists.
Init ==
  /\ pp_ref = [p \in Page |-> IF p \in BootPage THEN 1 ELSE 0]
  /\ page_free_list = Page \ BootPage
  /\ env_pgdir = [e \in Env |-> NoPage]
  /\ pde = [t \in Tbl |-> NoPage]
  /\ pte = [s \in Slot |-> NoPage]
  /\ pte_w = [s \in Slot |-> FALSE]
  /\ uenvs = EnvsPage
  /\ ret = "0"
  /\ panicstr = FALSE

Next ==
  /\ ~panicstr
  /\ \/ \E e \in Env : env_setup_vm(e) \/ env_free(e)
     \/ \E s \in Slot, w \in BOOLEAN : sys_page_alloc(s, w)
     \/ \E a, b \in Slot, w \in BOOLEAN : sys_page_map(a, b, w)
     \/ \E a, b \in Slot, w \in BOOLEAN : sys_ipc_try_send(a, b, w)
     \/ \E s \in Slot : sys_page_unmap(s)
     \/ \E a \in Slot, e \in Env, w \in BOOLEAN : sys_ipc_try_send_utop(a, e, w)
     \/ bad_env \/ bad_arg

Spec == Init /\ [][Next]_vars

-----------------------------------------------------------------------------
\* The pointers to page p that pp_ref is meant to count: directories, page
\* tables, mappings, and what page_init counted for the pages the kernel uses
\* (for the page of envs[], its mapping at UENVS).
Mappings(p) == {s \in Slot : pte[s] = p}
Tables(p) == {t \in Tbl : pde[t] = p}
Dirs(p) == {e \in Env : env_pgdir[e] = p}
Pinned(p) == (IF p \in BootPage \ {EnvsPage} THEN 1 ELSE 0) + (IF uenvs = p THEN 1 ELSE 0)

\* memlayout.h's description of pp_ref: the count is exactly the number of
\* pointers to the page, across every interleaving of page_insert,
\* page_remove, env_free and the failure paths.
RefCountExact ==
  \A p \in Page :
    pp_ref[p] = Cardinality(Mappings(p)) + Cardinality(Tables(p))
                  + Cardinality(Dirs(p)) + Pinned(p)

\* A page on the free list has count zero and nothing points to it, so that
\* page_alloc never hands out memory that is still reachable; and page_free
\* is never called for a page that is already free.  What the kernel reaches
\* through its own map above UTOP is not a pointer here: that the page of envs[]
\* becomes free, once a send at UTOP has replaced it at UENVS, is a matter for
\* KernelPagesKept.
FreeSound ==
  /\ \A p \in page_free_list :
       /\ pp_ref[p] = 0 /\ p # uenvs
       /\ Mappings(p) = {} /\ Tables(p) = {} /\ Dirs(p) = {}
  /\ ~panicstr

\* A page used as a directory or a page table has that one use: it is never
\* mapped below UTOP (where user code could write it) nor shared, and an
\* entry is present only below a present table of an existing environment.
TablesPrivate ==
  /\ \A s \in Slot : pte[s] # NoPage => pde[tbl(s)] # NoPage
  /\ \A t \in Tbl : pde[t] # NoPage => Exists(t[1])
  /\ \A p \in Page :
       (Tables(p) # {} \/ Dirs(p) # {}) =>
         /\ Mappings(p) = {} /\ p # uenvs /\ p \notin BootPage \ {EnvsPage}
         /\ Cardinality(Tables(p)) + Cardinality(Dirs(p)) = 1

\* sys_ipc_try_send's "If the sender wants to send a page but the receiver
\* isn't asking for one, then no page mapping is transferred": UENVS keeps
\* showing envs[].
UenvsIntact == uenvs = EnvsPage

\* check_page_free_list's assert(page2pa(pp) != 0), which mem_init evaluates
\* once, stays true: physical page 0 never gets on the free list.
Page0NotFree == Page0 \notin page_free_list

\* A page only the kernel uses stays so, whatever user programs map, send, unmap
\* and free: it gets neither on the free list nor into an address space.  There
\* is one way out, and it is the disagreement with syscall.c's "If the sender
\* wants to send a page but the receiver isn't asking for one, then no page
\* mapping is transferred": sys_ipc_try_send at UTOP replaces the page of
\* envs[] at UENVS and drops its only count, while the kernel goes on using it.
KernelOnly(p) ==
  p \notin page_free_list /\ Mappings(p) = {} /\ Tables(p) = {} /\ Dirs(p) = {}
KernelPagesKept ==
  [][\A p \in BootPage : KernelOnly(p) =>
       (KernelOnly(p)' \/ (p = EnvsPage /\ uenvs = p /\ uenvs' # p))]_vars

\* Without that way out, when nobody sends a page to a receiver that wants none.
KernelMapIntact ==
  UenvsIntact /\ \A p \in BootPage : KernelOnly(p)

\* A page whose mappings are all read-only never gains a writable mapping
\* while it stays mapped: neither sys_page_map nor sys_ipc_try_send can
\* raise PTE_W, whatever chain of environments the page went through.
Writable(p) == \E s \in Mappings(p) : pte_w[s]
NoWriteEscalation ==
  [][\A p \in Page : (Mappings(p) # {} /\ ~Writable(p)) => ~Writable(p)']_vars

\* A page is lost when it is neither free nor reachable.
Lost == {p \in Page : /\ p \notin page_free_list /\ Pinned(p) = 0
                      /\ Mappings(p) = {} /\ Tables(p) = {} /\ Dirs(p) = {}}

\* sys_page_alloc's "If page_insert() fails, remember to free the page you
\* allocated!", and the same of every other call: no step loses a page.
NoLoss == [][Lost' \subseteq Lost]_vars

\* What the code does instead.  A call that returns -E_NO_MEM although a page was
\* free has lost that page, the last one: sys_page_alloc took it and found none
\* for the page table.  No other step loses any, whether it fails or not.
LossAccounted ==
  [][IF ret' = "E_NO_MEM" /\ page_free_list # {}
     THEN page_free_list' = {} /\ Lost' = Lost \cup page_free_list
     ELSE Lost' = Lost]_vars
=============================================================================
