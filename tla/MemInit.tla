------------------------------- MODULE MemInit ------------------------------
(***************************************************************************)
(* How the kernel's memory map comes to be: i386_detect_memory,            *)
(* boot_alloc, page_init, boot_map_region, mmio_map_region, mem_init and   *)
(* mem_init_mp of kern/pmap.c, the map of kern/entrypgdir.c they start on, *)
(* and what the check_* functions of mem_init leave behind.  It is the     *)
(* state that modules Pmap and Kernel begin with.  A loop is a recursive   *)
(* function of its turns.                                                  *)
(***************************************************************************)
EXTENDS MemLayout, Calls, Sequences, FiniteSets

\* bootstack and percpu_kstacks lie in the kernel's image, from EXTPHYSMEM.
bootstack == EXTPHYSMEM
percpu_kstacks(i) == EXTPHYSMEM + KSTKSIZE * (i + 1)
ImageEnd == percpu_kstacks(NCPU)

Pte(pa, perm) == [pa |-> pa, perm |-> perm]
NoPte == Pte(0, {})
Junk == Pte(0, {"P", "W", "U"})       \* what memory holds before it is cleared

\* The state of mem_init: nextfree of boot_alloc (a physical byte), the pages
\* array, the page directory, each frame's contents as a page table, and the
\* static base of mmio_map_region.
Start(mem, end) ==
  [npages |-> mem.npages, npages_basemem |-> mem.npages_basemem, nextfree |-> ROUNDUP(end, PGSIZE),
   free |-> <<>>, ref |-> <<>>, kern_pgdir |-> 0, pages |-> 0, envs |-> 0,
   dir |-> [i \in 0..(PDX(TOP) - 1) |-> NoPte],
   tab |-> [p \in 0..(mem.npages - 1) |-> [i \in 0..(NPTENTRIES - 1) |-> Junk]],
   base |-> MMIOBASE, panicstr |-> "none"]

\* NVRAM counts kilobytes, here of 4 to a page; 1M and 16M are where extended
\* memory and the memory above 16M begin.
i386_detect_memory(basemem, extmem, ext16mem) ==
  LET totalmem == IF ext16mem # 0 THEN 16 * EXTPHYSMEM + ext16mem
                  ELSE IF extmem # 0 THEN 4 * EXTPHYSMEM + extmem ELSE basemem
  IN [npages |-> totalmem \div 4, npages_basemem |-> basemem \div 4]

boot_alloc(s, n) == [s EXCEPT !.nextfree = ROUNDUP(@ + n, PGSIZE)]

in_use(s, i) ==
  IF i = 0 THEN TRUE
  ELSE IF i < s.npages_basemem THEN i = MPENTRY_PADDR
  ELSE i \in IOPHYSMEM..(EXTPHYSMEM - 1) \/ i \in EXTPHYSMEM..(s.nextfree \div PGSIZE - 1)

\* Pages go to the head of page_free_list as the loop meets them.
page_init(s) ==
  LET list[i \in 0..s.npages] ==
        IF i = 0 THEN <<>> ELSE IF in_use(s, i - 1) THEN list[i - 1] ELSE <<i - 1>> \o list[i - 1]
  IN [s EXCEPT !.ref = [i \in 0..(s.npages - 1) |-> IF in_use(s, i) THEN 1 ELSE 0],
               !.free = list[s.npages]]

\* page_alloc(ALLOC_ZERO) for a page table of kern_pgdir; the state is
\* unchanged where the code returns NULL.
pgdir_walk(s, va) ==
  IF "P" \in s.dir[PDX(va)].perm \/ s.free = <<>> THEN s
  ELSE [s EXCEPT !.free = Tail(@), !.ref[Head(s.free)] = @ + 1,
                 !.dir[PDX(va)] = Pte(Head(s.free), {"P", "W", "U"}),
                 !.tab[Head(s.free)] = [i \in 0..(NPTENTRIES - 1) |-> NoPte]]

set_pte(s, va, pte) == [s EXCEPT !.tab[s.dir[PDX(va)].pa][PTX(va)] = pte]

\* The turn of boot_map_region's loop that maps the page at va; x.i counts the
\* turns before it.  Where there is no page table the function returns,
\* silently, and there are no more turns.
put_page(x, w, va, pa, perm) ==
  IF "P" \notin w.dir[PDX(va)].perm THEN x
  ELSE [s |-> set_pte(w, va, Pte(pa, perm \cup {"P"})), i |-> x.i + 1]
map_turn(x, i, va, pa, perm) ==
  IF x.i # i THEN x ELSE put_page(x, pgdir_walk(x.s, va), va, pa, perm)

\* After a panic the kernel does nothing more.
boot_map_region(s, va, size, pa, perm) ==
  LET x[k \in 0..size] ==
        IF k = 0 THEN [s |-> s, i |-> 0] ELSE map_turn(x[k - 1], k - 1, va + k - 1, pa + k - 1, perm)
  IN IF s.panicstr = "none" THEN x[size].s ELSE s

\* size in pages, already rounded up.
mmio_map_region(s, pa, size) ==
  IF s.panicstr # "none" THEN s
  ELSE IF s.base + size > MMIOLIM THEN [s EXCEPT !.panicstr = "the addr over flow MMIOLIM."]
  ELSE [boot_map_region(s, s.base, size, pa, {"W", "PCD", "PWT"}) EXCEPT !.base = @ + size]

\* A page goes to the end of the list of its kind: low pages are those that the
\* entry page table maps.
add_page(lists, p) ==
  IF PDX(p) < 1 THEN <<Append(lists[1], p), lists[2]>> ELSE <<lists[1], Append(lists[2], p)>>

\* Mutant: the free list stays as page_init built it, highest page first.
check_page_free_list_asis(s) == s

\* check_page_free_list(1): the low pages come first.
check_page_free_list(s) ==
  LET lists[k \in 0..Len(s.free)] == IF k = 0 THEN <<<<>>, <<>>>> ELSE add_page(lists[k - 1], s.free[k])
  IN [s EXCEPT !.free = lists[Len(s.free)][1] \o lists[Len(s.free)][2]]

\* check_page_alloc gives the three pages it takes back in their old order;
\* check_page in the reverse order, and then maps three pages of device memory
\* whose entries it clears again.
check_page(s) ==
  LET r == [s EXCEPT !.free = <<@[3], @[2], @[1]>> \o SubSeq(@, 4, Len(@))]
      m == mmio_map_region(mmio_map_region(r, 0, 2), 0, 1)
  IN set_pte(set_pte(set_pte(m, MMIOBASE, NoPte), MMIOBASE + 1, NoPte), MMIOBASE + 2, NoPte)

map_kstack(s, i) ==
  boot_map_region(s, KSTACKTOP - i * (KSTKSIZE + KSTKGAP) - KSTKSIZE, KSTKSIZE, percpu_kstacks(i), {"W"})
mem_init_mp(s) ==
  LET t[i \in 0..NCPU] == IF i = 0 THEN s ELSE map_kstack(t[i - 1], i - 1)
  IN t[NCPU]

\* What boot_alloc hands out: the directory, then pages, then envs.
boot_data(s) ==
  LET d == boot_alloc(s, PGSIZE)
      p == boot_alloc(d, s.npages)
  IN [boot_alloc(p, ENVBYTES) EXCEPT !.kern_pgdir = s.nextfree \div PGSIZE,
        !.pages = d.nextfree \div PGSIZE, !.envs = p.nextfree \div PGSIZE,
        !.dir[PDX(UVPT)] = Pte(s.nextfree \div PGSIZE, {"P", "U"})]

\* The static mappings of mem_init, up to those of mem_init_mp.
map_upages(s) == boot_map_region(s, UPAGES, ROUNDUP(s.npages, PGSIZE) \div PGSIZE, s.pages, {"U"})
map_uenvs(s) == boot_map_region(s, UENVS, ROUNDUP(ENVBYTES, PGSIZE) \div PGSIZE, s.envs, {"U"})
map_bootstack(s) == boot_map_region(s, KSTACKTOP - KSTKSIZE, KSTKSIZE, bootstack, {"W"})
map_kernbase(s) == boot_map_region(s, KERNBASE, TOP - KERNBASE, 0, {"W"})

boot_state(basemem, extmem, ext16mem, end) ==
  boot_data(Start(i386_detect_memory(basemem, extmem, ext16mem), end))
mem_init(basemem, extmem, ext16mem, end) ==
  LET s == check_page(check_page_free_list(page_init(boot_state(basemem, extmem, ext16mem, end))))
  IN mem_init_mp(map_kernbase(map_bootstack(map_uenvs(map_upages(s)))))

\* The map the kernel runs on until mem_init loads kern_pgdir.
entry_pgtable == [i \in 0..(NPTENTRIES - 1) |-> Pte(i, {"P", "W"})]
entry_pgdir == [i \in 0..(PDX(TOP) - 1) |-> IF i = 0 THEN {"P"} ELSE IF i = PDX(KERNBASE) THEN {"P", "W"} ELSE {}]

-----------------------------------------------------------------------------
\* What the processor makes of va: W and U must be set at both levels.  The
\* directory is its own page table for the window at UVPT.
translate(s, va) ==
  LET d == s.dir[PDX(va)]
      t == IF d.pa = s.kern_pgdir THEN s.dir ELSE s.tab[d.pa]
      e == IF PTX(va) \in DOMAIN t THEN t[PTX(va)] ELSE NoPte
  IN IF "P" \in d.perm /\ "P" \in e.perm THEN Pte(e.pa, e.perm \ ({"W", "U"} \ d.perm)) ELSE NoPte

maps(s, va, n, pa, perm) ==
  \A i \in 0..(n - 1) : LET e == translate(s, va + i) IN e.pa = pa + i /\ perm \subseteq e.perm

\* The promises of mem_init's comments and of check_kern_pgdir.
WindowsRight(s) ==
  /\ maps(s, UPAGES, ROUNDUP(s.npages, PGSIZE) \div PGSIZE, s.pages, {"P", "U"})
  /\ maps(s, UENVS, 1, s.envs, {"P", "U"})
  /\ maps(s, KERNBASE, TOP - KERNBASE, 0, {"P", "W"})
  /\ \A c \in 0..(NCPU - 1) :
       LET base == KSTACKTOP - (KSTKSIZE + KSTKGAP) * (c + 1)
       IN /\ maps(s, base + KSTKGAP, KSTKSIZE, percpu_kstacks(c), {"P", "W"})
          /\ \A i \in 0..(KSTKGAP - 1) : translate(s, base + i) = NoPte
  /\ \A i \in 0..(UTOP - 1) : translate(s, i) = NoPte

\* From UTOP to ULIM the user may read and not write; above, neither.
UserShutOut(s) ==
  \A va \in UTOP..(TOP - 1) :
    "U" \in translate(s, va).perm => va < ULIM /\ "W" \notin translate(s, va).perm

\* No page is free and in use, and the page tables were in reach of the entry
\* map when they were cleared.
tables(s) == {s.dir[i].pa : i \in {j \in DOMAIN s.dir \ {PDX(UVPT)} : "P" \in s.dir[j].perm}}
PagesApart(s) ==
  LET data == {0, MPENTRY_PADDR} \cup IOPHYSMEM..(s.nextfree \div PGSIZE - 1)
      free == {s.free[i] : i \in 1..Len(s.free)}
  IN /\ Cardinality(free) = Len(s.free)
     /\ free = {i \in DOMAIN s.ref : s.ref[i] = 0}
     /\ free \cap (data \cup tables(s)) = {} /\ data \cap tables(s) = {}
     /\ \A t \in tables(s) : t < NPTENTRIES

\* When mem_init loads kern_pgdir its own code stays where it is.
SameUnderBoth(s) ==
  \A va \in KERNBASE..(KERNBASE + NPTENTRIES - 1) :
    /\ translate(s, va).pa = entry_pgtable[PTX(va)].pa
    /\ "W" \in entry_pgdir[PDX(va)] \cap entry_pgtable[PTX(va)].perm \cap translate(s, va).perm

\* Calls of mmio_map_region after boot; the k-th maps the frames from 100 * k.
MmioCalls(s, sizes) ==
  LET m[k \in 0..Len(sizes)] == IF k = 0 THEN s ELSE mmio_map_region(m[k - 1], 100 * k, sizes[k])
  IN m[Len(sizes)]

\* Where the region after the k-th begins.
MmioEnds(base, sizes) ==
  LET at[k \in 0..Len(sizes)] == IF k = 0 THEN base ELSE at[k - 1] + sizes[k]
  IN at

\* Device memory is mapped where it was promised, each region where the one
\* before ended, and the kernel stops rather than run over MMIOLIM into the
\* stacks.
MmioRight(s, sizes) ==
  LET m == MmioCalls(s, sizes)
      at == MmioEnds(s.base, sizes)
  IN IF m.panicstr # "none" THEN at[Len(sizes)] > MMIOLIM
     ELSE \A k \in 1..Len(sizes) :
            maps(m, at[k - 1], sizes[k], 100 * k, {"P", "W", "PCD", "PWT"})

-----------------------------------------------------------------------------
\* The machines mem_init is written for: base memory ends between the entry
\* code of the other processors and the I/O hole, the kernel is loaded at
\* EXTPHYSMEM, the window at KERNBASE shows all of memory, and behind the
\* kernel and its tables there is room, in reach of the entry map, for the page
\* tables that the pages of base memory do not suffice for.
Bootable(c) ==
  LET mem == i386_detect_memory(c.base, c.ext, c.ext16)
      first == boot_state(c.base, c.ext, c.ext16, c.end).nextfree \div PGSIZE
  IN /\ c.base \in Nat /\ c.ext \in Nat /\ c.ext16 \in Nat /\ c.end \in Nat /\ c.sizes \in Seq(Nat)
     /\ MPENTRY_PADDR < mem.npages_basemem /\ mem.npages_basemem <= IOPHYSMEM
     /\ EXTPHYSMEM * PGSIZE <= c.end
     /\ mem.npages <= TOP - KERNBASE
     /\ first + NKERN < mem.npages /\ first + NKERN < NPTENTRIES

\* Whatever memory a bootable machine's NVRAM reports and wherever its kernel
\* ends, mem_init leaves the map its comments promise: windows, stacks and guard
\* pages; nothing above UTOP for the user to write; no page both free and in
\* use, page tables included, which were cleared through the small entry map;
\* that map and the new one agree on the kernel; and device memory stays below
\* the stacks.
MapRight(s, sizes) ==
  WindowsRight(s) /\ UserShutOut(s) /\ PagesApart(s) /\ SameUnderBoth(s) /\ MmioRight(s, sizes)
KernelMapRight ==
  call.fn = "mem_init" => MapRight(mem_init(call.base, call.ext, call.ext16, call.end), call.sizes)
=============================================================================
