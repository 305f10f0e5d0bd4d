------------------------------ MODULE MemLayout -----------------------------
(***************************************************************************)
(* The virtual memory of inc/memlayout.h with NPTENTRIES entries in a page *)
(* table and NKERN page tables above KERNBASE.  Addresses are in pages;    *)
(* the byte of boot_alloc is as long as a struct PageInfo, PGSIZE of which *)
(* make a page.                                                            *)
(***************************************************************************)
EXTENDS Integers

CONSTANTS NPTENTRIES, NKERN, NCPU, PGSIZE

ASSUME LayoutAssumption ==
  /\ {NPTENTRIES, NKERN, NCPU, PGSIZE} \subseteq Nat \ {0}
  /\ NCPU * 4 <= NPTENTRIES      \* the stacks fit in one page table
  /\ PGSIZE > 1                  \* the environments take memory

UTOP == 2 * NPTENTRIES
UENVS == UTOP
UPAGES == UENVS + NPTENTRIES
UVPT == UPAGES + NPTENTRIES
ULIM == UVPT + NPTENTRIES
MMIOBASE == ULIM
MMIOLIM == MMIOBASE + NPTENTRIES
KSTACKTOP == MMIOLIM + NPTENTRIES
KERNBASE == KSTACKTOP
TOP == KERNBASE + NKERN * NPTENTRIES
KSTKSIZE == 2
KSTKGAP == 2
IOPHYSMEM == 5
EXTPHYSMEM == 8
MPENTRY_PADDR == 3
ENVBYTES == PGSIZE - 1       \* NENV * sizeof(struct Env)

PDX(va) == va \div NPTENTRIES
PTX(va) == va % NPTENTRIES
ROUNDUP(a, n) == ((a + n - 1) \div n) * n
=============================================================================
