\* A page table of 32 entries, two of them above KERNBASE: 64 pages of physical
\* memory, of which the entry map shows the first 32.
SPECIFICATION Spec
CONSTANTS
  NPTENTRIES = 32
  NKERN = 2
  NCPU = 2
  PGSIZE = 16
  CPRINTF_BUF = 4
INVARIANTS KernelMapRight UserMemCheckRight StringsRight  DebugInfoRight
