------------------------------- MODULE UserMem ------------------------------
(***************************************************************************)
(* user_mem_check and user_mem_assert of kern/pmap.c.  pte gives, for each *)
(* page, the permissions in the environment's page table, {} where it has  *)
(* no entry.  Addresses are bytes and 2^32 is TOP * PGSIZE, where they     *)
(* wrap around.                                                            *)
(***************************************************************************)
EXTENDS MemLayout, Calls

\* Mutant: the address reported is always the start of the page.
user_mem_check_page(pte, va, len, perm) ==
  LET addr == va \div PGSIZE
      end == (ROUNDUP(va + len, PGSIZE) % (TOP * PGSIZE)) \div PGSIZE
      bad == {a \in addr..(end - 1) : a >= ULIM \/ ~(perm \cup {"P", "U"} \subseteq pte[a])}
      first == CHOOSE a \in bad : \A b \in bad : a <= b
  IN IF bad = {} THEN [ret |-> "0", addr |-> -1] ELSE [ret |-> "E_FAULT", addr |-> first * PGSIZE]

user_mem_check(pte, va, len, perm) ==
  LET addr == va \div PGSIZE
      end == (ROUNDUP(va + len, PGSIZE) % (TOP * PGSIZE)) \div PGSIZE
      bad == {a \in addr..(end - 1) : a >= ULIM \/ ~(perm \cup {"P", "U"} \subseteq pte[a])}
      first == CHOOSE a \in bad : \A b \in bad : a <= b
  IN IF bad = {} THEN [ret |-> "0", addr |-> -1]
     ELSE [ret |-> "E_FAULT", addr |-> IF first * PGSIZE < va THEN va ELSE first * PGSIZE]

\* The environment lives on only if the check succeeds.
user_mem_assert(pte, va, len, perm) == user_mem_check(pte, va, len, perm \cup {"U"}).ret = "0"

-----------------------------------------------------------------------------
\* A byte is the user's with perm if it is below ULIM and its page says so.
UserByte(pte, b, perm) == b < ULIM * PGSIZE /\ perm \cup {"P", "U"} \subseteq pte[b \div PGSIZE]

\* Where the loop over the pages of va..va + len - 1 stops: at the end of the
\* range, but if the end, rounded up, is 2^32 or more it wraps around, mostly to
\* an address below va.
Stop(va, len) ==
  IF ROUNDUP(va + len, PGSIZE) < TOP * PGSIZE THEN va + len
  ELSE ROUNDUP(va + len, PGSIZE) % (TOP * PGSIZE)

\* For a range that is not empty: the check succeeds exactly if every byte
\* before Stop is the user's, and otherwise reports the first that is not.  For
\* a range that does not wrap around these are all of its bytes.  For one that
\* does they are none, or those of va's own page, so it passes although the
\* comment of user_mem_check has every page tested and nothing above ULIM pass.
RangeRight(pte, va, len, perm) ==
  LET r == user_mem_check(pte, va, len, perm)
      bad == {b \in va..(Stop(va, len) - 1) : ~UserByte(pte, b, perm)}
  IN /\ (r.ret = "0") = (bad = {}) /\ user_mem_assert(pte, va, len, perm) = (bad = {})
     /\ bad # {} => r.addr \in bad /\ \A b \in bad : r.addr <= b

\* user_mem_check lets a range pass exactly if every byte of it up to where its
\* loop stops is the user's, however it lies on its pages, and else names the
\* first byte that is not.  The loop stops at the end of the range, unless the
\* end wraps around: such a range passes untested.
UserMemCheckRight ==
  call.fn = "user_mem_check" => RangeRight(call.pte, call.va, call.len, call.perm)
=============================================================================
