------------------------------- MODULE Kdebug -------------------------------
(***************************************************************************)
(* kern/kdebug.c: the binary search in the STABS table and the three       *)
(* searches debuginfo_eip builds on it, after it has checked the memory    *)
(* the tables of a user program are in.  A table is a function from 0 on   *)
(* to records [n_type, n_value, n_desc]; an index stands for the name the  *)
(* stab at that index has in the string table.                             *)
(***************************************************************************)
EXTENDS UserMem, Sequences, FiniteSets, SequencesExt

\* Mutant: an exact match is treated like a stab above the address.
bin_step_exact(stabs, type, s) ==
  LET true_m == (s.l + s.r) \div 2
      hits == {i \in s.l..true_m : stabs[i].n_type = type}
      m == Max(hits)
  IN CASE hits = {} -> [s EXCEPT !.l = true_m + 1]
       [] hits # {} /\ stabs[m].n_value < s.addr ->
            [s EXCEPT !.any = TRUE, !.left = m, !.l = true_m + 1]
       [] OTHER -> [s EXCEPT !.any = TRUE, !.right = m - 1, !.r = m - 1]

\* The search's variables; left and right are *region_left and *region_right.
bin_start(left, right, addr) ==
  [l |-> left, r |-> right, left |-> left, right |-> right, any |-> FALSE, addr |-> addr]

\* One turn of the loop.
bin_step(stabs, type, s) ==
  LET true_m == (s.l + s.r) \div 2
      hits == {i \in s.l..true_m : stabs[i].n_type = type}
      m == Max(hits)
  IN CASE hits = {} -> [s EXCEPT !.l = true_m + 1]
       [] hits # {} /\ stabs[m].n_value < s.addr ->
            [s EXCEPT !.any = TRUE, !.left = m, !.l = true_m + 1]
       [] hits # {} /\ stabs[m].n_value > s.addr ->
            [s EXCEPT !.any = TRUE, !.right = m - 1, !.r = m - 1]
       [] OTHER -> [s EXCEPT !.any = TRUE, !.left = m, !.l = m, !.addr = @ + 1]

\* The loop, by its turns.  A turn makes the region shorter, but for an exact
\* match at l, after which the next one does: there are fewer than MaxTurns.
bin_turn(stabs, type, s) == IF s.l > s.r THEN s ELSE bin_step(stabs, type, s)
MaxTurns(s) == IF s.l > s.r THEN 0 ELSE 2 * ((s.r - s.l) + 2)
bin_turns(stabs, type, s) ==
  LET f[i \in 0..MaxTurns(s)] == IF i = 0 THEN s ELSE bin_turn(stabs, type, f[i - 1])
  IN f
bin_loop(stabs, type, s) == bin_turns(stabs, type, s)[MaxTurns(s)]

\* The region the code makes of the state the loop ends in.
bin_region(stabs, type, s) ==
  LET stops == {s.left} \cup {i \in s.left..s.right : stabs[i].n_type = type}
  IN IF ~s.any THEN <<s.left, s.left - 1>>
     ELSE IF s.right <= s.left THEN <<s.right, s.right>>
     ELSE <<Max(stops), s.right>>

\* stab_binsearch: the region <<left, right>> after the search.
stab_binsearch(stabs, left, right, type, addr) ==
  bin_region(stabs, type, bin_loop(stabs, type, bin_start(left, right, addr)))

\* The stabs of from..to that a loop from to downwards reads, which stops at one
\* of the type; and the stabs stab_binsearch reads, in its turns and at its end.
read_down(stabs, type, from, to) ==
  {i \in from..to : \A j \in (i + 1)..to : stabs[j].n_type # type}
search_reads(stabs, left, right, type, addr) ==
  LET turns == bin_turns(stabs, type, bin_start(left, right, addr))
      end == bin_loop(stabs, type, bin_start(left, right, addr))
  IN UNION {read_down(stabs, type, turns[i].l, (turns[i].l + turns[i].r) \div 2) : i \in DOMAIN turns}
       \cup (IF end.any THEN read_down(stabs, type, end.left + 1, end.right) ELSE {})

\* debuginfo_eip returns -1; what it has stored by then is not used.  Or it does
\* not return: a page fault in the kernel is a panic.
NotFound == [ret |-> -1]
Panic == [ret |-> 1]

\* The tables of a program, t, are [stabs, stab_end, stabstr, stabstr_end], with
\* the page table pte they are read through and whether the last byte of the
\* strings is NUL, nul.  A stab has 4 bytes here, so that none is on two pages.
USTABDATA == (NPTENTRIES \div 2) * PGSIZE
SIZEOF_UserStabData == 16
SIZEOF_Stab == 4
NStabs(t) == (t.stab_end - t.stabs) \div SIZEOF_Stab
size_t(n) == n % (TOP * PGSIZE)

\* The three checks of a user program's tables.  The second is of as many bytes
\* as there are stabs, and one.
tables_pass(t) ==
  \A c \in {<<USTABDATA, SIZEOF_UserStabData>>, <<t.stabs, size_t(NStabs(t) + 1)>>,
            <<t.stabstr, size_t(t.stabstr_end - t.stabstr + 1)>>} :
    user_mem_check(t.pte, c[1], c[2], {"U"}).ret = "0"

absent(t, i) == "P" \notin t.pte[(t.stabs + i * SIZEOF_Stab) \div PGSIZE]

debuginfo_eip(t, stabs, addr) ==
  LET user == addr < ULIM * PGSIZE
      file == stab_binsearch(stabs, 0, NStabs(t) - 1, "SO", addr)
      fun == stab_binsearch(stabs, file[1], file[2], "FUN", addr)
      found == fun[1] <= fun[2]
      fn_addr == IF found THEN stabs[fun[1]].n_value ELSE addr
      where == IF found THEN fun ELSE file
      offset == IF found THEN addr - fn_addr ELSE addr
      line == stab_binsearch(stabs, where[1], where[2], "SLINE", offset)
      names == {i \in file[1]..line[1] :
                  \/ stabs[i].n_type = "SOL"
                  \/ stabs[i].n_type = "SO" /\ stabs[i].n_value # 0}
      ends == {i \in (fun[1] + 1)..fun[2] : i = fun[2] \/ stabs[i].n_type # "PSYM"}
      args == IF fun[1] < fun[2] THEN (fun[1] + 1)..(Min(ends) - 1) ELSE {}
      reads == search_reads(stabs, 0, NStabs(t) - 1, "SO", addr) \cup
               IF file[1] = 0 THEN {}
               ELSE search_reads(stabs, file[1], file[2], "FUN", addr)
                      \cup search_reads(stabs, where[1], where[2], "SLINE", offset) \cup
                    IF line[1] > line[2] THEN {}
                    ELSE {i \in file[1]..line[1] : \A j \in names : j <= i}
                           \cup args \cup (IF fun[1] < fun[2] THEN {Min(ends)} \ {fun[2]} ELSE {})
  IN IF (user /\ ~tables_pass(t)) \/ t.stabstr_end <= t.stabstr \/ ~t.nul THEN NotFound
     ELSE IF user /\ \E i \in reads : absent(t, i) THEN Panic
     ELSE IF file[1] = 0 \/ line[1] > line[2] THEN NotFound
     ELSE [ret |-> 0, fn |-> IF found THEN fun[1] ELSE -1, fn_addr |-> fn_addr,
           line |-> stabs[line[1]].n_desc,
           file |-> IF names = {} THEN -1 ELSE Max(names),
           narg |-> Cardinality(args)]

-----------------------------------------------------------------------------
\* Where a stab of the type starts at or before addr, the region goes from one
\* of the type up to the next.  It is the last at or before addr, as the comment
\* of stab_binsearch has it, but for one case: an exact match makes the code look
\* for addr + 1, so where stabs start at addr, addr + 1 and so on it may return
\* a later one of them, which does not contain addr.
SearchRight(stabs, left, right, type, addr) ==
  LET of == {i \in left..right : stabs[i].n_type = type}
      below == {i \in of : stabs[i].n_value <= addr}
      after(i) == {j \in of : j > i}
  IN below # {} => \E i \in of :
       /\ \/ i = Max(below)
          \/ i > Max(below) /\ addr..stabs[i].n_value \subseteq {stabs[j].n_value : j \in of}
       /\ stab_binsearch(stabs, left, right, type, addr) =
            <<i, (IF after(i) = {} THEN right + 1 ELSE Min(after(i))) - 1>>

\* A program to look addresses up in: a compiled file with the functions of
\* funs, each [addr, args, line2, included] with its lines at offsets 0 and
\* line2, the second from an included file or not, and an assembly file, whose
\* lines have absolute addresses, at asm and asm2.  The n_desc of an SO or SOL
\* tells the included file, 1, from the main one.
Stab(type, value, desc) == [n_type |-> type, n_value |-> value, n_desc |-> desc]
FunStabs(f) ==
  <<Stab("FUN", f.addr, 0)>> \o [i \in 1..f.args |-> Stab("PSYM", 0, 0)]
    \o <<Stab("SLINE", 0, f.addr)>>
    \o (IF f.included THEN <<Stab("SOL", f.addr + f.line2, 1)>> ELSE <<>>)
    \o <<Stab("SLINE", f.line2, f.addr + f.line2)>>
    \o (IF f.included THEN <<Stab("SOL", f.addr + f.line2, 0)>> ELSE <<>>)
ProgramStabs(funs, asm, asm2) ==
  LET seq == <<Stab("SO", funs[1].addr, 0), Stab("SO", funs[1].addr, 0)>>
               \o FlattenSeq([i \in 1..Len(funs) |-> FunStabs(funs[i])])
               \o <<Stab("SO", asm, 0), Stab("SLINE", asm, asm), Stab("SLINE", asm2, asm2)>>
  IN [i \in 0..Len(seq) |-> IF i = 0 THEN Stab("HDR", 0, 0) ELSE seq[i]]

\* What the checks of the tables establish, byte by byte: the structure at
\* USTABDATA, the first NStabs + 1 bytes of the stabs, which is a part of them
\* only, and the strings with the byte behind them are the user's, and there is
\* a string table that ends in NUL.
PartReadable(t) ==
  /\ \A b \in USTABDATA..(USTABDATA + SIZEOF_UserStabData - 1) \cup t.stabs..(t.stabs + NStabs(t))
                \cup t.stabstr..t.stabstr_end : UserByte(t.pte, b, {})
  /\ t.stabstr < t.stabstr_end /\ t.nul
StabsPresent(t) == \A i \in 0..(NStabs(t) - 1) : ~absent(t, i)

\* r is what debuginfo_eip makes of stabs, the program's table.  Lines are
\* numbered like the addresses they start at.  An address of the program is
\* found with its function, the number of its arguments, the last line that
\* starts at or before it and the file that line is from; the line may be the
\* second where the first has a single byte.
FoundRight(r, stabs, funs, asm, asm2, addr) ==
  LET f == funs[Max({i \in 1..Len(funs) : funs[i].addr <= addr})]
      lines(a, b) == {addr >= b} \cup (IF addr = a /\ b = a + 1 THEN {TRUE} ELSE {})
  IN IF addr < funs[1].addr THEN r = NotFound
     ELSE IF addr >= asm
     THEN /\ r.ret = 0 /\ r.fn = -1 /\ r.narg = 0
          /\ \E second \in lines(asm, asm2) : r.line = (IF second THEN asm2 ELSE asm)
     ELSE /\ r.ret = 0 /\ r.fn_addr = f.addr /\ r.narg = f.args
          /\ \E second \in lines(f.addr, f.addr + f.line2) :
               /\ r.line = (IF second THEN f.addr + f.line2 ELSE f.addr)
               /\ stabs[r.file].n_type \in {"SO", "SOL"}
               /\ stabs[r.file].n_desc = (IF second /\ f.included THEN 1 ELSE 0)

\* Nothing is found unless the parts checked of a user program's tables can be
\* read.  When they can, the stabs behind them may still be absent: the kernel
\* panics if the one in the middle is, the first it reads, and never if all are
\* present.  The kernel's own tables are not checked.
LookupRight(r, t, stabs, funs, asm, asm2, addr) ==
  IF addr >= ULIM * PGSIZE THEN FoundRight(r, stabs, funs, asm, asm2, addr)
  ELSE IF ~PartReadable(t) THEN r = NotFound
  ELSE IF absent(t, (NStabs(t) - 1) \div 2) THEN r = Panic
  ELSE FoundRight(r, stabs, funs, asm, asm2, addr) \/ (r = Panic /\ ~StabsPresent(t))
=============================================================================
