----------------------------- MODULE MCLibrary ------------------------------
(***************************************************************************)
(* The sequential algorithms of the kernel and the library: a call with    *)
(* some arguments, then the next call.                                     *)
(***************************************************************************)
EXTENDS Printfmt, MemInit, UserMem, Kdebug

Idle == [fn |-> "none"]
Seqs(S, n) == UNION {[1..k -> S] : k \in 0..n}

\* boot, with the calls of mmio_map_region that follow it.
Boot ==
  \E base \in {4 * (IOPHYSMEM - 1), 4 * IOPHYSMEM}, ext \in {0, 52, 120, 200}, ext16 \in {0, 96, 128},
     over \in {-3, 0, 1}, sizes \in {<<>>, <<1, 2>>, <<20, 9>>, <<20, 10, 1>>} :
    /\ call' = [fn |-> "mem_init", base |-> base, ext |-> ext, ext16 |-> ext16,
                end |-> ImageEnd * PGSIZE + over, sizes |-> sizes]
    /\ Bootable(call')

\* Two user pages and a kernel page around ULIM; ranges there, ranges that end
\* at the last page and ranges that go on to the end of memory and around.
CheckedPages == {ULIM - 2, ULIM - 1, ULIM}
CheckRange ==
  \E pte \in [CheckedPages -> {{}, {"P", "U"}, {"P", "U", "W"}, {"P", "W"}}],
     at \in {0, 1, PGSIZE - 1, PGSIZE, PGSIZE + 1, 2 * PGSIZE - 1}, perm \in {{}, {"W"}} :
    \E va \in {(ULIM - 2) * PGSIZE + at} :
    \E len \in {1, PGSIZE - 1, PGSIZE, PGSIZE + 1, PGSIZE + 2}
                 \cup {TOP * PGSIZE - va + d : d \in {-PGSIZE, 1 - PGSIZE, 0, 1}}
                 \cup {TOP * PGSIZE - d : d \in {1, PGSIZE - 1}} :
      call' = [fn |-> "user_mem_check", va |-> va, len |-> len, perm |-> perm,
               pte |-> [i \in 0..(TOP - 1) |-> IF i \in CheckedPages THEN pte[i] ELSE {}]]

\* Two strings in a memory of 16 bytes, and sizes up to more than they are long.
CallString ==
  \E p \in [0..1 -> 0..2], q \in [10..12 -> 0..2], n \in 0..5 :
    /\ call' = [fn |-> "string", p |-> 0, q |-> 10, n |-> n,
                mem |-> [i \in 0..15 |-> IF i \in 0..1 THEN p[i] ELSE IF i \in 10..12 THEN q[i]
                                         ELSE IF i \in {2, 13} THEN 0 ELSE 9]]
    /\ StringsApart(call'.mem, call'.p, call'.q, n)

\* Areas of memory that are apart, meet, overlap or are the same.
CallMemory ==
  \E mem \in {[i \in 0..15 |-> i], [i \in 0..15 |-> i % 2]}, p \in 0..12, q \in 0..12, n \in 0..9 :
    /\ AreasIn(mem, p, q, n)
    /\ call' = [fn |-> "memory", mem |-> mem, p |-> p, q |-> q, n |-> n]

CallStrtol ==
  \E str \in Seqs({" ", "-", "0", "x", "7", "a"}, 4), base \in {0, 8, 10, 16} :
    call' = [fn |-> "strtol", str |-> str, base |-> base]

\* A directive between two ordinary characters.
CallNumber ==
  \E flag \in {<<>>, <<"0">>, <<"-">>}, width \in {<<>>, <<"1">>, <<"3">>, <<"1", "0">>}, ls \in 0..2,
     c \in {"d", "u", "o", "x", "p"}, v \in {-32768, -129, -128, -1, 0, 7, 8, 127, 255, 32767}, n \in {0, 1, 4} :
    /\ ls < 2 => v \in -(UINT \div 2)..(UINT - 1)
    /\ c = "d" /\ ls < 2 => v < UINT \div 2
    /\ call' = [fn |-> "number", flag |-> flag, width |-> width, ls |-> ls, c |-> c, v |-> v, n |-> n]

CallText ==
  \E flag \in {<<>>, <<"0">>, <<"-">>}, width \in {-1, 0, 2, 4}, prec \in {-1, 0, 1, 3},
     arg \in Seqs({"r", "s"}, 3), n \in {0, 1, 3, 9} :
    call' = [fn |-> "text", flag |-> flag, width |-> width, prec |-> prec, arg |-> arg, n |-> n]

\* The conversions without a field: a character, an error, a per cent sign and
\* one that does not exist.
CallOther ==
  \E c \in {"c", "e", "%", "q"}, v \in -10..10 : call' = [fn |-> "other", c |-> c, v |-> v]

Search ==
  \E n \in 0..4 : \E addr \in 0..4, types \in [0..n -> {"FUN", "x"}], values \in [0..n -> 0..3] :
    /\ \A i, j \in 0..n : i < j /\ {types[i], types[j]} = {"FUN"} => values[i] <= values[j]
    /\ \A i \in 0..n : types[i] = "x" => values[i] = 0
    /\ call' = [fn |-> "search", addr |-> addr, last |-> n,
                stabs |-> [i \in 0..n |-> Stab(types[i], values[i], 0)]]

\* The tables of a program with n stabs: its stabs on the pages from StabPage on,
\* its strings behind them.  The pages of bad have the entry entry.
StabPage == USTABDATA \div PGSIZE + 1
StrPage(n) == StabPage + (n * SIZEOF_Stab) \div PGSIZE + 1
Tables(n, user, bad, entry, len, nul) ==
  [stabs |-> StabPage * PGSIZE, stab_end |-> StabPage * PGSIZE + n * SIZEOF_Stab,
   stabstr |-> StrPage(n) * PGSIZE, stabstr_end |-> StrPage(n) * PGSIZE + len, nul |-> nul,
   pte |-> [i \in 0..(TOP - 1) |-> IF i \in bad THEN entry ELSE IF user THEN {"P", "U"} ELSE {"P"}]]
LookupCall(funs, asm, asm2, addr, user, bad, entry, len, nul) ==
  LET stabs == ProgramStabs(funs, asm, asm2)
  IN [fn |-> "lookup", addr |-> addr, asm |-> asm, asm2 |-> asm2, funs |-> funs, stabs |-> stabs,
      t |-> Tables(Cardinality(DOMAIN stabs), user, bad, entry, len, nul)]
Funs(base, args, line2, included, size) ==
  [i \in 1..2 |-> [addr |-> base + (i - 1) * size, args |-> args[i], line2 |-> line2[i],
                   included |-> included[i]]]

\* Programs of the user's, and the kernel, with tables that can be read.
Lookup ==
  \E base \in {10, ULIM * PGSIZE}, args \in {<<0, 2>>, <<1, 0>>, <<2, 1>>}, line2 \in [1..2 -> {1, 2, 3}],
     included \in [1..2 -> BOOLEAN], size \in {4, 6}, off \in -2..15, asm2 \in {1, 2} :
    /\ base + off \in 0..(ULIM * PGSIZE - 1) <=> base = 10
    /\ call' = LookupCall(Funs(base, args, line2, included, size), base + 2 * size, base + 2 * size + asm2,
                          base + off, base = 10, {}, {}, 5, TRUE)

\* A program whose tables have pages that are absent or the kernel's, or strings
\* that are missing, end at the end of a page or not in NUL.
LookupBad ==
  \E bad \in SUBSET ((StabPage - 1)..(StabPage + 5)), entry \in {{}, {"P", "W"}}, len \in {-1, 0, 1, PGSIZE},
     nul \in BOOLEAN, off \in {-2, 0, 2, 5, 8, 12} :
    /\ Cardinality(bad) <= 2
    /\ call' = LookupCall(Funs(10, <<1, 2>>, <<2, 2>>, <<FALSE, TRUE>>, 4), 18, 20, 10 + off,
                          TRUE, bad, entry, len, nul)

Return == call # Idle /\ call' = Idle

Init == call = Idle
Next ==
  \/ call = Idle /\ Boot
  \/ call = Idle /\ CheckRange
  \/ call = Idle /\ CallString
  \/ call = Idle /\ CallMemory
  \/ call = Idle /\ CallStrtol
  \/ call = Idle /\ CallNumber
  \/ call = Idle /\ CallText
  \/ call = Idle /\ CallOther
  \/ call = Idle /\ Search
  \/ call = Idle /\ Lookup
  \/ call = Idle /\ LookupBad
  \/ Return
Spec == Init /\ [][Next]_call

-----------------------------------------------------------------------------
\* A directive's text and arguments with width and precision given by stars.
Stars(width, prec) == (IF width < 0 THEN <<>> ELSE <<"*">>) \o (IF prec < 0 THEN <<>> ELSE <<".", "*">>)
Given(width, prec) == SelectSeq(<<width, prec>>, LAMBDA x : x >= 0)
Pad(flag) == IF flag = <<>> THEN " " ELSE flag[1]

\* What vprintfmt puts for a directive between an a and a b.
Printed(directive, args) == vprintfmt(<<"a", "%">> \o directive \o <<"b", "NUL">>, 1, args)
Field(out) == Tail(Front(out))

NumberCallRight ==
  LET out == Printed(call.flag \o call.width \o Fill("l", call.ls) \o <<call.c>>, <<call.v>>)
      signed == call.c = "d" /\ call.v < 0
      range == IF call.ls < 2 \/ call.c = "p" THEN UINT ELSE ULLONG
      front == IF signed THEN <<"-">> ELSE IF call.c = "p" THEN <<"0", "x">> ELSE <<>>
      base == CASE call.c \in {"d", "u"} -> 10 [] call.c = "o" -> 8 [] OTHER -> 16
  IN /\ Head(out) = "a" /\ Last(out) = "b" /\ SinksRight(out, call.n)
     /\ NumberRight(Field(out), front, IF signed THEN -call.v ELSE call.v % range, base,
                    Value(call.width, 10), Pad(call.flag))

TextCallRight ==
  LET out == Printed(call.flag \o Stars(call.width, call.prec) \o <<"s">>,
                     Append(Given(call.width, call.prec), call.arg))
  IN /\ Head(out) = "a" /\ Last(out) = "b" /\ SinksRight(out, call.n)
     /\ StringRight(Field(out), call.arg, call.width, call.prec, Pad(call.flag))

OtherCallRight ==
  LET out == Printed(<<call.c>>, <<call.v>>)
      e == IF call.v < 0 THEN -call.v ELSE call.v
  IN CASE call.c = "c" -> Field(out) = <<call.v>>
       [] call.c = "%" -> Field(out) = <<"%">>
       [] call.c = "q" -> Field(out) = <<"%", "q">>
       [] OTHER -> IF e \in 1..8 THEN Field(out) = <<error_string[e]>>
                   ELSE Value(Tail(Field(out)), 10) = e


\* The binary search finds the stab that contains an address, or one of those
\* right behind it, and debuginfo_eip with it the function, line, file and
\* argument count, in compiled code, in included code and in assembly.  Tables
\* it is not to read make it return -1, or panic where its checks are too short.
DebugInfoRight ==
  /\ call.fn = "search" => SearchRight(call.stabs, 0, call.last, "FUN", call.addr)
  /\ call.fn = "lookup" => LookupRight(debuginfo_eip(call.t, call.stabs, call.addr),
                                       call.t, call.stabs, call.funs, call.asm, call.asm2, call.addr)
=============================================================================
