-------------------------------- MODULE Memory ------------------------------
(***************************************************************************)
(* memset and memmove of lib/string.c.  Memory is a function from          *)
(* addresses to bytes, 0 being the NUL, and a function that writes returns *)
(* the memory it leaves.                                                   *)
(***************************************************************************)
EXTENDS Integers, Sequences

\* rep stos, rep movs: cnt units of w bytes up or down; a unit is read before
\* it is written.
stos(mem, d, c, cnt, w) == [i \in DOMAIN mem |-> IF i \in d..(d + cnt * w - 1) THEN c ELSE mem[i]]

copy_unit(mem, d, s, w) == [i \in DOMAIN mem |-> IF i \in d..(d + w - 1) THEN mem[s + i - d] ELSE mem[i]]

movs(mem, d, s, cnt, w, dir) ==
  LET f[k \in 0..cnt] ==
        IF k = 0 THEN mem ELSE copy_unit(f[k - 1], d + dir * w * (k - 1), s + dir * w * (k - 1), w)
  IN f[cnt]

Unit(a, b, n) == IF a % 4 = 0 /\ b % 4 = 0 /\ n % 4 = 0 THEN 4 ELSE 1

memset(mem, v, c, n) == LET w == Unit(v, v, n) IN stos(mem, v, c, n \div w, w)

\* Mutant: the areas may overlap either way, and the copy goes up.
memmove_up(mem, dst, src, n) == LET w == Unit(src, dst, n) IN movs(mem, dst, src, n \div w, w, 1)

memmove(mem, dst, src, n) ==
  LET w == Unit(src, dst, n)
  IN IF src < dst /\ src + n > dst
     THEN movs(mem, dst + n - w, src + n - w, n \div w, w, -1)
     ELSE movs(mem, dst, src, n \div w, w, 1)

-----------------------------------------------------------------------------
Bytes(mem, s, n) == [i \in 1..n |-> mem[s + i - 1]]

\* new is mem with the bytes of str at d.
Holds(new, mem, d, str) ==
  new = [i \in DOMAIN mem |-> IF i \in d..(d + Len(str) - 1) THEN str[i - d + 1] ELSE mem[i]]

\* memmove copies whatever the overlap and the alignment; memset fills.
MoveRight(mem, p, q, n) == Holds(memmove(mem, p, q, n), mem, p, Bytes(mem, q, n))
SetRight(mem, p, c, n) == Holds(memset(mem, p, c, n), mem, p, [i \in 1..n |-> c])
=============================================================================
