------------------------------- MODULE Strings ------------------------------
(***************************************************************************)
(* The strings of lib/string.c in the memory of module Memory.  The        *)
(* argument of strtol is a sequence of characters.                         *)
(***************************************************************************)
EXTENDS Memory, Calls, FiniteSets, SequencesExt

NULL == -1

\* A loop that moves on by a byte as long as its test holds, for max turns at
\* most: where it stops.  go has the offsets at which the test holds.
move_on(go, i) == IF i \in go THEN i + 1 ELSE i
scan(go, max) ==
  LET at[k \in 0..max] == IF k = 0 THEN 0 ELSE move_on(go, at[k - 1])
  IN at[max]

\* Memory is 0..(Extent(mem) - 1); no string at s is longer than what is behind
\* s, which bounds the loops that have no bound of their own.
Extent(mem) == Cardinality(DOMAIN mem)
Behind(mem, s) == Extent(mem) - s

strnlen(mem, s, size) == scan({i \in 0..(size - 1) : mem[s + i] # 0}, size)

\* The same loop without the bound.
strlen(mem, s) == strnlen(mem, s, Behind(mem, s))

\* *dst++ = *src++, whose value is last.
copy_byte(x) == [mem |-> [x.mem EXCEPT ![x.dst] = x.mem[x.src]], dst |-> x.dst + 1, src |-> x.src + 1,
                 last |-> x.mem[x.src]]
Copying(mem, dst, src) == [mem |-> mem, dst |-> dst, src |-> src, last |-> -1]

copy_on(x) == IF x.last = 0 THEN x ELSE copy_byte(x)
strcpy(mem, dst, src) ==
  LET x[k \in 0..Behind(mem, src)] == IF k = 0 THEN Copying(mem, dst, src) ELSE copy_on(x[k - 1])
  IN x[Behind(mem, src)].mem

strcat(mem, dst, src) == strcpy(mem, dst + strlen(mem, dst), src)

\* src stays on the NUL.
pad_byte(x) == IF x.mem[x.src] # 0 THEN copy_byte(x) ELSE [copy_byte(x) EXCEPT !.src = x.src]
strncpy(mem, dst, src, size) ==
  LET x[k \in 0..size] == IF k = 0 THEN Copying(mem, dst, src) ELSE pad_byte(x[k - 1])
  IN x[size].mem

\* The memory and the number of bytes copied.
copy_some(x) == IF x.mem[x.src] = 0 THEN x ELSE copy_byte(x)
strlcpy(mem, dst, src, size) ==
  LET x[k \in 0..(size - 1)] == IF k = 0 THEN Copying(mem, dst, src) ELSE copy_some(x[k - 1])
      end == x[size - 1]
  IN IF size = 0 THEN <<mem, 0>> ELSE <<[end.mem EXCEPT ![end.dst] = 0], end.dst - dst>>

strncmp(mem, p, q, n) ==
  LET i == scan({j \in 0..(n - 1) : mem[p + j] # 0 /\ mem[p + j] = mem[q + j]}, n)
  IN IF i = n THEN 0 ELSE mem[p + i] - mem[q + i]

strcmp(mem, p, q) == strncmp(mem, p, q, Behind(mem, IF p < q THEN q ELSE p))

strfind(mem, s, c) == s + scan({i \in 0..(Behind(mem, s) - 1) : mem[s + i] \notin {0, c}}, Behind(mem, s))

strchr(mem, s, c) == LET f == strfind(mem, s, c) IN IF mem[f] = 0 THEN NULL ELSE f

memcmp(mem, p, q, n) ==
  LET i == scan({j \in 0..(n - 1) : mem[p + j] = mem[q + j]}, n)
  IN IF i = n THEN 0 ELSE mem[p + i] - mem[q + i]

memfind(mem, s, c, n) == s + scan({i \in 0..(n - 1) : mem[s + i] # c}, n)

Digits == <<"0", "1", "2", "3", "4", "5", "6", "7", "8", "9", "a", "b", "c", "d", "e", "f">>
\* Capital letters count like small ones; letters above f fit no base in use.
digit(c) == IF c \in ToSet(Digits) THEN (CHOOSE i \in 1..16 : Digits[i] = c) - 1
            ELSE IF c = "A" THEN 10 ELSE 99

\* The value of the digits in front, and what follows them.
strtol_digits(s, base) ==
  LET n == scan({i \in 0..(Len(s) - 1) : digit(s[i + 1]) < base}, Len(s))
      val[k \in 0..n] == IF k = 0 THEN 0 ELSE val[k - 1] * base + digit(s[k])
  IN [val |-> val[n], rest |-> SubSeq(s, n + 1, Len(s))]

skip_blanks(s) ==
  SubSeq(s, scan({i \in 0..(Len(s) - 1) : s[i + 1] \in {" ", "TAB"}}, Len(s)) + 1, Len(s))

\* The value and what is left at endptr.
strtol(str, base) ==
  LET b == skip_blanks(str)
      neg == IsPrefix(<<"-">>, b)
      s == IF neg \/ IsPrefix(<<"+">>, b) THEN Tail(b) ELSE b
      hex == base \in {0, 16} /\ IsPrefix(<<"0", "x">>, s)
      oct == ~hex /\ base = 0 /\ IsPrefix(<<"0">>, s)
      r == strtol_digits(IF hex THEN SubSeq(s, 3, Len(s)) ELSE IF oct THEN Tail(s) ELSE s,
                         IF hex THEN 16 ELSE IF oct THEN 8 ELSE IF base = 0 THEN 10 ELSE base)
  IN [val |-> IF neg THEN -r.val ELSE r.val, rest |-> r.rest]

-----------------------------------------------------------------------------
\* The string at s: the bytes before the first NUL.
String(mem, s) ==
  LET n == CHOOSE k \in 0..Cardinality(DOMAIN mem) : mem[s + k] = 0 /\ \A i \in 0..(k - 1) : mem[s + i] # 0
  IN Bytes(mem, s, n)

Sign(n) == IF n < 0 THEN -1 ELSE IF n = 0 THEN 0 ELSE 1
\* -1, 0 or 1: the order of two sequences of bytes, the shorter first.
Order(a, b) ==
  LET d == {i \in 1..(Len(a) + Len(b)) : i > Len(a) \/ i > Len(b) \/ a[i] # b[i]}
      k == CHOOSE i \in d : \A j \in d : i <= j
  IN IF a = b THEN 0 ELSE IF k > Len(a) THEN -1 ELSE IF k > Len(b) THEN 1 ELSE Sign(a[k] - b[k])

\* Where c comes first in the string a, or its length.
FirstIn(a, c, k) == k \in 0..Len(a) /\ (k < Len(a) => a[k + 1] = c) /\ \A i \in 1..k : a[i] # c

Cut(s, k) == [i \in 1..(IF k < Len(s) THEN k ELSE Len(s)) |-> s[i]]

\* The string functions on the strings at p and q; n bounds the ones that take
\* a size.
StringCallsRight(mem, p, q, n) ==
  LET a == String(mem, p)
      b == String(mem, q)
      copy == strlcpy(mem, p, q, n)
      kept == Cut(b, n - 1)
  IN /\ strlen(mem, p) = Len(a) /\ strnlen(mem, p, n) = Len(Cut(a, n))
     /\ Holds(strcpy(mem, p, q), mem, p, Append(b, 0))
     /\ Holds(strcat(mem, p, q), mem, p, Append(a \o b, 0))
     /\ Holds(strncpy(mem, p, q, n), mem, p, [i \in 1..n |-> IF i <= Len(b) THEN b[i] ELSE 0])
     /\ IF n = 0 THEN copy = <<mem, 0>>
        ELSE Holds(copy[1], mem, p, Append(kept, 0)) /\ copy[2] = Len(kept)
     /\ Sign(strcmp(mem, p, q)) = Order(a, b)
     /\ Sign(strncmp(mem, p, q, n)) = Order(Cut(a, n), Cut(b, n))
     /\ \A c \in {1, 2} :
          /\ FirstIn(a, c, strfind(mem, p, c) - p)
          /\ strchr(mem, p, c) = IF \E i \in 1..Len(a) : a[i] = c THEN strfind(mem, p, c) ELSE NULL

\* The memory functions.
MemoryCallsRight(mem, p, q, n) ==
  /\ MoveRight(mem, p, q, n) /\ SetRight(mem, p, 77, n)
  /\ Sign(memcmp(mem, p, q, n)) = Order(Bytes(mem, p, n), Bytes(mem, q, n))
  /\ FirstIn(Bytes(mem, p, n), mem[q], memfind(mem, p, mem[q], n) - p)

\* Memory is made of bytes, and the string at s has k of them.
Byte == 0..255
IsMemory(mem) == Extent(mem) \in Nat /\ mem \in [0..(Extent(mem) - 1) -> Byte]
StringAt(mem, s, k) == s + k < Extent(mem) /\ mem[s + k] = 0 /\ \A i \in 0..(k - 1) : mem[s + i] # 0

\* What the callers see to: both strings end, and p has room, outside the
\* string at q, for both of them and for n bytes.
StringsApart(mem, p, q, n) ==
  /\ IsMemory(mem) /\ p \in Nat /\ q \in Nat /\ n \in Nat
  /\ \E k, l \in 0..Extent(mem) :
       /\ StringAt(mem, p, k) /\ StringAt(mem, q, l)
       /\ p + k + l < Extent(mem) /\ p + n <= Extent(mem)
       /\ \A i \in p..(p + k + l) \cup p..(p + n - 1) : i \notin q..(q + l)

\* Both areas are in memory, and behind q's there is a byte more.
AreasIn(mem, p, q, n) ==
  /\ IsMemory(mem) /\ p \in Nat /\ q \in Nat /\ n \in Nat
  /\ p + n <= Extent(mem) /\ q + n < Extent(mem)

\* The functions of lib/string.c do what their names promise: strings cut and
\* padded at their bounds, compared as sequences of bytes, and memmove right
\* with any overlap and alignment.
StringsRight ==
  /\ call.fn = "string" => StringCallsRight(call.mem, call.p, call.q, call.n)
  /\ call.fn = "memory" => MemoryCallsRight(call.mem, call.p, call.q, call.n)

\* strtol reads the longest run of digits of its base after blanks, a sign and
\* a prefix, and its value is that numeral's.
StrtolRight(str, base) ==
  LET r == strtol(str, base)
      used == SubSeq(str, 1, Len(str) - Len(r.rest))
      lead == SelectLastInSeq(used, LAMBDA c : c \in {" ", "TAB", "+", "-", "x"})
      body == SubSeq(used, lead + 1, Len(used))
      b == IF base # 0 THEN base
           ELSE IF "x" \in ToSet(used) THEN 16 ELSE IF body # <<>> /\ body[1] = "0" THEN 8 ELSE 10
      value == SumFunction([i \in 1..Len(body) |-> digit(body[i]) * b ^ (Len(body) - i)])
  IN /\ str = used \o r.rest
     /\ r.val = IF "-" \in ToSet(used) THEN -value ELSE value
     /\ r.rest # <<>> /\ body # <<>> => digit(r.rest[1]) >= b
=============================================================================
