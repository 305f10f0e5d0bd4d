------------------------------- MODULE Output -------------------------------
(***************************************************************************)
(* printnum of lib/printfmt.c, and where formatted output goes: the buffer *)
(* of vsnprintf, and that of the user's cprintf (lib/printf.c), which      *)
(* sends it by system calls.  out is the sequence of characters put.       *)
(***************************************************************************)
EXTENDS Strings

\* The size of struct printbuf's buf, 256 in the code.
CONSTANT CPRINTF_BUF
ASSUME BufAssumption == CPRINTF_BUF \in Nat /\ CPRINTF_BUF > 1

Fill(c, n) == IF n <= 0 THEN <<>> ELSE [i \in 1..n |-> c]

\* num in each of printnum's calls of itself; the last one has a single digit.
quotients(num, base) ==
  LET q[k \in 0..num] == IF k = 0 THEN num ELSE q[k - 1] \div base
  IN q
last_call(q, base) == CHOOSE k \in DOMAIN q : q[k] < base /\ \A j \in 0..(k - 1) : q[j] >= base

\* The last call pads, and each one puts its digit when it returns.
put_digits(q, base, n) == [i \in 1..(n + 1) |-> Digits[(q[n + 1 - i] % base) + 1]]


printnum(num, base, width, padc) ==
  LET q == quotients(num, base)
      n == last_call(q, base)
  IN Fill(padc, (width - n) - 1) \o put_digits(q, base, n)

\* b = [buf, room, cnt].
sprintputch(b, ch) ==
  [buf |-> IF Len(b.buf) < b.room THEN Append(b.buf, ch) ELSE b.buf, room |-> b.room, cnt |-> b.cnt + 1]

vsnprintf(n, out) ==
  LET b[k \in 0..Len(out)] ==
        IF k = 0 THEN [buf |-> <<>>, room |-> n - 1, cnt |-> 0] ELSE sprintputch(b[k - 1], out[k])
  IN IF n < 1 THEN [ret |-> -3, buf |-> <<>>]      \* -E_INVAL
     ELSE [ret |-> b[Len(out)].cnt, buf |-> Append(b[Len(out)].buf, "NUL")]

\* b = [buf, sent, cnt]; a full buffer is sent, the last byte unused.
putch(b, ch) ==
  LET buf == Append(b.buf, ch)
  IN IF Len(buf) = CPRINTF_BUF - 1 THEN [buf |-> <<>>, sent |-> Append(b.sent, buf), cnt |-> b.cnt + 1]
     ELSE [buf |-> buf, sent |-> b.sent, cnt |-> b.cnt + 1]

vcprintf(out) ==
  LET b[k \in 0..Len(out)] ==
        IF k = 0 THEN [buf |-> <<>>, sent |-> <<>>, cnt |-> 0] ELSE putch(b[k - 1], out[k])
  IN [ret |-> b[Len(out)].cnt, sent |-> Append(b[Len(out)].sent, b[Len(out)].buf)]

-----------------------------------------------------------------------------
\* The bytes of out from a on, w at most.
Piece(out, a, w) == Cut([i \in 1..(Len(out) - a) |-> out[a + i]], w)

\* vsnprintf keeps what fits in front of the NUL and counts everything, and the
\* system calls of cprintf send all of out, in order, w characters each but for
\* the last.
SinksRight(out, n) ==
  LET b == vsnprintf(n, out)
      c == vcprintf(out)
      w == CPRINTF_BUF - 1
  IN /\ n >= 1 => b.ret = Len(out) /\ b.buf = Append(Cut(out, n - 1), "NUL")
     /\ c.ret = Len(out) /\ Len(c.sent) = Len(out) \div w + 1
     /\ \A i \in 1..Len(c.sent) : c.sent[i] = Piece(out, (i - 1) * w, w)

\* Digits of the base without a leading zero, which strtol reads as num.
Numeral(body, num, base) ==
  /\ body # <<>> /\ (Len(body) > 1 => body[1] # "0")
  /\ \A i \in 1..Len(body) : digit(body[i]) < base
  /\ strtol_digits(body, base) = [val |-> num, rest |-> <<>>]

\* printnum puts pad characters up to the width, and the numeral.
PrintnumRight(num, base, width, padc) ==
  LET field == printnum(num, base, width, padc)
  IN \E k \in 0..Len(field) :
       LET body == [i \in 1..(Len(field) - k) |-> field[k + i]]
       IN /\ \A i \in 1..k : field[i] = padc
          /\ k = IF width > Len(body) THEN width - Len(body) ELSE 0
          /\ Numeral(body, num, base)
=============================================================================
