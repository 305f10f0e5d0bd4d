------------------------------ MODULE Printfmt ------------------------------
(***************************************************************************)
(* vprintfmt of lib/printfmt.c, which also kern/printf.c uses.             *)
(* A format is a sequence of characters ended by "NUL", ap the sequence of *)
(* arguments, and the output the sequence of characters put by putch.  An  *)
(* int has 8 bits here and a long long 16; the text of an error message is *)
(* one character.                                                          *)
(***************************************************************************)
EXTENDS Output

UINT == 2 ^ 8
ULLONG == 2 ^ 16
Unprintable == {"TAB", "LF"}
NullPointer == <<"NULL">>

error_string == <<"unspecified error", "bad environment", "invalid parameter", "out of memory",
                  "out of environments", "segmentation fault", "env is not recving",
                  "unexpected end of file">>

\* An int and a long have the same size.
SizeOf(lflag) == IF lflag >= 2 THEN ULLONG ELSE UINT
getuint(v, lflag) == v % SizeOf(lflag)
getint(v, lflag) ==
  IF getuint(v, lflag) < SizeOf(lflag) \div 2 THEN getuint(v, lflag) ELSE getuint(v, lflag) - SizeOf(lflag)

\* What the flags of a directive set, and the code at process_precision.
NoFlags == [padc |-> " ", width |-> -1, precision |-> -1, lflag |-> 0, altflag |-> FALSE]
process_precision(st, n) == IF st.width < 0 THEN [st EXCEPT !.width = n] ELSE [st EXCEPT !.precision = n]

\* From reswitch to the conversion character, which is fmt[i] of the result.
RECURSIVE reswitch(_, _, _, _)
reswitch(fmt, i, ap, st) ==
  LET c == fmt[i]
      j == CHOOSE k \in i..Len(fmt) : digit(fmt[k]) > 9 /\ \A m \in i..(k - 1) : digit(fmt[m]) <= 9
  IN CASE c = "-" -> reswitch(fmt, i + 1, ap, [st EXCEPT !.padc = "-"])
       [] c = "0" -> reswitch(fmt, i + 1, ap, [st EXCEPT !.padc = "0"])
       [] digit(c) \in 1..9 ->
            reswitch(fmt, j, ap, process_precision(st, strtol_digits(SubSeq(fmt, i, j - 1), 10).val))
       [] c = "*" -> reswitch(fmt, i + 1, Tail(ap), process_precision(st, Head(ap)))
       [] c = "." -> reswitch(fmt, i + 1, ap, IF st.width < 0 THEN [st EXCEPT !.width = 0] ELSE st)
       [] c = "#" -> reswitch(fmt, i + 1, ap, [st EXCEPT !.altflag = TRUE])
       [] c = "l" -> reswitch(fmt, i + 1, ap, [st EXCEPT !.lflag = @ + 1])
       [] OTHER -> [i |-> i, ap |-> ap, st |-> st]

\* The case of %s.
put_string(arg, st) ==
  LET p == IF arg = NullPointer THEN <<"(null)">> ELSE arg
      n == IF st.precision \in 0..(Len(p) - 1) THEN st.precision ELSE Len(p)
      text == [i \in 1..n |-> IF st.altflag /\ p[i] \in Unprintable THEN "?" ELSE p[i]]
  IN IF st.width > 0 /\ st.padc # "-" THEN Fill(st.padc, st.width - n) \o text
     ELSE text \o Fill(" ", st.width - n)

put_error(err) ==
  LET e == IF err < 0 THEN -err ELSE err
  IN IF e \in DOMAIN error_string THEN <<error_string[e]>>
     ELSE <<"error ">> \o printnum(e, 10, -1, " ")

put_number(c, v, st) ==
  LET num == IF c = "d" THEN getint(v, st.lflag) ELSE IF c = "p" THEN v % UINT ELSE getuint(v, st.lflag)
      base == CASE c = "o" -> 8 [] c \in {"p", "x"} -> 16 [] OTHER -> 10
      front == CASE c = "p" -> <<"0", "x">> [] c = "d" /\ num < 0 -> <<"-">> [] OTHER -> <<>>
  IN front \o printnum(IF num < 0 THEN (-num) % ULLONG ELSE num, base, st.width, st.padc)

convert(c, arg, st) ==
  CASE c = "c" -> <<arg>>
    [] c = "e" -> put_error(arg)
    [] c = "s" -> put_string(arg, st)
    [] OTHER -> put_number(c, arg, st)

\* An unknown conversion prints the % and goes back to the character after it.
RECURSIVE vprintfmt(_, _, _)
vprintfmt(fmt, i, ap) ==
  LET d == reswitch(fmt, i + 1, ap, NoFlags)
      c == fmt[d.i]
  IN CASE fmt[i] = "NUL" -> <<>>
       [] fmt[i] \notin {"NUL", "%"} -> <<fmt[i]>> \o vprintfmt(fmt, i + 1, ap)
       [] fmt[i] = "%" /\ c = "%" -> <<c>> \o vprintfmt(fmt, d.i + 1, d.ap)
       [] fmt[i] = "%" /\ c \in {"c", "e", "s", "d", "u", "o", "p", "x"} ->
            convert(c, Head(d.ap), d.st) \o vprintfmt(fmt, d.i + 1, Tail(d.ap))
       [] OTHER -> <<"%">> \o vprintfmt(fmt, i + 1, d.ap)

-----------------------------------------------------------------------------
Value(body, base) == SumFunction([i \in 1..Len(body) |-> digit(body[i]) * base ^ (Len(body) - i)])
Larger(a, b) == IF a > b THEN a ELSE b

\* A number is its sign or 0x, then pad characters up to the width, which does
\* not count the sign, then digits without a leading zero that read back as it.
FilledLeft(field, front, fill, num, base, width) ==
  \E k \in 0..Len(field) :
    LET body == SubSeq(field, Len(front) + k + 1, Len(field))
    IN /\ field = front \o Fill(fill, k) \o body
       /\ Numeral(body, num, base) /\ Value(body, base) = num
       /\ k = Larger(0, width - Len(body))

\* With a blank or a "0" that is how a number should be filled.  With the flag
\* "-", which the code's comment calls a "flag to pad on the right", there is
\* never a blank on the right: the filling is on the left all the same, and of
\* dashes, so that %-3d prints 7 as --7 and the field does not read back as 7.
NumberRight(field, front, num, base, width, padc) ==
  /\ FilledLeft(field, front, padc, num, base, width)
  /\ padc = "-" => Last(field) # " "

\* A string is cut at the precision and filled up to the width, on the left
\* unless the flag is "-".
StringRight(field, arg, width, prec, padc) ==
  LET n == Len(SelectSeq([i \in 1..Len(arg) |-> i], LAMBDA i : prec < 0 \/ i <= prec))
      pad == Larger(0, width - n)
  IN /\ Len(field) = n + pad
     /\ IF padc = "-" THEN IsPrefix(SubSeq(arg, 1, n), field) /\ \A i \in (n + 1)..Len(field) : field[i] = " "
        ELSE IsSuffix(SubSeq(arg, 1, n), field) /\ \A i \in 1..pad : field[i] = padc
=============================================================================
