---------------------------- MODULE ConsoleProofs ---------------------------
(***************************************************************************)
(* Proofs about the console: the ring implements a queue, the modifiers    *)
(* follow the keys, the screen is a window on all that was printed, and    *)
(* readline's line stands on it, for rings, lines and screens of any size. *)
(***************************************************************************)
EXTENDS Console, SequenceTheorems, WellFoundedInduction, TLAPS

\* Every character there is.
KbdChars == {"a", "A", "C-a", "LF", "CR", "BS", ".", "KEY_DEL"}
Chars == SerialChars \cup KbdChars \cup {NO, " ", "M", "K"} \cup UNION {Range(s) : s \in Outputs}

\* The ring: indices inside it, characters in it.
Ring ==
  /\ rpos \in 0..(CONSBUFSIZE - 1) /\ wpos \in 0..(CONSBUFSIZE - 1)
  /\ buf \in [0..(CONSBUFSIZE - 1) -> Chars] /\ c \in Chars
  /\ com1 \in SerialChars \cup {NO}

\* The keyboard's bytes.  E0 precedes the i-th byte, or it came before the
\* bytes left and kbd_proc_data has it in its flags.
Bytes == {224, 42, 54, 29, 56, 58, 69, 30, 28, 14, 83, 170, 182, 157, 184, 186, 197, 158, 156, 142, 211}
ShiftBytes == {42, 54, 170, 182}
Modifiers == {"SHIFT", "CTL", "ALT"}
Flags == Modifiers \cup {"E0ESC", "CAPSLOCK", "NUMLOCK"}
Escaped(i) == IF i = 1 THEN "E0ESC" \in shift ELSE kbd[i - 1] = 224
ModifierOf(b) ==
  IF b \in ShiftBytes THEN {"SHIFT"}
  ELSE IF b \in {29, 157} THEN {"CTL"} ELSE IF b \in {56, 184} THEN {"ALT"} ELSE {}

\* The last event of a modifier's keys is the last byte of one of them, which
\* is still to be read, or is in the flags.
Settled(m) ==
  \/ (\A i \in 1..Len(kbd) : m \notin ModifierOf(kbd[i])) /\ (m \in latest <=> m \in shift)
  \/ \E i \in 1..Len(kbd) :
       /\ m \in ModifierOf(kbd[i]) /\ (m \in latest <=> kbd[i] < 128)
       /\ \A j \in 1..Len(kbd) : j > i => m \notin ModifierOf(kbd[j])

\* No shift key's byte follows an E0, which exactly the E0 of a key event under
\* way leaves at the end of the bytes.
Followed ==
  /\ \A i \in 1..Len(kbd) : kbd[i] \in ShiftBytes => ~Escaped(i)
  /\ Escaped(Len(kbd) + 1) <=> sending # <<>>
  /\ \A m \in Modifiers : Settled(m)

Keyboard ==
  /\ kbd \in Seq(Bytes) /\ shift \in SUBSET Flags /\ latest \subseteq Modifiers
  /\ ~lost => Followed

\* The screen d is a window on the roll r, below which the roll is blank.
Display == [buf : [0..(CRT_SIZE - 1) -> Chars], pos : 0..(CRT_SIZE - 1)]
Roll == [text : UNION {[s -> Chars] : s \in SUBSET Nat}, pos : Nat, top : Nat]
Cell(r, i) == LET p == r.top * CRT_COLS + i IN IF p \in DOMAIN r.text THEN r.text[p] ELSE " "
Window(d, r) ==
  /\ d \in Display /\ r \in Roll
  /\ r.pos = r.top * CRT_COLS + d.pos
  /\ \A i \in 0..(CRT_SIZE - 1) : d.buf[i] = Cell(r, i)
  /\ \A p \in DOMAIN r.text : p < r.top * CRT_COLS + CRT_SIZE

crt == [buf |-> crt_buf, pos |-> crt_pos]

\* The line on the screen, and the states in which readline does not run.
Editing ==
  /\ envs \in Nat /\ line \in Seq(Chars) /\ Len(line) < BUFLEN
  /\ pc = "user" => envs > 0
  /\ pc = "line" => envs = 0
  /\ envs > 0 => line = <<>>
  /\ EchoMatchesLine

IInv == Ring /\ Keyboard /\ Window(crt, roll) /\ Editing

-----------------------------------------------------------------------------
\* Every set of numbers has a least one: the induction of this module.
LEMMA Least ==
  ASSUME NEW T, T \subseteq Nat, T # {}
  PROVE  \E n \in T : \A m \in T : n <= m
<1>1. IsWellFoundedOn(OpToRel(<, Nat), Nat)
  BY NatLessThanWellFounded
<1>2. PICK n \in T : \A m \in T : ~(<<m, n>> \in OpToRel(<, Nat))
  BY <1>1, WFMin
<1>3. \A m \in T : ~(m < n)
  BY <1>2 DEF OpToRel
<1>4. QED  BY <1>3


\* Multiples of the number of columns, and the row of a position.
LEMMA MulMono ==
  ASSUME NEW C \in Nat, NEW a \in Int, NEW b \in Int, a <= b
  PROVE  a * C <= b * C
OBVIOUS

LEMMA Distr ==
  ASSUME NEW C \in Int, NEW a \in Int, NEW b \in Int
  PROVE  (a + b) * C = a * C + b * C
OBVIOUS

LEMMA DivDef ==
  ASSUME NEW C \in Nat \ {0}, NEW a \in Nat
  PROVE  /\ a \div C \in Nat /\ (a \div C) * C <= a /\ a < (a \div C) * C + C
OBVIOUS

LEMMA DivUnique ==
  ASSUME NEW C \in Nat \ {0}, NEW a \in Nat, NEW q \in Nat, q * C <= a, a < q * C + C
  PROVE  a \div C = q
<1>1. PICK d \in Nat : d = a \div C /\ d * C <= a /\ a < d * C + C
  BY DivDef
<1>2. ~(d < q)
  <2> SUFFICES ASSUME d < q PROVE FALSE
    OBVIOUS
  <2>1. (d + 1) * C <= q * C
    BY MulMono
  <2>2. (d + 1) * C = d * C + C
    OBVIOUS
  <2>3. d * C \in Int /\ q * C \in Int
    OBVIOUS
  <2>4. QED  BY <1>1, <2>1, <2>2, <2>3
<1>3. ~(q < d)
  <2> SUFFICES ASSUME q < d PROVE FALSE
    OBVIOUS
  <2>1. (q + 1) * C <= d * C
    BY MulMono
  <2>2. (q + 1) * C = q * C + C
    OBVIOUS
  <2>3. d * C \in Int /\ q * C \in Int
    OBVIOUS
  <2>4. QED  BY <1>1, <2>1, <2>2, <2>3
<1>4. QED  BY <1>1, <1>2, <1>3


-----------------------------------------------------------------------------
LEMMA SizeMul ==
  /\ CRT_COLS \in Nat \ {0} /\ CRT_ROWS \in Nat \ {0} /\ CRT_SIZE = CRT_ROWS * CRT_COLS
  /\ CRT_SIZE - CRT_COLS = (CRT_ROWS - 1) * CRT_COLS
BY SizeAssumption DEF CRT_SIZE

LEMMA Sizes ==
  CRT_COLS \in Nat \ {0} /\ CRT_ROWS \in Nat \ {0} /\ CRT_SIZE \in Nat /\ CRT_COLS <= CRT_SIZE
<1>1. CRT_SIZE \in Nat
  BY SizeMul
<1>2. 0 * CRT_COLS <= (CRT_ROWS - 1) * CRT_COLS
  BY SizeMul, MulMono
<1>3. CRT_COLS <= CRT_SIZE
  BY <1>1, <1>2, SizeMul
<1>4. QED  BY <1>1, <1>3, SizeMul

\* A display whose cursor may have just left it.
Full(d, r) ==
  /\ d \in [buf : [0..(CRT_SIZE - 1) -> Chars], pos : 0..CRT_SIZE] /\ r \in Roll
  /\ r.pos = r.top * CRT_COLS + d.pos
  /\ \A i \in 0..(CRT_SIZE - 1) : d.buf[i] = Cell(r, i)
  /\ \A p \in DOMAIN r.text : p < r.top * CRT_COLS + CRT_SIZE

\* scroll() does what the paper does.
LEMMA ScrollFeeds ==
  ASSUME NEW d, NEW r, Full(d, r)
  PROVE  Window(scroll(d), tty_feed(r))
<1>1. /\ d.pos \in 0..CRT_SIZE /\ d.buf \in [0..(CRT_SIZE - 1) -> Chars]
      /\ d \in [buf : [0..(CRT_SIZE - 1) -> Chars], pos : 0..CRT_SIZE]
      /\ r.top \in Nat /\ r.pos \in Nat /\ r.text \in UNION {[s -> Chars] : s \in SUBSET Nat} /\ r \in Roll
  BY DEF Full, Roll
<1>2. PICK base \in Nat : base = r.top * CRT_COLS
  BY <1>1, Sizes
<1>3. (r.top + CRT_ROWS) * CRT_COLS = base + CRT_SIZE
  <2>1. PICK t \in Int, m \in Int : t = r.top /\ m = CRT_ROWS /\ m * CRT_COLS = CRT_SIZE /\ t * CRT_COLS = base
    BY <1>1, <1>2, SizeMul
  <2>2. (t + m) * CRT_COLS = t * CRT_COLS + m * CRT_COLS
    BY SizeMul, Distr
  <2>3. QED  BY <2>1, <2>2
<1>r. PICK row \in Nat : row = r.pos \div CRT_COLS /\ row * CRT_COLS <= r.pos /\ row * CRT_COLS \in Int
  <2>1. r.pos \div CRT_COLS \in Nat /\ (r.pos \div CRT_COLS) * CRT_COLS <= r.pos
    BY <1>1, Sizes, DivDef
  <2>2. PICK row \in Nat : row = r.pos \div CRT_COLS /\ row * CRT_COLS <= r.pos
    BY <2>1
  <2>3. row * CRT_COLS \in Int
    BY Sizes
  <2>4. QED  BY <2>2, <2>3
<1>4. r.pos = base + d.pos
  BY <1>2 DEF Full
<1>5. CASE d.pos < CRT_SIZE
  <2>1. scroll(d) = d /\ d \in Display
    BY <1>1, <1>5, Sizes DEF scroll, Display
  <2>2. ~(row >= r.top + CRT_ROWS)
    <3> SUFFICES ASSUME row >= r.top + CRT_ROWS PROVE FALSE
      OBVIOUS
    <3>1. r.top + CRT_ROWS \in Int /\ r.top + CRT_ROWS <= row
      BY <1>1, Sizes
    <3>2. (r.top + CRT_ROWS) * CRT_COLS <= row * CRT_COLS
      BY <3>1, Sizes, MulMono
    <3>3. base + CRT_SIZE <= r.pos
      BY <1>1, <1>r, <1>3, <3>2, Sizes
    <3>4. QED  BY <1>1, <1>4, <1>5, <3>3, Sizes
  <2>3. tty_feed(r) = r
    <3>1. tty_feed(r) = [r EXCEPT !.top = IF row >= @ + CRT_ROWS THEN (row - CRT_ROWS) + 1 ELSE @]
      BY <1>r DEF tty_feed
    <3>2. QED  BY <1>1, <2>2, <3>1 DEF Roll
  <2>4. QED  BY <2>1, <2>3 DEF Window, Full
<1>6. CASE d.pos = CRT_SIZE
  <2>1. row = r.top + CRT_ROWS
    <3>1. (r.top + CRT_ROWS) * CRT_COLS = r.pos
      BY <1>1, <1>3, <1>4, <1>6
    <3>2. PICK n \in Nat : n = r.top + CRT_ROWS /\ n * CRT_COLS = r.pos
      BY <1>1, <3>1, Sizes
    <3>3. n * CRT_COLS <= r.pos /\ r.pos < n * CRT_COLS + CRT_COLS
      BY <1>1, <3>2, Sizes
    <3>4. QED  BY <1>1, <1>r, <3>2, <3>3, Sizes, DivUnique
  <2>2. tty_feed(r) = [r EXCEPT !.top = r.top + 1]
    <3>1. row >= r.top + CRT_ROWS /\ (row - CRT_ROWS) + 1 = r.top + 1
      BY <1>1, <2>1, Sizes
    <3>2. tty_feed(r) = [r EXCEPT !.top = IF row >= @ + CRT_ROWS THEN (row - CRT_ROWS) + 1 ELSE @]
      BY <1>r DEF tty_feed
    <3>3. QED  BY <1>1, <3>1, <3>2 DEF Roll
  <2>3. PICK q : q = tty_feed(r)
    OBVIOUS
  <2>4. q \in Roll /\ q.text = r.text /\ q.pos = r.pos /\ q.top = r.top + 1
    BY <1>1, <2>2, <2>3 DEF Roll
  <2>5. q.top * CRT_COLS = base + CRT_COLS
    BY <1>1, <1>2, <2>4, Sizes
  <2>6. PICK e : e = scroll(d)
    OBVIOUS
  <2>7. /\ e = [buf |-> [i \in 0..(CRT_SIZE - 1) |-> IF i < CRT_SIZE - CRT_COLS THEN d.buf[i + CRT_COLS] ELSE " "],
                pos |-> d.pos - CRT_COLS]
    <3>1. ~(d.pos < CRT_SIZE)
      BY <1>6, Sizes
    <3>2. QED  BY <2>6, <3>1, Zenon DEF scroll
  <2>8. e.pos = CRT_SIZE - CRT_COLS /\ e.pos \in 0..(CRT_SIZE - 1)
    <3>1. e.pos = d.pos - CRT_COLS
      BY <2>7
    <3>2. QED  BY <1>6, <3>1, Sizes
  <2>9. \A i \in 0..(CRT_SIZE - 1) : e.buf[i] = IF i < CRT_SIZE - CRT_COLS THEN d.buf[i + CRT_COLS] ELSE " "
    BY <2>7
  <2>10. e.buf \in [0..(CRT_SIZE - 1) -> Chars]
    <3>1. \A i \in 0..(CRT_SIZE - 1) : i < CRT_SIZE - CRT_COLS => i + CRT_COLS \in 0..(CRT_SIZE - 1)
      BY Sizes
    <3>2. \A i \in 0..(CRT_SIZE - 1) : (IF i < CRT_SIZE - CRT_COLS THEN d.buf[i + CRT_COLS] ELSE " ") \in Chars
      <4>1. \A j \in 0..(CRT_SIZE - 1) : d.buf[j] \in Chars
        BY <1>1
      <4>2. " " \in Chars
        BY DEF Chars
      <4>3. QED  BY <3>1, <4>1, <4>2
    <3>3. QED  BY <2>7, <3>2
  <2>11. e \in Display
    BY <2>7, <2>8, <2>10 DEF Display
  <2>12. ASSUME NEW i \in 0..(CRT_SIZE - 1) PROVE e.buf[i] = Cell(q, i)
    <3>1. PICK p \in Nat : p = base + CRT_COLS + i /\ p = q.top * CRT_COLS + i
      BY <2>5, Sizes
    <3>2. Cell(q, i) = IF p \in DOMAIN r.text THEN r.text[p] ELSE " "
      BY <2>4, <3>1 DEF Cell
    <3>3. CASE i < CRT_SIZE - CRT_COLS
      <4>1. PICK j \in 0..(CRT_SIZE - 1) : j = i + CRT_COLS
        BY <3>3, Sizes
      <4>2. e.buf[i] = d.buf[j] /\ d.buf[j] = Cell(r, j)
        BY <2>9, <3>3, <4>1 DEF Full
      <4>3. r.top * CRT_COLS + j = p
        BY <1>2, <3>1, <4>1, Sizes
      <4>4. QED  BY <3>2, <4>2, <4>3 DEF Cell
    <3>4. CASE ~(i < CRT_SIZE - CRT_COLS)
      <4>1. e.buf[i] = " "
        BY <2>9, <3>4
      <4>2. ~(p < base + CRT_SIZE)
        BY <3>1, <3>4, Sizes
      <4>3. p \notin DOMAIN r.text
        BY <1>2, <4>2 DEF Full
      <4>4. QED  BY <3>2, <4>1, <4>3
    <3>5. QED  BY <3>3, <3>4
  <2>13. \A p \in DOMAIN q.text : p < q.top * CRT_COLS + CRT_SIZE
    <3>1. \A p \in DOMAIN r.text : p \in Nat /\ p < base + CRT_SIZE
      BY <1>1, <1>2 DEF Full
    <3>2. QED  BY <2>4, <2>5, <3>1, Sizes
  <2>14. q.pos = q.top * CRT_COLS + e.pos
    BY <1>4, <1>6, <2>4, <2>5, <2>8, Sizes
  <2>15. QED  BY <2>3, <2>4, <2>6, <2>11, <2>12, <2>13, <2>14 DEF Window
<1>7. QED  BY <1>1, <1>5, <1>6, Sizes


\* What place() and the teletype's head do with each kind of character.
LEMMA PlaceCases ==
  ASSUME NEW d, NEW ch
  PROVE  /\ ch = "BS" => place(d, ch) =
              IF d.pos > 0 THEN [buf |-> [d.buf EXCEPT ![d.pos - 1] = " "], pos |-> d.pos - 1] ELSE d
         /\ ch = "LF" => place(d, ch) = [d EXCEPT !.pos = ((@ + CRT_COLS) \div CRT_COLS) * CRT_COLS]
         /\ ch = "CR" => place(d, ch) = [d EXCEPT !.pos = (@ \div CRT_COLS) * CRT_COLS]
         /\ ch \notin {"BS", "LF", "CR"} => place(d, ch) = [buf |-> [d.buf EXCEPT ![d.pos] = ch], pos |-> d.pos + 1]
<1>1. CASE ch = "BS"
  BY <1>1, Zenon DEF place
<1>2. CASE ch = "LF"
  BY <1>2, Zenon DEF place
<1>3. CASE ch = "CR"
  BY <1>3, Zenon DEF place
<1>4. CASE ch \notin {"BS", "LF", "CR"}
  BY <1>4, Zenon DEF place
<1>5. QED  BY <1>1, <1>2, <1>3, <1>4

LEMMA MoveCases ==
  ASSUME NEW r, NEW ch
  PROVE  /\ ch = "BS" => tty_move(r, ch) =
              IF r.pos = r.top * CRT_COLS THEN r
              ELSE [r EXCEPT !.text = [q \in DOMAIN r.text \cup {r.pos - 1} |-> IF q = r.pos - 1 THEN " " ELSE r.text[q]],
                             !.pos = @ - 1]
         /\ ch = "LF" => tty_move(r, ch) = [r EXCEPT !.pos = (r.pos \div CRT_COLS + 1) * CRT_COLS]
         /\ ch = "CR" => tty_move(r, ch) = [r EXCEPT !.pos = (r.pos \div CRT_COLS) * CRT_COLS]
         /\ ch \notin {"BS", "LF", "CR"} => tty_move(r, ch) =
              [r EXCEPT !.text = [q \in DOMAIN r.text \cup {r.pos} |-> IF q = r.pos THEN ch ELSE r.text[q]],
                        !.pos = @ + 1]
<1>1. CASE ch = "BS"
  BY <1>1, Zenon DEF tty_move
<1>2. CASE ch = "LF"
  BY <1>2, Zenon DEF tty_move
<1>3. CASE ch = "CR"
  BY <1>3, Zenon DEF tty_move
<1>4. CASE ch \notin {"BS", "LF", "CR"}
  BY <1>4, Zenon DEF tty_move
<1>5. QED  BY <1>1, <1>2, <1>3, <1>4


\* Writing a cell of the display and the same place of the roll.
Marked(d, i, x, n) == [buf |-> [d.buf EXCEPT ![i] = x], pos |-> n]
Inked(r, p, x, m) ==
  [r EXCEPT !.text = [q \in DOMAIN r.text \cup {p} |-> IF q = p THEN x ELSE r.text[q]], !.pos = m]

LEMMA WriteBoth ==
  ASSUME NEW d, NEW r, Window(d, r), NEW i \in 0..(CRT_SIZE - 1), NEW x \in Chars, NEW n \in 0..CRT_SIZE,
         NEW p \in Nat, p = r.top * CRT_COLS + i, NEW m \in Nat, m = r.top * CRT_COLS + n
  PROVE  Full(Marked(d, i, x, n), Inked(r, p, x, m))
<1>1. d.buf \in [0..(CRT_SIZE - 1) -> Chars] /\ r.top \in Nat /\ r \in Roll
  BY DEF Window, Display, Roll
<1>2. PICK base \in Nat : base = r.top * CRT_COLS
  BY <1>1, Sizes
<1>3. PICK S \in SUBSET Nat : r.text \in [S -> Chars]
  BY <1>1 DEF Roll
<1>4. PICK t : t = [q \in DOMAIN r.text \cup {p} |-> IF q = p THEN x ELSE r.text[q]]
  OBVIOUS
<1>5. t \in [S \cup {p} -> Chars] /\ S \cup {p} \in SUBSET Nat /\ DOMAIN r.text = S
  BY <1>3, <1>4
<1>6. t \in UNION {[s -> Chars] : s \in SUBSET Nat}
  BY <1>5
<1>7. PICK e : e = [buf |-> [d.buf EXCEPT ![i] = x], pos |-> n]
  OBVIOUS
<1>8. PICK s : s = [r EXCEPT !.text = t, !.pos = m]
  OBVIOUS
<1>9. s \in Roll /\ s.text = t /\ s.pos = m /\ s.top = r.top
  BY <1>1, <1>6, <1>8 DEF Roll
<1>10. /\ e \in [buf : [0..(CRT_SIZE - 1) -> Chars], pos : 0..CRT_SIZE] /\ e.pos = n
       /\ \A j \in 0..(CRT_SIZE - 1) : e.buf[j] = IF j = i THEN x ELSE d.buf[j]
  BY <1>1, <1>7
<1>11. ASSUME NEW j \in 0..(CRT_SIZE - 1) PROVE e.buf[j] = Cell(s, j)
  <2>1. PICK k \in Nat : k = base + j /\ k = r.top * CRT_COLS + j /\ (k = p <=> j = i)
    BY <1>2, Sizes
  <2>2. Cell(s, j) = IF k \in DOMAIN t THEN t[k] ELSE " "
    BY <1>9, <2>1 DEF Cell
  <2>3. d.buf[j] = IF k \in DOMAIN r.text THEN r.text[k] ELSE " "
    BY <2>1 DEF Window, Cell
  <2>4. (k \in DOMAIN t <=> k = p \/ k \in DOMAIN r.text)
        /\ (k \in DOMAIN t => t[k] = IF k = p THEN x ELSE r.text[k])
    BY <1>4
  <2>5. QED  BY <1>10, <2>1, <2>2, <2>3, <2>4
<1>12. \A k \in DOMAIN t : k < r.top * CRT_COLS + CRT_SIZE
  <2>1. p < base + CRT_SIZE
    BY <1>2, Sizes
  <2>2. \A k \in S : k \in Nat /\ k < base + CRT_SIZE
    BY <1>2, <1>3 DEF Window
  <2>3. QED  BY <1>2, <1>5, <2>1, <2>2
<1>13. Full(e, s)
  BY <1>9, <1>10, <1>11, <1>12 DEF Full
<1>14. QED  BY <1>4, <1>7, <1>8, <1>13 DEF Marked, Inked

LEMMA MoveBoth ==
  ASSUME NEW d, NEW r, Window(d, r), NEW n \in 0..CRT_SIZE, NEW m \in Nat, m = r.top * CRT_COLS + n
  PROVE  Full([d EXCEPT !.pos = n], [r EXCEPT !.pos = m])
<1>1. d \in Display /\ r \in Roll
  BY DEF Window
<1>2. PICK e : e = [d EXCEPT !.pos = n]
  OBVIOUS
<1>3. PICK s : s = [r EXCEPT !.pos = m]
  OBVIOUS
<1>4. e \in [buf : [0..(CRT_SIZE - 1) -> Chars], pos : 0..CRT_SIZE] /\ e.pos = n /\ e.buf = d.buf
  BY <1>1, <1>2 DEF Display
<1>5. s \in Roll /\ s.text = r.text /\ s.top = r.top /\ s.pos = m
  BY <1>1, <1>3 DEF Roll
<1>6. Full(e, s)
  BY <1>4, <1>5 DEF Window, Full, Cell
<1>7. QED  BY <1>2, <1>3, <1>6

\* The row of a position of the display, in the roll.
LEMMA RowOf ==
  ASSUME NEW t \in Nat, NEW n \in 0..(CRT_SIZE - 1)
  PROVE  /\ (t * CRT_COLS + n) \div CRT_COLS = t + (n \div CRT_COLS)
         /\ n \div CRT_COLS \in 0..(CRT_ROWS - 1)
         /\ (n + CRT_COLS) \div CRT_COLS = (n \div CRT_COLS) + 1
<1>1. PICK C \in Nat \ {0}, R \in Nat \ {0}, S \in Nat : C = CRT_COLS /\ R = CRT_ROWS /\ S = CRT_SIZE /\ S = R * C
  BY SizeMul, Sizes
<1>2. n \in Nat /\ n < S
  BY <1>1
<1>3. PICK w \in Nat : w = n \div C /\ w * C <= n /\ n < w * C + C
  BY <1>2, DivDef
<1>4. (t * C + n) \div C = t + w
  <2>1. (t + w) * C = t * C + w * C /\ t * C \in Nat /\ w * C \in Nat
    OBVIOUS
  <2>2. (t + w) * C <= t * C + n /\ t * C + n < (t + w) * C + C /\ t * C + n \in Nat
    BY <1>2, <1>3, <2>1
  <2>3. QED  BY <2>2, DivUnique
<1>5. (n + C) \div C = w + 1
  <2>1. (w + 1) * C = w * C + C /\ w * C \in Nat
    OBVIOUS
  <2>2. (w + 1) * C <= n + C /\ n + C < (w + 1) * C + C /\ n + C \in Nat
    BY <1>2, <1>3, <2>1
  <2>3. QED  BY <2>2, DivUnique
<1>6. w <= R - 1
  <2> SUFFICES ASSUME R <= w PROVE FALSE
    OBVIOUS
  <2>1. R * C <= w * C /\ w * C \in Nat
    BY MulMono
  <2>2. QED  BY <1>1, <1>2, <1>3, <2>1
<1>7. QED  BY <1>1, <1>3, <1>4, <1>5, <1>6


\* A character that is no tab moves cursor and head alike.
LEMMA PlaceMoves ==
  ASSUME NEW d, NEW r, Window(d, r), NEW ch \in Chars
  PROVE  Full(place(d, ch), tty_move(r, ch))
<1>1. /\ d \in Display /\ r \in Roll /\ d.pos \in 0..(CRT_SIZE - 1) /\ r.top \in Nat /\ r.pos \in Nat
      /\ r.pos = r.top * CRT_COLS + d.pos
  BY DEF Window, Display, Roll
<1>2. PICK base \in Nat : base = r.top * CRT_COLS
  BY <1>1, Sizes
<1>3. r.pos = base + d.pos
  BY <1>1, <1>2
<1>4. PICK w \in 0..(CRT_ROWS - 1) :
        /\ w = d.pos \div CRT_COLS /\ r.pos \div CRT_COLS = r.top + w
        /\ (d.pos + CRT_COLS) \div CRT_COLS = w + 1
  BY <1>1, RowOf
<1>5. CASE ch = "BS" /\ d.pos > 0
  <2>1. place(d, ch) = [buf |-> [d.buf EXCEPT ![d.pos - 1] = " "], pos |-> d.pos - 1]
    BY <1>5, PlaceCases
  <2>2. r.pos # r.top * CRT_COLS
    BY <1>1, <1>2, <1>3, <1>5
  <2>3. tty_move(r, ch) =
          [r EXCEPT !.text = [q \in DOMAIN r.text \cup {r.pos - 1} |-> IF q = r.pos - 1 THEN " " ELSE r.text[q]],
                    !.pos = @ - 1]
    BY <1>5, <2>2, MoveCases
  <2>4. PICK i \in 0..(CRT_SIZE - 1) : i = d.pos - 1 /\ i \in 0..CRT_SIZE
    BY <1>1, <1>5, Sizes
  <2>5. PICK p \in Nat : p = r.pos - 1 /\ p = r.top * CRT_COLS + i
    BY <1>1, <1>2, <1>3, <1>5, <2>4
  <2>6. " " \in Chars
    BY DEF Chars
  <2>7. Full(Marked(d, i, " ", i), Inked(r, p, " ", p))
    BY <2>4, <2>5, <2>6, WriteBoth
  <2>8. tty_move(r, ch) = Inked(r, p, " ", p)
    BY <1>1, <2>3, <2>5 DEF Roll, Inked
  <2>9. place(d, ch) = Marked(d, i, " ", i)
    BY <2>1, <2>4 DEF Marked
  <2>10. QED  BY <2>7, <2>8, <2>9
<1>6. CASE ch = "BS" /\ ~(d.pos > 0)
  <2>1. d.pos = 0 /\ r.pos = r.top * CRT_COLS
    BY <1>1, <1>2, <1>6
  <2>2. place(d, ch) = d /\ tty_move(r, ch) = r
    BY <1>6, <2>1, PlaceCases, MoveCases
  <2>3. d \in [buf : [0..(CRT_SIZE - 1) -> Chars], pos : 0..CRT_SIZE]
    BY <1>1, Sizes DEF Display
  <2>4. QED  BY <2>2, <2>3 DEF Window, Full
<1>7. CASE ch = "LF"
  <2>1. place(d, ch) = [d EXCEPT !.pos = ((@ + CRT_COLS) \div CRT_COLS) * CRT_COLS]
    BY <1>7, PlaceCases
  <2>2. tty_move(r, ch) = [r EXCEPT !.pos = (r.pos \div CRT_COLS + 1) * CRT_COLS]
    BY <1>7, MoveCases
  <2>3. PICK n \in 0..CRT_SIZE : n = (w + 1) * CRT_COLS
    <3>1. (w + 1) * CRT_COLS <= CRT_ROWS * CRT_COLS
      BY SizeMul, MulMono
    <3>2. (w + 1) * CRT_COLS \in Nat
      BY SizeMul
    <3>3. QED  BY <3>1, <3>2, SizeMul
  <2>4. PICK m \in Nat : m = base + n /\ m = ((r.top + w) + 1) * CRT_COLS
    <3>1. ((r.top + w) + 1) * CRT_COLS = r.top * CRT_COLS + (w + 1) * CRT_COLS
      <4>1. PICK t \in Int, v \in Int : t = r.top /\ v = w + 1
        BY <1>1
      <4>2. (t + v) * CRT_COLS = t * CRT_COLS + v * CRT_COLS
        BY SizeMul, Distr
      <4>3. (r.top + w) + 1 = t + v
        BY <1>1, <4>1
      <4>4. QED  BY <4>1, <4>2, <4>3
    <3>2. QED  BY <1>2, <2>3, <3>1, Sizes
  <2>5. Full([d EXCEPT !.pos = n], [r EXCEPT !.pos = m])
    BY <1>2, <2>4, MoveBoth
  <2>6. place(d, ch) = [d EXCEPT !.pos = n]
    BY <1>1, <1>4, <2>1, <2>3 DEF Display
  <2>7. tty_move(r, ch) = [r EXCEPT !.pos = m]
    BY <1>4, <2>2, <2>4
  <2>8. QED  BY <2>5, <2>6, <2>7
<1>8. CASE ch = "CR"
  <2>1. place(d, ch) = [d EXCEPT !.pos = (@ \div CRT_COLS) * CRT_COLS]
    BY <1>8, PlaceCases
  <2>2. tty_move(r, ch) = [r EXCEPT !.pos = (r.pos \div CRT_COLS) * CRT_COLS]
    BY <1>8, MoveCases
  <2>3. PICK n \in 0..CRT_SIZE : n = w * CRT_COLS
    <3>1. w * CRT_COLS <= CRT_ROWS * CRT_COLS
      BY SizeMul, MulMono
    <3>2. w * CRT_COLS \in Nat
      BY SizeMul
    <3>3. QED  BY <3>1, <3>2, SizeMul
  <2>4. PICK m \in Nat : m = base + n /\ m = (r.top + w) * CRT_COLS
    <3>1. (r.top + w) * CRT_COLS = r.top * CRT_COLS + w * CRT_COLS
      <4>1. PICK t \in Int : t = r.top
        BY <1>1
      <4>2. (t + w) * CRT_COLS = t * CRT_COLS + w * CRT_COLS
        BY SizeMul, Distr
      <4>3. QED  BY <4>1, <4>2
    <3>2. QED  BY <1>2, <2>3, <3>1, Sizes
  <2>5. Full([d EXCEPT !.pos = n], [r EXCEPT !.pos = m])
    BY <1>2, <2>4, MoveBoth
  <2>6. place(d, ch) = [d EXCEPT !.pos = n]
    BY <1>1, <1>4, <2>1, <2>3 DEF Display
  <2>7. tty_move(r, ch) = [r EXCEPT !.pos = m]
    BY <1>4, <2>2, <2>4
  <2>8. QED  BY <2>5, <2>6, <2>7
<1>9. CASE ch \notin {"BS", "LF", "CR"}
  <2>1. place(d, ch) = [buf |-> [d.buf EXCEPT ![d.pos] = ch], pos |-> d.pos + 1]
    BY <1>9, PlaceCases
  <2>2. tty_move(r, ch) =
          [r EXCEPT !.text = [q \in DOMAIN r.text \cup {r.pos} |-> IF q = r.pos THEN ch ELSE r.text[q]], !.pos = @ + 1]
    BY <1>9, MoveCases
  <2>3. PICK i \in 0..(CRT_SIZE - 1), n \in 0..CRT_SIZE : i = d.pos /\ n = d.pos + 1
    BY <1>1, Sizes
  <2>4. PICK p \in Nat, m \in Nat :
          p = r.pos /\ p = r.top * CRT_COLS + i /\ m = r.pos + 1 /\ m = r.top * CRT_COLS + n
    BY <1>1, <1>2, <1>3, <2>3
  <2>5. Full(Marked(d, i, ch, n), Inked(r, p, ch, m))
    BY <2>3, <2>4, WriteBoth
  <2>6. tty_move(r, ch) = Inked(r, p, ch, m)
    BY <1>1, <2>2, <2>4 DEF Roll, Inked
  <2>7. place(d, ch) = Marked(d, i, ch, n)
    BY <2>1, <2>3 DEF Marked
  <2>8. QED  BY <2>5, <2>6, <2>7
<1>10. QED  BY <1>5, <1>6, <1>7, <1>8, <1>9

LEMMA PutKeeps ==
  ASSUME NEW d, NEW r, Window(d, r), NEW ch \in Chars
  PROVE  Window(scroll(place(d, ch)), tty_putc(r, ch))
BY PlaceMoves, ScrollFeeds DEF tty_putc

LEMMA PutcKeeps ==
  ASSUME NEW d, NEW r, Window(d, r), NEW ch \in Chars
  PROVE  Window(cga_putc(d, ch), tty_type(r, ch))
<1>1. CASE ch # "TAB"
  BY <1>1, PutKeeps DEF cga_putc, tty_type
<1>2. CASE ch = "TAB"
  <2>0. " " \in Chars
    BY DEF Chars
  <2>1. PICK d1, r1 : d1 = scroll(place(d, " ")) /\ r1 = tty_putc(r, " ") /\ Window(d1, r1)
    BY <2>0, PutKeeps
  <2>2. PICK d2, r2 : d2 = scroll(place(d1, " ")) /\ r2 = tty_putc(r1, " ") /\ Window(d2, r2)
    BY <2>0, <2>1, PutKeeps
  <2>3. PICK d3, r3 : d3 = scroll(place(d2, " ")) /\ r3 = tty_putc(r2, " ") /\ Window(d3, r3)
    BY <2>0, <2>2, PutKeeps
  <2>4. PICK d4, r4 : d4 = scroll(place(d3, " ")) /\ r4 = tty_putc(r3, " ") /\ Window(d4, r4)
    BY <2>0, <2>3, PutKeeps
  <2>5. PICK d5, r5 : d5 = scroll(place(d4, " ")) /\ r5 = tty_putc(r4, " ") /\ Window(d5, r5)
    BY <2>0, <2>4, PutKeeps
  <2>6. scroll(d5) = d5
    <3>1. d5.pos < CRT_SIZE
      <4>1. d5 \in Display
        BY <2>5 DEF Window
      <4>2. QED  BY <4>1, Sizes DEF Display
    <3>2. QED  BY <3>1 DEF scroll
  <2>7. cga_putc(d, ch) = d5 /\ tty_type(r, ch) = r5
    BY <1>2, <2>1, <2>2, <2>3, <2>4, <2>5, <2>6, Zenon DEF cga_putc, tty_type
  <2>8. QED  BY <2>5, <2>7
<1>3. QED  BY <1>1, <1>2


-----------------------------------------------------------------------------
\* The recursive function of printed exists.
LEMMA PrintedSteps ==
  ASSUME NEW x, NEW s, NEW n \in Nat
  PROVE  \E f : f = [i \in 0..n |-> IF i = 0 THEN x ELSE print(f[i - 1], s[i])]
<1> DEFINE Is(f, k) == f = [i \in 0..k |-> IF i = 0 THEN x ELSE print(f[i - 1], s[i])]
           T == {k \in Nat : ~\E f : Is(f, k)}
<1> SUFFICES T = {}
  OBVIOUS
<1> SUFFICES ASSUME T # {} PROVE FALSE
  OBVIOUS
<1>1. PICK k \in T : \A m \in T : k <= m
  <2>1. T \subseteq Nat
    OBVIOUS
  <2> HIDE DEF T
  <2>2. QED  BY <2>1, Least
<1>2. k \in Nat /\ ~\E f : Is(f, k)
  OBVIOUS
<1>3. CASE k = 0
  <2>1. Is([i \in 0..0 |-> x], 0)
    OBVIOUS
  <2>2. QED  BY <1>2, <1>3, <2>1
<1>4. CASE k # 0
  <2>1. k - 1 \in Nat /\ k - 1 \notin T
    BY <1>1, <1>2, <1>4
  <2>2. PICK f : Is(f, k - 1)
    BY <2>1
  <2>3. PICK g : g = [i \in 0..k |-> IF i = k THEN print(f[k - 1], s[k]) ELSE f[i]]
    OBVIOUS
  <2>4. ASSUME NEW i \in 0..k PROVE g[i] = IF i = 0 THEN x ELSE print(g[i - 1], s[i])
    <3>1. CASE i = 0
      <4>1. g[0] = f[0] /\ f[0] = x
        BY <1>2, <1>4, <2>2, <2>3
      <4>2. QED  BY <3>1, <4>1
    <3>2. CASE i # 0
      <4>1. i - 1 \in 0..k /\ i - 1 \in 0..(k - 1) /\ i - 1 # k
        BY <1>2, <3>2
      <4>2. g[i - 1] = f[i - 1]
        BY <2>3, <4>1
      <4>3. CASE i = k
        BY <2>3, <3>2, <4>2, <4>3
      <4>4. CASE i # k
        <5>1. i \in 0..(k - 1)
          BY <1>2, <4>4
        <5>2. g[i] = f[i] /\ f[i] = print(f[i - 1], s[i])
          BY <2>2, <2>3, <3>2, <4>4, <5>1
        <5>3. QED  BY <3>2, <4>2, <5>2
      <4>5. QED  BY <4>3, <4>4
    <3>3. QED  BY <3>1, <3>2
  <2>5. Is(g, k)
    BY <2>3, <2>4
  <2>6. QED  BY <1>2, <2>5
<1>5. QED  BY <1>3, <1>4

LEMMA PrintedDef ==
  ASSUME NEW x, NEW s, Len(s) \in Nat
  PROVE  \E f : /\ f = [i \in 0..Len(s) |-> IF i = 0 THEN x ELSE print(f[i - 1], s[i])]
                /\ printed(x, s) = f[Len(s)]
<1> DEFINE f == CHOOSE f : f = [i \in 0..Len(s) |-> IF i = 0 THEN x ELSE print(f[i - 1], s[i])]
<1>1. f = [i \in 0..Len(s) |-> IF i = 0 THEN x ELSE print(f[i - 1], s[i])]
  BY PrintedSteps
<1>2. printed(x, s) = f[Len(s)]
  BY Zenon DEF printed
<1>3. QED  BY <1>1, <1>2


\* Whatever is printed, the screen stays a window on the roll; its last
\* character is put on a screen that is one.
LEMMA Prints ==
  ASSUME Window(crt, roll), NEW s \in Seq(Chars), cputs(s)
  PROVE  /\ Window(crt', roll')
         /\ s # <<>> => \E d, r : /\ Window(d, r) /\ crt' = cga_putc(d, s[Len(s)])
                                  /\ Len(s) = 1 => d = crt
<1>1. PICK n \in Nat : n = Len(s) /\ (s # <<>> => n \in 1..n) /\ \A i \in 1..n : s[i] \in Chars
  <2>1. PICK n \in Nat : n = Len(s)
    OBVIOUS
  <2>2. s # <<>> => n # 0
    BY <2>1, EmptySeq
  <2>3. \A i \in 1..n : s[i] \in Chars
    BY <2>1, ElementOfSeq
  <2>4. QED  BY <2>1, <2>2, <2>3
<1>2. PICK x : x = [screen |-> crt, roll |-> roll]
  OBVIOUS
<1>3. PICK f : /\ f = [i \in 0..n |-> IF i = 0 THEN x ELSE print(f[i - 1], s[i])]
               /\ printed(x, s) = f[n]
  BY <1>1, PrintedDef
<1>4. \A i \in 0..n : f[i] = IF i = 0 THEN x ELSE print(f[i - 1], s[i])
  BY <1>3
<1>5. \A i \in 0..n : Window(f[i].screen, f[i].roll)
  <2> DEFINE T == {i \in 0..n : ~Window(f[i].screen, f[i].roll)}
  <2> SUFFICES ASSUME T # {} PROVE FALSE
    OBVIOUS
  <2>1. PICK k \in T : \A m \in T : k <= m
    <3>1. T \subseteq Nat
      OBVIOUS
    <3> HIDE DEF T
    <3>2. QED  BY <3>1, Least
  <2>2. k \in 0..n /\ ~Window(f[k].screen, f[k].roll)
    OBVIOUS
  <2>3. CASE k = 0
    BY <1>2, <1>4, <2>2, <2>3
  <2>4. CASE k # 0
    <3>1. k - 1 \in 0..n /\ k - 1 \notin T /\ k \in 1..n
      BY <2>1, <2>2, <2>4
    <3>2. Window(f[k - 1].screen, f[k - 1].roll) /\ s[k] \in Chars
      BY <1>1, <3>1
    <3>3. f[k] = print(f[k - 1], s[k])
      BY <1>4, <2>2, <2>4
    <3>4. f[k].screen = cga_putc(f[k - 1].screen, s[k]) /\ f[k].roll = tty_type(f[k - 1].roll, s[k])
      BY <3>3 DEF print
    <3>5. QED  BY <2>2, <3>2, <3>4, PutcKeeps
  <2>5. QED  BY <2>3, <2>4
<1>6. f[n].screen \in Display /\ Window(f[n].screen, f[n].roll)
  BY <1>5 DEF Window
<1>7. crt' = f[n].screen /\ roll' = f[n].roll
  <2>1. crt_buf' = f[n].screen.buf /\ crt_pos' = f[n].screen.pos /\ roll' = f[n].roll
    BY <1>2, <1>3 DEF cputs, crt
  <2>2. f[n].screen = [buf |-> f[n].screen.buf, pos |-> f[n].screen.pos]
    BY <1>6 DEF Display
  <2>3. QED  BY <2>1, <2>2 DEF crt
<1>8. ASSUME s # <<>>
      PROVE  \E d, r : Window(d, r) /\ crt' = cga_putc(d, s[Len(s)]) /\ (Len(s) = 1 => d = crt)
  <2>1. n \in 1..n /\ n - 1 \in 0..n /\ n # 0 /\ n \in 0..n
    BY <1>1, <1>8
  <2>2. f[n] = print(f[n - 1], s[n])
    BY <1>4, <2>1
  <2>3. f[n].screen = cga_putc(f[n - 1].screen, s[n])
    BY <2>2 DEF print
  <2>4. n = 1 => f[n - 1].screen = crt
    BY <1>2, <1>4, <2>1
  <2>5. Window(f[n - 1].screen, f[n - 1].roll)
    BY <1>5, <2>1
  <2>6. QED  BY <1>1, <1>7, <2>3, <2>4, <2>5
<1>9. QED  BY <1>6, <1>7, <1>8


-----------------------------------------------------------------------------
\* The tables, at the codes a byte can have.
LEMMA Tables ==
  ASSUME NEW d
  PROVE  /\ shiftcode(d) = IF d \in {29, 157} THEN {"CTL"} ELSE IF d \in {42, 54} THEN {"SHIFT"}
                           ELSE IF d \in {56, 184} THEN {"ALT"} ELSE {}
         /\ togglecode(d) \subseteq {"CAPSLOCK", "NUMLOCK"}
         /\ normalmap(d) \in KbdChars \cup {NO} /\ ctlmap(d) \in KbdChars \cup {NO}
<1>1. togglecode(d) \subseteq {"CAPSLOCK", "NUMLOCK"}
  BY DEF togglecode
<1>2. normalmap(d) \in KbdChars \cup {NO}
  BY DEF normalmap, KbdChars
<1>3. ctlmap(d) \in KbdChars \cup {NO}
  BY DEF ctlmap, KbdChars
<1>4. shiftcode(d) = IF d \in {29, 157} THEN {"CTL"} ELSE IF d \in {42, 54} THEN {"SHIFT"}
                     ELSE IF d \in {56, 184} THEN {"ALT"} ELSE {}
  BY DEF shiftcode
<1>5. QED  BY <1>1, <1>2, <1>3, <1>4

LEMMA DecodedChar ==
  ASSUME NEW flags, NEW d
  PROVE  capslock(flags, charcode(flags, d)) \in KbdChars \cup {NO}
<1>1. shiftmap(d) \in KbdChars \cup {NO}
  BY Tables DEF shiftmap, KbdChars
<1>2. charcode(flags, d) \in KbdChars \cup {NO}
  BY <1>1, Tables DEF charcode
<1>3. ASSUME NEW x \in KbdChars \cup {NO} PROVE capslock(flags, x) \in KbdChars \cup {NO}
  BY <1>3 DEF capslock, KbdChars
<1>4. QED  BY <1>2, <1>3

\* What kbd_proc_data does with a byte; with modifiers it is right if no E0
\* precedes a shift key's byte.
Plain(flags, b) == b \in ShiftBytes => "E0ESC" \notin flags
Decoded(r, flags, b) ==
  /\ r.c \in KbdChars \cup {NO} /\ r.shift \in SUBSET Flags
  /\ ("E0ESC" \in r.shift <=> b = 224)
  /\ Plain(flags, b) =>
       \A m \in Modifiers : m \in r.shift <=> IF m \in ModifierOf(b) THEN b < 128 ELSE m \in flags

LEMMA Decode ==
  ASSUME NEW flags \in SUBSET Flags, NEW b \in Bytes, NEW r, r = kbd_decode(flags, b)
  PROVE  Decoded(r, flags, b)
<1>1. PICK d \in Int : /\ d = (CASE b >= 128 -> IF "E0ESC" \in flags THEN b ELSE b - 128
                                 [] OTHER -> IF "E0ESC" \in flags THEN b + 128 ELSE b)
                       /\ b # 224 /\ Plain(flags, b) => shiftcode(d) = ModifierOf(b)
  <2>1. CASE b >= 128
    BY <2>1, Tables DEF Bytes, ModifierOf, ShiftBytes, Plain
  <2>2. CASE ~(b >= 128)
    BY <2>2, Tables DEF Bytes, ModifierOf, ShiftBytes, Plain
  <2>3. QED  BY <2>1, <2>2
<1>2. CASE b = 224
  <2>1. r = [shift |-> flags \cup {"E0ESC"}, c |-> NO]
    BY <1>2 DEF kbd_decode
  <2>2. r.shift = flags \cup {"E0ESC"} /\ r.c = NO
    BY <2>1
  <2>3. ModifierOf(b) = {}
    BY <1>2 DEF ModifierOf, ShiftBytes
  <2>4. \A m \in Modifiers : m \in r.shift <=> m \in flags
    BY <2>2 DEF Modifiers
  <2>5. r.shift \in SUBSET Flags
    BY <2>2 DEF Flags
  <2>6. QED  BY <1>2, <2>2, <2>3, <2>4, <2>5 DEF Decoded
<1>3. CASE b # 224 /\ b >= 128
  <2>1. r = [shift |-> flags \ (shiftcode(d) \cup {"E0ESC"}), c |-> NO]
    BY <1>1, <1>3 DEF kbd_decode
  <2>2. r.shift = flags \ (shiftcode(d) \cup {"E0ESC"}) /\ r.c = NO
    BY <2>1
  <2>3. ~(b < 128) /\ "E0ESC" \notin r.shift
    BY <1>3, <2>2 DEF Bytes
  <2>4. ASSUME Plain(flags, b), NEW m \in Modifiers
        PROVE  m \in r.shift <=> IF m \in ModifierOf(b) THEN b < 128 ELSE m \in flags
    BY <1>1, <1>3, <2>2, <2>3, <2>4 DEF Modifiers
  <2>5. QED  BY <1>3, <2>2, <2>3, <2>4 DEF Decoded
<1>4. CASE b # 224 /\ ~(b >= 128)
  <2>1. PICK down : down = (flags \ {"E0ESC"}) \cup shiftcode(d)
    OBVIOUS
  <2>2. PICK toggled : toggled = (down \ togglecode(d)) \cup (togglecode(d) \ down)
    OBVIOUS
  <2>3. r = [shift |-> toggled, c |-> capslock(toggled, charcode(toggled, d))]
    BY <1>1, <1>4, <2>1, <2>2 DEF kbd_decode
  <2>4. r.c \in KbdChars \cup {NO} /\ r.shift = toggled
    BY <2>3, DecodedChar
  <2>5. toggled \in SUBSET Flags /\ "E0ESC" \notin toggled
    <3>1. shiftcode(d) \subseteq Modifiers
      BY Tables DEF Modifiers
    <3>2. togglecode(d) \subseteq {"CAPSLOCK", "NUMLOCK"}
      BY Tables
    <3>3. down \in SUBSET Flags /\ "E0ESC" \notin down
      BY <2>1, <3>1 DEF Flags, Modifiers
    <3>4. QED  BY <2>2, <3>2, <3>3 DEF Flags
  <2>6. \A m \in Modifiers : m \in toggled <=> m \in down
    BY <2>2, Tables DEF Modifiers
  <2>7. ASSUME Plain(flags, b), NEW m \in Modifiers PROVE m \in down <=> m \in ModifierOf(b) \/ m \in flags
    BY <1>1, <1>4, <2>1, <2>7 DEF Modifiers
  <2>8. b < 128
    BY <1>4 DEF Bytes
  <2>9. QED  BY <1>4, <2>4, <2>5, <2>6, <2>7, <2>8 DEF Decoded
<1>5. QED  BY <1>2, <1>3, <1>4


\* The bytes of a key, and the modifier they stand for.
LEMMA KeyBytes ==
  ASSUME NEW k \in Keys, NEW b, b \in {KeyCode[k][2], KeyCode[k][2] + 128}
  PROVE  /\ b \in Bytes /\ b # 224 /\ (b < 128 <=> b = KeyCode[k][2])
         /\ KeyCode[k][1] => b \notin ShiftBytes
         /\ ModifierOf(b) = IF k \in DOMAIN Modifier THEN {Modifier[k]} ELSE {}
         /\ k \in DOMAIN Modifier => Modifier[k] \in Modifiers
<1>1. k \in {"LSHIFT", "RSHIFT", "LCTL", "RCTL", "LALT", "RALT", "CAPS", "NUM", "A", "ENTER", "BACKSPACE", "DEL"}
  BY KeyAssumption DEF KeyCode
<1>2. CASE k \in {"LSHIFT", "RSHIFT", "LCTL", "RCTL"}
  <2>1. CASE k = "LSHIFT"
    BY <2>1 DEF KeyCode, Bytes, ShiftBytes, ModifierOf, Modifier, Modifiers
  <2>2. CASE k = "RSHIFT"
    BY <2>2 DEF KeyCode, Bytes, ShiftBytes, ModifierOf, Modifier, Modifiers
  <2>3. CASE k = "LCTL"
    BY <2>3 DEF KeyCode, Bytes, ShiftBytes, ModifierOf, Modifier, Modifiers
  <2>4. CASE k = "RCTL"
    BY <2>4 DEF KeyCode, Bytes, ShiftBytes, ModifierOf, Modifier, Modifiers
  <2>5. QED  BY <1>2, <2>1, <2>2, <2>3, <2>4
<1>3. CASE k \in {"LALT", "RALT", "CAPS", "NUM"}
  BY <1>3 DEF KeyCode, Bytes, ShiftBytes, ModifierOf, Modifier, Modifiers
<1>4. CASE k \in {"A", "ENTER", "BACKSPACE", "DEL"}
  BY <1>4 DEF KeyCode, Bytes, ShiftBytes, ModifierOf, Modifier, Modifiers
<1>5. QED  BY <1>1, <1>2, <1>3, <1>4

\* The keyboard sends the byte b, the n-th, to which its event has come.
Sent(b, n) ==
  /\ b \in Bytes /\ n \in Nat \ {0} /\ n - 1 = Len(kbd) /\ n = Len(kbd')
  /\ kbd' \in Seq(Bytes) /\ (\A i \in 1..(n - 1) : kbd'[i] = kbd[i]) /\ kbd'[n] = b
  /\ shift' = shift /\ lost' = lost /\ latest' \subseteq Modifiers
  /\ \A m \in Modifiers : m \in latest' <=> IF m \in ModifierOf(b) THEN b < 128 ELSE m \in latest
  /\ b \in ShiftBytes => sending = <<>>
  /\ sending' # <<>> <=> b = 224

LEMMA KeyboardGrows ==
  ASSUME Keyboard, NEW b, NEW n, Sent(b, n)
  PROVE  Keyboard'
<1> USE DEF Sent
<1>1. CASE lost
  BY <1>1 DEF Keyboard
<1>2. CASE ~lost
  <2>0. Followed /\ n \in 1..n /\ (n - 1) + 1 = n /\ (n + 1) - 1 = n /\ n + 1 # 1
    BY <1>2 DEF Keyboard
  <2>1. \A i \in 1..n : i \in 1..(n - 1) \/ i = n
    OBVIOUS
  <2>2. ASSUME NEW i \in 1..n PROVE Escaped(i)' <=> Escaped(i)
    <3>1. i = 1 \/ (i # 1 /\ i - 1 \in 1..(n - 1))
      OBVIOUS
    <3>2. QED  BY <3>1 DEF Escaped
  <2>3. ASSUME NEW i \in 1..n, kbd'[i] \in ShiftBytes PROVE ~Escaped(i)'
    <3>1. CASE i \in 1..(n - 1)
      BY <2>0, <2>2, <2>3, <3>1 DEF Followed
    <3>2. CASE i = n
      <4>1. ~Escaped(n)
        BY <2>0, <2>3, <3>2 DEF Followed
      <4>2. QED  BY <2>2, <3>2, <4>1
    <3>3. QED  BY <2>1, <3>1, <3>2
  <2>4. Escaped(n + 1)' <=> sending' # <<>>
    BY <2>0 DEF Escaped
  <2>5. ASSUME NEW m \in Modifiers PROVE Settled(m)'
    <3>0. Settled(m)
      BY <2>0 DEF Followed
    <3>1. CASE m \in ModifierOf(b)
      <4>1. \A j \in 1..n : ~(j > n)
        OBVIOUS
      <4>2. m \in latest' <=> kbd'[n] < 128
        BY <3>1
      <4>3. QED  BY <2>0, <3>1, <4>1, <4>2 DEF Settled
    <3>2. CASE m \notin ModifierOf(b)
      <4>1. m \in latest' <=> m \in latest
        BY <3>2
      <4>2. CASE (\A i \in 1..(n - 1) : m \notin ModifierOf(kbd[i])) /\ (m \in latest <=> m \in shift)
        <5>1. \A i \in 1..n : m \notin ModifierOf(kbd'[i])
          BY <2>1, <3>2, <4>2
        <5>2. QED  BY <4>1, <4>2, <5>1 DEF Settled
      <4>3. CASE \E i \in 1..(n - 1) : /\ m \in ModifierOf(kbd[i]) /\ (m \in latest <=> kbd[i] < 128)
                                       /\ \A j \in 1..(n - 1) : j > i => m \notin ModifierOf(kbd[j])
        <5>1. PICK i \in 1..(n - 1) : /\ m \in ModifierOf(kbd[i]) /\ (m \in latest <=> kbd[i] < 128)
                                      /\ \A j \in 1..(n - 1) : j > i => m \notin ModifierOf(kbd[j])
          BY <4>3
        <5>2. i \in 1..n /\ m \in ModifierOf(kbd'[i]) /\ (m \in latest' <=> kbd'[i] < 128)
          BY <4>1, <5>1
        <5>3. \A j \in 1..n : j > i => m \notin ModifierOf(kbd'[j])
          BY <2>1, <3>2, <5>1
        <5>4. QED  BY <5>2, <5>3 DEF Settled
      <4>4. QED  BY <3>0, <4>2, <4>3 DEF Settled
    <3>3. QED  BY <3>1, <3>2
  <2>6. Followed'
    BY <2>3, <2>4, <2>5 DEF Followed
  <2>7. QED  BY <2>6 DEF Keyboard
<1>3. QED  BY <1>1, <1>2

\* kbd_proc_data reads a byte.
LEMMA KeyboardReads ==
  ASSUME Keyboard, kbd # <<>>, NEW r, r = kbd_decode(shift, Head(kbd)),
         shift' = r.shift, kbd' = Tail(kbd), UNCHANGED <<sending, latest, lost>>
  PROVE  Keyboard' /\ r.c \in KbdChars \cup {NO}
<1>1. PICK n \in Nat : n = Len(kbd) /\ n # 0 /\ n \in 1..n /\ 1 \in 1..n
  <2>1. PICK n \in Nat : n = Len(kbd) /\ n # 0
    BY EmptySeq DEF Keyboard
  <2>2. QED  BY <2>1
<1>2. /\ kbd' \in Seq(Bytes) /\ Len(kbd') = n - 1 /\ \A i \in 1..(n - 1) : kbd'[i] = kbd[i + 1]
      /\ kbd[1] \in Bytes /\ Head(kbd) = kbd[1]
  BY <1>1, HeadTailProperties DEF Keyboard
<1>3. PICK b \in Bytes : b = kbd[1] /\ (Followed => Plain(shift, b))
  BY <1>1, <1>2 DEF Followed, Escaped, Plain
<1>4. /\ r.c \in KbdChars \cup {NO} /\ shift' \in SUBSET Flags /\ ("E0ESC" \in shift' <=> b = 224)
      /\ Followed =>
           \A m \in Modifiers : m \in shift' <=> IF m \in ModifierOf(b) THEN b < 128 ELSE m \in shift
  <2>1. PICK flags \in SUBSET Flags : flags = shift
    BY DEF Keyboard
  <2>2. r = kbd_decode(flags, b)
    BY <1>2, <1>3, <2>1
  <2>3. Decoded(r, flags, b)
    BY <2>2, Decode
  <2>4. QED  BY <1>3, <2>1, <2>3 DEF Decoded
<1>5. \A i \in 1..n : Escaped(i)' <=> Escaped(i + 1)
  <2> SUFFICES ASSUME NEW i \in 1..n PROVE Escaped(i)' <=> Escaped(i + 1)
    OBVIOUS
  <2>1. i + 1 # 1 /\ (i + 1) - 1 = i
    OBVIOUS
  <2>2. CASE i = 1
    BY <1>3, <1>4, <2>1, <2>2 DEF Escaped
  <2>3. CASE i # 1
    <3>1. i - 1 \in 1..(n - 1) /\ (i - 1) + 1 = i
      BY <2>3
    <3>2. kbd'[i - 1] = kbd[i]
      BY <1>2, <3>1
    <3>3. Escaped(i + 1) <=> kbd[i] = 224
      BY <2>1 DEF Escaped
    <3>4. Escaped(i)' <=> kbd'[i - 1] = 224
      BY <2>3 DEF Escaped
    <3>5. QED  BY <2>1, <3>2, <3>3, <3>4
  <2>4. QED  BY <2>1, <2>2, <2>3
<1>6. CASE lost
  BY <1>2, <1>4, <1>6 DEF Keyboard
<1>7. CASE ~lost
  <2>0. Followed
    BY <1>7 DEF Keyboard
  <2>1. \A i \in 1..(n - 1) : i \in 1..n /\ i + 1 \in 1..n /\ (kbd'[i] \in ShiftBytes => ~Escaped(i)')
    <3> SUFFICES ASSUME NEW i \in 1..(n - 1)
                 PROVE  i \in 1..n /\ i + 1 \in 1..n /\ (kbd'[i] \in ShiftBytes => ~Escaped(i)')
      OBVIOUS
    <3>1. i \in 1..n /\ i + 1 \in 1..n
      OBVIOUS
    <3>2. kbd'[i] = kbd[i + 1] /\ (Escaped(i)' <=> Escaped(i + 1))
      BY <1>2, <1>5, <3>1
    <3>3. QED  BY <1>1, <2>0, <3>1, <3>2 DEF Followed
  <2>2. (Escaped(Len(kbd) + 1) <=> sending # <<>>)'
    <3>1. Len(kbd') + 1 = n
      BY <1>1, <1>2
    <3>2. Escaped(n)' <=> Escaped(n + 1)
      BY <1>1, <1>5
    <3>3. Escaped(n + 1) <=> sending # <<>>
      BY <1>1, <2>0 DEF Followed
    <3>4. QED  BY <3>1, <3>2, <3>3
  <2>3. ASSUME NEW m \in Modifiers PROVE Settled(m)'
    <3>0. /\ Settled(m)
          /\ m \in shift' <=> IF m \in ModifierOf(b) THEN b < 128 ELSE m \in shift
      BY <1>4, <2>0 DEF Followed
    <3>1. CASE (\A i \in 1..n : m \notin ModifierOf(kbd[i])) /\ (m \in latest <=> m \in shift)
      <4>1. m \notin ModifierOf(b) /\ \A i \in 1..(n - 1) : m \notin ModifierOf(kbd'[i])
        BY <1>1, <1>2, <1>3, <2>1, <3>1
      <4>2. m \in latest' <=> m \in shift'
        BY <3>0, <3>1, <4>1
      <4>3. QED  BY <1>2, <4>1, <4>2 DEF Settled
    <3>2. CASE \E i \in 1..n : /\ m \in ModifierOf(kbd[i]) /\ (m \in latest <=> kbd[i] < 128)
                               /\ \A j \in 1..n : j > i => m \notin ModifierOf(kbd[j])
      <4>1. PICK i \in 1..n : /\ m \in ModifierOf(kbd[i]) /\ (m \in latest <=> kbd[i] < 128)
                              /\ \A j \in 1..n : j > i => m \notin ModifierOf(kbd[j])
        BY <3>2
      <4>2. CASE i = 1
        <5>1. \A j \in 1..(n - 1) : m \notin ModifierOf(kbd'[j])
          <6> SUFFICES ASSUME NEW j \in 1..(n - 1) PROVE m \notin ModifierOf(kbd'[j])
            OBVIOUS
          <6>1. j + 1 \in 1..n /\ j + 1 > i
            BY <4>2
          <6>2. QED  BY <1>2, <4>1, <6>1
        <5>2. m \in latest' <=> m \in shift'
          BY <1>3, <3>0, <4>1, <4>2
        <5>3. QED  BY <1>2, <5>1, <5>2 DEF Settled
      <4>3. CASE i # 1
        <5>1. PICK k \in 1..(n - 1) : k = i - 1 /\ kbd'[k] = kbd[i]
          BY <1>2, <4>3
        <5>2. \A j \in 1..(n - 1) : j > k => m \notin ModifierOf(kbd'[j])
          <6> SUFFICES ASSUME NEW j \in 1..(n - 1), j > k PROVE m \notin ModifierOf(kbd'[j])
            OBVIOUS
          <6>1. j + 1 \in 1..n /\ j + 1 > i
            BY <5>1
          <6>2. QED  BY <1>2, <4>1, <6>1
        <5>3. QED  BY <1>2, <4>1, <5>1, <5>2 DEF Settled
      <4>4. QED  BY <4>2, <4>3
    <3>3. QED  BY <1>1, <3>0, <3>1, <3>2 DEF Settled
  <2>4. Followed'
    BY <1>2, <2>1, <2>2, <2>3 DEF Followed
  <2>5. QED  BY <1>2, <1>4, <2>4 DEF Keyboard
<1>8. QED  BY <1>4, <1>6, <1>7


-----------------------------------------------------------------------------
\* The ring as a sequence: how many characters there are and where they lie.
Held(r, w) == IF r <= w THEN w - r ELSE (w - r) + CONSBUFSIZE
Slot(i) == IF i < CONSBUFSIZE THEN i ELSE i - CONSBUFSIZE
Index == 0..(CONSBUFSIZE - 1)
Unread(b, r, w) == [i \in 1..Held(r, w) |-> b[Slot((r + i) - 1)]]

LEMMA UnreadIs == unread = Unread(buf, rpos, wpos) /\ unread' = Unread(buf', rpos', wpos')
BY Zenon DEF unread, Unread, Held, Slot

LEMMA UnreadSeq ==
  ASSUME NEW r \in Index, NEW w \in Index, NEW b \in [Index -> Chars]
  PROVE  \E n \in Nat, s \in Seq(Chars) :
           /\ n = Held(r, w) /\ n <= CONSBUFSIZE - 1 /\ s = Unread(b, r, w) /\ Len(s) = n
           /\ \A i \in 1..n : Slot((r + i) - 1) \in Index /\ s[i] = b[Slot((r + i) - 1)]
<1>1. CONSBUFSIZE \in Nat /\ CONSBUFSIZE > 1
  BY SizeAssumption
<1>2. PICK n \in Nat : n = Held(r, w) /\ n <= CONSBUFSIZE - 1
  <2>1. Held(r, w) \in Nat /\ Held(r, w) <= CONSBUFSIZE - 1
    BY <1>1 DEF Held, Index
  <2>2. QED  BY <2>1
<1>3. \A i \in 1..n : Slot((r + i) - 1) \in Index
  BY <1>1, <1>2 DEF Slot, Index
<1>4. PICK s : s = Unread(b, r, w)
  OBVIOUS
<1>5. s \in [1..n -> Chars] /\ \A i \in 1..n : s[i] = b[Slot((r + i) - 1)]
  BY <1>2, <1>3, <1>4 DEF Unread
<1>6. s \in Seq(Chars) /\ Len(s) = n
  BY <1>5
<1>7. QED  BY <1>2, <1>3, <1>4, <1>5, <1>6, Zenon

\* cons_intr's store is a Put, or empties the ring when it is full.
Following(i) == IF i + 1 = CONSBUFSIZE THEN 0 ELSE i + 1
Stored(b, w, ch) == [b EXCEPT ![w] = ch]
LEMMA RingPut ==
  ASSUME NEW r \in Index, NEW w \in Index, NEW b \in [Index -> Chars], NEW ch \in Chars
  PROVE  /\ Following(w) \in Index /\ Stored(b, w, ch) \in [Index -> Chars]
         /\ Unread(Stored(b, w, ch), r, Following(w)) =
              IF Len(Unread(b, r, w)) = CONSBUFSIZE - 1 THEN <<>> ELSE Append(Unread(b, r, w), ch)
<1> DEFINE v == Following(w)
           a == Stored(b, w, ch)
<1>0. v = (IF w + 1 = CONSBUFSIZE THEN 0 ELSE w + 1) /\ a = [b EXCEPT ![w] = ch]
  BY DEF Following, Stored
<1> SUFFICES /\ v \in Index /\ a \in [Index -> Chars]
             /\ Unread(a, r, v) =
                  IF Len(Unread(b, r, w)) = CONSBUFSIZE - 1 THEN <<>> ELSE Append(Unread(b, r, w), ch)
  OBVIOUS
<1> HIDE DEF v, a
<1> USE <1>0
<1>1. CONSBUFSIZE \in Nat /\ CONSBUFSIZE > 1
  BY SizeAssumption
<1>2. v \in Index /\ a \in [Index -> Chars]
  BY <1>1 DEF Index
<1>3. PICK n \in Nat, s \in Seq(Chars) :
        /\ n = Held(r, w) /\ n <= CONSBUFSIZE - 1 /\ s = Unread(b, r, w) /\ Len(s) = n
        /\ \A i \in 1..n : Slot((r + i) - 1) \in Index /\ s[i] = b[Slot((r + i) - 1)]
  BY UnreadSeq
<1>4. PICK m \in Nat, t \in Seq(Chars) :
        /\ m = Held(r, v) /\ m <= CONSBUFSIZE - 1 /\ t = Unread(a, r, v) /\ Len(t) = m
        /\ \A i \in 1..m : Slot((r + i) - 1) \in Index /\ t[i] = a[Slot((r + i) - 1)]
  BY ONLY <1>2, r \in Index, UnreadSeq, Zenon
<1>5. CASE n = CONSBUFSIZE - 1
  <2>1. m = 0
    BY <1>1, <1>3, <1>4, <1>5 DEF Held, Index
  <2>2. t = <<>>
    BY <1>4, <2>1, EmptySeq
  <2>3. QED  BY <1>2, <1>3, <1>4, <1>5, <2>2
<1>6. CASE n # CONSBUFSIZE - 1
  <2>1. m = n + 1 /\ Slot((r + m) - 1) = w
    BY <1>1, <1>3, <1>4, <1>6 DEF Held, Slot, Index
  <2>2. \A i \in 1..n : Slot((r + i) - 1) # w
    BY <1>1, <1>3 DEF Held, Slot, Index
  <2>3. PICK u \in Seq(Chars) : /\ u = Append(s, ch) /\ Len(u) = n + 1 /\ u[n + 1] = ch
                                /\ \A i \in 1..n : u[i] = s[i]
    <3>1. /\ Append(s, ch) \in Seq(Chars) /\ Len(Append(s, ch)) = n + 1 /\ Append(s, ch)[n + 1] = ch
          /\ \A i \in 1..n : Append(s, ch)[i] = s[i]
      BY <1>3, AppendProperties
    <3>2. QED  BY <3>1
  <2>4. ASSUME NEW i \in 1..m PROVE t[i] = u[i]
    <3>1. CASE i \in 1..n
      BY <1>3, <1>4, <2>2, <2>3, <3>1
    <3>2. CASE i = m
      BY <1>4, <2>1, <2>3, <3>2
    <3>3. QED  BY <2>1, <3>1, <3>2
  <2>5. t = u
    BY <1>4, <2>1, <2>3, <2>4, SeqEqual
  <2>6. QED  BY <1>2, <1>3, <1>4, <1>6, <2>3, <2>5
<1>7. QED  BY <1>5, <1>6

\* cons_getc's load is a Get.
LEMMA RingGet ==
  ASSUME NEW r \in Index, NEW w \in Index, NEW b \in [Index -> Chars], r # w,
         NEW q, q = IF r + 1 = CONSBUFSIZE THEN 0 ELSE r + 1
  PROVE  /\ q \in Index /\ b[r] \in Chars /\ Unread(b, r, w) # <<>> /\ b[r] = Head(Unread(b, r, w))
         /\ Unread(b, q, w) = Tail(Unread(b, r, w))
<1>1. CONSBUFSIZE \in Nat /\ CONSBUFSIZE > 1
  BY SizeAssumption
<1>2. q \in Index /\ b[r] \in Chars
  BY <1>1 DEF Index
<1>3. PICK n \in Nat, s \in Seq(Chars) :
        /\ n = Held(r, w) /\ n <= CONSBUFSIZE - 1 /\ s = Unread(b, r, w) /\ Len(s) = n
        /\ \A i \in 1..n : Slot((r + i) - 1) \in Index /\ s[i] = b[Slot((r + i) - 1)]
  BY UnreadSeq
<1>4. PICK m \in Nat, t \in Seq(Chars) :
        /\ m = Held(q, w) /\ m <= CONSBUFSIZE - 1 /\ t = Unread(b, q, w) /\ Len(t) = m
        /\ \A i \in 1..m : Slot((q + i) - 1) \in Index /\ t[i] = b[Slot((q + i) - 1)]
  BY <1>2, UnreadSeq
<1>5. n = m + 1 /\ Slot((r + 1) - 1) = r /\ \A i \in 1..m : Slot((q + i) - 1) = Slot((r + (i + 1)) - 1)
  BY <1>1, <1>3, <1>4 DEF Held, Slot, Index
<1>6. s # <<>> /\ s[1] = b[r]
  <2>1. 1 \in 1..n
    BY <1>5
  <2>2. QED  BY <1>3, <1>5, <2>1
<1>7. PICK u \in Seq(Chars) : /\ u = Tail(s) /\ Len(u) = n - 1 /\ Head(s) = s[1]
                              /\ \A i \in 1..(n - 1) : u[i] = s[i + 1]
  <2>1. /\ Tail(s) \in Seq(Chars) /\ Len(Tail(s)) = n - 1 /\ \A i \in 1..(n - 1) : Tail(s)[i] = s[i + 1]
    BY <1>3, <1>6, HeadTailProperties
  <2>2. Head(s) = s[1]
    OBVIOUS
  <2>3. QED  BY <2>1, <2>2
<1>8. n - 1 = m
  BY <1>5
<1>9. ASSUME NEW i \in 1..m PROVE t[i] = u[i]
  <2>1. i + 1 \in 1..n
    BY <1>5
  <2>2. s[i + 1] = b[Slot((r + (i + 1)) - 1)]
    BY <1>3, <2>1
  <2>3. QED  BY <1>4, <1>5, <1>7, <1>8, <2>2
<1>10. t = u
  BY <1>4, <1>7, <1>8, <1>9, SeqEqual
<1>11. QED  BY <1>2, <1>3, <1>4, <1>6, <1>7, <1>10


-----------------------------------------------------------------------------
\* The prompt and the line l stand before the cursor of d.
Echo(d, l) ==
  /\ d.pos > Len(l) /\ d.buf[(d.pos - Len(l)) - 1] = "K"
  /\ \A i \in DOMAIN l : d.buf[((d.pos - Len(l)) + i) - 1] = l[i]

LEMMA LineRoom == BUFLEN \in Nat \ {0} /\ BUFLEN + 1 <= CRT_SIZE - CRT_COLS
BY LineFits, SizeAssumption, SizeMul

\* Scrolling moves the line and the cursor together.
LEMMA EchoScroll ==
  ASSUME NEW d \in [buf : [0..(CRT_SIZE - 1) -> Chars], pos : 0..CRT_SIZE],
         NEW l \in Seq(Chars), Len(l) < BUFLEN, Echo(d, l)
  PROVE  Echo(scroll(d), l)
<1>1. PICK n \in Nat : n = Len(l) /\ n < BUFLEN /\ DOMAIN l = 1..n
  OBVIOUS
<1>2. CASE d.pos < CRT_SIZE
  BY <1>2 DEF scroll
<1>3. CASE ~(d.pos < CRT_SIZE)
  <2>1. d.pos = CRT_SIZE /\ d.pos \in Int
    BY <1>3, Sizes
  <2>2. PICK e : e = scroll(d)
    OBVIOUS
  <2>3. e = [buf |-> [i \in 0..(CRT_SIZE - 1) |-> IF i < CRT_SIZE - CRT_COLS THEN d.buf[i + CRT_COLS] ELSE " "],
             pos |-> d.pos - CRT_COLS]
    BY <1>3, <2>2, Zenon DEF scroll
  <2>4. e.pos = CRT_SIZE - CRT_COLS
    <3>1. e.pos = d.pos - CRT_COLS
      BY <2>3
    <3>2. QED  BY <2>1, <3>1
  <2>5. \A i \in 0..(CRT_SIZE - 1) : i < CRT_SIZE - CRT_COLS => e.buf[i] = d.buf[i + CRT_COLS]
    BY <2>3
  <2>6. ASSUME NEW j \in 0..n PROVE e.buf[((e.pos - n) + j) - 1] = d.buf[((d.pos - n) + j) - 1]
    <3>1. PICK k \in 0..(CRT_SIZE - 1) : k = ((e.pos - n) + j) - 1 /\ k < CRT_SIZE - CRT_COLS
      <4>1. CRT_SIZE \in Int /\ CRT_COLS \in Int /\ CRT_COLS >= 0 /\ n < CRT_SIZE - CRT_COLS
        BY <1>1, Sizes, LineRoom
      <4>2. PICK k \in Int : k = ((e.pos - n) + j) - 1
        BY <2>4, <4>1
      <4>3. k >= 0 /\ k < CRT_SIZE - CRT_COLS
        BY <2>4, <4>1, <4>2
      <4>4. k \in 0..(CRT_SIZE - 1)
        BY <4>1, <4>3
      <4>5. QED  BY <4>2, <4>3, <4>4
    <3>2. k + CRT_COLS = ((d.pos - n) + j) - 1
      BY <2>1, <2>4, <3>1, Sizes
    <3>3. e.buf[k] = d.buf[k + CRT_COLS]
      BY <2>5, <3>1
    <3>4. QED  BY <3>1, <3>2, <3>3, Zenon
  <2>7. e.buf[(e.pos - n) - 1] = "K"
    <3>1. /\ ((e.pos - n) + 0) - 1 = (e.pos - n) - 1 /\ ((d.pos - n) + 0) - 1 = (d.pos - n) - 1
      BY <2>1, <2>4, Sizes
    <3>2. e.buf[((e.pos - n) + 0) - 1] = d.buf[((d.pos - n) + 0) - 1]
      BY <2>6
    <3>3. d.buf[(d.pos - n) - 1] = "K"
      BY <1>1 DEF Echo
    <3>4. QED  BY <3>1, <3>2, <3>3, Zenon
  <2>8. e.pos > n
    BY <1>1, <2>4, Sizes, LineRoom
  <2>9. ASSUME NEW i \in 1..n PROVE e.buf[((e.pos - n) + i) - 1] = l[i]
    <3>1. i \in 0..n
      OBVIOUS
    <3>2. e.buf[((e.pos - n) + i) - 1] = d.buf[((d.pos - n) + i) - 1]
      BY <2>6, <3>1
    <3>3. d.buf[((d.pos - n) + i) - 1] = l[i]
      BY <1>1 DEF Echo
    <3>4. QED  BY <3>2, <3>3, Zenon
  <2>10. QED  BY <1>1, <2>2, <2>7, <2>8, <2>9 DEF Echo
<1>4. QED  BY <1>2, <1>3

LEMMA PutPlain ==
  ASSUME NEW d \in Display, NEW ch \in Chars \ {"BS", "LF", "CR", "TAB"}
  PROVE  \E e \in [buf : [0..(CRT_SIZE - 1) -> Chars], pos : 0..CRT_SIZE] :
           /\ cga_putc(d, ch) = scroll(e) /\ e.pos = d.pos + 1 /\ e.buf[d.pos] = ch
           /\ \A i \in 0..(CRT_SIZE - 1) : i # d.pos => e.buf[i] = d.buf[i]
<1>1. d.pos \in 0..(CRT_SIZE - 1) /\ d.buf \in [0..(CRT_SIZE - 1) -> Chars] /\ d.pos + 1 \in 0..CRT_SIZE
  BY Sizes DEF Display
<1>2. ch \notin {"BS", "LF", "CR"} /\ ch # "TAB"
  OBVIOUS
<1>3. place(d, ch) = [buf |-> [d.buf EXCEPT ![d.pos] = ch], pos |-> d.pos + 1]
  BY <1>2, PlaceCases
<1>4. PICK e : e = place(d, ch)
  OBVIOUS
<1>5. cga_putc(d, ch) = scroll(e)
  BY <1>2, <1>4, Zenon DEF cga_putc
<1>6. e.pos = d.pos + 1 /\ e.buf = [d.buf EXCEPT ![d.pos] = ch]
  BY <1>3, <1>4
<1>7. e \in [buf : [0..(CRT_SIZE - 1) -> Chars], pos : 0..CRT_SIZE]
  BY <1>1, <1>3, <1>4
<1>8. QED  BY <1>1, <1>5, <1>6, <1>7

LEMMA EchoInsert ==
  ASSUME NEW d \in Display, NEW l \in Seq(Chars), Len(l) + 1 < BUFLEN, Echo(d, l),
         NEW ch \in Chars \ {"BS", "LF", "CR", "TAB"}
  PROVE  Echo(cga_putc(d, ch), Append(l, ch))
<1>1. PICK n \in Nat : n = Len(l) /\ n + 1 < BUFLEN /\ DOMAIN l = 1..n
  OBVIOUS
<1>2. PICK e \in [buf : [0..(CRT_SIZE - 1) -> Chars], pos : 0..CRT_SIZE] :
        /\ cga_putc(d, ch) = scroll(e) /\ e.pos = d.pos + 1 /\ e.buf[d.pos] = ch
        /\ \A i \in 0..(CRT_SIZE - 1) : i # d.pos => e.buf[i] = d.buf[i]
  BY PutPlain
<1>3. PICK k \in Seq(Chars) : /\ k = Append(l, ch) /\ Len(k) = n + 1 /\ k[n + 1] = ch
                              /\ (\A i \in 1..n : k[i] = l[i]) /\ DOMAIN k = 1..(n + 1)
  <2>1. /\ Append(l, ch) \in Seq(Chars) /\ Len(Append(l, ch)) = n + 1 /\ Append(l, ch)[n + 1] = ch
        /\ \A i \in 1..n : Append(l, ch)[i] = l[i]
    BY <1>1, AppendProperties
  <2>2. DOMAIN Append(l, ch) = 1..(n + 1)
    BY <2>1
  <2>3. QED  BY <2>1, <2>2
<1>4. PICK p \in 0..(CRT_SIZE - 1) : p = d.pos /\ p > n
  BY <1>1 DEF Display, Echo
<1>5. ASSUME NEW j \in 0..n PROVE e.buf[((e.pos - (n + 1)) + j) - 1] = d.buf[((d.pos - n) + j) - 1]
  <2>1. PICK i \in 0..(CRT_SIZE - 1) : i = ((p - n) + j) - 1 /\ i # p
    <3>1. CRT_SIZE \in Int /\ p \in Int /\ p < CRT_SIZE
      BY Sizes
    <3>2. PICK i \in Int : i = ((p - n) + j) - 1
      BY <3>1
    <3>3. i >= 0 /\ i < p
      BY <1>4, <3>1, <3>2
    <3>4. QED  BY <3>1, <3>2, <3>3
  <2>2. ((e.pos - (n + 1)) + j) - 1 = i /\ ((d.pos - n) + j) - 1 = i
    BY <1>2, <1>4, <2>1, Sizes, SMTT(30)
  <2>3. e.buf[i] = d.buf[i]
    BY <1>2, <1>4, <2>1
  <2>4. QED  BY <2>2, <2>3, Zenon
<1>6. e.buf[(e.pos - (n + 1)) - 1] = "K"
  <2>1. ((e.pos - (n + 1)) + 0) - 1 = (e.pos - (n + 1)) - 1 /\ ((d.pos - n) + 0) - 1 = (d.pos - n) - 1
    BY <1>2, <1>4, Sizes
  <2>2. e.buf[((e.pos - (n + 1)) + 0) - 1] = d.buf[((d.pos - n) + 0) - 1]
    BY <1>5
  <2>3. d.buf[(d.pos - n) - 1] = "K"
    BY <1>1 DEF Echo
  <2>4. QED  BY <2>1, <2>2, <2>3, Zenon
<1>7. ASSUME NEW i \in 1..(n + 1) PROVE e.buf[((e.pos - (n + 1)) + i) - 1] = k[i]
  <2>1. CASE i = n + 1
    <3>1. ((e.pos - (n + 1)) + i) - 1 = d.pos
      BY <1>2, <1>4, <2>1, Sizes
    <3>2. QED  BY <1>2, <1>3, <2>1, <3>1
  <2>2. CASE i \in 1..n
    <3>1. i \in 0..n
      BY <2>2
    <3>2. e.buf[((e.pos - (n + 1)) + i) - 1] = d.buf[((d.pos - n) + i) - 1]
      BY <1>5, <3>1
    <3>3. d.buf[((d.pos - n) + i) - 1] = l[i]
      BY <1>1, <2>2 DEF Echo
    <3>4. k[i] = l[i]
      BY <1>3, <2>2
    <3>5. QED  BY <3>2, <3>3, <3>4, Zenon
  <2>3. QED  BY <2>1, <2>2
<1>8. e.pos > n + 1
  BY <1>2, <1>4
<1>9. Echo(e, k)
  BY <1>3, <1>6, <1>7, <1>8 DEF Echo
<1>10. Len(k) < BUFLEN
  BY <1>1, <1>3
<1>11. QED  BY <1>2, <1>3, <1>9, <1>10, EchoScroll

LEMMA EchoPrompt ==
  ASSUME NEW d \in Display
  PROVE  Echo(cga_putc(d, "K"), <<>>)
<1>1. "K" \in Chars \ {"BS", "LF", "CR", "TAB"}
  BY DEF Chars
<1>2. PICK e \in [buf : [0..(CRT_SIZE - 1) -> Chars], pos : 0..CRT_SIZE] :
        cga_putc(d, "K") = scroll(e) /\ e.pos = d.pos + 1 /\ e.buf[d.pos] = "K"
  BY <1>1, PutPlain
<1>3. d.pos \in Nat /\ e.pos > 0 /\ (e.pos - 0) - 1 = d.pos
  BY <1>2, Sizes DEF Display
<1>4. Echo(e, <<>>)
  BY <1>2, <1>3 DEF Echo
<1>5. <<>> \in Seq(Chars) /\ Len(<<>>) < BUFLEN
  BY LineRoom
<1>6. QED  BY <1>2, <1>4, <1>5, EchoScroll

LEMMA EchoErase ==
  ASSUME NEW d \in Display, NEW l \in Seq(Chars), l # <<>>, Echo(d, l)
  PROVE  /\ Echo(cga_putc(d, "BS"), Front(l)) /\ Front(l) \in Seq(Chars)
         /\ Len(Front(l)) \in Nat /\ Len(Front(l)) < Len(l)
<1>1. PICK n \in Nat : n = Len(l) /\ n # 0 /\ DOMAIN l = 1..n
  BY EmptySeq
<1>2. d.pos \in 0..(CRT_SIZE - 1) /\ d.pos > n /\ d.buf \in [0..(CRT_SIZE - 1) -> Chars]
  BY <1>1 DEF Display, Echo
<1>3. PICK p \in 0..(CRT_SIZE - 1) : p = d.pos - 1 /\ p < d.pos /\ p >= n
  BY <1>1, <1>2, Sizes
<1>4. PICK e : e = cga_putc(d, "BS")
  OBVIOUS
<1>5. e.pos = p /\ \A i \in 0..(CRT_SIZE - 1) : i # p => e.buf[i] = d.buf[i]
  <2>1. d.pos > 0
    BY <1>1, <1>2
  <2>2. place(d, "BS") = [buf |-> [d.buf EXCEPT ![d.pos - 1] = " "], pos |-> d.pos - 1]
    BY <2>1, PlaceCases
  <2>3. place(d, "BS") = [buf |-> [d.buf EXCEPT ![p] = " "], pos |-> p]
    BY <1>3, <2>2
  <2>4. scroll(place(d, "BS")) = place(d, "BS")
    <3>1. PICK f : f = place(d, "BS")
      OBVIOUS
    <3>2. f = [buf |-> [d.buf EXCEPT ![p] = " "], pos |-> p]
      BY <2>3, <3>1, Zenon
    <3>3. f.pos < CRT_SIZE
      <4>1. p < CRT_SIZE
        BY Sizes
      <4>2. f.pos = p
        BY <3>2, Zenon
      <4>3. QED  BY <4>1, <4>2
    <3>4. scroll(f) = f
      BY <3>3, Zenon DEF scroll
    <3>5. QED  BY <3>1, <3>4
  <2>5. e = [buf |-> [d.buf EXCEPT ![p] = " "], pos |-> p]
    BY <1>4, <2>3, <2>4 DEF cga_putc
  <2>6. QED  BY <1>2, <2>5
<1>6. PICK k \in Seq(Chars) : k = Front(l) /\ Len(k) = n - 1 /\ (\A i \in 1..(n - 1) : k[i] = l[i]) /\ DOMAIN k = 1..(n - 1)
  <2>1. Front(l) = SubSeq(l, 1, n - 1) /\ n - 1 \in Int
    BY <1>1 DEF Front
  <2>2. \A i \in 1..(n - 1) : l[i] \in Chars
    BY <1>1, ElementOfSeq
  <2>3. /\ SubSeq(l, 1, n - 1) \in Seq(Chars)
        /\ Len(SubSeq(l, 1, n - 1)) = IF 1 <= n - 1 THEN (n - 1) - 1 + 1 ELSE 0
        /\ \A i \in 1..((n - 1) - 1 + 1) : SubSeq(l, 1, n - 1)[i] = l[1 + i - 1]
    BY <2>1, <2>2, SubSeqProperties
  <2>4. /\ Front(l) \in Seq(Chars) /\ Len(Front(l)) = n - 1 /\ \A i \in 1..(n - 1) : Front(l)[i] = l[i]
    BY <1>1, <2>1, <2>3
  <2>5. DOMAIN Front(l) = 1..(n - 1)
    BY <2>4
  <2>6. QED  BY <2>4, <2>5
<1>7. ASSUME NEW j \in 0..(n - 1) PROVE e.buf[((e.pos - (n - 1)) + j) - 1] = d.buf[((d.pos - n) + j) - 1]
  <2>1. PICK i \in 0..(CRT_SIZE - 1) : i = ((d.pos - n) + j) - 1 /\ i # p
    <3>1. CRT_SIZE \in Int /\ p \in Int /\ p < CRT_SIZE /\ d.pos \in Int
      BY <1>2, Sizes
    <3>2. PICK i \in Int : i = ((d.pos - n) + j) - 1
      BY <3>1
    <3>3. i >= 0 /\ i < p
      BY <1>3, <1>2, <3>1, <3>2
    <3>4. QED  BY <3>1, <3>2, <3>3
  <2>2. ((e.pos - (n - 1)) + j) - 1 = i
    BY <1>2, <1>3, <1>5, <2>1
  <2>3. e.buf[i] = d.buf[i]
    BY <1>5, <2>1
  <2>4. QED  BY <2>1, <2>2, <2>3, Zenon
<1>8. e.buf[(e.pos - (n - 1)) - 1] = "K"
  <2>1. 0 \in 0..(n - 1) /\ ((e.pos - (n - 1)) + 0) - 1 = (e.pos - (n - 1)) - 1 /\ ((d.pos - n) + 0) - 1 = (d.pos - n) - 1
    BY <1>1, <1>2, <1>5
  <2>2. e.buf[((e.pos - (n - 1)) + 0) - 1] = d.buf[((d.pos - n) + 0) - 1]
    BY <1>7, <2>1
  <2>3. d.buf[(d.pos - n) - 1] = "K"
    BY <1>1 DEF Echo
  <2>4. QED  BY <2>1, <2>2, <2>3, Zenon
<1>9. ASSUME NEW i \in 1..(n - 1) PROVE e.buf[((e.pos - (n - 1)) + i) - 1] = k[i]
  <2>1. i \in 0..(n - 1) /\ i \in 1..n
    BY <1>1
  <2>2. e.buf[((e.pos - (n - 1)) + i) - 1] = d.buf[((d.pos - n) + i) - 1]
    BY <1>7, <2>1
  <2>3. d.buf[((d.pos - n) + i) - 1] = l[i]
    BY <1>1, <2>1 DEF Echo
  <2>4. k[i] = l[i]
    BY <1>6
  <2>5. QED  BY <2>2, <2>3, <2>4, Zenon
<1>10. e.pos > n - 1
  BY <1>3, <1>5
<1>11. Echo(e, k)
  BY <1>6, <1>8, <1>9, <1>10 DEF Echo
<1>12. Len(k) \in Nat /\ Len(k) < Len(l)
  BY <1>1, <1>6
<1>13. QED  BY <1>4, <1>6, <1>11, <1>12

-----------------------------------------------------------------------------
\* The actions.  What none of them touches stays as it is.
QueueStep == Queue!Next \/ UNCHANGED <<unread, c>>

LEMMA KeepKeyboard ==
  ASSUME Keyboard, UNCHANGED <<kbd, shift, sending, latest, lost>>
  PROVE  Keyboard'
BY DEF Keyboard, Followed, Escaped, Settled

LEMMA KeepRing ==
  ASSUME Ring, UNCHANGED <<buf, rpos, wpos, c>>, com1' \in SerialChars \cup {NO}
  PROVE  Ring' /\ QueueStep
<1>1. Ring'
  BY DEF Ring
<1>2. UNCHANGED unread
  BY UnreadIs
<1>3. QED  BY <1>1, <1>2 DEF QueueStep

LEMMA KeepScreen ==
  ASSUME Window(crt, roll), UNCHANGED screen
  PROVE  Window(crt, roll)'
<1>1. crt' = crt /\ roll' = roll
  BY DEF crt, screen
<1>2. QED  BY <1>1

LEMMA EchoIs ==
  /\ EchoMatchesLine <=> (envs = 0 => Echo(crt, line))
  /\ EchoMatchesLine' <=> (envs' = 0 => Echo(crt', line'))
<1>1. crt.pos = crt_pos /\ crt.buf = crt_buf /\ crt'.pos = crt_pos' /\ crt'.buf = crt_buf'
  BY DEF crt
<1>2. QED  BY <1>1 DEF EchoMatchesLine, Echo

LEMMA KeepEditing ==
  ASSUME Editing, UNCHANGED <<envs, line, crt_buf, crt_pos>>,
         pc' = "user" => envs > 0, pc' = "line" => envs = 0
  PROVE  Editing'
BY DEF Editing, EchoMatchesLine

\* A byte arrives or is lost.
LEMMA Arrives ==
  ASSUME Keyboard, NEW b \in Bytes, scan(b), UNCHANGED shift, latest' \subseteq Modifiers,
         \A m \in Modifiers : m \in latest' <=> IF m \in ModifierOf(b) THEN b < 128 ELSE m \in latest,
         b \in ShiftBytes => sending = <<>>, sending' # <<>> <=> b = 224
  PROVE  Keyboard'
<1>1. CASE kbd' = Append(kbd, b) /\ UNCHANGED lost
  <2>1. kbd \in Seq(Bytes)
    BY DEF Keyboard
  <2>2. PICK n \in Nat \ {0} : n - 1 = Len(kbd)
    <3>1. PICK m \in Nat : m = Len(kbd)
      BY <2>1
    <3>2. m + 1 \in Nat \ {0} /\ (m + 1) - 1 = m
      OBVIOUS
    <3>3. QED  BY <3>1, <3>2
  <2>3. /\ kbd' \in Seq(Bytes) /\ Len(kbd') = n /\ kbd'[n] = b
        /\ \A i \in 1..(n - 1) : kbd'[i] = kbd[i]
    <3>1. /\ Append(kbd, b) \in Seq(Bytes) /\ Len(Append(kbd, b)) = Len(kbd) + 1
          /\ \A i \in 1..Len(kbd) : Append(kbd, b)[i] = kbd[i]
          /\ Append(kbd, b)[Len(kbd) + 1] = b
      BY <2>1, AppendProperties
    <3>2. Len(kbd) + 1 = n
      BY <2>2
    <3>3. QED  BY <1>1, <2>2, <3>1, <3>2
  <2>4. Sent(b, n)
    BY <1>1, <2>2, <2>3 DEF Sent
  <2>5. QED  BY <2>4, KeyboardGrows
<1>2. CASE lost' = TRUE /\ UNCHANGED <<kbd, irq1>>
  BY <1>2 DEF Keyboard
<1>3. QED  BY <1>1, <1>2 DEF scan

LEMMA KeyEscape ==
  ASSUME IInv, NEW k \in Keys, NEW down \in BOOLEAN, key_escape(k, down)
  PROVE  Keyboard'
<1>1. scan(224) /\ UNCHANGED <<shift, latest>> /\ sending' = <<k, down>> /\ Keyboard
  BY DEF key_escape, IInv
<1>2. 224 \in Bytes /\ 224 \notin ShiftBytes /\ ModifierOf(224) = {}
  BY DEF Bytes, ShiftBytes, ModifierOf
<1>3. sending' # <<>>
  BY <1>1
<1>4. latest' \subseteq Modifiers
  BY <1>1 DEF Keyboard
<1>5. QED  BY <1>1, <1>2, <1>3, <1>4, Arrives

LEMMA KeyCodeSent ==
  ASSUME IInv, NEW k \in Keys, NEW down \in BOOLEAN, key_code(k, down)
  PROVE  Keyboard'
<1>1. PICK b : b = IF down THEN KeyCode[k][2] ELSE KeyCode[k][2] + 128
  OBVIOUS
<1>2. b \in {KeyCode[k][2], KeyCode[k][2] + 128}
  BY <1>1
<1>3. /\ b \in Bytes /\ b # 224 /\ (b < 128 <=> b = KeyCode[k][2])
      /\ KeyCode[k][1] => b \notin ShiftBytes
      /\ ModifierOf(b) = IF k \in DOMAIN Modifier THEN {Modifier[k]} ELSE {}
      /\ k \in DOMAIN Modifier => Modifier[k] \in Modifiers
  BY <1>2, KeyBytes
<1>4. b < 128 <=> down
  <2>1. KeyCode[k][2] \in Bytes
    BY KeyBytes
  <2>2. PICK x \in Int : x = KeyCode[k][2]
    BY <2>1 DEF Bytes
  <2>3. QED  BY <1>1, <1>3, <2>2
<1>5. /\ scan(b) /\ UNCHANGED shift /\ sending' = <<>> /\ Keyboard
      /\ latest' = (IF k \notin DOMAIN Modifier THEN latest
                    ELSE IF down THEN latest \cup {Modifier[k]} ELSE latest \ {Modifier[k]})
      /\ KeyCode[k][1] \/ sending = <<>>
  BY <1>1 DEF key_code, IInv
<1>6. latest \subseteq Modifiers
  BY <1>5 DEF Keyboard
<1>7. latest' \subseteq Modifiers
  BY <1>3, <1>5, <1>6
<1>8. ASSUME NEW m \in Modifiers PROVE m \in latest' <=> IF m \in ModifierOf(b) THEN b < 128 ELSE m \in latest
  <2>1. CASE k \in DOMAIN Modifier
    BY <1>3, <1>4, <1>5, <2>1
  <2>2. CASE k \notin DOMAIN Modifier
    BY <1>3, <1>5, <2>2
  <2>3. QED  BY <2>1, <2>2
<1>9. QED  BY <1>3, <1>5, <1>7, <1>8, Arrives

LEMMA KeyEvent ==
  ASSUME IInv, NEW k \in Keys, NEW down \in BOOLEAN, key_escape(k, down) \/ key_code(k, down)
  PROVE  IInv' /\ QueueStep
<1>1. UNCHANGED <<com1, ring, c, line, screen, pc, envs>>
  BY DEF key_escape, key_code
<1>2. Ring' /\ QueueStep
  BY <1>1, KeepRing DEF IInv, Ring, ring
<1>3. Window(crt, roll)' /\ Editing'
  BY <1>1, KeepScreen, KeepEditing DEF IInv, Editing, screen
<1>4. QED  BY <1>2, <1>3, KeyEscape, KeyCodeSent DEF IInv

LEMMA Mouse ==
  ASSUME IInv, mouse
  PROVE  IInv' /\ QueueStep
<1>1. UNCHANGED <<kbd, shift, sending, latest, lost, com1, ring, c, line, screen, pc, envs>>
  BY DEF mouse
<1>2. Keyboard' /\ Ring' /\ QueueStep
  BY <1>1, KeepKeyboard, KeepRing DEF IInv, Ring, ring
<1>3. Window(crt, roll)' /\ Editing'
  BY <1>1, KeepScreen, KeepEditing DEF IInv, Editing, screen
<1>4. QED  BY <1>2, <1>3 DEF IInv

LEMMA Receive ==
  ASSUME IInv, NEW ch \in SerialChars, receive(ch)
  PROVE  IInv' /\ QueueStep
<1>1. UNCHANGED <<kbd, shift, sending, latest, lost, ring, c, line, screen, pc, envs>> /\ com1' \in SerialChars
  BY DEF receive, keyboard
<1>2. Ring' /\ QueueStep
  BY <1>1, KeepRing DEF IInv, ring
<1>3. Keyboard'
  BY <1>1, KeepKeyboard DEF IInv
<1>4. Window(crt, roll)' /\ Editing'
  BY <1>1, KeepScreen, KeepEditing DEF IInv, Editing, screen
<1>5. QED  BY <1>2, <1>3, <1>4 DEF IInv

\* A character is stored.
LEMMA Store ==
  ASSUME Ring, NEW ch \in SerialChars \cup KbdChars, cons_put(ch), com1' \in SerialChars \cup {NO}, UNCHANGED c
  PROVE  Ring' /\ QueueStep
<1>1. /\ rpos \in Index /\ wpos \in Index /\ buf \in [Index -> Chars] /\ ch \in Chars
  BY DEF Ring, Index, Chars
<1>2. /\ wpos' = (IF wpos + 1 = CONSBUFSIZE THEN 0 ELSE wpos + 1)
      /\ buf' = [buf EXCEPT ![wpos] = ch] /\ rpos' = rpos
  BY DEF cons_put
<1>3. /\ wpos' \in Index /\ buf' \in [Index -> Chars]
      /\ Unread(buf', rpos, wpos') =
           IF Len(Unread(buf, rpos, wpos)) = CONSBUFSIZE - 1 THEN <<>> ELSE Append(Unread(buf, rpos, wpos), ch)
  <2>1. wpos' = Following(wpos) /\ buf' = Stored(buf, wpos, ch)
    BY <1>2 DEF Following, Stored
  <2>2. /\ Following(wpos) \in Index /\ Stored(buf, wpos, ch) \in [Index -> Chars]
        /\ Unread(Stored(buf, wpos, ch), rpos, Following(wpos)) =
             IF Len(Unread(buf, rpos, wpos)) = CONSBUFSIZE - 1 THEN <<>> ELSE Append(Unread(buf, rpos, wpos), ch)
    BY ONLY <1>1, RingPut, Zenon
  <2>3. QED  BY <2>1, <2>2, Zenon
<1>4. Ring'
  BY <1>1, <1>2, <1>3 DEF Ring, Index
<1>5. unread' = IF Len(unread) = CONSBUFSIZE - 1 THEN <<>> ELSE Append(unread, ch)
  BY <1>2, <1>3, UnreadIs
<1>6. Queue!Put(ch)
  BY <1>5 DEF Queue!Put
<1>7. Queue!Next
  <2>1. ch \in SerialChars \cup {"a", "A", "C-a", "LF", "CR", "BS", ".", "KEY_DEL"}
    BY DEF KbdChars
  <2>2. QED  BY <1>6, <2>1 DEF Queue!Next
<1>8. QED  BY <1>4, <1>7 DEF QueueStep

LEMMA SerialIntr ==
  ASSUME IInv, serial_intr
  PROVE  IInv' /\ QueueStep
<1>1. UNCHANGED <<kbd, shift, sending, latest, lost, c, line, screen, envs>> /\ pc' \in {"serial", "kbd"}
  BY DEF serial_intr, keyboard
<1>2. Keyboard'
  BY <1>1, KeepKeyboard DEF IInv
<1>3. Window(crt, roll)' /\ Editing'
  BY <1>1, KeepScreen, KeepEditing DEF IInv, screen
<1>4. Ring' /\ QueueStep
  <2>1. CASE com1 # NO /\ cons_put(com1) /\ com1' = NO
    BY <1>1, <2>1, Store DEF IInv, Ring
  <2>2. CASE UNCHANGED <<com1, ring>>
    BY <1>1, <2>2, KeepRing DEF IInv, Ring, ring
  <2>3. QED  BY <2>1, <2>2 DEF serial_intr
<1>5. QED  BY <1>2, <1>3, <1>4 DEF IInv

LEMMA KbdIntr ==
  ASSUME IInv, kbd_intr
  PROVE  IInv' /\ QueueStep
<1>1. UNCHANGED <<com1, sending, latest, lost, c, line, screen, envs>> /\ pc' \in {"kbd", "take", "reset"}
  BY DEF kbd_intr
<1>2. Window(crt, roll)' /\ Editing'
  BY <1>1, KeepScreen, KeepEditing DEF IInv, screen
<1>3. com1' \in SerialChars \cup {NO} /\ Ring /\ Keyboard
  BY <1>1 DEF IInv, Ring
<1>4. CASE kbd # <<>> /\ ~aux
  <2>1. PICK r : /\ r = kbd_decode(shift, Head(kbd)) /\ shift' = r.shift /\ kbd' = Tail(kbd)
                 /\ IF r.c = NO THEN UNCHANGED ring ELSE cons_put(r.c)
    BY <1>4 DEF kbd_intr
  <2>2. Keyboard' /\ r.c \in KbdChars \cup {NO}
    BY <1>1, <1>3, <1>4, <2>1, KeyboardReads
  <2>3. Ring' /\ QueueStep
    <3>1. CASE r.c = NO
      BY <1>1, <1>3, <2>1, <3>1, KeepRing DEF ring
    <3>2. CASE r.c # NO
      BY <1>1, <1>3, <2>1, <2>2, <3>2, Store
    <3>3. QED  BY <3>1, <3>2
  <2>4. QED  BY <1>2, <2>2, <2>3 DEF IInv
<1>5. CASE kbd = <<>> \/ aux
  <2>1. UNCHANGED <<kbd, shift, ring>>
    BY <1>5 DEF kbd_intr
  <2>2. QED  BY <1>1, <1>2, <1>3, <2>1, KeepKeyboard, KeepRing DEF IInv, ring
<1>6. QED  BY <1>4, <1>5

LEMMA ConsGetc ==
  ASSUME IInv, cons_getc
  PROVE  IInv' /\ QueueStep
<1>1. UNCHANGED <<input, shift, buf, wpos, line, screen, envs>> /\ pc' = IF envs > 0 THEN "user" ELSE "line"
  BY DEF cons_getc
<1>2. Keyboard'
  BY <1>1, KeepKeyboard DEF IInv, input, keyboard
<1>3. Window(crt, roll)' /\ Editing'
  <2>1. envs \in Nat
    BY DEF IInv, Editing
  <2>2. (pc' = "user" => envs > 0) /\ (pc' = "line" => envs = 0)
    BY <1>1, <2>1
  <2>3. QED  BY <1>1, <2>2, KeepScreen, KeepEditing DEF IInv, screen
<1>4. rpos \in Index /\ wpos \in Index /\ buf \in [Index -> Chars] /\ com1' \in SerialChars \cup {NO}
  BY <1>1 DEF IInv, Ring, Index, input
<1>5. CASE rpos # wpos
  <2>1. c' = buf[rpos] /\ rpos' = IF rpos + 1 = CONSBUFSIZE THEN 0 ELSE rpos + 1
    BY <1>5 DEF cons_getc
  <2>2. /\ rpos' \in Index /\ buf[rpos] \in Chars /\ Unread(buf, rpos, wpos) # <<>>
        /\ buf[rpos] = Head(Unread(buf, rpos, wpos))
        /\ Unread(buf, rpos', wpos) = Tail(Unread(buf, rpos, wpos))
    BY <1>4, <1>5, <2>1, RingGet
  <2>3. Ring'
    BY <1>1, <1>4, <2>1, <2>2 DEF Ring, Index
  <2>4. unread # <<>> /\ c' = Head(unread) /\ unread' = Tail(unread)
    BY <1>1, <2>1, <2>2, UnreadIs
  <2>5. Queue!Next
    BY <2>4 DEF Queue!Next, Queue!Get
  <2>6. QED  BY <1>2, <1>3, <2>3, <2>5 DEF IInv, QueueStep
<1>6. CASE rpos = wpos
  <2>1. c' = NO /\ UNCHANGED rpos
    BY <1>6 DEF cons_getc
  <2>2. Ring'
    BY <1>1, <1>4, <2>1 DEF Ring, Index, Chars
  <2>3. PICK n \in Nat, s \in Seq(Chars) : n = Held(rpos, wpos) /\ s = Unread(buf, rpos, wpos) /\ Len(s) = n
    BY <1>4, UnreadSeq
  <2>4. n = 0
    BY <1>4, <1>6, <2>3 DEF Held, Index
  <2>5. s = <<>>
    BY <2>3, <2>4, EmptySeq
  <2>6. unread = <<>> /\ unread' = unread
    BY <1>1, <2>1, <2>3, <2>5, UnreadIs
  <2>7. Queue!Next
    BY <2>1, <2>6 DEF Queue!Next, Queue!Get
  <2>8. QED  BY <1>2, <1>3, <2>2, <2>7 DEF IInv, QueueStep
<1>7. QED  BY <1>5, <1>6

LEMMA SysCgetc ==
  ASSUME IInv, sys_cgetc
  PROVE  IInv' /\ QueueStep
<1>1. UNCHANGED <<input, shift, ring, c, line, screen, envs>> /\ pc' = "serial"
  BY DEF sys_cgetc
<1>2. Keyboard' /\ Ring' /\ QueueStep
  BY <1>1, KeepKeyboard, KeepRing DEF IInv, Ring, input, keyboard, ring
<1>3. Window(crt, roll)' /\ Editing'
  BY <1>1, KeepScreen, KeepEditing DEF IInv, screen
<1>4. QED  BY <1>2, <1>3 DEF IInv


LEMMA OutputChars ==
  ASSUME NEW s \in Outputs
  PROVE  s \in Seq(Chars)
<1>1. s \in Seq(Range(s))
  BY OutputAssumption
<1>2. \A x \in Range(s) : x \in Chars
  BY DEF Chars
<1>3. PICK n \in Nat : s \in [1..n -> Range(s)]
  BY <1>1
<1>4. s \in [1..n -> Chars]
  BY <1>2, <1>3
<1>5. QED  BY <1>4

LEMMA SysCputs ==
  ASSUME IInv, NEW s \in Outputs, sys_cputs(s)
  PROVE  IInv' /\ QueueStep
<1>1. UNCHANGED <<input, shift, ring, c, line, pc, envs>> /\ cputs(s) /\ pc = "user"
  BY DEF sys_cputs
<1>2. Keyboard' /\ Ring' /\ QueueStep
  BY <1>1, KeepKeyboard, KeepRing DEF IInv, Ring, input, keyboard, ring
<1>3. Window(crt, roll)'
  <2>1. s \in Seq(Chars) /\ Window(crt, roll)
    BY OutputChars DEF IInv
  <2>2. QED  BY <1>1, <2>1, Prints
<1>4. Editing'
  <2>1. envs \in Nat /\ envs > 0 /\ Editing
    BY <1>1 DEF IInv, Editing
  <2>2. EchoMatchesLine'
    BY <1>1, <2>1, EchoIs
  <2>3. QED  BY <1>1, <2>1, <2>2 DEF Editing
<1>5. QED  BY <1>2, <1>3, <1>4 DEF IInv

\* Text that ends with the prompt shows an empty line.
LEMMA Prompts ==
  ASSUME Window(crt, roll), NEW s \in Seq(Chars), s # <<>>, s[Len(s)] = "K", cputs(s)
  PROVE  Window(crt, roll)' /\ Echo(crt', <<>>)
<1>1. Window(crt', roll')
  BY Prints
<1>2. PICK d, r : Window(d, r) /\ crt' = cga_putc(d, "K")
  BY Prints
<1>3. d \in Display
  BY <1>2 DEF Window
<1>4. QED  BY <1>1, <1>2, <1>3, EchoPrompt

LEMMA KbdIrq ==
  ASSUME IInv, kbd_irq
  PROVE  IInv' /\ QueueStep
<1>1. /\ UNCHANGED <<kbd, com1, sending, latest, lost, shift, ring, c, line>> /\ pc = "user"
      /\ envs' = 0 \/ envs' = envs - 1
      /\ IF envs' = 0 THEN pc' = "serial" /\ cputs(<<"M", "LF", "K">>) ELSE UNCHANGED <<pc, screen>>
  BY DEF kbd_irq, keyboard
<1>2. Keyboard' /\ Ring' /\ QueueStep
  BY <1>1, KeepKeyboard, KeepRing DEF IInv, Ring, ring
<1>3. Editing /\ envs \in Nat /\ envs > 0 /\ envs' \in Nat /\ line = <<>> /\ line' = <<>> /\ Window(crt, roll)
  BY <1>1 DEF IInv, Editing
<1>4. Window(crt, roll)' /\ (envs' = 0 => Echo(crt', <<>>))
  <2>1. CASE envs' = 0
    <3>1. PICK s : s = <<"M", "LF", "K">>
      OBVIOUS
    <3>2. "M" \in Chars /\ "LF" \in Chars /\ "K" \in Chars
      BY DEF Chars, KbdChars
    <3>3. s \in Seq(Chars) /\ Len(s) = 3 /\ s[3] = "K" /\ s # <<>>
      BY <3>1, <3>2
    <3>4. cputs(s)
      BY <1>1, <2>1, <3>1
    <3>5. QED  BY <1>3, <3>3, <3>4, Prompts
  <2>2. CASE envs' # 0
    BY <1>1, <1>3, <2>2, KeepScreen
  <2>3. QED  BY <2>1, <2>2
<1>5. EchoMatchesLine'
  BY <1>3, <1>4, EchoIs
<1>6. (pc' = "user" => envs' > 0) /\ (pc' = "line" => envs' = 0)
  BY <1>1, <1>3
<1>7. Editing'
  BY <1>1, <1>3, <1>5, <1>6 DEF Editing
<1>8. QED  BY <1>2, <1>4, <1>7 DEF IInv

\* readline's steps change the line and what shows it.
LEMMA Erases ==
  ASSUME IInv, envs = 0, readline_erase
  PROVE  Window(crt, roll)' /\ line' \in Seq(Chars) /\ Len(line') < BUFLEN /\ Echo(crt', line')
<1>1. Window(crt, roll) /\ crt \in Display /\ line \in Seq(Chars) /\ Len(line) < BUFLEN /\ Echo(crt, line)
  BY EchoIs DEF IInv, Editing, Window
<1>2. PICK s : s = <<"BS">>
  OBVIOUS
<1>3. "BS" \in Chars
  BY DEF Chars, KbdChars
<1>4. s \in Seq(Chars) /\ Len(s) = 1 /\ s[1] = "BS" /\ s # <<>>
  BY <1>2, <1>3
<1>5. cputs(s) /\ line' = Front(line) /\ line # <<>>
  BY <1>2 DEF readline_erase
<1>6. Window(crt', roll') /\ crt' = cga_putc(crt, "BS")
  BY <1>1, <1>4, <1>5, Prints
<1>7. /\ Echo(cga_putc(crt, "BS"), Front(line)) /\ Front(line) \in Seq(Chars)
      /\ Len(Front(line)) \in Nat /\ Len(Front(line)) < Len(line)
  BY <1>1, <1>5, EchoErase
<1>8. Len(line') < BUFLEN
  <2>1. PICK m \in Nat, n \in Nat : m = Len(Front(line)) /\ n = Len(line) /\ m < n /\ n < BUFLEN
    BY <1>1, <1>7
  <2>2. m < BUFLEN
    BY <2>1, LineRoom
  <2>3. QED  BY <1>5, <2>1, <2>2
<1>9. QED  BY <1>5, <1>6, <1>7, <1>8

LEMMA Inserts ==
  ASSUME IInv, envs = 0, readline_insert
  PROVE  Window(crt, roll)' /\ line' \in Seq(Chars) /\ Len(line') < BUFLEN /\ Echo(crt', line')
<1>1. Window(crt, roll) /\ crt \in Display /\ line \in Seq(Chars) /\ Echo(crt, line) /\ c \in Chars
  BY EchoIs DEF IInv, Editing, Window, Ring
<1>2. PICK s : s = <<c>>
  OBVIOUS
<1>3. PICK ch \in Chars \ {"BS", "LF", "CR", "TAB"} : ch = c
  BY <1>1 DEF readline_insert, Printable
<1>4. s \in Seq(Chars) /\ Len(s) = 1 /\ s[1] = ch /\ s # <<>>
  BY <1>1, <1>2, <1>3
<1>5. cputs(s) /\ line' = Append(line, ch) /\ Len(line) < BUFLEN - 1
  BY <1>2, <1>3 DEF readline_insert
<1>6. Window(crt', roll') /\ crt' = cga_putc(crt, ch)
  BY <1>1, <1>4, <1>5, Prints
<1>7. PICK n \in Nat : n = Len(line) /\ n + 1 < BUFLEN
  <2>1. PICK n \in Nat : n = Len(line)
    BY <1>1
  <2>2. QED  BY <1>5, <2>1, LineRoom
<1>8. Echo(cga_putc(crt, ch), Append(line, ch))
  BY <1>1, <1>7, EchoInsert
<1>9. Append(line, ch) \in Seq(Chars) /\ Len(Append(line, ch)) = n + 1
  BY <1>1, <1>7, AppendProperties
<1>10. QED  BY <1>5, <1>6, <1>7, <1>8, <1>9

LEMMA Returns ==
  ASSUME IInv, readline_return
  PROVE  Window(crt, roll)' /\ line' \in Seq(Chars) /\ Len(line') < BUFLEN /\ Echo(crt', line')
<1>1. PICK s : (s = <<>> \/ s \in Outputs) /\ cputs((<<"LF">> \o s) \o <<"LF", "K">>)
  BY DEF readline_return
<1>2. line' = <<>> /\ Window(crt, roll)
  BY DEF readline_return, IInv
<1>3. s \in Seq(Chars)
  <2>1. <<>> \in Seq(Chars)
    OBVIOUS
  <2>2. QED  BY <1>1, <2>1, OutputChars
<1>4. PICK a, b : a = <<"LF">> /\ b = <<"LF", "K">>
  OBVIOUS
<1>5. "LF" \in Chars /\ "K" \in Chars
  BY DEF Chars, KbdChars
<1>6. a \in Seq(Chars) /\ b \in Seq(Chars) /\ Len(b) = 2 /\ b[2] = "K"
  BY <1>4, <1>5
<1>7. PICK t \in Seq(Chars) : t = a \o s
  BY <1>3, <1>6, ConcatProperties
<1>8. PICK n \in Nat : n = Len(t)
  OBVIOUS
<1>9. PICK u \in Seq(Chars) : u = t \o b /\ Len(u) = n + 2 /\ \A i \in 1..(n + 2) : u[i] = IF i <= n THEN t[i] ELSE b[i - n]
  <2>1. /\ t \o b \in Seq(Chars) /\ Len(t \o b) = n + 2
        /\ \A i \in 1..(n + 2) : (t \o b)[i] = IF i <= n THEN t[i] ELSE b[i - n]
    <3>1. /\ t \o b \in Seq(Chars) /\ Len(t \o b) = Len(t) + Len(b)
          /\ \A i \in 1..(Len(t) + Len(b)) : (t \o b)[i] = IF i <= Len(t) THEN t[i] ELSE b[i - Len(t)]
      BY ONLY t \in Seq(Chars), <1>6, ConcatProperties, Zenon
    <3>2. QED  BY <1>6, <1>8, <3>1, Zenon
  <2>2. QED  BY <2>1
<1>10. u # <<>> /\ u[Len(u)] = "K"
  <2>1. PICK i \in 1..(n + 2) : i = n + 2 /\ ~(i <= n) /\ i - n = 2
    OBVIOUS
  <2>2. u[i] = b[i - n]
    BY <1>9, <2>1
  <2>3. u[Len(u)] = "K"
    BY <1>6, <1>9, <2>1, <2>2, Zenon
  <2>4. Len(u) # 0
    BY <1>9
  <2>5. QED  BY <2>3, <2>4
<1>11. cputs(u)
  BY <1>1, <1>4, <1>7, <1>9, Zenon
<1>12. Window(crt, roll)' /\ Echo(crt', <<>>)
  BY <1>2, <1>10, <1>11, Prompts
<1>13. line' \in Seq(Chars) /\ Len(line') < BUFLEN
  BY <1>2, LineRoom
<1>14. QED  BY <1>2, <1>12, <1>13

LEMMA Readline ==
  ASSUME IInv, readline
  PROVE  IInv' /\ QueueStep
<1>1. /\ UNCHANGED <<input, shift, ring, c, envs>> /\ pc = "line" /\ pc' = "serial"
      /\ readline_erase \/ readline_insert \/ readline_return \/ readline_ignore
  BY DEF readline
<1>2. Keyboard' /\ Ring' /\ QueueStep
  BY <1>1, KeepKeyboard, KeepRing DEF IInv, Ring, input, keyboard, ring
<1>3. envs = 0 /\ envs' = 0
  BY <1>1 DEF IInv, Editing
<1>4. Window(crt, roll)' /\ line' \in Seq(Chars) /\ Len(line') < BUFLEN /\ Echo(crt', line')
  <2>1. CASE readline_ignore
    <3>1. UNCHANGED <<line, screen>>
      BY <2>1 DEF readline_ignore
    <3>2. crt' = crt
      BY <3>1 DEF screen, crt
    <3>3. Window(crt, roll) /\ line \in Seq(Chars) /\ Len(line) < BUFLEN /\ Echo(crt, line)
      BY <1>3, EchoIs DEF IInv, Editing
    <3>4. QED  BY <3>1, <3>2, <3>3, KeepScreen
  <2>2. QED  BY <1>1, <1>3, <2>1, Erases, Inserts, Returns
<1>5. Editing'
  <2>1. EchoMatchesLine'
    BY <1>4, EchoIs
  <2>2. QED  BY <1>1, <1>3, <1>4, <2>1 DEF Editing
<1>6. QED  BY <1>2, <1>4, <1>5 DEF IInv

-----------------------------------------------------------------------------
LEMMA InitInv == Init => IInv /\ Queue!Init
<1> SUFFICES ASSUME Init PROVE IInv /\ Queue!Init
  OBVIOUS
<1>1. CONSBUFSIZE \in Nat \ {0, 1} /\ BUFLEN \in Nat \ {0} /\ CRT_SIZE \in Nat /\ CRT_COLS \in Nat \ {0} /\ CRT_COLS <= CRT_SIZE
  BY SizeAssumption, Sizes
<1>2. Ring
  <2>1. NO \in Chars /\ com1 = NO /\ c = NO /\ rpos = 0 /\ wpos = 0 /\ buf = [i \in 0..(CONSBUFSIZE - 1) |-> NO]
    BY Zenon DEF Init, Chars
  <2>2. QED  BY <1>1, <2>1 DEF Ring
<1>3. Keyboard
  <2>1. kbd = <<>> /\ shift = {} /\ latest = {} /\ sending = <<>>
    BY Zenon DEF Init
  <2>2. <<>> \in Seq(Bytes) /\ Len(<<>>) = 0
    OBVIOUS
  <2>3. \A m \in Modifiers : Settled(m)
    BY <2>1, <2>2 DEF Settled
  <2>4. Followed
    BY <2>1, <2>2, <2>3 DEF Followed, Escaped
  <2>5. QED  BY <2>1, <2>2, <2>4 DEF Keyboard
<1>4. Window(crt, roll)
  <2>1. crt = [buf |-> [i \in 0..(CRT_SIZE - 1) |-> " "], pos |-> crt_pos] /\ crt_pos \in 0..(CRT_SIZE - 1)
    <3>1. crt_buf = [i \in 0..(CRT_SIZE - 1) |-> " "] /\ crt_pos \in {0, CRT_SIZE - CRT_COLS}
      BY Zenon DEF Init
    <3>2. crt_pos \in 0..(CRT_SIZE - 1)
      <4>1. PICK z \in Int, k \in Int : z = CRT_SIZE /\ k = CRT_COLS /\ 0 < k /\ k <= z
        BY <1>1
      <4>2. 0 \in 0..(z - 1) /\ z - k \in 0..(z - 1)
        BY <4>1
      <4>3. QED  BY <3>1, <4>1, <4>2
    <3>3. QED  BY <3>1, <3>2 DEF crt
  <2>2. roll = [text |-> [p \in {} |-> " "], pos |-> crt_pos, top |-> 0]
    BY DEF Init
  <2>3. crt \in Display
    BY <2>1 DEF Display, Chars
  <2>4. roll.text \in [{} -> Chars] /\ DOMAIN roll.text = {} /\ roll.pos = crt_pos /\ roll.top = 0
    BY <2>2
  <2>5. roll \in Roll
    <3>1. {} \in SUBSET Nat
      OBVIOUS
    <3>2. roll.text \in UNION {[s -> Chars] : s \in SUBSET Nat}
      BY <2>4, <3>1
    <3>3. crt_pos \in Nat
      <4>1. crt_pos \in 0..(CRT_SIZE - 1)
        BY <2>1, Zenon
      <4>2. QED  BY <1>1, <4>1
    <3>4. QED  BY <2>2, <2>4, <3>2, <3>3 DEF Roll
  <2>6. roll.top * CRT_COLS = 0
    BY <1>1, <2>4
  <2>7. crt.pos = crt_pos /\ \A i \in 0..(CRT_SIZE - 1) : crt.buf[i] = " "
    BY <2>1
  <2>8. roll.pos = roll.top * CRT_COLS + crt.pos
    <3>1. crt_pos \in 0..(CRT_SIZE - 1) /\ crt.pos = crt_pos /\ roll.pos = crt_pos
      BY <2>1, <2>4, <2>7, Zenon
    <3>2. crt_pos = 0 + crt_pos
      BY <1>1, <3>1
    <3>3. QED  BY <2>6, <3>1, <3>2, Zenon
  <2>9. \A i \in 0..(CRT_SIZE - 1) : crt.buf[i] = Cell(roll, i)
    BY <2>4, <2>7 DEF Cell
  <2>10. QED  BY <2>3, <2>4, <2>5, <2>8, <2>9 DEF Window
<1>5. Editing
  <2>1. envs \in 1..NUser /\ line = <<>> /\ pc = "user"
    BY Zenon DEF Init
  <2>2. envs \in Nat /\ envs > 0
    BY <2>1, SizeAssumption
  <2>3. <<>> \in Seq(Chars) /\ Len(<<>>) = 0 /\ 0 < BUFLEN
    BY <1>1
  <2>4. QED  BY <2>1, <2>2, <2>3 DEF Editing, EchoMatchesLine
<1>6. Queue!Init
  <2>1. rpos \in Index /\ wpos \in Index /\ buf \in [Index -> Chars] /\ rpos = wpos
    BY <1>2 DEF Init, Ring, Index
  <2>2. PICK n \in Nat, s \in Seq(Chars) : n = Held(rpos, wpos) /\ s = Unread(buf, rpos, wpos) /\ Len(s) = n
    BY <2>1, UnreadSeq
  <2>3. n = 0
    BY <1>1, <2>1, <2>2 DEF Held, Index
  <2>4. unread = <<>>
    BY <2>2, <2>3, UnreadIs, EmptySeq
  <2>5. QED  BY <2>4 DEF Queue!Init, Init
<1>7. QED  BY <1>2, <1>3, <1>4, <1>5, <1>6 DEF IInv

LEMMA StepInv == IInv /\ [Next]_vars => IInv' /\ QueueStep
<1> SUFFICES ASSUME IInv, [Next]_vars PROVE IInv' /\ QueueStep
  OBVIOUS
<1>1. CASE UNCHANGED vars
  <2>1. UNCHANGED <<kbd, shift, sending, latest, lost, com1, buf, rpos, wpos, c, line, crt_buf, crt_pos, roll, pc, envs>>
    BY <1>1 DEF vars, input, keyboard, ring, screen
  <2>2. Keyboard' /\ Ring' /\ QueueStep
    BY <2>1, KeepKeyboard, KeepRing DEF IInv, Ring
  <2>3. Window(crt, roll)' /\ Editing'
    BY <2>1, KeepScreen, KeepEditing DEF IInv, Editing, screen
  <2>4. QED  BY <2>2, <2>3 DEF IInv
<1>2. CASE Next
  BY <1>2, KeyEvent, Mouse, Receive, SysCputs, SerialIntr, KbdIntr, ConsGetc, SysCgetc, KbdIrq, Readline DEF Next
<1>3. QED  BY <1>1, <1>2

\* The inductive invariant of the console: ring, keyboard, screen and line.
THEOREM Invariant == Spec => []IInv
BY InitInv, StepInv, PTL DEF Spec

\* ModifiersFollowKeys for every set of keys and every buffer: wherever the
\* polls of cons_getc cut the byte sequences, between a key's E0 and its code
\* too, kbd_proc_data's flags agree with the last events of the modifier keys
\* once the bytes are read, if the keyboard's buffer lost none.
THEOREM ModifiersRight == Spec => []ModifiersFollowKeys
<1>1. IInv => ModifiersFollowKeys
  <2> SUFFICES ASSUME IInv, kbd = <<>>, ~lost
               PROVE  shift \ {"CAPSLOCK", "NUMLOCK"} = latest \cup (IF sending = <<>> THEN {} ELSE {"E0ESC"})
    BY DEF ModifiersFollowKeys
  <2>1. Len(kbd) = 0 /\ Len(kbd) + 1 = 1 /\ Followed
    BY DEF IInv, Keyboard
  <2>2. (\A m \in Modifiers : m \in latest <=> m \in shift) /\ ("E0ESC" \in shift <=> sending # <<>>)
    BY <2>1 DEF Followed, Settled, Escaped
  <2>3. shift \subseteq Modifiers \cup {"E0ESC", "CAPSLOCK", "NUMLOCK"} /\ latest \subseteq Modifiers
    BY DEF IInv, Keyboard, Flags
  <2>4. Modifiers \cap {"E0ESC", "CAPSLOCK", "NUMLOCK"} = {}
    BY DEF Modifiers
  <2>5. QED  BY <2>2, <2>3, <2>4
<1>2. QED  BY <1>1, Invariant, PTL

\* ScreenIsWindow for every screen: after any number of characters, tabs and
\* erasures cga_putc shows the last rows of what was printed, with the cursor
\* on the screen.
THEOREM ScreenShowsRoll == Spec => []ScreenIsWindow
<1>1. IInv => ScreenIsWindow
  <2> SUFFICES ASSUME IInv PROVE ScreenIsWindow
    OBVIOUS
  <2>1. crt.pos = crt_pos /\ crt.buf = crt_buf /\ Window(crt, roll)
    BY DEF crt, IInv
  <2>2. crt_pos \in 0..(CRT_SIZE - 1) /\ crt_buf \in [0..(CRT_SIZE - 1) -> Chars] /\ roll \in Roll
    BY <2>1 DEF Window, Display
  <2>3. PICK t \in Int : t = roll.top * CRT_COLS
    BY <2>2, Sizes DEF Roll
  <2>4. crt_pos = roll.pos - roll.top * CRT_COLS
    <3>1. roll.pos = t + crt_pos /\ crt_pos \in Int
      BY <2>1, <2>2, <2>3, Sizes DEF Window
    <3>2. QED  BY <2>3, <3>1
  <2>5. \A i \in 0..(CRT_SIZE - 1) : crt_buf[i] = Cell(roll, i)
    BY <2>1 DEF Window
  <2>6. QED  BY <2>2, <2>4, <2>5 DEF ScreenIsWindow, Cell
<1>2. QED  BY <1>1, Invariant, PTL

\* EchoMatchesLine for every screen and every line buffer that fits on it: the
\* prompt and readline's line always stand before the cursor.
THEOREM LineShown == Spec => []EchoMatchesLine
<1>1. IInv => EchoMatchesLine
  BY DEF IInv, Editing
<1>2. QED  BY <1>1, Invariant, PTL

\* ReadersSeeQueue for every ring: cons_intr's stores and cons_getc's loads
\* implement InputQueue.
THEOREM RingImplementsQueue == Spec => ReadersSeeQueue
<1>1. QueueStep => [Queue!Next]_<<unread, c>>
  BY DEF QueueStep
<1>2. QED  BY <1>1, InitInv, StepInv, Invariant, PTL DEF Spec, ReadersSeeQueue, Queue!Spec
=============================================================================
