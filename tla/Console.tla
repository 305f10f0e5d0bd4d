------------------------------- MODULE Console ------------------------------
(***************************************************************************)
(* The console: kern/console.c with its readers, lib/readline.c and the    *)
(* loop of kern/monitor.c.  A keyboard and a serial line deliver bytes at  *)
(* any time; cons_getc() polls them into the input ring, and readline()    *)
(* edits a line and echoes it on the screen, cell by cell.  Everything     *)
(* runs under the big kernel lock, so one thread of control pc suffices;   *)
(* the devices are the concurrent parties.  While user environments run,   *)
(* interrupts are on and IRQ 1, which kbd_init unmasks, reaches trap().    *)
(* A key's E0 prefix and its code are two bytes, so polls fall between.    *)
(* Characters are strings; NO stands for 0.                                *)
(***************************************************************************)
EXTENDS Integers, Sequences, SequencesExt, FiniteSets

CONSTANTS
  Keys,                  \* the keys of the keyboard in play, names from KeyCode
  SerialChars,           \* what the other end of the serial line may send
  Outputs,               \* what environments and commands may print
  CONSBUFSIZE, BUFLEN,   \* sizes of the input ring and of readline's buffer
  CRT_ROWS, CRT_COLS,
  KbdBuffer,             \* bytes the keyboard holds until they are read
  NUser,                 \* user environments that run before the monitor
  MaxInput, MaxOutput    \* bounds on key and serial events, on characters printed

ASSUME SizeAssumption ==
  /\ CONSBUFSIZE \in Nat \ {0, 1} /\ BUFLEN \in Nat \ {0} /\ CRT_ROWS \in Nat \ {0}
  /\ CRT_COLS \in Nat \ {0} /\ KbdBuffer \in Nat \ {0} /\ NUser \in Nat

\* A line and its prompt fit on the screen with a row to spare (1024 + 3
\* against 24 rows of 80), so that scrolling never takes the line's start away.
ASSUME LineFits == BUFLEN + 1 <= (CRT_ROWS - 1) * CRT_COLS

\* What is printed are sequences of characters.
ASSUME OutputAssumption == \A s \in Outputs : s \in Seq(Range(s))

VARIABLES
  sending,      \* the key event <<key, down>> whose E0 is sent and whose code is not, or <<>>
  kbd,          \* bytes in the keyboard controller, oldest first
  aux,          \* the controller's output buffer holds a byte of the mouse
  irq1,         \* the controller's interrupt is pending
  com1,         \* the byte in the serial port's receive buffer, or NO
  shift,        \* the static variable of kbd_proc_data, a set of flags
  buf, rpos, wpos,     \* cons, the input ring
  c,            \* what cons_getc returned last
  line,         \* buf[0..i-1] of readline
  crt_buf, crt_pos,
  pc,           \* "user", "serial", "kbd", "take", "line", "reset"
  envs,         \* user environments left; the monitor runs when there are none
  held, latest, \* ghosts: keys held down; modifiers whose last key event was a press
  lost,         \* ghost: has a byte of the keyboard been lost?
  roll,         \* ghost: all text printed, as if on endless paper
  events        \* ghost: [in, out] counts of input events and characters printed

keyboard == <<sending, kbd, aux, held, latest, lost>>
input == <<keyboard, irq1, com1>>
ring == <<buf, rpos, wpos>>
screen == <<crt_buf, crt_pos, roll>>
vars == <<input, shift, ring, c, line, screen, pc, envs, events>>

NO == ""
CRT_SIZE == CRT_ROWS * CRT_COLS

-----------------------------------------------------------------------------
\* The keyboard.  Scan code of a key and whether E0 precedes it.
KeyCode ==
  [LSHIFT |-> <<FALSE, 42>>, RSHIFT |-> <<FALSE, 54>>, LCTL |-> <<FALSE, 29>>,
   RCTL |-> <<TRUE, 29>>, LALT |-> <<FALSE, 56>>, RALT |-> <<TRUE, 56>>,
   CAPS |-> <<FALSE, 58>>, NUM |-> <<FALSE, 69>>, A |-> <<FALSE, 30>>,
   ENTER |-> <<FALSE, 28>>, BACKSPACE |-> <<FALSE, 14>>, DEL |-> <<TRUE, 83>>]

ASSUME KeyAssumption == Keys \subseteq DOMAIN KeyCode

Modifier == [LSHIFT |-> "SHIFT", RSHIFT |-> "SHIFT", LCTL |-> "CTL", RCTL |-> "CTL",
             LALT |-> "ALT", RALT |-> "ALT"]

\* The tables, at the codes of these keys; an E0 key's code has bit 7 set.
shiftcode(d) ==
  CASE d \in {29, 157} -> {"CTL"} [] d \in {42, 54} -> {"SHIFT"}
    [] d \in {56, 184} -> {"ALT"} [] OTHER -> {}

togglecode(d) ==
  CASE d = 58 -> {"CAPSLOCK"} [] d = 69 -> {"NUMLOCK"} [] OTHER -> {}

normalmap(d) ==
  CASE d = 30 -> "a" [] d = 28 -> "LF" [] d = 14 -> "BS" [] d = 83 -> "."
    [] d = 211 -> "KEY_DEL" [] OTHER -> NO

shiftmap(d) == IF d = 30 THEN "A" ELSE normalmap(d)

ctlmap(d) ==
  CASE d = 30 -> "C-a" [] d = 28 -> "CR" [] d = 211 -> "KEY_DEL" [] OTHER -> NO

charcode(flags, d) ==
  IF "CTL" \in flags THEN ctlmap(d)
  ELSE IF "SHIFT" \in flags THEN shiftmap(d) ELSE normalmap(d)

capslock(flags, ch) ==
  IF "CAPSLOCK" \notin flags THEN ch
  ELSE CASE ch = "a" -> "A" [] ch = "A" -> "a" [] OTHER -> ch

\* Mutant: a release leaves the E0 flag set.
kbd_decode_e0kept(flags, data) ==
  LET d == CASE data >= 128 -> IF "E0ESC" \in flags THEN data ELSE data - 128
             [] OTHER -> IF "E0ESC" \in flags THEN data + 128 ELSE data
      down == (flags \ {"E0ESC"}) \cup shiftcode(d)
  IN CASE data = 224 -> [shift |-> flags \cup {"E0ESC"}, c |-> NO]
       [] data # 224 /\ data >= 128 -> [shift |-> flags \ shiftcode(d), c |-> NO]
       [] OTHER -> [shift |-> down, c |-> charcode(down, d)]

\* kbd_proc_data after the byte is read: the new flags and the character.
kbd_decode(flags, data) ==
  LET d == CASE data >= 128 -> IF "E0ESC" \in flags THEN data ELSE data - 128
             [] OTHER -> IF "E0ESC" \in flags THEN data + 128 ELSE data
      down == (flags \ {"E0ESC"}) \cup shiftcode(d)
      toggled == (down \ togglecode(d)) \cup (togglecode(d) \ down)
  IN CASE data = 224 -> [shift |-> flags \cup {"E0ESC"}, c |-> NO]
       [] data # 224 /\ data >= 128 -> [shift |-> flags \ (shiftcode(d) \cup {"E0ESC"}), c |-> NO]
       [] OTHER -> [shift |-> toggled, c |-> capslock(toggled, charcode(toggled, d))]

-----------------------------------------------------------------------------
\* The screen, d = [buf, pos].  A control character moves the cursor, any
\* other one is written; a full screen scrolls by one row.
place(d, ch) ==
  CASE ch = "BS" -> IF d.pos > 0 THEN [buf |-> [d.buf EXCEPT ![d.pos - 1] = " "], pos |-> d.pos - 1] ELSE d
    [] ch = "LF" -> [d EXCEPT !.pos = ((@ + CRT_COLS) \div CRT_COLS) * CRT_COLS]
    [] ch = "CR" -> [d EXCEPT !.pos = (@ \div CRT_COLS) * CRT_COLS]
    [] OTHER -> [buf |-> [d.buf EXCEPT ![d.pos] = ch], pos |-> d.pos + 1]

\* Mutant: the last row is not cleared.
scroll_unclear(d) ==
  IF d.pos < CRT_SIZE THEN d
  ELSE [buf |-> [i \in 0..(CRT_SIZE - 1) |-> IF i < CRT_SIZE - CRT_COLS THEN d.buf[i + CRT_COLS] ELSE d.buf[i]],
        pos |-> d.pos - CRT_COLS]

scroll(d) ==
  IF d.pos < CRT_SIZE THEN d
  ELSE [buf |-> [i \in 0..(CRT_SIZE - 1) |-> IF i < CRT_SIZE - CRT_COLS THEN d.buf[i + CRT_COLS] ELSE " "],
        pos |-> d.pos - CRT_COLS]

\* cons_putc as seen on the screen; a tab calls cons_putc for five spaces.
cga_putc(d, ch) ==
  LET space(e) == scroll(place(e, " "))
  IN IF ch = "TAB" THEN scroll(space(space(space(space(space(d)))))) ELSE scroll(place(d, ch))

\* The reference: an endless roll of paper r = [text, pos, top] of which the
\* rows from top on are shown.  The head cannot go back above what is shown.
tty_move(r, ch) ==
  LET write(p, x) == [q \in DOMAIN r.text \cup {p} |-> IF q = p THEN x ELSE r.text[q]]
      row == r.pos \div CRT_COLS
  IN CASE ch = "BS" -> IF r.pos = r.top * CRT_COLS THEN r
                       ELSE [r EXCEPT !.text = write(r.pos - 1, " "), !.pos = @ - 1]
       [] ch = "LF" -> [r EXCEPT !.pos = (row + 1) * CRT_COLS]
       [] ch = "CR" -> [r EXCEPT !.pos = row * CRT_COLS]
       [] OTHER -> [r EXCEPT !.text = write(r.pos, ch), !.pos = @ + 1]

\* The paper moves up until the head's row is shown.
tty_feed(r) ==
  LET row == r.pos \div CRT_COLS
  IN [r EXCEPT !.top = IF row >= @ + CRT_ROWS THEN (row - CRT_ROWS) + 1 ELSE @]

tty_putc(r, ch) == tty_feed(tty_move(r, ch))

tty_type(r, ch) ==
  LET space(q) == tty_putc(q, " ")
  IN IF ch = "TAB" THEN space(space(space(space(space(r))))) ELSE tty_putc(r, ch)

\* A character, and the characters of s one after the other, on the screen and
\* on the roll, x = [screen, roll].
print(x, ch) == [screen |-> cga_putc(x.screen, ch), roll |-> tty_type(x.roll, ch)]
printed(x, s) ==
  LET f[i \in 0..Len(s)] == IF i = 0 THEN x ELSE print(f[i - 1], s[i])
  IN f[Len(s)]

cputs(s) ==
  LET x == printed([screen |-> [buf |-> crt_buf, pos |-> crt_pos], roll |-> roll], s)
  IN crt_buf' = x.screen.buf /\ crt_pos' = x.screen.pos /\ roll' = x.roll

-----------------------------------------------------------------------------
\* The outside world: keys go down (again and again while held) and up, and
\* bytes arrive on the serial line.
Input == pc # "reset" /\ events.in < MaxInput /\ events' = [events EXCEPT !.in = @ + 1]

\* A byte finds room in the keyboard's buffer, or is lost.
scan(b) ==
  \/ /\ Len(kbd) < KbdBuffer
     /\ kbd' = Append(kbd, b)
     /\ irq1' = (irq1 \/ (kbd = <<>> /\ ~aux))
     /\ UNCHANGED lost
  \/ /\ Len(kbd) = KbdBuffer
     /\ lost' = TRUE
     /\ UNCHANGED <<kbd, irq1>>

\* Key k goes down, or up if down is FALSE: the E0 of a key that has one ...
key_escape(k, down) ==
  /\ Input /\ KeyCode[k][1] /\ sending = <<>> /\ (down \/ k \in held)
  /\ scan(224)
  /\ sending' = <<k, down>>
  /\ UNCHANGED <<aux, held, latest, com1, shift, ring, c, line, screen, pc, envs>>

\* ... and the key's code, bit 7 of which tells a release.
key_code(k, down) ==
  /\ \/ KeyCode[k][1] /\ sending = <<k, down>> /\ pc # "reset" /\ UNCHANGED events
     \/ ~KeyCode[k][1] /\ sending = <<>> /\ (down \/ k \in held) /\ Input
  /\ scan(IF down THEN KeyCode[k][2] ELSE KeyCode[k][2] + 128)
  /\ sending' = <<>>
  /\ held' = IF down THEN held \cup {k} ELSE held \ {k}
  /\ latest' = IF k \notin DOMAIN Modifier THEN latest
               ELSE IF down THEN latest \cup {Modifier[k]} ELSE latest \ {Modifier[k]}
  /\ UNCHANGED <<aux, com1, shift, ring, c, line, screen, pc, envs>>

\* The mouse moves.  Its interrupt is masked.
mouse ==
  /\ Input /\ ~aux /\ kbd = <<>>
  /\ aux' = TRUE
  /\ UNCHANGED <<sending, kbd, held, latest, lost, irq1, com1, shift, ring, c, line, screen, pc, envs>>

\* The port's FIFO is off: an unread byte is overrun.
receive(ch) ==
  /\ Input
  /\ com1' = ch
  /\ UNCHANGED <<keyboard, irq1, shift, ring, c, line, screen, pc, envs>>

-----------------------------------------------------------------------------
\* Mutant: the write index wraps one slot early.
cons_put_early(ch) ==
  /\ buf' = [buf EXCEPT ![wpos] = ch]
  /\ wpos' = IF wpos + 1 >= CONSBUFSIZE - 1 THEN 0 ELSE wpos + 1
  /\ UNCHANGED rpos

\* The body of cons_intr's loop for a character that is not 0.
cons_put(ch) ==
  /\ buf' = [buf EXCEPT ![wpos] = ch]
  /\ wpos' = IF wpos + 1 = CONSBUFSIZE THEN 0 ELSE wpos + 1
  /\ UNCHANGED rpos

\* cons_getc polls the serial port until it is empty ...
serial_intr ==
  /\ pc = "serial"
  /\ \/ com1 # NO /\ cons_put(com1) /\ com1' = NO /\ UNCHANGED pc
     \/ com1 = NO /\ pc' = "kbd" /\ UNCHANGED <<com1, ring>>
  /\ UNCHANGED <<keyboard, irq1, shift, c, line, screen, envs, events>>

\* ... then the keyboard; Ctrl-Alt-Del resets the machine.  A byte of the
\* mouse ends the loop and stays where it is, before all later keys.
kbd_intr ==
  /\ pc = "kbd"
  /\ \/ /\ kbd # <<>> /\ ~aux
        /\ LET r == kbd_decode(shift, Head(kbd))
           IN /\ shift' = r.shift
              /\ IF r.c = NO THEN UNCHANGED ring ELSE cons_put(r.c)
              /\ pc' = IF r.c = "KEY_DEL" /\ {"CTL", "ALT"} \subseteq r.shift THEN "reset" ELSE pc
        /\ kbd' = Tail(kbd)
        /\ irq1' = (kbd' # <<>>)
     \/ (kbd = <<>> \/ aux) /\ pc' = "take" /\ UNCHANGED <<kbd, irq1, shift, ring>>
  /\ UNCHANGED <<sending, aux, held, latest, lost, com1, c, line, screen, envs, events>>

\* ... and takes the oldest character, or returns 0.
cons_getc ==
  /\ pc = "take"
  /\ pc' = IF envs > 0 THEN "user" ELSE "line"
  /\ \/ rpos # wpos /\ c' = buf[rpos] /\ rpos' = IF rpos + 1 = CONSBUFSIZE THEN 0 ELSE rpos + 1
     \/ rpos = wpos /\ c' = NO /\ UNCHANGED rpos
  /\ UNCHANGED <<input, shift, buf, wpos, line, screen, envs, events>>

-----------------------------------------------------------------------------
\* System calls of the user environments.
sys_cgetc ==
  /\ pc = "user"
  /\ pc' = "serial"
  /\ UNCHANGED <<input, shift, ring, c, line, screen, envs, events>>

sys_cputs(s) ==
  /\ pc = "user" /\ events.out < MaxOutput
  /\ cputs(s)
  /\ events' = [events EXCEPT !.out = @ + 1]
  /\ UNCHANGED <<input, shift, ring, c, line, pc, envs>>

\* trap_dispatch has no case for IRQ_KBD: the byte stays unread, and the
\* environment is destroyed, or, if the processor had halted in the kernel, the
\* kernel panics.  A panic, and sched_halt after the last environment, enter
\* the monitor; its messages are one line here, its prompt one character.
kbd_irq ==
  /\ pc = "user" /\ irq1 /\ kbd # <<>>
  /\ irq1' = FALSE
  /\ \E halted \in BOOLEAN : envs' = IF halted THEN 0 ELSE envs - 1
  /\ IF envs' = 0 THEN pc' = "serial" /\ cputs(<<"M", "LF", "K">>) ELSE UNCHANGED <<pc, screen>>
  /\ UNCHANGED <<keyboard, com1, shift, ring, c, line, events>>

Printable(ch) == ch \notin {NO, "BS", "LF", "CR", "TAB", "C-a"}

\* Mutant: a backspace is echoed on an empty line too.
readline_erase_any ==
  /\ c \in {"BS", "RUBOUT"}
  /\ line' = IF line = <<>> THEN line ELSE Front(line)
  /\ cputs(<<"BS">>)

readline_erase ==
  /\ c \in {"BS", "RUBOUT"} /\ line # <<>>
  /\ line' = Front(line)
  /\ cputs(<<"BS">>)

\* On an empty line a rubout is a character like any other.
readline_insert ==
  /\ Printable(c) /\ ~(c = "RUBOUT" /\ line # <<>>) /\ Len(line) < BUFLEN - 1
  /\ line' = Append(line, c)
  /\ cputs(<<c>>)

\* The line is done: runcmd prints something unless it is blank, and the
\* monitor prompts again.
readline_return ==
  /\ c \in {"LF", "CR"}
  /\ line' = <<>>
  /\ \E s \in IF \A i \in DOMAIN line : line[i] = " " THEN {<<>>} ELSE Outputs :
       cputs(<<"LF">> \o s \o <<"LF", "K">>)

readline_ignore ==
  /\ \/ c \in {NO, "TAB", "C-a"}
     \/ c = "BS" /\ line = <<>>
     \/ Printable(c) /\ Len(line) = BUFLEN - 1 /\ c # "RUBOUT"
  /\ UNCHANGED <<line, screen>>

\* readline's loop around getchar.
readline ==
  /\ pc = "line"
  /\ pc' = "serial"
  /\ readline_erase \/ readline_insert \/ readline_return \/ readline_ignore
  /\ UNCHANGED <<input, shift, ring, c, envs, events>>

-----------------------------------------------------------------------------
\* The BIOS leaves the cursor on some row.
Init ==
  /\ sending = <<>> /\ kbd = <<>> /\ aux = FALSE /\ irq1 = FALSE /\ com1 = NO
  /\ shift = {}
  /\ buf = [i \in 0..(CONSBUFSIZE - 1) |-> NO] /\ rpos = 0 /\ wpos = 0
  /\ c = NO /\ line = <<>>
  /\ crt_buf = [i \in 0..(CRT_SIZE - 1) |-> " "]
  /\ crt_pos \in {0, CRT_SIZE - CRT_COLS}
  /\ pc = "user" /\ envs \in 1..NUser
  /\ held = {} /\ latest = {} /\ lost = FALSE /\ events = [in |-> 0, out |-> 0]
  /\ roll = [text |-> [p \in {} |-> " "], pos |-> crt_pos, top |-> 0]

Next ==
  \/ \E k \in Keys, down \in BOOLEAN : key_escape(k, down) \/ key_code(k, down)
  \/ mouse
  \/ \E ch \in SerialChars : receive(ch)
  \/ \E s \in Outputs : sys_cputs(s)
  \/ serial_intr \/ kbd_intr \/ cons_getc \/ sys_cgetc \/ kbd_irq \/ readline

Spec == Init /\ [][Next]_vars

-----------------------------------------------------------------------------
\* The characters the ring holds, oldest first.
unread ==
  LET length == IF rpos <= wpos THEN wpos - rpos ELSE (wpos - rpos) + CONSBUFSIZE
      slot(i) == IF i < CONSBUFSIZE THEN i ELSE i - CONSBUFSIZE
  IN [i \in 1..length |-> buf[slot((rpos + i) - 1)]]

Queue == INSTANCE InputQueue WITH
  queue <- unread, returned <- c, None <- NO, Size <- CONSBUFSIZE,
  Char <- SerialChars \cup {"a", "A", "C-a", "LF", "CR", "BS", ".", "KEY_DEL"}

\* cons_intr and cons_getc implement a queue: whatever the indices' positions
\* and however device bytes fall between the polls, readers get the characters
\* in order, each once, until CONSBUFSIZE - 1 are unread.
ReadersSeeQueue == Queue!Spec

\* kbd_proc_data's static flags follow the keyboard as long as no byte of it
\* is lost: once the bytes are read, a modifier is on exactly if the last event
\* of one of its keys was a press, and E0ESC is set exactly if the polls have
\* cut a key's two bytes, so that the prefix meets the code it belongs to.
ModifiersFollowKeys ==
  (kbd = <<>> /\ ~lost) =>
    shift \ {"CAPSLOCK", "NUMLOCK"} = latest \cup (IF sending = <<>> THEN {} ELSE {"E0ESC"})

\* cga_putc shows the last CRT_ROWS rows of what was printed, with the cursor
\* where a teletype's head would be; it never writes outside the screen.
ScreenIsWindow ==
  /\ crt_pos = roll.pos - roll.top * CRT_COLS
  /\ crt_pos \in 0..(CRT_SIZE - 1) /\ DOMAIN crt_buf = 0..(CRT_SIZE - 1)
  /\ \A i \in 0..(CRT_SIZE - 1) :
       LET p == roll.top * CRT_COLS + i
       IN crt_buf[i] = IF p \in DOMAIN roll.text THEN roll.text[p] ELSE " "

\* What readline shows is what it returns: the prompt and the edited line stand
\* before the cursor, across line wraps, scrolling, erasing and ignored input.
EchoMatchesLine ==
  envs = 0 =>
    /\ crt_pos > Len(line) /\ crt_buf[(crt_pos - Len(line)) - 1] = "K"
    /\ \A i \in DOMAIN line : crt_buf[((crt_pos - Len(line)) + i) - 1] = line[i]
=============================================================================
