---------------------------- MODULE UpcallProofs ----------------------------
(***************************************************************************)
(* Proof that pfentry.S returns exactly to what a page fault interrupted,  *)
(* for an exception stack of any size and faults nested as deep as it      *)
(* allows.                                                                 *)
(***************************************************************************)
EXTENDS Upcall, SequenceTheorems, TLAPS

Regs == Int \X Int \X Int \X Int \X Int
Stacks == UNION {[s -> Int] : s \in SUBSET Addr}
Fault == [regs : Regs, stack : Stacks]

UpcallType ==
  /\ regs \in Regs
  /\ mem \in [Addr -> Int]
  /\ pending \in Seq(Fault)

\* The program, with the word it leaves free below its stack pointer.
Program(ip, sp) == ip \in {SET_ALLOC, SET_UPCALL, SET_HANDLER, PROGRAM} /\ sp \in 1..USTACKTOP

\* The frame at u that m holds for the registers q, as it was pushed and after
\* its esp is lowered; what pfentry.S still needs while it takes the frame down.
Flags(m, u, q) == m[u + UTF.eflags] = q[5]
Saved(m, u, q) ==
  m[u + UTF.ebp] = q[4] /\ m[u + UTF.eax] = q[3] /\ m[u + UTF.eip] = q[1] /\ Flags(m, u, q)
Whole(m, u, q) == Saved(m, u, q) /\ m[u + UTF.esp] = q[2]
Lowered(m, u, q) == m[u + UTF.esp] = q[2] - 1
Pushed(m, q) == m[q[2] - 1] = q[1]

\* Registers ip, sp, ax, bp, fl and memory m in the middle of handling a fault
\* that interrupted the registers q.
Handling(ip, sp, ax, bp, fl, m, q) ==
  LET u == utf_of(q[2])
  IN \/ ip = UPCALL /\ sp = u /\ Whole(m, u, q)
     \/ ip = UPCALL + 1 /\ sp = u - 1 /\ OnXstack(sp) /\ Whole(m, u, q)
     \/ ip = HANDLER /\ sp = u - 2 /\ OnXstack(sp) /\ m[u - 2] = UPCALL + 2 /\ Whole(m, u, q)
     \/ ip = HANDLER + 1 /\ sp = u - 3 /\ OnXstack(sp) /\ m[u - 2] = UPCALL + 2 /\ Whole(m, u, q)
     \/ /\ ip \in {HANDLER + 2, HANDLER + 3} /\ bp = u - 3 /\ OnXstack(bp) /\ sp \in {bp, bp - 1} /\ OnXstack(sp)
        /\ m[u - 2] = UPCALL + 2 /\ Whole(m, u, q)
     \/ ip = UPCALL + 2 /\ sp = u - 1 /\ OnXstack(sp) /\ Whole(m, u, q)
     \/ ip = UPCALL + 3 /\ sp = u /\ Whole(m, u, q)
     \/ ip = UPCALL + 4 /\ sp = u /\ Saved(m, u, q) /\ Lowered(m, u, q) /\ bp = q[2] - 1 /\ ax = q[1]
     \/ ip = UPCALL + 5 /\ sp = u /\ Saved(m, u, q) /\ Lowered(m, u, q) /\ Pushed(m, q)
     \/ /\ ip = UPCALL + 6 /\ sp = u + UTF.eip /\ Flags(m, u, q) /\ Lowered(m, u, q) /\ Pushed(m, q)
        /\ bp = q[4] /\ ax = q[3]
     \/ /\ ip = UPCALL + 7 /\ sp = u + UTF.esp /\ Lowered(m, u, q) /\ Pushed(m, q)
        /\ bp = q[4] /\ ax = q[3] /\ fl = q[5]
     \/ ip = UPCALL + 8 /\ sp = q[2] - 1 /\ Pushed(m, q) /\ bp = q[4] /\ ax = q[3] /\ fl = q[5]

\* What the k-th fault interrupted, whose stack nobody has written since: the
\* program, or the handling of the fault before.
Interrupted(k) ==
  LET q == pending[k].regs
      s == pending[k].stack
      p == pending[k - 1].regs
  IN /\ utf_of(q[2]) >= XSTACKBASE
     /\ k = 1 => Program(q[1], q[2])
     /\ k > 1 => /\ OnXstack(q[2]) /\ q[1] \in {UPCALL + 4, HANDLER + 2}
                 /\ Handling(q[1], q[2], q[3], q[4], q[5], s, p)
     /\ DOMAIN s = InUse(q[2]) /\ \A a \in InUse(q[2]) : mem[a] = s[a]

\* Nested frames lie below each other.
Nested == \A k \in 1..Len(pending), j \in 2..Len(pending) : j <= k => pending[k].regs[2] <= pending[j].regs[2]

IInv ==
  /\ UpcallType
  /\ \A k \in 1..Len(pending) : Interrupted(k)
  /\ Nested
  /\ pending = <<>> => Program(eip, esp)
  /\ pending # <<>> => xpage /\ Handling(eip, esp, eax, ebp, eflags, mem, pending[Len(pending)].regs)


-----------------------------------------------------------------------------
LEMMA Layout ==
  /\ USTACKTOP = 3 /\ XSTACKBASE = 20 /\ UXSTACKTOP \in Nat /\ UXSTACKTOP > XSTACKBASE
  /\ UTFSIZE = 7 /\ UPCALL = 10 /\ HANDLER = 30
  /\ UTF.ebp = 2 /\ UTF.eax = 3 /\ UTF.eip = 4 /\ UTF.eflags = 5 /\ UTF.esp = 6
  /\ \A a \in Int : OnXstack(a) <=> XSTACKBASE <= a /\ a < UXSTACKTOP
  /\ \A a \in Int : a \in Addr <=> (0 <= a /\ a < USTACKTOP) \/ OnXstack(a)
BY UpcallAssumption DEF USTACKTOP, XSTACKBASE, UXSTACKTOP, UTFSIZE, UPCALL, HANDLER, UTF, OnXstack, Addr

\* Where the frame for a stack pointer is, and the words above both.
LEMMA FrameAt ==
  ASSUME NEW sp \in Int, sp \in 1..USTACKTOP \/ OnXstack(sp), utf_of(sp) >= XSTACKBASE
  PROVE  /\ utf_of(sp) \in Int /\ utf_of(sp) + 7 <= UXSTACKTOP
         /\ OnXstack(sp) => utf_of(sp) = sp - 8
         /\ InUse(sp) \subseteq Addr
         /\ \A a \in Int : a \in InUse(sp) <=>
              IF OnXstack(sp) THEN sp <= a /\ a < UXSTACKTOP ELSE sp <= a /\ a < USTACKTOP
BY Layout DEF utf_of, InUse

LEMMA Depth ==
  ASSUME IInv
  PROVE  /\ Len(pending) \in Nat /\ (pending = <<>> <=> Len(pending) = 0)
         /\ pending # <<>> => Len(pending) = 1 \/ Len(pending) > 1
         /\ \A k \in 1..Len(pending) : k \in Nat /\ (k = 1 \/ k > 1) /\ k <= Len(pending)
<1> DEFINE n == Len(pending)
<1>1. n \in Nat /\ (pending = <<>> <=> n = 0)
  BY EmptySeq DEF IInv, UpcallType
<1> HIDE DEF n
<1>2. n = 0 \/ n = 1 \/ n > 1
  BY <1>1
<1>3. \A k \in 1..n : k \in Nat /\ (k = 1 \/ k > 1) /\ k <= n
  BY <1>1
<1>4. QED  BY <1>1, <1>2, <1>3 DEF n

\* The state while a fault is handled.
LEMMA Current ==
  ASSUME IInv, pending # <<>>
  PROVE  \E q \in Regs, u \in Int :
           /\ q = pending[Len(pending)].regs /\ u = utf_of(q[2]) /\ XSTACKBASE <= u /\ u + 7 <= UXSTACKTOP
           /\ q[1] \in Int /\ q[2] \in Int /\ q[3] \in Int /\ q[4] \in Int /\ q[5] \in Int
           /\ \/ Len(pending) = 1 /\ q[2] \in 1..USTACKTOP /\ ~OnXstack(q[2])
              \/ Len(pending) > 1 /\ OnXstack(q[2]) /\ q[2] = u + 8
           /\ Handling(eip, esp, eax, ebp, eflags, mem, q) /\ xpage
<1>1. Len(pending) \in Nat \ {0} /\ (Len(pending) = 1 \/ Len(pending) > 1)
  BY Depth
<1>2. pending[Len(pending)] \in Fault /\ Interrupted(Len(pending))
  BY <1>1, ElementOfSeq DEF IInv, UpcallType
<1>3. PICK q \in Regs : q = pending[Len(pending)].regs
  BY <1>2 DEF Fault
<1>4. q[1] \in Int /\ q[2] \in Int /\ q[3] \in Int /\ q[4] \in Int /\ q[5] \in Int
  BY DEF Regs
<1>5. /\ utf_of(q[2]) >= XSTACKBASE
      /\ Len(pending) = 1 => q[2] \in 1..USTACKTOP
      /\ Len(pending) > 1 => OnXstack(q[2])
  BY <1>2, <1>3 DEF Interrupted, Program
<1>6. q[2] \in 1..USTACKTOP => ~OnXstack(q[2])
  BY <1>4, Layout
<1>7. utf_of(q[2]) \in Int /\ utf_of(q[2]) + 7 <= UXSTACKTOP /\ (OnXstack(q[2]) => utf_of(q[2]) = q[2] - 8)
  BY <1>1, <1>4, <1>5, FrameAt
<1>8. Handling(eip, esp, eax, ebp, eflags, mem, q) /\ xpage
  BY <1>3 DEF IInv
<1>9. PICK u \in Int : u = utf_of(q[2]) /\ XSTACKBASE <= u /\ u + 7 <= UXSTACKTOP
  BY <1>5, <1>7, Layout
<1>10. OnXstack(q[2]) => q[2] = u + 8
  <2>1. OnXstack(q[2]) => u = q[2] - 8
    BY <1>7, <1>9
  <2>2. QED  BY <1>4, <2>1
<1>11. \/ Len(pending) = 1 /\ q[2] \in 1..USTACKTOP /\ ~OnXstack(q[2])
       \/ Len(pending) > 1 /\ OnXstack(q[2]) /\ q[2] = u + 8
  BY <1>1, <1>5, <1>6, <1>10
<1>12. QED  BY <1>3, <1>4, <1>8, <1>9, <1>11

\* A step that leaves the stacks and the faults alone.
LEMMA Quiet ==
  ASSUME IInv, UNCHANGED <<mem, pending>>, regs' \in Regs, xpage => xpage',
         pending = <<>> => Program(eip', esp'),
         pending # <<>> => Handling(eip', esp', eax', ebp', eflags', mem, pending[Len(pending)].regs)
  PROVE  IInv'
<1>1. UpcallType'
  BY DEF IInv, UpcallType
<1>2. \A k \in 1..Len(pending) : Interrupted(k)'
  BY DEF IInv, Interrupted
<1>3. Nested'
  BY DEF IInv, Nested
<1>4. QED  BY <1>1, <1>2, <1>3 DEF IInv

\* A store outside the stacks of what the faults interrupted.
LEMMA Written ==
  ASSUME IInv, NEW a \in Addr, NEW w \in Int, mem' = [mem EXCEPT ![a] = w], UNCHANGED pending,
         regs' \in Regs, xpage => xpage',
         \A k \in 1..Len(pending) : a \notin InUse(pending[k].regs[2]),
         pending = <<>> => Program(eip', esp'),
         pending # <<>> => Handling(eip', esp', eax', ebp', eflags', mem', pending[Len(pending)].regs)
  PROVE  IInv'
<1>1. UpcallType' /\ \A b \in Addr \ {a} : mem'[b] = mem[b]
  BY DEF IInv, UpcallType
<1>2. ASSUME NEW k \in 1..Len(pending) PROVE Interrupted(k)'
  <2>1. Interrupted(k) /\ pending[k] \in Fault
    BY ElementOfSeq DEF IInv, UpcallType
  <2>2. \A b \in DOMAIN pending[k].stack : b \in Addr
    BY <2>1 DEF Fault, Stacks
  <2>3. \A b \in InUse(pending[k].regs[2]) : mem'[b] = pending[k].stack[b]
    BY <1>1, <2>1, <2>2 DEF Interrupted
  <2>4. QED  BY <2>1, <2>3 DEF Interrupted
<1>3. Nested'
  BY DEF IInv, Nested
<1>4. QED  BY <1>1, <1>2, <1>3 DEF IInv

\* Below the frame of the innermost fault, in it and in the word above it
\* nothing is in use by what the faults interrupted.
LEMMA Below ==
  ASSUME IInv, pending # <<>>, NEW a \in Int, NEW q, q = pending[Len(pending)].regs,
         \/ XSTACKBASE <= a /\ a < utf_of(q[2]) + 7
         \/ a = q[2] - 1
  PROVE  \A k \in 1..Len(pending) : a \notin InUse(pending[k].regs[2])
<1> SUFFICES ASSUME NEW k \in 1..Len(pending) PROVE a \notin InUse(pending[k].regs[2])
  OBVIOUS
<1>1. PICK r \in Regs, u \in Int :
        /\ r = q /\ u = utf_of(q[2]) /\ XSTACKBASE <= u /\ u + 7 <= UXSTACKTOP /\ q[2] \in Int
        /\ \/ Len(pending) = 1 /\ q[2] \in 1..USTACKTOP /\ ~OnXstack(q[2])
           \/ Len(pending) > 1 /\ OnXstack(q[2]) /\ q[2] = u + 8
  BY Current
<1>2. Len(pending) \in Nat \ {0}
  BY EmptySeq DEF IInv, UpcallType
<1>3. /\ pending[k].regs[2] \in Int /\ Interrupted(k)
      /\ utf_of(pending[k].regs[2]) >= XSTACKBASE
      /\ k = 1 => pending[k].regs[2] \in 1..USTACKTOP
      /\ k > 1 => OnXstack(pending[k].regs[2])
  <2>1. pending[k] \in Fault /\ Interrupted(k)
    BY ElementOfSeq DEF IInv, UpcallType
  <2>2. QED  BY <2>1 DEF Fault, Regs, Interrupted, Program
<1>0. k = 1 \/ k > 1
  BY Depth
<1>4. k > 1 => q[2] <= pending[k].regs[2] /\ OnXstack(q[2])
  BY <1>1, <1>2 DEF IInv, Nested
<1>5. a \in InUse(pending[k].regs[2]) <=>
        IF OnXstack(pending[k].regs[2]) THEN pending[k].regs[2] <= a /\ a < UXSTACKTOP
        ELSE pending[k].regs[2] <= a /\ a < USTACKTOP
  BY <1>0, <1>3, FrameAt
<1>6. CASE k > 1
  BY <1>1, <1>2, <1>3, <1>4, <1>5, <1>6, Layout
<1>7. CASE k = 1 /\ Len(pending) = 1
  BY <1>1, <1>3, <1>5, <1>7, Layout
<1>8. CASE k = 1 /\ Len(pending) > 1
  BY <1>1, <1>3, <1>5, <1>8, Layout
<1>9. QED  BY <1>0, <1>1, <1>6, <1>7, <1>8

LEMMA SavedRegs ==
  ASSUME IInv, NEW k \in 1..Len(pending)
  PROVE  /\ pending[k] \in Fault /\ Interrupted(k) /\ pending[k].regs \in Regs
         /\ pending[k].regs[1] \in Int /\ pending[k].regs[2] \in Int /\ pending[k].regs[3] \in Int
         /\ pending[k].regs[4] \in Int /\ pending[k].regs[5] \in Int
<1>1. pending[k] \in Fault /\ Interrupted(k)
  BY ElementOfSeq DEF IInv, UpcallType
<1>2. pending[k].regs \in Regs
  BY <1>1 DEF Fault
<1>3. QED  BY <1>1, <1>2 DEF Regs

\* Where a fault may hit the handling of another.
LEMMA FaultPlace ==
  ASSUME NEW ip \in {UPCALL + 4, HANDLER + 2}, NEW sp \in Int, NEW ax, NEW bp \in Int, NEW fl, NEW m, NEW q,
         NEW u \in Int, u = utf_of(q[2]), XSTACKBASE <= u, u + 7 <= UXSTACKTOP,
         Handling(ip, sp, ax, bp, fl, m, q)
  PROVE  OnXstack(sp) /\ sp <= u
<1>1. CASE ip = UPCALL + 4
  <2>1. sp = u
    BY <1>1, Layout DEF Handling
  <2>2. QED  BY <2>1, Layout
<1>2. CASE ip = HANDLER + 2
  <2>1. bp = u - 3 /\ sp \in {bp, bp - 1} /\ OnXstack(sp)
    BY <1>2, Layout DEF Handling
  <2>2. QED  BY <2>1, Layout
<1>3. QED  BY <1>1, <1>2

\* The handling of a fault depends on the words in use only.
LEMMA SameHandling ==
  ASSUME NEW ip \in {UPCALL + 4, HANDLER + 2}, NEW sp \in Int, NEW ax, NEW bp \in Int, NEW fl, NEW q, q[2] \in Int,
         q[2] \in 1..USTACKTOP \/ OnXstack(q[2]), utf_of(q[2]) >= XSTACKBASE, OnXstack(sp),
         NEW m, NEW s, \A a \in Int : sp <= a /\ a < UXSTACKTOP => m[a] = s[a],
         Handling(ip, sp, ax, bp, fl, m, q)
  PROVE  Handling(ip, sp, ax, bp, fl, s, q)
<1>1. PICK u \in Int : u = utf_of(q[2]) /\ XSTACKBASE <= u /\ u + 7 <= UXSTACKTOP
  BY FrameAt, Layout
<1>2. CASE ip = UPCALL + 4
  <2>1. sp = u /\ Saved(m, u, q) /\ Lowered(m, u, q) /\ bp = q[2] - 1 /\ ax = q[1]
    BY <1>1, <1>2, Layout DEF Handling
  <2>2. Saved(s, u, q) /\ Lowered(s, u, q)
    BY <1>1, <2>1, Layout DEF Saved, Flags, Lowered
  <2>3. QED  BY <1>1, <1>2, <2>1, <2>2, Layout DEF Handling
<1>3. CASE ip = HANDLER + 2
  <2>1. bp = u - 3 /\ OnXstack(bp) /\ sp \in {bp, bp - 1} /\ m[u - 2] = UPCALL + 2 /\ Whole(m, u, q)
    BY <1>1, <1>3, Layout DEF Handling
  <2>2. s[u - 2] = UPCALL + 2 /\ Whole(s, u, q)
    BY <1>1, <2>1, Layout DEF Whole, Saved, Flags
  <2>3. QED  BY <1>1, <1>3, <2>1, <2>2, Layout DEF Handling
<1>4. QED  BY <1>2, <1>3


-----------------------------------------------------------------------------
\* The words of the frame that page_fault_handler pushes.
LEMMA FrameWords ==
  ASSUME NEW va
  PROVE  /\ frame(va)[CHOOSE n \in DOMAIN UTF : UTF[n] = 2] = ebp
         /\ frame(va)[CHOOSE n \in DOMAIN UTF : UTF[n] = 3] = eax
         /\ frame(va)[CHOOSE n \in DOMAIN UTF : UTF[n] = 4] = eip
         /\ frame(va)[CHOOSE n \in DOMAIN UTF : UTF[n] = 5] = eflags
         /\ frame(va)[CHOOSE n \in DOMAIN UTF : UTF[n] = 6] = esp
<1>1. /\ DOMAIN UTF = {"fault_va", "err", "ebp", "eax", "eip", "eflags", "esp"}
      /\ UTF["fault_va"] = 0 /\ UTF["err"] = 1 /\ UTF["ebp"] = 2 /\ UTF["eax"] = 3 /\ UTF["eip"] = 4
      /\ UTF["eflags"] = 5 /\ UTF["esp"] = 6
  BY DEF UTF
<1>2. /\ frame(va)["ebp"] = ebp /\ frame(va)["eax"] = eax /\ frame(va)["eip"] = eip
      /\ frame(va)["eflags"] = eflags /\ frame(va)["esp"] = esp
  BY <1>1 DEF frame
<1>3. (CHOOSE n \in DOMAIN UTF : UTF[n] = 2) = "ebp"
  <2>1. \E n \in DOMAIN UTF : UTF[n] = 2
    BY <1>1
  <2>2. \A n \in DOMAIN UTF : UTF[n] = 2 => n = "ebp"
    BY <1>1
  <2>3. QED  BY <2>1, <2>2
<1>4. (CHOOSE n \in DOMAIN UTF : UTF[n] = 3) = "eax"
  <2>1. \E n \in DOMAIN UTF : UTF[n] = 3
    BY <1>1
  <2>2. \A n \in DOMAIN UTF : UTF[n] = 3 => n = "eax"
    BY <1>1
  <2>3. QED  BY <2>1, <2>2
<1>5. (CHOOSE n \in DOMAIN UTF : UTF[n] = 4) = "eip"
  <2>1. \E n \in DOMAIN UTF : UTF[n] = 4
    BY <1>1
  <2>2. \A n \in DOMAIN UTF : UTF[n] = 4 => n = "eip"
    BY <1>1
  <2>3. QED  BY <2>1, <2>2
<1>6. (CHOOSE n \in DOMAIN UTF : UTF[n] = 5) = "eflags"
  <2>1. \E n \in DOMAIN UTF : UTF[n] = 5
    BY <1>1
  <2>2. \A n \in DOMAIN UTF : UTF[n] = 5 => n = "eflags"
    BY <1>1
  <2>3. QED  BY <2>1, <2>2
<1>7. (CHOOSE n \in DOMAIN UTF : UTF[n] = 6) = "esp"
  <2>1. \E n \in DOMAIN UTF : UTF[n] = 6
    BY <1>1
  <2>2. \A n \in DOMAIN UTF : UTF[n] = 6 => n = "esp"
    BY <1>1
  <2>3. QED  BY <2>1, <2>2
<1>8. QED  BY <1>2, <1>3, <1>4, <1>5, <1>6, <1>7

\* Every word of the frame is one of the registers, 14 or the address.
LEMMA FrameType ==
  ASSUME UpcallType, NEW va \in Int, NEW i \in 0..6
  PROVE  frame(va)[CHOOSE n \in DOMAIN UTF : UTF[n] = i] \in Int
<1>1. /\ DOMAIN UTF = {"fault_va", "err", "ebp", "eax", "eip", "eflags", "esp"}
      /\ UTF["fault_va"] = 0 /\ UTF["err"] = 1 /\ UTF["ebp"] = 2 /\ UTF["eax"] = 3 /\ UTF["eip"] = 4
      /\ UTF["eflags"] = 5 /\ UTF["esp"] = 6
  BY DEF UTF
<1>2. \E n \in DOMAIN UTF : UTF[n] = i
  BY <1>1
<1>3. PICK n \in DOMAIN UTF : n = CHOOSE x \in DOMAIN UTF : UTF[x] = i
  BY <1>2
<1>4. eip \in Int /\ esp \in Int /\ eax \in Int /\ ebp \in Int /\ eflags \in Int /\ T_PGFLT \in Int
  BY DEF UpcallType, Regs, regs, T_PGFLT
<1>5. frame(va)[n] \in Int
  BY <1>1, <1>4 DEF frame
<1>6. QED  BY <1>3, <1>5

\* A fault, of the program or in the middle of handling another one.
LEMMA PushFault ==
  ASSUME IInv, NEW va \in Int, page_fault_handler(va),
         pending # <<>> => eip \in {UPCALL + 4, HANDLER + 2}
  PROVE  IInv' /\ ~(Len(pending') < Len(pending))
<1>t. /\ regs \in Regs /\ mem \in [Addr -> Int] /\ pending \in Seq(Fault) /\ Len(pending) \in Nat
      /\ eip \in Int /\ esp \in Int /\ eax \in Int /\ ebp \in Int /\ eflags \in Int
  BY Depth DEF IInv, UpcallType, Regs, regs
<1>d. CASE env_destroy
  <2>1. UNCHANGED <<eip, esp, eax, ebp, eflags, mem, pending, xpage>>
    BY <1>d DEF env_destroy, regs
  <2>2. IInv'
    BY <1>t, <2>1, Quiet DEF IInv, regs
  <2>3. QED  BY <1>t, <2>1, <2>2
<1>p. CASE ~env_destroy
  <2>0. PICK n \in Nat : /\ n = Len(pending) /\ (pending = <<>> <=> n = 0) /\ (pending # <<>> => n \in 1..n)
                        /\ \A k \in 1..n : k = 1 \/ k > 1
    <3>1. PICK n \in Nat : n = Len(pending)
      BY <1>t
    <3>2. (pending = <<>> <=> n = 0)
      BY <3>1, Depth
    <3>3. (n # 0 => n \in 1..n) /\ \A k \in 1..n : k = 1 \/ k > 1
      OBVIOUS
    <3>4. QED  BY <3>1, <3>2, <3>3
  <2> DEFINE u == utf_of(esp)
             new == [regs |-> regs, stack |-> [a \in InUse(esp) |-> mem[a]]]
  <2>1. /\ xpage /\ u >= XSTACKBASE
        /\ mem' = [a \in Addr |-> IF a \in u..(u + UTFSIZE - 1)
                                  THEN frame(va)[CHOOSE x \in DOMAIN UTF : UTF[x] = a - u] ELSE mem[a]]
        /\ eip' = UPCALL /\ esp' = u /\ pending' = Append(pending, new)
        /\ UNCHANGED <<eax, ebp, eflags, xpage>>
    BY <1>p DEF page_fault_handler
  <2>2. esp \in 1..USTACKTOP \/ OnXstack(esp)
    <3>1. CASE pending = <<>>
      BY <3>1 DEF IInv, Program
    <3>2. CASE pending # <<>>
      <4>1. PICK q \in Regs, v \in Int :
              /\ v = utf_of(q[2]) /\ XSTACKBASE <= v /\ v + 7 <= UXSTACKTOP
              /\ Handling(eip, esp, eax, ebp, eflags, mem, q)
        BY <3>2, Current
      <4>2. QED  BY <1>t, <3>2, <4>1, FaultPlace
    <3>3. QED  BY <3>1, <3>2
  <2>3. /\ u \in Int /\ u + 7 <= UXSTACKTOP /\ (OnXstack(esp) => u = esp - 8) /\ InUse(esp) \subseteq Addr
        /\ \A a \in Int : a \in InUse(esp) <=>
             IF OnXstack(esp) THEN esp <= a /\ a < UXSTACKTOP ELSE esp <= a /\ a < USTACKTOP
    BY <1>t, <2>1, <2>2, FrameAt
  <2>4. new \in Fault /\ new.regs = regs /\ DOMAIN new.stack = InUse(esp)
        /\ \A a \in InUse(esp) : new.stack[a] = mem[a]
    <3>1. [a \in InUse(esp) |-> mem[a]] \in [InUse(esp) -> Int]
      BY <1>t, <2>3
    <3>2. [a \in InUse(esp) |-> mem[a]] \in Stacks
      BY <2>3, <3>1 DEF Stacks
    <3>3. QED  BY <1>t, <3>2 DEF Fault
  <2> HIDE DEF u, new
  <2>5. /\ pending' \in Seq(Fault) /\ pending' # <<>> /\ Len(pending') = n + 1 /\ pending'[n + 1] = new
        /\ \A k \in 1..n : pending'[k] = pending[k]
    BY <1>t, <2>0, <2>1, <2>4, AppendProperties
  <2>6. mem' \in [Addr -> Int]
    <3>1. ASSUME NEW a \in Addr PROVE mem'[a] \in Int
      <4>1. a \in Int
        BY Layout DEF Addr
      <4>2. CASE a \in u..(u + UTFSIZE - 1)
        <5>1. a - u \in 0..6
          BY <2>3, <4>1, <4>2, Layout
        <5>2. frame(va)[CHOOSE x \in DOMAIN UTF : UTF[x] = a - u] \in Int
          BY <5>1, FrameType DEF IInv
        <5>3. QED  BY <2>1, <4>2, <5>2
      <4>3. CASE a \notin u..(u + UTFSIZE - 1)
        BY <1>t, <2>1, <4>3
      <4>4. QED  BY <4>2, <4>3
    <3>2. mem' = [a \in Addr |-> mem'[a]]
      BY <2>1
    <3>3. QED  BY <3>1, <3>2
  <2>7. \A a \in Addr : a < u \/ a > u + 6 => mem'[a] = mem[a]
    BY <2>1, <2>3, Layout
  <2>8. Whole(mem', u, regs)
    <3>0. u + 2 \in Addr /\ u + 3 \in Addr /\ u + 4 \in Addr /\ u + 5 \in Addr /\ u + 6 \in Addr
      BY <2>1, <2>3, Layout
    <3>1. ASSUME NEW i \in 2..6
          PROVE  mem'[u + i] = frame(va)[CHOOSE x \in DOMAIN UTF : UTF[x] = i]
      <4>1. u + i \in Addr /\ u + i \in u..(u + UTFSIZE - 1) /\ (u + i) - u = i
        BY <2>1, <2>3, Layout
      <4>2. QED  BY <2>1, <4>1
    <3>2. mem'[u + 2] = ebp
      <4>1. mem'[u + 2] = frame(va)[CHOOSE x \in DOMAIN UTF : UTF[x] = 2]
        BY <3>1
      <4>2. frame(va)[CHOOSE x \in DOMAIN UTF : UTF[x] = 2] = ebp
        BY FrameWords, Zenon
      <4>3. QED  BY <4>1, <4>2, Zenon
    <3>3. mem'[u + 3] = eax
      <4>1. mem'[u + 3] = frame(va)[CHOOSE x \in DOMAIN UTF : UTF[x] = 3]
        BY <3>1
      <4>2. frame(va)[CHOOSE x \in DOMAIN UTF : UTF[x] = 3] = eax
        BY FrameWords, Zenon
      <4>3. QED  BY <4>1, <4>2, Zenon
    <3>4. mem'[u + 4] = eip
      <4>1. mem'[u + 4] = frame(va)[CHOOSE x \in DOMAIN UTF : UTF[x] = 4]
        BY <3>1
      <4>2. frame(va)[CHOOSE x \in DOMAIN UTF : UTF[x] = 4] = eip
        BY FrameWords, Zenon
      <4>3. QED  BY <4>1, <4>2, Zenon
    <3>5. mem'[u + 5] = eflags
      <4>1. mem'[u + 5] = frame(va)[CHOOSE x \in DOMAIN UTF : UTF[x] = 5]
        BY <3>1
      <4>2. frame(va)[CHOOSE x \in DOMAIN UTF : UTF[x] = 5] = eflags
        BY FrameWords, Zenon
      <4>3. QED  BY <4>1, <4>2, Zenon
    <3>6. mem'[u + 6] = esp
      <4>1. mem'[u + 6] = frame(va)[CHOOSE x \in DOMAIN UTF : UTF[x] = 6]
        BY <3>1
      <4>2. frame(va)[CHOOSE x \in DOMAIN UTF : UTF[x] = 6] = esp
        BY FrameWords, Zenon
      <4>3. QED  BY <4>1, <4>2, Zenon
    <3>7. QED  BY <3>2, <3>3, <3>4, <3>5, <3>6, Layout DEF Whole, Saved, Flags, regs
  <2>9. Handling(eip', esp', eax', ebp', eflags', mem', regs)
    BY <2>1, <2>8, Layout DEF Handling, u, regs
  <2>10. pending # <<>> =>
          /\ OnXstack(esp) /\ (n > 1 => esp < pending[n].regs[2])
          /\ Handling(eip, esp, eax, ebp, eflags, new.stack, pending[n].regs)
    <3> SUFFICES ASSUME pending # <<>>
                 PROVE  /\ OnXstack(esp) /\ (n > 1 => esp < pending[n].regs[2])
                        /\ Handling(eip, esp, eax, ebp, eflags, new.stack, pending[n].regs)
      OBVIOUS
    <3>1. PICK q \in Regs, v \in Int :
            /\ q = pending[n].regs /\ v = utf_of(q[2]) /\ XSTACKBASE <= v /\ v + 7 <= UXSTACKTOP /\ q[2] \in Int
            /\ \/ n = 1 /\ q[2] \in 1..USTACKTOP /\ ~OnXstack(q[2])
               \/ n > 1 /\ OnXstack(q[2]) /\ q[2] = v + 8
            /\ Handling(eip, esp, eax, ebp, eflags, mem, q)
      BY <2>0, Current
    <3>2. OnXstack(esp) /\ esp <= v
      BY <1>t, <3>1, FaultPlace
    <3>3. n > 1 => esp < q[2]
      BY <1>t, <3>1, <3>2
    <3>4. \A a \in Int : esp <= a /\ a < UXSTACKTOP => mem[a] = new.stack[a]
      BY <2>3, <2>4, <3>2
    <3>5. Handling(eip, esp, eax, ebp, eflags, new.stack, q)
      <4>1. eip \in {UPCALL + 4, HANDLER + 2} /\ utf_of(q[2]) >= XSTACKBASE
        BY <3>1, Layout
      <4>2. q[2] \in 1..USTACKTOP \/ OnXstack(q[2])
        BY <3>1
      <4>3. q[2] \in Int /\ Handling(eip, esp, eax, ebp, eflags, mem, q) /\ OnXstack(esp)
        BY <3>1, <3>2
      <4>4. QED  BY <1>t, <3>4, <4>1, <4>2, <4>3, SameHandling
    <3>6. QED  BY <3>1, <3>2, <3>3, <3>5
  <2>11. ASSUME NEW k \in 1..(n + 1) PROVE Interrupted(k)'
    <3>1. CASE k = n + 1
      <4>1. pending'[k] = new /\ new.regs = regs /\ regs[1] = eip /\ regs[2] = esp /\ regs[3] = eax
            /\ regs[4] = ebp /\ regs[5] = eflags
        BY <2>4, <2>5, <3>1 DEF regs
      <4>2. \A a \in InUse(esp) : mem'[a] = new.stack[a]
        <5>1. ASSUME NEW a \in InUse(esp) PROVE a \in Addr /\ (a < u \/ a > u + 6)
          <6>1. a \in Addr /\ a \in Int
            BY <2>3, Layout DEF Addr
          <6>2. QED  BY <1>t, <2>1, <2>2, <2>3, <6>1, Layout
        <5>2. QED  BY <2>4, <2>7, <5>1
      <4>3. k = 1 => Program(eip, esp)
        BY <1>t, <3>1, <2>0 DEF IInv
      <4>4. k > 1 => /\ OnXstack(esp) /\ eip \in {UPCALL + 4, HANDLER + 2}
                     /\ Handling(eip, esp, eax, ebp, eflags, new.stack, pending'[k - 1].regs)
        <5> SUFFICES ASSUME k > 1 PROVE <4>4!2
          OBVIOUS
        <5>1. pending # <<>> /\ k - 1 = n /\ n \in 1..n
          BY <1>t, <3>1, <2>0
        <5>2. pending'[k - 1] = pending[n]
          BY <2>5, <5>1
        <5>3. QED  BY <2>10, <5>1, <5>2
      <4>5. QED  BY <2>1, <2>4, <4>1, <4>2, <4>3, <4>4 DEF Interrupted, u
    <3>2. CASE k \in 1..n
      <4>1. /\ Interrupted(k) /\ pending'[k] = pending[k] /\ pending[k] \in Fault
            /\ k > 1 => pending'[k - 1] = pending[k - 1]
        BY <1>t, <2>0, <2>5, <3>2, ElementOfSeq DEF IInv
      <4>2. pending # <<>> /\ OnXstack(esp) /\ u = esp - 8
        BY <1>t, <2>3, <2>10, <3>2, <2>0
      <4>3. /\ pending[k].regs[2] \in Int /\ utf_of(pending[k].regs[2]) >= XSTACKBASE
            /\ k = 1 => pending[k].regs[2] \in 1..USTACKTOP
            /\ k > 1 => OnXstack(pending[k].regs[2])
        BY <4>1 DEF Fault, Regs, Interrupted, Program
      <4>4. k > 1 => esp <= pending[k].regs[2]
        <5> SUFFICES ASSUME k > 1 PROVE esp <= pending[k].regs[2]
          OBVIOUS
        <5>1. n \in 1..n /\ k \in 2..n /\ k <= n /\ n > 1
          BY <1>t, <3>2
        <5>2. pending[n].regs[2] <= pending[k].regs[2] /\ esp < pending[n].regs[2]
          BY <2>0, <2>10, <4>2, <5>1 DEF IInv, Nested
        <5>3. pending[n].regs[2] \in Int
          BY <2>0, <5>1, SavedRegs
        <5>4. QED  BY <1>t, <4>3, <5>2, <5>3
      <4>5. \A a \in InUse(pending[k].regs[2]) : mem'[a] = pending[k].stack[a]
        <5> SUFFICES ASSUME NEW a \in InUse(pending[k].regs[2]) PROVE mem'[a] = pending[k].stack[a]
          OBVIOUS
        <5>1. /\ a \in Int /\ a \in Addr
              /\ IF OnXstack(pending[k].regs[2]) THEN pending[k].regs[2] <= a /\ a < UXSTACKTOP
                 ELSE pending[k].regs[2] <= a /\ a < USTACKTOP
          <6>1. InUse(pending[k].regs[2]) \subseteq Addr
            BY <3>2, <4>3, FrameAt, <2>0
          <6>2. a \in Int
            BY <6>1, Layout DEF Addr
          <6>3. QED  BY <3>2, <4>3, <6>1, <6>2, FrameAt, <2>0
        <5>2. a < u \/ a > u + 6
          <6>1. CASE k > 1
            <7>1. esp <= a
              BY <1>t, <4>3, <4>4, <5>1, <6>1
            <7>2. QED  BY <1>t, <4>2, <5>1, <7>1
          <6>2. CASE k = 1
            <7>1. a < USTACKTOP
              BY <4>3, <5>1, <6>2, Layout
            <7>2. QED  BY <2>1, <2>3, <5>1, <7>1, Layout
          <6>3. QED  BY <2>0, <3>2, <6>1, <6>2
        <5>3. QED  BY <2>7, <4>1, <5>1, <5>2 DEF Interrupted
      <4>6. QED  BY <4>1, <4>5 DEF Interrupted
    <3>3. QED  BY <1>t, <3>1, <3>2
  <2>12. Nested'
    <3> SUFFICES ASSUME NEW k \in 1..(n + 1), NEW j \in 2..(n + 1), j <= k
                 PROVE  pending'[k].regs[2] <= pending'[j].regs[2]
      BY <2>5 DEF Nested
    <3>1. CASE k \in 1..n
      BY <1>t, <2>0, <2>5, <3>1 DEF IInv, Nested
    <3>2. CASE k = n + 1 /\ j = n + 1
      BY <1>t, <2>4, <2>5, <3>2 DEF regs
    <3>3. CASE k = n + 1 /\ j \in 2..n
      <4>1. pending'[k].regs[2] = esp /\ pending'[j] = pending[j]
        BY <1>t, <2>4, <2>5, <3>3 DEF regs
      <4>2. n \in 1..n /\ j \in 1..n /\ n > 1 /\ pending # <<>> /\ j <= n
        BY <1>t, <3>3, <2>0
      <4>3. pending[n].regs[2] <= pending[j].regs[2] /\ esp < pending[n].regs[2]
        BY <2>0, <2>10, <3>3, <4>2 DEF IInv, Nested
      <4>4. pending[n].regs[2] \in Int /\ pending[j].regs[2] \in Int
        BY <2>0, <4>2, SavedRegs
      <4>5. esp <= pending[j].regs[2]
        BY <1>t, <4>3, <4>4
      <4>6. QED  BY <4>1, <4>5
    <3>4. QED  BY <1>t, <3>1, <3>2, <3>3
  <2>13. UpcallType'
    <3>1. eip' \in Int /\ esp' \in Int /\ eax' \in Int /\ ebp' \in Int /\ eflags' \in Int
      BY <1>t, <2>1, <2>3, Layout
    <3>2. regs' \in Regs
      BY <3>1 DEF Regs, regs
    <3>3. QED  BY <2>5, <2>6, <3>2 DEF UpcallType
  <2>14. IInv'
    BY <2>0, <2>1, <2>4, <2>5, <2>9, <2>11, <2>12, <2>13 DEF IInv
  <2>15. ~(Len(pending') < Len(pending))
    BY <2>0, <2>5
  <2>16. QED  BY <2>14, <2>15
<1>q. QED  BY <1>d, <1>p



-----------------------------------------------------------------------------
LEMMA Registers ==
  ASSUME IInv
  PROVE  /\ eip \in Int /\ esp \in Int /\ eax \in Int /\ ebp \in Int /\ eflags \in Int
         /\ mem \in [Addr -> Int] /\ pending \in Seq(Fault)
BY DEF IInv, UpcallType, Regs, regs

\* Outside the upcall and the handler no fault is pending.
LEMMA ProgramFree ==
  ASSUME IInv, eip \in {SET_ALLOC, SET_UPCALL, SET_HANDLER, PROGRAM}
  PROVE  pending = <<>> /\ esp \in 1..USTACKTOP
<1>1. eip < 10
  BY DEF SET_ALLOC, SET_UPCALL, SET_HANDLER, PROGRAM
<1>2. pending = <<>>
  <2> SUFFICES ASSUME pending # <<>> PROVE FALSE
    OBVIOUS
  <2>1. PICK q : Handling(eip, esp, eax, ebp, eflags, mem, q)
    BY Current
  <2>2. \/ eip \in {UPCALL, UPCALL + 1, UPCALL + 2, UPCALL + 3, UPCALL + 4, UPCALL + 5, UPCALL + 6, UPCALL + 7, UPCALL + 8}
        \/ eip \in {HANDLER, HANDLER + 1, HANDLER + 2, HANDLER + 3}
    BY <2>1, Zenon DEF Handling
  <2>3. QED  BY <1>1, <2>2, Layout
<1>3. QED  BY <1>2 DEF IInv, Program

\* Before any fault: set_pgfault_handler and the program.
LEMMA SetHandler ==
  ASSUME IInv, set_pgfault_handler
  PROVE  IInv' /\ UNCHANGED pending
<1>1. pending = <<>> /\ esp \in 1..USTACKTOP
  BY ProgramFree DEF set_pgfault_handler
<1>2. UNCHANGED <<esp, eax, ebp, eflags, mem, pending>> /\ (xpage => xpage')
      /\ eip' \in {SET_ALLOC, SET_UPCALL, SET_HANDLER, PROGRAM}
  <2>1. CASE eip' = eip + 1 /\ xpage' /\ UNCHANGED <<esp, eax, ebp, eflags, mem, pending>>
    <3>1. eip' \in {SET_ALLOC, SET_UPCALL, SET_HANDLER, PROGRAM}
      BY <2>1 DEF set_pgfault_handler, SET_ALLOC, SET_UPCALL, SET_HANDLER, PROGRAM
    <3>2. QED  BY <2>1, <3>1
  <2>2. CASE eip = SET_ALLOC /\ env_destroy
    BY <2>2 DEF env_destroy, regs
  <2>3. QED  BY <2>1, <2>2 DEF set_pgfault_handler
<1>3. eip' \in Int
  BY <1>2 DEF SET_ALLOC, SET_UPCALL, SET_HANDLER, PROGRAM
<1>4. regs' \in Regs
  BY <1>2, <1>3, Registers DEF Regs, regs
<1>5. QED  BY <1>1, <1>2, <1>4, Quiet DEF Program

LEMMA ProgramPush ==
  ASSUME IInv, program_push
  PROVE  IInv' /\ ~(Len(pending') < Len(pending))
<1>1. pending = <<>> /\ esp \in 2..USTACKTOP /\ esp - 1 \in Int
  BY ProgramFree, Layout DEF program_push
<1>2. CASE Writable(esp - 1)
  <2>1. /\ mem' = [mem EXCEPT ![esp - 1] = eax] /\ esp' = esp - 1 /\ eip' = PROGRAM
        /\ UNCHANGED <<eax, ebp, eflags, pending, xpage>>
    BY <1>2 DEF program_push, Store, kernel
  <2>2. esp - 1 \in Addr /\ esp - 1 \in 1..USTACKTOP
    BY <1>1, Layout
  <2>3. eip' \in Int /\ esp' \in Int
    BY <1>1, <2>1 DEF PROGRAM
  <2>4. regs' \in Regs
    BY <2>1, <2>3, Registers DEF Regs, regs
  <2>5. Program(eip', esp') /\ \A k \in 1..Len(pending) : esp - 1 \notin InUse(pending[k].regs[2])
    BY <1>1, <2>1, <2>2 DEF Program
  <2>6. eax \in Int /\ (xpage => xpage')
    BY <2>1, Registers
  <2>7. IInv'
    BY <1>1, <2>1, <2>2, <2>4, <2>5, <2>6, Written
  <2>8. QED  BY <2>1, <2>7, Depth
<1>3. CASE ~Writable(esp - 1)
  BY <1>1, <1>3, PushFault DEF program_push, Store
<1>4. QED  BY <1>2, <1>3

LEMMA ProgramFault ==
  ASSUME IInv, program_fault
  PROVE  IInv' /\ ~(Len(pending') < Len(pending))
<1>1. pending = <<>>
  BY ProgramFree DEF program_fault
<1>2. page_fault_handler(DATA) /\ DATA \in Int
  BY DEF program_fault, data_fault, DATA
<1>3. QED  BY <1>1, <1>2, PushFault

LEMMA ProgramQuiet ==
  ASSUME IInv, program_pop \/ program_fork
  PROVE  IInv' /\ UNCHANGED pending
<1>1. pending = <<>> /\ esp \in 1..USTACKTOP
  BY ProgramFree DEF program_pop, program_fork
<1>2. UNCHANGED <<eip, eax, ebp, eflags, mem, pending, xpage>> /\ esp' \in 1..USTACKTOP /\ eip = PROGRAM
  BY <1>1, Layout DEF program_pop, program_fork, regs, kernel
<1>3. regs' \in Regs
  <2>1. esp' \in Int
    BY <1>2, Layout
  <2>2. QED  BY <1>2, <2>1, Registers DEF Regs, regs
<1>4. QED  BY <1>1, <1>2, <1>3, Quiet DEF Program



-----------------------------------------------------------------------------
\* In the upcall and the handler a fault is pending.
LEMMA HandlerBusy ==
  ASSUME IInv, eip >= UPCALL
  PROVE  \E q \in Regs, u \in Int :
           /\ q = pending[Len(pending)].regs /\ u = utf_of(q[2]) /\ XSTACKBASE <= u /\ u + 7 <= UXSTACKTOP
           /\ q[1] \in Int /\ q[2] \in Int /\ q[3] \in Int /\ q[4] \in Int /\ q[5] \in Int
           /\ \/ Len(pending) = 1 /\ q[2] \in 1..USTACKTOP /\ ~OnXstack(q[2])
              \/ Len(pending) > 1 /\ OnXstack(q[2]) /\ q[2] = u + 8
           /\ Handling(eip, esp, eax, ebp, eflags, mem, q) /\ xpage /\ pending # <<>>
<1>1. pending # <<>>
  <2> SUFFICES ASSUME pending = <<>> PROVE FALSE
    OBVIOUS
  <2>1. eip \in {SET_ALLOC, SET_UPCALL, SET_HANDLER, PROGRAM}
    BY DEF IInv, Program
  <2>2. QED  BY <2>1, Layout DEF SET_ALLOC, SET_UPCALL, SET_HANDLER, PROGRAM
<1>2. QED  BY <1>1, Current

\* A push below the frame, which destroys the environment at the end of the page.
LEMMA PushWord ==
  ASSUME IInv, pending # <<>>, xpage,
         NEW q \in Regs, q = pending[Len(pending)].regs,
         NEW u \in Int, u = utf_of(q[2]), XSTACKBASE <= u, u + 7 <= UXSTACKTOP,
         OnXstack(esp), esp <= u, Whole(mem, u, q),
         NEW w \in Int, NEW next \in Int, Store(esp - 1, w, esp - 1, next),
         (/\ OnXstack(esp - 1) /\ Whole(mem', u, q) /\ mem'[esp - 1] = w
          /\ \A b \in Addr : b # esp - 1 => mem'[b] = mem[b])
           => Handling(next, esp - 1, eax, ebp, eflags, mem', q)
  PROVE  IInv' /\ UNCHANGED pending
<1>t. eip \in Int /\ esp \in Int /\ eax \in Int /\ ebp \in Int /\ eflags \in Int /\ mem \in [Addr -> Int]
  BY Registers
<1>1. CASE Writable(esp - 1)
  <2>1. OnXstack(esp - 1) /\ esp - 1 \in Addr /\ esp - 1 \in Int
    <3>1. esp - 1 \in Addr
      BY <1>t, <1>1, Layout DEF Writable
    <3>2. QED  BY <1>t, <3>1, Layout
  <2>2. /\ mem' = [mem EXCEPT ![esp - 1] = w] /\ esp' = esp - 1 /\ eip' = next
        /\ UNCHANGED <<eax, ebp, eflags, pending, xpage>>
    BY <1>1 DEF Store, kernel
  <2>3. mem'[esp - 1] = w /\ \A b \in Addr : b # esp - 1 => mem'[b] = mem[b]
    BY <1>t, <2>1, <2>2
  <2>4. Whole(mem', u, q)
    <3>1. \A i \in 2..6 : u + i \in Addr /\ u + i # esp - 1
      <4> SUFFICES ASSUME NEW i \in 2..6 PROVE u + i \in Addr /\ u + i # esp - 1
        OBVIOUS
      <4>0. XSTACKBASE \in Int /\ UXSTACKTOP \in Int /\ i \in Int /\ 2 <= i /\ i <= 6
        BY Layout
      <4>1. u + i \in Int /\ XSTACKBASE <= u + i /\ u + i < UXSTACKTOP /\ u + i # esp - 1
        BY <1>t, <4>0
      <4>2. QED  BY <4>1, Layout
    <3>2. \A i \in 2..6 : mem'[u + i] = mem[u + i]
      BY <2>3, <3>1
    <3>3. QED  BY <3>2, Layout DEF Whole, Saved, Flags
  <2>5. Handling(eip', esp', eax', ebp', eflags', mem', q)
    BY <2>1, <2>2, <2>3, <2>4
  <2>6. \A k \in 1..Len(pending) : esp - 1 \notin InUse(pending[k].regs[2])
    <3>1. XSTACKBASE <= esp - 1 /\ esp - 1 < utf_of(q[2]) + 7
      BY <1>t, <2>1, Layout
    <3>2. QED  BY <2>1, <3>1, Below
  <2>7. eip' \in Int /\ esp' \in Int
    BY <2>1, <2>2
  <2>8. regs' \in Regs
    BY <1>t, <2>2, <2>7 DEF Regs, regs
  <2>9. IInv'
    BY <2>1, <2>2, <2>5, <2>6, <2>8, Written
  <2>10. QED  BY <2>2, <2>9
<1>2. CASE ~Writable(esp - 1)
  <2>1. ~OnXstack(esp - 1)
    BY <1>2 DEF Writable
  <2>2. utf_of(esp) < XSTACKBASE /\ utf_of(esp) \in Int
    BY <1>t, <2>1, Layout DEF utf_of
  <2>3. env_destroy
    <3>1. ~(utf_of(esp) >= XSTACKBASE)
      BY <2>2, Layout
    <3>2. page_fault_handler(esp - 1)
      BY <1>2 DEF Store
    <3>3. QED  BY <3>1, <3>2 DEF page_fault_handler
  <2>4. UNCHANGED <<eip, esp, eax, ebp, eflags, mem, pending, xpage>>
    BY <2>3 DEF env_destroy, regs
  <2>5. Handling(eip', esp', eax', ebp', eflags', mem, q)
    BY <2>4 DEF IInv
  <2>6. IInv'
    BY <2>4, <2>5, Quiet DEF IInv, UpcallType, regs
  <2>7. QED  BY <2>4, <2>6
<1>3. QED  BY <1>1, <1>2

LEMMA PushlEsp ==
  ASSUME IInv, pushl_esp
  PROVE  IInv' /\ UNCHANGED pending
<1>1. eip = UPCALL /\ eip >= UPCALL /\ eip # HANDLER
  BY Layout DEF pushl_esp
<1>2. PICK q \in Regs, u \in Int :
        /\ q = pending[Len(pending)].regs /\ u = utf_of(q[2]) /\ XSTACKBASE <= u /\ u + 7 <= UXSTACKTOP
        /\ Handling(eip, esp, eax, ebp, eflags, mem, q) /\ xpage /\ pending # <<>>
  BY <1>1, HandlerBusy
<1>3. esp = u /\ Whole(mem, u, q) /\ esp \in Int
  BY <1>1, <1>2, Layout, Registers DEF Handling
<1>4. OnXstack(esp) /\ esp <= u /\ UPCALL + 1 \in Int
  BY <1>2, <1>3, Layout
<1>5. OnXstack(esp - 1) /\ Whole(mem', u, q) => Handling(UPCALL + 1, esp - 1, eax, ebp, eflags, mem', q)
  BY <1>2, <1>3, Zenon DEF Handling
<1>6. QED  BY <1>2, <1>3, <1>4, <1>5, PushWord DEF pushl_esp

LEMMA CallHandler ==
  ASSUME IInv, call_handler
  PROVE  IInv' /\ UNCHANGED pending
<1>1. eip = UPCALL + 1 /\ eip >= UPCALL
  BY Layout DEF call_handler
<1>2. PICK q \in Regs, u \in Int :
        /\ q = pending[Len(pending)].regs /\ u = utf_of(q[2]) /\ XSTACKBASE <= u /\ u + 7 <= UXSTACKTOP
        /\ Handling(eip, esp, eax, ebp, eflags, mem, q) /\ xpage /\ pending # <<>>
  BY <1>1, HandlerBusy
<1>3. esp = u - 1 /\ OnXstack(esp) /\ Whole(mem, u, q) /\ esp \in Int
  BY <1>1, <1>2, Layout, Registers DEF Handling
<1>4. esp <= u /\ UPCALL + 2 \in Int /\ HANDLER \in Int /\ esp - 1 = u - 2
  BY <1>2, <1>3, Layout
<1>5. OnXstack(esp - 1) /\ Whole(mem', u, q) /\ mem'[esp - 1] = UPCALL + 2
        => Handling(HANDLER, esp - 1, eax, ebp, eflags, mem', q)
  BY <1>2, <1>4, Zenon DEF Handling
<1>6. QED  BY <1>2, <1>3, <1>4, <1>5, PushWord DEF call_handler

LEMMA HandlerEnter ==
  ASSUME IInv, handler_enter
  PROVE  IInv' /\ UNCHANGED pending
<1>1. eip = HANDLER /\ eip >= UPCALL
  BY Layout DEF handler_enter
<1>2. PICK q \in Regs, u \in Int :
        /\ q = pending[Len(pending)].regs /\ u = utf_of(q[2]) /\ XSTACKBASE <= u /\ u + 7 <= UXSTACKTOP
        /\ Handling(eip, esp, eax, ebp, eflags, mem, q) /\ xpage /\ pending # <<>>
  BY <1>1, HandlerBusy
<1>3. esp = u - 2 /\ OnXstack(esp) /\ mem[u - 2] = UPCALL + 2 /\ Whole(mem, u, q) /\ esp \in Int
  BY <1>1, <1>2, Layout, Registers DEF Handling
<1>4. esp <= u /\ HANDLER + 1 \in Int /\ esp - 1 = u - 3 /\ u - 2 \in Addr /\ u - 2 # esp - 1 /\ ebp \in Int
  <2>1. ebp \in Int
    BY Registers
  <2>2. u - 2 \in Int /\ u - 2 = esp
    BY <1>3
  <2>3. u - 2 \in Addr
    BY <1>3, <2>2, Layout
  <2>4. QED  BY <1>2, <1>3, <2>1, <2>2, <2>3, Layout
<1>5. (OnXstack(esp - 1) /\ Whole(mem', u, q) /\ \A b \in Addr : b # esp - 1 => mem'[b] = mem[b])
        => Handling(HANDLER + 1, esp - 1, eax, ebp, eflags, mem', q)
  <2> SUFFICES ASSUME OnXstack(esp - 1), Whole(mem', u, q), \A b \in Addr : b # esp - 1 => mem'[b] = mem[b]
               PROVE  Handling(HANDLER + 1, esp - 1, eax, ebp, eflags, mem', q)
    OBVIOUS
  <2>1. mem'[u - 2] = UPCALL + 2
    BY <1>3, <1>4
  <2>2. QED  BY <1>2, <1>4, <2>1, Zenon DEF Handling
<1>6. QED  BY <1>2, <1>3, <1>4, <1>5, PushWord DEF handler_enter


-----------------------------------------------------------------------------
\* A step of the upcall or the handler that writes no memory.
LEMMA NoStore ==
  ASSUME IInv, UNCHANGED <<mem, pending, xpage>>, pending # <<>>,
         NEW q \in Regs, q = pending[Len(pending)].regs,
         eip' \in Int, esp' \in Int, eax' \in Int, ebp' \in Int, eflags' \in Int,
         Handling(eip', esp', eax', ebp', eflags', mem, q)
  PROVE  IInv' /\ UNCHANGED pending
<1>1. regs' \in Regs
  BY DEF Regs, regs
<1>2. QED  BY <1>1, Quiet

\* The words of the frame are integers.
LEMMA FrameInts ==
  ASSUME IInv, NEW u \in Int, XSTACKBASE <= u, u + 7 <= UXSTACKTOP
  PROVE  \A i \in 0..6 : u + i \in Addr /\ mem[u + i] \in Int
<1> SUFFICES ASSUME NEW i \in 0..6 PROVE u + i \in Addr /\ mem[u + i] \in Int
  OBVIOUS
<1>0. XSTACKBASE \in Int /\ UXSTACKTOP \in Int /\ i \in Int /\ 0 <= i /\ i <= 6
  BY Layout
<1>1. u + i \in Int /\ XSTACKBASE <= u + i /\ u + i < UXSTACKTOP
  BY <1>0
<1>2. u + i \in Addr
  BY <1>1, Layout
<1>3. QED  BY <1>2, Registers

LEMMA PopArgument ==
  ASSUME IInv, pop_argument
  PROVE  IInv' /\ UNCHANGED pending
<1>1. eip = UPCALL + 2 /\ eip >= UPCALL /\ eip' = UPCALL + 3 /\ esp' = esp + 1
      /\ UNCHANGED <<eax, ebp, eflags, mem, pending, xpage>>
  BY Layout DEF pop_argument, kernel
<1>2. PICK q \in Regs, u \in Int :
        /\ q = pending[Len(pending)].regs /\ u = utf_of(q[2]) /\ XSTACKBASE <= u /\ u + 7 <= UXSTACKTOP
        /\ Handling(eip, esp, eax, ebp, eflags, mem, q) /\ xpage /\ pending # <<>>
  BY <1>1, HandlerBusy
<1>3. esp = u - 1 /\ Whole(mem, u, q)
  BY <1>1, <1>2, Layout DEF Handling
<1>4. esp' = u /\ esp' \in Int /\ eip' \in Int /\ eax' \in Int /\ ebp' \in Int /\ eflags' \in Int
  BY <1>1, <1>3, Layout, Registers
<1>5. Handling(eip', esp', eax', ebp', eflags', mem, q)
  BY <1>1, <1>2, <1>3, <1>4, Zenon DEF Handling
<1>6. QED  BY <1>1, <1>2, <1>4, <1>5, NoStore

LEMMA Popal ==
  ASSUME IInv, popal
  PROVE  IInv' /\ UNCHANGED pending
<1>1. eip = UPCALL + 5 /\ eip >= UPCALL /\ eip' = UPCALL + 6 /\ ebp' = mem[esp + UTF.ebp]
      /\ eax' = mem[esp + UTF.eax] /\ esp' = esp + UTF.eip /\ UNCHANGED <<eflags, mem, pending, xpage>>
  BY Layout DEF popal, kernel
<1>2. PICK q \in Regs, u \in Int :
        /\ q = pending[Len(pending)].regs /\ u = utf_of(q[2]) /\ XSTACKBASE <= u /\ u + 7 <= UXSTACKTOP
        /\ Handling(eip, esp, eax, ebp, eflags, mem, q) /\ xpage /\ pending # <<>>
        /\ q[3] \in Int /\ q[4] \in Int
  BY <1>1, HandlerBusy
<1>3. esp = u /\ Saved(mem, u, q) /\ Lowered(mem, u, q) /\ Pushed(mem, q)
  BY <1>1, <1>2, Layout DEF Handling
<1>4. esp' = u + UTF.eip /\ ebp' = q[4] /\ eax' = q[3] /\ Flags(mem, u, q)
  BY <1>1, <1>3, Zenon DEF Saved
<1>5. esp' \in Int /\ eip' \in Int /\ eax' \in Int /\ ebp' \in Int /\ eflags' \in Int
  <2>1. eip' \in Int
    BY <1>1, Layout
  <2>2. esp' \in Int
    BY <1>2, <1>4, Layout
  <2>3. eflags' \in Int
    BY <1>1, <1>2, <1>4, Registers
  <2>4. eax' \in Int /\ ebp' \in Int
    BY <1>1, <1>2, <1>4, Registers
  <2>5. QED  BY <2>1, <2>2, <2>3, <2>4
<1>6. Handling(eip', esp', eax', ebp', eflags', mem, q)
  BY <1>1, <1>2, <1>3, <1>4, Zenon DEF Handling
<1>7. QED  BY <1>1, <1>2, <1>5, <1>6, NoStore

LEMMA Popfl ==
  ASSUME IInv, popfl
  PROVE  IInv' /\ UNCHANGED pending
<1>1. eip = UPCALL + 6 /\ eip >= UPCALL /\ eip' = UPCALL + 7 /\ eflags' = mem[esp + 1] /\ esp' = esp + 2
      /\ UNCHANGED <<eax, ebp, mem, pending, xpage>>
  BY Layout DEF popfl, kernel
<1>2. PICK q \in Regs, u \in Int :
        /\ q = pending[Len(pending)].regs /\ u = utf_of(q[2]) /\ XSTACKBASE <= u /\ u + 7 <= UXSTACKTOP
        /\ Handling(eip, esp, eax, ebp, eflags, mem, q) /\ xpage /\ pending # <<>>
        /\ q[5] \in Int
  BY <1>1, HandlerBusy
<1>3. esp = u + UTF.eip /\ Flags(mem, u, q) /\ Lowered(mem, u, q) /\ Pushed(mem, q) /\ ebp = q[4] /\ eax = q[3]
  BY <1>1, <1>2, Layout DEF Handling
<1>4. esp + 1 = u + UTF.eflags /\ esp + 2 = u + UTF.esp
  BY <1>2, <1>3, Layout
<1>5. eflags' = q[5] /\ esp' = u + UTF.esp /\ ebp' = q[4] /\ eax' = q[3]
  BY <1>1, <1>3, <1>4, Zenon DEF Flags
<1>6. esp' \in Int /\ eip' \in Int /\ eax' \in Int /\ ebp' \in Int /\ eflags' \in Int
  <2>1. eip' \in Int
    BY <1>1, Layout
  <2>2. esp' \in Int
    BY <1>2, <1>5, Layout
  <2>3. eflags' \in Int
    BY <1>1, <1>2, <1>5, Registers
  <2>4. eax' \in Int /\ ebp' \in Int
    BY <1>1, <1>2, <1>5, Registers
  <2>5. QED  BY <2>1, <2>2, <2>3, <2>4
<1>7. Handling(eip', esp', eax', ebp', eflags', mem, q)
  BY <1>1, <1>2, <1>3, <1>5, Zenon DEF Handling
<1>8. QED  BY <1>1, <1>2, <1>6, <1>7, NoStore

LEMMA PoplEsp ==
  ASSUME IInv, popl_esp
  PROVE  IInv' /\ UNCHANGED pending
<1>1. eip = UPCALL + 7 /\ eip >= UPCALL /\ eip' = UPCALL + 8 /\ esp' = mem[esp]
      /\ UNCHANGED <<eax, ebp, eflags, mem, pending, xpage>>
  BY Layout DEF popl_esp, kernel
<1>2. PICK q \in Regs, u \in Int :
        /\ q = pending[Len(pending)].regs /\ u = utf_of(q[2]) /\ XSTACKBASE <= u /\ u + 7 <= UXSTACKTOP
        /\ Handling(eip, esp, eax, ebp, eflags, mem, q) /\ xpage /\ pending # <<>>
        /\ q[2] \in Int
  BY <1>1, HandlerBusy
<1>3. esp = u + UTF.esp /\ Lowered(mem, u, q) /\ Pushed(mem, q) /\ ebp = q[4] /\ eax = q[3] /\ eflags = q[5]
  BY <1>1, <1>2, Layout DEF Handling
<1>4. esp' = q[2] - 1
  BY <1>1, <1>3, Zenon DEF Lowered
<1>5. esp' \in Int /\ eip' \in Int /\ eax' \in Int /\ ebp' \in Int /\ eflags' \in Int
  <2>1. eip' \in Int
    BY <1>1, Layout
  <2>2. esp' \in Int
    BY <1>2, <1>4, Layout
  <2>3. eflags' \in Int
    BY <1>1, <1>2, <1>4, Registers
  <2>4. eax' \in Int /\ ebp' \in Int
    BY <1>1, <1>2, <1>4, Registers
  <2>5. QED  BY <2>1, <2>2, <2>3, <2>4
<1>6. ebp' = q[4] /\ eax' = q[3] /\ eflags' = q[5]
  BY <1>1, <1>3
<1>7. Handling(eip', esp', eax', ebp', eflags', mem, q)
  BY <1>1, <1>2, <1>3, <1>4, <1>6, Zenon DEF Handling
<1>8. QED  BY <1>1, <1>2, <1>5, <1>7, NoStore

LEMMA HandlerFrame ==
  ASSUME IInv, handler_frame
  PROVE  IInv' /\ UNCHANGED pending
<1>1. eip = HANDLER + 1 /\ eip >= UPCALL /\ eip' = HANDLER + 2 /\ ebp' = esp /\ eflags' = 0
      /\ esp' = (IF esp > XSTACKBASE THEN esp - 1 ELSE esp) /\ UNCHANGED <<eax, mem, pending, xpage>>
  BY Layout DEF handler_frame, kernel
<1>2. PICK q \in Regs, u \in Int :
        /\ q = pending[Len(pending)].regs /\ u = utf_of(q[2]) /\ XSTACKBASE <= u /\ u + 7 <= UXSTACKTOP
        /\ Handling(eip, esp, eax, ebp, eflags, mem, q) /\ xpage /\ pending # <<>>
  BY <1>1, HandlerBusy
<1>3. esp = u - 3 /\ OnXstack(esp) /\ mem[u - 2] = UPCALL + 2 /\ Whole(mem, u, q)
  BY <1>1, <1>2, Layout DEF Handling
<1>4. esp \in Int /\ eax \in Int
  BY Registers
<1>5. esp' \in Int /\ eip' \in Int /\ eax' \in Int /\ ebp' \in Int /\ eflags' \in Int
  BY <1>1, <1>4, Layout
<1>6. ebp' = u - 3 /\ OnXstack(ebp') /\ esp' \in {ebp', ebp' - 1} /\ OnXstack(esp')
  BY <1>1, <1>3, <1>4, Layout
<1>7. eip' \in {HANDLER + 2, HANDLER + 3}
  BY <1>1
<1>8. Handling(eip', esp', eax', ebp', eflags', mem, q)
  BY <1>2, <1>3, <1>6, <1>7, Zenon DEF Handling
<1>9. QED  BY <1>1, <1>2, <1>5, <1>8, NoStore

LEMMA HandlerWork ==
  ASSUME IInv, handler_work
  PROVE  IInv' /\ UNCHANGED pending
<1>1. eip = HANDLER + 2 /\ eip >= UPCALL /\ eip' = HANDLER + 3 /\ eax' = 0
      /\ UNCHANGED <<esp, ebp, eflags, mem, pending, xpage>>
  BY Layout DEF handler_work, kernel
<1>2. PICK q \in Regs, u \in Int :
        /\ q = pending[Len(pending)].regs /\ u = utf_of(q[2]) /\ XSTACKBASE <= u /\ u + 7 <= UXSTACKTOP
        /\ Handling(eip, esp, eax, ebp, eflags, mem, q) /\ xpage /\ pending # <<>>
  BY <1>1, HandlerBusy
<1>3. ebp = u - 3 /\ OnXstack(ebp) /\ esp \in {ebp, ebp - 1} /\ OnXstack(esp) /\ mem[u - 2] = UPCALL + 2 /\ Whole(mem, u, q)
  BY <1>1, <1>2, Layout DEF Handling
<1>4. esp' \in Int /\ eip' \in Int /\ eax' \in Int /\ ebp' \in Int /\ eflags' \in Int
  BY <1>1, Layout, Registers
<1>5. ebp' = u - 3 /\ OnXstack(ebp') /\ esp' \in {ebp', ebp' - 1} /\ OnXstack(esp') /\ eip' \in {HANDLER + 2, HANDLER + 3}
  BY <1>1, <1>3
<1>6. Handling(eip', esp', eax', ebp', eflags', mem, q)
  BY <1>2, <1>3, <1>5, Zenon DEF Handling
<1>7. QED  BY <1>1, <1>2, <1>4, <1>6, NoStore

LEMMA HandlerReturn ==
  ASSUME IInv, handler_return
  PROVE  IInv' /\ UNCHANGED pending
<1>1. eip = HANDLER + 3 /\ eip >= UPCALL /\ ebp' = mem[ebp] /\ eip' = mem[ebp + 1] /\ esp' = ebp + 2
      /\ UNCHANGED <<eax, eflags, mem, pending, xpage>>
  BY Layout DEF handler_return, kernel
<1>2. PICK q \in Regs, u \in Int :
        /\ q = pending[Len(pending)].regs /\ u = utf_of(q[2]) /\ XSTACKBASE <= u /\ u + 7 <= UXSTACKTOP
        /\ Handling(eip, esp, eax, ebp, eflags, mem, q) /\ xpage /\ pending # <<>>
  BY <1>1, HandlerBusy
<1>3. ebp = u - 3 /\ OnXstack(ebp) /\ mem[u - 2] = UPCALL + 2 /\ Whole(mem, u, q)
  BY <1>1, <1>2, Layout DEF Handling
<1>4. ebp \in Int /\ ebp \in Addr /\ ebp + 1 = u - 2 /\ ebp + 2 = u - 1 /\ u - 1 \in Int
  BY <1>3, Layout, Registers
<1>5. eip' = UPCALL + 2 /\ esp' = u - 1 /\ ebp' \in Int
  BY <1>1, <1>3, <1>4, Registers
<1>6. OnXstack(u - 1)
  BY <1>2, <1>3, <1>4, Layout
<1>7. esp' \in Int /\ eip' \in Int /\ eax' \in Int /\ eflags' \in Int
  BY <1>1, <1>4, <1>5, Layout, Registers
<1>8. Handling(eip', esp', eax', ebp', eflags', mem, q)
  BY <1>2, <1>3, <1>5, <1>6, Zenon DEF Handling
<1>9. QED  BY <1>1, <1>2, <1>5, <1>7, <1>8, NoStore


LEMMA LowerTrapEsp ==
  ASSUME IInv, lower_trap_esp
  PROVE  IInv' /\ UNCHANGED pending
<1>1. eip = UPCALL + 3 /\ eip >= UPCALL /\ eip' = UPCALL + 4 /\ ebp' = mem[esp + UTF.esp] - 1
      /\ mem' = [mem EXCEPT ![esp + UTF.esp] = @ - 1] /\ eax' = mem[esp + UTF.eip] /\ eflags' = 0
      /\ UNCHANGED <<esp, pending, xpage>>
  BY Layout DEF lower_trap_esp, kernel
<1>2. PICK q \in Regs, u \in Int :
        /\ q = pending[Len(pending)].regs /\ u = utf_of(q[2]) /\ XSTACKBASE <= u /\ u + 7 <= UXSTACKTOP
        /\ Handling(eip, esp, eax, ebp, eflags, mem, q) /\ xpage /\ pending # <<>>
        /\ q[1] \in Int /\ q[2] \in Int
  BY <1>1, HandlerBusy
<1>3. esp = u /\ Saved(mem, u, q) /\ mem[u + UTF.esp] = q[2]
  BY <1>1, <1>2, Layout DEF Handling, Whole
<1>4. mem[u + 6] = q[2] /\ mem[u + 4] = q[1]
  BY <1>3, Layout DEF Saved
<1>5. ebp' = q[2] - 1 /\ eax' = q[1] /\ mem' = [mem EXCEPT ![u + 6] = q[2] - 1]
  BY <1>1, <1>3, <1>4, Layout
<1>6. /\ u + 2 \in Addr /\ u + 3 \in Addr /\ u + 4 \in Addr /\ u + 5 \in Addr /\ u + 6 \in Addr
  BY <1>2, FrameInts
<1>7. /\ mem'[u + 2] = mem[u + 2] /\ mem'[u + 3] = mem[u + 3] /\ mem'[u + 4] = mem[u + 4]
      /\ mem'[u + 5] = mem[u + 5] /\ mem'[u + 6] = q[2] - 1
  BY <1>5, <1>6, Registers
<1>8. Saved(mem', u, q) /\ Lowered(mem', u, q)
  BY <1>3, <1>7, Layout DEF Saved, Flags, Lowered
<1>9. esp' = u
  BY <1>1, <1>3
<1>10. Handling(eip', esp', eax', ebp', eflags', mem', q)
  BY <1>1, <1>2, <1>5, <1>8, <1>9, Zenon DEF Handling
<1>11. eip' \in Int /\ esp' \in Int /\ eax' \in Int /\ ebp' \in Int /\ eflags' \in Int
  <2>1. eip' \in Int /\ eflags' \in Int
    BY <1>1, Layout
  <2>2. QED  BY <1>2, <1>5, <1>9, <2>1
<1>12. regs' \in Regs
  BY <1>11 DEF Regs, regs
<1>13. \A k \in 1..Len(pending) : u + 6 \notin InUse(pending[k].regs[2])
  <2>1. u + 6 \in Int /\ XSTACKBASE <= u + 6 /\ u + 6 < utf_of(q[2]) + 7
    BY <1>2, Layout
  <2>2. QED  BY <1>2, <2>1, Below
<1>14. q[2] - 1 \in Int
  BY <1>2
<1>15. IInv'
  BY <1>1, <1>2, <1>5, <1>6, <1>10, <1>12, <1>13, <1>14, Written
<1>16. QED  BY <1>1, <1>15

\* The word below the trap-time stack pointer is free, on either stack, and a
\* fault on it is one more nested fault.
LEMMA PushTrapEip ==
  ASSUME IInv, push_trap_eip
  PROVE  IInv' /\ ~(Len(pending') < Len(pending))
<1>1. eip = UPCALL + 4 /\ eip >= UPCALL /\ Store(ebp, eax, esp, UPCALL + 5)
  BY Layout DEF push_trap_eip
<1>2. PICK q \in Regs, u \in Int :
        /\ q = pending[Len(pending)].regs /\ u = utf_of(q[2]) /\ XSTACKBASE <= u /\ u + 7 <= UXSTACKTOP
        /\ Handling(eip, esp, eax, ebp, eflags, mem, q) /\ xpage /\ pending # <<>>
        /\ q[1] \in Int /\ q[2] \in Int
        /\ \/ q[2] \in 1..USTACKTOP /\ ~OnXstack(q[2])
           \/ OnXstack(q[2]) /\ q[2] = u + 8
  BY <1>1, HandlerBusy
<1>3. esp = u /\ Saved(mem, u, q) /\ Lowered(mem, u, q) /\ ebp = q[2] - 1 /\ eax = q[1]
  BY <1>1, <1>2, Layout DEF Handling
<1>4. CASE Writable(ebp)
  <2>1. /\ mem' = [mem EXCEPT ![q[2] - 1] = q[1]] /\ esp' = u /\ eip' = UPCALL + 5
        /\ UNCHANGED <<eax, ebp, eflags, pending, xpage>>
    BY <1>1, <1>3, <1>4 DEF Store, kernel
  <2>2. q[2] - 1 \in Int /\ q[2] - 1 \in Addr /\ (q[2] - 1 < u \/ q[2] - 1 = u + 7)
    <3>0. q[2] - 1 \in Int
      BY <1>2
    <3>1. CASE q[2] \in 1..USTACKTOP
      BY <1>2, <3>0, <3>1, Layout
    <3>2. CASE OnXstack(q[2]) /\ q[2] = u + 8
      <4>1. q[2] - 1 = u + 7 /\ XSTACKBASE <= q[2] - 1 /\ q[2] - 1 < UXSTACKTOP
        BY <1>2, <3>2, Layout
      <4>2. QED  BY <3>0, <4>1, Layout
    <3>3. QED  BY <1>2, <3>1, <3>2
  <2>3. u + 2 \in Addr /\ u + 3 \in Addr /\ u + 4 \in Addr /\ u + 5 \in Addr /\ u + 6 \in Addr
    <3>1. \A i \in 0..6 : u + i \in Addr
      BY <1>2, FrameInts
    <3>2. QED  BY <3>1
  <2>4. /\ mem'[u + 2] = mem[u + 2] /\ mem'[u + 3] = mem[u + 3] /\ mem'[u + 4] = mem[u + 4]
        /\ mem'[u + 5] = mem[u + 5] /\ mem'[u + 6] = mem[u + 6] /\ mem'[q[2] - 1] = q[1]
    <3>1. PICK a \in Addr : a = q[2] - 1 /\ a # u + 2 /\ a # u + 3 /\ a # u + 4 /\ a # u + 5 /\ a # u + 6
      BY <2>2
    <3>2. mem' = [mem EXCEPT ![a] = q[1]] /\ mem \in [Addr -> Int]
      BY <2>1, <3>1, Registers
    <3>3. mem'[a] = q[1] /\ \A b \in Addr : b # a => mem'[b] = mem[b]
      BY <3>2
    <3>4. QED  BY <2>3, <3>1, <3>3
  <2>5. Saved(mem', u, q) /\ Lowered(mem', u, q) /\ Pushed(mem', q)
    BY <1>3, <2>4, Layout DEF Saved, Flags, Lowered, Pushed
  <2>6. Handling(eip', esp', eax', ebp', eflags', mem', q)
    BY <1>2, <2>1, <2>5, Zenon DEF Handling
  <2>7. eip' \in Int /\ esp' \in Int /\ eax' \in Int /\ ebp' \in Int /\ eflags' \in Int
    <3>1. eip' \in Int /\ esp' \in Int
      BY <2>1, Layout
    <3>2. QED  BY <2>1, <3>1, Registers
  <2>8. regs' \in Regs
    BY <2>7 DEF Regs, regs
  <2>9. \A k \in 1..Len(pending) : q[2] - 1 \notin InUse(pending[k].regs[2])
    BY <1>2, <2>2, Below
  <2>10. IInv'
    BY <1>2, <2>1, <2>2, <2>6, <2>8, <2>9, Written
  <2>11. QED  BY <2>1, <2>10, Depth
<1>5. CASE ~Writable(ebp)
  <2>1. page_fault_handler(ebp)
    BY <1>1, <1>5 DEF Store
  <2>2. QED  BY <1>1, <2>1, Registers, PushFault
<1>6. QED  BY <1>4, <1>5

LEMMA HandlerFault ==
  ASSUME IInv, handler_fault
  PROVE  IInv' /\ ~(Len(pending') < Len(pending))
<1>1. eip = HANDLER + 2 /\ page_fault_handler(DATA) /\ DATA \in Int
  BY DEF handler_fault, data_fault, DATA
<1>2. QED  BY <1>1, PushFault


\* ret takes the innermost fault off and is back in what it interrupted.
LEMMA Ret ==
  ASSUME IInv, ret
  PROVE  /\ IInv' /\ Len(pending') < Len(pending)
         /\ regs' = Last(pending).regs
         /\ \A a \in DOMAIN Last(pending).stack : mem'[a] = Last(pending).stack[a]
<1>1. eip = UPCALL + 8 /\ eip >= UPCALL /\ eip' = mem[esp] /\ esp' = esp + 1 /\ pending' = Front(pending)
      /\ UNCHANGED <<eax, ebp, eflags, mem, xpage>>
  BY Layout DEF ret, kernel
<1>2. PICK q \in Regs, u \in Int :
        /\ q = pending[Len(pending)].regs /\ u = utf_of(q[2]) /\ XSTACKBASE <= u /\ u + 7 <= UXSTACKTOP
        /\ Handling(eip, esp, eax, ebp, eflags, mem, q) /\ xpage /\ pending # <<>>
        /\ q[1] \in Int /\ q[2] \in Int /\ q[3] \in Int /\ q[4] \in Int /\ q[5] \in Int
  BY <1>1, HandlerBusy
<1>3. esp = q[2] - 1 /\ Pushed(mem, q) /\ ebp = q[4] /\ eax = q[3] /\ eflags = q[5]
  BY <1>1, <1>2, Layout DEF Handling
<1>4. eip' = q[1] /\ esp' = q[2] /\ eax' = q[3] /\ ebp' = q[4] /\ eflags' = q[5]
  BY <1>1, <1>2, <1>3 DEF Pushed
<1>5. regs' = q
  BY <1>4 DEF regs, Regs
<1>6. PICK n \in Nat : n = Len(pending) /\ n # 0 /\ (n = 1 \/ n > 1) /\ n \in 1..n
  <2>1. PICK n \in Nat : n = Len(pending) /\ n # 0
    BY <1>2, Depth
  <2>2. QED  BY <2>1
<1>7. /\ pending' \in Seq(Fault) /\ Len(pending') = n - 1
      /\ \A k \in 1..(n - 1) : pending'[k] = pending[k]
  <2>1. pending' = SubSeq(pending, 1, n - 1) /\ pending \in Seq(Fault) /\ n - 1 \in Int
    BY <1>1, <1>6, Registers DEF Front
  <2>2. \A i \in 1..(n - 1) : pending[i] \in Fault
    BY <1>6, <2>1, ElementOfSeq
  <2>3. /\ SubSeq(pending, 1, n - 1) \in Seq(Fault)
        /\ Len(SubSeq(pending, 1, n - 1)) = IF 1 <= n - 1 THEN (n - 1) - 1 + 1 ELSE 0
        /\ \A i \in 1..((n - 1) - 1 + 1) : SubSeq(pending, 1, n - 1)[i] = pending[1 + i - 1]
    BY <2>1, <2>2, SubSeqProperties
  <2>4. QED  BY <1>6, <2>1, <2>3
<1>8. /\ Interrupted(n) /\ pending[n].regs = q /\ DOMAIN pending[n].stack = InUse(q[2])
      /\ \A a \in InUse(q[2]) : mem[a] = pending[n].stack[a]
  BY <1>2, <1>6 DEF IInv, Interrupted
<1>9. ASSUME NEW k \in 1..(n - 1) PROVE Interrupted(k)'
  <2>1. k \in 1..n /\ k \in Int /\ (k > 1 => k - 1 \in 1..(n - 1))
    OBVIOUS
  <2>2. Interrupted(k) /\ pending'[k] = pending[k] /\ (k > 1 => pending'[k - 1] = pending[k - 1])
    BY <1>6, <1>7, <2>1 DEF IInv
  <2>3. QED  BY <1>1, <2>2 DEF Interrupted
<1>10. Nested'
  <2> SUFFICES ASSUME NEW k \in 1..(n - 1), NEW j \in 2..(n - 1), j <= k
               PROVE  pending'[k].regs[2] <= pending'[j].regs[2]
    BY <1>7 DEF Nested
  <2>1. k \in 1..n /\ j \in 2..n /\ j \in 1..(n - 1)
    BY <1>6
  <2>2. pending[k].regs[2] <= pending[j].regs[2]
    BY <1>6, <2>1 DEF IInv, Nested
  <2>3. pending'[k] = pending[k] /\ pending'[j] = pending[j]
    BY <1>7, <2>1
  <2>4. QED  BY <2>2, <2>3
<1>11. UpcallType'
  <2>1. mem' \in [Addr -> Int]
    BY <1>1, Registers
  <2>2. regs' \in Regs /\ pending' \in Seq(Fault)
    BY <1>2, <1>5, <1>7
  <2>3. QED  BY <2>1, <2>2 DEF UpcallType
<1>12. pending' = <<>> => Program(eip', esp')
  <2> SUFFICES ASSUME pending' = <<>> PROVE Program(eip', esp')
    OBVIOUS
  <2>1. n = 1
    <3>1. n - 1 = 0
      BY <1>7
    <3>2. QED  BY <3>1
  <2>2. QED  BY <1>4, <1>8, <2>1 DEF Interrupted
<1>13. pending' # <<>> => Handling(eip', esp', eax', ebp', eflags', mem', pending'[Len(pending')].regs)
  <2> SUFFICES ASSUME pending' # <<>>
               PROVE  Handling(eip', esp', eax', ebp', eflags', mem', pending'[Len(pending')].regs)
    OBVIOUS
  <2>1. n > 1
    <3>1. Len(pending') # 0
      BY <1>7, EmptySeq
    <3>2. QED  BY <1>6, <1>7, <3>1
  <2>2. n - 1 \in 1..(n - 1) /\ n - 1 \in 1..n /\ n - 1 \in Nat /\ (n - 1 = 1 \/ n - 1 > 1)
    BY <1>6, <2>1
  <2>3. pending'[Len(pending')] = pending[n - 1]
    BY <1>7, <2>2
  <2>4. PICK p \in Regs : p = pending[n - 1].regs /\ p[2] \in Int /\ Interrupted(n - 1)
    BY <1>6, <2>2, SavedRegs
  <2>5. utf_of(p[2]) >= XSTACKBASE /\ (p[2] \in 1..USTACKTOP \/ OnXstack(p[2]))
    BY <2>2, <2>4 DEF Interrupted, Program
  <2>6. /\ OnXstack(q[2]) /\ q[1] \in {UPCALL + 4, HANDLER + 2}
        /\ Handling(q[1], q[2], q[3], q[4], q[5], pending[n].stack, p)
    BY <1>8, <2>1, <2>4 DEF Interrupted
  <2>7. \A a \in Int : q[2] <= a /\ a < UXSTACKTOP => pending[n].stack[a] = mem[a]
    <3>1. \A a \in Int : q[2] <= a /\ a < UXSTACKTOP => a \in InUse(q[2])
      BY <1>2, <2>6, Layout DEF InUse
    <3>2. QED  BY <1>8, <3>1
  <2>8. Handling(q[1], q[2], q[3], q[4], q[5], mem, p)
    <3>1. PICK ip \in {UPCALL + 4, HANDLER + 2}, sp \in Int, ax \in Int, bp \in Int, fl \in Int :
            ip = q[1] /\ sp = q[2] /\ ax = q[3] /\ bp = q[4] /\ fl = q[5]
      BY <1>2, <2>6
    <3>2. PICK s : s = pending[n].stack
      OBVIOUS
    <3>3. OnXstack(sp) /\ Handling(ip, sp, ax, bp, fl, s, p)
      BY <2>6, <3>1, <3>2
    <3>4. \A a \in Int : sp <= a /\ a < UXSTACKTOP => s[a] = mem[a]
      BY <2>7, <3>1, <3>2
    <3>5. Handling(ip, sp, ax, bp, fl, mem, p)
      BY <2>4, <2>5, <3>3, <3>4, SameHandling
    <3>6. QED  BY <3>1, <3>5
  <2>9. QED  BY <1>1, <1>4, <2>3, <2>4, <2>8
<1>14. IInv'
  BY <1>1, <1>2, <1>7, <1>9, <1>10, <1>11, <1>12, <1>13 DEF IInv
<1>15. Len(pending') < Len(pending)
  BY <1>6, <1>7
<1>16. Last(pending) = pending[n]
  BY <1>6 DEF Last
<1>17. QED  BY <1>1, <1>5, <1>8, <1>14, <1>15, <1>16

-----------------------------------------------------------------------------
LEMMA InitInv ==
  ASSUME Init
  PROVE  IInv
<1>1. /\ eip = SET_ALLOC /\ esp = USTACKTOP /\ eax = 101 /\ ebp = 102 /\ eflags = 103
      /\ mem = [a \in Addr |-> 0] /\ pending = <<>> /\ Len(pending) = 0
  BY DEF Init
<1>2. regs \in Regs
  BY <1>1, Layout DEF Regs, regs, SET_ALLOC
<1>3. UpcallType
  BY <1>1, <1>2 DEF UpcallType
<1>4. Program(eip, esp)
  BY <1>1, Layout DEF Program
<1>5. Nested /\ \A k \in 1..Len(pending) : Interrupted(k)
  BY <1>1 DEF Nested
<1>6. QED  BY <1>1, <1>3, <1>4, <1>5 DEF IInv

\* Every step keeps the invariant, and only ret takes a fault off.
LEMMA StepInv ==
  ASSUME IInv, [Next]_vars
  PROVE  /\ IInv'
         /\ Len(pending') < Len(pending)
              => /\ regs' = Last(pending).regs
                 /\ \A a \in DOMAIN Last(pending).stack : mem'[a] = Last(pending).stack[a]
<1>0. UNCHANGED pending => ~(Len(pending') < Len(pending))
  BY Depth
<1>1. CASE UNCHANGED vars
  <2>1. UNCHANGED <<regs, eip, esp, eax, ebp, eflags, mem, pending, xpage>>
    BY <1>1 DEF vars, regs
  <2>2. IInv'
    BY <2>1, Quiet DEF IInv, UpcallType
  <2>3. QED  BY <1>0, <2>1, <2>2
<1>2. CASE set_pgfault_handler
  BY <1>0, <1>2, SetHandler
<1>3. CASE program_push
  BY <1>3, ProgramPush
<1>4. CASE program_pop \/ program_fork
  BY <1>0, <1>4, ProgramQuiet
<1>5. CASE program_fault
  BY <1>5, ProgramFault
<1>6. CASE pushl_esp
  BY <1>0, <1>6, PushlEsp
<1>7. CASE call_handler
  BY <1>0, <1>7, CallHandler
<1>8. CASE pop_argument
  BY <1>0, <1>8, PopArgument
<1>9. CASE lower_trap_esp
  BY <1>0, <1>9, LowerTrapEsp
<1>10. CASE push_trap_eip
  BY <1>10, PushTrapEip
<1>11. CASE popal
  BY <1>0, <1>11, Popal
<1>12. CASE popfl
  BY <1>0, <1>12, Popfl
<1>13. CASE popl_esp
  BY <1>0, <1>13, PoplEsp
<1>14. CASE ret
  BY <1>14, Ret
<1>15. CASE handler_enter
  BY <1>0, <1>15, HandlerEnter
<1>16. CASE handler_frame
  BY <1>0, <1>16, HandlerFrame
<1>17. CASE handler_work
  BY <1>0, <1>17, HandlerWork
<1>18. CASE handler_return
  BY <1>0, <1>18, HandlerReturn
<1>19. CASE handler_fault
  BY <1>19, HandlerFault
<1>20. QED
  BY <1>1, <1>2, <1>3, <1>4, <1>5, <1>6, <1>7, <1>8, <1>9, <1>10, <1>11, <1>12, <1>13, <1>14, <1>15,
     <1>16, <1>17, <1>18, <1>19 DEF Next, upcall_step

\* At every instruction of pfentry.S and of the handler, however deep faults
\* are nested, the frames below hold what they need to return, and the stacks
\* they interrupted are as they were.
THEOREM Invariant == Spec => []IInv
<1>1. Init => IInv
  BY InitInv
<1>2. IInv /\ [Next]_vars => IInv'
  BY StepInv
<1>3. QED  BY <1>1, <1>2, PTL DEF Spec

\* pfentry.S returns from every fault, nested or not, to the very registers and
\* the very stack that page_fault_handler interrupted, for an exception stack
\* of any size.
THEOREM ReturnsExactly == Spec => ResumesExactly
<1>1. IInv /\ [Next]_vars
        => [Len(pending') < Len(pending)
              => /\ regs' = Last(pending).regs
                 /\ \A a \in DOMAIN Last(pending).stack : mem'[a] = Last(pending).stack[a]]_vars
  BY StepInv
<1>2. QED  BY <1>1, Invariant, PTL DEF Spec, ResumesExactly
=============================================================================
