---------------------------- MODULE LibraryProofs ---------------------------
(***************************************************************************)
(* Proofs about the sequential algorithms: user_mem_check for ranges and   *)
(* pages of any size, memset and memmove for memories of any size and      *)
(* areas that overlap in any way, stab_binsearch for tables of any length, *)
(* the kernel's memory map for machines of any size (BootInv is what holds *)
(* between two steps of mem_init, from its checks to its last stack), the  *)
(* string functions for strings and bounds of any length, printnum for all *)
(* numbers and the buffers of formatted output for output of any length.   *)
(***************************************************************************)
EXTENDS MemInit, UserMem, Output, Kdebug, FiniteSetTheorems, SequenceTheorems, WellFoundedInduction, TLAPS

\* Every set of numbers has a least one: the induction of this module.
LEMMA Least ==
  ASSUME NEW T, T \subseteq Nat, T # {}
  PROVE  \E n \in T : \A m \in T : n <= m
<1>1. IsWellFoundedOn(OpToRel(<, Nat), Nat)
  BY NatLessThanWellFounded
<1>2. PICK n \in T : \A m \in T : ~(<<m, n>> \in OpToRel(<, Nat))
  BY <1>1, WFMin
<1>3. \A m \in T : ~(m < n)
  BY <1>2 DEF OpToRel
<1>4. QED  BY <1>3

LEMMA MulMono ==
  ASSUME NEW C \in Nat, NEW a \in Int, NEW b \in Int, a <= b
  PROVE  a * C <= b * C
OBVIOUS

LEMMA DivDef ==
  ASSUME NEW C \in Nat \ {0}, NEW a \in Nat
  PROVE  /\ a \div C \in Nat /\ (a \div C) * C <= a /\ a < (a \div C) * C + C
OBVIOUS

\* a \div C is below q exactly if a is below q * C.
LEMMA DivLess ==
  ASSUME NEW C \in Nat \ {0}, NEW a \in Nat, NEW q \in Nat
  PROVE  a \div C < q <=> a < q * C
<1>1. PICK d \in Nat : d = a \div C /\ d * C <= a /\ a < d * C + C
  BY DivDef
<1>2. d * C \in Int /\ q * C \in Int
  OBVIOUS
<1>3. CASE d < q
  <2>1. (d + 1) * C <= q * C
    BY <1>3, MulMono
  <2>2. (d + 1) * C = d * C + C
    OBVIOUS
  <2>3. QED  BY <1>1, <1>2, <1>3, <2>1, <2>2
<1>4. CASE ~(d < q)
  <2>1. q * C <= d * C
    BY <1>4, MulMono
  <2>2. QED  BY <1>1, <1>2, <1>4, <2>1
<1>5. QED  BY <1>3, <1>4

-----------------------------------------------------------------------------
\* The pages of a range of bytes from va to before E: each byte is on one of
\* them, and each holds a byte of the range, of which First is the first.
First(P, va, a) == IF a * P < va THEN va ELSE a * P

Spread(P, va, E, pages) ==
  /\ \A b \in va..(E - 1) : b \div P \in pages
  /\ \A a \in pages :
       /\ First(P, va, a) \in va..(E - 1) /\ First(P, va, a) \div P = a
       /\ \A b \in va..(E - 1) : a <= b \div P => First(P, va, a) <= b

LEMMA RangePages ==
  ASSUME NEW P \in Nat \ {0}, NEW va \in Nat, NEW E \in Nat, va < E
  PROVE  Spread(P, va, E, (va \div P)..(((E + P - 1) \div P) - 1))
<1> PICK end \in Nat : end = (E + P - 1) \div P
  <2>1. E + P - 1 \in Nat
    OBVIOUS
  <2>2. QED  BY <2>1, DivDef
<1>1. end * P \in Int /\ end * P <= E + P - 1 /\ E + P - 1 < end * P + P
  <2>1. E + P - 1 \in Nat
    OBVIOUS
  <2>2. QED  BY <2>1, DivDef
<1>2. va \div P \in Nat
  BY DivDef
<1>3. ASSUME NEW b \in va..(E - 1) PROVE b \div P \in (va \div P)..(end - 1)
  <2>1. b \in Nat /\ b \div P \in Nat
    BY DivDef
  <2>2. b < end * P
    BY <1>1, <2>1
  <2>3. b \div P < end
    BY <2>1, <2>2, DivLess
  <2>4. ~(b \div P < va \div P)
    <3>1. PICK v \in Nat : v = va \div P /\ v * P <= va
      BY DivDef
    <3>2. b \div P < v <=> b < v * P
      BY <2>1, DivLess
    <3>3. v * P \in Int
      OBVIOUS
    <3>4. QED  BY <2>1, <3>1, <3>2, <3>3
  <2>5. QED  BY <1>2, <2>1, <2>3, <2>4
<1>4. ASSUME NEW a \in (va \div P)..(end - 1)
      PROVE  /\ First(P, va, a) \in va..(E - 1) /\ First(P, va, a) \div P = a
             /\ \A b \in va..(E - 1) : a <= b \div P => First(P, va, a) <= b
  <2>1. a \in Nat /\ a * P \in Nat /\ (a + 1) * P = a * P + P
    BY <1>2
  <2>2. va < a * P + P
    <3>1. va \div P < a + 1
      BY <1>2, <2>1
    <3>2. va < (a + 1) * P
      BY <2>1, <3>1, DivLess
    <3>3. QED  BY <2>1, <3>2
  <2>3. a * P < E
    <3>1. (a + 1) * P <= end * P
      BY <1>2, MulMono
    <3>2. QED  BY <1>1, <2>1, <3>1
  <2>4. PICK x \in Nat : x = First(P, va, a) /\ va <= x /\ a * P <= x /\ x < E /\ x < a * P + P
                          /\ (x = va \/ x = a * P)
    BY <2>1, <2>2, <2>3 DEF First
  <2>5. x \div P = a
    <3>1. x \div P < a + 1 <=> x < (a + 1) * P
      BY <2>1, DivLess
    <3>2. x \div P < a <=> x < a * P
      BY <2>1, DivLess
    <3>3. x \div P \in Nat
      BY DivDef
    <3>4. QED  BY <2>1, <2>4, <3>1, <3>2, <3>3
  <2>6. ASSUME NEW b \in va..(E - 1), a <= b \div P PROVE x <= b
    <3>1. b \in Nat /\ b \div P \in Nat
      BY DivDef
    <3>2. b \div P < a <=> b < a * P
      BY <2>1, <3>1, DivLess
    <3>3. QED  BY <2>1, <2>4, <2>6, <3>1, <3>2
  <2>7. QED  BY <2>4, <2>5, <2>6
<1>5. Spread(P, va, E, (va \div P)..(end - 1))
  BY <1>3, <1>4, Zenon DEF Spread
<1>6. QED  BY <1>5


LEMMA Layout == PGSIZE \in Nat \ {0} /\ ULIM \in Nat /\ TOP \in Nat \ {0}
<1>1. NPTENTRIES \in Nat /\ NKERN \in Nat /\ PGSIZE \in Nat \ {0}
  BY LayoutAssumption
<1>2. NKERN * NPTENTRIES \in Nat
  BY <1>1
<1>3. NPTENTRIES # 0
  BY LayoutAssumption
<1>4. QED
  BY <1>1, <1>2, <1>3 DEF UTOP, UENVS, UPAGES, UVPT, ULIM, MMIOBASE, MMIOLIM, KSTACKTOP, KERNBASE, TOP

\* A multiple of C, and rounding one up.
LEMMA Multiple ==
  ASSUME NEW C \in Nat \ {0}, NEW e \in Nat
  PROVE  e * C \in Nat /\ (e * C) \div C = e /\ (e * C + C - 1) \div C = e
<1>1. PICK y \in Nat : y = e * C
  OBVIOUS
<1>2. (e + 1) * C = y + C /\ y + C - 1 \in Nat
  BY <1>1
<1>3. /\ y \div C < e <=> y < e * C
      /\ y \div C < e + 1 <=> y < (e + 1) * C
      /\ (y + C - 1) \div C < e <=> y + C - 1 < e * C
      /\ (y + C - 1) \div C < e + 1 <=> y + C - 1 < (e + 1) * C
  BY <1>2, DivLess
<1>4. y \div C \in Nat /\ (y + C - 1) \div C \in Nat
  BY <1>2, DivDef
<1>5. y \div C = e /\ (y + C - 1) \div C = e
  BY <1>1, <1>2, <1>3, <1>4
<1>6. QED  BY <1>1, <1>5

LEMMA ModMultiple ==
  ASSUME NEW C \in Nat \ {0}, NEW T \in Nat \ {0}, NEW e \in Nat
  PROVE  e % T \in Nat /\ (e * C) % (T * C) = (e % T) * C
<1>1. PICK q \in Nat, k \in Nat : e = q * T + k /\ k < T /\ k = e % T
  <2>1. PICK q \in Nat : q = e \div T /\ q * T <= e /\ e < q * T + T
    BY DivDef
  <2>2. PICK k \in Nat : e = q * T + k /\ k < T
    <3>1. PICK y \in Int : y = q * T
      OBVIOUS
    <3>2. e - y \in Nat /\ e = y + (e - y) /\ e - y < T
      BY <2>1, <3>1
    <3>3. QED  BY <3>1, <3>2
  <2>3. e % T = k
    BY <2>2
  <2>4. QED  BY <2>2, <2>3
<1>2. PICK M \in Nat \ {0} : M = T * C
  OBVIOUS
<1>3. PICK z \in Nat : z = k * C
  OBVIOUS
<1>4. z < M
  <2>1. (k + 1) * C <= T * C
    BY <1>1, MulMono
  <2>2. (k + 1) * C = z + C
    BY <1>3
  <2>3. QED  BY <1>2, <2>1, <2>2
<1>5. PICK y \in Nat : y = e * C
  OBVIOUS
<1>6. y = q * M + z
  <2>1. (q * T) * C = q * (T * C)
    OBVIOUS
  <2>2. (q * T + k) * C = (q * T) * C + k * C
    OBVIOUS
  <2>3. QED  BY <1>1, <1>2, <1>3, <1>5, <2>1, <2>2
<1>7. y % M = z
  BY <1>4, <1>6
<1>8. QED  BY <1>1, <1>2, <1>3, <1>5, <1>7

\* The page at which the loop of user_mem_check stops is the one behind the last
\* byte before Stop, whether the end of the range wraps around or not.
LEMMA RangeEnd ==
  ASSUME NEW va \in Nat, NEW len \in Nat \ {0}
  PROVE  \E E \in Nat, end \in Nat :
           /\ E = Stop(va, len) /\ end = (E + PGSIZE - 1) \div PGSIZE
           /\ va < E \/ ~(va \div PGSIZE < end)
           /\ (ROUNDUP(va + len, PGSIZE) % (TOP * PGSIZE)) \div PGSIZE = end
<1>1. PICK P \in Nat \ {0} : P = PGSIZE
  BY Layout
<1>2. PICK T \in Nat \ {0} : T = TOP
  BY Layout
<1>3. PICK e \in Nat : e = (va + len + P - 1) \div P
  <2>1. va + len + P - 1 \in Nat
    OBVIOUS
  <2>2. QED  BY <2>1, DivDef
<1>4. ROUNDUP(va + len, PGSIZE) = e * P /\ e * P \in Nat
  BY <1>1, <1>3 DEF ROUNDUP
<1>5. PICK y \in Nat : y = e * P /\ y = ROUNDUP(va + len, PGSIZE)
  BY <1>4
<1>6. PICK M \in Nat \ {0} : M = T * P /\ M = TOP * PGSIZE
  <2>1. T * P \in Nat \ {0}
    OBVIOUS
  <2>2. QED  BY <1>1, <1>2, <2>1
<1>7. CASE y < M
  <2>1. y % M = y
    BY <1>7
  <2>2. Stop(va, len) = va + len
    BY <1>5, <1>6, <1>7 DEF Stop
  <2>3. y \div P = e
    BY <1>5, Multiple
  <2>4. (ROUNDUP(va + len, PGSIZE) % (TOP * PGSIZE)) \div PGSIZE = e
    BY <1>1, <1>5, <1>6, <2>1, <2>3
  <2>5. va + len \in Nat /\ e = ((va + len) + PGSIZE - 1) \div PGSIZE
    BY <1>1, <1>3
  <2>6. va < va + len
    OBVIOUS
  <2>7. QED  BY <2>2, <2>4, <2>5, <2>6
\* The end wrapped around is itself a multiple of the page size.
<1>8. CASE ~(y < M)
  <2>1. PICK k \in Nat : k = e % T /\ y % M = k * P
    <3>1. e % T \in Nat /\ (e * P) % (T * P) = (e % T) * P
      BY ModMultiple
    <3>2. QED  BY <1>5, <1>6, <3>1, Zenon
  <2>2. PICK E \in Nat : E = k * P /\ E \div P = k /\ (E + P - 1) \div P = k
    BY <2>1, Multiple
  <2>3. Stop(va, len) = E
    BY <1>5, <1>6, <1>8, <2>1, <2>2 DEF Stop
  <2>4. (ROUNDUP(va + len, PGSIZE) % (TOP * PGSIZE)) \div PGSIZE = k
    BY <1>1, <1>5, <1>6, <2>1, <2>2
  <2>5. va < E \/ ~(va \div P < k)
    <3>1. va \div P < k <=> va < k * P
      BY DivLess
    <3>2. QED  BY <2>2, <3>1
  <2>6. QED  BY <1>1, <2>2, <2>3, <2>4, <2>5
<1>9. QED  BY <1>7, <1>8

\* What a page needs for the check to stop at it.
BadPage(pte, a, perm) == a >= ULIM \/ ~(perm \cup {"P", "U"} \subseteq pte[a])

\* The check as a search for the first bad page.
LEMMA CheckPages ==
  ASSUME NEW pte, NEW va \in Nat, NEW len \in Nat \ {0}, NEW perm,
         NEW end \in Nat, (ROUNDUP(va + len, PGSIZE) % (TOP * PGSIZE)) \div PGSIZE = end,
         NEW bad, bad = {a \in (va \div PGSIZE)..(end - 1) : BadPage(pte, a, perm)}
  PROVE  /\ bad = {} => user_mem_check(pte, va, len, perm) = [ret |-> "0", addr |-> -1]
         /\ bad # {} => \E f \in bad :
              /\ \A b \in bad : f <= b
              /\ user_mem_check(pte, va, len, perm) = [ret |-> "E_FAULT", addr |-> First(PGSIZE, va, f)]
<1>1. (ROUNDUP(va + len, PGSIZE) % (TOP * PGSIZE)) \div PGSIZE = end
  OBVIOUS
<1>2. bad = {a \in (va \div PGSIZE)..(end - 1) : a >= ULIM \/ ~(perm \cup {"P", "U"} \subseteq pte[a])}
  BY DEF BadPage
<1> DEFINE f == CHOOSE a \in bad : \A b \in bad : a <= b
<1>3. user_mem_check(pte, va, len, perm) =
        IF bad = {} THEN [ret |-> "0", addr |-> -1]
        ELSE [ret |-> "E_FAULT", addr |-> First(PGSIZE, va, f)]
  BY <1>1, <1>2, Zenon DEF user_mem_check, First
<1>4. ASSUME bad # {} PROVE f \in bad /\ \A b \in bad : f <= b
  <2>1. va \div PGSIZE \in Nat
    BY Layout, DivDef
  <2>2. bad \subseteq Nat
    BY <1>2, <2>1
  <2>3. \E a \in bad : \A b \in bad : a <= b
    BY ONLY <1>4, <2>2, Least
  <2>4. QED  BY ONLY <2>3, Zenon
<1>5. QED  BY <1>3, <1>4

\* A byte is the user's exactly if its page is not bad.
LEMMA BadByte ==
  ASSUME NEW pte, NEW b \in Nat, NEW perm
  PROVE  UserByte(pte, b, perm) <=> ~BadPage(pte, b \div PGSIZE, perm)
<1>1. b \div PGSIZE < ULIM <=> b < ULIM * PGSIZE
  BY Layout, DivLess
<1>2. b \div PGSIZE \in Nat
  BY Layout, DivDef
<1>3. b < ULIM * PGSIZE <=> ~(b \div PGSIZE >= ULIM)
  BY <1>1, <1>2, Layout
<1>4. QED  BY <1>3, Zenon DEF UserByte, BadPage

BadBytes(pte, va, len, perm) == {b \in va..(Stop(va, len) - 1) : ~UserByte(pte, b, perm)}

LEMMA CheckRight ==
  ASSUME NEW pte, NEW va \in Nat, NEW len \in Nat \ {0}, NEW perm
  PROVE  \/ /\ BadBytes(pte, va, len, perm) = {}
            /\ user_mem_check(pte, va, len, perm) = [ret |-> "0", addr |-> -1]
         \/ \E x \in BadBytes(pte, va, len, perm) :
              /\ \A b \in BadBytes(pte, va, len, perm) : x <= b
              /\ user_mem_check(pte, va, len, perm) = [ret |-> "E_FAULT", addr |-> x]
<1>1. PICK E \in Nat, end \in Nat :
        /\ E = Stop(va, len) /\ end = (E + PGSIZE - 1) \div PGSIZE
        /\ va < E \/ ~(va \div PGSIZE < end)
        /\ (ROUNDUP(va + len, PGSIZE) % (TOP * PGSIZE)) \div PGSIZE = end
  BY RangeEnd
<1>a. PICK bad : bad = BadBytes(pte, va, len, perm)
  OBVIOUS
<1>0. bad = BadBytes(pte, va, len, perm) /\ bad = {b \in va..(E - 1) : ~UserByte(pte, b, perm)}
  BY ONLY <1>a, <1>1, Zenon DEF BadBytes
<1>2. PICK pages : pages = {a \in (va \div PGSIZE)..(end - 1) : BadPage(pte, a, perm)}
  OBVIOUS
<1>3. /\ \A b \in va..(E - 1) : b \div PGSIZE \in (va \div PGSIZE)..(end - 1)
      /\ \A a \in (va \div PGSIZE)..(end - 1) :
           /\ First(PGSIZE, va, a) \in va..(E - 1) /\ First(PGSIZE, va, a) \div PGSIZE = a
           /\ \A b \in va..(E - 1) : a <= b \div PGSIZE => First(PGSIZE, va, a) <= b
  <2>1. CASE va < E
    <3>1. PGSIZE \in Nat \ {0}
      BY Layout
    <3>2. Spread(PGSIZE, va, E, (va \div PGSIZE)..(end - 1))
      BY <1>1, <2>1, <3>1, RangePages
    <3>3. QED  BY <3>2, Zenon DEF Spread
  \* The loop of a range that wraps around mostly stops before it starts.
  <2>2. CASE ~(va < E)
    <3>1. va..(E - 1) = {}
      BY <2>2
    <3>2. (va \div PGSIZE)..(end - 1) = {}
      <4>1. va \div PGSIZE \in Nat
        BY Layout, DivDef
      <4>2. QED  BY <1>1, <2>2, <4>1
    <3>3. QED  BY <3>1, <3>2
  <2>3. QED  BY <2>1, <2>2
<1>4. \A b \in va..(E - 1) : b \in Nat
  OBVIOUS
<1>5. \A b \in va..(E - 1) : b \in bad <=> b \div PGSIZE \in pages
  BY <1>0, <1>2, <1>3, <1>4, BadByte
<1>6. bad \subseteq va..(E - 1) /\ pages \subseteq (va \div PGSIZE)..(end - 1)
  BY <1>0, <1>2
<1>7. CASE pages = {}
  BY <1>0, <1>1, <1>2, <1>5, <1>6, <1>7, CheckPages
<1>8. CASE pages # {}
  <2>1. PICK f \in pages :
          /\ \A a \in pages : f <= a
          /\ user_mem_check(pte, va, len, perm) = [ret |-> "E_FAULT", addr |-> First(PGSIZE, va, f)]
    BY <1>1, <1>2, <1>8, CheckPages
  <2>2. First(PGSIZE, va, f) \in bad
    BY ONLY <1>3, <1>5, <1>6, <2>1, Zenon
  <2>3. ASSUME NEW b \in bad PROVE First(PGSIZE, va, f) <= b
    <3>1. b \div PGSIZE \in pages /\ f <= b \div PGSIZE
      BY ONLY <1>5, <1>6, <2>1, <2>3, Zenon
    <3>2. QED  BY ONLY <1>3, <1>6, <2>1, <2>3, <3>1, Zenon
  <2>4. QED  BY <1>0, <2>1, <2>2, <2>3
<1>9. QED  BY <1>0, <1>7, <1>8

\* The arguments a call can have: any address and any size but 0.
CheckedCall ==
  call.fn = "user_mem_check" => call.va \in Nat /\ call.len \in Nat \ {0}

\* Whatever the page tables, the permissions asked for and the way the range
\* lies on its pages, user_mem_check and user_mem_assert let it pass exactly if
\* every byte of it is the user's up to the address where the loop stops, and
\* the address reported is the first byte that is not.  That is the end of the
\* range unless it wraps around 2^32.
THEOREM UserMemCheckSound == CheckedCall => UserMemCheckRight
<1> SUFFICES ASSUME CheckedCall, call.fn = "user_mem_check"
             PROVE  RangeRight(call.pte, call.va, call.len, call.perm)
  BY DEF UserMemCheckRight
<1>1. PICK va \in Nat : va = call.va
  BY DEF CheckedCall
<1> PICK len \in Nat \ {0} : len = call.len
  BY DEF CheckedCall
<1> DEFINE pte == call.pte
           perm == call.perm
<1> HIDE DEF pte, perm
<1>2. PICK bad : bad = BadBytes(pte, va, len, perm)
  OBVIOUS
<1>3. PICK r : r = user_mem_check(pte, va, len, perm)
  OBVIOUS
<1>4. user_mem_assert(pte, va, len, perm) <=> r.ret = "0"
  <2>1. {a \in (va \div PGSIZE)..(((ROUNDUP(va + len, PGSIZE) % (TOP * PGSIZE)) \div PGSIZE) - 1) :
           a >= ULIM \/ ~((perm \cup {"U"}) \cup {"P", "U"} \subseteq pte[a])}
          = {a \in (va \div PGSIZE)..(((ROUNDUP(va + len, PGSIZE) % (TOP * PGSIZE)) \div PGSIZE) - 1) :
               a >= ULIM \/ ~(perm \cup {"P", "U"} \subseteq pte[a])}
    <3>1. (perm \cup {"U"}) \cup {"P", "U"} = perm \cup {"P", "U"}
      BY Zenon
    <3>2. QED  BY <3>1, Zenon
  <2>2. user_mem_check(pte, va, len, perm \cup {"U"}) = user_mem_check(pte, va, len, perm)
    BY <2>1, Zenon DEF user_mem_check
  <2>3. QED  BY <1>3, <2>2, Zenon DEF user_mem_assert
<1>5. \/ bad = {} /\ r = [ret |-> "0", addr |-> -1]
      \/ \E x \in bad : (\A b \in bad : x <= b) /\ r = [ret |-> "E_FAULT", addr |-> x]
  BY <1>2, <1>3, CheckRight
<1>6. /\ (r.ret = "0") = (bad = {}) /\ user_mem_assert(pte, va, len, perm) = (bad = {})
      /\ bad # {} => r.addr \in bad /\ \A b \in bad : r.addr <= b
  <2>1. CASE bad = {} /\ r = [ret |-> "0", addr |-> -1]
    <3>1. r.ret = "0"
      BY <2>1
    <3>2. QED  BY <1>4, <2>1, <3>1 DEF user_mem_assert
  <2>2. CASE \E x \in bad : (\A b \in bad : x <= b) /\ r = [ret |-> "E_FAULT", addr |-> x]
    <3>1. PICK x \in bad : (\A b \in bad : x <= b) /\ r = [ret |-> "E_FAULT", addr |-> x]
      BY <2>2
    <3>2. r.ret # "0" /\ r.addr = x /\ bad # {}
      BY <3>1
    <3>3. QED  BY <1>4, <3>1, <3>2 DEF user_mem_assert
  <2>3. QED  BY <1>5, <2>1, <2>2
<1>7. RangeRight(pte, va, len, perm)
  BY <1>2, <1>3, <1>6, Zenon DEF RangeRight, BadBytes
<1>8. QED  BY <1>1, <1>7, Zenon DEF pte, perm


-----------------------------------------------------------------------------
\* g lists the memory after each unit of a rep movs.
Turns(g, mem, d, s, cnt, w, dir) ==
  g = [k \in 0..cnt |-> IF k = 0 THEN mem
                        ELSE copy_unit(g[k - 1], d + dir * w * (k - 1), s + dir * w * (k - 1), w)]

\* There is one such list, and movs returns its end.
LEMMA MovsIs ==
  ASSUME NEW g, NEW mem, NEW d, NEW s, NEW cnt \in Nat, NEW w, NEW dir,
         Turns(g, mem, d, s, cnt, w, dir)
  PROVE  movs(mem, d, s, cnt, w, dir) = g[cnt]
<1> DEFINE f == CHOOSE f : f = [k \in 0..cnt |-> IF k = 0 THEN mem
                ELSE copy_unit(f[k - 1], d + dir * w * (k - 1), s + dir * w * (k - 1), w)]
<1>1. movs(mem, d, s, cnt, w, dir) = f[cnt]
  BY Zenon DEF movs
<1>2. f = [k \in 0..cnt |-> IF k = 0 THEN mem
                ELSE copy_unit(f[k - 1], d + dir * w * (k - 1), s + dir * w * (k - 1), w)]
  BY DEF Turns
<1> HIDE DEF f
<1> DEFINE T == {k \in 0..cnt : f[k] # g[k]}
<1>3. T = {}
  <2> SUFFICES ASSUME T # {} PROVE FALSE
    OBVIOUS
  <2>1. T \subseteq Nat
    OBVIOUS
  <2>2. PICK k \in T : \A m \in T : k <= m
    <3> HIDE DEF T
    <3>1. QED  BY <2>1, Least
  <2>3. k \in 0..cnt /\ f[k] # g[k]
    OBVIOUS
  <2>4. k # 0
    BY <1>2, <2>3 DEF Turns
  <2>5. k - 1 \in 0..cnt /\ f[k - 1] = g[k - 1]
    BY <2>2, <2>3, <2>4
  <2>6. f[k] = copy_unit(f[k - 1], d + dir * w * (k - 1), s + dir * w * (k - 1), w)
    BY <1>2, <2>3, <2>4
  <2>7. g[k] = copy_unit(g[k - 1], d + dir * w * (k - 1), s + dir * w * (k - 1), w)
    BY <2>3, <2>4 DEF Turns
  <2>8. QED  BY <2>3, <2>5, <2>6, <2>7
<1>4. QED  BY <1>1, <1>3

\* The memory mem of M bytes with the l bytes from lo on copied from s - d away.
Copied(mem, M, lo, l, d, s) ==
  [i \in 0..(M - 1) |-> IF i \in lo..(lo + l - 1) THEN mem[s + i - d] ELSE mem[i]]

\* A unit at x, when the l bytes from lo on have been copied and none of them is
\* one the unit reads, adds its bytes to them, above or below.
NextUnit(M, d, s, lo, l, x, w, lo2) ==
  /\ M \in Nat /\ d \in Nat /\ s \in Nat /\ l \in Nat /\ w \in Nat
  /\ lo \in Int /\ x \in Int /\ lo2 \in Int
  /\ (lo2 = lo /\ x = lo + l) \/ (lo2 = x /\ x + w = lo)
  /\ 0 <= s + x - d /\ s + x - d + w <= M
  /\ s + x - d >= lo + l \/ s + x - d + w <= lo

UnitAdded(mem, M, d, s, lo, l, x, w, lo2) ==
  copy_unit(Copied(mem, M, lo, l, d, s), x, s + x - d, w) = Copied(mem, M, lo2, l + w, d, s)

LEMMA UnitCopied ==
  ASSUME NEW M, NEW mem, NEW d, NEW s, NEW lo, NEW l, NEW x, NEW w, NEW lo2,
         NextUnit(M, d, s, lo, l, x, w, lo2)
  PROVE  UnitAdded(mem, M, d, s, lo, l, x, w, lo2)
<1> USE DEF NextUnit
<1> DEFINE a == Copied(mem, M, lo, l, d, s)
           b == copy_unit(a, x, s + x - d, w)
           c == Copied(mem, M, lo2, l + w, d, s)
<1>1. /\ DOMAIN a = 0..(M - 1)
      /\ \A i \in 0..(M - 1) : a[i] = IF i \in lo..(lo + l - 1) THEN mem[s + i - d] ELSE mem[i]
  BY DEF Copied
<1>2. c = [i \in 0..(M - 1) |-> IF i \in lo2..(lo2 + (l + w) - 1) THEN mem[s + i - d] ELSE mem[i]]
  BY DEF Copied
<1> HIDE DEF a
<1>3. b = [i \in 0..(M - 1) |-> IF i \in x..(x + w - 1) THEN a[(s + x - d) + i - x] ELSE a[i]]
  BY <1>1 DEF copy_unit
<1> HIDE DEF b, c
<1>4. ASSUME NEW i \in 0..(M - 1) PROVE b[i] = c[i]
  <2>1. CASE i \in x..(x + w - 1)
    <3>1. (s + x - d) + i - x = s + i - d
      OBVIOUS
    <3>2. s + i - d \in 0..(M - 1) /\ s + i - d \notin lo..(lo + l - 1)
      BY <2>1
    <3>3. b[i] = mem[s + i - d]
      BY <1>1, <1>3, <2>1, <3>1, <3>2
    <3>4. i \in lo2..(lo2 + (l + w) - 1)
      BY <2>1
    <3>5. QED  BY <1>2, <3>3, <3>4
  <2>2. CASE i \notin x..(x + w - 1)
    <3>1. b[i] = a[i]
      BY <1>3, <2>2
    <3>2. i \in lo2..(lo2 + (l + w) - 1) <=> i \in lo..(lo + l - 1)
      BY <2>2
    <3>3. QED  BY <1>1, <1>2, <3>1, <3>2
  <2>3. QED  BY <2>1, <2>2
<1>5. b = c
  BY <1>2, <1>3, <1>4
<1>6. QED  BY <1>5 DEF a, b, c, UnitAdded


\* The distance of the k-th unit from the first, and what is copied by then.
LEMMA UnitSizes ==
  ASSUME NEW cnt \in Nat, NEW w \in Nat, NEW k \in 1..cnt
  PROVE  \E l \in Nat : /\ l = (k - 1) * w /\ k * w = l + w /\ l + w <= cnt * w
                        /\ 1 * w * (k - 1) = l /\ (-1) * w * (k - 1) = -l
<1>1. PICK j \in Nat : j = k - 1 /\ k = j + 1
  OBVIOUS
<1>2. PICK l \in Nat : l = j * w
  OBVIOUS
<1>3. k * w = l + w /\ 1 * w * j = l /\ (-1) * w * j = -l
  BY <1>1, <1>2
<1>4. k * w <= cnt * w
  BY MulMono
<1>5. QED  BY <1>1, <1>2, <1>3, <1>4

MovesUp(mem, M, d, s, cnt, w) ==
  movs(mem, d, s, cnt, w, 1) = Copied(mem, M, d, cnt * w, d, s)
MovesDown(mem, M, d, s, cnt, w) ==
  movs(mem, d + cnt * w - w, s + cnt * w - w, cnt, w, -1) = Copied(mem, M, d, cnt * w, d, s)
Room(M, d, s, cnt, w) == d + cnt * w <= M /\ s + cnt * w <= M

\* Units copied upwards: what is read lies above what has been written, or the
\* source ends below the destination.
LEMMA CopyUp ==
  ASSUME NEW M \in Nat, NEW V, NEW mem \in [0..(M - 1) -> V],
         NEW d \in Nat, NEW s \in Nat, NEW cnt \in Nat, NEW w \in Nat,
         Room(M, d, s, cnt, w), s >= d \/ s + cnt * w <= d
  PROVE  MovesUp(mem, M, d, s, cnt, w)
<1>1. PICK g : g = [k \in 0..cnt |-> Copied(mem, M, d, k * w, d, s)]
  OBVIOUS
<1>2. PICK n \in Nat : n = cnt * w /\ d + n <= M /\ s + n <= M
  BY DEF Room
<1>3. g[0] = mem
  <2>1. g[0] = Copied(mem, M, d, 0, d, s)
    BY <1>1
  <2>2. QED  BY <2>1 DEF Copied
<1>4. ASSUME NEW k \in 1..cnt
      PROVE  g[k] = copy_unit(g[k - 1], d + 1 * w * (k - 1), s + 1 * w * (k - 1), w)
  <2>1. PICK l \in Nat : l = (k - 1) * w /\ k * w = l + w /\ l + w <= n /\ 1 * w * (k - 1) = l
    BY <1>2, UnitSizes
  <2>2. g[k - 1] = Copied(mem, M, d, l, d, s) /\ g[k] = Copied(mem, M, d, l + w, d, s)
    BY <1>1, <2>1
  <2>3. PICK x \in Int : x = d + l /\ s + x - d = s + l
    OBVIOUS
  <2>4. NextUnit(M, d, s, d, l, x, w, d)
    BY <1>2, <2>1, <2>3 DEF NextUnit
  <2>5. copy_unit(Copied(mem, M, d, l, d, s), x, s + x - d, w) = Copied(mem, M, d, l + w, d, s)
    <3>1. UnitAdded(mem, M, d, s, d, l, x, w, d)
      BY <2>4, UnitCopied
    <3>2. QED  BY <3>1, Zenon DEF UnitAdded
  <2>6. QED  BY <2>1, <2>2, <2>3, <2>5
<1>5. Turns(g, mem, d, s, cnt, w, 1)
  <2>1. \A k \in 0..cnt : k # 0 => k \in 1..cnt
    OBVIOUS
  <2>2. \A k \in 0..cnt : g[k] = IF k = 0 THEN mem
          ELSE copy_unit(g[k - 1], d + 1 * w * (k - 1), s + 1 * w * (k - 1), w)
    BY <1>3, <1>4, <2>1, Zenon
  <2>3. QED  BY <1>1, <2>2 DEF Turns
<1>6. movs(mem, d, s, cnt, w, 1) = g[cnt]
  BY <1>5, MovsIs
<1>7. QED  BY <1>1, <1>6 DEF MovesUp

\* Units copied downwards, to a destination above the source.
LEMMA CopyDown ==
  ASSUME NEW M \in Nat, NEW V, NEW mem \in [0..(M - 1) -> V],
         NEW d \in Nat, NEW s \in Nat, NEW cnt \in Nat, NEW w \in Nat,
         Room(M, d, s, cnt, w), s < d
  PROVE  MovesDown(mem, M, d, s, cnt, w)
<1>2. PICK n \in Nat : n = cnt * w /\ d + n <= M /\ s + n <= M
  BY DEF Room
<1>1. PICK g : g = [k \in 0..cnt |-> Copied(mem, M, d + n - k * w, k * w, d, s)]
  OBVIOUS
<1>3. g[0] = mem
  <2>1. g[0] = Copied(mem, M, d + n - 0, 0, d, s)
    BY <1>1
  <2>2. QED  BY <2>1 DEF Copied
<1>4. ASSUME NEW k \in 1..cnt
      PROVE  g[k] = copy_unit(g[k - 1], (d + n - w) + (-1) * w * (k - 1), (s + n - w) + (-1) * w * (k - 1), w)
  <2>1. PICK l \in Nat : l = (k - 1) * w /\ k * w = l + w /\ l + w <= n /\ (-1) * w * (k - 1) = -l
    BY <1>2, UnitSizes
  <2>2. PICK lo \in Int : lo = d + n - l
    OBVIOUS
  <2>3. PICK x \in Int : x = d + n - (l + w)
    OBVIOUS
  <2>4. g[k - 1] = Copied(mem, M, lo, l, d, s) /\ g[k] = Copied(mem, M, x, l + w, d, s)
    BY <1>1, <2>1, <2>2, <2>3
  <2>5. /\ NextUnit(M, d, s, lo, l, x, w, x)
        /\ (d + n - w) + (-l) = x /\ (s + n - w) + (-l) = s + x - d
    BY <1>2, <2>1, <2>2, <2>3 DEF NextUnit
  <2>6. copy_unit(Copied(mem, M, lo, l, d, s), x, s + x - d, w) = Copied(mem, M, x, l + w, d, s)
    <3>1. UnitAdded(mem, M, d, s, lo, l, x, w, x)
      BY <2>5, UnitCopied
    <3>2. QED  BY <3>1, Zenon DEF UnitAdded
  <2>7. QED  BY <2>1, <2>4, <2>5, <2>6
<1>5. Turns(g, mem, d + n - w, s + n - w, cnt, w, -1)
  <2>1. \A k \in 0..cnt : k # 0 => k \in 1..cnt
    OBVIOUS
  <2>2. \A k \in 0..cnt : g[k] = IF k = 0 THEN mem
          ELSE copy_unit(g[k - 1], (d + n - w) + (-1) * w * (k - 1), (s + n - w) + (-1) * w * (k - 1), w)
    BY <1>3, <1>4, <2>1, Zenon
  <2>3. QED  BY <1>1, <2>2 DEF Turns
<1>6. movs(mem, d + n - w, s + n - w, cnt, w, -1) = g[cnt]
  BY <1>5, MovsIs
<1>7. g[cnt] = Copied(mem, M, d, n, d, s)
  <2>1. g[cnt] = Copied(mem, M, d + n - n, n, d, s)
    BY <1>1, <1>2
  <2>2. QED  BY <2>1
<1>8. QED  BY <1>2, <1>6, <1>7 DEF MovesDown

\* A unit is one byte, or a word that divides the size.
LEMMA UnitDivides ==
  ASSUME NEW a \in Nat, NEW b \in Nat, NEW n \in Nat
  PROVE  /\ Unit(a, b, n) \in Nat /\ n \div Unit(a, b, n) \in Nat
         /\ (n \div Unit(a, b, n)) * Unit(a, b, n) = n
<1>1. n \div 1 \in Nat /\ (n \div 1) * 1 = n
  OBVIOUS
<1>2. n % 4 = 0 => n \div 4 \in Nat /\ (n \div 4) * 4 = n
  OBVIOUS
<1>3. QED  BY <1>1, <1>2 DEF Unit

\* However the two areas overlap and are aligned, memmove leaves in the
\* destination the bytes the source had, and every other byte as it was.
THEOREM MemmoveRight ==
  ASSUME NEW M \in Nat, NEW V, NEW mem \in [0..(M - 1) -> V],
         NEW p \in Nat, NEW q \in Nat, NEW n \in Nat, p + n <= M, q + n <= M
  PROVE  MoveRight(mem, p, q, n)
<1>1. PICK w \in Nat : w = Unit(q, p, n) /\ n \div w \in Nat /\ (n \div w) * w = n
  BY UnitDivides
<1>2. PICK cnt \in Nat : cnt = n \div w /\ cnt * w = n
  BY <1>1
<1>3. memmove(mem, p, q, n) = Copied(mem, M, p, n, p, q)
  <2>1. CASE q < p /\ q + n > p
    <3>1. memmove(mem, p, q, n) = movs(mem, p + n - w, q + n - w, cnt, w, -1)
      BY <1>1, <1>2, <2>1 DEF memmove
    <3>0. Room(M, p, q, cnt, w) /\ q < p
      BY <1>2, <2>1 DEF Room
    <3>2. MovesDown(mem, M, p, q, cnt, w)
      BY <3>0, CopyDown
    <3>3. QED  BY <1>2, <3>1, <3>2 DEF MovesDown
  <2>2. CASE ~(q < p /\ q + n > p)
    <3>1. memmove(mem, p, q, n) = movs(mem, p, q, cnt, w, 1)
      BY <1>1, <1>2, <2>2 DEF memmove
    <3>2. Room(M, p, q, cnt, w) /\ (q >= p \/ q + cnt * w <= p)
      BY <1>2, <2>2 DEF Room
    <3>3. MovesUp(mem, M, p, q, cnt, w)
      BY <3>2, CopyUp
    <3>4. QED  BY <1>2, <3>1, <3>3 DEF MovesUp
  <2>3. QED  BY <2>1, <2>2
<1>4. PICK str : str = Bytes(mem, q, n) /\ Len(str) = n
                  /\ \A i \in p..(p + n - 1) : str[i - p + 1] = mem[q + i - p]
  <2>1. Bytes(mem, q, n) = [i \in 1..n |-> mem[q + i - 1]]
    BY DEF Bytes
  <2>2. Len(Bytes(mem, q, n)) = n
    BY <2>1
  <2>3. ASSUME NEW i \in p..(p + n - 1) PROVE Bytes(mem, q, n)[i - p + 1] = mem[q + i - p]
    <3>1. i - p + 1 \in 1..n /\ q + (i - p + 1) - 1 = q + i - p
      OBVIOUS
    <3>2. QED  BY <2>1, <3>1
  <2>4. QED  BY <2>2, <2>3
<1>5. Copied(mem, M, p, n, p, q) =
        [i \in DOMAIN mem |-> IF i \in p..(p + Len(str) - 1) THEN str[i - p + 1] ELSE mem[i]]
  BY <1>4 DEF Copied
<1>6. QED  BY <1>3, <1>4, <1>5 DEF MoveRight, Holds

\* memset, by words or by bytes, fills the area and nothing else.
THEOREM MemsetRight ==
  ASSUME NEW M \in Nat, NEW V, NEW mem \in [0..(M - 1) -> V],
         NEW p \in Nat, NEW n \in Nat, p + n <= M, NEW b
  PROVE  SetRight(mem, p, b, n)
<1>1. PICK w \in Nat : w = Unit(p, p, n) /\ n \div w \in Nat /\ (n \div w) * w = n
  BY UnitDivides
<1>2. memset(mem, p, b, n) = [i \in DOMAIN mem |-> IF i \in p..(p + n - 1) THEN b ELSE mem[i]]
  BY <1>1 DEF memset, stos
<1>a. PICK str : str = [i \in 1..n |-> b]
  OBVIOUS
<1>3. Len(str) = n /\ \A i \in p..(p + n - 1) : str[i - p + 1] = b
  <2>1. Len([i \in 1..n |-> b]) = n
    OBVIOUS
  <2>2. \A i \in p..(p + n - 1) : i - p + 1 \in 1..n
    OBVIOUS
  <2>3. \A i \in p..(p + n - 1) : str[i - p + 1] = b
    BY <1>a, <2>2
  <2>4. QED  BY <1>a, <2>1, <2>3
<1>4. memset(mem, p, b, n) =
        [i \in DOMAIN mem |-> IF i \in p..(p + Len(str) - 1) THEN str[i - p + 1] ELSE mem[i]]
  BY <1>2, <1>3
<1>5. QED  BY <1>a, <1>4 DEF SetRight, Holds


-----------------------------------------------------------------------------
\* The greatest and the least of a set of numbers between two others.
LEMMA MaxOf ==
  ASSUME NEW a \in Int, NEW b \in Int, NEW S, S \subseteq a..b, S # {}
  PROVE  Max(S) \in S /\ \A x \in S : x <= Max(S)
<1> DEFINE T == {b - x : x \in S}
<1>1. T \subseteq Nat /\ T # {}
  <2>1. \A x \in S : b - x \in Nat
    OBVIOUS
  <2>2. QED  BY <2>1, Zenon
<1>2. PICK n \in T : \A m \in T : n <= m
  <2> HIDE DEF T
  <2>1. QED  BY <1>1, Least
<1>3. PICK y \in S : n = b - y
  OBVIOUS
<1>4. \A x \in S : b - y <= b - x
  BY <1>2, <1>3
<1>5. \A x \in S : y >= x
  BY <1>4
<1>6. Max(S) \in S /\ \A x \in S : Max(S) >= x
  BY <1>5, Zenon DEF Max
<1>7. \A x \in S : x \in Int
  OBVIOUS
<1>8. QED  BY <1>6, <1>7

LEMMA MinOf ==
  ASSUME NEW a \in Int, NEW b \in Int, NEW S, S \subseteq a..b, S # {}
  PROVE  Min(S) \in S /\ \A x \in S : Min(S) <= x
<1> DEFINE T == {x - a : x \in S}
<1>1. T \subseteq Nat /\ T # {}
  <2>1. \A x \in S : x - a \in Nat
    OBVIOUS
  <2>2. QED  BY <2>1, Zenon
<1>2. PICK n \in T : \A m \in T : n <= m
  <2> HIDE DEF T
  <2>1. QED  BY <1>1, Least
<1>3. PICK y \in S : n = y - a
  OBVIOUS
<1>4. \A x \in S : y - a <= x - a
  BY <1>2, <1>3
<1>5. \A x \in S : y <= x
  BY <1>4
<1>6. QED  BY <1>5, Zenon DEF Min

\* The state of the search, and the stabs of a type in a region.
SearchState == [l : Int, r : Int, left : Int, right : Int, any : BOOLEAN, addr : Int]
Of(stabs, L, R, type) == {i \in L..R : stabs[i].n_type = type}

\* A region whose stabs of the type lie in the order of their addresses.
Sorted(stabs, L, R, type) ==
  /\ L \in Nat /\ R \in Nat
  /\ \A i \in L..R : stabs[i].n_value \in Int
  /\ \A i, j \in Of(stabs, L, R, type) : i < j => stabs[i].n_value <= stabs[j].n_value

\* What a turn of the loop does: t is true_m, m the last stab of the type up to it.
TurnCases(stabs, type, s, t) ==
  \/ /\ \A i \in s.l..t : stabs[i].n_type # type
     /\ bin_step(stabs, type, s) = [s EXCEPT !.l = t + 1]
  \/ \E m \in s.l..t :
       /\ stabs[m].n_type = type /\ \A i \in s.l..t : stabs[i].n_type = type => i <= m
       /\ \/ /\ stabs[m].n_value < s.addr
             /\ bin_step(stabs, type, s) = [s EXCEPT !.any = TRUE, !.left = m, !.l = t + 1]
          \/ /\ stabs[m].n_value > s.addr
             /\ bin_step(stabs, type, s) = [s EXCEPT !.any = TRUE, !.right = m - 1, !.r = m - 1]
          \/ /\ stabs[m].n_value = s.addr
             /\ bin_step(stabs, type, s) =
                  [s EXCEPT !.any = TRUE, !.left = m, !.l = m, !.addr = s.addr + 1]

LEMMA Turn ==
  ASSUME NEW stabs, NEW type, NEW s \in SearchState, s.l <= s.r,
         \A i \in s.l..s.r : stabs[i].n_value \in Int
  PROVE  \E t \in s.l..s.r : TurnCases(stabs, type, s, t)
<1>1. PICK t \in Int : t = (s.l + s.r) \div 2 /\ s.l <= t /\ t <= s.r
  BY DEF SearchState
<1>2. PICK hits : hits = {i \in s.l..t : stabs[i].n_type = type}
  OBVIOUS
<1>3. PICK m : m = Max(hits)
  OBVIOUS
<1>4. bin_step(stabs, type, s) =
        CASE hits = {} -> [s EXCEPT !.l = t + 1]
          [] hits # {} /\ stabs[m].n_value < s.addr ->
               [s EXCEPT !.any = TRUE, !.left = m, !.l = t + 1]
          [] hits # {} /\ stabs[m].n_value > s.addr ->
               [s EXCEPT !.any = TRUE, !.right = m - 1, !.r = m - 1]
          [] OTHER -> [s EXCEPT !.any = TRUE, !.left = m, !.l = m, !.addr = s.addr + 1]
  BY <1>1, <1>2, <1>3, Zenon DEF bin_step
<1>5. CASE hits = {}
  <2>1. bin_step(stabs, type, s) = [s EXCEPT !.l = t + 1]
    BY <1>4, <1>5, Zenon
  <2>2. \A i \in s.l..t : stabs[i].n_type # type
    BY <1>2, <1>5
  <2>3. TurnCases(stabs, type, s, t)
    BY <2>1, <2>2, Zenon DEF TurnCases
  <2>4. QED  BY <1>1, <2>3 DEF SearchState
<1>6. CASE hits # {}
  <2>1. m \in hits /\ \A i \in hits : i <= m
    <3>1. hits \subseteq s.l..t /\ s.l \in Int
      BY <1>2 DEF SearchState
    <3>2. QED  BY <1>1, <1>3, <1>6, <3>1, MaxOf
  <2>2. /\ m \in s.l..t /\ stabs[m].n_type = type
        /\ \A i \in s.l..t : stabs[i].n_type = type => i <= m
    BY <1>2, <2>1
  <2>3. stabs[m].n_value \in Int /\ s.addr \in Int
    BY <1>1, <2>2 DEF SearchState
  <2>4. CASE stabs[m].n_value < s.addr
    <3>1. bin_step(stabs, type, s) = [s EXCEPT !.any = TRUE, !.left = m, !.l = t + 1]
      <4>1. ~(stabs[m].n_value > s.addr)
        BY <2>3, <2>4
      <4>2. QED  BY <1>4, <1>6, <2>4, <4>1, Zenon
    <3>2. TurnCases(stabs, type, s, t)
      BY <2>2, <2>4, <3>1, Zenon DEF TurnCases
    <3>3. QED  BY <1>1, <3>2 DEF SearchState
  <2>5. CASE stabs[m].n_value > s.addr
    <3>1. bin_step(stabs, type, s) = [s EXCEPT !.any = TRUE, !.right = m - 1, !.r = m - 1]
      <4>1. ~(stabs[m].n_value < s.addr)
        BY <2>3, <2>5
      <4>2. QED  BY <1>4, <1>6, <2>5, <4>1, Zenon
    <3>2. TurnCases(stabs, type, s, t)
      BY <2>2, <2>5, <3>1, Zenon DEF TurnCases
    <3>3. QED  BY <1>1, <3>2 DEF SearchState
  <2>6. CASE stabs[m].n_value = s.addr
    <3>1. bin_step(stabs, type, s) = [s EXCEPT !.any = TRUE, !.left = m, !.l = m, !.addr = s.addr + 1]
      <4>1. ~(stabs[m].n_value < s.addr) /\ ~(stabs[m].n_value > s.addr)
        BY <2>3, <2>6
      <4>2. QED  BY <1>4, <1>6, <4>1, Zenon
    <3>2. TurnCases(stabs, type, s, t)
      BY <2>2, <2>6, <3>1, Zenon DEF TurnCases
    <3>3. QED  BY <1>1, <3>2 DEF SearchState
  <2>7. QED  BY <2>3, <2>4, <2>5, <2>6
<1>7. QED  BY <1>5, <1>6


\* The invariant of the loop.  Stabs of the type below l are below the address
\* compared with and left is the last of them that was seen; stabs above r are
\* above the address asked for, A, and r is just before one of them or where it
\* began.  The address compared with is A until an exact match, and then grows
\* by one with each: stabs start at all addresses from A up to it.
Values(stabs, L, R, type) == {stabs[i].n_value : i \in Of(stabs, L, R, type)}
SearchInv(stabs, L, R, type, A, s) ==
  /\ s \in SearchState
  /\ L <= s.l /\ s.l <= s.r + 1 /\ s.r <= R /\ s.right = s.r
  /\ A <= s.addr /\ A..(s.addr - 1) \subseteq Values(stabs, L, R, type)
  /\ \A i \in Of(stabs, L, R, type) : i < s.l => stabs[i].n_value < s.addr /\ i <= s.left /\ s.any
  /\ \A i \in Of(stabs, L, R, type) : i > s.r => stabs[i].n_value > A
  /\ s.r = R \/ s.r + 1 \in Of(stabs, L, R, type)
  /\ \/ s.left = L
     \/ /\ s.left \in Of(stabs, L, R, type) /\ stabs[s.left].n_value < s.addr
        /\ s.left <= s.l /\ s.left <= s.r

\* A bound on the turns left: two for each stab of the region, as an exact match
\* leaves l where it is, but then the stab at l is below the address.
TurnsLeft(stabs, of, s) ==
  2 * (s.r - s.l) + (IF s.l \in of /\ stabs[s.l].n_value < s.addr THEN 2 ELSE 3)

Fields(u, l, r, left, right, any, addr) ==
  /\ u \in SearchState /\ u.l = l /\ u.r = r /\ u.left = left /\ u.right = right
  /\ u.any = any /\ u.addr = addr

LEMMA Updates ==
  ASSUME NEW s \in SearchState, NEW m \in Int, NEW t \in Int
  PROVE  /\ Fields([s EXCEPT !.any = TRUE, !.left = m, !.l = t + 1],
                   t + 1, s.r, m, s.right, TRUE, s.addr)
         /\ Fields([s EXCEPT !.any = TRUE, !.right = m - 1, !.r = m - 1],
                   s.l, m - 1, s.left, m - 1, TRUE, s.addr)
         /\ Fields([s EXCEPT !.any = TRUE, !.left = m, !.l = m, !.addr = s.addr + 1],
                   m, s.r, m, s.right, TRUE, s.addr + 1)
<1>1. Fields([s EXCEPT !.any = TRUE, !.left = m, !.l = t + 1],
             t + 1, s.r, m, s.right, TRUE, s.addr)
  <2>1. PICK u : u = [s EXCEPT !.any = TRUE, !.left = m, !.l = t + 1]
    OBVIOUS
  <2>2. [s EXCEPT !.any = TRUE, !.left = m, !.l = t + 1] \in SearchState
    <3>1. PICK b \in Int : b = t + 1
      BY DEF SearchState
    <3>2. [s EXCEPT !.any = TRUE, !.left = m, !.l = b] \in SearchState
      BY Zenon DEF SearchState
    <3>3. QED  BY <3>1, <3>2, Zenon
  <2>3. u.l = t + 1 /\ u.r = s.r /\ u.left = m /\ u.right = s.right
    BY <2>1 DEF SearchState
  <2>4. u.any = TRUE /\ u.addr = s.addr
    BY <2>1 DEF SearchState
  <2>5. QED  BY <2>1, <2>2, <2>3, <2>4, Zenon DEF Fields
<1>2. Fields([s EXCEPT !.any = TRUE, !.right = m - 1, !.r = m - 1],
             s.l, m - 1, s.left, m - 1, TRUE, s.addr)
  <2>1. PICK u : u = [s EXCEPT !.any = TRUE, !.right = m - 1, !.r = m - 1]
    OBVIOUS
  <2>2. [s EXCEPT !.any = TRUE, !.right = m - 1, !.r = m - 1] \in SearchState
    <3>1. PICK b \in Int : b = m - 1
      BY DEF SearchState
    <3>2. [s EXCEPT !.any = TRUE, !.right = b, !.r = b] \in SearchState
      BY Zenon DEF SearchState
    <3>3. QED  BY <3>1, <3>2, Zenon
  <2>3. u.l = s.l /\ u.r = m - 1 /\ u.left = s.left /\ u.right = m - 1
    BY <2>1 DEF SearchState
  <2>4. u.any = TRUE /\ u.addr = s.addr
    BY <2>1 DEF SearchState
  <2>5. QED  BY <2>1, <2>2, <2>3, <2>4, Zenon DEF Fields
<1>3. Fields([s EXCEPT !.any = TRUE, !.left = m, !.l = m, !.addr = s.addr + 1],
             m, s.r, m, s.right, TRUE, s.addr + 1)
  <2>1. PICK u : u = [s EXCEPT !.any = TRUE, !.left = m, !.l = m, !.addr = s.addr + 1]
    OBVIOUS
  <2>2. [s EXCEPT !.any = TRUE, !.left = m, !.l = m, !.addr = s.addr + 1] \in SearchState
    <3>1. PICK b \in Int : b = s.addr + 1
      BY DEF SearchState
    <3>2. [s EXCEPT !.any = TRUE, !.left = m, !.l = m, !.addr = b] \in SearchState
      BY Zenon DEF SearchState
    <3>3. QED  BY <3>1, <3>2, Zenon
  <2>3. u.l = m /\ u.r = s.r /\ u.left = m /\ u.right = s.right
    BY <2>1 DEF SearchState
  <2>4. u.any = TRUE /\ u.addr = s.addr + 1
    BY <2>1 DEF SearchState
  <2>5. QED  BY <2>1, <2>2, <2>3, <2>4, Zenon DEF Fields
<1>4. QED  BY <1>1, <1>2, <1>3, Zenon

LEMMA TurnKeeps ==
  ASSUME NEW stabs, NEW L, NEW R, NEW type, NEW A \in Int, NEW s, NEW of,
         Sorted(stabs, L, R, type), of = Of(stabs, L, R, type),
         SearchInv(stabs, L, R, type, A, s), s.l <= s.r
  PROVE  /\ SearchInv(stabs, L, R, type, A, bin_step(stabs, type, s))
         /\ TurnsLeft(stabs, of, bin_step(stabs, type, s)) < TurnsLeft(stabs, of, s)
<1>1. /\ L \in Nat /\ R \in Nat
      /\ \A i \in L..R : stabs[i].n_value \in Int
      /\ \A i, j \in of : i < j => stabs[i].n_value <= stabs[j].n_value
  BY DEF Sorted
<1>2. /\ s \in SearchState /\ s.l \in Int /\ s.r \in Int /\ s.left \in Int /\ s.addr \in Int
      /\ L <= s.l /\ s.l <= s.r + 1 /\ s.r <= R /\ s.right = s.r
  BY DEF SearchInv, SearchState
<1>v. PICK vals : vals = Values(stabs, L, R, type)
  OBVIOUS
<1>3. A <= s.addr /\ A..(s.addr - 1) \subseteq vals
  BY <1>v, Zenon DEF SearchInv
<1>4. /\ \A i \in of : i < s.l => stabs[i].n_value < s.addr /\ i <= s.left /\ s.any
      /\ \A i \in of : i > s.r => stabs[i].n_value > A
      /\ s.r = R \/ s.r + 1 \in of
      /\ \/ s.left = L
         \/ /\ s.left \in of /\ stabs[s.left].n_value < s.addr
            /\ s.left <= s.l /\ s.left <= s.r
  BY Zenon DEF SearchInv
<1>5. of \subseteq L..R /\ \A i \in L..R : i \in of <=> stabs[i].n_type = type
  BY DEF Of
<1>6. \A i \in of : i \in Int /\ stabs[i].n_value \in Int
  BY <1>1, <1>5
<1>7. PICK t \in Int : s.l <= t /\ t <= s.r /\ TurnCases(stabs, type, s, t)
  <2>1. \A i \in s.l..s.r : stabs[i].n_value \in Int
    BY <1>1, <1>2
  <2>2. \A t \in s.l..s.r : t \in Int /\ s.l <= t /\ t <= s.r
    BY <1>2
  <2>3. QED  BY <1>2, <2>1, <2>2, Turn
<1>8. PICK u : u = bin_step(stabs, type, s)
  OBVIOUS
<1>9. ASSUME u \in SearchState, L <= u.l, u.l <= u.r + 1, u.r <= R, u.right = u.r,
             A <= u.addr, A..(u.addr - 1) \subseteq vals,
             \A i \in of : i < u.l => stabs[i].n_value < u.addr /\ i <= u.left /\ u.any,
             \A i \in of : i > u.r => stabs[i].n_value > A,
             u.r = R \/ u.r + 1 \in of,
             \/ u.left = L
             \/ u.left \in of /\ stabs[u.left].n_value < u.addr /\ u.left <= u.l /\ u.left <= u.r
      PROVE  SearchInv(stabs, L, R, type, A, u)
  BY <1>v, <1>9, Zenon DEF SearchInv
\* The bound falls with the region, and with an exact match at l.
<1>f. ASSUME u.l \in Int, u.r \in Int, u.l >= s.l, u.r <= s.r,
             \/ u.l > s.l \/ (u.r < s.r /\ u.addr = s.addr)
             \/ /\ u.l = s.l /\ s.l \in of /\ stabs[s.l].n_value = s.addr /\ u.addr = s.addr + 1
      PROVE  TurnsLeft(stabs, of, u) < TurnsLeft(stabs, of, s)
  <2>1. PICK x \in {2, 3} : TurnsLeft(stabs, of, s) = 2 * (s.r - s.l) + x
                             /\ (x = 2 <=> s.l \in of /\ stabs[s.l].n_value < s.addr)
    BY DEF TurnsLeft
  <2>2. PICK y \in {2, 3} : TurnsLeft(stabs, of, u) = 2 * (u.r - u.l) + y
                             /\ (y = 2 <=> u.l \in of /\ stabs[u.l].n_value < u.addr)
    BY DEF TurnsLeft
  <2>3. CASE u.l > s.l
    BY <1>2, <1>f, <2>1, <2>2, <2>3
  <2>4. CASE u.r < s.r /\ u.addr = s.addr
    BY <1>2, <1>f, <2>1, <2>2, <2>4
  <2>5. CASE /\ u.l = s.l /\ s.l \in of /\ stabs[s.l].n_value = s.addr /\ u.addr = s.addr + 1
    <3>1. x = 3 /\ y = 2
      BY <1>2, <2>1, <2>2, <2>5
    <3>2. QED  BY <1>2, <1>f, <2>1, <2>2, <2>5, <3>1
  <2>6. QED  BY <1>f, <2>3, <2>4, <2>5
<1>10. CASE /\ \A i \in s.l..t : stabs[i].n_type # type
            /\ u = [s EXCEPT !.l = t + 1]
  <2>1. /\ u \in SearchState /\ u.l = t + 1 /\ u.r = s.r /\ u.left = s.left /\ u.right = s.right
        /\ u.any = s.any /\ u.addr = s.addr
    BY <1>1, <1>2, <1>7, <1>10 DEF SearchState
  <2>2. \A i \in of : i < t + 1 => i < s.l
    BY <1>1, <1>2, <1>5, <1>6, <1>10
  <2>3. \A i \in of : i < u.l => stabs[i].n_value < u.addr /\ i <= u.left /\ u.any
    BY <1>4, <2>1, <2>2
  <2>4. TurnsLeft(stabs, of, u) < TurnsLeft(stabs, of, s)
    BY <1>f, <1>2, <1>7, <2>1
  <2>5. L <= u.l /\ u.l <= u.r + 1 /\ u.r <= R /\ u.right = u.r
    BY <1>1, <1>2, <1>7, <2>1
  <2>6. u.left = L \/ (u.left \in of /\ stabs[u.left].n_value < u.addr /\ u.left <= u.l /\ u.left <= u.r)
    <3>1. CASE s.left = L
      BY <2>1, <3>1
    <3>2. CASE s.left \in of /\ stabs[s.left].n_value < s.addr /\ s.left <= s.l /\ s.left <= s.r
      <4>1. s.left <= t + 1
        BY <1>2, <1>7, <3>2
      <4>2. QED  BY <2>1, <3>2, <4>1, Zenon
    <3>3. QED  BY <1>4, <3>1, <3>2, Zenon
  <2>7. u.r = R \/ u.r + 1 \in of
    BY <1>4, <2>1
  <2>8. \A i \in of : i > u.r => stabs[i].n_value > A
    BY <1>4, <2>1
  <2>9. A <= u.addr /\ A..(u.addr - 1) \subseteq vals
    BY <1>3, <2>1
  <2>10. SearchInv(stabs, L, R, type, A, u)
    BY <1>9, <2>1, <2>3, <2>5, <2>6, <2>7, <2>8, <2>9, Zenon
  <2>11. QED  BY <1>8, <2>4, <2>10, Zenon
<1>11. ASSUME NEW m \in s.l..t,
              stabs[m].n_type = type, \A i \in s.l..t : stabs[i].n_type = type => i <= m
       PROVE  m \in of /\ m \in Int /\ s.l <= m /\ m <= t /\ stabs[m].n_value \in Int /\ \A i \in of : i < t + 1 => i <= m
  <2>1. m \in of
    BY <1>1, <1>2, <1>5, <1>7, <1>11
  <2>2. ASSUME NEW i \in of, i < t + 1 PROVE i <= m
    BY <1>1, <1>2, <1>5, <1>6, <1>7, <1>11, <2>2
  <2>3. QED  BY <1>1, <1>2, <1>6, <1>7, <2>1, <2>2
<1>12. ASSUME NEW m \in Int, s.l <= m, m <= t, m \in of, stabs[m].n_value \in Int,
              \A i \in of : i < t + 1 => i <= m,
              stabs[m].n_value < s.addr,
              u = [s EXCEPT !.any = TRUE, !.left = m, !.l = t + 1]
       PROVE  SearchInv(stabs, L, R, type, A, u) /\ TurnsLeft(stabs, of, u) < TurnsLeft(stabs, of, s)
  <2>1. /\ u \in SearchState /\ u.l = t + 1 /\ u.r = s.r /\ u.left = m /\ u.right = s.right
        /\ u.any = TRUE /\ u.addr = s.addr
    <3>1. Fields(u, t + 1, s.r, m, s.right, TRUE, s.addr)
      BY <1>2, <1>12, Updates, Zenon
    <3>2. QED  BY <3>1, Zenon DEF Fields
  <2>2. \A i \in of : i < u.l => stabs[i].n_value < u.addr /\ i <= u.left /\ u.any
    <3> SUFFICES ASSUME NEW i \in of, i < t + 1 PROVE stabs[i].n_value < s.addr /\ i <= m
      BY <2>1
    <3>1. i <= m
      BY <1>12
    <3>2. stabs[i].n_value <= stabs[m].n_value
      BY <1>1, <1>6, <1>12, <3>1
    <3>3. QED  BY <1>1, <1>2, <1>6, <1>12, <3>1, <3>2
  <2>3. u.left \in of /\ stabs[u.left].n_value < u.addr /\ u.left <= u.l /\ u.left <= u.r
    BY <1>2, <1>7, <1>12, <2>1
  <2>4. TurnsLeft(stabs, of, u) < TurnsLeft(stabs, of, s)
    BY <1>f, <1>2, <1>7, <2>1
  <2>5. L <= u.l /\ u.l <= u.r + 1 /\ u.r <= R /\ u.right = u.r
    BY <1>1, <1>2, <1>7, <2>1
  <2>6. QED  BY <1>3, <1>4, <1>9, <2>1, <2>2, <2>3, <2>4, <2>5
<1>13. ASSUME NEW m \in Int, s.l <= m, m <= t, m \in of, stabs[m].n_value \in Int,
              stabs[m].n_value > s.addr,
              u = [s EXCEPT !.any = TRUE, !.right = m - 1, !.r = m - 1]
       PROVE  SearchInv(stabs, L, R, type, A, u) /\ TurnsLeft(stabs, of, u) < TurnsLeft(stabs, of, s)
  <2>1. /\ u \in SearchState /\ u.l = s.l /\ u.r = m - 1 /\ u.left = s.left /\ u.right = m - 1
        /\ u.any = TRUE /\ u.addr = s.addr
    <3>1. Fields(u, s.l, m - 1, s.left, m - 1, TRUE, s.addr)
      BY <1>2, <1>13, Updates, Zenon
    <3>2. QED  BY <3>1, Zenon DEF Fields
  <2>2. \A i \in of : i > u.r => stabs[i].n_value > A
    <3> SUFFICES ASSUME NEW i \in of, i > m - 1 PROVE stabs[i].n_value > A
      BY <2>1
    <3>1. stabs[m].n_value <= stabs[i].n_value
      BY <1>1, <1>6, <1>13
    <3>2. QED  BY <1>2, <1>3, <1>6, <1>13, <3>1
  <2>3. u.r + 1 = m /\ L <= u.l /\ u.l <= u.r + 1 /\ u.r <= R /\ u.right = u.r
    BY <1>1, <1>2, <1>7, <1>13, <2>1
  <2>4. TurnsLeft(stabs, of, u) < TurnsLeft(stabs, of, s)
    BY <1>f, <1>2, <1>7, <1>13, <2>1
  <2>5. u.left = L \/ (u.left \in of /\ stabs[u.left].n_value < u.addr /\ u.left <= u.l /\ u.left <= u.r)
    <3>1. CASE s.left = L
      BY <2>1, <3>1
    <3>2. CASE s.left \in of /\ stabs[s.left].n_value < s.addr /\ s.left <= s.l /\ s.left <= s.r
      <4>1. s.left # m
        BY <1>2, <1>13, <3>2
      <4>2. s.left <= m - 1
        BY <1>2, <1>13, <3>2, <4>1
      <4>3. QED  BY <2>1, <3>2, <4>2, Zenon
    <3>3. QED  BY <1>4, <3>1, <3>2, Zenon
  <2>6. \A i \in of : i < u.l => stabs[i].n_value < u.addr /\ i <= u.left /\ u.any
    BY <1>4, <2>1
  <2>7. QED  BY <1>3, <1>9, <1>13, <2>1, <2>2, <2>3, <2>4, <2>5, <2>6
<1>14. ASSUME NEW m \in Int, s.l <= m, m <= t, m \in of, stabs[m].n_value \in Int,
              stabs[m].n_value = s.addr,
              u = [s EXCEPT !.any = TRUE, !.left = m, !.l = m, !.addr = s.addr + 1]
       PROVE  SearchInv(stabs, L, R, type, A, u) /\ TurnsLeft(stabs, of, u) < TurnsLeft(stabs, of, s)
  <2>1. /\ u \in SearchState /\ u.l = m /\ u.r = s.r /\ u.left = m /\ u.right = s.right
        /\ u.any = TRUE /\ u.addr = s.addr + 1
    <3>1. Fields(u, m, s.r, m, s.right, TRUE, s.addr + 1)
      BY <1>2, <1>14, Updates, Zenon
    <3>2. QED  BY <3>1, Zenon DEF Fields
  <2>2. A <= u.addr /\ A..(u.addr - 1) \subseteq vals
    <3>1. s.addr \in vals
      BY <1>v, <1>14, Zenon DEF Values
    <3>2. ASSUME NEW x \in A..(u.addr - 1) PROVE x \in vals
      <4>1. x = s.addr \/ x \in A..(s.addr - 1)
        BY <1>2, <2>1
      <4>2. QED  BY <1>3, <3>1, <4>1
    <3>3. QED  BY <1>2, <1>3, <2>1, <3>2
  <2>3. \A i \in of : i < u.l => stabs[i].n_value < u.addr /\ i <= u.left /\ u.any
    <3> SUFFICES ASSUME NEW i \in of, i < m PROVE stabs[i].n_value < s.addr + 1 /\ i <= m
      BY <2>1
    <3>1. stabs[i].n_value <= stabs[m].n_value
      BY <1>1, <1>14
    <3>2. QED  BY <1>2, <1>6, <1>14, <3>1
  <2>4. TurnsLeft(stabs, of, u) < TurnsLeft(stabs, of, s)
    BY <1>f, <1>2, <1>7, <1>14, <2>1
  <2>5. L <= u.l /\ u.l <= u.r + 1 /\ u.r <= R /\ u.right = u.r
    BY <1>1, <1>2, <1>7, <1>14, <2>1
  <2>6. u.left \in of /\ stabs[u.left].n_value < u.addr /\ u.left <= u.l /\ u.left <= u.r
    BY <1>2, <1>7, <1>14, <2>1
  <2>7. QED  BY <1>4, <1>9, <2>1, <2>2, <2>3, <2>4, <2>5, <2>6
<1>15. QED
  <2>1. CASE /\ \A i \in s.l..t : stabs[i].n_type # type
             /\ bin_step(stabs, type, s) = [s EXCEPT !.l = t + 1]
    BY <1>8, <1>10, <2>1
  <2>2. CASE \E m \in s.l..t :
       /\ stabs[m].n_type = type /\ \A i \in s.l..t : stabs[i].n_type = type => i <= m
       /\ \/ /\ stabs[m].n_value < s.addr
             /\ bin_step(stabs, type, s) = [s EXCEPT !.any = TRUE, !.left = m, !.l = t + 1]
          \/ /\ stabs[m].n_value > s.addr
             /\ bin_step(stabs, type, s) = [s EXCEPT !.any = TRUE, !.right = m - 1, !.r = m - 1]
          \/ /\ stabs[m].n_value = s.addr
             /\ bin_step(stabs, type, s) =
                  [s EXCEPT !.any = TRUE, !.left = m, !.l = m, !.addr = s.addr + 1]
    <3>1. PICK m \in s.l..t :
       /\ stabs[m].n_type = type /\ \A i \in s.l..t : stabs[i].n_type = type => i <= m
       /\ \/ /\ stabs[m].n_value < s.addr
             /\ u = [s EXCEPT !.any = TRUE, !.left = m, !.l = t + 1]
          \/ /\ stabs[m].n_value > s.addr
             /\ u = [s EXCEPT !.any = TRUE, !.right = m - 1, !.r = m - 1]
          \/ /\ stabs[m].n_value = s.addr
             /\ u = [s EXCEPT !.any = TRUE, !.left = m, !.l = m, !.addr = s.addr + 1]
      BY <1>8, <2>2, Zenon
    <3>2. m \in of /\ m \in Int /\ s.l <= m /\ m <= t /\ stabs[m].n_value \in Int /\ \A i \in of : i < t + 1 => i <= m
      BY <1>11, <3>1, Zenon
    <3>3. SearchInv(stabs, L, R, type, A, u) /\ TurnsLeft(stabs, of, u) < TurnsLeft(stabs, of, s)
      BY <1>12, <1>13, <1>14, <3>1, <3>2, Zenon
    <3>4. QED  BY <1>8, <3>3, Zenon
  <2>3. QED  BY <1>7, <2>1, <2>2, Zenon DEF TurnCases


\* The list of the states after each turn exists.
Looped(f, stabs, type, s, n) ==
  f = [i \in 0..n |-> IF i = 0 THEN s ELSE bin_turn(stabs, type, f[i - 1])]

LEMMA LoopExists ==
  ASSUME NEW stabs, NEW type, NEW s, NEW n \in Nat
  PROVE  \E f : Looped(f, stabs, type, s, n)
<1> DEFINE T == {k \in Nat : ~\E f : Looped(f, stabs, type, s, k)}
<1> SUFFICES T = {}
  OBVIOUS
<1> SUFFICES ASSUME T # {} PROVE FALSE
  OBVIOUS
<1>1. PICK k \in T : \A m \in T : k <= m
  <2>1. T \subseteq Nat
    OBVIOUS
  <2> HIDE DEF T
  <2>2. QED  BY <2>1, Least
<1>2. k \in Nat /\ ~\E f : Looped(f, stabs, type, s, k)
  OBVIOUS
<1>3. CASE k = 0
  <2>1. Looped([i \in 0..0 |-> s], stabs, type, s, 0)
    BY DEF Looped
  <2>2. QED  BY <1>2, <1>3, <2>1
<1>4. CASE k # 0
  <2>1. k - 1 \in Nat /\ k - 1 \notin T
    BY <1>1, <1>2, <1>4
  <2>2. PICK f : Looped(f, stabs, type, s, k - 1)
    BY <2>1
  <2>3. PICK g : g = [i \in 0..k |-> IF i = k THEN bin_turn(stabs, type, f[k - 1]) ELSE f[i]]
    OBVIOUS
  <2>4. ASSUME NEW i \in 0..k PROVE g[i] = IF i = 0 THEN s ELSE bin_turn(stabs, type, g[i - 1])
    <3>1. CASE i = 0
      <4>1. g[0] = f[0] /\ f[0] = s
        BY <1>2, <1>4, <2>2, <2>3 DEF Looped
      <4>2. QED  BY <3>1, <4>1
    <3>2. CASE i # 0
      <4>1. i - 1 \in 0..k /\ i - 1 \in 0..(k - 1) /\ i - 1 # k
        BY <1>2, <3>2
      <4>2. g[i - 1] = f[i - 1]
        BY <2>3, <4>1
      <4>3. CASE i = k
        BY <2>3, <3>2, <4>2, <4>3
      <4>4. CASE i # k
        <5>1. i \in 0..(k - 1)
          BY <1>2, <4>4
        <5>2. g[i] = f[i] /\ f[i] = bin_turn(stabs, type, f[i - 1])
          BY <2>2, <2>3, <3>2, <4>4, <5>1 DEF Looped
        <5>3. QED  BY <3>2, <4>2, <5>2
      <4>5. QED  BY <4>3, <4>4
    <3>3. QED  BY <3>1, <3>2
  <2>5. Looped(g, stabs, type, s, k)
    BY <2>3, <2>4 DEF Looped
  <2>6. QED  BY <1>2, <2>5
<1>5. QED  BY <1>3, <1>4

\* The loop ends within its turns, and the invariant holds where it ends.
LEMMA LoopEnds ==
  ASSUME NEW stabs, NEW L, NEW R, NEW type, NEW A \in Int, NEW s, NEW of,
         Sorted(stabs, L, R, type), of = Of(stabs, L, R, type),
         SearchInv(stabs, L, R, type, A, s), s.l <= s.r
  PROVE  /\ SearchInv(stabs, L, R, type, A, bin_loop(stabs, type, s))
         /\ bin_loop(stabs, type, s).l > bin_loop(stabs, type, s).r
<1>1. \A x : SearchInv(stabs, L, R, type, A, x) =>
               TurnsLeft(stabs, of, x) \in Nat /\ x.l \in Int /\ x.r \in Int /\ x.addr \in Int
  <2> SUFFICES ASSUME NEW x, SearchInv(stabs, L, R, type, A, x)
               PROVE  TurnsLeft(stabs, of, x) \in Nat /\ x.l \in Int /\ x.r \in Int /\ x.addr \in Int
    OBVIOUS
  <2>1. x \in SearchState /\ x.l <= x.r + 1
    BY DEF SearchInv
  <2>2. x.l \in Int /\ x.r \in Int /\ x.addr \in Int
    BY <2>1 DEF SearchState
  <2>3. QED  BY <2>1, <2>2 DEF TurnsLeft
<1>2. PICK n \in Nat : n = MaxTurns(s) /\ n > TurnsLeft(stabs, of, s)
  <2>1. PICK w \in Nat : w = s.r - s.l
    BY <1>1
  <2>2. MaxTurns(s) = 2 * (w + 2)
    BY <1>1, <2>1 DEF MaxTurns
  <2>3. TurnsLeft(stabs, of, s) <= 2 * w + 3
    BY <2>1 DEF TurnsLeft
  <2>4. TurnsLeft(stabs, of, s) \in Nat
    BY <1>1
  <2>5. QED  BY <2>2, <2>3, <2>4
<1> DEFINE f == CHOOSE f : f = [i \in 0..n |-> IF i = 0 THEN s ELSE bin_turn(stabs, type, f[i - 1])]
<1>3. bin_loop(stabs, type, s) = f[n]
  BY <1>2, Zenon DEF bin_loop, bin_turns
<1>4. f = [i \in 0..n |-> IF i = 0 THEN s ELSE bin_turn(stabs, type, f[i - 1])]
  BY LoopExists DEF Looped
<1> HIDE DEF f
<1> DEFINE Good(k) == /\ SearchInv(stabs, L, R, type, A, f[k])
                      /\ f[k].l > f[k].r \/ TurnsLeft(stabs, of, f[k]) + k <= TurnsLeft(stabs, of, s)
           T == {k \in 0..n : ~Good(k)}
<1>5. T = {}
  <2> SUFFICES ASSUME T # {} PROVE FALSE
    OBVIOUS
  <2>1. T \subseteq Nat
    OBVIOUS
  <2>2. PICK k \in T : \A m \in T : k <= m
    <3> HIDE DEF T
    <3>1. QED  BY <2>1, Least
  <2>3. k \in 0..n /\ k \in Nat /\ ~Good(k)
    OBVIOUS
  <2>4. CASE k = 0
    <3>1. f[0] = s
      BY <1>4
    <3>2. TurnsLeft(stabs, of, s) + 0 <= TurnsLeft(stabs, of, s)
      BY <1>1
    <3>3. QED  BY <2>3, <2>4, <3>1, <3>2
  <2>5. CASE k # 0
    <3>1. k - 1 \in 0..n /\ k - 1 \notin T
      BY <2>2, <2>3, <2>5
    <3>2. PICK x : x = f[k - 1]
      OBVIOUS
    <3>3. /\ SearchInv(stabs, L, R, type, A, x)
          /\ x.l > x.r \/ TurnsLeft(stabs, of, x) + (k - 1) <= TurnsLeft(stabs, of, s)
      BY <3>1, <3>2
    <3>4. f[k] = bin_turn(stabs, type, x)
      BY <1>4, <2>3, <2>5, <3>2
    <3>5. CASE x.l > x.r
      <4>1. f[k] = x
        BY <3>4, <3>5 DEF bin_turn
      <4>2. QED  BY <2>3, <3>3, <3>5, <4>1
    <3>6. CASE ~(x.l > x.r)
      <4>1. f[k] = bin_step(stabs, type, x)
        BY <3>4, <3>6 DEF bin_turn
      <4>2. x.l <= x.r
        BY <1>1, <3>3, <3>6
      <4>3. SearchInv(stabs, L, R, type, A, f[k]) /\ TurnsLeft(stabs, of, f[k]) < TurnsLeft(stabs, of, x)
        BY <3>3, <4>1, <4>2, TurnKeeps
      <4>4. TurnsLeft(stabs, of, f[k]) \in Nat /\ TurnsLeft(stabs, of, x) \in Nat /\ TurnsLeft(stabs, of, s) \in Nat
        BY <1>1, <3>3, <4>3
      <4>5. TurnsLeft(stabs, of, f[k]) + k <= TurnsLeft(stabs, of, s)
        BY <2>3, <3>3, <3>6, <4>3, <4>4
      <4>6. QED  BY <2>3, <4>3, <4>5
    <3>7. QED  BY <3>5, <3>6
  <2>6. QED  BY <2>4, <2>5
<1>6. Good(n)
  <2>1. n \in 0..n /\ n \notin T
    BY <1>5
  <2>2. QED  BY <2>1
<1>7. ~(TurnsLeft(stabs, of, f[n]) + n <= TurnsLeft(stabs, of, s))
  <2>1. TurnsLeft(stabs, of, f[n]) \in Nat /\ TurnsLeft(stabs, of, s) \in Nat
    BY <1>1, <1>6
  <2>2. QED  BY <1>2, <2>1
<1>8. QED  BY <1>3, <1>6, <1>7


\* Whatever the length of the table, whatever other stabs lie between those of
\* the type and however many of these start at the same address: where these
\* are in the order of their addresses, stab_binsearch returns one of them and
\* the end of the region before the next.  It is the last one that starts at or
\* before addr, or, if stabs start at addr, addr + 1 and so on up to a later one
\* without a gap, possibly that.
THEOREM BinarySearchRight ==
  ASSUME NEW stabs, NEW L, NEW R, NEW type, NEW A \in Int, Sorted(stabs, L, R, type)
  PROVE  SearchRight(stabs, L, R, type, A)
<1> PICK of : of = Of(stabs, L, R, type)
  OBVIOUS
<1> PICK below : below = {i \in of : stabs[i].n_value <= A}
  OBVIOUS
<1> PICK vals : vals = {stabs[i].n_value : i \in of}
  OBVIOUS
<1>1. SUFFICES ASSUME below # {}
               PROVE  \E i \in of :
                 /\ \/ i = Max(below)
                    \/ i > Max(below) /\ A..stabs[i].n_value \subseteq vals
                 /\ stab_binsearch(stabs, L, R, type, A) =
                      <<i, (IF {j \in of : j > i} = {} THEN R + 1 ELSE Min({j \in of : j > i})) - 1>>
  BY Zenon DEF SearchRight, Of
<1>2. /\ L \in Nat /\ R \in Nat /\ of \subseteq L..R /\ below \subseteq of
      /\ \A i \in of : i \in Int /\ stabs[i].n_value \in Int
      /\ \A i \in L..R : i \in of <=> stabs[i].n_type = type
  BY DEF Sorted, Of
<1>3. L <= R
  BY <1>1, <1>2
<1> DEFINE s0 == bin_start(L, R, A)
           s == bin_loop(stabs, type, s0)
<1>5. s0 = bin_start(L, R, A)
  OBVIOUS
<1> HIDE DEF s0
<1>6. /\ s0 \in SearchState /\ s0.l = L /\ s0.r = R /\ s0.left = L /\ s0.right = R /\ s0.addr = A
  <2>1. s0 \in SearchState
    BY <1>2, <1>5 DEF SearchState, bin_start
  <2>2. QED  BY <1>5, <2>1 DEF bin_start
<1>7. SearchInv(stabs, L, R, type, A, s0)
  <2>1. \A i \in of : ~(i < s0.l) /\ ~(i > s0.r)
    BY <1>2, <1>6
  <2>2. L <= s0.l /\ s0.l <= s0.r + 1 /\ s0.r <= R
    BY <1>2, <1>3, <1>6
  <2>3. A <= s0.addr /\ A..(s0.addr - 1) = {}
    BY <1>6
  <2>4. A..(s0.addr - 1) \subseteq Values(stabs, L, R, type)
    BY <2>3
  <2>5. QED  BY <1>6, <2>1, <2>2, <2>3, <2>4, Zenon DEF SearchInv
<1>8. s = bin_loop(stabs, type, s0)
  OBVIOUS
<1> HIDE DEF s
<1>9. SearchInv(stabs, L, R, type, A, s) /\ s.l > s.r
  BY <1>3, <1>6, <1>7, <1>8, LoopEnds
<1>10. /\ s.l \in Int /\ s.r \in Int /\ s.left \in Int /\ s.right = s.r /\ s.addr \in Int
       /\ L <= s.l /\ s.l = s.r + 1 /\ s.r <= R
       /\ A..(s.addr - 1) \subseteq vals
       /\ \A i \in of : i < s.l => stabs[i].n_value < s.addr /\ i <= s.left /\ s.any
       /\ \A i \in of : i > s.r => stabs[i].n_value > A
       /\ s.r = R \/ s.r + 1 \in of
       /\ s.left = L \/ (s.left \in of /\ s.left <= s.r)
  <2>1. s \in SearchState /\ s.l <= s.r + 1
    BY <1>9 DEF SearchInv
  <2>2. s.l \in Int /\ s.r \in Int /\ s.left \in Int /\ s.addr \in Int
    BY <2>1 DEF SearchState
  <2>3. s.l = s.r + 1
    BY <1>9, <2>1, <2>2
  <2>4. QED  BY <1>9, <2>2, <2>3, Zenon DEF SearchInv, Values
<1>11. Max(below) \in below /\ \A i \in below : i <= Max(below)
  <2>1. below \subseteq L..R /\ L \in Int /\ R \in Int
    BY <1>2
  <2>2. QED  BY <1>1, <2>1, MaxOf
\* What is at or below A lies below l, and left is the last stab below l.
<1>12. PICK m \in Int : m = Max(below) /\ m \in of /\ m <= s.r /\ m <= s.left /\ s.any
  <2>1. PICK m \in Int : m = Max(below) /\ m \in of /\ stabs[m].n_value <= A
    BY <1>2, <1>11
  <2>2. m <= s.r
    BY <1>2, <1>10, <2>1
  <2>3. m <= s.left /\ s.any
    BY <1>10, <2>1, <2>2
  <2>4. QED  BY <2>1, <2>2, <2>3
<1>13. /\ s.left \in of /\ s.left <= s.r
       /\ \A i \in of : i <= s.r => i <= s.left
  <2>1. s.left \in of /\ s.left <= s.r
    <3>1. CASE s.left = L
      <4>1. L <= m
        BY <1>2, <1>12
      <4>2. m = s.left
        BY <1>2, <1>10, <1>12, <3>1, <4>1
      <4>3. QED  BY <1>12, <4>2
    <3>2. QED  BY <1>10, <3>1
  <2>2. QED  BY <1>2, <1>10, <2>1
<1>a. \/ s.left = Max(below)
      \/ s.left > Max(below) /\ A..stabs[s.left].n_value \subseteq vals
  <2>1. PICK v \in Int : v = stabs[s.left].n_value /\ v < s.addr
    BY <1>2, <1>10, <1>13
  <2>2. A..v \subseteq A..(s.addr - 1)
    BY <1>10, <2>1
  <2>3. QED  BY <1>10, <1>12, <2>1, <2>2
<1>b. PICK above : above = {j \in of : j > s.left}
  OBVIOUS
<1>14. (IF above = {} THEN R + 1 ELSE Min(above)) - 1 = s.r
  <2>1. \A i \in above : i \in of /\ i > s.r
    BY <1>b, <1>2, <1>10, <1>13
  <2>2. CASE s.r + 1 \in of
    <3>1. s.r + 1 \in above
      BY <1>b, <1>10, <1>13, <2>2
    <3>2. Min(above) \in above /\ \A i \in above : Min(above) <= i
      <4>1. above \subseteq L..R /\ L \in Int /\ R \in Int
        BY <1>b, <1>2
      <4>2. QED  BY <3>1, <4>1, MinOf
    <3>3. PICK x \in Int : x = Min(above) /\ x > s.r /\ x <= s.r + 1
      BY <1>2, <2>1, <3>1, <3>2
    <3>4. QED  BY <1>10, <3>1, <3>3
  <2>3. CASE s.r = R
    <3>1. above = {}
      BY <1>2, <2>1, <2>3
    <3>2. QED  BY <1>2, <2>3, <3>1
  <2>4. QED  BY <1>10, <2>2, <2>3
\* The last loop of the code finds nothing to correct.
<1> DEFINE stops == {s.left} \cup {i \in s.left..s.right : stabs[i].n_type = type}
<1>15. Max(stops) = s.left
  <2>1. stops \subseteq s.left..s.r /\ stops # {} /\ s.left \in stops
    BY <1>10, <1>13
  <2>2. Max(stops) \in stops /\ \A i \in stops : i <= Max(stops)
    <3> HIDE DEF stops
    <3>1. QED  BY <1>10, <2>1, MaxOf
  <2>3. ASSUME NEW i \in stops PROVE i <= s.left
    <3>1. CASE i = s.left
      BY <1>10, <3>1
    <3>2. CASE i \in s.left..s.right /\ stabs[i].n_type = type
      <4>1. i \in L..R /\ i <= s.r
        BY <1>2, <1>10, <1>13, <3>2
      <4>2. i \in of
        BY <1>2, <3>2, <4>1
      <4>3. QED  BY <1>13, <4>1, <4>2
    <3>3. QED  BY <3>1, <3>2
  <2>4. PICK x \in Int : x = Max(stops) /\ x <= s.left /\ s.left <= x
    <3> HIDE DEF stops
    <3>1. PICK x : x = Max(stops) /\ x \in s.left..s.r /\ s.left <= x /\ x <= s.left
      BY <2>1, <2>2, <2>3, Zenon
    <3>2. x \in Int
      BY <1>10, <3>1
    <3>3. QED  BY <3>1, <3>2
  <2> HIDE DEF stops
  <2>5. QED  BY <1>10, <2>4
<1>16. stab_binsearch(stabs, L, R, type, A) =
         IF ~s.any THEN <<s.left, s.left - 1>>
         ELSE IF s.right <= s.left THEN <<s.right, s.right>>
         ELSE <<Max(stops), s.right>>
  <2>1. stab_binsearch(stabs, L, R, type, A) = bin_region(stabs, type, s)
    BY <1>5, <1>8 DEF stab_binsearch
  <2>2. QED  BY <2>1 DEF bin_region
<1> HIDE DEF stops
<1>17. stab_binsearch(stabs, L, R, type, A) = <<s.left, s.r>>
  <2>1. CASE s.right <= s.left
    <3>1. s.right = s.left /\ s.right = s.r
      BY <1>10, <1>13, <2>1
    <3>2. QED  BY <1>12, <1>13, <1>16, <2>1, <3>1
  <2>2. CASE ~(s.right <= s.left)
    BY <1>10, <1>12, <1>13, <1>15, <1>16, <2>2
  <2>3. QED  BY <2>1, <2>2
<1>18. stab_binsearch(stabs, L, R, type, A) =
         <<s.left, (IF {j \in of : j > s.left} = {} THEN R + 1 ELSE Min({j \in of : j > s.left})) - 1>>
  BY <1>b, <1>14, <1>17, Zenon
<1>19. QED  BY <1>a, <1>13, <1>18, Zenon

-----------------------------------------------------------------------------
\* The kernel's memory map.  The layout in page tables of N entries.
N == NPTENTRIES

LEMMA Sizes ==
  /\ N \in Nat \ {0} /\ N >= 4 /\ NKERN \in Nat \ {0} /\ NCPU \in Nat \ {0} /\ 4 * NCPU <= N
  /\ PGSIZE \in Nat \ {0} /\ PGSIZE > 1
BY LayoutAssumption DEF N

\* The directory entry and the table entry of an address.
LEMMA PageAt ==
  ASSUME NEW d \in Nat, NEW va \in Nat, d * N <= va, va < d * N + N
  PROVE  PDX(va) = d /\ PTX(va) = va - d * N
<1> USE Sizes
<1>1. va \div N < d + 1 <=> va < (d + 1) * N
  BY DivLess
<1>2. va \div N < d <=> va < d * N
  BY DivLess
<1>3. va \div N \in Nat
  BY DivDef
<1>4. (d + 1) * N = d * N + N /\ d * N \in Int
  OBVIOUS
<1>5. va \div N = d
  BY <1>1, <1>2, <1>3, <1>4
<1>6. va % N = va - (va \div N) * N
  OBVIOUS
<1>7. QED  BY <1>5, <1>6 DEF PDX, PTX, N

LEMMA PageParts ==
  ASSUME NEW va \in Nat
  PROVE  /\ PDX(va) \in Nat /\ PTX(va) \in 0..(N - 1)
         /\ PDX(va) * N <= va /\ va < PDX(va) * N + N /\ va = PDX(va) * N + PTX(va)
<1> USE Sizes
<1>1. va \div N \in Nat /\ (va \div N) * N <= va /\ va < (va \div N) * N + N
  BY DivDef
<1>2. va % N \in 0..(N - 1) /\ va % N = va - (va \div N) * N
  OBVIOUS
<1>3. (va \div N) * N \in Int
  BY <1>1
<1>4. va = (va \div N) * N + (va % N)
  BY <1>1, <1>2, <1>3
<1>5. QED  BY <1>1, <1>2, <1>4 DEF PDX, PTX, N

\* Two addresses with the same entries are the same.
LEMMA PageApart ==
  ASSUME NEW va \in Nat, NEW vb \in Nat, va # vb
  PROVE  PDX(va) # PDX(vb) \/ PTX(va) # PTX(vb)
<1>1. va = PDX(va) * N + PTX(va) /\ vb = PDX(vb) * N + PTX(vb)
  BY PageParts
<1>2. QED  BY <1>1, Zenon

LEMMA Places ==
  /\ UTOP = 2 * N /\ UENVS = 2 * N /\ UPAGES = 3 * N /\ UVPT = 4 * N /\ ULIM = 5 * N
  /\ MMIOBASE = 5 * N /\ MMIOLIM = 6 * N /\ KSTACKTOP = 7 * N /\ KERNBASE = 7 * N
  /\ TOP = 7 * N + NKERN * N /\ NKERN * N \in Nat /\ TOP \in Nat
  /\ PDX(TOP) = 7 + NKERN /\ PDX(UVPT) = 4 /\ PDX(KERNBASE) = 7
<1> USE Sizes
<1>1. /\ UTOP = 2 * N /\ UENVS = 2 * N /\ UPAGES = 3 * N /\ UVPT = 4 * N /\ ULIM = 5 * N
      /\ MMIOBASE = 5 * N /\ MMIOLIM = 6 * N /\ KSTACKTOP = 7 * N /\ KERNBASE = 7 * N
  BY DEF N, UTOP, UENVS, UPAGES, UVPT, ULIM, MMIOBASE, MMIOLIM, KSTACKTOP, KERNBASE
<1>2. NKERN * N \in Nat
  OBVIOUS
<1>3. TOP = 7 * N + NKERN * N
  BY <1>1 DEF TOP, N
<1>4. (7 + NKERN) * N = 7 * N + NKERN * N
  OBVIOUS
<1>5. TOP \in Nat
  BY <1>2, <1>3
<1>6. PDX(TOP) = 7 + NKERN
  <2>1. (7 + NKERN) * N <= TOP /\ TOP < (7 + NKERN) * N + N
    BY <1>2, <1>3, <1>4
  <2>2. 7 + NKERN \in Nat
    OBVIOUS
  <2>3. QED  BY <1>5, <2>1, <2>2, PageAt
<1>7. PDX(UVPT) = 4 /\ PDX(KERNBASE) = 7
  <2>1. 4 * N \in Nat /\ 7 * N \in Nat /\ 4 * N < 4 * N + N /\ 7 * N < 7 * N + N
    OBVIOUS
  <2>2. PDX(4 * N) = 4 /\ PDX(7 * N) = 7
    BY <2>1, PageAt
  <2>3. QED  BY <1>1, <2>2
<1>8. QED  BY <1>1, <1>2, <1>3, <1>5, <1>6, <1>7

-----------------------------------------------------------------------------
\* The states of mem_init with n pages of memory.
Perms == {"P", "W", "U", "PCD", "PWT"}
PTE == [pa : Nat, perm : SUBSET Perms]
Dirs == 0..(6 + NKERN)
Frames(n) == 0..(n - 1)
BootStates(n) ==
  [npages : Nat, npages_basemem : Nat, nextfree : Nat, free : Seq(Nat), ref : [Frames(n) -> Nat],
   kern_pgdir : Nat, pages : Nat, envs : Nat, dir : [Dirs -> PTE],
   tab : [Frames(n) -> [0..(N - 1) -> PTE]], base : Nat, panicstr : {"none"}]

\* The directory entries that get a page table, and those that wait for one.
Kern == {2, 3} \cup 5..(6 + NKERN)
Missing(s) == {d \in Kern : s.dir[d] = NoPte}

\* The frames that page_init keeps off the free list.
Data(s) == {0, MPENTRY_PADDR} \cup IOPHYSMEM..(s.nextfree \div PGSIZE - 1)

FreeInv(n, s) ==
  /\ \A i \in 1..Len(s.free) : s.free[i] \in Frames(n) /\ s.ref[s.free[i]] = 0
  /\ \A i, j \in 1..Len(s.free) : i # j => s.free[i] # s.free[j]
  /\ \A p \in Frames(n) : s.ref[p] = 0 => \E i \in 1..Len(s.free) : s.free[i] = p

DataInv(n, s) ==
  s.kern_pgdir \in Data(s) /\ \A p \in Data(s) : p \in Frames(n) /\ s.ref[p] # 0

\* A page table of the kernel: in memory that is in use, in reach of the entry
\* map.
TableAt(n, s, d) ==
  /\ d \in Kern /\ s.dir[d].perm = {"P", "W", "U"}
  /\ s.dir[d].pa \in Frames(n) /\ s.dir[d].pa < N
  /\ s.dir[d].pa \notin Data(s) /\ s.ref[s.dir[d].pa] # 0

DirInv(n, s) ==
  /\ s.dir[4] = Pte(s.kern_pgdir, {"P", "U"})
  /\ \A d \in Dirs \ {4} : s.dir[d] = NoPte \/ TableAt(n, s, d)
  /\ \A d, e \in Kern : d # e /\ s.dir[d] # NoPte /\ s.dir[e] # NoPte => s.dir[d].pa # s.dir[e].pa

\* For every missing table there is a low page at the front of the free list.
Ready(s) == \A j \in 1..Cardinality(Missing(s)) : j <= Len(s.free) /\ s.free[j] < N

BootInv(n, s) ==
  /\ s \in BootStates(n) /\ s.panicstr = "none"
  /\ FreeInv(n, s) /\ DataInv(n, s) /\ DirInv(n, s) /\ Ready(s)

\* The addresses outside the window at UVPT, and what the tables say of one.
Vas == {va \in Nat : PDX(va) \in Dirs \ {4}}
Entry(s, va) == IF s.dir[PDX(va)] = NoPte THEN NoPte ELSE s.tab[s.dir[PDX(va)].pa][PTX(va)]

\* What a mapping leaves alone.
Rest(s, t) ==
  /\ t.npages = s.npages /\ t.npages_basemem = s.npages_basemem /\ t.nextfree = s.nextfree
  /\ t.kern_pgdir = s.kern_pgdir /\ t.pages = s.pages /\ t.envs = s.envs
Same(s, t) == Rest(s, t) /\ t.base = s.base

LEMMA KernIs == Kern \subseteq Dirs /\ 4 \notin Kern /\ 4 \in Dirs /\ IsFiniteSet(Kern)
<1>1. IsFiniteSet(5..(6 + NKERN))
  BY Sizes, FS_Interval
<1>2. IsFiniteSet({2, 3})
  <2>1. IsFiniteSet({2}) /\ IsFiniteSet({3})
    BY FS_Singleton, Zenon
  <2>2. {2} \cup {3} = {2, 3}
    OBVIOUS
  <2>3. QED  BY <2>1, <2>2, FS_Union
<1>3. IsFiniteSet(Kern)
  BY <1>1, <1>2, FS_Union, Zenon DEF Kern
<1>4. QED  BY <1>3, Sizes DEF Kern, Dirs

LEMMA PteIs == NoPte \in PTE /\ "P" \notin NoPte.perm /\ NoPte.pa = 0 /\ NoPte.perm = {}
BY DEF NoPte, Pte, PTE

\* What pgdir_walk does to the fields.
WalkFields(s, w, d, p) ==
  /\ w.free = Tail(s.free) /\ w.ref = [s.ref EXCEPT ![p] = @ + 1]
  /\ w.dir = [s.dir EXCEPT ![d] = Pte(p, {"P", "W", "U"})]
  /\ w.tab = [s.tab EXCEPT ![p] = [i \in 0..(N - 1) |-> NoPte]]
  /\ Same(s, w) /\ w.panicstr = s.panicstr

LEMMA WalkAlloc ==
  ASSUME NEW n \in Nat, NEW s \in BootStates(n), NEW va \in Nat, PDX(va) \in Dirs,
         "P" \notin s.dir[PDX(va)].perm, s.free # <<>>, Head(s.free) \in Frames(n)
  PROVE  /\ pgdir_walk(s, va) \in BootStates(n)
         /\ WalkFields(s, pgdir_walk(s, va), PDX(va), Head(s.free))
<1> PICK d \in Dirs : d = PDX(va)
  OBVIOUS
<1> PICK p \in Frames(n) : p = Head(s.free)
  OBVIOUS
<1>0. Tail(s.free) \in Seq(Nat)
  <2>1. PICK q \in Seq(Nat) : q = s.free
    BY DEF BootStates
  <2>2. Tail(q) \in Seq(Nat)
    BY <2>1
  <2>3. QED  BY <2>1, <2>2
<1>1. pgdir_walk(s, va) = [s EXCEPT !.free = Tail(@), !.ref[p] = @ + 1,
                 !.dir[d] = Pte(p, {"P", "W", "U"}),
                 !.tab[p] = [i \in 0..(N - 1) |-> NoPte]]
  BY Zenon DEF pgdir_walk, N
<1>2. PICK w : w = pgdir_walk(s, va)
  OBVIOUS
<1>3. WalkFields(s, w, d, p)
  BY <1>1, <1>2, SMTT(60) DEF WalkFields, Same, Rest, BootStates
<1>4. w \in BootStates(n)
  <2>1. Pte(p, {"P", "W", "U"}) \in PTE /\ [i \in 0..(N - 1) |-> NoPte] \in [0..(N - 1) -> PTE]
    <3>1. p \in Nat
      BY DEF Frames
    <3>2. {"P", "W", "U"} \in SUBSET Perms
      BY DEF Perms
    <3>3. [pa |-> p, perm |-> {"P", "W", "U"}] \in [pa : Nat, perm : SUBSET Perms]
      BY <3>1, <3>2, Zenon
    <3>4. QED  BY <3>3, PteIs DEF Pte, PTE
  <2>2. PICK e \in PTE : e = Pte(p, {"P", "W", "U"})
    BY <2>1
  <2>3. PICK t \in [0..(N - 1) -> PTE] : t = [i \in 0..(N - 1) |-> NoPte]
    BY <2>1
  <2>4. w = [s EXCEPT !.free = Tail(@), !.ref[p] = @ + 1, !.dir[d] = e, !.tab[p] = t]
    BY <1>1, <1>2, <2>2, <2>3
  <2>5. [s.dir EXCEPT ![d] = e] \in [Dirs -> PTE]
    BY DEF BootStates
  <2>6. [s.tab EXCEPT ![p] = t] \in [Frames(n) -> [0..(N - 1) -> PTE]]
    BY DEF BootStates
  <2>7. [s.ref EXCEPT ![p] = @ + 1] \in [Frames(n) -> Nat]
    <3>1. PICK r \in [Frames(n) -> Nat] : r = s.ref
      BY DEF BootStates
    <3>2. [r EXCEPT ![p] = @ + 1] \in [Frames(n) -> Nat]
      BY <3>1
    <3>3. QED  BY <3>1, <3>2
  <2>8. w = [s EXCEPT !.free = Tail(s.free), !.ref = [s.ref EXCEPT ![p] = @ + 1],
                      !.dir = [s.dir EXCEPT ![d] = e], !.tab = [s.tab EXCEPT ![p] = t]]
    BY <2>4
  <2>9. QED  BY <1>0, <2>5, <2>6, <2>7, <2>8 DEF BootStates
<1>5. QED  BY <1>2, <1>3, <1>4

\* One missing table less.
LEMMA MissingLess ==
  ASSUME NEW s, NEW w, NEW d \in Missing(s), Missing(w) = Missing(s) \ {d}
  PROVE  /\ Cardinality(Missing(s)) \in Nat /\ Cardinality(Missing(w)) \in Nat
         /\ Cardinality(Missing(w)) = Cardinality(Missing(s)) - 1
<1>1. IsFiniteSet(Missing(s))
  BY KernIs, FS_Subset, Missing(s) \subseteq Kern DEF Missing
<1>2. QED  BY <1>1, FS_RemoveElement, FS_CardinalityType

Walked(n, s, va, w) ==
  /\ BootInv(n, w) /\ Same(s, w) /\ w.dir[PDX(va)].perm = {"P", "W", "U"} /\ w.dir[PDX(va)] # NoPte
  /\ \A vb \in Vas : Entry(w, vb) = Entry(s, vb)

LEMMA WalkFinds ==
  ASSUME NEW n \in Nat, NEW s, NEW va \in Nat, BootInv(n, s), PDX(va) \in Kern, s.dir[PDX(va)] # NoPte
  PROVE  Walked(n, s, va, pgdir_walk(s, va))
<1>1. TableAt(n, s, PDX(va))
  BY KernIs DEF BootInv, DirInv
<1>2. pgdir_walk(s, va) = s
  BY <1>1 DEF TableAt, pgdir_walk
<1>3. QED  BY <1>1, <1>2 DEF TableAt, Walked, Same, Rest

LEMMA WalkTakes ==
  ASSUME NEW n \in Nat, NEW s, NEW va \in Nat, BootInv(n, s), PDX(va) \in Kern, s.dir[PDX(va)] = NoPte
  PROVE  Walked(n, s, va, pgdir_walk(s, va))
<1> PICK d \in Kern : d = PDX(va)
  OBVIOUS
<1>1. d \in Missing(s) /\ d \in Dirs /\ s \in BootStates(n)
  BY KernIs DEF Missing, BootInv
<1>2. Cardinality(Missing(s)) \in Nat /\ Cardinality(Missing(s)) >= 1
  <2>1. IsFiniteSet(Missing(s))
    BY KernIs, FS_Subset, Missing(s) \subseteq Kern DEF Missing
  <2>2. QED  BY <1>1, <2>1, FS_CardinalityType, FS_EmptySet
<1>3. PICK q \in Seq(Nat) : q = s.free
  BY <1>1 DEF BootStates
<1>4. 1 <= Len(q) /\ q[1] < N
  BY <1>2, <1>3 DEF BootInv, Ready
<1>5. PICK p \in Frames(n) : p = q[1] /\ p = Head(q) /\ s.ref[p] = 0 /\ p \in Nat /\ p < N
  BY <1>3, <1>4 DEF BootInv, FreeInv
<1>6. PICK w : w = pgdir_walk(s, va)
  OBVIOUS
<1>7. w \in BootStates(n) /\ WalkFields(s, w, d, p)
  <2>1. "P" \notin s.dir[PDX(va)].perm /\ s.free # <<>> /\ PDX(va) \in Dirs
    BY <1>1, <1>3, <1>4, PteIs
  <2>2. QED  BY <1>1, <1>3, <1>5, <1>6, <2>1, WalkAlloc
<1>8. Same(s, w) /\ w.panicstr = "none"
  BY <1>7 DEF WalkFields, BootInv
<1>9. Data(w) = Data(s)
  BY <1>8 DEF Same, Rest, Data
<1>10. p \notin Data(s)
  BY <1>5 DEF BootInv, DataInv
<1>11. /\ w.ref[p] # 0
       /\ \A x \in Frames(n) : x # p => w.ref[x] = s.ref[x]
  <2>1. PICK r \in [Frames(n) -> Nat] : r = s.ref
    BY <1>1 DEF BootStates
  <2>2. w.ref = [r EXCEPT ![p] = @ + 1]
    BY <1>7, <2>1 DEF WalkFields
  <2>3. r[p] + 1 # 0
    BY <2>1
  <2>4. QED  BY <1>5, <2>1, <2>2, <2>3
<1>12. /\ w.dir[d] = Pte(p, {"P", "W", "U"}) /\ w.dir[d] # NoPte
       /\ \A e \in Dirs : e # d => w.dir[e] = s.dir[e]
  <2>1. Pte(p, {"P", "W", "U"}) # NoPte
    BY DEF Pte, NoPte
  <2>2. QED  BY <1>1, <1>7, <2>1 DEF WalkFields, BootStates
<1>13. FreeInv(n, w)
  <2>1. PICK r \in Seq(Nat) : r = w.free /\ r = Tail(q)
    BY <1>3, <1>7 DEF WalkFields, BootStates
  <2>2. Len(r) = Len(q) - 1 /\ \A i \in 1..Len(r) : i + 1 \in 1..Len(q) /\ r[i] = q[i + 1]
    BY <1>4, <2>1
  <2>3. \A i \in 1..Len(q) : q[i] \in Frames(n) /\ s.ref[q[i]] = 0
    BY <1>3 DEF BootInv, FreeInv
  <2>a. \A i, j \in 1..Len(q) : i # j => q[i] # q[j]
    BY <1>3 DEF BootInv, FreeInv
  <2>b. \A x \in Frames(n) : s.ref[x] = 0 => \E i \in 1..Len(q) : q[i] = x
    BY <1>3 DEF BootInv, FreeInv
  <2>4. \A i \in 1..Len(r) : r[i] \in Frames(n) /\ w.ref[r[i]] = 0
    <3> TAKE i \in 1..Len(r)
    <3>1. i + 1 # 1 /\ 1 \in 1..Len(q)
      BY <1>4
    <3>0. PICK k \in 1..Len(q) : k = i + 1 /\ r[i] = q[k]
      BY <2>2
    <3>2. r[i] # p /\ r[i] \in Frames(n) /\ s.ref[r[i]] = 0
      <4>1. k # 1 /\ 1 \in 1..Len(q)
        BY <3>0, <3>1
      <4>2. q[k] # q[1]
        BY <2>a, <4>1, Zenon
      <4>3. q[k] \in Frames(n) /\ s.ref[q[k]] = 0
        BY <2>3, Zenon
      <4>4. QED  BY <1>5, <3>0, <4>2, <4>3, Zenon
    <3>3. QED  BY <1>11, <3>2
  <2>5. ASSUME NEW i \in 1..Len(r), NEW j \in 1..Len(r), i # j PROVE r[i] # r[j]
    <3>1. PICK k \in 1..Len(q) : k = i + 1 /\ r[i] = q[k]
      BY <2>2
    <3>2. PICK l \in 1..Len(q) : l = j + 1 /\ r[j] = q[l]
      BY <2>2
    <3>3. k # l
      BY <2>5, <3>1, <3>2
    <3>4. q[k] # q[l]
      BY <2>a, <3>3, Zenon
    <3>5. QED  BY <3>1, <3>2, <3>4, Zenon
  <2>6. ASSUME NEW x \in Frames(n), w.ref[x] = 0 PROVE \E i \in 1..Len(r) : r[i] = x
    <3>1. x # p /\ s.ref[x] = 0
      BY <1>11, <2>6
    <3>2. PICK i \in 1..Len(q) : q[i] = x
      BY <2>b, <3>1, Zenon
    <3>3. i # 1
      BY <1>5, <3>1, <3>2
    <3>a. PICK L \in Nat : L = Len(q) /\ L - 1 = Len(r)
      BY <2>2
    <3>4. i - 1 \in 1..Len(r) /\ (i - 1) + 1 = i
      BY <3>3, <3>a
    <3>5. QED  BY <2>2, <3>2, <3>4
  <2>7. QED  BY <2>1, <2>4, <2>5, <2>6 DEF FreeInv
<1>14. DataInv(n, w)
  BY <1>8, <1>9, <1>10, <1>11 DEF BootInv, DataInv, Same, Rest
<1>15. DirInv(n, w)
  <2>1. w.dir[4] = Pte(w.kern_pgdir, {"P", "U"})
    BY <1>8, <1>12, KernIs DEF BootInv, DirInv, Same, Rest
  <2>2. w.dir[d].pa = p /\ w.dir[d].perm = {"P", "W", "U"}
    BY <1>12 DEF Pte
  <2>3. \A e \in Dirs \ {4} : w.dir[e] = NoPte \/ TableAt(n, w, e)
    <3> TAKE e \in Dirs \ {4}
    <3>1. CASE e = d
      BY <1>5, <1>9, <1>10, <1>11, <2>2, <3>1 DEF TableAt
    <3>2. CASE e # d /\ s.dir[e] = NoPte
      BY <1>12, <3>2
    <3>3. CASE e # d /\ s.dir[e] # NoPte
      <4>1. TableAt(n, s, e) /\ w.dir[e] = s.dir[e]
        BY <1>12, <3>3 DEF BootInv, DirInv
      <4>2. s.dir[e].pa # p
        BY <1>5, <4>1 DEF TableAt
      <4>3. QED  BY <1>9, <1>11, <4>1, <4>2 DEF TableAt
    <3>4. QED  BY <3>1, <3>2, <3>3
  <2>4. ASSUME NEW a \in Kern, NEW b \in Kern, a # b, w.dir[a] # NoPte, w.dir[b] # NoPte
        PROVE  w.dir[a].pa # w.dir[b].pa
    <3>1. \A e \in Kern : e # d /\ s.dir[e] # NoPte => s.dir[e].pa # p
      BY <1>5, KernIs DEF BootInv, DirInv, TableAt
    <3>2. \A e \in Kern : e # d => w.dir[e] = s.dir[e]
      BY <1>12, KernIs
    <3>3. CASE a = d
      BY <2>2, <2>4, <3>1, <3>2, <3>3
    <3>4. CASE b = d
      BY <2>2, <2>4, <3>1, <3>2, <3>4
    <3>5. CASE a # d /\ b # d
      BY <2>4, <3>2, <3>5 DEF BootInv, DirInv
    <3>6. QED  BY <3>3, <3>4, <3>5
  <2>5. QED  BY <2>1, <2>3, <2>4 DEF DirInv
<1>16. Ready(w)
  <2>1. Missing(w) = Missing(s) \ {d}
    BY <1>12, KernIs DEF Missing
  <2>2. PICK c \in Nat : c = Cardinality(Missing(s)) /\ c - 1 = Cardinality(Missing(w))
    BY <1>1, <2>1, MissingLess
  <2>3. PICK r \in Seq(Nat) : r = w.free /\ r = Tail(q)
    BY <1>3, <1>7 DEF WalkFields, BootStates
  <2>4. Len(r) = Len(q) - 1 /\ \A i \in 1..Len(r) : r[i] = q[i + 1]
    BY <1>4, <2>3
  <2>5. \A j \in 1..c : j <= Len(q) /\ q[j] < N
    BY <1>3, <2>2 DEF BootInv, Ready
  <2>6. ASSUME NEW j \in 1..(c - 1) PROVE j <= Len(r) /\ r[j] < N
    <3>1. j + 1 \in 1..c /\ j \in Int
      OBVIOUS
    <3>2. j + 1 <= Len(q) /\ q[j + 1] < N
      BY <2>5, <3>1
    <3>3. j \in 1..Len(r)
      BY <2>4, <3>2
    <3>4. r[j] = q[j + 1]
      BY <2>4, <3>3, Zenon
    <3>5. j <= Len(r)
      BY <3>3
    <3>6. QED  BY <3>2, <3>4, <3>5, Zenon
  <2>7. QED  BY <2>2, <2>3, <2>6 DEF Ready
<1>17. \A vb \in Vas : Entry(w, vb) = Entry(s, vb)
  <2> TAKE vb \in Vas
  <2>1. PDX(vb) \in Dirs \ {4} /\ PTX(vb) \in 0..(N - 1)
    BY PageParts DEF Vas
  <2>2. /\ w.tab[p] = [i \in 0..(N - 1) |-> NoPte]
        /\ \A x \in Frames(n) : x # p => w.tab[x] = s.tab[x]
    BY <1>1, <1>5, <1>7 DEF WalkFields, BootStates
  <2>3. CASE PDX(vb) = d
    <3>1. Entry(s, vb) = NoPte
      BY <2>3 DEF Entry
    <3>2. Entry(w, vb) = w.tab[p][PTX(vb)]
      BY <1>12, <2>3 DEF Entry, Pte
    <3>3. QED  BY <2>1, <2>2, <3>1, <3>2
  <2>4. CASE PDX(vb) # d /\ s.dir[PDX(vb)] = NoPte
    BY <1>12, <2>1, <2>4 DEF Entry
  <2>5. CASE PDX(vb) # d /\ s.dir[PDX(vb)] # NoPte
    <3>1. TableAt(n, s, PDX(vb)) /\ w.dir[PDX(vb)] = s.dir[PDX(vb)]
      BY <1>12, <2>1, <2>5 DEF BootInv, DirInv
    <3>2. s.dir[PDX(vb)].pa # p /\ s.dir[PDX(vb)].pa \in Frames(n)
      BY <1>5, <3>1 DEF TableAt
    <3>3. QED  BY <2>2, <2>5, <3>1, <3>2 DEF Entry
  <2>6. QED  BY <2>3, <2>4, <2>5
<1>18. BootInv(n, w)
  BY <1>7, <1>8, <1>13, <1>14, <1>15, <1>16 DEF BootInv
<1>19. w.dir[PDX(va)].perm = {"P", "W", "U"} /\ w.dir[PDX(va)] # NoPte
  BY <1>12 DEF Pte
<1>20. QED  BY <1>6, <1>8, <1>17, <1>18, <1>19 DEF Walked

PteSet(n, s, va, pte, t) ==
  /\ BootInv(n, t) /\ Same(s, t) /\ Entry(t, va) = pte
  /\ \A vb \in Vas : vb # va => Entry(t, vb) = Entry(s, vb)

LEMMA SetPte ==
  ASSUME NEW n \in Nat, NEW s, NEW va \in Nat, NEW pte \in PTE,
         BootInv(n, s), PDX(va) \in Kern, s.dir[PDX(va)] # NoPte
  PROVE  PteSet(n, s, va, pte, set_pte(s, va, pte))
<1> PICK d \in Kern : d = PDX(va)
  OBVIOUS
<1> PICK j \in 0..(N - 1) : j = PTX(va)
  BY PageParts
<1>1. s \in BootStates(n) /\ TableAt(n, s, d) /\ d \in Dirs
  BY KernIs DEF BootInv, DirInv
<1>2. PICK p \in Frames(n) : p = s.dir[d].pa
  BY <1>1 DEF TableAt
<1>3. PICK t : t = set_pte(s, va, pte)
  OBVIOUS
<1>4. t = [s EXCEPT !.tab[p][j] = pte]
  BY <1>2, <1>3 DEF set_pte
<1>5. t = [s EXCEPT !.tab = [s.tab EXCEPT ![p] = [s.tab[p] EXCEPT ![j] = pte]]]
  BY <1>4
<1>6. s.tab \in [Frames(n) -> [0..(N - 1) -> PTE]]
  BY <1>1 DEF BootStates
<1>7. [s.tab EXCEPT ![p] = [s.tab[p] EXCEPT ![j] = pte]] \in [Frames(n) -> [0..(N - 1) -> PTE]]
  BY <1>6
<1>8. t \in BootStates(n) /\ t.tab = [s.tab EXCEPT ![p] = [s.tab[p] EXCEPT ![j] = pte]]
  BY <1>1, <1>5, <1>7 DEF BootStates
<1>9. /\ t.free = s.free /\ t.ref = s.ref /\ t.dir = s.dir
      /\ Same(s, t) /\ t.panicstr = "none"
  BY <1>1, <1>5 DEF BootStates, Same, Rest, BootInv
<1>10. Data(t) = Data(s) /\ Missing(t) = Missing(s) /\ t.kern_pgdir = s.kern_pgdir
  BY <1>9 DEF Data, Missing, Same, Rest
<1>11. FreeInv(n, t) /\ Ready(t)
  BY <1>9, <1>10 DEF BootInv, FreeInv, Ready
<1>12. DataInv(n, t) /\ DirInv(n, t)
  BY <1>9, <1>10 DEF BootInv, DataInv, DirInv, TableAt
<1>13. BootInv(n, t)
  BY <1>8, <1>9, <1>11, <1>12 DEF BootInv
<1>14. Entry(t, va) = pte
  <2>1. t.tab[p][j] = pte
    <3>1. PICK T \in [Frames(n) -> [0..(N - 1) -> PTE]] : T = s.tab
      BY <1>6
    <3>2. PICK R \in [0..(N - 1) -> PTE] : R = T[p]
      OBVIOUS
    <3>3. t.tab = [T EXCEPT ![p] = [R EXCEPT ![j] = pte]]
      BY <1>8, <3>1, <3>2, Zenon
    <3>4. t.tab[p] = [R EXCEPT ![j] = pte]
      BY <3>3
    <3>5. [R EXCEPT ![j] = pte][j] = pte
      OBVIOUS
    <3>6. QED  BY <3>4, <3>5, Zenon
  <2>2. t.dir[PDX(va)] # NoPte /\ t.dir[PDX(va)].pa = p
    BY <1>2, <1>9
  <2>3. QED  BY <2>1, <2>2 DEF Entry
<1>15. ASSUME NEW vb \in Vas, vb # va PROVE Entry(t, vb) = Entry(s, vb)
  <2>1. PDX(vb) \in Dirs \ {4} /\ PTX(vb) \in 0..(N - 1) /\ (PDX(vb) # d \/ PTX(vb) # j)
    BY <1>15, PageParts, PageApart DEF Vas
  <2>2. CASE s.dir[PDX(vb)] = NoPte
    BY <1>9, <2>2 DEF Entry
  <2>3. CASE s.dir[PDX(vb)] # NoPte
    <3>1. PICK e \in Kern : e = PDX(vb) /\ s.dir[e].pa \in Frames(n)
      BY <2>1, <2>3 DEF BootInv, DirInv, TableAt
    <3>2. e # d => s.dir[e].pa # p
      BY <1>2, <2>3, <3>1 DEF BootInv, DirInv
    <3>3. t.tab[s.dir[e].pa][PTX(vb)] = s.tab[s.dir[e].pa][PTX(vb)]
      BY <1>2, <1>6, <1>8, <2>1, <3>1, <3>2
    <3>4. QED  BY <1>9, <2>3, <3>1, <3>3 DEF Entry
  <2>4. QED  BY <2>2, <2>3
<1>16. QED  BY <1>3, <1>9, <1>13, <1>14, <1>15 DEF PteSet

\* A turn of boot_map_region that finds or makes its page table.
LEMMA MapTurn ==
  ASSUME NEW n \in Nat, NEW s, NEW i \in Nat, NEW va \in Nat, NEW pa \in Nat, NEW perm \in SUBSET Perms,
         BootInv(n, s), PDX(va) \in Kern
  PROVE  \E t : /\ map_turn([s |-> s, i |-> i], i, va, pa, perm) = [s |-> t, i |-> i + 1]
                /\ PteSet(n, s, va, Pte(pa, perm \cup {"P"}), t)
<1>1. PICK w : w = pgdir_walk(s, va) /\ Walked(n, s, va, w)
  BY WalkFinds, WalkTakes
<1>2. PICK pte \in PTE : pte = Pte(pa, perm \cup {"P"})
  <2>1. perm \cup {"P"} \in SUBSET Perms
    BY DEF Perms
  <2>2. [pa |-> pa, perm |-> perm \cup {"P"}] \in [pa : Nat, perm : SUBSET Perms]
    BY <2>1, Zenon
  <2>3. QED  BY <2>2 DEF PTE, Pte
<1>3. PICK t : t = set_pte(w, va, pte)
  OBVIOUS
<1>4. PteSet(n, w, va, pte, t)
  BY <1>1, <1>3, SetPte DEF Walked
<1>5. PteSet(n, s, va, pte, t)
  BY <1>1, <1>4 DEF Walked, PteSet, Same, Rest
<1>6. map_turn([s |-> s, i |-> i], i, va, pa, perm) = put_page([s |-> s, i |-> i], w, va, pa, perm)
  BY <1>1 DEF map_turn
<1>7. "P" \in w.dir[PDX(va)].perm
  BY <1>1 DEF Walked
<1>8. put_page([s |-> s, i |-> i], w, va, pa, perm) = [s |-> t, i |-> i + 1]
  BY <1>2, <1>3, <1>7 DEF put_page
<1>9. QED  BY <1>2, <1>5, <1>6, <1>8

\* The loop of boot_map_region as a function of its turns.
MapTurns(x, s, va, size, pa, perm) ==
  x = [k \in 0..size |-> IF k = 0 THEN [s |-> s, i |-> 0]
                         ELSE map_turn(x[k - 1], k - 1, va + k - 1, pa + k - 1, perm)]

LEMMA MapTurnsExist ==
  ASSUME NEW s, NEW va, NEW size \in Nat, NEW pa, NEW perm
  PROVE  \E x : MapTurns(x, s, va, size, pa, perm)
<1> DEFINE T == {k \in Nat : ~\E x : MapTurns(x, s, va, k, pa, perm)}
<1> SUFFICES ASSUME T # {} PROVE FALSE
  OBVIOUS
<1>1. PICK k \in T : \A m \in T : k <= m
  <2>1. T \subseteq Nat
    OBVIOUS
  <2> HIDE DEF T
  <2>2. QED  BY <2>1, Least
<1>2. k \in Nat /\ ~\E x : MapTurns(x, s, va, k, pa, perm)
  OBVIOUS
<1>3. CASE k = 0
  <2>1. MapTurns([i \in 0..0 |-> [s |-> s, i |-> 0]], s, va, 0, pa, perm)
    BY DEF MapTurns
  <2>2. QED  BY <1>2, <1>3, <2>1
<1>4. CASE k # 0
  <2>1. k - 1 \in Nat /\ k - 1 \notin T
    BY <1>1, <1>2, <1>4
  <2>2. PICK x : MapTurns(x, s, va, k - 1, pa, perm)
    BY <2>1
  <2>3. PICK last : last = map_turn(x[k - 1], k - 1, va + k - 1, pa + k - 1, perm)
    OBVIOUS
  <2>4. PICK y : y = [i \in 0..k |-> IF i = k THEN last ELSE x[i]]
    OBVIOUS
  <2>5. \A i \in 0..k : y[i] = IF i = 0 THEN [s |-> s, i |-> 0]
                               ELSE map_turn(y[i - 1], i - 1, va + i - 1, pa + i - 1, perm)
    <3> TAKE i \in 0..k
    <3>1. CASE i = 0
      <4>1. 0 \in 0..(k - 1) /\ x[0] = [s |-> s, i |-> 0]
        BY <2>1, <2>2 DEF MapTurns
      <4>2. QED  BY <1>4, <2>4, <3>1, <4>1
    <3>2. CASE i # 0 /\ i # k
      <4>1. i \in 0..(k - 1) /\ i - 1 \in 0..k /\ i - 1 # k
        BY <3>2
      <4>2. y[i] = x[i] /\ y[i - 1] = x[i - 1]
        BY <2>4, <3>2, <4>1
      <4>3. x[i] = map_turn(x[i - 1], i - 1, va + i - 1, pa + i - 1, perm)
        BY <2>2, <3>2, <4>1 DEF MapTurns
      <4>4. QED  BY <3>2, <4>2, <4>3
    <3>3. CASE i # 0 /\ i = k
      <4>1. y[k] = last /\ y[k - 1] = x[k - 1]
        BY <1>4, <2>1, <2>4
      <4>2. QED  BY <2>3, <3>3, <4>1
    <3>4. QED  BY <3>1, <3>2, <3>3
  <2>6. MapTurns(y, s, va, k, pa, perm)
    BY <2>4, <2>5 DEF MapTurns
  <2>7. QED  BY <1>2, <2>6
<1>5. QED  BY <1>3, <1>4

\* A region is mapped, and nothing else changes.
Mapped(n, s, va, size, pa, perm, t) ==
  /\ BootInv(n, t) /\ Same(s, t)
  /\ \A i \in 0..(size - 1) : Entry(t, va + i) = Pte(pa + i, perm \cup {"P"})
  /\ \A vb \in Vas : vb < va \/ va + size <= vb => Entry(t, vb) = Entry(s, vb)

\* One page more.
LEMMA MapNext ==
  ASSUME NEW n \in Nat, NEW s, NEW va \in Nat, NEW k \in Nat, NEW pa \in Nat, NEW perm, NEW t, NEW u,
         PDX(va + k) \in Kern, \A i \in 0..(k - 1) : PDX(va + i) \in Kern,
         Mapped(n, s, va, k, pa, perm, t), PteSet(n, t, va + k, Pte(pa + k, perm \cup {"P"}), u)
  PROVE  Mapped(n, s, va, k + 1, pa, perm, u)
<1>1. BootInv(n, u) /\ Same(s, u)
  BY DEF Mapped, PteSet, Same, Rest
<1>2. ASSUME NEW i \in 0..((k + 1) - 1) PROVE Entry(u, va + i) = Pte(pa + i, perm \cup {"P"})
  <2>1. CASE i = k
    BY <2>1 DEF PteSet
  <2>2. CASE i # k
    <3>1. i \in 0..(k - 1) /\ va + i \in Nat /\ va + i # va + k
      BY <2>2
    <3>2. va + i \in Vas
      BY <3>1, KernIs DEF Vas
    <3>3. Entry(u, va + i) = Entry(t, va + i)
      BY <3>1, <3>2 DEF PteSet
    <3>4. QED  BY <3>1, <3>3 DEF Mapped
  <2>3. QED  BY <2>1, <2>2
<1>3. ASSUME NEW vb \in Vas, vb < va \/ va + (k + 1) <= vb PROVE Entry(u, vb) = Entry(s, vb)
  <2>1. vb \in Nat
    BY DEF Vas
  <2>2. vb # va + k /\ (vb < va \/ va + k <= vb)
    BY <1>3, <2>1
  <2>3. QED  BY <2>2 DEF PteSet, Mapped
<1>4. QED  BY <1>1, <1>2, <1>3 DEF Mapped

\* boot_map_region maps its region wherever the kernel's tables are.
LEMMA RegionMapped ==
  ASSUME NEW n \in Nat, NEW s, NEW va \in Nat, NEW size \in Nat, NEW pa \in Nat, NEW perm \in SUBSET Perms,
         BootInv(n, s), \A i \in 0..(size - 1) : PDX(va + i) \in Kern
  PROVE  Mapped(n, s, va, size, pa, perm, boot_map_region(s, va, size, pa, perm))
<1> DEFINE x == CHOOSE f : f = [k \in 0..size |-> IF k = 0 THEN [s |-> s, i |-> 0]
                                 ELSE map_turn(f[k - 1], k - 1, va + k - 1, pa + k - 1, perm)]
<1>1. boot_map_region(s, va, size, pa, perm) = x[size].s
  <2>1. s.panicstr = "none"
    BY DEF BootInv
  <2>2. QED  BY <2>1, Zenon DEF boot_map_region
<1>2. MapTurns(x, s, va, size, pa, perm)
  <2>1. \E f : MapTurns(f, s, va, size, pa, perm)
    BY MapTurnsExist
  <2>2. QED  BY <2>1, Zenon DEF MapTurns
<1> HIDE DEF x
<1> DEFINE Good(k) == \E t : x[k] = [s |-> t, i |-> k] /\ Mapped(n, s, va, k, pa, perm, t)
           T == {k \in 0..size : ~Good(k)}
<1> HIDE DEF Good
<1>3. T = {}
  <2> SUFFICES ASSUME T # {} PROVE FALSE
    OBVIOUS
  <2>1. PICK k \in T : \A m \in T : k <= m
    <3>1. T \subseteq Nat
      OBVIOUS
    <3> HIDE DEF T
    <3>2. QED  BY <3>1, Least
  <2>2. k \in 0..size /\ k \in Nat /\ ~Good(k)
    OBVIOUS
  <2>3. CASE k = 0
    <3>1. x[0] = [s |-> s, i |-> 0]
      BY <1>2 DEF MapTurns
    <3>2. Mapped(n, s, va, 0, pa, perm, s)
      BY DEF Mapped, Same, Rest
    <3>3. QED  BY <2>2, <2>3, <3>1, <3>2 DEF Good
  <2>4. CASE k # 0
    <3>1. k - 1 \in 0..size /\ k - 1 \notin T
      BY <2>1, <2>2, <2>4
    <3> PICK j \in Nat : j = k - 1 /\ Good(j) /\ j < size
      BY <2>2, <3>1
    <3> HIDE DEF T
    <3>2. PICK t : x[j] = [s |-> t, i |-> j] /\ Mapped(n, s, va, j, pa, perm, t)
      BY DEF Good
    <3>3. x[k] = map_turn([s |-> t, i |-> j], j, va + j, pa + j, perm)
      <4>1. x[k] = map_turn(x[k - 1], k - 1, va + k - 1, pa + k - 1, perm)
        BY <1>2, <2>2, <2>4 DEF MapTurns
      <4>2. va + k - 1 = va + j /\ pa + k - 1 = pa + j
        OBVIOUS
      <4>3. QED  BY <3>2, <4>1, <4>2
    <3>4. PDX(va + j) \in Kern /\ va + j \in Nat /\ pa + j \in Nat /\ \A i \in 0..(j - 1) : PDX(va + i) \in Kern
      OBVIOUS
    <3>5. BootInv(n, t)
      BY <3>2 DEF Mapped
    <3>6. PICK u : x[k] = [s |-> u, i |-> j + 1] /\ PteSet(n, t, va + j, Pte(pa + j, perm \cup {"P"}), u)
      <4>1. PICK v \in Nat : v = va + j
        BY <3>4
      <4>2. PICK q \in Nat : q = pa + j
        BY <3>4
      <4>3. \E u : /\ map_turn([s |-> t, i |-> j], j, v, q, perm) = [s |-> u, i |-> j + 1]
                   /\ PteSet(n, t, v, Pte(q, perm \cup {"P"}), u)
        BY <3>4, <3>5, <4>1, MapTurn
      <4>4. QED  BY <3>3, <4>1, <4>2, <4>3
    <3>7. Mapped(n, s, va, j + 1, pa, perm, u)
      BY <3>2, <3>4, <3>6, MapNext
    <3>8. j + 1 = k
      BY <2>2
    <3>9. QED  BY <2>2, <3>6, <3>7, <3>8 DEF Good
  <2>5. QED  BY <2>3, <2>4
<1>4. Good(size)
  BY <1>3
<1>5. PICK t : x[size] = [s |-> t, i |-> size] /\ Mapped(n, s, va, size, pa, perm, t)
  BY <1>4 DEF Good
<1>6. QED  BY <1>1, <1>5

-----------------------------------------------------------------------------
\* q lists the members of S, each once.
Enum(q, S) ==
  /\ q \in Seq(Nat) /\ S \subseteq Nat
  /\ \A i \in 1..Len(q) : q[i] \in S
  /\ \A i, j \in 1..Len(q) : i # j => q[i] # q[j]
  /\ \A p \in S : \E i \in 1..Len(q) : q[i] = p

LEMMA EnumEmpty == Enum(<<>>, {})
BY DEF Enum

LEMMA EnumOne ==
  ASSUME NEW p \in Nat
  PROVE  Enum(<<p>>, {p})
<1>1. <<p>> \in Seq(Nat) /\ Len(<<p>>) = 1 /\ <<p>>[1] = p
  OBVIOUS
<1>2. \A i \in 1..Len(<<p>>) : i = 1
  BY <1>1
<1>3. QED  BY <1>1, <1>2 DEF Enum

LEMMA EnumConcat ==
  ASSUME NEW q, NEW r, NEW S, NEW R, Enum(q, S), Enum(r, R), S \cap R = {}
  PROVE  Enum(q \o r, S \cup R)
<1>1. q \in Seq(Nat) /\ r \in Seq(Nat)
  BY DEF Enum
<1>2. PICK a \in Nat : a = Len(q)
  BY <1>1
<1>3. PICK b \in Nat : b = Len(r)
  BY <1>1
<1>4. PICK u \in Seq(Nat) : u = q \o r
  <2>1. q \o r \in Seq(Nat)
    BY <1>1
  <2>2. QED  BY <2>1, Zenon
<1>5. Len(u) = a + b
  BY <1>1, <1>2, <1>3, <1>4
<1>6. \A i \in 1..a : u[i] = q[i]
  BY <1>1, <1>2, <1>3, <1>4
<1>7. \A i \in 1..b : u[a + i] = r[i]
  BY <1>1, <1>2, <1>3, <1>4
<1>8. \A i \in 1..(a + b) : i \in 1..a \/ (i - a \in 1..b /\ u[i] = r[i - a])
  <2> TAKE i \in 1..(a + b)
  <2>1. CASE i <= a
    BY <2>1
  <2>2. CASE ~(i <= a)
    <3>1. i - a \in 1..b /\ a + (i - a) = i
      BY <2>2
    <3>2. QED  BY <1>7, <3>1
  <2>3. QED  BY <2>1, <2>2
<1>9. \A i \in 1..a : q[i] \in S
  BY <1>2 DEF Enum
<1>10. \A i \in 1..b : r[i] \in R
  BY <1>3 DEF Enum
<1>11. \A i \in 1..(a + b) : u[i] \in S \cup R
  BY <1>6, <1>8, <1>9, <1>10
<1>12. ASSUME NEW i \in 1..(a + b), NEW j \in 1..(a + b), i # j PROVE u[i] # u[j]
  <2>1. CASE i \in 1..a /\ j \in 1..a
    BY <1>2, <1>6, <1>12, <2>1 DEF Enum
  <2>2. CASE i \in 1..a /\ j \notin 1..a
    BY <1>6, <1>8, <1>9, <1>10, <2>2
  <2>3. CASE i \notin 1..a /\ j \in 1..a
    BY <1>6, <1>8, <1>9, <1>10, <2>3
  <2>4. CASE i \notin 1..a /\ j \notin 1..a
    <3>1. PICK k \in 1..b : k = i - a /\ u[i] = r[k]
      BY <1>8, <2>4
    <3>2. PICK l \in 1..b : l = j - a /\ u[j] = r[l]
      BY <1>8, <2>4
    <3>3. k # l
      BY <1>12, <3>1, <3>2
    <3>4. \A x, y \in 1..b : x # y => r[x] # r[y]
      BY <1>3 DEF Enum
    <3>5. QED  BY <3>1, <3>2, <3>3, <3>4
  <2>5. QED  BY <2>1, <2>2, <2>3, <2>4
<1>13. ASSUME NEW p \in S \cup R PROVE \E i \in 1..(a + b) : u[i] = p
  <2>1. CASE p \in S
    <3>1. PICK i \in 1..a : q[i] = p
      BY <1>2, <2>1 DEF Enum
    <3>2. i \in 1..(a + b)
      OBVIOUS
    <3>3. QED  BY <1>6, <3>1, <3>2
  <2>2. CASE p \in R
    <3>1. PICK i \in 1..b : r[i] = p
      BY <1>3, <2>2 DEF Enum
    <3>2. a + i \in 1..(a + b)
      OBVIOUS
    <3>3. QED  BY <1>7, <3>1, <3>2
  <2>3. QED  BY <2>1, <2>2
<1>14. S \cup R \subseteq Nat
  BY DEF Enum
<1>15. QED  BY <1>4, <1>5, <1>11, <1>12, <1>13, <1>14 DEF Enum

LEMMA EnumAppend ==
  ASSUME NEW q, NEW S, NEW p \in Nat, Enum(q, S), p \notin S
  PROVE  Enum(Append(q, p), S \cup {p})
<1>1. Enum(q \o <<p>>, S \cup {p})
  BY EnumOne, EnumConcat, S \cap {p} = {}
<1>2. q \in Seq(Nat)
  BY DEF Enum
<1>3. Append(q, p) = q \o <<p>>
  BY <1>2
<1>4. QED  BY <1>1, <1>3

LEMMA EnumCons ==
  ASSUME NEW q, NEW S, NEW p \in Nat, Enum(q, S), p \notin S
  PROVE  Enum(<<p>> \o q, S \cup {p})
<1>1. Enum(<<p>> \o q, {p} \cup S)
  BY EnumOne, EnumConcat, {p} \cap S = {}
<1>2. {p} \cup S = S \cup {p}
  OBVIOUS
<1>3. QED  BY <1>1, <1>2

\* A list without repetitions is as long as its set is large.
LEMMA EnumCard ==
  ASSUME NEW q, NEW S, Enum(q, S)
  PROVE  IsFiniteSet(S) /\ Cardinality(S) = Len(q)
<1>1. q \in Seq(Nat)
  BY DEF Enum
<1>2. PICK n \in Nat : n = Len(q)
  BY <1>1
<1>3. PICK f : f = [i \in 1..n |-> q[i]]
  OBVIOUS
<1>4. f \in Bijection(1..n, S)
  <2>1. f \in [1..n -> S]
    BY <1>2, <1>3 DEF Enum
  <2>2. f \in Injection(1..n, S)
    BY <1>2, <1>3, <2>1 DEF Enum, Injection, IsInjective
  <2>3. f \in Surjection(1..n, S)
    BY <1>2, <1>3, <2>1 DEF Enum, Surjection
  <2>4. QED  BY <2>2, <2>3 DEF Bijection
<1>5. IsFiniteSet(1..n) /\ Cardinality(1..n) = n
  BY FS_Interval
<1>6. ExistsBijection(1..n, S)
  BY <1>4 DEF ExistsBijection
<1>7. QED  BY <1>2, <1>5, <1>6, FS_Bijection

-----------------------------------------------------------------------------
\* The number of pages that a bytes fill.
Pages(a) == (a + PGSIZE - 1) \div PGSIZE

LEMMA DivIs ==
  ASSUME NEW C \in Nat \ {0}, NEW a \in Nat, NEW q \in Nat, q * C <= a, a < q * C + C
  PROVE  a \div C = q
<1>1. a \div C < q + 1 <=> a < (q + 1) * C
  BY DivLess
<1>2. a \div C < q <=> a < q * C
  BY DivLess
<1>3. a \div C \in Nat /\ (q + 1) * C = q * C + C /\ q * C \in Int
  BY DivDef
<1>4. QED  BY <1>1, <1>2, <1>3

\* Rounding up: whole pages, and whole pages before are kept.
LEMMA RoundUp ==
  ASSUME NEW k \in Nat, NEW a \in Nat
  PROVE  /\ Pages(a) \in Nat /\ ROUNDUP(k * PGSIZE + a, PGSIZE) = (k + Pages(a)) * PGSIZE
         /\ ROUNDUP(k * PGSIZE + a, PGSIZE) \div PGSIZE = k + Pages(a)
<1> PICK P \in Nat \ {0} : P = PGSIZE
  BY Sizes
<1>1. PICK c \in Nat : c = a + P - 1
  OBVIOUS
<1>2. PICK q \in Nat : q = c \div P /\ q * P <= c /\ c < q * P + P
  BY <1>1, DivDef
<1>3. q = Pages(a)
  BY <1>1, <1>2 DEF Pages
<1>4. k * P \in Nat /\ q * P \in Nat /\ (k + q) * P = k * P + q * P
  OBVIOUS
<1>5. PICK b \in Nat : b = k * P + c /\ b = (k * P + a) + P - 1
  BY <1>1, <1>4
<1>6. b \div P = k + q
  <2>1. (k + q) * P <= b /\ b < (k + q) * P + P /\ k + q \in Nat
    BY <1>2, <1>4, <1>5
  <2>2. QED  BY <2>1, DivIs
<1>7. ROUNDUP(k * P + a, P) = (k + q) * P
  BY <1>5, <1>6 DEF ROUNDUP
<1>8. ((k + q) * P) \div P = k + q
  <2>1. PICK x \in Nat : x = k + q
    OBVIOUS
  <2>2. x * P \in Nat /\ x * P <= x * P /\ x * P < x * P + P
    OBVIOUS
  <2>3. (x * P) \div P = x
    BY <2>2, DivIs
  <2>4. QED  BY <2>1, <2>3
<1>9. QED  BY <1>3, <1>7, <1>8

LEMMA RoundUpAll ==
  ASSUME NEW a \in Nat
  PROVE  /\ Pages(a) \in Nat /\ ROUNDUP(a, PGSIZE) = Pages(a) * PGSIZE
         /\ ROUNDUP(a, PGSIZE) \div PGSIZE = Pages(a)
<1>1. PGSIZE \in Nat
  BY Sizes
<1>2. 0 * PGSIZE + a = a
  BY <1>1
<1>3. /\ Pages(a) \in Nat /\ ROUNDUP(0 * PGSIZE + a, PGSIZE) = (0 + Pages(a)) * PGSIZE
      /\ ROUNDUP(0 * PGSIZE + a, PGSIZE) \div PGSIZE = 0 + Pages(a)
  BY RoundUp
<1>4. 0 + Pages(a) = Pages(a)
  BY <1>3
<1>5. QED  BY <1>2, <1>3, <1>4

LEMMA PageCounts == Pages(PGSIZE) = 1 /\ Pages(ENVBYTES) = 1 /\ ENVBYTES \in Nat
<1> PICK P \in Nat \ {0} : P = PGSIZE /\ P > 1
  BY Sizes
<1>1. 1 * P = P /\ 1 * P <= P + P - 1 /\ P + P - 1 < 1 * P + P /\ P + P - 1 \in Nat
  OBVIOUS
<1>2. (P + P - 1) \div P = 1
  BY <1>1, DivIs
<1>3. 1 * P <= P - 1 + P - 1 /\ P - 1 + P - 1 < 1 * P + P /\ P - 1 + P - 1 \in Nat
  OBVIOUS
<1>4. (P - 1 + P - 1) \div P = 1
  BY <1>3, DivIs
<1>5. QED  BY <1>2, <1>4 DEF Pages, ENVBYTES

\* A machine as Bootable has it: n pages of memory, b of them base memory, the
\* kernel's image ending before page k.
Machine(n, b, k) ==
  /\ n \in Nat /\ b \in Nat /\ k \in Nat
  /\ 3 < b /\ b <= 5 /\ 8 <= k /\ n <= TOP - KERNBASE
  /\ k + 2 + Pages(n) + NKERN < n /\ k + 2 + Pages(n) + NKERN < N

\* What boot_alloc leaves: the directory at k, then the array of pages and that
\* of environments.
Booted(n, b, k, s) ==
  /\ s.npages = n /\ s.npages_basemem = b
  /\ s.nextfree \in Nat /\ s.nextfree \div PGSIZE = k + 2 + Pages(n)
  /\ s.kern_pgdir = k /\ s.pages = k + 1 /\ s.envs = k + 1 + Pages(n)

BootStart(n, b, k, s) ==
  s = [npages |-> n, npages_basemem |-> b, nextfree |-> (k + 2 + Pages(n)) * PGSIZE,
       free |-> <<>>, ref |-> <<>>, kern_pgdir |-> k, pages |-> k + 1, envs |-> k + 1 + Pages(n),
       dir |-> [i \in Dirs |-> IF i = 4 THEN Pte(k, {"P", "U"}) ELSE NoPte],
       tab |-> [p \in Frames(n) |-> [i \in 0..(N - 1) |-> Junk]],
       base |-> MMIOBASE, panicstr |-> "none"]

LEMMA DataTaken ==
  ASSUME NEW mem, NEW n \in Nat, NEW b \in Nat, NEW end \in Nat, mem = [npages |-> n, npages_basemem |-> b]
  PROVE  BootStart(n, b, Pages(end), boot_data(Start(mem, end)))
<1> PICK k \in Nat : k = Pages(end) /\ ROUNDUP(end, PGSIZE) = k * PGSIZE
  BY RoundUpAll
<1> PICK m \in Nat : m = Pages(n)
  BY RoundUpAll
<1>1. PICK s : s = Start(mem, end)
  OBVIOUS
<1>2. 0..(PDX(TOP) - 1) = Dirs
  <2>1. PDX(TOP) = 7 + NKERN /\ NKERN \in Nat
    BY Places, Sizes
  <2>2. PDX(TOP) - 1 = 6 + NKERN
    BY <2>1
  <2>3. QED  BY <2>2 DEF Dirs
<1>3. s = [npages |-> n, npages_basemem |-> b, nextfree |-> k * PGSIZE,
           free |-> <<>>, ref |-> <<>>, kern_pgdir |-> 0, pages |-> 0, envs |-> 0,
           dir |-> [i \in Dirs |-> NoPte],
           tab |-> [p \in Frames(n) |-> [i \in 0..(N - 1) |-> Junk]],
           base |-> MMIOBASE, panicstr |-> "none"]
  BY <1>1, <1>2 DEF Start, Frames, N
<1>4. PICK d : d = boot_alloc(s, PGSIZE)
  OBVIOUS
<1>5. /\ ROUNDUP(k * PGSIZE + PGSIZE, PGSIZE) = (k + 1) * PGSIZE
      /\ (k * PGSIZE) \div PGSIZE = k /\ ((k + 1) * PGSIZE) \div PGSIZE = k + 1
      /\ ROUNDUP((k + 1) * PGSIZE + n, PGSIZE) = (k + 1 + m) * PGSIZE
      /\ ((k + 1 + m) * PGSIZE) \div PGSIZE = k + 1 + m
      /\ ROUNDUP((k + 1 + m) * PGSIZE + ENVBYTES, PGSIZE) = (k + 2 + m) * PGSIZE
  <2>1. PGSIZE \in Nat \ {0}
    BY Sizes
  <2>2. ROUNDUP(k * PGSIZE + PGSIZE, PGSIZE) = (k + 1) * PGSIZE /\ ((k + 1) * PGSIZE) \div PGSIZE = k + 1
    BY <2>1, PageCounts, RoundUp
  <2>3. k + 1 \in Nat /\ k + 1 + m \in Nat /\ k + 1 + m + 1 = k + 2 + m
    OBVIOUS
  <2>4. ROUNDUP((k + 1) * PGSIZE + n, PGSIZE) = (k + 1 + m) * PGSIZE
        /\ ((k + 1 + m) * PGSIZE) \div PGSIZE = k + 1 + m
    BY <2>3, RoundUp
  <2>5. ROUNDUP((k + 1 + m) * PGSIZE + ENVBYTES, PGSIZE) = (k + 1 + m + 1) * PGSIZE
    BY <2>3, PageCounts, RoundUp
  <2>6. (k * PGSIZE) \div PGSIZE = k
    BY RoundUpAll
  <2>7. QED  BY <2>2, <2>3, <2>4, <2>5, <2>6
<1>6. d = [s EXCEPT !.nextfree = (k + 1) * PGSIZE]
  BY <1>3, <1>4, <1>5 DEF boot_alloc
<1>7. PICK p : p = boot_alloc(d, s.npages)
  OBVIOUS
<1>8. p = [s EXCEPT !.nextfree = (k + 1 + m) * PGSIZE]
  BY <1>3, <1>5, <1>6, <1>7 DEF boot_alloc
<1>9. boot_alloc(p, ENVBYTES) = [s EXCEPT !.nextfree = (k + 2 + m) * PGSIZE]
  BY <1>3, <1>5, <1>8 DEF boot_alloc
<1>10. boot_data(s) =
         [boot_alloc(p, ENVBYTES) EXCEPT !.kern_pgdir = s.nextfree \div PGSIZE,
            !.pages = d.nextfree \div PGSIZE, !.envs = p.nextfree \div PGSIZE,
            !.dir[PDX(UVPT)] = Pte(s.nextfree \div PGSIZE, {"P", "U"})]
  BY <1>4, <1>7, Zenon DEF boot_data
<1>11. s.nextfree \div PGSIZE = k /\ d.nextfree \div PGSIZE = k + 1 /\ p.nextfree \div PGSIZE = k + 1 + m
  BY <1>3, <1>5, <1>6, <1>8
<1>12. boot_data(s) =
         [s EXCEPT !.nextfree = (k + 2 + m) * PGSIZE, !.kern_pgdir = k, !.pages = k + 1, !.envs = k + 1 + m,
                   !.dir[4] = Pte(k, {"P", "U"})]
  BY <1>3, <1>9, <1>10, <1>11, Places
<1>13. [s.dir EXCEPT ![4] = Pte(k, {"P", "U"})]
         = [i \in Dirs |-> IF i = 4 THEN Pte(k, {"P", "U"}) ELSE NoPte]
  BY <1>3, KernIs
<1>14. PICK f : f = [i \in Dirs |-> IF i = 4 THEN Pte(k, {"P", "U"}) ELSE NoPte]
  OBVIOUS
<1>15. boot_data(s) = [s EXCEPT !.nextfree = (k + 2 + m) * PGSIZE, !.kern_pgdir = k, !.pages = k + 1,
                                !.envs = k + 1 + m, !.dir = f]
  BY <1>3, <1>12, <1>13, <1>14
<1>16. PICK g : g = [p1 \in Frames(n) |-> [i \in 0..(N - 1) |-> Junk]]
  OBVIOUS
<1>17. s = [npages |-> n, npages_basemem |-> b, nextfree |-> k * PGSIZE,
            free |-> <<>>, ref |-> <<>>, kern_pgdir |-> 0, pages |-> 0, envs |-> 0,
            dir |-> [i \in Dirs |-> NoPte], tab |-> g, base |-> MMIOBASE, panicstr |-> "none"]
  BY <1>3, <1>16, Zenon
<1>18. boot_data(s) =
         [npages |-> n, npages_basemem |-> b, nextfree |-> (k + 2 + m) * PGSIZE,
          free |-> <<>>, ref |-> <<>>, kern_pgdir |-> k, pages |-> k + 1, envs |-> k + 1 + m,
          dir |-> f, tab |-> g, base |-> MMIOBASE, panicstr |-> "none"]
  <2>1. PICK x0 : x0 = k * PGSIZE
    OBVIOUS
  <2>2. PICK x : x = (k + 2 + m) * PGSIZE
    OBVIOUS
  <2>3. PICK y : y = k + 1
    OBVIOUS
  <2>4. PICK z : z = k + 1 + m
    OBVIOUS
  <2>5. PICK f0 : f0 = [i \in Dirs |-> NoPte]
    OBVIOUS
  <2>6. s = [npages |-> n, npages_basemem |-> b, nextfree |-> x0, free |-> <<>>, ref |-> <<>>, kern_pgdir |-> 0,
             pages |-> 0, envs |-> 0, dir |-> f0, tab |-> g, base |-> MMIOBASE, panicstr |-> "none"]
    BY <1>17, <2>1, <2>5, Zenon
  <2>7. boot_data(s) = [s EXCEPT !.nextfree = x, !.kern_pgdir = k, !.pages = y, !.envs = z, !.dir = f]
    BY <1>15, <2>2, <2>3, <2>4, Zenon
  <2>8. boot_data(s) =
          [npages |-> n, npages_basemem |-> b, nextfree |-> x, free |-> <<>>, ref |-> <<>>, kern_pgdir |-> k,
           pages |-> y, envs |-> z, dir |-> f, tab |-> g, base |-> MMIOBASE, panicstr |-> "none"]
    BY <2>6, <2>7, ZenonT(60)
  <2>9. QED  BY <2>2, <2>3, <2>4, <2>8, Zenon
<1>19. QED  BY <1>1, <1>14, <1>16, <1>18, Zenon DEF BootStart

\* The loop of page_init as a function of its turns.
PageLists(f, s, m) ==
  f = [k \in 0..m |-> IF k = 0 THEN <<>> ELSE IF in_use(s, k - 1) THEN f[k - 1] ELSE <<k - 1>> \o f[k - 1]]

LEMMA PageListsExist ==
  ASSUME NEW s, NEW n \in Nat
  PROVE  \E f : PageLists(f, s, n)
<1> DEFINE T == {k \in Nat : ~\E f : PageLists(f, s, k)}
<1> SUFFICES ASSUME T # {} PROVE FALSE
  OBVIOUS
<1>1. PICK k \in T : \A m \in T : k <= m
  <2>1. T \subseteq Nat
    OBVIOUS
  <2> HIDE DEF T
  <2>2. QED  BY <2>1, Least
<1>2. k \in Nat /\ ~\E f : PageLists(f, s, k)
  OBVIOUS
<1>3. CASE k = 0
  <2>1. PageLists([i \in 0..0 |-> <<>>], s, 0)
    BY DEF PageLists
  <2>2. QED  BY <1>2, <1>3, <2>1
<1>4. CASE k # 0
  <2>1. k - 1 \in Nat /\ k - 1 \notin T
    BY <1>1, <1>2, <1>4
  <2>2. PICK f : PageLists(f, s, k - 1)
    BY <2>1
  <2>3. PICK last : last = IF in_use(s, k - 1) THEN f[k - 1] ELSE <<k - 1>> \o f[k - 1]
    OBVIOUS
  <2>4. PICK g : g = [i \in 0..k |-> IF i = k THEN last ELSE f[i]]
    OBVIOUS
  <2>5. \A i \in 0..k : g[i] = IF i = 0 THEN <<>> ELSE IF in_use(s, i - 1) THEN g[i - 1] ELSE <<i - 1>> \o g[i - 1]
    <3> TAKE i \in 0..k
    <3>1. CASE i = 0
      <4>1. 0 \in 0..(k - 1) /\ f[0] = <<>>
        BY <2>1, <2>2 DEF PageLists
      <4>2. QED  BY <1>4, <2>4, <3>1, <4>1
    <3>2. CASE i # 0 /\ i # k
      <4>1. i \in 0..(k - 1) /\ i - 1 \in 0..k /\ i - 1 # k
        BY <3>2
      <4>2. g[i] = f[i] /\ g[i - 1] = f[i - 1]
        BY <2>4, <3>2, <4>1
      <4>3. f[i] = IF in_use(s, i - 1) THEN f[i - 1] ELSE <<i - 1>> \o f[i - 1]
        BY <2>2, <3>2, <4>1 DEF PageLists
      <4>4. QED  BY <3>2, <4>2, <4>3
    <3>3. CASE i # 0 /\ i = k
      <4>1. g[k] = last /\ g[k - 1] = f[k - 1]
        BY <1>4, <2>1, <2>4
      <4>2. QED  BY <2>3, <3>3, <4>1
    <3>4. QED  BY <3>1, <3>2, <3>3
  <2>6. PageLists(g, s, k)
    BY <2>4, <2>5 DEF PageLists
  <2>7. QED  BY <1>2, <2>6
<1>5. QED  BY <1>3, <1>4

\* The free list of page_init: the pages that are not in use, each once.
Unused(s, m) == {p \in 0..(m - 1) : ~in_use(s, p)}

LEMMA PagesListed ==
  ASSUME NEW s, NEW n \in Nat, NEW f, PageLists(f, s, n)
  PROVE  Enum(f[n], Unused(s, n))
<1> DEFINE T == {k \in 0..n : ~Enum(f[k], Unused(s, k))}
<1>1. T = {}
  <2> SUFFICES ASSUME T # {} PROVE FALSE
    OBVIOUS
  <2>1. PICK k \in T : \A m \in T : k <= m
    <3>1. T \subseteq Nat
      OBVIOUS
    <3> HIDE DEF T
    <3>2. QED  BY <3>1, Least
  <2>2. k \in 0..n /\ k \in Nat /\ ~Enum(f[k], Unused(s, k))
    OBVIOUS
  <2>3. CASE k = 0
    <3>1. f[0] = <<>>
      BY DEF PageLists
    <3>2. Unused(s, 0) = {}
      BY DEF Unused
    <3>3. QED  BY <2>2, <2>3, <3>1, <3>2, EnumEmpty
  <2>4. CASE k # 0
    <3>1. k - 1 \in 0..n /\ k - 1 \notin T
      BY <2>1, <2>2, <2>4
    <3> PICK j \in Nat : j = k - 1 /\ Enum(f[j], Unused(s, j))
      BY <2>2, <3>1
    <3> HIDE DEF T
    <3>2. f[k] = IF in_use(s, j) THEN f[j] ELSE <<j>> \o f[j]
      BY <2>2, <2>4 DEF PageLists
    <3>3. CASE in_use(s, j)
      <4>1. Unused(s, k) = Unused(s, j)
        BY <2>2, <3>3 DEF Unused
      <4>2. QED  BY <2>2, <3>2, <3>3, <4>1
    <3>4. CASE ~in_use(s, j)
      <4>1. Unused(s, k) = Unused(s, j) \cup {j} /\ j \notin Unused(s, j)
        BY <2>2, <3>4 DEF Unused
      <4>2. QED  BY <2>2, <3>2, <3>4, <4>1, EnumCons
    <3>5. QED  BY <3>3, <3>4
  <2>5. QED  BY <2>3, <2>4
<1>2. QED  BY <1>1

\* The state after page_init, but for the order of the free list.
Inited(n, b, k, s) ==
  /\ s \in BootStates(n) /\ s.panicstr = "none" /\ s.base = MMIOBASE /\ Booted(n, b, k, s)
  /\ Enum(s.free, {p \in Frames(n) : s.ref[p] = 0})
  /\ \A p \in Frames(n) : s.ref[p] = 0 <=> p \in {1, 2, 4} \cup (k + 2 + Pages(n))..(n - 1)
  /\ s.dir = [i \in Dirs |-> IF i = 4 THEN Pte(k, {"P", "U"}) ELSE NoPte]

LEMMA PageInit ==
  ASSUME NEW n, NEW b, NEW k, NEW s, Machine(n, b, k), BootStart(n, b, k, s)
  PROVE  Inited(n, b, k, page_init(s))
<1> PICK m \in Nat : m = Pages(n)
  BY RoundUpAll DEF Machine
<1>1. n \in Nat /\ b \in Nat /\ k \in Nat /\ 3 < b /\ b <= 5 /\ 8 <= k /\ k + 2 + m < n
  BY Sizes DEF Machine
<1>2. /\ s.npages = n /\ s.npages_basemem = b /\ s.nextfree = (k + 2 + m) * PGSIZE
      /\ s.kern_pgdir = k /\ s.pages = k + 1 /\ s.envs = k + 1 + m
  BY DEF BootStart
<1>3. s.nextfree \in Nat /\ s.nextfree \div PGSIZE = k + 2 + m
  <2>1. PICK x \in Nat : x = k + 2 + m
    BY <1>1
  <2>2. x * PGSIZE \in Nat
    BY Sizes
  <2>3. (x * PGSIZE) \div PGSIZE = x
    BY <2>2, RoundUpAll, Sizes
  <2>4. QED  BY <1>2, <2>1, <2>2, <2>3
<1>4. \A p \in Frames(n) : ~in_use(s, p) <=> p \in {1, 2, 4} \cup (k + 2 + m)..(n - 1)
  <2> TAKE p \in Frames(n)
  <2>1. p \in Nat /\ p < n
    BY <1>1 DEF Frames
  <2>2. in_use(s, p) <=> (p = 0 \/ (p < b /\ p = 3) \/ (p >= b /\ p >= 5 /\ p < k + 2 + m))
    BY <1>1, <1>2, <1>3, <2>1 DEF in_use, MPENTRY_PADDR, IOPHYSMEM, EXTPHYSMEM
  <2>3. QED  BY <1>1, <2>1, <2>2
<1> DEFINE f == CHOOSE g : g = [i \in 0..s.npages |->
              IF i = 0 THEN <<>> ELSE IF in_use(s, i - 1) THEN g[i - 1] ELSE <<i - 1>> \o g[i - 1]]
<1>5. PageLists(f, s, n)
  <2>1. \E g : PageLists(g, s, n)
    BY <1>1, PageListsExist
  <2>2. QED  BY <1>2, <2>1, Zenon DEF PageLists
<1>6. PICK t : t = page_init(s)
  OBVIOUS
<1>7. t = [s EXCEPT !.ref = [i \in 0..(s.npages - 1) |-> IF in_use(s, i) THEN 1 ELSE 0],
                    !.free = f[s.npages]]
  BY <1>6, Zenon DEF page_init
<1> HIDE DEF f
<1>8. Enum(f[n], Unused(s, n))
  BY <1>1, <1>5, PagesListed
<1>9. PICK q \in Seq(Nat) : q = f[n]
  BY <1>8 DEF Enum
<1>10. PICK r \in [Frames(n) -> Nat] : r = [i \in Frames(n) |-> IF in_use(s, i) THEN 1 ELSE 0]
  OBVIOUS
<1>11. t = [s EXCEPT !.ref = r, !.free = q]
  BY <1>2, <1>7, <1>9, <1>10 DEF Frames
<1>12. s.dir = [i \in Dirs |-> IF i = 4 THEN Pte(k, {"P", "U"}) ELSE NoPte] /\ s.dir \in [Dirs -> PTE]
  <2>1. {"P", "U"} \in SUBSET Perms
    BY DEF Perms
  <2>2. [pa |-> k, perm |-> {"P", "U"}] \in [pa : Nat, perm : SUBSET Perms]
    BY <1>1, <2>1, Zenon
  <2>3. Pte(k, {"P", "U"}) \in PTE
    BY <2>2 DEF Pte, PTE
  <2>4. s.dir = [i \in Dirs |-> IF i = 4 THEN Pte(k, {"P", "U"}) ELSE NoPte]
    BY DEF BootStart
  <2>5. QED  BY <2>3, <2>4, PteIs
<1>13. s.tab \in [Frames(n) -> [0..(N - 1) -> PTE]]
  <2>1. {"P", "W", "U"} \in SUBSET Perms
    BY DEF Perms
  <2>2. [pa |-> 0, perm |-> {"P", "W", "U"}] \in [pa : Nat, perm : SUBSET Perms]
    BY <2>1, Zenon
  <2>3. Junk \in PTE
    BY <2>2 DEF Junk, Pte, PTE
  <2>4. s.tab = [p \in Frames(n) |-> [i \in 0..(N - 1) |-> Junk]]
    BY DEF BootStart
  <2>5. QED  BY <2>3, <2>4
<1>14. s.base = MMIOBASE /\ MMIOBASE \in Nat /\ s.panicstr = "none"
  BY Places, Sizes DEF BootStart
<1>15. PICK d \in [Dirs -> PTE] : d = s.dir
  BY <1>12
<1>16. PICK g \in [Frames(n) -> [0..(N - 1) -> PTE]] : g = s.tab
  BY <1>13
<1>17. t = [npages |-> n, npages_basemem |-> b, nextfree |-> (k + 2 + m) * PGSIZE,
            free |-> q, ref |-> r, kern_pgdir |-> k, pages |-> k + 1, envs |-> k + 1 + m,
            dir |-> d, tab |-> g, base |-> MMIOBASE, panicstr |-> "none"]
  <2>1. s = [npages |-> n, npages_basemem |-> b, nextfree |-> (k + 2 + m) * PGSIZE,
             free |-> <<>>, ref |-> <<>>, kern_pgdir |-> k, pages |-> k + 1, envs |-> k + 1 + m,
             dir |-> d, tab |-> g, base |-> MMIOBASE, panicstr |-> "none"]
    <3>1. \E d1, g1 : s = [npages |-> n, npages_basemem |-> b, nextfree |-> (k + 2 + m) * PGSIZE,
             free |-> <<>>, ref |-> <<>>, kern_pgdir |-> k, pages |-> k + 1, envs |-> k + 1 + m,
             dir |-> d1, tab |-> g1, base |-> MMIOBASE, panicstr |-> "none"]
      BY Zenon DEF BootStart
    <3>2. QED  BY <1>15, <1>16, <3>1
  <2>2. QED  BY <1>11, <2>1
<1>18. t \in BootStates(n)
  <2>1. PICK x \in Nat : x = (k + 2 + m) * PGSIZE
    BY <1>2, <1>3
  <2>2. PICK y \in Nat : y = k + 1
    BY <1>1
  <2>3. PICK z \in Nat : z = k + 1 + m
    BY <1>1
  <2>4. t = [npages |-> n, npages_basemem |-> b, nextfree |-> x, free |-> q, ref |-> r, kern_pgdir |-> k,
             pages |-> y, envs |-> z, dir |-> d, tab |-> g, base |-> MMIOBASE, panicstr |-> "none"]
    BY <1>17, <2>1, <2>2, <2>3, Zenon
  <2>5. QED  BY <1>1, <1>14, <2>4, Zenon DEF BootStates
<1>19. Booted(n, b, k, t)
  BY <1>2, <1>3, <1>17 DEF Booted
<1>20. \A p \in Frames(n) : t.ref[p] = 0 <=> ~in_use(s, p)
  BY <1>10, <1>17
<1>21. Unused(s, n) = {p \in Frames(n) : t.ref[p] = 0}
  BY <1>20 DEF Unused, Frames
<1>22. QED
  <2>1. Enum(t.free, {p \in Frames(n) : t.ref[p] = 0})
    BY <1>8, <1>9, <1>17, <1>21
  <2>2. t.panicstr = "none" /\ t.base = MMIOBASE
    BY <1>17
  <2>3. t.dir = [i \in Dirs |-> IF i = 4 THEN Pte(k, {"P", "U"}) ELSE NoPte]
    BY <1>12, <1>15, <1>17
  <2>4. \A p \in Frames(n) : t.ref[p] = 0 <=> p \in {1, 2, 4} \cup (k + 2 + Pages(n))..(n - 1)
    BY <1>4, <1>20
  <2>5. QED  BY <1>6, <1>18, <1>19, <2>1, <2>2, <2>3, <2>4, Zenon DEF Inited

\* That of check_page_free_list.
SplitLists(f, q, m) ==
  f = [k \in 0..m |-> IF k = 0 THEN <<<<>>, <<>>>> ELSE add_page(f[k - 1], q[k])]

LEMMA SplitListsExist ==
  ASSUME NEW q, NEW n \in Nat
  PROVE  \E f : SplitLists(f, q, n)
<1> DEFINE T == {k \in Nat : ~\E f : SplitLists(f, q, k)}
<1> SUFFICES ASSUME T # {} PROVE FALSE
  OBVIOUS
<1>1. PICK k \in T : \A m \in T : k <= m
  <2>1. T \subseteq Nat
    OBVIOUS
  <2> HIDE DEF T
  <2>2. QED  BY <2>1, Least
<1>2. k \in Nat /\ ~\E f : SplitLists(f, q, k)
  OBVIOUS
<1>3. CASE k = 0
  <2>1. SplitLists([i \in 0..0 |-> <<<<>>, <<>>>>], q, 0)
    BY DEF SplitLists
  <2>2. QED  BY <1>2, <1>3, <2>1
<1>4. CASE k # 0
  <2>1. k - 1 \in Nat /\ k - 1 \notin T
    BY <1>1, <1>2, <1>4
  <2>2. PICK f : SplitLists(f, q, k - 1)
    BY <2>1
  <2>3. PICK last : last = add_page(f[k - 1], q[k])
    OBVIOUS
  <2>4. PICK g : g = [i \in 0..k |-> IF i = k THEN last ELSE f[i]]
    OBVIOUS
  <2>5. \A i \in 0..k : g[i] = IF i = 0 THEN <<<<>>, <<>>>> ELSE add_page(g[i - 1], q[i])
    <3> TAKE i \in 0..k
    <3>1. CASE i = 0
      <4>1. 0 \in 0..(k - 1) /\ f[0] = <<<<>>, <<>>>>
        BY <2>1, <2>2 DEF SplitLists
      <4>2. QED  BY <1>4, <2>4, <3>1, <4>1
    <3>2. CASE i # 0 /\ i # k
      <4>1. i \in 0..(k - 1) /\ i - 1 \in 0..k /\ i - 1 # k
        BY <3>2
      <4>2. g[i] = f[i] /\ g[i - 1] = f[i - 1]
        BY <2>4, <3>2, <4>1
      <4>3. f[i] = add_page(f[i - 1], q[i])
        BY <2>2, <3>2, <4>1 DEF SplitLists
      <4>4. QED  BY <3>2, <4>2, <4>3
    <3>3. CASE i # 0 /\ i = k
      <4>1. g[k] = last /\ g[k - 1] = f[k - 1]
        BY <1>4, <2>1, <2>4
      <4>2. QED  BY <2>3, <3>3, <4>1
    <3>4. QED  BY <3>1, <3>2, <3>3
  <2>6. SplitLists(g, q, k)
    BY <2>4, <2>5 DEF SplitLists
  <2>7. QED  BY <1>2, <2>6
<1>5. QED  BY <1>3, <1>4

\* The low and the high pages among the first k of q.
Low(q, k) == {p \in Nat : p < N /\ \E i \in 1..k : q[i] = p}
High(q, k) == {p \in Nat : p >= N /\ \E i \in 1..k : q[i] = p}

LEMMA ListsSplit ==
  ASSUME NEW q, NEW S, Enum(q, S), NEW f, SplitLists(f, q, Len(q))
  PROVE  Enum(f[Len(q)][1], {p \in S : p < N}) /\ Enum(f[Len(q)][2], {p \in S : p >= N})
<1> PICK n \in Nat : n = Len(q)
  BY DEF Enum
<1> DEFINE Good(k) == Enum(f[k][1], Low(q, k)) /\ Enum(f[k][2], High(q, k))
           T == {k \in 0..n : ~Good(k)}
<1>1. /\ \A i \in 1..n : q[i] \in Nat
      /\ \A i, j \in 1..n : i # j => q[i] # q[j]
  BY DEF Enum
<1>2. T = {}
  <2> HIDE DEF Good
  <2> SUFFICES ASSUME T # {} PROVE FALSE
    OBVIOUS
  <2>1. PICK k \in T : \A m \in T : k <= m
    <3>1. T \subseteq Nat
      OBVIOUS
    <3> HIDE DEF T
    <3>2. QED  BY <3>1, Least
  <2>2. k \in 0..n /\ k \in Nat /\ ~Good(k)
    OBVIOUS
  <2>3. CASE k = 0
    <3>1. f[0] = <<<<>>, <<>>>>
      BY DEF SplitLists
    <3>2. f[0][1] = <<>> /\ f[0][2] = <<>>
      BY <3>1
    <3>3. Low(q, 0) = {} /\ High(q, 0) = {}
      BY DEF Low, High
    <3>4. QED  BY <2>2, <2>3, <3>2, <3>3, EnumEmpty DEF Good
  <2>4. CASE k # 0
    <3>1. k - 1 \in 0..n /\ k - 1 \notin T
      BY <2>1, <2>2, <2>4
    <3> PICK j \in Nat : j = k - 1 /\ Good(j)
      BY <2>2, <3>1
    <3> HIDE DEF T
    <3>2. PICK p \in Nat : p = q[k]
      BY <1>1, <2>2, <2>4
    <3>3. f[k] = add_page(f[j], p)
      BY <2>2, <2>4, <3>2 DEF SplitLists
    <3>4. \A i \in 1..j : q[i] # p
      BY <1>1, <2>2, <2>4, <3>2
    <3>5. \A i : i \in 1..k <=> i \in 1..j \/ i = k
      BY <2>2, <2>4
    <3>6. PDX(p) < 1 <=> p < N
      <4>1. p \div N < 1 <=> p < 1 * N
        BY Sizes, DivLess
      <4>2. QED  BY <4>1, Sizes DEF PDX, N
    <3>7. CASE p < N
      <4>1. f[k][1] = Append(f[j][1], p) /\ f[k][2] = f[j][2]
        BY <3>3, <3>6, <3>7 DEF add_page
      <4>2. Low(q, k) = Low(q, j) \cup {p} /\ p \notin Low(q, j)
        BY <3>2, <3>4, <3>5, <3>7 DEF Low
      <4>3. High(q, k) = High(q, j)
        BY <3>2, <3>5, <3>7, Sizes DEF High
      <4>4. Enum(f[k][1], Low(q, k))
        BY <4>1, <4>2, EnumAppend DEF Good
      <4>5. QED  BY <2>2, <4>1, <4>3, <4>4 DEF Good
    <3>8. CASE ~(p < N)
      <4>1. f[k][2] = Append(f[j][2], p) /\ f[k][1] = f[j][1]
        BY <3>3, <3>6, <3>8 DEF add_page
      <4>2. High(q, k) = High(q, j) \cup {p} /\ p \notin High(q, j)
        BY <3>2, <3>4, <3>5, <3>8, Sizes DEF High
      <4>3. Low(q, k) = Low(q, j)
        BY <3>2, <3>5, <3>8 DEF Low
      <4>4. Enum(f[k][2], High(q, k))
        BY <4>1, <4>2, EnumAppend DEF Good
      <4>5. QED  BY <2>2, <4>1, <4>3, <4>4 DEF Good
    <3>9. QED  BY <3>7, <3>8
  <2>5. QED  BY <2>3, <2>4
<1>3. Good(n)
  BY <1>2
<1>4. Low(q, n) = {p \in S : p < N} /\ High(q, n) = {p \in S : p >= N}
  BY DEF Low, High, Enum
<1>5. QED  BY <1>3, <1>4

LEMMA CardKern == Cardinality(Kern) = NKERN + 4
<1>1. IsFiniteSet({2, 3}) /\ Cardinality({2, 3}) = 2
  <2>1. IsFiniteSet({2}) /\ Cardinality({2}) = 1
    BY FS_Singleton, Zenon
  <2>2. IsFiniteSet({2} \cup {3}) /\ Cardinality({2} \cup {3}) = Cardinality({2}) + 1
    BY <2>1, FS_AddElement
  <2>3. {2} \cup {3} = {2, 3}
    OBVIOUS
  <2>4. QED  BY <2>1, <2>2, <2>3
<1>2. IsFiniteSet(5..(6 + NKERN)) /\ Cardinality(5..(6 + NKERN)) = NKERN + 2
  BY Sizes, FS_Interval
<1>3. {2, 3} \cap 5..(6 + NKERN) = {}
  BY Sizes
<1>4. Cardinality({2, 3} \cup 5..(6 + NKERN)) = 2 + (NKERN + 2) - Cardinality({2, 3} \cap 5..(6 + NKERN))
  BY <1>1, <1>2, FS_Union
<1>5. Cardinality({}) = 0
  BY FS_EmptySet, Zenon
<1>6. PICK c : c = Cardinality({2, 3} \cup 5..(6 + NKERN)) /\ c = 2 + (NKERN + 2) - 0
  BY <1>3, <1>4, <1>5, Zenon
<1>7. c = NKERN + 4
  BY <1>6, Sizes
<1>8. QED  BY <1>6, <1>7, Zenon DEF Kern

\* The low pages that page_init leaves free suffice for the page tables.
LEMMA LowPages ==
  ASSUME NEW L, IsFiniteSet(L), NEW e \in Nat, e > 4, {1, 2, 4} \cup e..(e + NKERN) \subseteq L
  PROVE  Cardinality(L) >= NKERN + 4 /\ Cardinality(L) \in Nat
<1>1. IsFiniteSet({1, 2, 4}) /\ Cardinality({1, 2, 4}) = 3
  <2>1. IsFiniteSet({1}) /\ Cardinality({1}) = 1
    BY FS_Singleton, Zenon
  <2>0. 2 \notin {1}
    OBVIOUS
  <2>2. IsFiniteSet({1} \cup {2}) /\ Cardinality({1} \cup {2}) = Cardinality({1}) + 1
    BY <2>0, <2>1, FS_AddElement
  <2>3. 4 \notin {1} \cup {2}
    OBVIOUS
  <2>4. IsFiniteSet(({1} \cup {2}) \cup {4}) /\ Cardinality(({1} \cup {2}) \cup {4}) = Cardinality({1} \cup {2}) + 1
    BY <2>2, <2>3, FS_AddElement
  <2>5. ({1} \cup {2}) \cup {4} = {1, 2, 4}
    OBVIOUS
  <2>6. QED  BY <2>1, <2>2, <2>4, <2>5
<1>2. IsFiniteSet(e..(e + NKERN)) /\ Cardinality(e..(e + NKERN)) = NKERN + 1
  BY Sizes, FS_Interval
<1>3. {1, 2, 4} \cap e..(e + NKERN) = {}
  BY Sizes
<1>4. /\ IsFiniteSet({1, 2, 4} \cup e..(e + NKERN))
      /\ Cardinality({1, 2, 4} \cup e..(e + NKERN)) = 3 + (NKERN + 1) - Cardinality({1, 2, 4} \cap e..(e + NKERN))
  BY <1>1, <1>2, FS_Union
<1>5. Cardinality({}) = 0
  BY FS_EmptySet, Zenon
<1>6. Cardinality({1, 2, 4} \cup e..(e + NKERN)) = NKERN + 4
  BY <1>3, <1>4, <1>5, Sizes
<1>7. QED  BY <1>6, Sizes, FS_Subset, FS_CardinalityType

\* No page table yet, and the low pages first.
Fresh(n, b, k, s) ==
  /\ BootInv(n, s) /\ Booted(n, b, k, s) /\ s.base = MMIOBASE
  /\ \A d \in Dirs \ {4} : s.dir[d] = NoPte

\* A state whose free list is another list of the same pages.
LEMMA FreeIs ==
  ASSUME NEW n, NEW s, Enum(s.free, {p \in Frames(n) : s.ref[p] = 0})
  PROVE  FreeInv(n, s)
<1> DEFINE S == {p \in Frames(n) : s.ref[p] = 0}
<1>1. \A i \in 1..Len(s.free) : s.free[i] \in S
  BY Zenon DEF Enum
<1>2. \A i, j \in 1..Len(s.free) : i # j => s.free[i] # s.free[j]
  BY Zenon DEF Enum
<1>3. \A p \in S : \E i \in 1..Len(s.free) : s.free[i] = p
  BY Zenon DEF Enum
<1>4. QED  BY <1>1, <1>2, <1>3, Zenon DEF FreeInv

LEMMA FreeListChecked ==
  ASSUME NEW n, NEW b, NEW k, NEW s, Machine(n, b, k), Inited(n, b, k, s)
  PROVE  Fresh(n, b, k, check_page_free_list(s))
<1> PICK m \in Nat : m = Pages(n)
  BY RoundUpAll DEF Machine
<1>1. /\ n \in Nat /\ b \in Nat /\ k \in Nat /\ 8 <= k
      /\ k + 2 + m + NKERN < n /\ k + 2 + m + NKERN < N
  BY DEF Machine
<1>2. s \in BootStates(n) /\ Booted(n, b, k, s) /\ s.panicstr = "none" /\ s.base = MMIOBASE
  BY DEF Inited
<1> DEFINE S == {p \in Frames(n) : s.ref[p] = 0}
<1>3. Enum(s.free, S)
  BY DEF Inited
<1>4. \A p \in Frames(n) : s.ref[p] = 0 <=> p \in {1, 2, 4} \cup (k + 2 + m)..(n - 1)
  BY DEF Inited
<1>5. s.dir = [i \in Dirs |-> IF i = 4 THEN Pte(k, {"P", "U"}) ELSE NoPte]
  BY DEF Inited
<1>6. S \subseteq Nat /\ Frames(n) \subseteq Nat
  BY <1>1 DEF Frames
<1>7. {1, 2, 4} \cup (k + 2 + m)..(k + 2 + m + NKERN) \subseteq {p \in S : p < N}
  <2> SUFFICES ASSUME NEW p \in {1, 2, 4} \cup (k + 2 + m)..(k + 2 + m + NKERN)
               PROVE  p \in S /\ p < N
    OBVIOUS
  <2>1. p \in Nat /\ p < n /\ p < N /\ p \in {1, 2, 4} \cup (k + 2 + m)..(n - 1)
    BY <1>1, Sizes
  <2>2. p \in Frames(n)
    BY <1>1, <2>1 DEF Frames
  <2>3. QED  BY <1>4, <2>1, <2>2
<1> HIDE DEF S
<1> DEFINE f == CHOOSE g : g = [j \in 0..Len(s.free) |->
                  IF j = 0 THEN <<<<>>, <<>>>> ELSE add_page(g[j - 1], s.free[j])]
<1>8. SplitLists(f, s.free, Len(s.free))
  <2>1. Len(s.free) \in Nat
    BY <1>3 DEF Enum
  <2>2. \E g : SplitLists(g, s.free, Len(s.free))
    BY <2>1, SplitListsExist
  <2>3. QED  BY <2>2, Zenon DEF SplitLists
<1>9. PICK t : t = check_page_free_list(s)
  OBVIOUS
<1>10. t = [s EXCEPT !.free = f[Len(s.free)][1] \o f[Len(s.free)][2]]
  BY <1>9, Zenon DEF check_page_free_list
<1> HIDE DEF f
<1>11. PICK lo, hi : /\ lo = f[Len(s.free)][1] /\ hi = f[Len(s.free)][2]
                     /\ Enum(lo, {p \in S : p < N}) /\ Enum(hi, {p \in S : p >= N})
  BY <1>3, <1>8, ListsSplit
<1>12. Enum(lo \o hi, S)
  <2>0. \A p \in S : p >= N <=> ~(p < N)
    BY <1>6, Sizes
  <2>1. {p \in S : p < N} \cap {p \in S : p >= N} = {}
    BY <2>0, Zenon
  <2>2. {p \in S : p < N} \cup {p \in S : p >= N} = S
    BY <2>0, Zenon
  <2>3. Enum(lo \o hi, {p \in S : p < N} \cup {p \in S : p >= N})
    BY <1>11, <2>1, EnumConcat
  <2>4. QED  BY <2>2, <2>3
<1>13. PICK q \in Seq(Nat) : q = lo \o hi
  BY <1>12 DEF Enum
<1>14. t = [s EXCEPT !.free = q]
  BY <1>10, <1>11, <1>13
<1>15. /\ t \in BootStates(n) /\ t.free = q /\ t.ref = s.ref /\ t.dir = s.dir
       /\ t.base = MMIOBASE /\ t.panicstr = "none"
       /\ t.npages = s.npages /\ t.npages_basemem = s.npages_basemem /\ t.nextfree = s.nextfree
       /\ t.kern_pgdir = s.kern_pgdir /\ t.pages = s.pages /\ t.envs = s.envs
  BY <1>2, <1>14 DEF BootStates
<1>16. Booted(n, b, k, t)
  BY <1>2, <1>15 DEF Booted
<1>17. FreeInv(n, t)
  <2>1. Enum(t.free, {p \in Frames(n) : t.ref[p] = 0})
    BY <1>12, <1>13, <1>15 DEF S
  <2>2. QED  BY <2>1, FreeIs
<1>18. DataInv(n, t)
  <2>1. Data(t) = {0, 3} \cup 5..((k + 2 + m) - 1)
    <3>1. t.nextfree \div PGSIZE = k + 2 + m
      BY <1>16 DEF Booted
    <3>2. Data(t) = {0, 3} \cup 5..((t.nextfree \div PGSIZE) - 1)
      BY Zenon DEF Data, MPENTRY_PADDR, IOPHYSMEM
    <3>3. QED  BY <3>1, <3>2, Zenon
  <2>2. t.kern_pgdir = k
    BY <1>16 DEF Booted
  <2>3. k \in Data(t)
    BY <1>1, <2>1
  <2>4. ASSUME NEW p \in Data(t) PROVE p \in Frames(n) /\ t.ref[p] # 0
    <3>1. p \in Nat /\ p < n /\ p \notin {1, 2, 4} \cup (k + 2 + m)..(n - 1)
      <4>1. PICK c \in Nat : c = k + 2 + m /\ 5 <= c /\ c < n
        BY <1>1, Sizes
      <4>2. p = 0 \/ p = 3 \/ p \in 5..(c - 1)
        BY <2>1, <2>4, <4>1
      <4>3. p \in Nat /\ p < c /\ p # 1 /\ p # 2 /\ p # 4
        BY <4>1, <4>2
      <4>4. p < n /\ p \notin c..(n - 1)
        BY <1>1, <4>1, <4>3
      <4>5. p \notin {1, 2, 4} \cup c..(n - 1)
        BY <4>3, <4>4, Zenon
      <4>6. QED  BY <4>1, <4>3, <4>4, <4>5, Zenon
    <3>2. p \in Frames(n)
      BY <1>1, <3>1 DEF Frames
    <3>3. QED  BY <1>4, <1>15, <3>1, <3>2
  <2>5. QED  BY <2>2, <2>3, <2>4 DEF DataInv
<1>19. /\ t.dir[4] = Pte(t.kern_pgdir, {"P", "U"})
       /\ \A d \in Dirs \ {4} : t.dir[d] = NoPte
  BY <1>5, <1>15, <1>16, KernIs DEF Booted
<1>20. DirInv(n, t)
  BY <1>19, KernIs DEF DirInv
<1>21. Ready(t)
  <2>1. Missing(t) = Kern
    BY <1>19, KernIs DEF Missing
  <2>2. lo \in Seq(Nat) /\ hi \in Seq(Nat)
    BY <1>11 DEF Enum
  <2>3. PICK a \in Nat : a = Len(lo)
    BY <2>2
  <2>4. a >= NKERN + 4
    <3>1. IsFiniteSet({p \in S : p < N}) /\ Cardinality({p \in S : p < N}) = a
      BY <1>11, <2>3, EnumCard
    <3>2. PICK e \in Nat : e = k + 2 + m /\ e > 4
      BY <1>1
    <3>3. QED  BY <1>7, <3>1, <3>2, LowPages
  <2>5. ASSUME NEW j \in 1..(NKERN + 4) PROVE j <= Len(q) /\ q[j] < N
    <3>1. j \in 1..Len(lo)
      BY <2>3, <2>4, <2>5, Sizes
    <3>2. q[j] = lo[j] /\ j <= Len(q)
      BY <1>13, <2>2, <3>1
    <3>3. lo[j] \in {p \in S : p < N}
      BY <1>11, <3>1 DEF Enum
    <3>4. QED  BY <3>2, <3>3
  <2>6. QED  BY <1>15, <2>1, <2>5, CardKern DEF Ready
<1>22. QED  BY <1>9, <1>15, <1>16, <1>17, <1>18, <1>19, <1>20, <1>21 DEF Fresh, BootInv

\* check_page gives three pages back in the reverse order.
Turned(q) == <<q[3], q[2], q[1]>> \o SubSeq(q, 4, Len(q))
TurnedAt(i) == IF i <= 3 THEN 4 - i ELSE i

LEMMA TurnedIs ==
  ASSUME NEW q \in Seq(Nat), 3 <= Len(q)
  PROVE  /\ Turned(q) \in Seq(Nat) /\ Len(Turned(q)) = Len(q)
         /\ \A i \in 1..Len(q) : TurnedAt(i) \in 1..Len(q) /\ Turned(q)[i] = q[TurnedAt(i)]
<1> PICK n \in Nat : n = Len(q)
  OBVIOUS
<1>1. q[1] \in Nat /\ q[2] \in Nat /\ q[3] \in Nat
  OBVIOUS
<1>2. PICK u \in Seq(Nat) : u = <<q[3], q[2], q[1]>> /\ Len(u) = 3 /\ u[1] = q[3] /\ u[2] = q[2] /\ u[3] = q[1]
  <2>1. \A x, y, z \in Nat : <<x, y, z>> \in Seq(Nat) /\ Len(<<x, y, z>>) = 3
                            /\ <<x, y, z>>[1] = x /\ <<x, y, z>>[2] = y /\ <<x, y, z>>[3] = z
    OBVIOUS
  <2>2. PICK x, y, z \in Nat : x = q[3] /\ y = q[2] /\ z = q[1]
    BY <1>1
  <2>3. PICK u : u = <<x, y, z>>
    OBVIOUS
  <2>4. u \in Seq(Nat) /\ Len(u) = 3 /\ u[1] = x /\ u[2] = y /\ u[3] = z
    BY <2>1, <2>3, Zenon
  <2>5. QED  BY <2>2, <2>3, <2>4
<1>3. SubSeq(q, 4, n) \in Seq(Nat) /\ Len(SubSeq(q, 4, n)) = n - 3
      /\ \A i \in 1..(n - 3) : SubSeq(q, 4, n)[i] = q[i + 3]
  <2>1. \A i \in 4..n : q[i] \in Nat
    OBVIOUS
  <2>2. SubSeq(q, 4, n) = [i \in 1..(n - 3) |-> q[i + 3]]
    OBVIOUS
  <2>3. PICK m \in Nat : m = n - 3
    OBVIOUS
  <2>4. [i \in 1..m |-> q[i + 3]] \in Seq(Nat) /\ Len([i \in 1..m |-> q[i + 3]]) = m
    BY <2>1, <2>3
  <2>5. QED  BY <2>2, <2>3, <2>4
<1>4. PICK v \in Seq(Nat) : v = SubSeq(q, 4, n) /\ Len(v) = n - 3 /\ \A i \in 1..(n - 3) : v[i] = q[i + 3]
  BY <1>3
<1>5. u \o v \in Seq(Nat) /\ Len(u \o v) = n
  BY <1>2, <1>4
<1>6. PICK w \in Seq(Nat) : w = u \o v /\ Len(w) = n
  BY <1>5
<1>7. w = Turned(q)
  BY <1>2, <1>4, <1>6 DEF Turned
<1>8. ASSUME NEW i \in 1..n PROVE TurnedAt(i) \in 1..n /\ w[i] = q[TurnedAt(i)]
  <2>1. CASE i <= 3
    <3>1. w[i] = u[i]
      BY <1>2, <1>4, <1>6, <2>1
    <3>2. i = 1 \/ i = 2 \/ i = 3
      BY <2>1
    <3>3. TurnedAt(i) = 4 - i /\ 4 - i \in 1..n
      BY <3>2, <2>1 DEF TurnedAt
    <3>4. CASE i = 1
      BY <1>2, <3>1, <3>3, <3>4
    <3>5. CASE i = 2
      BY <1>2, <3>1, <3>3, <3>5
    <3>6. CASE i = 3
      BY <1>2, <3>1, <3>3, <3>6
    <3>7. QED  BY <3>2, <3>4, <3>5, <3>6
  <2>2. CASE ~(i <= 3)
    <3>1. PICK j \in 1..(n - 3) : j = i - 3
      BY <2>2
    <3>2. w[3 + j] = v[j]
      BY <1>2, <1>4, <1>6, <3>1
    <3>3. w[i] = q[i]
      BY <1>4, <3>1, <3>2
    <3>4. QED  BY <2>2, <3>3 DEF TurnedAt
  <2>3. QED  BY <2>1, <2>2
<1>9. QED  BY <1>6, <1>7, <1>8

LEMMA FreeTurned ==
  ASSUME NEW n \in Nat, NEW b, NEW k, NEW s, Fresh(n, b, k, s)
  PROVE  Fresh(n, b, k, [s EXCEPT !.free = Turned(s.free)])
<1>1. s \in BootStates(n) /\ BootInv(n, s)
  BY DEF Fresh, BootInv
<1>2. PICK q \in Seq(Nat) : q = s.free
  BY <1>1 DEF BootStates
<1>3. Missing(s) = Kern
  BY KernIs DEF Fresh, Missing
<1>4. \A j \in 1..(NKERN + 4) : j <= Len(q) /\ q[j] < N
  BY <1>1, <1>2, <1>3, CardKern DEF BootInv, Ready
<1>5. 3 <= Len(q)
  BY <1>4, Sizes
<1>6. PICK r \in Seq(Nat) : /\ r = Turned(q) /\ Len(r) = Len(q)
                            /\ \A i \in 1..Len(q) : TurnedAt(i) \in 1..Len(q) /\ r[i] = q[TurnedAt(i)]
  BY <1>5, TurnedIs
<1>7. PICK t : t = [s EXCEPT !.free = Turned(s.free)]
  OBVIOUS
<1>8. t = [s EXCEPT !.free = r]
  BY <1>2, <1>6, <1>7
<1>9. /\ t \in BootStates(n) /\ t.free = r /\ t.ref = s.ref /\ t.dir = s.dir
      /\ t.base = s.base /\ t.panicstr = s.panicstr
      /\ t.npages = s.npages /\ t.npages_basemem = s.npages_basemem /\ t.nextfree = s.nextfree
      /\ t.kern_pgdir = s.kern_pgdir /\ t.pages = s.pages /\ t.envs = s.envs
  BY <1>1, <1>8 DEF BootStates
<1>10. Data(t) = Data(s) /\ Missing(t) = Missing(s)
  BY <1>9 DEF Data, Missing
<1>11. FreeInv(n, t)
  <2>1. /\ \A i \in 1..Len(q) : q[i] \in Frames(n) /\ s.ref[q[i]] = 0
        /\ \A i, j \in 1..Len(q) : i # j => q[i] # q[j]
        /\ \A p \in Frames(n) : s.ref[p] = 0 => \E i \in 1..Len(q) : q[i] = p
    BY <1>1, <1>2 DEF BootInv, FreeInv
  <2>2. \A i \in 1..Len(r) : r[i] \in Frames(n) /\ s.ref[r[i]] = 0
    BY <1>6, <2>1
  <2>3. ASSUME NEW i \in 1..Len(r), NEW j \in 1..Len(r), i # j PROVE r[i] # r[j]
    <3>1. TurnedAt(i) # TurnedAt(j)
      BY <2>3 DEF TurnedAt
    <3>2. PICK x \in 1..Len(q) : x = TurnedAt(i) /\ r[i] = q[x]
      BY <1>6
    <3>3. PICK y \in 1..Len(q) : y = TurnedAt(j) /\ r[j] = q[y]
      BY <1>6
    <3>4. q[x] # q[y]
      BY <2>1, <3>1, <3>2, <3>3, Zenon
    <3>5. QED  BY <3>2, <3>3, <3>4, Zenon
  <2>4. ASSUME NEW p \in Frames(n), s.ref[p] = 0 PROVE \E i \in 1..Len(r) : r[i] = p
    <3>1. PICK i \in 1..Len(q) : q[i] = p
      BY <2>1, <2>4
    <3>2. TurnedAt(TurnedAt(i)) = i /\ TurnedAt(i) \in 1..Len(q)
      BY <1>5 DEF TurnedAt
    <3>3. QED  BY <1>6, <3>1, <3>2
  <2>5. QED  BY <1>9, <2>2, <2>3, <2>4 DEF FreeInv
<1>12. Ready(t)
  <2>1. ASSUME NEW j \in 1..(NKERN + 4) PROVE j <= Len(r) /\ r[j] < N
    <3>1. TurnedAt(j) \in 1..(NKERN + 4)
      BY Sizes DEF TurnedAt
    <3>2. j <= Len(q) /\ q[TurnedAt(j)] < N
      BY <1>4, <3>1
    <3>3. j \in 1..Len(q)
      BY <3>2
    <3>4. QED  BY <1>6, <3>2, <3>3
  <2>2. QED  BY <1>3, <1>9, <1>10, <2>1, CardKern DEF Ready
<1>13. DataInv(n, t) /\ DirInv(n, t)
  BY <1>1, <1>9, <1>10 DEF BootInv, DataInv, DirInv, TableAt
<1>14. BootInv(n, t)
  BY <1>1, <1>9, <1>11, <1>12, <1>13 DEF BootInv
<1>15. Booted(n, b, k, t) /\ t.base = MMIOBASE /\ \A d \in Dirs \ {4} : t.dir[d] = NoPte
  BY <1>9 DEF Fresh, Booted
<1>16. QED  BY <1>7, <1>14, <1>15 DEF Fresh

-----------------------------------------------------------------------------
\* Device memory.
LEMMA BaseMoved ==
  ASSUME NEW n \in Nat, NEW s, NEW b \in Nat, BootInv(n, s)
  PROVE  /\ BootInv(n, [s EXCEPT !.base = b]) /\ Rest(s, [s EXCEPT !.base = b])
         /\ [s EXCEPT !.base = b].base = b
         /\ \A va : Entry([s EXCEPT !.base = b], va) = Entry(s, va)
<1>1. s \in BootStates(n)
  BY DEF BootInv
<1>2. PICK t : t = [s EXCEPT !.base = b]
  OBVIOUS
<1>3. /\ t \in BootStates(n) /\ t.free = s.free /\ t.ref = s.ref /\ t.dir = s.dir /\ t.tab = s.tab
      /\ t.base = b /\ t.panicstr = s.panicstr /\ Rest(s, t)
  BY <1>1, <1>2 DEF BootStates, Rest
<1>4. Data(t) = Data(s) /\ Missing(t) = Missing(s) /\ t.kern_pgdir = s.kern_pgdir
  BY <1>3 DEF Data, Missing, Rest
<1>5. FreeInv(n, t) /\ Ready(t)
  BY <1>3, <1>4 DEF BootInv, FreeInv, Ready
<1>6. DataInv(n, t) /\ DirInv(n, t)
  BY <1>3, <1>4 DEF BootInv, DataInv, DirInv, TableAt
<1>7. BootInv(n, t)
  BY <1>3, <1>5, <1>6 DEF BootInv
<1>8. \A va : Entry(t, va) = Entry(s, va)
  BY <1>3 DEF Entry
<1>9. QED  BY <1>2, <1>3, <1>7, <1>8

MmioPerm == {"W", "PCD", "PWT"}
MmioMapped(n, s, pa, size, t) ==
  /\ BootInv(n, t) /\ Rest(s, t) /\ t.base = s.base + size
  /\ \A i \in 0..(size - 1) : Entry(t, s.base + i) = Pte(pa + i, MmioPerm \cup {"P"})
  /\ \A vb \in Vas : vb < s.base \/ s.base + size <= vb => Entry(t, vb) = Entry(s, vb)

LEMMA MmioRegion ==
  ASSUME NEW n \in Nat, NEW s, NEW pa \in Nat, NEW size \in Nat,
         BootInv(n, s), MMIOBASE <= s.base, s.base + size <= MMIOLIM
  PROVE  MmioMapped(n, s, pa, size, mmio_map_region(s, pa, size))
<1>1. PICK base \in Nat : base = s.base
  BY DEF BootInv, BootStates
<1>2. MMIOBASE = 5 * N /\ MMIOLIM = 6 * N /\ N \in Nat /\ NKERN \in Nat
  BY Places, Sizes
<1>3. \A i \in 0..(size - 1) : PDX(base + i) \in Kern
  <2> TAKE i \in 0..(size - 1)
  <2>1. PICK v \in Nat : v = base + i /\ 5 * N <= v /\ v < 5 * N + N
    BY <1>1, <1>2
  <2>2. PDX(v) = 5
    BY <2>1, PageAt
  <2>3. QED  BY <1>2, <2>1, <2>2 DEF Kern
<1>4. MmioPerm \in SUBSET Perms
  BY DEF MmioPerm, Perms
<1>5. PICK r : r = boot_map_region(s, base, size, pa, MmioPerm)
  OBVIOUS
<1>6. Mapped(n, s, base, size, pa, MmioPerm, r)
  BY <1>3, <1>4, <1>5, RegionMapped
<1>7. BootInv(n, r) /\ Rest(s, r) /\ r.base = base
  BY <1>1, <1>6 DEF Mapped, Same
<1>8. PICK t : t = mmio_map_region(s, pa, size)
  OBVIOUS
<1>9. t = [r EXCEPT !.base = @ + size]
  <2>1. s.panicstr = "none" /\ ~(s.base + size > MMIOLIM)
    BY <1>1, <1>2 DEF BootInv
  <2>2. t = [boot_map_region(s, s.base, size, pa, MmioPerm) EXCEPT !.base = @ + size]
    BY <1>8, <2>1, Zenon DEF mmio_map_region, MmioPerm
  <2>3. QED  BY <1>1, <1>5, <2>2
<1>10. PICK c \in Nat : c = base + size
  OBVIOUS
<1>11. t = [r EXCEPT !.base = c]
  BY <1>7, <1>9, <1>10
<1>12. BootInv(n, t) /\ Rest(r, t) /\ t.base = c /\ \A va : Entry(t, va) = Entry(r, va)
  BY <1>7, <1>11, BaseMoved
<1>13. Rest(s, t)
  BY <1>7, <1>12 DEF Rest
<1>14. \A i \in 0..(size - 1) : Entry(t, base + i) = Pte(pa + i, MmioPerm \cup {"P"})
  BY <1>6, <1>12 DEF Mapped
<1>15. \A vb \in Vas : vb < base \/ base + size <= vb => Entry(t, vb) = Entry(s, vb)
  BY <1>6, <1>12 DEF Mapped
<1>16. QED  BY <1>1, <1>8, <1>10, <1>12, <1>13, <1>14, <1>15 DEF MmioMapped

LEMMA BootedRest ==
  ASSUME NEW n, NEW b, NEW k, NEW s, NEW t, Booted(n, b, k, s), Rest(s, t)
  PROVE  Booted(n, b, k, t)
BY DEF Booted, Rest

\* A page table with nothing mapped.
Blank(n, b, k, s) ==
  /\ BootInv(n, s) /\ Booted(n, b, k, s) /\ s.base = MMIOBASE + 3
  /\ \A vb \in Vas : Entry(s, vb) = NoPte

LEMMA EntryTable ==
  ASSUME NEW s, NEW va, Entry(s, va) # NoPte
  PROVE  s.dir[PDX(va)] # NoPte
BY DEF Entry

LEMMA PageChecked ==
  ASSUME NEW n \in Nat, NEW b, NEW k, NEW s, Fresh(n, b, k, s)
  PROVE  Blank(n, b, k, check_page(s))
<1>1. PICK M \in Nat : M = MMIOBASE /\ M = 5 * N /\ M + N = MMIOLIM
  BY Places, Sizes
<1>2. N \in Nat /\ N >= 4 /\ NKERN \in Nat
  BY Sizes
<1>3. PICK r : r = [s EXCEPT !.free = Turned(s.free)]
  OBVIOUS
<1>4. Fresh(n, b, k, r)
  BY <1>3, FreeTurned
<1>5. BootInv(n, r) /\ Booted(n, b, k, r) /\ r.base = M
  BY <1>1, <1>4 DEF Fresh
<1>6. \A vb \in Vas : Entry(r, vb) = NoPte
  BY <1>4 DEF Fresh, Vas, Entry
<1>7. PICK u : u = mmio_map_region(r, 0, 2) /\ MmioMapped(n, r, 0, 2, u)
  BY <1>1, <1>2, <1>5, MmioRegion
<1>8. BootInv(n, u) /\ Booted(n, b, k, u) /\ u.base = M + 2
  BY <1>5, <1>7, BootedRest DEF MmioMapped
<1>9. PICK m : m = mmio_map_region(u, 0, 1) /\ MmioMapped(n, u, 0, 1, m)
  BY <1>1, <1>2, <1>8, MmioRegion
<1>10. BootInv(n, m) /\ Booted(n, b, k, m) /\ m.base = M + 3
  BY <1>8, <1>9, BootedRest DEF MmioMapped
<1>11. /\ M \in Vas /\ M + 1 \in Vas /\ M + 2 \in Vas
       /\ PDX(M) \in Kern /\ PDX(M + 1) \in Kern /\ PDX(M + 2) \in Kern
  <2>1. ASSUME NEW v \in Nat, M <= v, v < M + N PROVE PDX(v) \in Kern /\ v \in Vas
    <3>1. PDX(v) = 5
      BY <1>1, <2>1, PageAt
    <3>2. QED  BY <1>2, <3>1, KernIs DEF Kern, Vas
  <2>2. QED  BY <1>2, <2>1
<1>12. ASSUME NEW pa PROVE Pte(pa, MmioPerm \cup {"P"}) # NoPte
  BY DEF Pte, NoPte
<1>13. Entry(m, M) # NoPte /\ Entry(m, M + 1) # NoPte /\ Entry(m, M + 2) # NoPte
  <2>1. Entry(u, M) # NoPte /\ Entry(u, M + 1) # NoPte
    <3>1. \A i \in 0..1 : Entry(u, M + i) = Pte(0 + i, MmioPerm \cup {"P"})
      BY <1>5, <1>7 DEF MmioMapped
    <3>2. M + 0 = M
      OBVIOUS
    <3>3. QED  BY <1>12, <3>1, <3>2
  <2>2. Entry(m, M) = Entry(u, M) /\ Entry(m, M + 1) = Entry(u, M + 1)
    BY <1>8, <1>9, <1>11 DEF MmioMapped
  <2>3. Entry(m, M + 2) # NoPte
    <3>1. \A i \in 0..0 : Entry(m, (M + 2) + i) = Pte(0 + i, MmioPerm \cup {"P"})
      BY <1>8, <1>9 DEF MmioMapped
    <3>2. (M + 2) + 0 = M + 2
      OBVIOUS
    <3>3. QED  BY <1>12, <3>1, <3>2
  <2>4. QED  BY <2>1, <2>2, <2>3
<1>14. \A vb \in Vas : vb # M /\ vb # M + 1 /\ vb # M + 2 => Entry(m, vb) = NoPte
  <2> SUFFICES ASSUME NEW vb \in Vas, vb # M, vb # M + 1, vb # M + 2 PROVE Entry(m, vb) = NoPte
    OBVIOUS
  <2>1. vb \in Nat
    BY DEF Vas
  <2>2. (vb < M \/ M + 2 <= vb) /\ (vb < M + 2 \/ M + 2 + 1 <= vb)
    BY <2>1
  <2>3. Entry(m, vb) = Entry(u, vb)
    BY <1>8, <1>9, <2>2 DEF MmioMapped
  <2>4. Entry(u, vb) = Entry(r, vb)
    BY <1>5, <1>7, <2>2 DEF MmioMapped
  <2>5. QED  BY <1>6, <2>3, <2>4
<1>15. NoPte \in PTE
  BY PteIs
<1>16. PICK x : x = set_pte(m, M, NoPte) /\ PteSet(n, m, M, NoPte, x)
  BY <1>10, <1>11, <1>13, <1>15, EntryTable, SetPte
<1>17. Entry(x, M + 1) # NoPte /\ Entry(x, M + 2) # NoPte /\ BootInv(n, x)
  BY <1>11, <1>13, <1>16 DEF PteSet
<1>18. PICK y : y = set_pte(x, M + 1, NoPte) /\ PteSet(n, x, M + 1, NoPte, y)
  <2>1. M + 1 \in Nat /\ x.dir[PDX(M + 1)] # NoPte
    BY <1>17, EntryTable
  <2>2. QED  BY <1>11, <1>15, <1>17, <2>1, SetPte
<1>19. Entry(y, M + 2) # NoPte /\ BootInv(n, y)
  BY <1>11, <1>17, <1>18 DEF PteSet
<1>20. PICK z : z = set_pte(y, M + 2, NoPte) /\ PteSet(n, y, M + 2, NoPte, z)
  <2>1. M + 2 \in Nat /\ y.dir[PDX(M + 2)] # NoPte
    BY <1>19, EntryTable
  <2>2. QED  BY <1>11, <1>15, <1>19, <2>1, SetPte
<1>21. z = check_page(s)
  <2>1. r = [s EXCEPT !.free = <<@[3], @[2], @[1]>> \o SubSeq(@, 4, Len(@))]
    BY <1>3, Zenon DEF Turned
  <2>2. QED  BY <1>1, <1>7, <1>9, <1>16, <1>18, <1>20, <2>1, Zenon DEF check_page
<1>22. BootInv(n, z) /\ Booted(n, b, k, z) /\ z.base = M + 3
  <2>1. Same(m, x) /\ Same(x, y) /\ Same(y, z)
    BY <1>16, <1>18, <1>20 DEF PteSet
  <2>2. Rest(m, z) /\ z.base = m.base
    BY <2>1 DEF Same, Rest
  <2>3. QED  BY <1>10, <1>20, <2>2, BootedRest DEF PteSet
<1>23. \A vb \in Vas : Entry(z, vb) = NoPte
  <2> TAKE vb \in Vas
  <2>1. CASE vb = M + 2
    BY <1>20, <2>1 DEF PteSet
  <2>2. CASE vb = M + 1 /\ vb # M + 2
    BY <1>18, <1>20, <2>2 DEF PteSet
  <2>3. CASE vb = M /\ vb # M + 1 /\ vb # M + 2
    BY <1>16, <1>18, <1>20, <2>3 DEF PteSet
  <2>4. CASE vb # M /\ vb # M + 1 /\ vb # M + 2
    BY <1>14, <1>16, <1>18, <1>20, <2>4 DEF PteSet
  <2>5. QED  BY <2>1, <2>2, <2>3, <2>4
<1>24. QED  BY <1>1, <1>21, <1>22, <1>23 DEF Blank

\* The loop of mem_init_mp.
StackTurns(f, s, m) ==
  f = [k \in 0..m |-> IF k = 0 THEN s ELSE map_kstack(f[k - 1], k - 1)]

LEMMA StackTurnsExist ==
  ASSUME NEW s, NEW n \in Nat
  PROVE  \E f : StackTurns(f, s, n)
<1> DEFINE T == {k \in Nat : ~\E f : StackTurns(f, s, k)}
<1> SUFFICES ASSUME T # {} PROVE FALSE
  OBVIOUS
<1>1. PICK k \in T : \A m \in T : k <= m
  <2>1. T \subseteq Nat
    OBVIOUS
  <2> HIDE DEF T
  <2>2. QED  BY <2>1, Least
<1>2. k \in Nat /\ ~\E f : StackTurns(f, s, k)
  OBVIOUS
<1>3. CASE k = 0
  <2>1. StackTurns([i \in 0..0 |-> s], s, 0)
    BY DEF StackTurns
  <2>2. QED  BY <1>2, <1>3, <2>1
<1>4. CASE k # 0
  <2>1. k - 1 \in Nat /\ k - 1 \notin T
    BY <1>1, <1>2, <1>4
  <2>2. PICK f : StackTurns(f, s, k - 1)
    BY <2>1
  <2>3. PICK last : last = map_kstack(f[k - 1], k - 1)
    OBVIOUS
  <2>4. PICK g : g = [i \in 0..k |-> IF i = k THEN last ELSE f[i]]
    OBVIOUS
  <2>5. \A i \in 0..k : g[i] = IF i = 0 THEN s ELSE map_kstack(g[i - 1], i - 1)
    <3> TAKE i \in 0..k
    <3>1. CASE i = 0
      <4>1. 0 \in 0..(k - 1) /\ f[0] = s
        BY <2>1, <2>2 DEF StackTurns
      <4>2. QED  BY <1>4, <2>4, <3>1, <4>1
    <3>2. CASE i # 0 /\ i # k
      <4>1. i \in 0..(k - 1) /\ i - 1 \in 0..k /\ i - 1 # k
        BY <3>2
      <4>2. g[i] = f[i] /\ g[i - 1] = f[i - 1]
        BY <2>4, <3>2, <4>1
      <4>3. f[i] = map_kstack(f[i - 1], i - 1)
        BY <2>2, <3>2, <4>1 DEF StackTurns
      <4>4. QED  BY <3>2, <4>2, <4>3
    <3>3. CASE i # 0 /\ i = k
      <4>1. g[k] = last /\ g[k - 1] = f[k - 1]
        BY <1>4, <2>1, <2>4
      <4>2. QED  BY <2>3, <3>3, <4>1
    <3>4. QED  BY <3>1, <3>2, <3>3
  <2>6. StackTurns(g, s, k)
    BY <2>4, <2>5 DEF StackTurns
  <2>7. QED  BY <1>2, <2>6
<1>5. QED  BY <1>3, <1>4

-----------------------------------------------------------------------------
\* The user may not write below ULIM, nor read above.
Shut(s) ==
  \A vb \in Vas : /\ vb < 5 * N => "W" \notin Entry(s, vb).perm
                  /\ vb >= 5 * N => "U" \notin Entry(s, vb).perm

\* Regions that keep to it.
Fitting(va, size, perm) == (perm = {"U"} /\ va + size <= 5 * N) \/ (perm = {"W"} /\ 5 * N <= va)

LEMMA ShutMapped ==
  ASSUME NEW n, NEW s, NEW va \in Nat, NEW size \in Nat, NEW pa \in Nat, NEW perm, NEW t,
         Shut(s), Mapped(n, s, va, size, pa, perm, t), Fitting(va, size, perm)
  PROVE  Shut(t)
<1> SUFFICES ASSUME NEW vb \in Vas
             PROVE  /\ vb < 5 * N => "W" \notin Entry(t, vb).perm
                    /\ vb >= 5 * N => "U" \notin Entry(t, vb).perm
  BY DEF Shut
<1>1. vb \in Nat /\ N \in Nat
  BY Sizes DEF Vas
<1>2. CASE vb < va \/ va + size <= vb
  <2>1. Entry(t, vb) = Entry(s, vb)
    BY <1>2 DEF Mapped
  <2>2. QED  BY <2>1 DEF Shut
<1>3. CASE ~(vb < va \/ va + size <= vb)
  <2>1. PICK i \in 0..(size - 1) : vb = va + i
    <3>1. vb - va \in 0..(size - 1) /\ vb = va + (vb - va)
      BY <1>1, <1>3
    <3>2. QED  BY <3>1
  <2>2. Entry(t, vb) = Pte(pa + i, perm \cup {"P"})
    BY <2>1 DEF Mapped
  <2>3. Entry(t, vb).perm = perm \cup {"P"}
    BY <2>2 DEF Pte
  <2>4. CASE perm = {"U"} /\ va + size <= 5 * N
    <3>1. vb < 5 * N
      BY <1>1, <1>3, <2>4
    <3>2. "W" \notin perm \cup {"P"}
      BY <2>4
    <3>3. QED  BY <1>1, <2>3, <3>1, <3>2
  <2>5. CASE perm = {"W"} /\ 5 * N <= va
    <3>1. ~(vb < 5 * N)
      BY <1>1, <1>3, <2>5
    <3>2. "U" \notin perm \cup {"P"}
      BY <2>5
    <3>3. QED  BY <1>1, <2>3, <3>1, <3>2
  <2>6. QED  BY <2>4, <2>5 DEF Fitting
<1>4. QED  BY <1>2, <1>3

\* The places of the kernel's page tables.
LEMMA InTable ==
  ASSUME NEW d \in Kern, NEW va \in Nat, d * N <= va, va < d * N + N
  PROVE  PDX(va) \in Kern /\ va \in Vas
<1>1. d \in Nat
  BY Sizes DEF Kern
<1>2. PDX(va) = d
  BY <1>1, PageAt
<1>3. QED  BY <1>2, KernIs DEF Vas

LEMMA InWindow ==
  ASSUME NEW va \in Nat, KERNBASE <= va, va < TOP
  PROVE  PDX(va) \in Kern /\ va \in Vas
<1>1. KERNBASE = 7 * N /\ TOP = (7 + NKERN) * N /\ NKERN \in Nat /\ N \in Nat \ {0}
  <2>1. (7 + NKERN) * N = 7 * N + NKERN * N
    BY Sizes
  <2>2. QED  BY <2>1, Places, Sizes
<1>2. va \div N < 7 + NKERN <=> va < (7 + NKERN) * N
  BY <1>1, DivLess
<1>3. va \div N < 7 <=> va < 7 * N
  BY <1>1, DivLess
<1>4. PICK d \in Nat : d = va \div N
  BY <1>1, DivDef
<1>5. 7 <= d /\ d < 7 + NKERN
  BY <1>1, <1>2, <1>3, <1>4
<1>6. PDX(va) = d
  BY <1>4 DEF PDX, N
<1>7. QED  BY <1>1, <1>5, <1>6, KernIs DEF Kern, Vas

\* The stack of processor c.
StackAt(c) == 7 * N - 4 * c - 2

LEMMA StackPlace ==
  ASSUME NEW c \in 0..(NCPU - 1)
  PROVE  /\ c \in Nat /\ StackAt(c) \in Nat /\ 6 * N + 2 <= StackAt(c) /\ StackAt(c) + 2 <= 7 * N
         /\ StackAt(c) = KSTACKTOP - c * (KSTKSIZE + KSTKGAP) - KSTKSIZE
         /\ StackAt(c) = KSTACKTOP - (KSTKSIZE + KSTKGAP) * (c + 1) + KSTKGAP
         /\ percpu_kstacks(c) = 10 + 2 * c
<1>1. c \in Nat /\ N \in Nat /\ NCPU \in Nat /\ 4 * NCPU <= N /\ KSTACKTOP = 7 * N
  BY Sizes, Places
<1>2. StackAt(c) \in Nat /\ 6 * N + 2 <= StackAt(c) /\ StackAt(c) + 2 <= 7 * N
  BY <1>1 DEF StackAt
<1>3. KSTKSIZE = 2 /\ KSTKGAP = 2 /\ EXTPHYSMEM = 8
  BY DEF KSTKSIZE, KSTKGAP, EXTPHYSMEM
<1>4. QED  BY <1>1, <1>2, <1>3 DEF StackAt, percpu_kstacks

\* The stacks of the first i processors are mapped; outside them the map is
\* that of s.
StacksUpTo(n, s, i, t) ==
  /\ BootInv(n, t) /\ Same(s, t) /\ Shut(t)
  /\ \A c \in 0..(i - 1), j \in 0..1 : Entry(t, StackAt(c) + j) = Pte(percpu_kstacks(c) + j, {"W"} \cup {"P"})
  /\ \A vb \in Vas : (\A c \in 0..(i - 1) : vb < StackAt(c) \/ StackAt(c) + 2 <= vb) => Entry(t, vb) = Entry(s, vb)

LEMMA StackNext ==
  ASSUME NEW n \in Nat, NEW s, NEW i \in 0..(NCPU - 1), NEW t, StacksUpTo(n, s, i, t)
  PROVE  StacksUpTo(n, s, i + 1, map_kstack(t, i))
<1>1. i \in Nat /\ N \in Nat /\ NCPU \in Nat /\ 6 \in Kern
  BY Sizes DEF Kern
<1>2. PICK v \in Nat : v = StackAt(i) /\ 6 * N <= v /\ v + 2 <= 7 * N
                       /\ v = KSTACKTOP - i * (KSTKSIZE + KSTKGAP) - KSTKSIZE
  BY <1>1, StackPlace
<1>3. PICK p \in Nat : p = percpu_kstacks(i)
  BY <1>1, StackPlace
<1>4. PICK u : u = map_kstack(t, i) /\ u = boot_map_region(t, v, 2, p, {"W"})
  BY <1>2, <1>3 DEF map_kstack, KSTKSIZE
<1>5. \A j \in 0..(2 - 1) : PDX(v + j) \in Kern
  <2> TAKE j \in 0..(2 - 1)
  <2>1. PICK w \in Nat : w = v + j /\ 6 * N <= w /\ w < 6 * N + N
    BY <1>1, <1>2
  <2>2. QED  BY <1>1, <2>1, InTable
<1>6. Mapped(n, t, v, 2, p, {"W"}, u)
  <2>1. {"W"} \in SUBSET Perms /\ BootInv(n, t)
    BY DEF Perms, StacksUpTo
  <2>2. QED  BY <1>4, <1>5, <2>1, RegionMapped
<1>7. BootInv(n, u) /\ Same(s, u)
  BY <1>6 DEF Mapped, StacksUpTo, Same, Rest
<1>8. Shut(u)
  <2>1. Fitting(v, 2, {"W"}) /\ Shut(t)
    BY <1>1, <1>2 DEF Fitting, StacksUpTo
  <2>2. QED  BY <1>6, <2>1, ShutMapped
<1>9. ASSUME NEW c \in 0..((i + 1) - 1), NEW j \in 0..1
      PROVE  Entry(u, StackAt(c) + j) = Pte(percpu_kstacks(c) + j, {"W"} \cup {"P"})
  <2>1. CASE c = i
    <3>1. j \in 0..(2 - 1)
      OBVIOUS
    <3>2. QED  BY <1>2, <1>3, <1>6, <2>1, <3>1 DEF Mapped
  <2>2. CASE c # i
    <3>1. c \in 0..(i - 1) /\ c \in 0..(NCPU - 1)
      BY <1>1, <2>2
    <3>2. PICK w \in Nat : w = StackAt(c) + j /\ 6 * N <= w /\ w < 6 * N + N
      BY <1>1, <3>1, StackPlace
    <3>3. w \in Vas
      BY <1>1, <3>2, InTable
    <3>4. v + 2 <= w
      BY <1>1, <1>2, <3>1, <3>2 DEF StackAt
    <3>5. Entry(u, w) = Entry(t, w)
      BY <1>6, <3>3, <3>4 DEF Mapped
    <3>6. QED  BY <3>1, <3>2, <3>5 DEF StacksUpTo
  <2>3. QED  BY <2>1, <2>2
<1>10. ASSUME NEW vb \in Vas, \A c \in 0..((i + 1) - 1) : vb < StackAt(c) \/ StackAt(c) + 2 <= vb
       PROVE  Entry(u, vb) = Entry(s, vb)
  <2>1. vb < v \/ v + 2 <= vb
    <3>1. i \in 0..((i + 1) - 1)
      BY <1>1
    <3>2. QED  BY <1>2, <1>10, <3>1
  <2>2. \A c \in 0..(i - 1) : vb < StackAt(c) \/ StackAt(c) + 2 <= vb
    BY <1>1, <1>10
  <2>3. Entry(u, vb) = Entry(t, vb)
    BY <1>6, <2>1 DEF Mapped
  <2>4. QED  BY <2>2, <2>3 DEF StacksUpTo
<1>11. QED  BY <1>4, <1>7, <1>8, <1>9, <1>10 DEF StacksUpTo

LEMMA StacksMapped ==
  ASSUME NEW n \in Nat, NEW s, BootInv(n, s), Shut(s)
  PROVE  StacksUpTo(n, s, NCPU, mem_init_mp(s))
<1> DEFINE f == CHOOSE g : g = [i \in 0..NCPU |-> IF i = 0 THEN s ELSE map_kstack(g[i - 1], i - 1)]
<1>1. mem_init_mp(s) = f[NCPU]
  BY Zenon DEF mem_init_mp
<1>2. StackTurns(f, s, NCPU)
  <2>1. \E g : StackTurns(g, s, NCPU)
    BY Sizes, StackTurnsExist
  <2>2. QED  BY <2>1, Zenon DEF StackTurns
<1> HIDE DEF f
<1> PICK m \in Nat : m = NCPU
  BY Sizes
<1> DEFINE T == {i \in 0..m : ~StacksUpTo(n, s, i, f[i])}
<1>3. T = {}
  <2> SUFFICES ASSUME T # {} PROVE FALSE
    OBVIOUS
  <2>1. PICK i \in T : \A j \in T : i <= j
    <3>1. T \subseteq Nat
      OBVIOUS
    <3> HIDE DEF T
    <3>2. QED  BY <3>1, Least
  <2>2. i \in 0..m /\ i \in Nat /\ ~StacksUpTo(n, s, i, f[i])
    OBVIOUS
  <2>3. CASE i = 0
    <3>1. f[0] = s
      BY <1>2 DEF StackTurns
    <3>2. StacksUpTo(n, s, 0, s)
      BY DEF StacksUpTo, Same, Rest
    <3>3. QED  BY <2>2, <2>3, <3>1, <3>2
  <2>4. CASE i # 0
    <3>1. i - 1 \in 0..m /\ i - 1 \notin T
      BY <2>1, <2>2, <2>4
    <3> PICK j \in Nat : j = i - 1 /\ StacksUpTo(n, s, j, f[j]) /\ j \in 0..(m - 1)
      BY <2>2, <2>4, <3>1
    <3> HIDE DEF T
    <3>2. f[i] = map_kstack(f[j], j)
      BY <1>2, <2>2, <2>4 DEF StackTurns
    <3>3. StacksUpTo(n, s, j + 1, f[i])
      BY <3>2, StackNext
    <3>4. QED  BY <2>2, <3>3
  <2>5. QED  BY <2>3, <2>4
<1>4. QED  BY <1>1, <1>3

\* The map that mem_init builds, entry by entry.
Built(n, b, k, s) ==
  /\ BootInv(n, s) /\ Booted(n, b, k, s) /\ s.base = MMIOBASE + 3 /\ Shut(s)
  /\ \A i \in 0..(Pages(n) - 1) : Entry(s, UPAGES + i) = Pte(k + 1 + i, {"U"} \cup {"P"})
  /\ Entry(s, UENVS) = Pte(k + 1 + Pages(n), {"U"} \cup {"P"})
  /\ \A i \in 0..(TOP - KERNBASE - 1) : Entry(s, KERNBASE + i) = Pte(i, {"W"} \cup {"P"})
  /\ \A c \in 0..(NCPU - 1), j \in 0..1 : Entry(s, StackAt(c) + j) = Pte(percpu_kstacks(c) + j, {"W"} \cup {"P"})
  /\ \A vb \in Vas : /\ 6 * N <= vb /\ vb < 7 * N
                     /\ \A c \in 0..(NCPU - 1) : vb < StackAt(c) \/ StackAt(c) + 2 <= vb
                     => Entry(s, vb) = NoPte

LEMMA MapBuilt ==
  ASSUME NEW n, NEW b, NEW k, NEW s, Machine(n, b, k), Blank(n, b, k, s)
  PROVE  Built(n, b, k, mem_init_mp(map_kernbase(map_bootstack(map_uenvs(map_upages(s))))))
<1>1. PICK m \in Nat : m = Pages(n) /\ m < N
  BY RoundUpAll, Sizes DEF Machine
<1>2. n \in Nat /\ k \in Nat /\ N \in Nat /\ NKERN \in Nat /\ N >= 4
  BY Sizes DEF Machine
<1>3. /\ UPAGES = 3 * N /\ UENVS = 2 * N /\ KSTACKTOP = 7 * N /\ KERNBASE = 7 * N
      /\ TOP \in Nat /\ TOP - KERNBASE \in Nat
  BY Places, Sizes
<1>4. {"U"} \in SUBSET Perms /\ {"W"} \in SUBSET Perms
  BY DEF Perms
<1>5. 2 \in Kern /\ 3 \in Kern /\ 6 \in Kern
  BY <1>2 DEF Kern
<1>6. BootInv(n, s) /\ Booted(n, b, k, s) /\ s.base = MMIOBASE + 3
  BY DEF Blank
<1>7. Shut(s)
  BY PteIs DEF Blank, Shut
<1>8. ROUNDUP(n, PGSIZE) \div PGSIZE = m /\ ROUNDUP(ENVBYTES, PGSIZE) \div PGSIZE = 1
  BY <1>1, <1>2, RoundUpAll, PageCounts
<1>9. PICK s1 : s1 = map_upages(s) /\ Mapped(n, s, 3 * N, m, k + 1, {"U"}, s1)
  <2>1. map_upages(s) = boot_map_region(s, 3 * N, m, k + 1, {"U"})
    BY <1>3, <1>6, <1>8 DEF map_upages, Booted
  <2>2. \A i \in 0..(m - 1) : PDX(3 * N + i) \in Kern
    <3> TAKE i \in 0..(m - 1)
    <3>1. PICK v \in Nat : v = 3 * N + i /\ 3 * N <= v /\ v < 3 * N + N
      BY <1>1, <1>2
    <3>2. QED  BY <1>5, <3>1, InTable
  <2>3. 3 * N \in Nat /\ k + 1 \in Nat
    BY <1>2
  <2>4. QED  BY <1>2, <1>4, <1>6, <2>1, <2>2, <2>3, RegionMapped
<1>10. BootInv(n, s1) /\ Booted(n, b, k, s1) /\ s1.base = MMIOBASE + 3
  BY <1>6, <1>9, BootedRest DEF Mapped, Same
<1>11. PICK s2 : s2 = map_uenvs(s1) /\ Mapped(n, s1, 2 * N, 1, k + 1 + m, {"U"}, s2)
  <2>1. map_uenvs(s1) = boot_map_region(s1, 2 * N, 1, k + 1 + m, {"U"})
    BY <1>1, <1>3, <1>8, <1>10 DEF map_uenvs, Booted
  <2>2. \A i \in 0..(1 - 1) : PDX(2 * N + i) \in Kern
    <3> TAKE i \in 0..(1 - 1)
    <3>1. PICK v \in Nat : v = 2 * N + i /\ 2 * N <= v /\ v < 2 * N + N
      BY <1>2
    <3>2. QED  BY <1>5, <3>1, InTable
  <2>3. 2 * N \in Nat /\ k + 1 + m \in Nat
    BY <1>2
  <2>4. QED  BY <1>2, <1>4, <1>10, <2>1, <2>2, <2>3, RegionMapped
<1>12. BootInv(n, s2) /\ Booted(n, b, k, s2) /\ s2.base = MMIOBASE + 3
  BY <1>10, <1>11, BootedRest DEF Mapped, Same
<1>13. PICK s3 : s3 = map_bootstack(s2) /\ Mapped(n, s2, 7 * N - 2, 2, 8, {"W"}, s3)
  <2>1. map_bootstack(s2) = boot_map_region(s2, 7 * N - 2, 2, 8, {"W"})
    BY <1>3 DEF map_bootstack, KSTKSIZE, bootstack, EXTPHYSMEM
  <2>2. \A i \in 0..(2 - 1) : PDX((7 * N - 2) + i) \in Kern
    <3> TAKE i \in 0..(2 - 1)
    <3>1. PICK v \in Nat : v = (7 * N - 2) + i /\ 6 * N <= v /\ v < 6 * N + N
      BY <1>2
    <3>2. QED  BY <1>5, <3>1, InTable
  <2>3. 7 * N - 2 \in Nat
    BY <1>2
  <2>4. QED  BY <1>2, <1>4, <1>12, <2>1, <2>2, <2>3, RegionMapped
<1>14. BootInv(n, s3) /\ Booted(n, b, k, s3) /\ s3.base = MMIOBASE + 3
  BY <1>12, <1>13, BootedRest DEF Mapped, Same
<1>15. PICK w \in Nat : w = TOP - KERNBASE
  BY <1>3
<1>16. PICK s4 : s4 = map_kernbase(s3) /\ Mapped(n, s3, 7 * N, w, 0, {"W"}, s4)
  <2>1. map_kernbase(s3) = boot_map_region(s3, 7 * N, w, 0, {"W"})
    BY <1>3, <1>15 DEF map_kernbase
  <2>2. \A i \in 0..(w - 1) : PDX(7 * N + i) \in Kern
    <3> TAKE i \in 0..(w - 1)
    <3>1. PICK v \in Nat : v = 7 * N + i /\ KERNBASE <= v /\ v < TOP
      BY <1>2, <1>3, <1>15
    <3>2. QED  BY <3>1, InWindow
  <2>3. 7 * N \in Nat
    BY <1>2
  <2>4. QED  BY <1>2, <1>4, <1>14, <2>1, <2>2, <2>3, RegionMapped
<1>17. BootInv(n, s4) /\ Booted(n, b, k, s4) /\ s4.base = MMIOBASE + 3
  BY <1>14, <1>16, BootedRest DEF Mapped, Same
<1>18. Shut(s4)
  <2>1. /\ Fitting(3 * N, m, {"U"}) /\ Fitting(2 * N, 1, {"U"})
        /\ Fitting(7 * N - 2, 2, {"W"}) /\ Fitting(7 * N, w, {"W"})
    BY <1>1, <1>2 DEF Fitting
  <2>2. 3 * N \in Nat /\ 2 * N \in Nat /\ 7 * N - 2 \in Nat /\ 7 * N \in Nat /\ k + 1 \in Nat /\ k + 1 + m \in Nat
    BY <1>1, <1>2
  <2>3. Shut(s1)
    BY <1>7, <1>9, <2>1, <2>2, ShutMapped
  <2>4. Shut(s2)
    BY <1>11, <2>1, <2>2, <2>3, ShutMapped
  <2>5. Shut(s3)
    BY <1>13, <2>1, <2>2, <2>4, ShutMapped
  <2>6. QED  BY <1>15, <1>16, <2>1, <2>2, <2>5, ShutMapped
<1>19. PICK t : t = mem_init_mp(s4) /\ StacksUpTo(n, s4, NCPU, t)
  BY <1>2, <1>17, <1>18, StacksMapped
<1>20. BootInv(n, t) /\ Booted(n, b, k, t) /\ t.base = MMIOBASE + 3 /\ Shut(t)
  BY <1>17, <1>19, BootedRest DEF StacksUpTo, Same
\* Each region is outside those that are mapped after it.
<1>21. ASSUME NEW vb \in Vas, vb < 6 * N \/ 7 * N <= vb PROVE Entry(t, vb) = Entry(s4, vb)
  <2>1. \A c \in 0..(NCPU - 1) : vb < StackAt(c) \/ StackAt(c) + 2 <= vb
    BY <1>2, <1>21, StackPlace DEF Vas
  <2>2. QED  BY <1>19, <2>1 DEF StacksUpTo
<1>22. ASSUME NEW vb \in Vas, vb < 7 * N - 2 PROVE Entry(s4, vb) = Entry(s2, vb)
  <2>1. vb \in Nat /\ vb < 7 * N
    BY <1>2, <1>22 DEF Vas
  <2>2. QED  BY <1>13, <1>16, <1>22, <2>1 DEF Mapped
<1>23. ASSUME NEW i \in 0..(m - 1) PROVE Entry(t, UPAGES + i) = Pte(k + 1 + i, {"U"} \cup {"P"})
  <2>1. PICK v \in Nat : v = UPAGES + i /\ 3 * N <= v /\ v < 3 * N + N /\ v = 3 * N + i
    BY <1>1, <1>2, <1>3
  <2>2. v \in Vas
    BY <1>5, <2>1, InTable
  <2>3. v < 6 * N /\ v < 7 * N - 2 /\ 2 * N + 1 <= v
    BY <1>2, <2>1
  <2>4. Entry(t, v) = Entry(s2, v)
    BY <1>21, <1>22, <2>2, <2>3
  <2>5. Entry(s2, v) = Entry(s1, v)
    BY <1>11, <2>2, <2>3 DEF Mapped
  <2>6. Entry(s1, v) = Pte(k + 1 + i, {"U"} \cup {"P"})
    BY <1>9, <2>1 DEF Mapped
  <2>7. QED  BY <2>1, <2>4, <2>5, <2>6
<1>24. Entry(t, UENVS) = Pte(k + 1 + m, {"U"} \cup {"P"})
  <2>1. PICK v \in Nat : v = UENVS /\ v = 2 * N
    BY <1>2, <1>3
  <2>2. v \in Vas
    <3>1. 2 * N <= v /\ v < 2 * N + N
      BY <1>2, <2>1
    <3>2. QED  BY <1>5, <3>1, InTable
  <2>3. v < 6 * N /\ v < 7 * N - 2
    BY <1>2, <2>1
  <2>4. Entry(t, v) = Entry(s2, v)
    BY <1>21, <1>22, <2>2, <2>3
  <2>5. Entry(s2, v + 0) = Pte(k + 1 + m + 0, {"U"} \cup {"P"})
    BY <1>11, <2>1 DEF Mapped
  <2>6. v + 0 = v /\ k + 1 + m + 0 = k + 1 + m
    BY <1>2
  <2>7. QED  BY <2>1, <2>4, <2>5, <2>6
<1>25. ASSUME NEW i \in 0..(w - 1) PROVE Entry(t, KERNBASE + i) = Pte(i, {"W"} \cup {"P"})
  <2>1. PICK v \in Nat : v = KERNBASE + i /\ v = 7 * N + i /\ KERNBASE <= v /\ v < TOP /\ 7 * N <= v
    BY <1>2, <1>3, <1>15
  <2>2. v \in Vas
    BY <2>1, InWindow
  <2>3. Entry(t, v) = Entry(s4, v)
    BY <1>21, <2>1, <2>2
  <2>4. Entry(s4, v) = Pte(0 + i, {"W"} \cup {"P"})
    BY <1>16, <2>1 DEF Mapped
  <2>5. 0 + i = i
    OBVIOUS
  <2>6. QED  BY <2>1, <2>3, <2>4, <2>5
<1>26. \A c \in 0..(NCPU - 1), j \in 0..1 : Entry(t, StackAt(c) + j) = Pte(percpu_kstacks(c) + j, {"W"} \cup {"P"})
  BY <1>19 DEF StacksUpTo
<1>27. ASSUME NEW vb \in Vas, 6 * N <= vb, vb < 7 * N,
              \A c \in 0..(NCPU - 1) : vb < StackAt(c) \/ StackAt(c) + 2 <= vb
       PROVE  Entry(t, vb) = NoPte
  <2>1. vb \in Nat /\ Entry(t, vb) = Entry(s4, vb)
    BY <1>19, <1>27 DEF StacksUpTo, Vas
  <2>2. vb < 7 * N - 2
    <3>1. 0 \in 0..(NCPU - 1) /\ StackAt(0) = 7 * N - 2
      BY <1>2, Sizes DEF StackAt
    <3>2. QED  BY <1>2, <1>27, <2>1, <3>1
  <2>3. 2 * N + 1 <= vb /\ 3 * N + m <= vb
    BY <1>1, <1>2, <1>27, <2>1
  <2>4. Entry(s4, vb) = Entry(s2, vb)
    BY <1>22, <2>2
  <2>5. Entry(s2, vb) = Entry(s1, vb)
    BY <1>11, <2>3 DEF Mapped
  <2>6. Entry(s1, vb) = Entry(s, vb)
    BY <1>9, <2>3 DEF Mapped
  <2>7. QED  BY <2>1, <2>4, <2>5, <2>6 DEF Blank
<1>28. Built(n, b, k, t)
  <2>1. \A i \in 0..(Pages(n) - 1) : Entry(t, UPAGES + i) = Pte(k + 1 + i, {"U"} \cup {"P"})
    BY <1>1, <1>23
  <2>2. Entry(t, UENVS) = Pte(k + 1 + Pages(n), {"U"} \cup {"P"})
    BY <1>1, <1>24
  <2>3. \A i \in 0..(TOP - KERNBASE - 1) : Entry(t, KERNBASE + i) = Pte(i, {"W"} \cup {"P"})
    BY <1>15, <1>25
  <2>4. QED  BY <1>20, <1>26, <1>27, <2>1, <2>2, <2>3, Zenon DEF Built
<1>29. QED  BY <1>9, <1>11, <1>13, <1>16, <1>19, <1>28

-----------------------------------------------------------------------------
\* The processor sees the entries, since the directory allows all they allow.
LEMMA EntryType ==
  ASSUME NEW n \in Nat, NEW s, NEW va \in Vas, BootInv(n, s)
  PROVE  Entry(s, va) \in PTE
<1>1. PDX(va) \in Dirs \ {4} /\ PTX(va) \in 0..(N - 1)
  BY PageParts DEF Vas
<1>2. CASE s.dir[PDX(va)] = NoPte
  BY <1>2, PteIs DEF Entry
<1>3. CASE s.dir[PDX(va)] # NoPte
  <2>1. s.dir[PDX(va)].pa \in Frames(n)
    BY <1>1, <1>3 DEF BootInv, DirInv, TableAt
  <2>2. s.tab \in [Frames(n) -> [0..(N - 1) -> PTE]]
    BY DEF BootInv, BootStates
  <2>3. s.tab[s.dir[PDX(va)].pa][PTX(va)] \in PTE
    BY <1>1, <2>1, <2>2
  <2>4. QED  BY <1>3, <2>3 DEF Entry
<1>4. QED  BY <1>2, <1>3

LEMMA Translated ==
  ASSUME NEW n \in Nat, NEW s, NEW va \in Vas, BootInv(n, s)
  PROVE  translate(s, va) = IF "P" \in Entry(s, va).perm THEN Entry(s, va) ELSE NoPte
<1>1. PDX(va) \in Dirs \ {4} /\ PTX(va) \in 0..(N - 1)
  BY PageParts DEF Vas
<1>2. PICK d : d = s.dir[PDX(va)]
  OBVIOUS
<1>3. CASE d = NoPte
  <2>1. "P" \notin d.perm /\ Entry(s, va) = NoPte
    BY <1>2, <1>3, PteIs DEF Entry
  <2>2. translate(s, va) = NoPte
    BY <1>2, <2>1 DEF translate
  <2>3. QED  BY <2>1, <2>2, PteIs
<1>4. CASE d # NoPte
  <2>1. TableAt(n, s, PDX(va))
    BY <1>1, <1>2, <1>4 DEF BootInv, DirInv
  <2>2. d.perm = {"P", "W", "U"} /\ d.pa \in Frames(n) /\ d.pa # s.kern_pgdir
    BY <1>2, <2>1 DEF TableAt, BootInv, DataInv
  <2>3. PICK e \in PTE : e = Entry(s, va)
    BY EntryType
  <2>4. e = s.tab[d.pa][PTX(va)]
    BY <1>2, <1>4, <2>3 DEF Entry
  <2>5. PTX(va) \in DOMAIN s.tab[d.pa]
    <3>1. s.tab[d.pa] \in [0..(N - 1) -> PTE]
      <4>1. PICK T \in [Frames(n) -> [0..(N - 1) -> PTE]] : T = s.tab
        BY DEF BootInv, BootStates
      <4>2. PICK a \in Frames(n) : a = d.pa
        BY <2>2
      <4>3. T[a] \in [0..(N - 1) -> PTE]
        BY ZenonT(60)
      <4>4. QED  BY <4>1, <4>2, <4>3, Zenon
    <3>2. QED  BY <1>1, <3>1
  <2>6. translate(s, va) = IF "P" \in d.perm /\ "P" \in e.perm
                           THEN Pte(e.pa, e.perm \ ({"W", "U"} \ d.perm)) ELSE NoPte
    BY <1>2, <2>2, <2>4, <2>5 DEF translate
  <2>7. e.perm \ ({"W", "U"} \ d.perm) = e.perm
    BY <2>2
  <2>8. Pte(e.pa, e.perm) = e
    BY <2>3 DEF Pte, PTE
  <2>9. "P" \in d.perm
    BY <2>2
  <2>10. QED  BY <2>3, <2>6, <2>7, <2>8, <2>9
<1>5. QED  BY <1>3, <1>4

\* The window at UVPT shows the page tables and does not let them be written.
LEMMA UvptSeen ==
  ASSUME NEW n \in Nat, NEW s, NEW va \in Nat, BootInv(n, s), PDX(va) = 4
  PROVE  "W" \notin translate(s, va).perm
<1>1. s.dir[4] = Pte(s.kern_pgdir, {"P", "U"})
  BY DEF BootInv, DirInv
<1>2. s.dir[4].perm = {"P", "U"} /\ s.dir[4].pa = s.kern_pgdir
  BY <1>1 DEF Pte
<1>3. PICK e : e = IF PTX(va) \in DOMAIN s.dir THEN s.dir[PTX(va)] ELSE NoPte
  OBVIOUS
<1>4. translate(s, va) = IF "P" \in s.dir[4].perm /\ "P" \in e.perm
                         THEN Pte(e.pa, e.perm \ ({"W", "U"} \ s.dir[4].perm)) ELSE NoPte
  BY <1>2, <1>3 DEF translate
<1>5. "W" \notin e.perm \ ({"W", "U"} \ s.dir[4].perm)
  BY <1>2
<1>6. "W" \notin Pte(e.pa, e.perm \ ({"W", "U"} \ s.dir[4].perm)).perm
  BY <1>5 DEF Pte
<1>7. "W" \notin NoPte.perm
  BY PteIs
<1>8. QED  BY <1>4, <1>6, <1>7

LEMMA MapsSeen ==
  ASSUME NEW n \in Nat, NEW s, NEW va \in Nat, NEW size \in Nat, NEW pa \in Nat, NEW perm, NEW want, BootInv(n, s),
         \A i \in 0..(size - 1) : va + i \in Vas /\ Entry(s, va + i) = Pte(pa + i, perm),
         "P" \in perm, want \subseteq perm
  PROVE  maps(s, va, size, pa, want)
<1> SUFFICES ASSUME NEW i \in 0..(size - 1)
             PROVE  translate(s, va + i).pa = pa + i /\ want \subseteq translate(s, va + i).perm
  BY Zenon DEF maps
<1>1. PICK v \in Vas : v = va + i /\ Entry(s, v) = Pte(pa + i, perm)
  OBVIOUS
<1>2. Entry(s, v).pa = pa + i /\ Entry(s, v).perm = perm
  BY <1>1 DEF Pte
<1>3. translate(s, v) = Entry(s, v)
  BY <1>2, Translated
<1>4. QED  BY <1>1, <1>2, <1>3

LEMMA WindowsSeen ==
  ASSUME NEW n, NEW b, NEW k, NEW s, Machine(n, b, k), Built(n, b, k, s)
  PROVE  WindowsRight(s)
<1>1. PICK m \in Nat : m = Pages(n) /\ m < N
  BY RoundUpAll, Sizes DEF Machine
<1>2. n \in Nat /\ k \in Nat /\ N \in Nat \ {0} /\ NKERN \in Nat /\ NCPU \in Nat
  BY Sizes DEF Machine
<1>3. /\ UTOP = 2 * N /\ UPAGES = 3 * N /\ UENVS = 2 * N /\ KSTACKTOP = 7 * N /\ KERNBASE = 7 * N
      /\ TOP \in Nat /\ TOP - KERNBASE \in Nat
  BY Places, Sizes
<1>4. BootInv(n, s) /\ s.npages = n /\ s.pages = k + 1 /\ s.envs = k + 1 + m
  BY <1>1 DEF Built, Booted
<1>5. 2 \in Kern /\ 3 \in Kern /\ 6 \in Kern
  BY <1>2 DEF Kern
<1>6. maps(s, UPAGES, ROUNDUP(s.npages, PGSIZE) \div PGSIZE, s.pages, {"P", "U"})
  <2>1. ROUNDUP(s.npages, PGSIZE) \div PGSIZE = m
    BY <1>1, <1>2, <1>4, RoundUpAll
  <2>2. \A i \in 0..(m - 1) : UPAGES + i \in Vas /\ Entry(s, UPAGES + i) = Pte(k + 1 + i, {"U"} \cup {"P"})
    <3> TAKE i \in 0..(m - 1)
    <3>1. PICK v \in Nat : v = UPAGES + i /\ 3 * N <= v /\ v < 3 * N + N
      BY <1>1, <1>2, <1>3
    <3>2. v \in Vas
      BY <1>5, <3>1, InTable
    <3>3. QED  BY <1>1, <3>1, <3>2 DEF Built
  <2>3. UPAGES \in Nat /\ k + 1 \in Nat /\ "P" \in {"U"} \cup {"P"} /\ {"P", "U"} \subseteq {"U"} \cup {"P"}
    BY <1>2, <1>3
  <2>4. maps(s, UPAGES, m, k + 1, {"P", "U"})
    BY <1>2, <1>4, <2>2, <2>3, MapsSeen
  <2>5. QED  BY <1>4, <2>1, <2>4
<1>7. maps(s, UENVS, 1, s.envs, {"P", "U"})
  <2>1. UENVS \in Nat /\ k + 1 + m \in Nat /\ "P" \in {"U"} \cup {"P"} /\ {"P", "U"} \subseteq {"U"} \cup {"P"}
    BY <1>2, <1>3
  <2>2. \A i \in 0..(1 - 1) : UENVS + i \in Vas /\ Entry(s, UENVS + i) = Pte((k + 1 + m) + i, {"U"} \cup {"P"})
    <3> TAKE i \in 0..(1 - 1)
    <3>1. PICK v \in Nat : v = UENVS + i /\ 2 * N <= v /\ v < 2 * N + N /\ v = UENVS
      BY <1>2, <1>3
    <3>2. v \in Vas
      BY <1>5, <3>1, InTable
    <3>3. (k + 1 + m) + i = k + 1 + m
      BY <1>2
    <3>4. QED  BY <1>1, <3>1, <3>2, <3>3 DEF Built
  <2>3. maps(s, UENVS, 1, k + 1 + m, {"P", "U"})
    BY <1>2, <1>4, <2>1, <2>2, MapsSeen
  <2>4. QED  BY <1>4, <2>3
<1>8. maps(s, KERNBASE, TOP - KERNBASE, 0, {"P", "W"})
  <2>1. PICK w \in Nat : w = TOP - KERNBASE
    BY <1>3
  <2>2. \A i \in 0..(w - 1) : KERNBASE + i \in Vas /\ Entry(s, KERNBASE + i) = Pte(0 + i, {"W"} \cup {"P"})
    <3> TAKE i \in 0..(w - 1)
    <3>1. PICK v \in Nat : v = KERNBASE + i /\ KERNBASE <= v /\ v < TOP
      BY <1>2, <1>3, <2>1
    <3>2. v \in Vas
      BY <3>1, InWindow
    <3>3. 0 + i = i
      OBVIOUS
    <3>4. QED  BY <2>1, <3>1, <3>2, <3>3 DEF Built
  <2>3. KERNBASE \in Nat /\ "P" \in {"W"} \cup {"P"} /\ {"P", "W"} \subseteq {"W"} \cup {"P"}
    BY <1>2, <1>3
  <2>4. maps(s, KERNBASE, w, 0, {"P", "W"})
    BY <1>2, <1>4, <2>2, <2>3, MapsSeen
  <2>5. QED  BY <2>1, <2>4
<1>9. ASSUME NEW c \in 0..(NCPU - 1)
      PROVE  LET base == KSTACKTOP - (KSTKSIZE + KSTKGAP) * (c + 1)
             IN /\ maps(s, base + KSTKGAP, KSTKSIZE, percpu_kstacks(c), {"P", "W"})
                /\ \A i \in 0..(KSTKGAP - 1) : translate(s, base + i) = NoPte
  <2>1. PICK at \in Nat : at = StackAt(c) /\ 6 * N + 2 <= at /\ at + 2 <= 7 * N
    BY StackPlace
  <2>2. PICK base \in Nat : base = KSTACKTOP - (KSTKSIZE + KSTKGAP) * (c + 1) /\ at = base + KSTKGAP /\ at = base + 2
    <3>1. KSTKSIZE = 2 /\ KSTKGAP = 2 /\ c \in Nat
      BY DEF KSTKSIZE, KSTKGAP
    <3>2. at = 7 * N - 4 * c - 2
      BY <2>1 DEF StackAt
    <3>3. 7 * N - 4 * (c + 1) \in Nat
      BY <1>2, <2>1, <3>1, <3>2
    <3>4. QED  BY <1>2, <1>3, <3>1, <3>2, <3>3
  <2>3. maps(s, at, 2, percpu_kstacks(c), {"P", "W"})
    <3>1. \A i \in 0..(2 - 1) : at + i \in Vas /\ Entry(s, at + i) = Pte(percpu_kstacks(c) + i, {"W"} \cup {"P"})
      <4> TAKE i \in 0..(2 - 1)
      <4>1. PICK v \in Nat : v = at + i /\ 6 * N <= v /\ v < 6 * N + N
        BY <1>2, <2>1
      <4>2. v \in Vas /\ i \in 0..1
        BY <1>5, <4>1, InTable
      <4>3. QED  BY <2>1, <4>1, <4>2 DEF Built
    <3>2. percpu_kstacks(c) \in Nat
      BY StackPlace
    <3>3. "P" \in {"W"} \cup {"P"} /\ {"P", "W"} \subseteq {"W"} \cup {"P"}
      OBVIOUS
    <3>4. QED  BY <1>2, <1>4, <3>1, <3>2, <3>3, MapsSeen
  <2>4. ASSUME NEW i \in 0..(KSTKGAP - 1) PROVE translate(s, base + i) = NoPte
    <3>1. PICK v \in Nat : v = base + i /\ v + 2 = at + i /\ i \in 0..1
      BY <2>2 DEF KSTKGAP
    <3>2. 6 * N <= v /\ v < 6 * N + N
      BY <1>2, <2>1, <3>1
    <3>3. v \in Vas
      BY <1>5, <3>2, InTable
    <3>4. \A e \in 0..(NCPU - 1) : v < StackAt(e) \/ StackAt(e) + 2 <= v
      <4> TAKE e \in 0..(NCPU - 1)
      <4>1. e \in Int /\ c \in Int /\ StackAt(e) = 7 * N - 4 * e - 2 /\ v + 2 = (7 * N - 4 * c - 2) + i
        BY <2>1, <3>1 DEF StackAt
      <4>2. CASE e <= c
        BY <1>2, <3>1, <4>1, <4>2
      <4>3. CASE ~(e <= c)
        BY <1>2, <3>1, <4>1, <4>3
      <4>4. QED  BY <4>2, <4>3
    <3>5. Entry(s, v) = NoPte
      <4>1. v < 7 * N
        BY <1>2, <3>2
      <4>2. QED  BY <3>2, <3>3, <3>4, <4>1 DEF Built
    <3>6. QED  BY <1>2, <1>4, <3>1, <3>3, <3>5, Translated, PteIs
  <2>5. QED  BY <2>1, <2>2, <2>3, <2>4 DEF KSTKSIZE
<1>10. ASSUME NEW i \in 0..(UTOP - 1) PROVE translate(s, i) = NoPte
  <2>1. i \in Nat /\ i < 2 * N
    BY <1>2, <1>3
  <2>2. PICK d \in Nat : d = PDX(i) /\ d < 2
    <3>1. i \div N < 2 <=> i < 2 * N
      BY <1>2, <2>1, DivLess
    <3>2. i \div N \in Nat
      BY <1>2, <2>1, DivDef
    <3>3. QED  BY <2>1, <3>1, <3>2 DEF PDX, N
  <2>3. d \in Dirs \ {4} /\ d \notin Kern
    BY <1>2, <2>2 DEF Dirs, Kern
  <2>4. i \in Vas /\ Entry(s, i) = NoPte
    BY <1>4, <2>1, <2>2, <2>3 DEF Vas, Entry, BootInv, DirInv, TableAt
  <2>5. QED  BY <1>2, <1>4, <2>4, Translated, PteIs
<1>11. QED  BY <1>6, <1>7, <1>8, <1>9, <1>10 DEF WindowsRight

LEMMA UserKeptOut ==
  ASSUME NEW n \in Nat, NEW s, BootInv(n, s), Shut(s)
  PROVE  UserShutOut(s)
<1> SUFFICES ASSUME NEW va \in UTOP..(TOP - 1), "U" \in translate(s, va).perm
             PROVE  va < ULIM /\ "W" \notin translate(s, va).perm
  BY DEF UserShutOut
<1>1. N \in Nat \ {0} /\ NKERN \in Nat /\ UTOP = 2 * N /\ ULIM = 5 * N /\ TOP \in Nat /\ TOP = (7 + NKERN) * N
  <2>1. (7 + NKERN) * N = 7 * N + NKERN * N
    BY Sizes
  <2>2. QED  BY <2>1, Places, Sizes
<1>2. va \in Nat /\ va < TOP
  BY <1>1
<1>3. PICK d \in Nat : d = PDX(va) /\ d < 7 + NKERN /\ d * N <= va /\ va < d * N + N
  <2>1. va \div N < 7 + NKERN <=> va < (7 + NKERN) * N
    BY <1>1, <1>2, DivLess
  <2>2. PICK d \in Nat : d = va \div N
    BY <1>1, <1>2, DivDef
  <2>3. d = PDX(va) /\ d < 7 + NKERN
    BY <1>1, <1>2, <2>1, <2>2 DEF PDX, N
  <2>4. QED  BY <1>2, <2>3, PageParts
<1>4. CASE d = 4
  <2>1. 4 * N <= va /\ va < 4 * N + N
    BY <1>3, <1>4
  <2>2. va < ULIM
    BY <1>1, <1>2, <2>1
  <2>3. QED  BY <1>2, <1>3, <1>4, <2>2, UvptSeen
<1>5. CASE d # 4
  <2>1. va \in Vas
    BY <1>1, <1>2, <1>3, <1>5 DEF Vas, Dirs
  <2>2. translate(s, va) = IF "P" \in Entry(s, va).perm THEN Entry(s, va) ELSE NoPte
    BY <2>1, Translated
  <2>3. "U" \in Entry(s, va).perm /\ translate(s, va) = Entry(s, va)
    BY <2>2, PteIs
  <2>4. va < 5 * N
    <3>1. ~(va >= 5 * N)
      BY <2>1, <2>3 DEF Shut
    <3>2. QED  BY <1>1, <1>2, <3>1
  <2>5. "W" \notin Entry(s, va).perm
    BY <2>1, <2>4 DEF Shut
  <2>6. QED  BY <1>1, <2>3, <2>4, <2>5
<1>6. QED  BY <1>4, <1>5

LEMMA PagesKeptApart ==
  ASSUME NEW n \in Nat, NEW s, BootInv(n, s)
  PROVE  PagesApart(s)
<1> DEFINE free == {s.free[i] : i \in 1..Len(s.free)}
<1>1. s \in BootStates(n) /\ FreeInv(n, s) /\ DataInv(n, s) /\ DirInv(n, s)
  BY DEF BootInv
<1>2. PICK q \in Seq(Nat) : q = s.free
  BY <1>1 DEF BootStates
<1>3. Enum(q, {q[i] : i \in 1..Len(q)})
  <2>1. {q[i] : i \in 1..Len(q)} \subseteq Nat
    OBVIOUS
  <2>2. \A i, j \in 1..Len(q) : i # j => q[i] # q[j]
    BY <1>1, <1>2 DEF FreeInv
  <2>3. QED  BY <2>1, <2>2, Zenon DEF Enum
<1>4. Cardinality(free) = Len(s.free)
  BY <1>2, <1>3, EnumCard
<1>5. DOMAIN s.ref = Frames(n)
  BY <1>1 DEF BootStates
<1>6. free = {i \in DOMAIN s.ref : s.ref[i] = 0}
  <2>1. ASSUME NEW p \in free PROVE p \in DOMAIN s.ref /\ s.ref[p] = 0
    BY <1>1, <1>5 DEF FreeInv
  <2>2. ASSUME NEW p \in DOMAIN s.ref, s.ref[p] = 0 PROVE p \in free
    BY <1>1, <1>5, <2>2 DEF FreeInv
  <2>3. QED  BY <2>1, <2>2, Zenon
<1> HIDE DEF free
<1>7. ASSUME NEW t \in tables(s) PROVE t \in DOMAIN s.ref /\ t < N /\ t \notin Data(s) /\ s.ref[t] # 0
  <2>1. PICK d \in DOMAIN s.dir \ {4} : "P" \in s.dir[d].perm /\ t = s.dir[d].pa
    BY Places DEF tables
  <2>2. d \in Dirs \ {4}
    BY <1>1, <2>1 DEF BootStates
  <2>3. s.dir[d] # NoPte
    BY <2>1, PteIs
  <2>4. TableAt(n, s, d)
    BY <1>1, <2>2, <2>3 DEF DirInv
  <2>5. QED  BY <1>5, <2>1, <2>4 DEF TableAt
<1>8. \A p \in Data(s) : p \in DOMAIN s.ref /\ s.ref[p] # 0
  BY <1>1, <1>5 DEF DataInv
<1>9. free \cap (Data(s) \cup tables(s)) = {} /\ Data(s) \cap tables(s) = {}
  BY <1>6, <1>7, <1>8
<1>10. \A t \in tables(s) : t < NPTENTRIES
  BY <1>7 DEF N
<1>11. QED  BY <1>4, <1>6, <1>9, <1>10, Zenon DEF PagesApart, Data, free

LEMMA EntryMapKept ==
  ASSUME NEW n, NEW b, NEW k, NEW s, Machine(n, b, k), Built(n, b, k, s)
  PROVE  SameUnderBoth(s)
<1> SUFFICES ASSUME NEW va \in KERNBASE..(KERNBASE + NPTENTRIES - 1)
             PROVE  /\ translate(s, va).pa = entry_pgtable[PTX(va)].pa
                    /\ "W" \in entry_pgdir[PDX(va)] \cap entry_pgtable[PTX(va)].perm \cap translate(s, va).perm
  BY DEF SameUnderBoth
<1>1. /\ N \in Nat \ {0} /\ NKERN \in Nat \ {0} /\ KERNBASE = 7 * N /\ TOP = 7 * N + NKERN * N /\ TOP \in Nat
      /\ PDX(KERNBASE) = 7 /\ PDX(TOP) = 7 + NKERN /\ n \in Nat
  BY Places, Sizes DEF Machine
<1>2. N <= NKERN * N /\ NKERN * N \in Nat
  <2>1. 1 * N <= NKERN * N
    BY <1>1, MulMono
  <2>2. 1 * N = N /\ NKERN * N \in Nat
    BY <1>1
  <2>3. QED  BY <2>1, <2>2
<1>3. PICK i \in 0..(N - 1) : va = KERNBASE + i
  <2>1. va - 7 * N \in 0..(N - 1) /\ va = 7 * N + (va - 7 * N)
    BY <1>1 DEF N
  <2>2. QED  BY <1>1, <2>1
<1>4. va \in Nat /\ KERNBASE <= va /\ va < TOP /\ 7 * N <= va /\ va < 7 * N + N
  BY <1>1, <1>2, <1>3
<1>5. va \in Vas /\ PDX(va) = 7 /\ PTX(va) = i
  <2>1. PDX(va) = 7 /\ PTX(va) = va - 7 * N
    BY <1>4, PageAt
  <2>2. va - 7 * N = i
    BY <1>1, <1>3
  <2>3. QED  BY <1>4, <2>1, <2>2, InWindow
<1>6. Entry(s, va) = Pte(i, {"W"} \cup {"P"})
  <2>1. i \in 0..(TOP - KERNBASE - 1)
    BY <1>1, <1>2
  <2>2. QED  BY <1>3, <2>1 DEF Built
<1>7. translate(s, va) = Pte(i, {"W"} \cup {"P"})
  <2>1. "P" \in Pte(i, {"W"} \cup {"P"}).perm
    BY DEF Pte
  <2>2. BootInv(n, s)
    BY DEF Built
  <2>3. QED  BY <1>1, <1>5, <1>6, <2>1, <2>2, Translated
<1>8. entry_pgtable[PTX(va)] = Pte(i, {"P", "W"})
  BY <1>5 DEF entry_pgtable, N
<1>9. entry_pgdir[PDX(va)] = {"P", "W"}
  <2>1. 7 \in 0..(PDX(TOP) - 1)
    BY <1>1
  <2>2. QED  BY <1>1, <1>5, <2>1 DEF entry_pgdir
<1>10. QED  BY <1>7, <1>8, <1>9 DEF Pte

\* Calls of mmio_map_region one after the other.
MmioTurns(f, s, sizes, m) ==
  f = [k \in 0..m |-> IF k = 0 THEN s ELSE mmio_map_region(f[k - 1], 100 * k, sizes[k])]

LEMMA MmioTurnsExist ==
  ASSUME NEW s, NEW sizes, NEW n \in Nat
  PROVE  \E f : MmioTurns(f, s, sizes, n)
<1> DEFINE T == {k \in Nat : ~\E f : MmioTurns(f, s, sizes, k)}
<1> SUFFICES ASSUME T # {} PROVE FALSE
  OBVIOUS
<1>1. PICK k \in T : \A m \in T : k <= m
  <2>1. T \subseteq Nat
    OBVIOUS
  <2> HIDE DEF T
  <2>2. QED  BY <2>1, Least
<1>2. k \in Nat /\ ~\E f : MmioTurns(f, s, sizes, k)
  OBVIOUS
<1>3. CASE k = 0
  <2>1. MmioTurns([i \in 0..0 |-> s], s, sizes, 0)
    BY DEF MmioTurns
  <2>2. QED  BY <1>2, <1>3, <2>1
<1>4. CASE k # 0
  <2>1. k - 1 \in Nat /\ k - 1 \notin T
    BY <1>1, <1>2, <1>4
  <2>2. PICK f : MmioTurns(f, s, sizes, k - 1)
    BY <2>1
  <2>3. PICK last : last = mmio_map_region(f[k - 1], 100 * k, sizes[k])
    OBVIOUS
  <2>4. PICK g : g = [i \in 0..k |-> IF i = k THEN last ELSE f[i]]
    OBVIOUS
  <2>5. \A i \in 0..k : g[i] = IF i = 0 THEN s ELSE mmio_map_region(g[i - 1], 100 * i, sizes[i])
    <3> TAKE i \in 0..k
    <3>1. CASE i = 0
      <4>1. 0 \in 0..(k - 1) /\ f[0] = s
        BY <2>1, <2>2 DEF MmioTurns
      <4>2. QED  BY <1>4, <2>4, <3>1, <4>1
    <3>2. CASE i # 0 /\ i # k
      <4>1. i \in 0..(k - 1) /\ i - 1 \in 0..k /\ i - 1 # k
        BY <3>2
      <4>2. g[i] = f[i] /\ g[i - 1] = f[i - 1]
        BY <2>4, <3>2, <4>1
      <4>3. f[i] = mmio_map_region(f[i - 1], 100 * i, sizes[i])
        BY <2>2, <3>2, <4>1 DEF MmioTurns
      <4>4. QED  BY <3>2, <4>2, <4>3
    <3>3. CASE i # 0 /\ i = k
      <4>1. g[k] = last /\ g[k - 1] = f[k - 1]
        BY <1>4, <2>1, <2>4
      <4>2. QED  BY <2>3, <3>3, <4>1
    <3>4. QED  BY <3>1, <3>2, <3>3
  <2>6. MmioTurns(g, s, sizes, k)
    BY <2>4, <2>5 DEF MmioTurns
  <2>7. QED  BY <1>2, <2>6
<1>5. QED  BY <1>3, <1>4

\* The sums of their sizes.
Sums(f, base, sizes, m) ==
  f = [k \in 0..m |-> IF k = 0 THEN base ELSE f[k - 1] + sizes[k]]

LEMMA SumsExist ==
  ASSUME NEW base, NEW sizes, NEW n \in Nat
  PROVE  \E f : Sums(f, base, sizes, n)
<1> DEFINE T == {k \in Nat : ~\E f : Sums(f, base, sizes, k)}
<1> SUFFICES ASSUME T # {} PROVE FALSE
  OBVIOUS
<1>1. PICK k \in T : \A m \in T : k <= m
  <2>1. T \subseteq Nat
    OBVIOUS
  <2> HIDE DEF T
  <2>2. QED  BY <2>1, Least
<1>2. k \in Nat /\ ~\E f : Sums(f, base, sizes, k)
  OBVIOUS
<1>3. CASE k = 0
  <2>1. Sums([i \in 0..0 |-> base], base, sizes, 0)
    BY DEF Sums
  <2>2. QED  BY <1>2, <1>3, <2>1
<1>4. CASE k # 0
  <2>1. k - 1 \in Nat /\ k - 1 \notin T
    BY <1>1, <1>2, <1>4
  <2>2. PICK f : Sums(f, base, sizes, k - 1)
    BY <2>1
  <2>3. PICK last : last = f[k - 1] + sizes[k]
    OBVIOUS
  <2>4. PICK g : g = [i \in 0..k |-> IF i = k THEN last ELSE f[i]]
    OBVIOUS
  <2>5. \A i \in 0..k : g[i] = IF i = 0 THEN base ELSE g[i - 1] + sizes[i]
    <3> TAKE i \in 0..k
    <3>1. CASE i = 0
      <4>1. 0 \in 0..(k - 1) /\ f[0] = base
        BY <2>1, <2>2 DEF Sums
      <4>2. QED  BY <1>4, <2>4, <3>1, <4>1
    <3>2. CASE i # 0 /\ i # k
      <4>1. i \in 0..(k - 1) /\ i - 1 \in 0..k /\ i - 1 # k
        BY <3>2
      <4>2. g[i] = f[i] /\ g[i - 1] = f[i - 1]
        BY <2>4, <3>2, <4>1
      <4>3. f[i] = f[i - 1] + sizes[i]
        BY <2>2, <3>2, <4>1 DEF Sums
      <4>4. QED  BY <3>2, <4>2, <4>3
    <3>3. CASE i # 0 /\ i = k
      <4>1. g[k] = last /\ g[k - 1] = f[k - 1]
        BY <1>4, <2>1, <2>4
      <4>2. QED  BY <2>3, <3>3, <4>1
    <3>4. QED  BY <3>1, <3>2, <3>3
  <2>6. Sums(g, base, sizes, k)
    BY <2>4, <2>5 DEF Sums
  <2>7. QED  BY <1>2, <2>6
<1>5. QED  BY <1>3, <1>4

\* After i calls of mmio_map_region: the kernel has stopped and the regions do
\* not fit, or every region is mapped where the one before ended.
MmioUpTo(n, sizes, at, i, m) ==
  IF m.panicstr # "none" THEN at[i] > 6 * N
  ELSE /\ BootInv(n, m) /\ m.base = at[i] /\ at[i] <= 6 * N
       /\ \A k \in 1..i : \A j \in 0..(sizes[k] - 1) : Entry(m, at[k - 1] + j) = Pte(100 * k + j, MmioPerm \cup {"P"})

LEMMA MmioNext ==
  ASSUME NEW n \in Nat, NEW sizes, NEW at, NEW i \in Nat, NEW m, MmioUpTo(n, sizes, at, i, m),
         sizes[i + 1] \in Nat, at[i] \in Nat, 5 * N <= at[i], at[i + 1] = at[i] + sizes[i + 1],
         \A k \in 1..i : at[k - 1] \in Nat /\ sizes[k] \in Nat /\ 5 * N <= at[k - 1] /\ at[k - 1] + sizes[k] <= at[i]
  PROVE  MmioUpTo(n, sizes, at, i + 1, mmio_map_region(m, 100 * (i + 1), sizes[i + 1]))
<1>1. N \in Nat /\ MMIOBASE = 5 * N /\ MMIOLIM = 6 * N /\ 5 \in Kern
  BY Places, Sizes DEF Kern
<1>2. PICK size \in Nat : size = sizes[i + 1]
  OBVIOUS
<1>3. PICK pa \in Nat : pa = 100 * (i + 1)
  OBVIOUS
<1>4. PICK base \in Nat : base = at[i] /\ 5 * N <= base
  OBVIOUS
<1>5. PICK t : t = mmio_map_region(m, pa, size)
  OBVIOUS
<1>6. CASE m.panicstr # "none"
  <2>1. t = m
    BY <1>5, <1>6 DEF mmio_map_region
  <2>2. at[i + 1] > 6 * N
    BY <1>1, <1>2, <1>4, <1>6 DEF MmioUpTo
  <2>3. QED  BY <1>2, <1>3, <1>5, <1>6, <2>1, <2>2 DEF MmioUpTo
<1>7. CASE m.panicstr = "none" /\ base + size > 6 * N
  <2>1. BootInv(n, m) /\ m.base = base
    BY <1>4, <1>7 DEF MmioUpTo
  <2>2. t = [m EXCEPT !.panicstr = "the addr over flow MMIOLIM."]
    BY <1>1, <1>5, <1>7, <2>1 DEF mmio_map_region
  <2>3. t.panicstr # "none"
    BY <2>1, <2>2 DEF BootInv, BootStates
  <2>4. at[i + 1] > 6 * N
    BY <1>2, <1>4, <1>7
  <2>5. QED  BY <1>2, <1>3, <1>5, <2>3, <2>4 DEF MmioUpTo
<1>8. CASE m.panicstr = "none" /\ ~(base + size > 6 * N)
  <2>1. /\ BootInv(n, m) /\ m.base = base
        /\ \A k \in 1..i : \A j \in 0..(sizes[k] - 1) : Entry(m, at[k - 1] + j) = Pte(100 * k + j, MmioPerm \cup {"P"})
    BY <1>4, <1>8 DEF MmioUpTo
  <2>2. base + size <= 6 * N
    BY <1>1, <1>8
  <2>3. MmioMapped(n, m, pa, size, t)
    BY <1>1, <1>4, <1>5, <2>1, <2>2, MmioRegion
  <2>4. BootInv(n, t) /\ t.base = base + size /\ t.panicstr = "none"
    BY <2>1, <2>3 DEF MmioMapped, BootInv
  <2>5. ASSUME NEW k \in 1..(i + 1), NEW j \in 0..(sizes[k] - 1)
        PROVE  Entry(t, at[k - 1] + j) = Pte(100 * k + j, MmioPerm \cup {"P"})
    <3>1. CASE k = i + 1
      <4>1. at[k - 1] = base /\ 100 * k = pa /\ j \in 0..(size - 1)
        BY <1>2, <1>3, <1>4, <3>1
      <4>2. Entry(t, base + j) = Pte(pa + j, MmioPerm \cup {"P"})
        BY <2>1, <2>3, <4>1 DEF MmioMapped
      <4>3. QED  BY <4>1, <4>2
    <3>2. CASE k # i + 1
      <4>1. k \in 1..i
        BY <3>2
      <4>2. PICK a \in Nat : a = at[k - 1] /\ 5 * N <= a
        BY <4>1
      <4>3. PICK z \in Nat : z = sizes[k] /\ a + z <= base
        BY <1>4, <4>1, <4>2
      <4>4. PICK v \in Nat : v = a + j /\ 5 * N <= v /\ v < base
        BY <1>1, <1>4, <4>2, <4>3
      <4>5. v < 5 * N + N
        BY <1>1, <1>4, <2>2, <4>4
      <4>6. v \in Vas
        BY <1>1, <4>4, <4>5, InTable
      <4>7. Entry(t, v) = Entry(m, v)
        BY <2>1, <2>3, <4>4, <4>6 DEF MmioMapped
      <4>8. QED  BY <2>1, <4>1, <4>2, <4>4, <4>7
    <3>3. QED  BY <3>1, <3>2
  <2>6. QED  BY <1>2, <1>3, <1>4, <1>5, <2>2, <2>4, <2>5 DEF MmioUpTo
<1>9. QED  BY <1>6, <1>7, <1>8

LEMMA SumsAre ==
  ASSUME NEW f, NEW base, NEW sizes, NEW m \in Nat, Sums(f, base, sizes, m)
  PROVE  f[0] = base /\ \A i \in 1..m : f[i] = f[i - 1] + sizes[i]
<1>1. f[0] = base
  <2>1. 0 \in 0..m
    OBVIOUS
  <2>2. QED  BY <2>1 DEF Sums
<1>2. ASSUME NEW i \in 1..m PROVE f[i] = f[i - 1] + sizes[i]
  <2>1. i \in 0..m /\ i # 0
    OBVIOUS
  <2>2. QED  BY <2>1 DEF Sums
<1>3. QED  BY <1>1, <1>2

\* The regions lie one behind the other.
SumsUpTo(at, base, sizes, i) ==
  /\ at[i] \in Nat /\ base <= at[i]
  /\ \A k \in 1..i : at[k - 1] \in Nat /\ base <= at[k - 1] /\ at[k - 1] + sizes[k] <= at[i]

LEMMA SumsGrow ==
  ASSUME NEW base \in Nat, NEW sizes \in Seq(Nat), NEW at, Sums(at, base, sizes, Len(sizes))
  PROVE  \A i \in 0..Len(sizes) : SumsUpTo(at, base, sizes, i)
<1> PICK m \in Nat : m = Len(sizes)
  OBVIOUS
<1>1. \A i \in 1..m : sizes[i] \in Nat
  OBVIOUS
<1>2. at[0] = base /\ \A i \in 1..m : at[i] = at[i - 1] + sizes[i]
  BY SumsAre
<1> DEFINE T == {i \in 0..m : ~SumsUpTo(at, base, sizes, i)}
<1> SUFFICES ASSUME T # {} PROVE FALSE
  OBVIOUS
<1>3. PICK i \in T : \A j \in T : i <= j
  <2>1. T \subseteq Nat
    OBVIOUS
  <2> HIDE DEF T
  <2>2. QED  BY <2>1, Least
<1>4. i \in 0..m /\ i \in Nat /\ ~SumsUpTo(at, base, sizes, i)
  OBVIOUS
<1>5. CASE i = 0
  <2>1. SumsUpTo(at, base, sizes, 0)
    BY <1>2 DEF SumsUpTo
  <2>2. QED  BY <1>4, <1>5, <2>1
<1>6. CASE i # 0
  <2>1. i - 1 \in 0..m /\ i - 1 \notin T
    BY <1>3, <1>4, <1>6
  <2>2. PICK j \in Nat : j = i - 1 /\ SumsUpTo(at, base, sizes, j)
    BY <1>4, <1>6, <2>1
  <2> HIDE DEF T
  <2>3. PICK a \in Nat : a = at[j] /\ base <= a
    BY <2>2 DEF SumsUpTo
  <2>4. PICK z \in Nat : z = sizes[i]
    BY <1>1, <1>4, <1>6
  <2>5. at[i] = a + z
    BY <1>2, <1>4, <1>6, <2>2, <2>3, <2>4
  <2>6. ASSUME NEW k \in 1..i
        PROVE  at[k - 1] \in Nat /\ base <= at[k - 1] /\ at[k - 1] + sizes[k] <= at[i]
    <3>1. CASE k = i
      BY <2>2, <2>3, <2>4, <2>5, <3>1
    <3>2. CASE k # i
      <4>1. k \in 1..j /\ k \in 1..m
        BY <1>4, <2>2, <3>2
      <4>2. PICK c \in Nat : c = at[k - 1] /\ base <= c
        BY <2>2, <4>1 DEF SumsUpTo
      <4>3. PICK y \in Nat : y = sizes[k]
        BY <1>1, <4>1
      <4>4. c + y <= a
        BY <2>2, <2>3, <4>1, <4>2, <4>3 DEF SumsUpTo
      <4>5. c + y <= a + z
        BY <4>4
      <4>6. QED  BY <2>5, <4>2, <4>3, <4>5, Zenon
    <3>3. QED  BY <3>1, <3>2
  <2>7. SumsUpTo(at, base, sizes, i)
    BY <2>3, <2>5, <2>6 DEF SumsUpTo
  <2>8. QED  BY <1>4, <2>7
<1>7. QED  BY <1>5, <1>6

\* Device memory is mapped after boot as mmio_map_region promises.
LEMMA MmioCallsRight ==
  ASSUME NEW n \in Nat, NEW s, NEW sizes \in Seq(Nat), BootInv(n, s), s.base = MMIOBASE + 3
  PROVE  MmioRight(s, sizes)
<1>1. N \in Nat /\ N >= 4 /\ MMIOBASE = 5 * N /\ MMIOLIM = 6 * N /\ 5 \in Kern
  BY Places, Sizes DEF Kern
<1>2. PICK base \in Nat : base = s.base /\ 5 * N <= base /\ base <= 6 * N
  BY <1>1 DEF BootInv, BootStates
<1> PICK l \in Nat : l = Len(sizes)
  OBVIOUS
<1>3. \A i \in 1..l : sizes[i] \in Nat
  OBVIOUS
<1> DEFINE f == CHOOSE g : g = [k \in 0..Len(sizes) |-> IF k = 0 THEN s ELSE mmio_map_region(g[k - 1], 100 * k, sizes[k])]
           ends == CHOOSE g : g = [k \in 0..Len(sizes) |-> IF k = 0 THEN s.base ELSE g[k - 1] + sizes[k]]
<1>4. MmioCalls(s, sizes) = f[Len(sizes)]
  BY Zenon DEF MmioCalls
<1>5. MmioEnds(s.base, sizes) = ends
  BY Zenon DEF MmioEnds
<1>6. MmioTurns(f, s, sizes, l)
  <2>1. \E g : MmioTurns(g, s, sizes, Len(sizes))
    BY MmioTurnsExist
  <2>2. QED  BY <2>1, Zenon DEF MmioTurns
<1>7. Sums(ends, s.base, sizes, l)
  <2>1. \E g : Sums(g, s.base, sizes, Len(sizes))
    BY SumsExist
  <2>2. QED  BY <2>1, Zenon DEF Sums
<1> HIDE DEF f, ends
<1>8. \A i \in 0..l : SumsUpTo(ends, base, sizes, i)
  BY <1>2, <1>7, SumsGrow
<1>9. ends[0] = base /\ \A i \in 1..l : ends[i] = ends[i - 1] + sizes[i]
  <2>1. Sums(ends, base, sizes, l)
    BY <1>2, <1>7
  <2>2. ends[0] = base
    <3>1. 0 \in 0..l
      OBVIOUS
    <3>2. QED  BY <2>1, <3>1 DEF Sums
  <2>3. ASSUME NEW i \in 1..l PROVE ends[i] = ends[i - 1] + sizes[i]
    <3>1. i \in 0..l /\ i # 0
      OBVIOUS
    <3>2. QED  BY <2>1, <3>1 DEF Sums
  <2>4. QED  BY <2>2, <2>3
<1>10. f[0] = s /\ \A i \in 1..l : f[i] = mmio_map_region(f[i - 1], 100 * i, sizes[i])
  <2>1. f[0] = s
    <3>1. 0 \in 0..l
      OBVIOUS
    <3>2. QED  BY <1>6, <3>1 DEF MmioTurns
  <2>2. ASSUME NEW i \in 1..l PROVE f[i] = mmio_map_region(f[i - 1], 100 * i, sizes[i])
    <3>1. i \in 0..l /\ i # 0
      OBVIOUS
    <3>2. QED  BY <1>6, <3>1 DEF MmioTurns
  <2>3. QED  BY <2>1, <2>2
<1> DEFINE T == {i \in 0..l : ~MmioUpTo(n, sizes, ends, i, f[i])}
<1>11. T = {}
  <2> SUFFICES ASSUME T # {} PROVE FALSE
    OBVIOUS
  <2>1. PICK i \in T : \A j \in T : i <= j
    <3>1. T \subseteq Nat
      OBVIOUS
    <3> HIDE DEF T
    <3>2. QED  BY <3>1, Least
  <2>2. i \in 0..l /\ i \in Nat /\ ~MmioUpTo(n, sizes, ends, i, f[i])
    OBVIOUS
  <2>3. CASE i = 0
    <3>1. MmioUpTo(n, sizes, ends, 0, s)
      BY <1>2, <1>9 DEF MmioUpTo, BootInv
    <3>2. QED  BY <1>10, <2>2, <2>3, <3>1
  <2>4. CASE i # 0
    <3>1. i - 1 \in 0..l /\ i - 1 \notin T
      BY <2>1, <2>2, <2>4
    <3>2. PICK j \in Nat : j = i - 1 /\ i = j + 1 /\ j \in 0..l /\ MmioUpTo(n, sizes, ends, j, f[j])
      BY <2>2, <2>4, <3>1
    <3> HIDE DEF T
    <3>3. SumsUpTo(ends, base, sizes, j)
      BY <1>8, <3>2
    <3>4. ends[j] \in Nat /\ 5 * N <= ends[j]
      BY <1>1, <1>2, <3>3 DEF SumsUpTo
    <3>5. ASSUME NEW k \in 1..j
          PROVE  ends[k - 1] \in Nat /\ sizes[k] \in Nat /\ 5 * N <= ends[k - 1] /\ ends[k - 1] + sizes[k] <= ends[j]
      <4>1. k \in 1..l
        BY <3>2
      <4>2. ends[k - 1] \in Nat /\ base <= ends[k - 1] /\ ends[k - 1] + sizes[k] <= ends[j]
        BY <3>3 DEF SumsUpTo
      <4>3. QED  BY <1>1, <1>2, <1>3, <4>1, <4>2
    <3>6. i \in 1..l /\ sizes[j + 1] \in Nat /\ ends[j + 1] = ends[j] + sizes[j + 1]
      BY <1>3, <1>9, <2>2, <3>2
    <3>7. f[i] = mmio_map_region(f[j], 100 * (j + 1), sizes[j + 1])
      BY <1>10, <3>2, <3>6
    <3>8. MmioUpTo(n, sizes, ends, j + 1, f[i])
      <4>1. PICK m : m = f[j] /\ MmioUpTo(n, sizes, ends, j, m)
        BY <3>2
      <4>2. MmioUpTo(n, sizes, ends, j + 1, mmio_map_region(m, 100 * (j + 1), sizes[j + 1]))
        BY <3>4, <3>5, <3>6, <4>1, MmioNext
      <4>3. QED  BY <3>7, <4>1, <4>2
    <3>9. QED  BY <2>2, <3>2, <3>8
  <2>5. QED  BY <2>3, <2>4
<1>12. PICK m : m = f[l] /\ MmioUpTo(n, sizes, ends, l, m)
  BY <1>11
<1>13. CASE m.panicstr # "none"
  <2>1. ends[l] > MMIOLIM
    BY <1>1, <1>12, <1>13 DEF MmioUpTo
  <2>2. QED  BY <1>4, <1>5, <1>12, <1>13, <2>1 DEF MmioRight
<1>14. CASE m.panicstr = "none"
  <2>1. /\ BootInv(n, m) /\ ends[l] <= 6 * N
        /\ \A k \in 1..l : \A j \in 0..(sizes[k] - 1) : Entry(m, ends[k - 1] + j) = Pte(100 * k + j, MmioPerm \cup {"P"})
    BY <1>12, <1>14 DEF MmioUpTo
  <2>2. ASSUME NEW k \in 1..l
        PROVE  maps(m, ends[k - 1], sizes[k], 100 * k, {"P", "W", "PCD", "PWT"})
    <3>1. SumsUpTo(ends, base, sizes, l)
      BY <1>8
    <3>2. PICK a \in Nat : a = ends[k - 1] /\ base <= a /\ a + sizes[k] <= ends[l]
      BY <3>1 DEF SumsUpTo
    <3>3. PICK z \in Nat : z = sizes[k]
      BY <1>3
    <3>4. PICK e \in Nat : e = ends[l]
      BY <3>1 DEF SumsUpTo
    <3>5. 5 * N <= a /\ a + z <= 6 * N
      <4>1. PICK u \in Nat : u = 5 * N /\ u <= base
        BY <1>1, <1>2
      <4>2. PICK x \in Nat : x = 6 * N /\ e <= x
        BY <1>1, <2>1, <3>4
      <4>3. a + z <= e
        BY <3>2, <3>3, <3>4, Zenon
      <4>a. base <= a /\ u <= base /\ e <= x
        BY <3>2, <4>1, <4>2, Zenon
      <4>4. u <= a /\ a + z <= x
        BY <4>a, <4>3
      <4>5. QED  BY <4>1, <4>2, <4>4, Zenon
    <3>6. PICK pa \in Nat : pa = 100 * k
      OBVIOUS
    <3>7. ASSUME NEW j \in 0..(z - 1)
          PROVE  a + j \in Vas /\ Entry(m, a + j) = Pte(pa + j, MmioPerm \cup {"P"})
      <4>1. PICK v \in Nat : v = a + j /\ 5 * N <= v /\ v < 5 * N + N
        BY <1>1, <3>5
      <4>2. v \in Vas
        BY <1>1, <4>1, InTable
      <4>3. Entry(m, a + j) = Pte(pa + j, MmioPerm \cup {"P"})
        BY <2>1, <3>2, <3>3, <3>6
      <4>4. QED  BY <4>1, <4>2, <4>3
    <3>8. "P" \in MmioPerm \cup {"P"} /\ {"P", "W", "PCD", "PWT"} \subseteq MmioPerm \cup {"P"}
      BY DEF MmioPerm
    <3>9. maps(m, a, z, pa, {"P", "W", "PCD", "PWT"})
      BY <2>1, <3>7, <3>8, MapsSeen
    <3>10. QED  BY <3>2, <3>3, <3>6, <3>9
  <2>3. QED  BY <1>4, <1>5, <1>12, <1>14, <2>2 DEF MmioRight
<1>15. QED  BY <1>13, <1>14

-----------------------------------------------------------------------------
\* What i386_detect_memory makes of the NVRAM's numbers.
LEMMA Detected ==
  ASSUME NEW base \in Nat, NEW ext \in Nat, NEW ext16 \in Nat
  PROVE  \E n, b \in Nat : i386_detect_memory(base, ext, ext16) = [npages |-> n, npages_basemem |-> b]
<1>1. PICK t \in Nat : t = IF ext16 # 0 THEN 16 * EXTPHYSMEM + ext16
                          ELSE IF ext # 0 THEN 4 * EXTPHYSMEM + ext ELSE base
  BY DEF EXTPHYSMEM
<1>2. t \div 4 \in Nat /\ base \div 4 \in Nat
  OBVIOUS
<1>3. i386_detect_memory(base, ext, ext16) = [npages |-> t \div 4, npages_basemem |-> base \div 4]
  BY <1>1 DEF i386_detect_memory
<1>4. QED  BY <1>2, <1>3

LEMMA PagesLeast ==
  ASSUME NEW q \in Nat, NEW a \in Nat, q * PGSIZE <= a
  PROVE  q <= Pages(a)
<1> PICK P \in Nat \ {0} : P = PGSIZE
  BY Sizes
<1>1. PICK c \in Nat : c = a + P - 1
  OBVIOUS
<1>2. PICK d \in Nat : d = c \div P
  BY <1>1, DivDef
<1>3. d < q <=> c < q * P
  BY <1>2, DivLess
<1>4. q * P \in Nat
  OBVIOUS
<1>5. ~(c < q * P)
  BY <1>1, <1>4
<1>6. d = Pages(a)
  BY <1>1, <1>2 DEF Pages
<1>7. QED  BY <1>3, <1>5, <1>6

\* What boot_alloc leaves on the machines of Bootable.
LEMMA BootFits ==
  ASSUME NEW c, Bootable(c)
  PROVE  \E n, b, k \in Nat : /\ Machine(n, b, k)
                              /\ BootStart(n, b, k, boot_state(c.base, c.ext, c.ext16, c.end))
<1>1. /\ c.base \in Nat /\ c.ext \in Nat /\ c.ext16 \in Nat /\ c.end \in Nat
      /\ EXTPHYSMEM * PGSIZE <= c.end
  BY DEF Bootable
<1>2. PICK mem : mem = i386_detect_memory(c.base, c.ext, c.ext16)
  OBVIOUS
<1>3. PICK n, b \in Nat : mem = [npages |-> n, npages_basemem |-> b]
  <2>1. PICK x, y, z \in Nat : x = c.base /\ y = c.ext /\ z = c.ext16
    BY <1>1
  <2>2. \E n, b \in Nat : i386_detect_memory(x, y, z) = [npages |-> n, npages_basemem |-> b]
    BY Detected
  <2>3. QED  BY <1>2, <2>1, <2>2
<1>4. PICK end \in Nat : end = c.end
  BY <1>1
<1>5. PICK k \in Nat : k = Pages(end)
  BY RoundUpAll
<1>6. PICK m \in Nat : m = Pages(n)
  BY RoundUpAll
<1>7. PICK s : s = boot_state(c.base, c.ext, c.ext16, c.end)
  OBVIOUS
<1>8. BootStart(n, b, k, s)
  <2>1. s = boot_data(Start(mem, end))
    BY <1>2, <1>4, <1>7 DEF boot_state
  <2>2. QED  BY <1>3, <1>5, <2>1, DataTaken
<1>9. s.nextfree \div PGSIZE = k + 2 + m
  <2>1. s.nextfree = (k + 2 + m) * PGSIZE
    BY <1>6, <1>8 DEF BootStart
  <2>2. PICK x \in Nat : x = k + 2 + m
    OBVIOUS
  <2>3. PICK P \in Nat \ {0} : P = PGSIZE
    BY Sizes
  <2>4. x * P \in Nat /\ x * P <= x * P /\ x * P < x * P + P
    OBVIOUS
  <2>5. (x * P) \div P = x
    BY <2>4, DivIs
  <2>6. QED  BY <2>1, <2>2, <2>3, <2>5
<1>10. /\ MPENTRY_PADDR < b /\ b <= IOPHYSMEM /\ n <= TOP - KERNBASE
       /\ k + 2 + m + NKERN < n /\ k + 2 + m + NKERN < NPTENTRIES
  <2>1. mem.npages = n /\ mem.npages_basemem = b
    BY <1>3
  <2>2. LET first == s.nextfree \div PGSIZE
        IN /\ MPENTRY_PADDR < mem.npages_basemem /\ mem.npages_basemem <= IOPHYSMEM
           /\ mem.npages <= TOP - KERNBASE
           /\ first + NKERN < mem.npages /\ first + NKERN < NPTENTRIES
    BY <1>2, <1>7, Zenon DEF Bootable
  <2>3. QED  BY <1>9, <2>1, <2>2
<1>11. 8 <= k
  <2>1. EXTPHYSMEM = 8
    BY DEF EXTPHYSMEM
  <2>2. QED  BY <1>1, <1>4, <1>5, <2>1, PagesLeast
<1>12. Machine(n, b, k)
  BY <1>6, <1>10, <1>11 DEF Machine, MPENTRY_PADDR, IOPHYSMEM, N
<1>13. QED  BY <1>7, <1>8, <1>12

LEMMA BootMapRight ==
  ASSUME NEW c, Bootable(c)
  PROVE  MapRight(mem_init(c.base, c.ext, c.ext16, c.end), c.sizes)
<1>1. PICK s0 : s0 = boot_state(c.base, c.ext, c.ext16, c.end)
  OBVIOUS
<1>2. PICK n, b, k \in Nat : Machine(n, b, k) /\ BootStart(n, b, k, s0)
  BY <1>1, BootFits
<1>3. PICK s1 : s1 = page_init(s0) /\ Inited(n, b, k, s1)
  BY <1>2, PageInit
<1>4. PICK s2 : s2 = check_page_free_list(s1) /\ Fresh(n, b, k, s2)
  BY <1>2, <1>3, FreeListChecked
<1>5. PICK s3 : s3 = check_page(s2) /\ Blank(n, b, k, s3)
  BY <1>4, PageChecked
<1>6. PICK s : /\ s = mem_init_mp(map_kernbase(map_bootstack(map_uenvs(map_upages(s3)))))
               /\ Built(n, b, k, s)
  BY <1>2, <1>5, MapBuilt
<1>7. s = mem_init(c.base, c.ext, c.ext16, c.end)
  BY <1>1, <1>3, <1>4, <1>5, <1>6, Zenon DEF mem_init
<1>8. BootInv(n, s) /\ Shut(s) /\ s.base = MMIOBASE + 3
  BY <1>6 DEF Built
<1>9. c.sizes \in Seq(Nat)
  BY DEF Bootable
<1>10. WindowsRight(s) /\ SameUnderBoth(s)
  BY <1>2, <1>6, WindowsSeen, EntryMapKept
<1>11. UserShutOut(s) /\ PagesApart(s)
  BY <1>8, UserKeptOut, PagesKeptApart
<1>12. MmioRight(s, c.sizes)
  BY <1>8, <1>9, MmioCallsRight
<1>13. QED  BY <1>7, <1>10, <1>11, <1>12 DEF MapRight

\* The memory map of mem_init (kern/pmap.c) is the one its comments and
\* check_kern_pgdir promise, on every machine it is written for: whatever
\* memory i386_detect_memory finds, wherever the kernel's image ends, however
\* large pages and page tables are and however many processors there are, the
\* windows, stacks and guard pages are where memlayout.h puts them, the user
\* can write nothing above UTOP, no page is free and in use, the entry map
\* reaches every page table while it is cleared, and no sequence of calls of
\* mmio_map_region runs into the stacks.
THEOREM KernelMapSound == (call.fn = "mem_init" => Bootable(call)) => KernelMapRight
<1> SUFFICES ASSUME call.fn = "mem_init", Bootable(call)
             PROVE  MapRight(mem_init(call.base, call.ext, call.ext16, call.end), call.sizes)
  BY DEF KernelMapRight
<1>1. QED  BY BootMapRight

-----------------------------------------------------------------------------
\* Strings.  Two functions that start alike and stay alike turn by turn.
LEMMA TurnsAgree ==
  ASSUME NEW n \in Nat, NEW f, NEW g, f[0] = g[0], \A k \in 1..n : f[k - 1] = g[k - 1] => f[k] = g[k]
  PROVE  f[n] = g[n]
<1> DEFINE T == {k \in 0..n : f[k] # g[k]}
<1> SUFFICES ASSUME T # {} PROVE FALSE
  OBVIOUS
<1>1. PICK k \in T : \A m \in T : k <= m
  <2>1. T \subseteq Nat
    OBVIOUS
  <2> HIDE DEF T
  <2>2. QED  BY <2>1, Least
<1>2. k # 0 /\ k \in 1..n
  OBVIOUS
<1>3. k - 1 \in 0..n /\ k - 1 \notin T
  BY <1>1, <1>2
<1>4. f[k - 1] = g[k - 1]
  BY <1>3
<1>5. QED  BY <1>2, <1>4

\* r is where a loop of at most n turns stops.
StopsAt(go, n, r) == r \in 0..n /\ (\A i \in 0..(r - 1) : i \in go) /\ (r < n => r \notin go)

LEMMA ScanIs ==
  ASSUME NEW go, NEW n \in Nat, NEW r, StopsAt(go, n, r)
  PROVE  scan(go, n) = r
<1> DEFINE f == CHOOSE h : h = [k \in 0..n |-> IF k = 0 THEN 0 ELSE move_on(go, h[k - 1])]
<1>1. scan(go, n) = f[n]
  BY Zenon DEF scan
<1>2. PICK g : g = [k \in 0..n |-> IF k <= r THEN k ELSE r]
  OBVIOUS
<1>3. r \in Nat /\ r <= n
  BY DEF StopsAt
<1>4. g[0] = 0
  BY <1>2, <1>3
<1>5. ASSUME NEW k \in 1..n PROVE g[k] = move_on(go, g[k - 1])
  <2>1. k \in 0..n /\ k - 1 \in 0..n
    OBVIOUS
  <2>2. CASE k <= r
    <3>1. g[k] = k /\ g[k - 1] = k - 1 /\ k - 1 \in go
      BY <1>2, <1>3, <2>1, <2>2 DEF StopsAt
    <3>2. QED  BY <3>1 DEF move_on
  <2>3. CASE ~(k <= r)
    <3>1. g[k] = r /\ g[k - 1] = r /\ r \notin go
      BY <1>2, <1>3, <2>1, <2>3 DEF StopsAt
    <3>2. QED  BY <3>1 DEF move_on
  <2>4. QED  BY <2>2, <2>3
<1>6. \E h : h = [k \in 0..n |-> IF k = 0 THEN 0 ELSE move_on(go, h[k - 1])]
  <2>1. \A k \in 0..n : g[k] = IF k = 0 THEN 0 ELSE move_on(go, g[k - 1])
    BY <1>4, <1>5
  <2>2. g = [k \in 0..n |-> IF k = 0 THEN 0 ELSE move_on(go, g[k - 1])]
    BY <1>2, <2>1
  <2>3. QED  BY <2>2
<1>7. f = [k \in 0..n |-> IF k = 0 THEN 0 ELSE move_on(go, f[k - 1])]
  BY <1>6, Zenon
<1> HIDE DEF f
<1>8. f[0] = 0 /\ \A k \in 1..n : f[k] = move_on(go, f[k - 1])
  BY <1>7
<1>9. f[n] = g[n]
  <2>1. f[0] = g[0] /\ \A k \in 1..n : f[k - 1] = g[k - 1] => f[k] = g[k]
    BY <1>4, <1>5, <1>8
  <2>2. QED  BY <2>1, TurnsAgree
<1>10. g[n] = r
  BY <1>2, <1>3
<1>11. QED  BY <1>1, <1>9, <1>10

LEMMA ScanStops ==
  ASSUME NEW go, NEW n \in Nat
  PROVE  StopsAt(go, n, scan(go, n))
<1> DEFINE T == {r \in 0..n : r = n \/ r \notin go}
<1>1. PICK r \in T : \A m \in T : r <= m
  <2>1. T \subseteq Nat /\ n \in T
    OBVIOUS
  <2> HIDE DEF T
  <2>2. QED  BY <2>1, Least
<1>2. StopsAt(go, n, r)
  <2>1. r \in 0..n /\ (r < n => r \notin go)
    OBVIOUS
  <2>2. ASSUME NEW i \in 0..(r - 1) PROVE i \in go
    <3>1. i \in 0..n /\ i # n /\ ~(r <= i)
      BY <2>1
    <3>2. QED  BY <1>1, <3>1
  <2>3. QED  BY <2>1, <2>2 DEF StopsAt
<1>3. QED  BY <1>2, ScanIs

\* The byte that a copy of k bytes or more has at offset k, and the memory and
\* the state of the loop after k bytes: behind its NUL the string of l bytes at
\* q goes on with NULs.
Cap(k, l) == IF k < l THEN k ELSE l
Put(mem, p, q, l, k) == [i \in DOMAIN mem |-> IF i \in p..(p + k - 1) THEN mem[q + Cap(i - p, l)] ELSE mem[i]]
CopyAt(mem, p, q, l, k, src) ==
  [mem |-> Put(mem, p, q, l, k), dst |-> p + k, src |-> src,
   last |-> IF k = 0 THEN -1 ELSE mem[q + Cap(k - 1, l)]]

\* k bytes from p on are outside the string at q.
Clear(mem, p, q, l, k) ==
  /\ IsMemory(mem) /\ p \in Nat /\ q \in Nat /\ l \in Nat /\ k \in Nat
  /\ StringAt(mem, q, l) /\ p + k <= Extent(mem)
  /\ \A i \in p..(p + k - 1) : i \notin q..(q + l)

LEMMA ByteCopied ==
  ASSUME NEW mem, NEW p, NEW q, NEW l, NEW n, NEW k \in 0..(n - 1), Clear(mem, p, q, l, n), NEW x,
         x = CopyAt(mem, p, q, l, k, q + Cap(k, l))
  PROVE  /\ x.mem[x.src] = mem[q + Cap(k, l)]
         /\ copy_byte(x) = CopyAt(mem, p, q, l, k + 1, q + Cap(k, l) + 1)
<1>1. PICK M \in Nat : M = Extent(mem) /\ mem \in [0..(M - 1) -> Byte]
  BY DEF Clear, IsMemory
<1>2. p \in Nat /\ q \in Nat /\ l \in Nat /\ n \in Nat /\ q + l < M /\ p + n <= M
  BY <1>1 DEF Clear, StringAt
<1>3. \A i \in p..(p + n - 1) : i \notin q..(q + l)
  BY DEF Clear
<1>4. PICK c \in Nat : c = Cap(k, l) /\ c <= l
  BY <1>2 DEF Cap
<1>5. PICK m : m = Put(mem, p, q, l, k)
  OBVIOUS
<1>6. m = [i \in 0..(M - 1) |-> IF i \in p..(p + k - 1) THEN mem[q + Cap(i - p, l)] ELSE mem[i]]
  BY <1>1, <1>5 DEF Put
<1>7. q + c \in 0..(M - 1) /\ q + c \notin p..(p + k - 1)
  BY <1>2, <1>3, <1>4
<1>8. m[q + c] = mem[q + c]
  BY <1>6, <1>7
<1>9. x.mem = m /\ x.dst = p + k /\ x.src = q + c
  BY <1>4, <1>5 DEF CopyAt
<1>10. copy_byte(x) = [mem |-> [m EXCEPT ![p + k] = mem[q + c]], dst |-> (p + k) + 1, src |-> (q + c) + 1,
                       last |-> mem[q + c]]
  BY <1>8, <1>9 DEF copy_byte
<1>11. [m EXCEPT ![p + k] = mem[q + c]] = Put(mem, p, q, l, k + 1)
  <2>1. p + k \in 0..(M - 1)
    BY <1>2
  <2>2. Put(mem, p, q, l, k + 1) =
          [i \in 0..(M - 1) |-> IF i \in p..(p + (k + 1) - 1) THEN mem[q + Cap(i - p, l)] ELSE mem[i]]
    BY <1>1 DEF Put
  <2>3. ASSUME NEW i \in 0..(M - 1)
        PROVE  [m EXCEPT ![p + k] = mem[q + c]][i] = Put(mem, p, q, l, k + 1)[i]
    <3>1. CASE i = p + k
      <4>1. i - p = k /\ i \in p..(p + (k + 1) - 1)
        BY <1>2, <3>1
      <4>2. [m EXCEPT ![p + k] = mem[q + c]][i] = mem[q + c]
        BY <1>6, <2>1, <3>1
      <4>3. QED  BY <1>4, <2>2, <4>1, <4>2
    <3>2. CASE i # p + k
      <4>1. i \in p..(p + (k + 1) - 1) <=> i \in p..(p + k - 1)
        BY <1>2, <3>2
      <4>2. [m EXCEPT ![p + k] = mem[q + c]][i] = m[i]
        BY <1>6, <3>2
      <4>3. QED  BY <1>6, <2>2, <4>1, <4>2
    <3>3. QED  BY <3>1, <3>2
  <2>4. QED  BY <1>6, <2>2, <2>3
<1>12. CopyAt(mem, p, q, l, k + 1, q + Cap(k, l) + 1)
         = [mem |-> Put(mem, p, q, l, k + 1), dst |-> (p + k) + 1, src |-> (q + c) + 1, last |-> mem[q + c]]
  <2>1. p + (k + 1) = (p + k) + 1 /\ k + 1 # 0 /\ (k + 1) - 1 = k
    BY <1>2
  <2>2. QED  BY <1>4, <2>1 DEF CopyAt
<1>13. QED  BY <1>4, <1>8, <1>9, <1>10, <1>11, <1>12

LEMMA CopyStarts ==
  ASSUME NEW mem, NEW p, NEW q, NEW l, NEW n, Clear(mem, p, q, l, n)
  PROVE  Copying(mem, p, q) = CopyAt(mem, p, q, l, 0, q)
<1>1. PICK M \in Nat : M = Extent(mem) /\ mem \in [0..(M - 1) -> Byte] /\ p \in Nat
  BY DEF Clear, IsMemory
<1>2. \A i \in 0..(M - 1) : i \notin p..(p + 0 - 1)
  BY <1>1
<1>3. Put(mem, p, q, l, 0) = mem
  BY <1>1, <1>2 DEF Put
<1>4. QED  BY <1>1, <1>3 DEF Copying, CopyAt

\* The bytes of a string before its end.
LEMMA StringBytes ==
  ASSUME NEW mem, NEW p, NEW q, NEW l, NEW n, Clear(mem, p, q, l, n), NEW k \in Nat
  PROVE  /\ l \in Nat /\ n \in Nat /\ q \in Nat /\ Cap(k, l) \in Nat /\ Cap(k, l) <= l
         /\ (k <= l => Cap(k, l) = k) /\ (k >= l => Cap(k, l) = l)
         /\ mem[q + Cap(k, l)] # 0 <=> k < l
<1>1. l \in Nat /\ n \in Nat /\ q \in Nat /\ mem[q + l] = 0 /\ \A i \in 0..(l - 1) : mem[q + i] # 0
  BY DEF Clear, StringAt
<1>2. Cap(k, l) \in Nat /\ Cap(k, l) <= l /\ (k <= l => Cap(k, l) = k) /\ (k >= l => Cap(k, l) = l)
  BY <1>1 DEF Cap
<1>3. CASE k < l
  BY <1>1, <1>2, <1>3
<1>4. CASE ~(k < l)
  BY <1>1, <1>2, <1>4
<1>5. QED  BY <1>1, <1>2, <1>3, <1>4

LEMMA StrcpyIs ==
  ASSUME NEW mem, NEW p, NEW q, NEW l, Clear(mem, p, q, l, l + 1)
  PROVE  strcpy(mem, p, q) = Put(mem, p, q, l, l + 1)
<1>1. l \in Nat /\ q \in Nat /\ Extent(mem) \in Nat /\ q + l < Extent(mem)
  BY DEF Clear, IsMemory, StringAt
<1>2. PICK n \in Nat : n = Behind(mem, q) /\ l + 1 <= n
  BY <1>1 DEF Behind
<1> DEFINE f == CHOOSE h : h = [k \in 0..n |-> IF k = 0 THEN Copying(mem, p, q) ELSE copy_on(h[k - 1])]
           C(k) == CopyAt(mem, p, q, l, k, q + k)
<1>3. strcpy(mem, p, q) = f[n].mem
  BY <1>2, Zenon DEF strcpy
<1>4. ASSUME NEW k \in 0..l PROVE copy_on(C(k)) = C(k + 1)
  <2>1. k \in 0..((l + 1) - 1) /\ k \in Nat
    BY <1>1
  <2>2. Cap(k, l) = k
    BY <2>1, StringBytes
  <2>3. PICK x : x = C(k)
    OBVIOUS
  <2>4. copy_byte(x) = CopyAt(mem, p, q, l, k + 1, (q + k) + 1)
    BY <2>1, <2>2, <2>3, ByteCopied
  <2>5. x.last # 0
    <3>1. CASE k = 0
      BY <2>3, <3>1 DEF CopyAt
    <3>2. CASE k # 0
      <4>1. k - 1 \in Nat /\ k - 1 < l
        BY <1>1, <3>2
      <4>2. mem[q + Cap(k - 1, l)] # 0
        BY <4>1, StringBytes
      <4>3. QED  BY <2>3, <3>2, <4>2 DEF CopyAt
    <3>3. QED  BY <3>1, <3>2
  <2>6. (q + k) + 1 = q + (k + 1)
    BY <1>1
  <2>7. QED  BY <2>3, <2>4, <2>5, <2>6 DEF copy_on
<1>5. copy_on(C(l + 1)) = C(l + 1)
  <2>1. ~(mem[q + Cap((l + 1) - 1, l)] # 0) /\ l + 1 # 0
    <3>1. (l + 1) - 1 = l /\ l \in Nat /\ ~(l < l) /\ l + 1 # 0
      BY <1>1
    <3>2. ~(mem[q + Cap(l, l)] # 0)
      BY <3>1, StringBytes
    <3>3. QED  BY <3>1, <3>2
  <2>2. C(l + 1).last = 0
    BY <2>1 DEF CopyAt
  <2> HIDE DEF C
  <2>3. QED  BY <2>2 DEF copy_on
<1>6. C(0) = Copying(mem, p, q)
  <2>1. q + 0 = q
    BY <1>1
  <2>2. QED  BY <2>1, CopyStarts
<1> HIDE DEF C
<1>7. PICK g : g = [k \in 0..n |-> IF k <= l THEN C(k) ELSE C(l + 1)]
  OBVIOUS
<1>8. g[0] = Copying(mem, p, q)
  BY <1>1, <1>6, <1>7
<1>9. ASSUME NEW k \in 1..n PROVE g[k] = copy_on(g[k - 1])
  <2>1. k \in 0..n /\ k - 1 \in 0..n /\ (k - 1) + 1 = k
    OBVIOUS
  <2>2. CASE k <= l
    <3>1. g[k] = C(k) /\ g[k - 1] = C(k - 1) /\ k - 1 \in 0..l
      BY <1>1, <1>7, <2>1, <2>2
    <3>2. QED  BY <1>4, <2>1, <3>1
  <2>3. CASE k = l + 1
    <3>1. g[k] = C(l + 1) /\ g[k - 1] = C(l) /\ l \in 0..l
      BY <1>1, <1>7, <2>1, <2>3
    <3>2. QED  BY <1>4, <3>1
  <2>4. CASE k > l + 1
    <3>1. g[k] = C(l + 1) /\ g[k - 1] = C(l + 1)
      BY <1>1, <1>7, <2>1, <2>4
    <3>2. QED  BY <1>5, <3>1
  <2>5. QED  BY <1>1, <2>2, <2>3, <2>4
<1>10. \E h : h = [k \in 0..n |-> IF k = 0 THEN Copying(mem, p, q) ELSE copy_on(h[k - 1])]
  <2>1. \A k \in 0..n : g[k] = IF k = 0 THEN Copying(mem, p, q) ELSE copy_on(g[k - 1])
    BY <1>8, <1>9
  <2>2. g = [k \in 0..n |-> IF k = 0 THEN Copying(mem, p, q) ELSE copy_on(g[k - 1])]
    BY <1>7, <2>1
  <2>3. QED  BY <2>2
<1>11. f = [k \in 0..n |-> IF k = 0 THEN Copying(mem, p, q) ELSE copy_on(f[k - 1])]
  BY <1>10, Zenon
<1> HIDE DEF f
<1>12. f[0] = Copying(mem, p, q) /\ \A k \in 1..n : f[k] = copy_on(f[k - 1])
  BY <1>11
<1>13. f[n] = g[n]
  <2>1. f[0] = g[0] /\ \A k \in 1..n : f[k - 1] = g[k - 1] => f[k] = g[k]
    BY <1>8, <1>9, <1>12
  <2>2. QED  BY <2>1, TurnsAgree
<1>14. g[n] = C(l + 1)
  BY <1>1, <1>2, <1>7
<1>15. C(l + 1).mem = Put(mem, p, q, l, l + 1)
  BY DEF C, CopyAt
<1>16. QED  BY <1>3, <1>13, <1>14, <1>15

LEMMA StrncpyIs ==
  ASSUME NEW mem, NEW p, NEW q, NEW l, NEW n, Clear(mem, p, q, l, n)
  PROVE  strncpy(mem, p, q, n) = Put(mem, p, q, l, n)
<1>1. l \in Nat /\ n \in Nat /\ q \in Nat
  BY DEF Clear
<1> DEFINE f == CHOOSE h : h = [k \in 0..n |-> IF k = 0 THEN Copying(mem, p, q) ELSE pad_byte(h[k - 1])]
           C(k) == CopyAt(mem, p, q, l, k, q + Cap(k, l))
<1>2. strncpy(mem, p, q, n) = f[n].mem
  BY Zenon DEF strncpy
<1>3. ASSUME NEW k \in 0..(n - 1) PROVE pad_byte(C(k)) = C(k + 1)
  <2>1. k \in Nat /\ k + 1 \in Nat
    OBVIOUS
  <2>2. PICK x : x = C(k)
    OBVIOUS
  <2>3. PICK c \in Nat : c = Cap(k, l) /\ (k <= l => c = k) /\ (k >= l => c = l) /\ (mem[q + c] # 0 <=> k < l)
    BY <2>1, StringBytes
  <2>4. x.mem[x.src] = mem[q + c] /\ copy_byte(x) = CopyAt(mem, p, q, l, k + 1, q + c + 1) /\ x.src = q + c
    <3>1. x.src = q + c
      BY <2>2, <2>3 DEF CopyAt
    <3>2. QED  BY <2>2, <2>3, <3>1, ByteCopied
  <2>5. CASE k < l
    <3>1. Cap(k + 1, l) = k + 1 /\ q + c + 1 = q + (k + 1)
      BY <1>1, <2>1, <2>3, <2>5 DEF Cap
    <3>2. QED  BY <2>2, <2>3, <2>4, <2>5, <3>1 DEF pad_byte
  <2>6. CASE ~(k < l)
    <3>1. Cap(k + 1, l) = l /\ c = l
      BY <1>1, <2>1, <2>3, <2>6 DEF Cap
    <3>2. pad_byte(x) = [copy_byte(x) EXCEPT !.src = x.src]
      BY <2>3, <2>4, <2>6 DEF pad_byte
    <3>3. [copy_byte(x) EXCEPT !.src = q + l] = CopyAt(mem, p, q, l, k + 1, q + l)
      BY <2>4 DEF CopyAt
    <3>4. QED  BY <2>2, <2>4, <3>1, <3>2, <3>3
  <2>7. QED  BY <2>5, <2>6
<1>4. C(0) = Copying(mem, p, q)
  <2>1. q + Cap(0, l) = q
    BY <1>1 DEF Cap
  <2>2. QED  BY <2>1, CopyStarts
<1> HIDE DEF C
<1>5. PICK g : g = [k \in 0..n |-> C(k)]
  OBVIOUS
<1>6. g[0] = Copying(mem, p, q)
  BY <1>1, <1>4, <1>5
<1>7. ASSUME NEW k \in 1..n PROVE g[k] = pad_byte(g[k - 1])
  <2>1. k \in 0..n /\ k - 1 \in 0..n /\ (k - 1) + 1 = k /\ k - 1 \in 0..(n - 1)
    BY <1>1
  <2>2. g[k] = C(k) /\ g[k - 1] = C(k - 1)
    BY <1>5, <2>1
  <2>3. QED  BY <1>3, <2>1, <2>2
<1>8. \E h : h = [k \in 0..n |-> IF k = 0 THEN Copying(mem, p, q) ELSE pad_byte(h[k - 1])]
  <2>1. \A k \in 0..n : g[k] = IF k = 0 THEN Copying(mem, p, q) ELSE pad_byte(g[k - 1])
    BY <1>1, <1>6, <1>7
  <2>2. g = [k \in 0..n |-> IF k = 0 THEN Copying(mem, p, q) ELSE pad_byte(g[k - 1])]
    BY <1>5, <2>1
  <2>3. QED  BY <2>2
<1>9. f = [k \in 0..n |-> IF k = 0 THEN Copying(mem, p, q) ELSE pad_byte(f[k - 1])]
  BY <1>8, Zenon
<1> HIDE DEF f
<1>10. f[0] = Copying(mem, p, q) /\ \A k \in 1..n : f[k] = pad_byte(f[k - 1])
  BY <1>1, <1>9
<1>11. f[n] = g[n]
  <2>1. f[0] = g[0] /\ \A k \in 1..n : f[k - 1] = g[k - 1] => f[k] = g[k]
    BY <1>6, <1>7, <1>10
  <2>2. QED  BY <1>1, <2>1, TurnsAgree
<1>12. g[n] = C(n) /\ C(n).mem = Put(mem, p, q, l, n)
  BY <1>1, <1>5 DEF C, CopyAt
<1>13. QED  BY <1>2, <1>11, <1>12

LEMMA StrlcpyIs ==
  ASSUME NEW mem, NEW p, NEW q, NEW l, NEW n \in Nat \ {0}, NEW c, c = Cap(n - 1, l), Clear(mem, p, q, l, c + 1)
  PROVE  strlcpy(mem, p, q, n) = <<[Put(mem, p, q, l, c) EXCEPT ![p + c] = 0], c>>
<1>1. l \in Nat /\ q \in Nat /\ p \in Nat
  BY DEF Clear
<1>2. PICK m \in Nat : m = n - 1
  OBVIOUS
<1>3. c \in Nat /\ c <= m /\ c <= l /\ (c < m => c = l)
  BY <1>1, <1>2 DEF Cap
<1> DEFINE f == CHOOSE h : h = [k \in 0..(n - 1) |-> IF k = 0 THEN Copying(mem, p, q) ELSE copy_some(h[k - 1])]
           C(k) == CopyAt(mem, p, q, l, k, q + k)
<1>4. strlcpy(mem, p, q, n) = <<[f[n - 1].mem EXCEPT ![f[n - 1].dst] = 0], f[n - 1].dst - p>>
  BY Zenon DEF strlcpy
<1>5. ASSUME NEW k \in 0..c PROVE /\ k < l => copy_some(C(k)) = C(k + 1)
                                  /\ k = l => copy_some(C(k)) = C(k)
  <2>1. k \in 0..((c + 1) - 1) /\ k \in Nat /\ k <= l
    BY <1>1, <1>3
  <2>2. Cap(k, l) = k /\ (mem[q + k] # 0 <=> k < l)
    <3>1. Cap(k, l) = k /\ (mem[q + Cap(k, l)] # 0 <=> k < l)
      BY <2>1, StringBytes
    <3>2. QED  BY <3>1
  <2>3. PICK x : x = C(k)
    OBVIOUS
  <2>4. x.mem[x.src] = mem[q + k] /\ copy_byte(x) = CopyAt(mem, p, q, l, k + 1, (q + k) + 1)
    BY <2>1, <2>2, <2>3, ByteCopied
  <2>5. (q + k) + 1 = q + (k + 1)
    BY <1>1
  <2>6. QED  BY <2>1, <2>2, <2>3, <2>4, <2>5 DEF copy_some
<1>6. C(0) = Copying(mem, p, q)
  <2>1. q + 0 = q
    BY <1>1
  <2>2. QED  BY <2>1, CopyStarts
<1> HIDE DEF C
<1>7. PICK g : g = [k \in 0..m |-> IF k <= c THEN C(k) ELSE C(c)]
  OBVIOUS
<1>8. g[0] = Copying(mem, p, q)
  BY <1>3, <1>6, <1>7
<1>9. ASSUME NEW k \in 1..m PROVE g[k] = copy_some(g[k - 1])
  <2>1. k \in 0..m /\ k - 1 \in 0..m /\ (k - 1) + 1 = k
    OBVIOUS
  <2>2. CASE k <= c
    <3>1. g[k] = C(k) /\ g[k - 1] = C(k - 1) /\ k - 1 \in 0..c /\ k - 1 < l
      BY <1>1, <1>3, <1>7, <2>1, <2>2
    <3>2. QED  BY <1>5, <2>1, <3>1
  <2>3. CASE ~(k <= c)
    <3>1. g[k] = C(c) /\ g[k - 1] = C(c) /\ c \in 0..c /\ c = l
      <4>1. CASE k - 1 = c
        BY <1>3, <1>7, <2>1, <2>3, <4>1
      <4>2. CASE k - 1 # c
        BY <1>3, <1>7, <2>1, <2>3, <4>2
      <4>3. QED  BY <4>1, <4>2
    <3>2. QED  BY <1>5, <3>1
  <2>4. QED  BY <2>2, <2>3
<1>10. \E h : h = [k \in 0..(n - 1) |-> IF k = 0 THEN Copying(mem, p, q) ELSE copy_some(h[k - 1])]
  <2>1. \A k \in 0..m : g[k] = IF k = 0 THEN Copying(mem, p, q) ELSE copy_some(g[k - 1])
    BY <1>8, <1>9
  <2>2. g = [k \in 0..m |-> IF k = 0 THEN Copying(mem, p, q) ELSE copy_some(g[k - 1])]
    BY <1>7, <2>1
  <2>3. QED  BY <1>2, <2>2
<1>11. f = [k \in 0..(n - 1) |-> IF k = 0 THEN Copying(mem, p, q) ELSE copy_some(f[k - 1])]
  BY <1>10, Zenon
<1> HIDE DEF f
<1>12. f[0] = Copying(mem, p, q) /\ \A k \in 1..m : f[k] = copy_some(f[k - 1])
  BY <1>2, <1>11
<1>13. f[m] = g[m]
  <2>1. f[0] = g[0] /\ \A k \in 1..m : f[k - 1] = g[k - 1] => f[k] = g[k]
    BY <1>8, <1>9, <1>12
  <2>2. QED  BY <2>1, TurnsAgree
<1>14. g[m] = C(c)
  BY <1>3, <1>7
<1>15. C(c).mem = Put(mem, p, q, l, c) /\ C(c).dst = p + c
  BY DEF C, CopyAt
<1>16. (p + c) - p = c
  BY <1>1, <1>3
<1>17. QED  BY <1>2, <1>4, <1>13, <1>14, <1>15, <1>16

\* The string at s.
LEMMA StringIs ==
  ASSUME NEW mem, NEW s \in Nat, NEW k \in Nat, IsMemory(mem), StringAt(mem, s, k)
  PROVE  String(mem, s) = Bytes(mem, s, k)
<1>1. Extent(mem) \in Nat /\ s + k < Extent(mem) /\ mem[s + k] = 0 /\ \A i \in 0..(k - 1) : mem[s + i] # 0
  BY DEF IsMemory, StringAt
<1>2. k \in 0..Extent(mem)
  BY <1>1
<1>3. \A j \in 0..Extent(mem) :
        (mem[s + j] = 0 /\ \A i \in 0..(j - 1) : mem[s + i] # 0) => j = k
  <2> SUFFICES ASSUME NEW j \in 0..Extent(mem), mem[s + j] = 0, \A i \in 0..(j - 1) : mem[s + i] # 0
               PROVE  j = k
    OBVIOUS
  <2>1. ~(j < k) /\ ~(k < j)
    BY <1>1
  <2>2. QED  BY <2>1
<1>4. k = CHOOSE j \in 0..Cardinality(DOMAIN mem) : mem[s + j] = 0 /\ \A i \in 0..(j - 1) : mem[s + i] # 0
  BY <1>1, <1>2, <1>3 DEF Extent
<1>5. QED  BY <1>4, Zenon DEF String

LEMMA BytesAre ==
  ASSUME NEW mem, IsMemory(mem), NEW s \in Nat, NEW k \in Nat, s + k <= Extent(mem)
  PROVE  /\ Bytes(mem, s, k) \in Seq(Byte) /\ Len(Bytes(mem, s, k)) = k
         /\ \A i \in 1..k : Bytes(mem, s, k)[i] = mem[s + i - 1]
         /\ \A i \in 0..(k - 1) : Bytes(mem, s, k)[i + 1] = mem[s + i]
<1>1. PICK M \in Nat : M = Extent(mem) /\ mem \in [0..(M - 1) -> Byte]
  BY DEF IsMemory
<1>2. PICK b : b = Bytes(mem, s, k) /\ b = [i \in 1..k |-> mem[s + i - 1]]
  BY DEF Bytes
<1>3. \A i \in 1..k : s + i - 1 \in 0..(M - 1)
  BY <1>1
<1>4. b \in [1..k -> Byte]
  BY <1>1, <1>2, <1>3
<1>5. b \in Seq(Byte) /\ Len(b) = k
  BY <1>4
<1>6. \A i \in 1..k : b[i] = mem[s + i - 1]
  BY <1>2
<1>7. ASSUME NEW i \in 0..(k - 1) PROVE b[i + 1] = mem[s + i]
  <2>1. i + 1 \in 1..k /\ s + (i + 1) - 1 = s + i
    OBVIOUS
  <2>2. QED  BY <1>6, <2>1
<1>8. QED  BY <1>2, <1>5, <1>6, <1>7

LEMMA SeqFunction ==
  ASSUME NEW S, NEW s \in Seq(S), NEW k, k = Len(s)
  PROVE  k \in Nat /\ s \in [1..k -> S]
BY LenProperties, Zenon

LEMMA CutIs ==
  ASSUME NEW s \in Seq(Byte), NEW k \in Nat
  PROVE  /\ Cut(s, k) \in Seq(Byte) /\ Len(Cut(s, k)) = Cap(k, Len(s))
         /\ \A i \in 1..Cap(k, Len(s)) : Cut(s, k)[i] = s[i]
         /\ k >= Len(s) => Cut(s, k) = s
<1>1. PICK l \in Nat : l = Len(s)
  OBVIOUS
<1>2. PICK c \in Nat : c = Cap(k, l) /\ c <= l /\ (k >= l => c = l)
  BY <1>1 DEF Cap
<1>3. PICK t : t = Cut(s, k) /\ t = [i \in 1..c |-> s[i]]
  BY <1>1, <1>2 DEF Cut, Cap
<1>4. t \in [1..c -> Byte] /\ s \in [1..l -> Byte]
  <2>2. s \in [1..l -> Byte]
    BY <1>1, SeqFunction
  <2>3. \A i \in 1..c : i \in 1..l
    BY <1>2
  <2>4. QED  BY <1>3, <2>2, <2>3
<1>5. t \in Seq(Byte) /\ Len(t) = c
  BY <1>3, <1>4
<1>6. \A i \in 1..c : t[i] = s[i]
  BY <1>3
<1>7. ASSUME k >= l PROVE t = s
  BY <1>2, <1>4, <1>6, <1>7
<1>8. QED  BY <1>1, <1>2, <1>3, <1>5, <1>6, <1>7

\* The order of two sequences is decided where they differ first.
LEMMA OrderAt ==
  ASSUME NEW a \in Seq(Byte), NEW b \in Seq(Byte), NEW k \in Nat, k <= Len(a), k <= Len(b),
         \A i \in 1..k : a[i] = b[i]
  PROVE  /\ k = Len(a) /\ k = Len(b) => Order(a, b) = 0
         /\ k = Len(a) /\ k < Len(b) => Order(a, b) = -1
         /\ k < Len(a) /\ k = Len(b) => Order(a, b) = 1
         /\ k < Len(a) /\ k < Len(b) /\ a[k + 1] # b[k + 1] => Order(a, b) = Sign(a[k + 1] - b[k + 1])
<1>1. PICK m \in Nat : m = Len(a) /\ k <= m
  OBVIOUS
<1>2. PICK l \in Nat : l = Len(b) /\ k <= l
  OBVIOUS
<1>3. ASSUME k = m, k = l PROVE Order(a, b) = 0
  <2>1. a \in [1..k -> Byte] /\ b \in [1..k -> Byte]
    <3>1. k = Len(a) /\ k = Len(b)
      BY <1>1, <1>2, <1>3
    <3>2. a \in [1..k -> Byte]
      BY <3>1, SeqFunction
    <3>3. b \in [1..k -> Byte]
      BY <3>1, SeqFunction
    <3>4. QED  BY <3>2, <3>3
  <2>a. a = b
    BY <2>1
  <2>2. QED  BY <2>a, Zenon DEF Order
<1> DEFINE d == {i \in 1..(Len(a) + Len(b)) : i > Len(a) \/ i > Len(b) \/ a[i] # b[i]}
<1>4. ASSUME \/ k = m /\ k < l
             \/ k < m /\ k = l
             \/ k < m /\ k < l /\ a[k + 1] # b[k + 1]
      PROVE  /\ Order(a, b) = IF k + 1 > m THEN -1 ELSE IF k + 1 > l THEN 1 ELSE Sign(a[k + 1] - b[k + 1])
  <2>1. a # b
    BY <1>1, <1>2, <1>4
  <2>2. k + 1 \in d
    BY <1>1, <1>2, <1>4
  <2>3. \A i \in d : k + 1 <= i
    <3> SUFFICES ASSUME NEW i \in d, ~(k + 1 <= i) PROVE FALSE
      OBVIOUS
    <3>1. i \in 1..k /\ i <= m /\ i <= l
      BY <1>1, <1>2
    <3>2. QED  BY <1>1, <1>2, <3>1
  <2> DEFINE x == CHOOSE i \in d : \A j \in d : i <= j
  <2>4. Order(a, b) = IF a = b THEN 0 ELSE IF x > Len(a) THEN -1 ELSE IF x > Len(b) THEN 1 ELSE Sign(a[x] - b[x])
    BY Zenon DEF Order
  <2>5. x \in d /\ \A j \in d : x <= j
    <3> HIDE DEF d
    <3>1. QED  BY <2>2, <2>3, Zenon
  <2> HIDE DEF x
  <2>6. x = k + 1
    BY <2>2, <2>3, <2>5
  <2> HIDE DEF d
  <2>7. QED  BY <1>1, <1>2, <2>1, <2>4, <2>6
<1> HIDE DEF d
<1>5. ASSUME k = m, k < l PROVE Order(a, b) = -1
  BY <1>1, <1>2, <1>4, <1>5
<1>6. ASSUME k < m, k = l PROVE Order(a, b) = 1
  <2>1. ~(k + 1 > m) /\ k + 1 > l
    BY <1>1, <1>2, <1>6
  <2>2. QED  BY <1>4, <1>6, <2>1
<1>7. ASSUME k < m, k < l, a[k + 1] # b[k + 1] PROVE Order(a, b) = Sign(a[k + 1] - b[k + 1])
  <2>1. ~(k + 1 > m) /\ ~(k + 1 > l)
    BY <1>1, <1>2, <1>7
  <2>2. QED  BY <1>4, <1>7, <2>1
<1>8. QED  BY <1>1, <1>2, <1>3, <1>5, <1>6, <1>7

\* The strings at p and q, of k and l bytes.
TwoStrings(mem, p, k, q, l) ==
  /\ IsMemory(mem) /\ p \in Nat /\ k \in Nat /\ q \in Nat /\ l \in Nat
  /\ StringAt(mem, p, k) /\ StringAt(mem, q, l)

\* What strcmp and strncmp return when they stop at byte r.
LEMMA Compared ==
  ASSUME NEW mem, NEW p, NEW k, NEW q, NEW l, TwoStrings(mem, p, k, q, l),
         NEW n \in Nat, NEW r \in 0..(n - 1), \A i \in 0..(r - 1) : mem[p + i] # 0 /\ mem[p + i] = mem[q + i],
         mem[p + r] = 0 \/ mem[p + r] # mem[q + r]
  PROVE  Sign(mem[p + r] - mem[q + r]) = Order(Cut(String(mem, p), n), Cut(String(mem, q), n))
<1>1. PICK M \in Nat : M = Extent(mem) /\ mem \in [0..(M - 1) -> Byte]
  BY DEF TwoStrings, IsMemory
<1>2. /\ p \in Nat /\ k \in Nat /\ q \in Nat /\ l \in Nat /\ p + k < M /\ q + l < M
      /\ mem[p + k] = 0 /\ mem[q + l] = 0
      /\ \A i \in 0..(k - 1) : mem[p + i] # 0
      /\ \A i \in 0..(l - 1) : mem[q + i] # 0
  BY <1>1 DEF TwoStrings, StringAt
<1>3. r \in Nat /\ r <= k /\ r <= l
  <2>1. ~(k < r)
    BY <1>2
  <2>2. ~(l < r)
    BY <1>2
  <2>3. QED  BY <1>2, <2>1, <2>2
<1>4. PICK a \in Seq(Byte) : /\ a = String(mem, p) /\ Len(a) = k
                               /\ \A i \in 0..(k - 1) : a[i + 1] = mem[p + i]
  <2>1. String(mem, p) = Bytes(mem, p, k)
    BY StringIs DEF TwoStrings
  <2>2. IsMemory(mem) /\ p + k <= Extent(mem)
    BY <1>1, <1>2 DEF TwoStrings
  <2>3. QED  BY <1>2, <2>1, <2>2, BytesAre
<1>5. PICK b \in Seq(Byte) : /\ b = String(mem, q) /\ Len(b) = l
                               /\ \A i \in 0..(l - 1) : b[i + 1] = mem[q + i]
  <2>1. String(mem, q) = Bytes(mem, q, l)
    BY StringIs DEF TwoStrings
  <2>2. IsMemory(mem) /\ q + l <= Extent(mem)
    BY <1>1, <1>2 DEF TwoStrings
  <2>3. QED  BY <1>2, <2>1, <2>2, BytesAre
<1>6. PICK A \in Seq(Byte) : A = Cut(a, n) /\ Len(A) = Cap(n, k) /\ \A i \in 1..Cap(n, k) : A[i] = a[i]
  <2>1. PICK A : A = Cut(a, n)
    OBVIOUS
  <2>2. A \in Seq(Byte) /\ Len(A) = Cap(n, Len(a)) /\ \A i \in 1..Cap(n, Len(a)) : A[i] = a[i]
    BY <2>1, CutIs
  <2>3. Cap(n, Len(a)) = Cap(n, k)
    BY <1>4
  <2>4. QED  BY <2>1, <2>2, <2>3
<1>7. PICK B \in Seq(Byte) : B = Cut(b, n) /\ Len(B) = Cap(n, l) /\ \A i \in 1..Cap(n, l) : B[i] = b[i]
  <2>1. PICK B : B = Cut(b, n)
    OBVIOUS
  <2>2. B \in Seq(Byte) /\ Len(B) = Cap(n, Len(b)) /\ \A i \in 1..Cap(n, Len(b)) : B[i] = b[i]
    BY <2>1, CutIs
  <2>3. Cap(n, Len(b)) = Cap(n, l)
    BY <1>5
  <2>4. QED  BY <2>1, <2>2, <2>3
<1>8. /\ Cap(n, k) \in Nat /\ r <= Cap(n, k) /\ (r = Cap(n, k) <=> r = k)
      /\ Cap(n, l) \in Nat /\ r <= Cap(n, l) /\ (r = Cap(n, l) <=> r = l)
  BY <1>2, <1>3 DEF Cap
<1>9. ASSUME NEW i \in 0..(r - 1) PROVE A[i + 1] = B[i + 1]
  <2>1. i + 1 \in 1..Cap(n, k) /\ i + 1 \in 1..Cap(n, l) /\ i \in 0..(k - 1) /\ i \in 0..(l - 1)
    <3>1. PICK x \in Nat : x = Cap(n, k) /\ r <= x
      BY <1>8
    <3>2. PICK y \in Nat : y = Cap(n, l) /\ r <= y
      BY <1>8
    <3>3. i + 1 \in 1..x /\ i + 1 \in 1..y /\ i \in 0..(k - 1) /\ i \in 0..(l - 1)
      BY <1>2, <1>3, <3>1, <3>2, SMTT(30)
    <3>4. QED  BY <3>1, <3>2, <3>3
  <2>2. A[i + 1] = mem[p + i] /\ B[i + 1] = mem[q + i]
    BY <1>4, <1>5, <1>6, <1>7, <2>1
  <2>3. QED  BY <2>2
<1>10. \A i \in 1..r : A[i] = B[i]
  <2> TAKE i \in 1..r
  <2>1. PICK j \in 0..(r - 1) : i = j + 1
    <3>1. i - 1 \in 0..(r - 1) /\ i = (i - 1) + 1
      BY <1>3
    <3>2. QED  BY <3>1
  <2>2. QED  BY <1>9, <2>1
<1>a. r <= Len(A) /\ r <= Len(B) /\ (r = Len(A) <=> r = k) /\ (r = Len(B) <=> r = l)
  BY <1>6, <1>7, <1>8
<1>b. /\ r = Len(A) /\ r = Len(B) => Order(A, B) = 0
      /\ r = Len(A) /\ r < Len(B) => Order(A, B) = -1
      /\ r < Len(A) /\ r = Len(B) => Order(A, B) = 1
      /\ r < Len(A) /\ r < Len(B) /\ A[r + 1] # B[r + 1] => Order(A, B) = Sign(A[r + 1] - B[r + 1])
  BY <1>3, <1>a, <1>10, OrderAt
<1>c. Len(A) \in Nat /\ Len(B) \in Nat
  OBVIOUS
<1>11. PICK x \in 0..255 : x = mem[p + r]
  <2>1. p + r \in 0..(M - 1)
    BY <1>2, <1>3
  <2>2. mem[p + r] \in Byte
    BY <1>1, <2>1
  <2>3. QED  BY <2>2 DEF Byte
<1>12. PICK y \in 0..255 : y = mem[q + r]
  <2>1. q + r \in 0..(M - 1)
    BY <1>2, <1>3
  <2>2. mem[q + r] \in Byte
    BY <1>1, <2>1
  <2>3. QED  BY <2>2 DEF Byte
<1>13. (x = 0 <=> r = k) /\ (y = 0 <=> r = l)
  <2>1. ASSUME r < k PROVE x # 0
    <3>1. r \in 0..(k - 1)
      BY <1>2, <1>3, <2>1
    <3>2. QED  BY <1>2, <1>11, <3>1
  <2>2. ASSUME r < l PROVE y # 0
    <3>1. r \in 0..(l - 1)
      BY <1>2, <1>3, <2>2
    <3>2. QED  BY <1>2, <1>12, <3>1
  <2>3. r = k => x = 0
    BY <1>2, <1>11
  <2>4. r = l => y = 0
    BY <1>2, <1>12
  <2>5. QED  BY <1>2, <1>3, <2>1, <2>2, <2>3, <2>4
<1>14. CASE r = k /\ r = l
  <2>1. Order(A, B) = 0
    BY <1>3, <1>a, <1>b, <1>c, <1>14
  <2>2. Sign(x - y) = 0
    BY <1>13, <1>14 DEF Sign
  <2>3. QED  BY <1>4, <1>5, <1>6, <1>7, <1>11, <1>12, <2>1, <2>2
<1>15. CASE r = k /\ r # l
  <2>1. Order(A, B) = -1
    BY <1>3, <1>a, <1>b, <1>c, <1>15
  <2>2. Sign(x - y) = -1
    BY <1>13, <1>15 DEF Sign
  <2>3. QED  BY <1>4, <1>5, <1>6, <1>7, <1>11, <1>12, <2>1, <2>2
<1>16. CASE r # k /\ r = l
  <2>1. Order(A, B) = 1
    BY <1>3, <1>a, <1>b, <1>c, <1>16
  <2>2. Sign(x - y) = 1
    BY <1>13, <1>16 DEF Sign
  <2>3. QED  BY <1>4, <1>5, <1>6, <1>7, <1>11, <1>12, <2>1, <2>2
<1>17. CASE r # k /\ r # l
  <2>1. r + 1 \in 1..Cap(n, k) /\ r + 1 \in 1..Cap(n, l) /\ r \in 0..(k - 1) /\ r \in 0..(l - 1)
    <3>1. PICK v \in Nat : v = Cap(n, k) /\ r <= v /\ r # v
      BY <1>8, <1>17
    <3>2. PICK u \in Nat : u = Cap(n, l) /\ r <= u /\ r # u
      BY <1>8, <1>17
    <3>3. r + 1 \in 1..v /\ r + 1 \in 1..u /\ r \in 0..(k - 1) /\ r \in 0..(l - 1)
      BY <1>2, <1>3, <1>17, <3>1, <3>2, SMTT(30)
    <3>4. QED  BY <3>1, <3>2, <3>3
  <2>2. A[r + 1] = x /\ B[r + 1] = y
    BY <1>4, <1>5, <1>6, <1>7, <1>11, <1>12, <2>1
  <2>3. x # y
    BY <1>11, <1>12, <1>13, <1>17
  <2>4. r < Len(A) /\ r < Len(B)
    BY <1>6, <1>7, <1>8, <2>1
  <2>5. Order(A, B) = Sign(A[r + 1] - B[r + 1])
    BY <1>b, <2>2, <2>3, <2>4
  <2>6. QED  BY <1>4, <1>5, <1>6, <1>7, <1>11, <1>12, <2>2, <2>5
<1>18. QED  BY <1>14, <1>15, <1>16, <1>17

\* A string as a sequence of bytes.
LEMMA StringSeq ==
  ASSUME NEW mem, NEW s \in Nat, NEW k \in Nat, IsMemory(mem), StringAt(mem, s, k)
  PROVE  /\ String(mem, s) \in Seq(Byte) /\ Len(String(mem, s)) = k
         /\ \A i \in 1..k : String(mem, s)[i] = mem[s + i - 1]
         /\ \A i \in 0..(k - 1) : String(mem, s)[i + 1] = mem[s + i]
<1>1. String(mem, s) = Bytes(mem, s, k)
  BY StringIs
<1>2. s + k <= Extent(mem)
  <2>1. Extent(mem) \in Nat /\ s + k < Extent(mem)
    BY DEF IsMemory, StringAt
  <2>2. QED  BY <2>1
<1>3. Bytes(mem, s, k) \in Seq(Byte) /\ Len(Bytes(mem, s, k)) = k
  BY <1>2, BytesAre
<1>4. \A i \in 1..k : Bytes(mem, s, k)[i] = mem[s + i - 1]
  BY DEF Bytes
<1>5. \A i \in 0..(k - 1) : Bytes(mem, s, k)[i + 1] = mem[s + i]
  <2> TAKE i \in 0..(k - 1)
  <2>1. i + 1 \in 1..k /\ s + (i + 1) - 1 = s + i
    OBVIOUS
  <2>2. QED  BY <1>4, <2>1
<1>6. QED  BY <1>1, <1>3, <1>4, <1>5

LEMMA StrncmpRight ==
  ASSUME NEW mem, NEW p, NEW k, NEW q, NEW l, TwoStrings(mem, p, k, q, l), NEW n \in Nat
  PROVE  Sign(strncmp(mem, p, q, n)) = Order(Cut(String(mem, p), n), Cut(String(mem, q), n))
<1> DEFINE go == {j \in 0..(n - 1) : mem[p + j] # 0 /\ mem[p + j] = mem[q + j]}
<1>1. PICK r : r = scan(go, n) /\ StopsAt(go, n, r)
  BY ScanStops
<1>2. strncmp(mem, p, q, n) = IF r = n THEN 0 ELSE mem[p + r] - mem[q + r]
  BY <1>1, Zenon DEF strncmp
<1>3. r \in 0..n /\ \A i \in 0..(r - 1) : mem[p + i] # 0 /\ mem[p + i] = mem[q + i]
  BY <1>1 DEF StopsAt
<1>4. CASE r # n
  <2>1. r \in 0..(n - 1) /\ (mem[p + r] = 0 \/ mem[p + r] # mem[q + r])
    BY <1>1, <1>3, <1>4 DEF StopsAt
  <2>2. Sign(mem[p + r] - mem[q + r]) = Order(Cut(String(mem, p), n), Cut(String(mem, q), n))
    BY <1>3, <2>1, Compared
  <2>3. QED  BY <1>2, <1>4, <2>2
<1>5. CASE r = n
  <2>1. /\ p \in Nat /\ k \in Nat /\ q \in Nat /\ l \in Nat
        /\ mem[p + k] = 0 /\ mem[q + l] = 0
    BY DEF TwoStrings, StringAt
  <2>2. n <= k /\ n <= l
    <3>1. ~(k < n)
      BY <1>3, <1>5, <2>1
    <3>2. ~(l < n)
      BY <1>3, <1>5, <2>1
    <3>3. QED  BY <2>1, <3>1, <3>2
  <2>3. PICK a \in Seq(Byte) : a = String(mem, p) /\ Len(a) = k /\ \A i \in 0..(k - 1) : a[i + 1] = mem[p + i]
    BY <2>1, StringSeq DEF TwoStrings
  <2>4. PICK b \in Seq(Byte) : b = String(mem, q) /\ Len(b) = l /\ \A i \in 0..(l - 1) : b[i + 1] = mem[q + i]
    BY <2>1, StringSeq DEF TwoStrings
  <2>5. Cap(n, k) = n /\ Cap(n, l) = n
    BY <2>1, <2>2 DEF Cap
  <2>6. PICK A \in Seq(Byte) : A = Cut(a, n) /\ Len(A) = n /\ \A i \in 1..n : A[i] = a[i]
    <3>1. PICK A \in Seq(Byte) : /\ A = Cut(a, n) /\ Len(A) = Cap(n, Len(a))
                                   /\ \A i \in 1..Cap(n, Len(a)) : A[i] = a[i]
      BY CutIs
    <3>2. Cap(n, Len(a)) = n
      BY <2>3, <2>5
    <3>3. QED  BY <3>1, <3>2
  <2>7. PICK B \in Seq(Byte) : B = Cut(b, n) /\ Len(B) = n /\ \A i \in 1..n : B[i] = b[i]
    <3>1. PICK B \in Seq(Byte) : /\ B = Cut(b, n) /\ Len(B) = Cap(n, Len(b))
                                   /\ \A i \in 1..Cap(n, Len(b)) : B[i] = b[i]
      BY CutIs
    <3>2. Cap(n, Len(b)) = n
      BY <2>4, <2>5
    <3>3. QED  BY <3>1, <3>2
  <2>8. \A i \in 1..n : A[i] = B[i]
    <3> TAKE i \in 1..n
    <3>1. PICK j \in 0..(n - 1) : i = j + 1
      <4>1. i - 1 \in 0..(n - 1) /\ i = (i - 1) + 1
        OBVIOUS
      <4>2. QED  BY <4>1
    <3>2. j \in 0..(k - 1) /\ j \in 0..(l - 1)
      BY <2>1, <2>2
    <3>3. A[i] = mem[p + j] /\ B[i] = mem[q + j]
      BY <2>3, <2>4, <2>6, <2>7, <3>1, <3>2
    <3>4. QED  BY <1>3, <1>5, <3>3
  <2>9. Order(A, B) = 0
    <3>1. n <= Len(A) /\ n <= Len(B)
      BY <2>6, <2>7
    <3>2. n = Len(A) /\ n = Len(B) => Order(A, B) = 0
      BY <2>8, <3>1, OrderAt
    <3>3. QED  BY <2>6, <2>7, <3>2
  <2>10. Sign(0) = 0
    BY DEF Sign
  <2>11. QED  BY <1>2, <1>5, <2>3, <2>4, <2>6, <2>7, <2>9, <2>10
<1>6. QED  BY <1>4, <1>5

LEMMA StrcmpRight ==
  ASSUME NEW mem, NEW p, NEW k, NEW q, NEW l, TwoStrings(mem, p, k, q, l)
  PROVE  Sign(strcmp(mem, p, q)) = Order(String(mem, p), String(mem, q))
<1>1. PICK M \in Nat : M = Extent(mem)
  BY DEF TwoStrings, IsMemory
<1>2. /\ p \in Nat /\ k \in Nat /\ q \in Nat /\ l \in Nat /\ p + k < M /\ q + l < M
      /\ mem[p + k] = 0 /\ mem[q + l] = 0
  BY <1>1 DEF TwoStrings, StringAt
<1>3. PICK n \in Nat : n = Behind(mem, IF p < q THEN q ELSE p) /\ (k < n \/ l < n)
  BY <1>1, <1>2 DEF Behind
<1> DEFINE go == {j \in 0..(n - 1) : mem[p + j] # 0 /\ mem[p + j] = mem[q + j]}
<1>4. PICK r : r = scan(go, n) /\ StopsAt(go, n, r)
  BY ScanStops
<1>5. strcmp(mem, p, q) = strncmp(mem, p, q, n)
  BY <1>3 DEF strcmp
<1>6. strncmp(mem, p, q, n) = IF r = n THEN 0 ELSE mem[p + r] - mem[q + r]
  BY <1>4, Zenon DEF strncmp
<1>7. r \in 0..n /\ \A i \in 0..(r - 1) : mem[p + i] # 0 /\ mem[p + i] = mem[q + i]
  BY <1>4 DEF StopsAt
<1>8. ~(k < r) /\ ~(l < r)
  BY <1>2, <1>7
<1>9. r \in 0..(n - 1) /\ (mem[p + r] = 0 \/ mem[p + r] # mem[q + r])
  BY <1>2, <1>3, <1>4, <1>7, <1>8 DEF StopsAt
<1>10. PICK m \in Nat : m = k + l + n
  BY <1>2
<1>11. r \in 0..(m - 1) /\ m >= k /\ m >= l
  BY <1>2, <1>9, <1>10
<1>12. Sign(mem[p + r] - mem[q + r]) = Order(Cut(String(mem, p), m), Cut(String(mem, q), m))
  BY <1>7, <1>9, <1>11, Compared
<1>13. Cut(String(mem, p), m) = String(mem, p)
  <2>1. String(mem, p) \in Seq(Byte) /\ Len(String(mem, p)) = k
    BY <1>2, StringSeq DEF TwoStrings
  <2>2. QED  BY <1>11, <2>1, CutIs
<1>14. Cut(String(mem, q), m) = String(mem, q)
  <2>1. String(mem, q) \in Seq(Byte) /\ Len(String(mem, q)) = l
    BY <1>2, StringSeq DEF TwoStrings
  <2>2. QED  BY <1>11, <2>1, CutIs
<1>15. r # n
  BY <1>9
<1>16. QED  BY <1>5, <1>6, <1>12, <1>13, <1>14, <1>15

LEMMA StrlenRight ==
  ASSUME NEW mem, NEW s \in Nat, NEW k \in Nat, IsMemory(mem), StringAt(mem, s, k), NEW n \in Nat
  PROVE  strlen(mem, s) = k /\ strnlen(mem, s, n) = Cap(n, k)
<1>1. Extent(mem) \in Nat /\ s + k < Extent(mem) /\ mem[s + k] = 0 /\ \A i \in 0..(k - 1) : mem[s + i] # 0
  BY DEF IsMemory, StringAt
<1>2. ASSUME NEW m \in Nat PROVE strnlen(mem, s, m) = Cap(m, k)
  <2> DEFINE go == {i \in 0..(m - 1) : mem[s + i] # 0}
  <2>1. PICK c \in Nat : c = Cap(m, k) /\ c <= m /\ c <= k /\ (c < m => c = k)
    BY DEF Cap
  <2>2. \A i \in 0..(c - 1) : i \in go
    BY <1>1, <2>1
  <2>3. c < m => c \notin go
    BY <1>1, <2>1
  <2>4. StopsAt(go, m, c)
    <3> HIDE DEF go
    <3>1. QED  BY <2>1, <2>2, <2>3 DEF StopsAt
  <2>5. scan(go, m) = c
    BY <2>4, ScanIs
  <2>6. QED  BY <2>1, <2>5 DEF strnlen
<1>3. PICK b \in Nat : b = Behind(mem, s) /\ k < b
  BY <1>1 DEF Behind
<1>4. strlen(mem, s) = Cap(b, k)
  BY <1>2, <1>3 DEF strlen
<1>5. QED  BY <1>2, <1>3, <1>4 DEF Cap

LEMMA StrfindRight ==
  ASSUME NEW mem, NEW s \in Nat, NEW k \in Nat, IsMemory(mem), StringAt(mem, s, k), NEW c
  PROVE  /\ FirstIn(String(mem, s), c, strfind(mem, s, c) - s)
         /\ strchr(mem, s, c) = IF \E i \in 1..Len(String(mem, s)) : String(mem, s)[i] = c
                                THEN strfind(mem, s, c) ELSE NULL
<1>1. Extent(mem) \in Nat /\ s + k < Extent(mem) /\ mem[s + k] = 0 /\ \A i \in 0..(k - 1) : mem[s + i] # 0
  BY DEF IsMemory, StringAt
<1>2. PICK b \in Nat : b = Behind(mem, s) /\ k < b
  BY <1>1 DEF Behind
<1> DEFINE go == {i \in 0..(b - 1) : mem[s + i] \notin {0, c}}
<1>3. PICK r : r = scan(go, b) /\ StopsAt(go, b, r)
  BY ScanStops
<1>4. strfind(mem, s, c) = s + r
  BY <1>2, <1>3 DEF strfind
<1>5. r \in 0..b /\ \A i \in 0..(r - 1) : mem[s + i] # 0 /\ mem[s + i] # c
  BY <1>3 DEF StopsAt
<1>6. ~(k < r)
  BY <1>1, <1>5
<1>7. r \in 0..k /\ (mem[s + r] = 0 \/ mem[s + r] = c)
  BY <1>2, <1>3, <1>5, <1>6 DEF StopsAt
<1>8. PICK a \in Seq(Byte) : /\ a = String(mem, s) /\ Len(a) = k
                               /\ \A i \in 0..(k - 1) : a[i + 1] = mem[s + i]
  BY StringSeq
<1>9. \A i \in 1..r : a[i] # c
  <2> TAKE i \in 1..r
  <2>1. PICK j \in 0..(r - 1) : i = j + 1
    <3>1. i - 1 \in 0..(r - 1) /\ i = (i - 1) + 1
      BY <1>5
    <3>2. QED  BY <3>1
  <2>2. j \in 0..(k - 1)
    BY <1>7
  <2>3. QED  BY <1>5, <1>8, <2>1, <2>2
<1>10. ASSUME r < k PROVE a[r + 1] = c /\ mem[s + r] # 0
  <2>1. r \in 0..(k - 1)
    BY <1>7, <1>10
  <2>2. QED  BY <1>1, <1>7, <1>8, <2>1
<1>11. FirstIn(a, c, r)
  BY <1>7, <1>8, <1>9, <1>10 DEF FirstIn
<1>12. (s + r) - s = r
  BY <1>5
<1>13. strchr(mem, s, c) = IF mem[s + r] = 0 THEN NULL ELSE s + r
  BY <1>4 DEF strchr
<1>14. CASE r < k
  <2>1. r + 1 \in 1..k /\ a[r + 1] = c /\ mem[s + r] # 0
    BY <1>5, <1>10, <1>14
  <2>2. \E i \in 1..k : a[i] = c
    BY <2>1
  <2>3. QED  BY <1>4, <1>8, <1>11, <1>12, <1>13, <2>1, <2>2
<1>15. CASE r = k
  <2>1. mem[s + r] = 0 /\ ~\E i \in 1..k : a[i] = c
    BY <1>1, <1>9, <1>15
  <2>2. QED  BY <1>4, <1>8, <1>11, <1>12, <1>13, <2>1
<1>16. QED  BY <1>7, <1>14, <1>15


LEMMA MemcmpRight ==
  ASSUME NEW mem, IsMemory(mem), NEW p \in Nat, NEW q \in Nat, NEW n \in Nat,
         p + n <= Extent(mem), q + n <= Extent(mem)
  PROVE  Sign(memcmp(mem, p, q, n)) = Order(Bytes(mem, p, n), Bytes(mem, q, n))
<1> DEFINE go == {j \in 0..(n - 1) : mem[p + j] = mem[q + j]}
<1>1. PICK r : r = scan(go, n) /\ StopsAt(go, n, r)
  BY ScanStops
<1>2. memcmp(mem, p, q, n) = IF r = n THEN 0 ELSE mem[p + r] - mem[q + r]
  BY <1>1, Zenon DEF memcmp
<1>3. r \in 0..n /\ \A i \in 0..(r - 1) : mem[p + i] = mem[q + i]
  BY <1>1 DEF StopsAt
<1>4. PICK a \in Seq(Byte) : /\ a = Bytes(mem, p, n) /\ Len(a) = n
                               /\ \A i \in 0..(n - 1) : a[i + 1] = mem[p + i]
  <2>1. /\ Bytes(mem, p, n) \in Seq(Byte) /\ Len(Bytes(mem, p, n)) = n
        /\ \A i \in 0..(n - 1) : Bytes(mem, p, n)[i + 1] = mem[p + i]
    BY BytesAre
  <2>2. QED  BY <2>1
<1>5. PICK b \in Seq(Byte) : /\ b = Bytes(mem, q, n) /\ Len(b) = n
                               /\ \A i \in 0..(n - 1) : b[i + 1] = mem[q + i]
  <2>1. /\ Bytes(mem, q, n) \in Seq(Byte) /\ Len(Bytes(mem, q, n)) = n
        /\ \A i \in 0..(n - 1) : Bytes(mem, q, n)[i + 1] = mem[q + i]
    BY BytesAre
  <2>2. QED  BY <2>1
<1>6. \A i \in 1..r : a[i] = b[i]
  <2> TAKE i \in 1..r
  <2>1. PICK j \in 0..(r - 1) : i = j + 1 /\ j \in 0..(n - 1)
    <3>1. i - 1 \in 0..(r - 1) /\ i = (i - 1) + 1 /\ i - 1 \in 0..(n - 1)
      BY <1>3
    <3>2. QED  BY <3>1
  <2>2. QED  BY <1>3, <1>4, <1>5, <2>1
<1>7. r \in Nat /\ r <= Len(a) /\ r <= Len(b)
  BY <1>3, <1>4, <1>5
<1>8. /\ r = Len(a) /\ r = Len(b) => Order(a, b) = 0
      /\ r < Len(a) /\ r < Len(b) /\ a[r + 1] # b[r + 1] => Order(a, b) = Sign(a[r + 1] - b[r + 1])
  BY <1>6, <1>7, OrderAt
<1>9. CASE r = n
  <2>1. Order(a, b) = 0 /\ memcmp(mem, p, q, n) = 0
    BY <1>2, <1>4, <1>5, <1>8, <1>9
  <2>2. Sign(0) = 0
    BY DEF Sign
  <2>3. QED  BY <1>4, <1>5, <2>1, <2>2
<1>10. CASE r # n
  <2>1. r \in 0..(n - 1)
    BY <1>3, <1>10
  <2>2. mem[p + r] # mem[q + r]
    BY <1>1, <1>10, <2>1 DEF StopsAt
  <2>3. a[r + 1] = mem[p + r] /\ b[r + 1] = mem[q + r]
    BY <1>4, <1>5, <2>1
  <2>4. r < Len(a) /\ r < Len(b)
    BY <1>4, <1>5, <2>1
  <2>5. Order(a, b) = Sign(mem[p + r] - mem[q + r])
    BY <1>8, <2>2, <2>3, <2>4
  <2>6. QED  BY <1>2, <1>4, <1>5, <1>10, <2>5
<1>11. QED  BY <1>9, <1>10

LEMMA MemfindRight ==
  ASSUME NEW mem, IsMemory(mem), NEW p \in Nat, NEW n \in Nat, p + n <= Extent(mem), NEW c
  PROVE  FirstIn(Bytes(mem, p, n), c, memfind(mem, p, c, n) - p)
<1> DEFINE go == {i \in 0..(n - 1) : mem[p + i] # c}
<1>1. PICK r : r = scan(go, n) /\ StopsAt(go, n, r)
  BY ScanStops
<1>2. r \in 0..n /\ (\A i \in 0..(r - 1) : mem[p + i] # c) /\ (r < n => mem[p + r] = c)
  BY <1>1 DEF StopsAt
<1>3. memfind(mem, p, c, n) - p = r
  <2>1. memfind(mem, p, c, n) = p + r
    BY <1>1 DEF memfind
  <2>2. (p + r) - p = r
    BY <1>2
  <2>3. QED  BY <2>1, <2>2
<1>4. PICK a \in Seq(Byte) : /\ a = Bytes(mem, p, n) /\ Len(a) = n
                               /\ \A i \in 0..(n - 1) : a[i + 1] = mem[p + i]
  BY BytesAre
<1>5. \A i \in 1..r : a[i] # c
  <2> TAKE i \in 1..r
  <2>1. PICK j \in 0..(r - 1) : i = j + 1 /\ j \in 0..(n - 1)
    <3>1. i - 1 \in 0..(r - 1) /\ i = (i - 1) + 1 /\ i - 1 \in 0..(n - 1)
      BY <1>2
    <3>2. QED  BY <3>1
  <2>2. QED  BY <1>2, <1>4, <2>1
<1>6. ASSUME r < n PROVE a[r + 1] = c
  <2>1. r \in 0..(n - 1)
    BY <1>2, <1>6
  <2>2. QED  BY <1>2, <1>4, <1>6, <2>1
<1>7. FirstIn(a, c, r)
  BY <1>2, <1>4, <1>5, <1>6 DEF FirstIn
<1>8. QED  BY <1>3, <1>4, <1>7

\* new is mem but for the k bytes at p.
Written(new, mem, p, k) ==
  /\ new = [i \in DOMAIN mem |-> new[i]]
  /\ \A i \in DOMAIN mem : i \notin p..(p + k - 1) => new[i] = mem[i]

\* Memory that has str at p and is as before elsewhere.
LEMMA HoldsBy ==
  ASSUME NEW new, NEW mem, NEW p, NEW str, IsMemory(mem), p \in Nat, Len(str) \in Nat,
         Written(new, mem, p, Len(str)), \A j \in 1..Len(str) : new[p + j - 1] = str[j]
  PROVE  Holds(new, mem, p, str)
<1>a. PICK M \in Nat : mem \in [0..(M - 1) -> Byte]
  BY DEF IsMemory
<1>b. PICK k \in Nat : k = Len(str)
  OBVIOUS
<1>c. new = [i \in 0..(M - 1) |-> new[i]] /\ \A i \in 0..(M - 1) : i \notin p..(p + k - 1) => new[i] = mem[i]
  BY <1>a, <1>b DEF Written
<1>1. ASSUME NEW i \in 0..(M - 1)
      PROVE  new[i] = IF i \in p..(p + k - 1) THEN str[i - p + 1] ELSE mem[i]
  <2>1. ASSUME i \in p..(p + k - 1) PROVE new[i] = str[i - p + 1]
    <3>1. PICK j \in 1..k : j = i - p + 1 /\ i = p + j - 1
      <4>1. i - p + 1 \in 1..k /\ i = p + (i - p + 1) - 1
        BY <2>1
      <4>2. QED  BY <4>1
    <3>2. QED  BY <1>b, <3>1
  <2>2. QED  BY <1>c, <2>1
<1>2. new = [i \in 0..(M - 1) |-> IF i \in p..(p + k - 1) THEN str[i - p + 1] ELSE mem[i]]
  BY <1>1, <1>c
<1>3. DOMAIN mem = 0..(M - 1)
  BY <1>a
<1>4. QED  BY <1>2, <1>3, <1>b DEF Holds

\* new has the k bytes that a copy of the string of l bytes at q begins with.
Carries(new, mem, p, q, l, k) == \A j \in 1..k : new[p + j - 1] = mem[q + Cap(j - 1, l)]

LEMMA PutIs ==
  ASSUME NEW mem, NEW p, NEW q, NEW l, NEW k, IsMemory(mem), p \in Nat, l \in Nat, k \in Nat, p + k <= Extent(mem)
  PROVE  /\ Written(Put(mem, p, q, l, k), mem, p, k)
         /\ Carries(Put(mem, p, q, l, k), mem, p, q, l, k)
<1>1. PICK M \in Nat : mem \in [0..(M - 1) -> Byte] /\ p + k <= M
  BY DEF IsMemory
<1>2. PICK new : new = Put(mem, p, q, l, k)
  OBVIOUS
<1>3. new = [i \in 0..(M - 1) |-> IF i \in p..(p + k - 1) THEN mem[q + Cap(i - p, l)] ELSE mem[i]]
  BY <1>1, <1>2 DEF Put
<1>4. Written(new, mem, p, k)
  BY <1>1, <1>3 DEF Written
<1>5. ASSUME NEW j \in 1..k PROVE new[p + j - 1] = mem[q + Cap(j - 1, l)]
  <2>1. PICK i \in 0..(M - 1) : i = p + j - 1 /\ i \in p..(p + k - 1) /\ i - p = j - 1
    <3>1. p + j - 1 \in 0..(M - 1) /\ p + j - 1 \in p..(p + k - 1) /\ (p + j - 1) - p = j - 1
      BY <1>1
    <3>2. QED  BY <3>1
  <2>2. new[i] = mem[q + Cap(i - p, l)]
    BY <1>3, <2>1
  <2>3. QED  BY <2>1, <2>2
<1>6. QED  BY <1>2, <1>4, <1>5 DEF Carries

\* The string of l bytes at q, with its NUL.
LEMMA Ended ==
  ASSUME NEW mem, NEW q \in Nat, NEW l \in Nat, IsMemory(mem), StringAt(mem, q, l)
  PROVE  /\ String(mem, q) \in Seq(Byte) /\ Len(String(mem, q)) = l
         /\ \A j \in 1..l : String(mem, q)[j] = mem[q + Cap(j - 1, l)]
<1>1. String(mem, q) \in Seq(Byte) /\ Len(String(mem, q)) = l
  BY StringSeq
<1>2. \A i \in 0..(l - 1) : String(mem, q)[i + 1] = mem[q + i]
  BY StringSeq
<1>3. ASSUME NEW j \in 1..l PROVE String(mem, q)[j] = mem[q + Cap(j - 1, l)]
  <2>1. PICK i \in 0..(l - 1) : i = j - 1 /\ j = i + 1
    <3>1. j - 1 \in 0..(l - 1) /\ j = (j - 1) + 1
      OBVIOUS
    <3>2. QED  BY <3>1
  <2>2. Cap(i, l) = i
    BY <2>1 DEF Cap
  <2>3. QED  BY <1>2, <2>1, <2>2
<1>4. QED  BY <1>1, <1>3

LEMMA PastEnd ==
  ASSUME NEW mem, NEW q, NEW l \in Nat, StringAt(mem, q, l), NEW j \in Nat, j > l
  PROVE  mem[q + Cap(j - 1, l)] = 0
<1>1. Cap(j - 1, l) = l
  BY DEF Cap
<1>2. QED  BY <1>1 DEF StringAt

LEMMA StrcpyHolds ==
  ASSUME NEW mem, NEW p, NEW q, NEW l, Clear(mem, p, q, l, l + 1)
  PROVE  Holds(strcpy(mem, p, q), mem, p, Append(String(mem, q), 0))
<1>1. PICK M \in Nat : M = Extent(mem) /\ mem \in [0..(M - 1) -> Byte]
  BY DEF Clear, IsMemory
<1>2. p \in Nat /\ q \in Nat /\ l \in Nat /\ p + (l + 1) <= M /\ IsMemory(mem) /\ StringAt(mem, q, l)
  BY <1>1 DEF Clear
<1>3. PICK new : new = strcpy(mem, p, q) /\ new = Put(mem, p, q, l, l + 1)
  BY StrcpyIs
<1>4. PICK b \in Seq(Byte) : /\ b = String(mem, q) /\ Len(b) = l
                               /\ \A j \in 1..l : b[j] = mem[q + Cap(j - 1, l)]
  <2>1. /\ String(mem, q) \in Seq(Byte) /\ Len(String(mem, q)) = l
        /\ \A j \in 1..l : String(mem, q)[j] = mem[q + Cap(j - 1, l)]
    BY <1>2, Ended
  <2>2. QED  BY <2>1, Zenon
<1>5. PICK k \in Nat : k = l + 1
  BY <1>2
<1>6. PICK str : str = Append(b, 0) /\ Len(str) = k /\ (\A j \in 1..l : str[j] = b[j]) /\ str[k] = 0
  <2>1. Len(Append(b, 0)) = l + 1 /\ (\A j \in 1..l : Append(b, 0)[j] = b[j]) /\ Append(b, 0)[l + 1] = 0
    BY <1>4
  <2>2. QED  BY <1>5, <2>1
<1>7. Written(new, mem, p, k) /\ \A j \in 1..k : new[p + j - 1] = mem[q + Cap(j - 1, l)]
  <2>1. new = Put(mem, p, q, l, k) /\ p + k <= Extent(mem)
    BY <1>1, <1>2, <1>3, <1>5
  <2>2. /\ Written(Put(mem, p, q, l, k), mem, p, k)
        /\ Carries(Put(mem, p, q, l, k), mem, p, q, l, k)
    BY <1>2, <2>1, PutIs
  <2>3. QED  BY <2>1, <2>2 DEF Carries
<1>8. ASSUME NEW j \in 1..k PROVE new[p + j - 1] = str[j]
  <2>1. CASE j = k
    <3>1. j \in Nat /\ j > l
      BY <1>2, <1>5, <2>1
    <3>2. mem[q + Cap(j - 1, l)] = 0
      BY <1>2, <3>1, PastEnd
    <3>3. QED  BY <1>6, <1>7, <2>1, <3>2
  <2>2. CASE j # k
    <3>1. j \in 1..l
      BY <1>2, <1>5, <2>2
    <3>2. QED  BY <1>4, <1>6, <1>7, <3>1
  <2>3. QED  BY <2>1, <2>2
<1>9. Holds(new, mem, p, str)
  <2>1. Written(new, mem, p, Len(str)) /\ \A j \in 1..Len(str) : new[p + j - 1] = str[j]
    BY <1>6, <1>7, <1>8
  <2>2. QED  BY <1>2, <1>6, <2>1, HoldsBy
<1>10. QED  BY <1>3, <1>4, <1>6, <1>9

LEMMA StrcatHolds ==
  ASSUME NEW mem, NEW p, NEW k, NEW q, NEW l, TwoStrings(mem, p, k, q, l), Clear(mem, p + k, q, l, l + 1)
  PROVE  Holds(strcat(mem, p, q), mem, p, Append(String(mem, p) \o String(mem, q), 0))
<1>1. PICK M \in Nat : M = Extent(mem) /\ mem \in [0..(M - 1) -> Byte]
  BY DEF Clear, IsMemory
<1>2. /\ p \in Nat /\ k \in Nat /\ q \in Nat /\ l \in Nat /\ (p + k) + (l + 1) <= M
      /\ IsMemory(mem) /\ StringAt(mem, p, k) /\ StringAt(mem, q, l)
  BY <1>1 DEF TwoStrings, Clear
<1>3. strlen(mem, p) = k
  <2>1. 0 \in Nat
    OBVIOUS
  <2>2. QED  BY <1>2, <2>1, StrlenRight
<1>4. PICK d \in Nat : d = p + k
  BY <1>2
<1>5. PICK new : new = strcat(mem, p, q) /\ new = Put(mem, d, q, l, l + 1)
  <2>1. strcat(mem, p, q) = strcpy(mem, d, q)
    BY <1>3, <1>4 DEF strcat
  <2>2. QED  BY <1>4, <2>1, StrcpyIs
<1>6. PICK a \in Seq(Byte) : a = String(mem, p) /\ Len(a) = k /\ \A i \in 1..k : a[i] = mem[p + i - 1]
  <2>1. /\ String(mem, p) \in Seq(Byte) /\ Len(String(mem, p)) = k
        /\ \A i \in 1..k : String(mem, p)[i] = mem[p + i - 1]
    <3>1. String(mem, p) \in Seq(Byte) /\ Len(String(mem, p)) = k
      BY <1>2, StringSeq
    <3>2. \A i \in 1..k : String(mem, p)[i] = mem[p + i - 1]
      BY <1>2, StringSeq
    <3>3. QED  BY <3>1, <3>2
  <2>2. QED  BY <2>1
<1>7. PICK b \in Seq(Byte) : /\ b = String(mem, q) /\ Len(b) = l
                               /\ \A j \in 1..l : b[j] = mem[q + Cap(j - 1, l)]
  <2>1. /\ String(mem, q) \in Seq(Byte) /\ Len(String(mem, q)) = l
        /\ \A j \in 1..l : String(mem, q)[j] = mem[q + Cap(j - 1, l)]
    BY <1>2, Ended
  <2>2. QED  BY <2>1, Zenon
<1>8. PICK h \in Nat : h = l + 1
  BY <1>2
<1>9. PICK e \in Nat : e = k + h
  BY <1>2, <1>8
<1>10. PICK ab \in Seq(Byte) : /\ ab = a \o b /\ Len(ab) = k + l
                                 /\ (\A i \in 1..k : ab[i] = a[i]) /\ (\A j \in 1..l : ab[k + j] = b[j])
  <2>1. a \o b \in Seq(Byte) /\ Len(a \o b) = k + l
    BY <1>6, <1>7
  <2>2. \A i \in 1..k : (a \o b)[i] = a[i]
    BY <1>2, <1>6, <1>7
  <2>3. \A j \in 1..l : (a \o b)[k + j] = b[j]
    <3> TAKE j \in 1..l
    <3>1. k + j \in 1..(k + l) /\ ~(k + j <= k) /\ (k + j) - k = j
      BY <1>2
    <3>2. \A i \in 1..(Len(a) + Len(b)) : (a \o b)[i] = IF i <= Len(a) THEN a[i] ELSE b[i - Len(a)]
      BY ConcatProperties
    <3>3. QED  BY <1>6, <1>7, <3>1, <3>2
  <2>4. QED  BY <2>1, <2>2, <2>3
<1>11. PICK str : /\ str = Append(ab, 0) /\ Len(str) = e /\ (\A i \in 1..k : str[i] = a[i])
                  /\ (\A j \in 1..l : str[k + j] = b[j]) /\ str[e] = 0
  <2>1. PICK s : s = Append(ab, 0)
    OBVIOUS
  <2>2. Len(s) = Len(ab) + 1 /\ s[Len(ab) + 1] = 0 /\ \A i \in 1..Len(ab) : s[i] = ab[i]
    BY <2>1
  <2>3. Len(s) = e /\ s[e] = 0 /\ \A i \in 1..(k + l) : s[i] = ab[i]
    BY <1>2, <1>8, <1>9, <1>10, <2>2
  <2>4. ASSUME NEW i \in 1..k PROVE s[i] = a[i]
    <3>1. i \in 1..(k + l)
      BY <1>2
    <3>2. s[i] = ab[i] /\ ab[i] = a[i]
      BY <1>10, <2>3, <3>1
    <3>3. QED  BY <3>2
  <2>5. ASSUME NEW j \in 1..l PROVE s[k + j] = b[j]
    <3>1. k + j \in 1..(k + l)
      BY <1>2
    <3>2. s[k + j] = ab[k + j] /\ ab[k + j] = b[j]
      BY <1>10, <2>3, <3>1
    <3>3. QED  BY <3>2
  <2>6. QED  BY <2>1, <2>3, <2>4, <2>5
<1>12. Written(new, mem, d, h) /\ \A j \in 1..h : new[d + j - 1] = mem[q + Cap(j - 1, l)]
  <2>1. new = Put(mem, d, q, l, h) /\ d + h <= Extent(mem)
    BY <1>1, <1>2, <1>4, <1>5, <1>8
  <2>2. /\ Written(Put(mem, d, q, l, h), mem, d, h)
        /\ Carries(Put(mem, d, q, l, h), mem, d, q, l, h)
    BY <1>2, <2>1, PutIs
  <2>3. QED  BY <2>1, <2>2 DEF Carries
<1>a. DOMAIN mem = 0..(M - 1) /\ \A i \in 0..(M - 1) : i \notin d..(d + h - 1) => new[i] = mem[i]
  BY <1>1, <1>12 DEF Written
<1>13. ASSUME NEW i \in 0..(M - 1), i \notin p..(p + e - 1) PROVE new[i] = mem[i]
  <2>1. i \notin d..(d + h - 1)
    BY <1>2, <1>4, <1>9, <1>13
  <2>2. QED  BY <1>a, <2>1
<1>14. ASSUME NEW j \in 1..e PROVE new[p + j - 1] = str[j]
  <2>1. CASE j <= k
    <3>1. PICK i \in 0..(M - 1) : i = p + j - 1 /\ i \notin d..(d + h - 1)
      <4>1. p + j - 1 \in 0..(M - 1) /\ p + j - 1 \notin d..(d + h - 1)
        BY <1>2, <1>4, <1>8, <1>9, <2>1
      <4>2. QED  BY <4>1
    <3>2. j \in 1..k
      BY <1>2, <2>1
    <3>3. new[i] = mem[i] /\ str[j] = a[j] /\ a[j] = mem[p + j - 1]
      BY <1>6, <1>11, <1>a, <3>1, <3>2
    <3>4. QED  BY <3>1, <3>3
  <2>2. CASE ~(j <= k)
    <3>1. PICK m \in 1..h : m = j - k /\ j = k + m /\ p + j - 1 = d + m - 1
      <4>1. j - k \in 1..h /\ j = k + (j - k) /\ p + j - 1 = d + (j - k) - 1
        BY <1>2, <1>4, <1>8, <1>9, <2>2
      <4>2. QED  BY <4>1
    <3>2. new[p + j - 1] = mem[q + Cap(m - 1, l)]
      BY <1>12, <3>1
    <3>3. CASE m = h
      <4>1. m \in Nat /\ m > l /\ j = e
        BY <1>2, <1>8, <1>9, <3>1, <3>3
      <4>2. mem[q + Cap(m - 1, l)] = 0
        BY <1>2, <4>1, PastEnd
      <4>3. QED  BY <1>11, <3>2, <4>1, <4>2, Zenon
    <3>4. CASE m # h
      <4>1. m \in 1..l
        BY <1>2, <1>8, <3>1, <3>4
      <4>2. str[k + m] = b[m]
        BY <1>11, <4>1
      <4>3. b[m] = mem[q + Cap(m - 1, l)]
        BY <1>7, <4>1
      <4>4. QED  BY <3>1, <3>2, <4>2, <4>3, Zenon
    <3>5. QED  BY <3>3, <3>4
  <2>3. QED  BY <2>1, <2>2
<1>15. Holds(new, mem, p, str)
  <2>1. Written(new, mem, p, Len(str))
    BY <1>11, <1>12, <1>13, <1>a DEF Written
  <2>2. \A j \in 1..Len(str) : new[p + j - 1] = str[j]
    BY <1>11, <1>14
  <2>3. QED  BY <1>2, <1>11, <2>1, <2>2, HoldsBy
<1>16. QED  BY <1>5, <1>6, <1>7, <1>10, <1>11, <1>15

LEMMA StrncpyHolds ==
  ASSUME NEW mem, NEW p, NEW q, NEW l, NEW n, Clear(mem, p, q, l, n)
  PROVE  Holds(strncpy(mem, p, q, n), mem, p,
               [i \in 1..n |-> IF i <= Len(String(mem, q)) THEN String(mem, q)[i] ELSE 0])
<1>1. IsMemory(mem) /\ Extent(mem) \in Nat /\ mem \in [0..(Extent(mem) - 1) -> Byte]
  BY DEF Clear, IsMemory
<1>2. p \in Nat /\ q \in Nat /\ l \in Nat /\ n \in Nat /\ p + n <= Extent(mem) /\ StringAt(mem, q, l)
  BY DEF Clear
<1>3. PICK new : new = strncpy(mem, p, q, n) /\ new = Put(mem, p, q, l, n)
  BY StrncpyIs
<1>4. PICK b \in Seq(Byte) : /\ b = String(mem, q) /\ Len(b) = l
                               /\ \A j \in 1..l : b[j] = mem[q + Cap(j - 1, l)]
  <2>1. /\ String(mem, q) \in Seq(Byte) /\ Len(String(mem, q)) = l
        /\ \A j \in 1..l : String(mem, q)[j] = mem[q + Cap(j - 1, l)]
    BY <1>1, <1>2, Ended
  <2>2. QED  BY <2>1, Zenon
<1>5. PICK str : str = [i \in 1..n |-> IF i <= Len(b) THEN b[i] ELSE 0]
  OBVIOUS
<1>6. Len(str) = n
  BY <1>2, <1>5
<1>7. Written(new, mem, p, n) /\ \A j \in 1..n : new[p + j - 1] = mem[q + Cap(j - 1, l)]
  <2>1. /\ Written(Put(mem, p, q, l, n), mem, p, n)
        /\ Carries(Put(mem, p, q, l, n), mem, p, q, l, n)
    BY <1>1, <1>2, PutIs
  <2>2. QED  BY <1>3, <2>1 DEF Carries
<1>8. ASSUME NEW j \in 1..n PROVE new[p + j - 1] = str[j]
  <2>1. CASE j > l
    <3>1. mem[q + Cap(j - 1, l)] = 0
      <4>1. j \in Nat
        BY <1>2
      <4>2. QED  BY <1>2, <2>1, <4>1, PastEnd
    <3>2. str[j] = 0
      BY <1>2, <1>4, <1>5, <2>1
    <3>3. QED  BY <1>7, <3>1, <3>2
  <2>2. CASE ~(j > l)
    <3>1. j \in 1..l
      BY <1>2, <2>2
    <3>2. str[j] = b[j] /\ b[j] = mem[q + Cap(j - 1, l)]
      BY <1>4, <1>5, <3>1
    <3>3. QED  BY <1>7, <3>2
  <2>3. QED  BY <2>1, <2>2
<1>9. Holds(new, mem, p, str)
  <2>1. Written(new, mem, p, Len(str)) /\ \A j \in 1..Len(str) : new[p + j - 1] = str[j]
    BY <1>6, <1>7, <1>8
  <2>2. QED  BY <1>1, <1>2, <1>6, <2>1, HoldsBy
<1>10. QED  BY <1>3, <1>4, <1>5, <1>9

LEMMA StrlcpyHolds ==
  ASSUME NEW mem, NEW p, NEW q, NEW l, NEW n \in Nat \ {0}, Clear(mem, p, q, l, n)
  PROVE  /\ Holds(strlcpy(mem, p, q, n)[1], mem, p, Append(Cut(String(mem, q), n - 1), 0))
         /\ strlcpy(mem, p, q, n)[2] = Len(Cut(String(mem, q), n - 1))
<1>1. IsMemory(mem)
  BY DEF Clear
<1>2. p \in Nat /\ q \in Nat /\ l \in Nat /\ p + n <= Extent(mem) /\ StringAt(mem, q, l) /\ Extent(mem) \in Nat
  BY DEF Clear, IsMemory
<1>3. PICK m \in Nat : m = n - 1
  OBVIOUS
<1>4. PICK c \in Nat : c = Cap(m, l) /\ c <= l /\ c + 1 <= n
  BY <1>2, <1>3 DEF Cap
<1>5. Clear(mem, p, q, l, c + 1)
  <2>1. c + 1 \in Nat /\ p + (c + 1) <= Extent(mem)
    BY <1>2, <1>4
  <2>2. \A i \in p..(p + (c + 1) - 1) : i \in p..(p + n - 1)
    BY <1>2, <1>4
  <2>3. QED  BY <2>1, <2>2 DEF Clear
<1>6. strlcpy(mem, p, q, n) = <<[Put(mem, p, q, l, c) EXCEPT ![p + c] = 0], c>>
  BY <1>3, <1>4, <1>5, StrlcpyIs
<1>7. PICK old : old = Put(mem, p, q, l, c)
  OBVIOUS
<1>8. Written(old, mem, p, c) /\ \A j \in 1..c : old[p + j - 1] = mem[q + Cap(j - 1, l)]
  <2>1. p + c <= Extent(mem)
    BY <1>2, <1>4
  <2>2. /\ Written(Put(mem, p, q, l, c), mem, p, c)
        /\ Carries(Put(mem, p, q, l, c), mem, p, q, l, c)
    BY <1>1, <1>2, <2>1, PutIs
  <2>3. QED  BY <1>7, <2>2 DEF Carries
<1>9. PICK M \in Nat : M = Extent(mem) /\ mem \in [0..(M - 1) -> Byte]
  BY <1>1 DEF IsMemory
<1>10. /\ old = [i \in 0..(M - 1) |-> old[i]]
       /\ \A i \in 0..(M - 1) : i \notin p..(p + c - 1) => old[i] = mem[i]
  BY <1>8, <1>9 DEF Written
<1>11. PICK new : new = [old EXCEPT ![p + c] = 0]
  OBVIOUS
<1>12. p + c \in 0..(M - 1)
  BY <1>2, <1>4, <1>9
<1>13. /\ new = [i \in 0..(M - 1) |-> new[i]] /\ new[p + c] = 0
       /\ \A i \in 0..(M - 1) : i # p + c => new[i] = old[i]
  BY <1>10, <1>11, <1>12
<1>14. PICK b \in Seq(Byte) : /\ b = String(mem, q) /\ Len(b) = l
                                /\ \A j \in 1..l : b[j] = mem[q + Cap(j - 1, l)]
  <2>1. /\ String(mem, q) \in Seq(Byte) /\ Len(String(mem, q)) = l
        /\ \A j \in 1..l : String(mem, q)[j] = mem[q + Cap(j - 1, l)]
    BY <1>1, <1>2, Ended
  <2>2. QED  BY <2>1, Zenon
<1>15. PICK a \in Seq(Byte) : a = Cut(b, m) /\ Len(a) = c /\ \A i \in 1..c : a[i] = b[i]
  <2>1. PICK a \in Seq(Byte) : /\ a = Cut(b, m) /\ Len(a) = Cap(m, Len(b))
                                 /\ \A i \in 1..Cap(m, Len(b)) : a[i] = b[i]
    BY CutIs
  <2>2. Cap(m, Len(b)) = c
    BY <1>4, <1>14
  <2>3. QED  BY <2>1, <2>2
<1>16. PICK str : str = Append(a, 0) /\ Len(str) = c + 1 /\ (\A j \in 1..c : str[j] = a[j]) /\ str[c + 1] = 0
  <2>1. Len(Append(a, 0)) = c + 1 /\ (\A j \in 1..c : Append(a, 0)[j] = a[j]) /\ Append(a, 0)[c + 1] = 0
    BY <1>15
  <2>2. QED  BY <2>1
<1>z. Len(str) \in Nat
  BY <1>16
<1>17. ASSUME NEW j \in 1..(c + 1) PROVE new[p + j - 1] = str[j]
  <2>1. CASE j = c + 1
    <3>1. p + j - 1 = p + c
      BY <1>2, <2>1
    <3>2. QED  BY <1>13, <1>16, <2>1, <3>1
  <2>2. CASE j # c + 1
    <3>0. PICK e \in 0..(M - 1) : e = p + c
      BY <1>12
    <3>1. j \in 1..c /\ j \in 1..l /\ p + j - 1 \in 0..(M - 1) /\ p + j - 1 # p + c
      <4>1. j \in 1..c /\ j \in 1..l
        BY <1>2, <1>4, <2>2
      <4>2. p + j - 1 \in 0..(M - 1) /\ p + j - 1 # e
        BY <1>2, <3>0, <4>1
      <4>3. QED  BY <3>0, <4>1, <4>2
    <3>2. new[p + j - 1] = old[p + j - 1]
      BY <1>13, <3>1
    <3>3. old[p + j - 1] = mem[q + Cap(j - 1, l)]
      BY <1>8, <3>1
    <3>4. str[j] = mem[q + Cap(j - 1, l)]
      BY <1>14, <1>15, <1>16, <3>1
    <3>5. QED  BY <3>2, <3>3, <3>4
  <2>3. QED  BY <2>1, <2>2
<1>18. Written(new, mem, p, c + 1)
  <2>1. ASSUME NEW i \in 0..(M - 1), i \notin p..(p + (c + 1) - 1) PROVE new[i] = mem[i]
    <3>1. i # p + c /\ i \notin p..(p + c - 1)
      BY <1>2, <2>1
    <3>2. QED  BY <1>10, <1>13, <3>1
  <2>2. DOMAIN mem = 0..(M - 1)
    BY <1>9
  <2>3. QED  BY <1>13, <2>1, <2>2 DEF Written
<1>19. Holds(new, mem, p, str)
  <2>1. Written(new, mem, p, Len(str)) /\ \A j \in 1..Len(str) : new[p + j - 1] = str[j]
    BY <1>16, <1>17, <1>18
  <2>2. QED  BY <1>1, <1>2, <1>z, <2>1, HoldsBy
<1>20. strlcpy(mem, p, q, n)[1] = new /\ strlcpy(mem, p, q, n)[2] = c
  BY <1>6, <1>7, <1>11
<1>21. QED  BY <1>3, <1>14, <1>15, <1>16, <1>19, <1>20

LEMMA StringCalls ==
  ASSUME NEW mem, NEW p, NEW q, NEW n, StringsApart(mem, p, q, n)
  PROVE  StringCallsRight(mem, p, q, n)
<1>1. PICK k, l \in 0..Extent(mem) :
        /\ StringAt(mem, p, k) /\ StringAt(mem, q, l)
        /\ p + k + l < Extent(mem) /\ p + n <= Extent(mem)
        /\ \A i \in p..(p + k + l) \cup p..(p + n - 1) : i \notin q..(q + l)
  BY DEF StringsApart
<1>2. IsMemory(mem) /\ p \in Nat /\ q \in Nat /\ n \in Nat /\ Extent(mem) \in Nat /\ k \in Nat /\ l \in Nat
  <2>1. IsMemory(mem) /\ p \in Nat /\ q \in Nat /\ n \in Nat
    BY DEF StringsApart
  <2>2. Extent(mem) \in Nat
    BY <2>1 DEF IsMemory
  <2>3. QED  BY <1>1, <2>1, <2>2
<1>3. TwoStrings(mem, p, k, q, l)
  BY <1>1, <1>2 DEF TwoStrings
<1>4. ASSUME NEW d \in Nat, NEW h \in Nat, p <= d, d + h <= (p + k + l) + 1 \/ d + h <= p + n
      PROVE  Clear(mem, d, q, l, h)
  <2>1. d + h <= Extent(mem)
    BY <1>1, <1>2, <1>4
  <2>2. \A i \in d..(d + h - 1) : i \in p..(p + k + l) \cup p..(p + n - 1)
    BY <1>2, <1>4
  <2>3. QED  BY <1>1, <1>2, <2>1, <2>2 DEF Clear
<1>5. Clear(mem, p, q, l, l + 1) /\ Clear(mem, p + k, q, l, l + 1) /\ Clear(mem, p, q, l, n)
  <2>1. l + 1 \in Nat /\ p + k \in Nat /\ p <= p + k /\ p <= p
        /\ p + (l + 1) <= (p + k + l) + 1 /\ (p + k) + (l + 1) <= (p + k + l) + 1 /\ p + n <= p + n
    BY <1>2
  <2>2. QED  BY <1>2, <1>4, <2>1
<1>6. PICK a \in Seq(Byte) : a = String(mem, p) /\ Len(a) = k
  BY <1>1, <1>2, StringSeq
<1>7. strlen(mem, p) = Len(a) /\ strnlen(mem, p, n) = Len(Cut(a, n))
  <2>1. strlen(mem, p) = k /\ strnlen(mem, p, n) = Cap(n, k)
    BY <1>1, <1>2, StrlenRight
  <2>2. Len(Cut(a, n)) = Cap(n, Len(a))
    BY <1>2, CutIs
  <2>3. QED  BY <1>6, <2>1, <2>2
<1>8. Holds(strcpy(mem, p, q), mem, p, Append(String(mem, q), 0))
  BY <1>5, StrcpyHolds
<1>9. Holds(strcat(mem, p, q), mem, p, Append(String(mem, p) \o String(mem, q), 0))
  BY <1>3, <1>5, StrcatHolds
<1>10. Holds(strncpy(mem, p, q, n), mem, p,
             [i \in 1..n |-> IF i <= Len(String(mem, q)) THEN String(mem, q)[i] ELSE 0])
  BY <1>5, StrncpyHolds
<1>11. IF n = 0 THEN strlcpy(mem, p, q, n) = <<mem, 0>>
       ELSE /\ Holds(strlcpy(mem, p, q, n)[1], mem, p, Append(Cut(String(mem, q), n - 1), 0))
            /\ strlcpy(mem, p, q, n)[2] = Len(Cut(String(mem, q), n - 1))
  <2>1. CASE n = 0
    BY <2>1, Zenon DEF strlcpy
  <2>2. CASE n # 0
    <3>1. n \in Nat \ {0}
      BY <1>2, <2>2
    <3>2. QED  BY <1>5, <2>2, <3>1, StrlcpyHolds
  <2>3. QED  BY <2>1, <2>2
<1>12. Sign(strcmp(mem, p, q)) = Order(String(mem, p), String(mem, q))
  BY <1>3, StrcmpRight
<1>13. Sign(strncmp(mem, p, q, n)) = Order(Cut(String(mem, p), n), Cut(String(mem, q), n))
  BY <1>2, <1>3, StrncmpRight
<1>14. ASSUME NEW c
       PROVE  /\ FirstIn(String(mem, p), c, strfind(mem, p, c) - p)
              /\ strchr(mem, p, c) = IF \E i \in 1..Len(String(mem, p)) : String(mem, p)[i] = c
                                     THEN strfind(mem, p, c) ELSE NULL
  BY <1>1, <1>2, StrfindRight
<1>15. QED
  BY <1>6, <1>7, <1>8, <1>9, <1>10, <1>11, <1>12, <1>13, <1>14, Zenon DEF StringCallsRight

LEMMA MemoryCalls ==
  ASSUME NEW mem, NEW p, NEW q, NEW n, AreasIn(mem, p, q, n)
  PROVE  MemoryCallsRight(mem, p, q, n)
<1>1. PICK M \in Nat : M = Extent(mem) /\ mem \in [0..(M - 1) -> Byte]
  BY DEF AreasIn, IsMemory
<1>2. IsMemory(mem) /\ p \in Nat /\ q \in Nat /\ n \in Nat /\ p + n <= M /\ q + n <= M
  BY <1>1 DEF AreasIn
<1>3. MoveRight(mem, p, q, n)
  BY <1>1, <1>2, MemmoveRight
<1>4. SetRight(mem, p, 77, n)
  BY <1>1, <1>2, MemsetRight
<1>5. Sign(memcmp(mem, p, q, n)) = Order(Bytes(mem, p, n), Bytes(mem, q, n))
  BY <1>1, <1>2, MemcmpRight
<1>6. FirstIn(Bytes(mem, p, n), mem[q], memfind(mem, p, mem[q], n) - p)
  BY <1>1, <1>2, MemfindRight
<1>7. QED  BY <1>3, <1>4, <1>5, <1>6 DEF MemoryCallsRight

\* For every memory, every two strings and every size: when p has room outside
\* the string at q, the string functions do what their names promise, and the
\* memory functions do for all areas in memory (string.c).
THEOREM StringsSound ==
  /\ call.fn = "string" => StringsApart(call.mem, call.p, call.q, call.n)
  /\ call.fn = "memory" => AreasIn(call.mem, call.p, call.q, call.n)
  => StringsRight
<1>1. ASSUME call.fn = "string", StringsApart(call.mem, call.p, call.q, call.n)
      PROVE  StringCallsRight(call.mem, call.p, call.q, call.n)
  BY <1>1, StringCalls
<1>2. ASSUME call.fn = "memory", AreasIn(call.mem, call.p, call.q, call.n)
      PROVE  MemoryCallsRight(call.mem, call.p, call.q, call.n)
  BY <1>2, MemoryCalls
<1>3. QED  BY <1>1, <1>2, Zenon DEF StringsRight

-----------------------------------------------------------------------------
\* Where output goes.  A stretch of out that grows by a character.
LEMMA OneMore ==
  ASSUME NEW V, NEW out \in Seq(V), NEW a \in Nat, NEW n \in Nat, a + n + 1 <= Len(out)
  PROVE  Append([i \in 1..n |-> out[a + i]], out[a + n + 1]) = [i \in 1..(n + 1) |-> out[a + i]]
<1>1. PICK l \in Nat : l = Len(out) /\ a + n + 1 <= l
  OBVIOUS
<1>2. out \in [1..l -> V]
  BY <1>1, SeqFunction
<1>3. \A i \in 1..(n + 1) : a + i \in 1..l /\ out[a + i] \in V
  BY <1>1, <1>2
<1>4. PICK x : x = [i \in 1..n |-> out[a + i]]
  OBVIOUS
<1>5. \A i \in 1..n : i \in 1..(n + 1)
  OBVIOUS
<1>6. x \in Seq(V) /\ Len(x) = n
  <2>1. x \in [1..n -> V]
    BY <1>3, <1>4, <1>5
  <2>2. QED  BY <2>1
<1>7. PICK e \in V : e = out[a + n + 1]
  <2>1. n + 1 \in 1..(n + 1) /\ a + (n + 1) = a + n + 1
    OBVIOUS
  <2>2. QED  BY <1>3, <2>1
<1>8. PICK y \in Seq(V) : /\ y = Append(x, e) /\ Len(y) = n + 1 /\ y[n + 1] = e
                          /\ \A i \in 1..n : y[i] = x[i]
  <2>1. /\ Append(x, e) \in Seq(V) /\ Len(Append(x, e)) = Len(x) + 1 /\ Append(x, e)[Len(x) + 1] = e
        /\ \A i \in 1..Len(x) : Append(x, e)[i] = x[i]
    BY <1>6, AppendProperties
  <2>2. PICK y \in Seq(V) : y = Append(x, e)
    BY <2>1, Zenon
  <2>3. QED  BY <1>6, <2>1, <2>2
<1>9. n + 1 = Len(y)
  BY <1>8
<1>10. y \in [1..(n + 1) -> V]
  BY <1>9, SeqFunction
<1>11. ASSUME NEW i \in 1..(n + 1) PROVE y[i] = out[a + i]
  <2>1. CASE i = n + 1
    <3>1. a + i = a + n + 1
      BY <2>1
    <3>2. QED  BY <1>7, <1>8, <2>1, <3>1
  <2>2. CASE i # n + 1
    <3>1. i \in 1..n
      BY <2>2
    <3>2. QED  BY <1>4, <1>8, <3>1
  <2>3. QED  BY <2>1, <2>2
<1>12. y = [i \in 1..(n + 1) |-> out[a + i]]
  BY <1>10, <1>11
<1>13. QED  BY <1>4, <1>7, <1>8, <1>12

\* The buffer of vsnprintf, with room for m characters, after k of them.
KeptAt(out, m, k) == [buf |-> [i \in 1..Cap(m, k) |-> out[i]], room |-> m, cnt |-> k]

LEMMA CharKept ==
  ASSUME NEW V, NEW out \in Seq(V), NEW m \in Nat, NEW k \in Nat, k + 1 <= Len(out)
  PROVE  sprintputch(KeptAt(out, m, k), out[k + 1]) = KeptAt(out, m, k + 1)
<1>1. PICK c \in Nat : c = Cap(m, k) /\ c <= k /\ c <= m /\ (c < m => c = k)
  BY DEF Cap
<1>2. PICK l \in Nat : l = Len(out) /\ k + 1 <= l
  OBVIOUS
<1>3. out \in [1..l -> V]
  BY <1>2, SeqFunction
<1>4. PICK x : x = [i \in 1..c |-> out[i]]
  OBVIOUS
<1>5. Len(x) = c
  <2>1. \A i \in 1..c : i \in 1..l
    BY <1>1, <1>2
  <2>2. x \in [1..c -> V]
    BY <1>3, <1>4, <2>1
  <2>3. QED  BY <2>2
<1>6. KeptAt(out, m, k) = [buf |-> x, room |-> m, cnt |-> k]
  BY <1>1, <1>4 DEF KeptAt
<1>7. sprintputch(KeptAt(out, m, k), out[k + 1]) =
        [buf |-> IF c < m THEN Append(x, out[k + 1]) ELSE x, room |-> m, cnt |-> k + 1]
  <2>1. PICK r : r = [buf |-> x, room |-> m, cnt |-> k]
    OBVIOUS
  <2>2. r.buf = x /\ r.room = m /\ r.cnt = k
    BY <2>1
  <2>3. PICK z : z = (IF c < m THEN Append(x, out[k + 1]) ELSE x)
    OBVIOUS
  <2>4. PICK e : e = out[k + 1]
    OBVIOUS
  <2>5. sprintputch(r, e) = [buf |-> z, room |-> m, cnt |-> k + 1]
    <3>1. sprintputch(r, e) = [buf |-> IF Len(r.buf) < r.room THEN Append(r.buf, e) ELSE r.buf,
                               room |-> r.room, cnt |-> r.cnt + 1]
      BY Zenon DEF sprintputch
    <3>2. (IF Len(r.buf) < r.room THEN Append(r.buf, e) ELSE r.buf) = z
      BY <1>5, <2>2, <2>3, <2>4
    <3>3. QED  BY <2>2, <3>1, <3>2, Zenon
  <2>6. QED  BY <1>6, <2>1, <2>3, <2>4, <2>5, Zenon
<1>8. CASE c < m
  <2>1. c = k /\ Cap(m, k + 1) = k + 1
    BY <1>1, <1>8 DEF Cap
  <2>2. Append([i \in 1..k |-> out[0 + i]], out[0 + k + 1]) = [i \in 1..(k + 1) |-> out[0 + i]]
    <3>1. 0 \in Nat /\ 0 + k + 1 <= Len(out)
      OBVIOUS
    <3>2. QED  BY <3>1, OneMore
  <2>3. /\ [i \in 1..k |-> out[0 + i]] = [i \in 1..k |-> out[i]] /\ 0 + k + 1 = k + 1
        /\ [i \in 1..(k + 1) |-> out[0 + i]] = [i \in 1..(k + 1) |-> out[i]]
    <3>1. \A i \in 1..(k + 1) : 0 + i = i
      OBVIOUS
    <3>2. QED  BY <3>1
  <2>4. Append(x, out[k + 1]) = [i \in 1..(k + 1) |-> out[i]]
    BY <1>4, <2>1, <2>2, <2>3
  <2>5. QED  BY <1>7, <1>8, <2>1, <2>4 DEF KeptAt
<1>9. CASE ~(c < m)
  <2>1. Cap(m, k + 1) = m /\ c = m
    BY <1>1, <1>9 DEF Cap
  <2>2. QED  BY <1>4, <1>7, <1>9, <2>1 DEF KeptAt
<1>10. QED  BY <1>8, <1>9

LEMMA SnprintfRight ==
  ASSUME NEW V, NEW out \in Seq(V), NEW n \in Nat, n >= 1
  PROVE  vsnprintf(n, out) = [ret |-> Len(out), buf |-> Append(Cut(out, n - 1), "NUL")]
<1>1. PICK l \in Nat : l = Len(out)
  OBVIOUS
<1>2. PICK m \in Nat : m = n - 1
  OBVIOUS
<1> DEFINE b0 == [buf |-> <<>>, room |-> n - 1, cnt |-> 0]
           f == CHOOSE h : h = [k \in 0..Len(out) |-> IF k = 0 THEN b0 ELSE sprintputch(h[k - 1], out[k])]
<1>3. vsnprintf(n, out) = [ret |-> f[Len(out)].cnt, buf |-> Append(f[Len(out)].buf, "NUL")]
  <2>1. vsnprintf(n, out) = IF n < 1 THEN [ret |-> -3, buf |-> <<>>]
                            ELSE [ret |-> f[Len(out)].cnt, buf |-> Append(f[Len(out)].buf, "NUL")]
    BY Zenon DEF vsnprintf
  <2> HIDE DEF f
  <2>2. ~(n < 1)
    OBVIOUS
  <2>3. QED  BY <2>1, <2>2, Zenon
<1>4. KeptAt(out, m, 0) = b0
  <2>1. Cap(m, 0) = 0 /\ 1..0 = {}
    BY DEF Cap
  <2>2. [i \in 1..0 |-> out[i]] = <<>>
    OBVIOUS
  <2>3. QED  BY <1>2, <2>1, <2>2 DEF KeptAt
<1> HIDE DEF b0
<1>5. PICK g : g = [k \in 0..l |-> KeptAt(out, m, k)]
  OBVIOUS
<1>6. g[0] = b0
  BY <1>4, <1>5
<1>7. ASSUME NEW k \in 1..l PROVE g[k] = sprintputch(g[k - 1], out[k])
  <2>1. PICK j \in Nat : j = k - 1 /\ j + 1 = k /\ j \in 0..l /\ k \in 0..l
    <3>1. k - 1 \in Nat /\ (k - 1) + 1 = k /\ k - 1 \in 0..l /\ k \in 0..l
      OBVIOUS
    <3>2. QED  BY <3>1
  <2>2. j + 1 <= Len(out)
    BY <1>1, <2>1
  <2>3. sprintputch(KeptAt(out, m, j), out[j + 1]) = KeptAt(out, m, j + 1)
    BY <2>2, CharKept
  <2>4. g[k] = KeptAt(out, m, k) /\ g[j] = KeptAt(out, m, j)
    BY <1>5, <2>1
  <2>5. QED  BY <2>1, <2>3, <2>4
<1>8. \E h : h = [k \in 0..Len(out) |-> IF k = 0 THEN b0 ELSE sprintputch(h[k - 1], out[k])]
  <2>1. \A k \in 0..l : g[k] = IF k = 0 THEN b0 ELSE sprintputch(g[k - 1], out[k])
    BY <1>6, <1>7
  <2>2. g = [k \in 0..l |-> IF k = 0 THEN b0 ELSE sprintputch(g[k - 1], out[k])]
    BY <1>5, <2>1
  <2>3. QED  BY <1>1, <2>2
<1>9. f = [k \in 0..Len(out) |-> IF k = 0 THEN b0 ELSE sprintputch(f[k - 1], out[k])]
  BY <1>8, Zenon
<1> HIDE DEF f
<1>10. f[0] = b0 /\ \A k \in 1..l : f[k] = sprintputch(f[k - 1], out[k])
  BY <1>1, <1>9
<1>11. f[l] = g[l]
  <2>1. f[0] = g[0] /\ \A k \in 1..l : f[k - 1] = g[k - 1] => f[k] = g[k]
    BY <1>6, <1>7, <1>10
  <2>2. QED  BY <2>1, TurnsAgree
<1>12. g[l] = KeptAt(out, m, l)
  BY <1>5
<1>13. [i \in 1..Cap(m, l) |-> out[i]] = Cut(out, m)
  BY <1>1 DEF Cut, Cap
<1>14. f[l].cnt = l /\ f[l].buf = Cut(out, m)
  BY <1>11, <1>12, <1>13 DEF KeptAt
<1>15. QED  BY <1>1, <1>2, <1>3, <1>14

\* What the buffer of cprintf holds when it is sent.
CallSize == CPRINTF_BUF - 1
\* The blocks of w characters that the first a calls of cprintf send.
BlocksOf(out, w, a) == [i \in 1..a |-> [j \in 1..w |-> out[(i - 1) * w + j]]]
\* The buffer of cprintf after them, with r characters more in it.
HeldAt(out, w, a, r) == [buf |-> [j \in 1..r |-> out[a * w + j]], sent |-> BlocksOf(out, w, a), cnt |-> a * w + r]

LEMMA BlockMore ==
  ASSUME NEW out, NEW w \in Nat, NEW a \in Nat, NEW y, y = [j \in 1..w |-> out[a * w + j]]
  PROVE  Append(BlocksOf(out, w, a), y) = BlocksOf(out, w, a + 1)
<1> DEFINE block(i) == [j \in 1..w |-> out[(i - 1) * w + j]]
<1>1. block(a + 1) = [j \in 1..w |-> out[a * w + j]]
  <2>1. (a + 1) - 1 = a
    OBVIOUS
  <2>2. QED  BY <2>1, Zenon
<1> HIDE DEF block
<1>2. PICK V : V = {block(i) : i \in 1..(a + 1)}
  OBVIOUS
<1>3. PICK s : s = [i \in 1..(a + 1) |-> block(i)]
  OBVIOUS
<1>4. s \in Seq(V) /\ Len(s) = a + 1
  <2>1. s \in [1..(a + 1) -> V]
    BY <1>2, <1>3
  <2>2. QED  BY <2>1
<1>5. Append([i \in 1..a |-> s[0 + i]], s[0 + a + 1]) = [i \in 1..(a + 1) |-> s[0 + i]]
  <2>1. 0 \in Nat /\ 0 + a + 1 <= Len(s)
    BY <1>4
  <2>2. QED  BY <1>4, <2>1, OneMore
<1>6. /\ [i \in 1..a |-> s[0 + i]] = [i \in 1..a |-> block(i)] /\ s[0 + a + 1] = block(a + 1)
      /\ [i \in 1..(a + 1) |-> s[0 + i]] = [i \in 1..(a + 1) |-> block(i)]
  <2>1. \A i \in 1..(a + 1) : 0 + i = i /\ s[i] = block(i)
    BY <1>3
  <2>2. 0 + a + 1 = a + 1 /\ a + 1 \in 1..(a + 1) /\ \A i \in 1..a : i \in 1..(a + 1)
    OBVIOUS
  <2>3. QED  BY <2>1, <2>2
<1>7. Append([i \in 1..a |-> block(i)], block(a + 1)) = [i \in 1..(a + 1) |-> block(i)]
  BY <1>5, <1>6, Zenon
<1>8. QED  BY <1>1, <1>7, Zenon DEF block, BlocksOf

LEMMA NextBlock ==
  ASSUME NEW a \in Nat, NEW w \in Nat
  PROVE  (a + 1) * w = a * w + w
OBVIOUS

LEMMA CharPut ==
  ASSUME NEW V, NEW out \in Seq(V), NEW w \in Nat, w = CallSize,
         NEW a \in Nat, NEW r \in Nat, r < w, a * w + r + 1 <= Len(out)
  PROVE  putch(HeldAt(out, w, a, r), out[a * w + r + 1]) =
           IF r + 1 = w THEN HeldAt(out, w, a + 1, 0) ELSE HeldAt(out, w, a, r + 1)
<1>1. PICK p \in Nat : p = a * w
  OBVIOUS
<1>2. PICK c : c = HeldAt(out, w, a, r)
  OBVIOUS
<1>3. /\ c.buf = [j \in 1..r |-> out[p + j]] /\ c.cnt = p + r
      /\ c.sent = BlocksOf(out, w, a)
  BY <1>1, <1>2 DEF HeldAt
<1>4. p + r + 1 <= Len(out)
  BY <1>1
<1>5. PICK y : y = [j \in 1..(r + 1) |-> out[p + j]]
  OBVIOUS
<1>6. Append(c.buf, out[p + r + 1]) = y
  BY <1>3, <1>4, <1>5, OneMore
<1>7. Len(y) = r + 1
  <2>1. PICK l \in Nat : l = Len(out)
    OBVIOUS
  <2>2. out \in [1..l -> V]
    BY <2>1, SeqFunction
  <2>3. \A j \in 1..(r + 1) : p + j \in 1..l
    BY <1>4, <2>1
  <2>4. y \in [1..(r + 1) -> V]
    BY <1>5, <2>2, <2>3
  <2>5. QED  BY <2>4
<1>8. putch(c, out[p + r + 1]) =
        IF r + 1 = w THEN [buf |-> <<>>, sent |-> Append(c.sent, y), cnt |-> (p + r) + 1]
        ELSE [buf |-> y, sent |-> c.sent, cnt |-> (p + r) + 1]
  BY <1>3, <1>6, <1>7, Zenon DEF putch, CallSize
<1>9. CASE r + 1 = w
  <2>1. y = [j \in 1..w |-> out[a * w + j]]
    BY <1>1, <1>5, <1>9, Zenon
  <2>2. Append(c.sent, y) = BlocksOf(out, w, a + 1)
    <3>1. Append(BlocksOf(out, w, a), y) = BlocksOf(out, w, a + 1)
      BY <2>1, BlockMore
    <3>2. QED  BY <1>3, <3>1, Zenon
  <2>3. (a + 1) * w = p + w /\ (p + w) + 0 = (p + r) + 1
    <3>1. (a + 1) * w = a * w + w
      BY NextBlock
    <3>2. (p + w) + 0 = (p + r) + 1
      BY <1>9
    <3>3. QED  BY <1>1, <3>1, <3>2, Zenon
  <2>4. HeldAt(out, w, a + 1, 0) = [buf |-> <<>>, sent |-> Append(c.sent, y), cnt |-> (p + r) + 1]
    <3>1. [j \in 1..0 |-> out[(a + 1) * w + j]] = <<>>
      <4>1. 1..0 = {}
        OBVIOUS
      <4>2. QED  BY <4>1
    <3>2. QED  BY <2>2, <2>3, <3>1, Zenon DEF HeldAt
  <2>5. QED  BY <1>1, <1>2, <1>8, <1>9, <2>4, Zenon
<1>10. CASE r + 1 # w
  <2>1. p + (r + 1) = (p + r) + 1
    OBVIOUS
  <2>2. HeldAt(out, w, a, r + 1) = [buf |-> y, sent |-> c.sent, cnt |-> (p + r) + 1]
    BY <1>1, <1>3, <1>5, <2>1, Zenon DEF HeldAt
  <2>3. QED  BY <1>1, <1>2, <1>8, <1>10, <2>2, Zenon
<1>11. QED  BY <1>9, <1>10

\* Where cprintf is after k characters.
PutAt(out, w, k) == HeldAt(out, w, k \div w, k - (k \div w) * w)

LEMMA PutNext ==
  ASSUME NEW V, NEW out \in Seq(V), NEW w \in Nat \ {0}, w = CallSize,
         NEW k \in Nat, k + 1 <= Len(out)
  PROVE  putch(PutAt(out, w, k), out[k + 1]) = PutAt(out, w, k + 1)
<1>1. PICK a \in Nat : a = k \div w /\ a * w <= k /\ k < a * w + w
  <2>1. k \div w \in Nat /\ (k \div w) * w <= k /\ k < (k \div w) * w + w
    BY DivDef
  <2>2. QED  BY <2>1, Zenon
<1>2. PICK p \in Nat : p = a * w /\ p <= k /\ k < p + w
  BY <1>1
<1>3. PICK r \in Nat : r = k - p /\ r < w /\ p + r = k
  <2>1. k - p \in Nat /\ k - p < w /\ p + (k - p) = k
    BY <1>2
  <2>2. QED  BY <2>1, Zenon
<1>4. PutAt(out, w, k) = HeldAt(out, w, a, r)
  BY <1>1, <1>2, <1>3, Zenon DEF PutAt
<1>5. a * w + r + 1 <= Len(out) /\ a * w + r + 1 = k + 1
  BY <1>2, <1>3
<1>6. putch(HeldAt(out, w, a, r), out[a * w + r + 1]) =
        IF r + 1 = w THEN HeldAt(out, w, a + 1, 0) ELSE HeldAt(out, w, a, r + 1)
  BY <1>3, <1>5, CharPut
<1>7. CASE r + 1 = w
  <2>1. PICK s \in Nat : s = (a + 1) * w /\ s = p + w
    <3>1. (a + 1) * w = a * w + w
      BY NextBlock
    <3>2. p + w \in Nat
      OBVIOUS
    <3>3. QED  BY <1>2, <3>1, <3>2, Zenon
  <2>2. s = k + 1
    BY <1>3, <1>7, <2>1
  <2>3. (a + 1) * w <= k + 1 /\ k + 1 < (a + 1) * w + w
    BY <2>1, <2>2
  <2>4. (k + 1) \div w = a + 1
    <3>1. PICK t \in Nat : t = k + 1
      OBVIOUS
    <3>2. PICK d \in Nat : d = a + 1
      OBVIOUS
    <3>3. d * w <= t /\ t < d * w + w
      BY <2>3, <3>1, <3>2, Zenon
    <3>4. t \div w = d
      BY <3>3, DivIs
    <3>5. QED  BY <3>1, <3>2, <3>4, Zenon
  <2>5. (k + 1) - s = 0
    BY <2>2
  <2>6. PutAt(out, w, k + 1) = HeldAt(out, w, a + 1, 0)
    BY <2>1, <2>4, <2>5, Zenon DEF PutAt
  <2>7. QED  BY <1>4, <1>5, <1>6, <1>7, <2>6, Zenon
<1>8. CASE r + 1 # w
  <2>1. p <= k + 1 /\ k + 1 < p + w /\ (k + 1) - p = r + 1
    BY <1>3, <1>8
  <2>2. a * w <= k + 1 /\ k + 1 < a * w + w
    BY <1>2, <2>1, Zenon
  <2>3. (k + 1) \div w = a
    <3>1. PICK t \in Nat : t = k + 1
      OBVIOUS
    <3>2. a * w <= t /\ t < a * w + w
      BY <2>2, <3>1, Zenon
    <3>3. t \div w = a
      BY <3>2, DivIs
    <3>4. QED  BY <3>1, <3>3, Zenon
  <2>4. PutAt(out, w, k + 1) = HeldAt(out, w, a, r + 1)
    BY <1>2, <2>1, <2>3, Zenon DEF PutAt
  <2>5. QED  BY <1>4, <1>5, <1>6, <1>8, <2>4, Zenon
<1>9. QED  BY <1>7, <1>8

LEMMA CprintfEnds ==
  ASSUME NEW V, NEW out \in Seq(V), NEW w \in Nat \ {0}, w = CallSize
  PROVE  vcprintf(out) = [ret |-> PutAt(out, w, Len(out)).cnt,
                          sent |-> Append(PutAt(out, w, Len(out)).sent, PutAt(out, w, Len(out)).buf)]
<1>1. PICK l \in Nat : l = Len(out)
  OBVIOUS
<1> DEFINE b0 == [buf |-> <<>>, sent |-> <<>>, cnt |-> 0]
           f == CHOOSE h : h = [k \in 0..Len(out) |-> IF k = 0 THEN b0 ELSE putch(h[k - 1], out[k])]
<1>2. vcprintf(out) = [ret |-> f[Len(out)].cnt, sent |-> Append(f[Len(out)].sent, f[Len(out)].buf)]
  BY Zenon DEF vcprintf
<1>3. PutAt(out, w, 0) = b0
  <2>1. 0 * w <= 0 /\ 0 < 0 * w + w
    <3>1. 0 * w = 0
      OBVIOUS
    <3>2. 0 <= 0 /\ 0 < 0 + w
      OBVIOUS
    <3>3. QED  BY <3>1, <3>2, Zenon
  <2>2. 0 \div w = 0
    BY <2>1, DivIs
  <2>3. 0 - 0 * w = 0 /\ 0 * w + 0 = 0 /\ 1..0 = {}
    OBVIOUS
  <2>4. PutAt(out, w, 0) = HeldAt(out, w, 0, 0)
    BY <2>2, <2>3, Zenon DEF PutAt
  <2>5. [j \in 1..0 |-> out[0 * w + j]] = <<>>
    BY <2>3
  <2>6. BlocksOf(out, w, 0) = <<>>
    BY <2>3 DEF BlocksOf
  <2>7. QED  BY <2>3, <2>4, <2>5, <2>6, Zenon DEF HeldAt
<1> HIDE DEF b0, f
<1>4. PICK g : g = [k \in 0..l |-> PutAt(out, w, k)]
  OBVIOUS
<1>5. g[0] = b0
  BY <1>3, <1>4
<1>6. ASSUME NEW k \in 1..l PROVE g[k] = putch(g[k - 1], out[k])
  <2>1. PICK j \in Nat : j = k - 1 /\ j + 1 = k /\ j \in 0..l /\ k \in 0..l
    <3>1. k - 1 \in Nat /\ (k - 1) + 1 = k /\ k - 1 \in 0..l /\ k \in 0..l
      OBVIOUS
    <3>2. QED  BY <3>1
  <2>2. j + 1 <= Len(out)
    BY <1>1, <2>1
  <2>3. putch(PutAt(out, w, j), out[j + 1]) = PutAt(out, w, j + 1)
    BY <2>2, PutNext
  <2>4. g[k] = PutAt(out, w, k) /\ g[j] = PutAt(out, w, j)
    BY <1>4, <2>1
  <2>5. QED  BY <2>1, <2>3, <2>4
<1>7. \E h : h = [k \in 0..Len(out) |-> IF k = 0 THEN b0 ELSE putch(h[k - 1], out[k])]
  <2>1. \A k \in 0..l : g[k] = IF k = 0 THEN b0 ELSE putch(g[k - 1], out[k])
    BY <1>5, <1>6
  <2>2. g = [k \in 0..l |-> IF k = 0 THEN b0 ELSE putch(g[k - 1], out[k])]
    BY <1>4, <2>1
  <2>3. QED  BY <1>1, <2>2
<1>8. f = [k \in 0..Len(out) |-> IF k = 0 THEN b0 ELSE putch(f[k - 1], out[k])]
  BY <1>7, Zenon DEF f
<1>9. f[0] = b0 /\ \A k \in 1..l : f[k] = putch(f[k - 1], out[k])
  BY <1>1, <1>8
<1>10. f[l] = g[l]
  <2>1. f[0] = g[0] /\ \A k \in 1..l : f[k - 1] = g[k - 1] => f[k] = g[k]
    BY <1>5, <1>6, <1>9
  <2>2. QED  BY <2>1, TurnsAgree
<1>11. f[Len(out)] = PutAt(out, w, Len(out))
  BY <1>1, <1>4, <1>10
<1>12. QED  BY <1>2, <1>11, Zenon

\* n characters of l are left from a on, or w if that is less.
PieceLen(l, a, w, n) == a + n <= l /\ n <= w /\ (n < w => a + n = l)

LEMMA PieceIs ==
  ASSUME NEW V, NEW out \in Seq(V), NEW a \in Nat, NEW w \in Nat, NEW n \in Nat, PieceLen(Len(out), a, w, n)
  PROVE  Piece(out, a, w) = [j \in 1..n |-> out[a + j]]
<1>1. PICK l \in Nat : l = Len(out) /\ a + n <= l /\ n <= w /\ (n < w => a + n = l)
  BY DEF PieceLen
<1>2. PICK m \in Nat : m = l - a /\ n <= m
  <2>1. l - a \in Nat /\ n <= l - a
    BY <1>1
  <2>2. QED  BY <2>1, Zenon
<1>3. PICK s : s = [i \in 1..m |-> out[a + i]]
  OBVIOUS
<1>4. Len(s) = m
  <2>1. out \in [1..l -> V]
    BY <1>1, SeqFunction
  <2>2. \A i \in 1..m : a + i \in 1..l
    BY <1>1, <1>2
  <2>3. s \in [1..m -> V]
    BY <1>3, <2>1, <2>2
  <2>4. QED  BY <2>3
<1>5. Piece(out, a, w) = Cut(s, w)
  BY <1>1, <1>2, <1>3, Zenon DEF Piece
<1>6. (IF w < Len(s) THEN w ELSE Len(s)) = n
  BY <1>1, <1>2, <1>4
<1>7. Cut(s, w) = [j \in 1..n |-> s[j]]
  BY <1>6, Zenon DEF Cut
<1>8. [j \in 1..n |-> s[j]] = [j \in 1..n |-> out[a + j]]
  <2>1. \A j \in 1..n : j \in 1..m
    BY <1>2
  <2>2. \A j \in 1..n : s[j] = out[a + j]
    BY <1>3, <2>1
  <2>3. QED  BY <2>2
<1>9. QED  BY <1>5, <1>7, <1>8, Zenon

\* All of out is sent, in blocks of w.
AllSent(out, w, c) == /\ c.ret = Len(out) /\ Len(c.sent) = Len(out) \div w + 1
                      /\ \A i \in 1..Len(c.sent) : c.sent[i] = Piece(out, (i - 1) * w, w)

LEMMA CprintfRight ==
  ASSUME NEW V, NEW out \in Seq(V), NEW w \in Nat \ {0}, w = CallSize, NEW c, c = vcprintf(out)
  PROVE  AllSent(out, w, c)
<1>1. PICK l \in Nat : l = Len(out)
  OBVIOUS
<1>2. PICK a \in Nat : a = l \div w /\ a * w <= l /\ l < a * w + w
  <2>1. l \div w \in Nat /\ (l \div w) * w <= l /\ l < (l \div w) * w + w
    BY DivDef
  <2>2. QED  BY <2>1, Zenon
<1>3. PICK p \in Nat : p = a * w /\ p <= l /\ l < p + w
  BY <1>2
<1>4. PICK r \in Nat : r = l - p /\ r < w /\ p + r = l
  <2>1. l - p \in Nat /\ l - p < w /\ p + (l - p) = l
    BY <1>3
  <2>2. QED  BY <2>1, Zenon
<1>5. PutAt(out, w, Len(out)) = HeldAt(out, w, a, r)
  BY <1>1, <1>2, <1>3, <1>4, Zenon DEF PutAt
<1>6. PICK x : x = BlocksOf(out, w, a)
  OBVIOUS
<1>7. PICK y : y = [j \in 1..r |-> out[p + j]]
  OBVIOUS
<1>8. PICK s : s = Append(x, y)
  OBVIOUS
<1>9. c = [ret |-> l, sent |-> s]
  <2>1. vcprintf(out) = [ret |-> PutAt(out, w, Len(out)).cnt,
                         sent |-> Append(PutAt(out, w, Len(out)).sent, PutAt(out, w, Len(out)).buf)]
    BY CprintfEnds
  <2>2. PICK h : h = HeldAt(out, w, a, r)
    OBVIOUS
  <2>3. h = [buf |-> y, sent |-> x, cnt |-> l]
    BY <1>3, <1>4, <1>6, <1>7, <2>2, Zenon DEF HeldAt
  <2>4. h.buf = y /\ h.sent = x /\ h.cnt = l
    BY <2>3
  <2>5. QED  BY <1>5, <1>8, <2>1, <2>2, <2>4, Zenon
<1>10. c.ret = l /\ c.sent = s
  BY <1>9
<1> DEFINE block(i) == [j \in 1..w |-> out[(i - 1) * w + j]]
<1>11. x = [i \in 1..a |-> block(i)]
  BY <1>6, Zenon DEF BlocksOf
<1> HIDE DEF block
<1>12. PICK W : W = {block(i) : i \in 1..a} \cup {y}
  OBVIOUS
<1>13. x \in Seq(W) /\ Len(x) = a /\ y \in W
  <2>1. x \in [1..a -> W]
    BY <1>11, <1>12
  <2>2. QED  BY <1>12, <2>1
<1>14. Len(s) = a + 1 /\ s[a + 1] = y /\ \A i \in 1..a : s[i] = x[i]
  <2>1. /\ Len(Append(x, y)) = Len(x) + 1 /\ Append(x, y)[Len(x) + 1] = y
        /\ \A i \in 1..Len(x) : Append(x, y)[i] = x[i]
    BY <1>13, AppendProperties
  <2>2. QED  BY <1>8, <1>13, <2>1, Zenon
<1>15. ASSUME NEW i \in 1..a PROVE s[i] = Piece(out, (i - 1) * w, w)
  <2>1. PICK b \in Nat : b = (i - 1) * w /\ b + w <= Len(out)
    <3>1. PICK d \in Nat : d = i - 1 /\ d + 1 <= a
      <4>1. i - 1 \in Nat /\ (i - 1) + 1 <= a
        OBVIOUS
      <4>2. QED  BY <4>1, Zenon
    <3>2. (d + 1) * w <= a * w
      BY <3>1, MulMono
    <3>3. (d + 1) * w = d * w + w
      BY <3>1, NextBlock
    <3>4. PICK b \in Nat : b = d * w
      OBVIOUS
    <3>5. b + w <= p
      BY <1>3, <3>2, <3>3, <3>4, Zenon
    <3>6. b + w <= Len(out)
      BY <1>1, <1>3, <3>5
    <3>7. QED  BY <3>1, <3>4, <3>6, Zenon
  <2>2. Piece(out, b, w) = [j \in 1..w |-> out[b + j]]
    <3>1. PieceLen(Len(out), b, w, w)
      BY <2>1 DEF PieceLen
    <3>2. w \in Nat
      OBVIOUS
    <3>3. QED  BY <3>1, <3>2, PieceIs
  <2>3. block(i) = [j \in 1..w |-> out[b + j]]
    BY <2>1, Zenon DEF block
  <2>4. s[i] = block(i)
    BY <1>11, <1>14
  <2>5. QED  BY <2>1, <2>2, <2>3, <2>4, Zenon
<1>16. s[a + 1] = Piece(out, ((a + 1) - 1) * w, w)
  <2>1. PieceLen(Len(out), p, w, r)
    BY <1>1, <1>4 DEF PieceLen
  <2>2. Piece(out, p, w) = [j \in 1..r |-> out[p + j]]
    BY <2>1, PieceIs
  <2>3. (a + 1) - 1 = a
    OBVIOUS
  <2>4. QED  BY <1>3, <1>7, <1>14, <2>2, <2>3, Zenon
<1>17. ASSUME NEW i \in 1..(a + 1) PROVE s[i] = Piece(out, (i - 1) * w, w)
  <2>1. CASE i = a + 1
    BY <1>16, <2>1, Zenon
  <2>2. CASE i # a + 1
    <3>1. i \in 1..a
      BY <2>2
    <3>2. QED  BY <1>15, <3>1, Zenon
  <2>3. QED  BY <2>1, <2>2
<1>18. QED  BY <1>1, <1>2, <1>10, <1>14, <1>17, Zenon DEF AllSent

\* Output is neither lost nor repeated nor reordered on its way out, whatever is
\* printed and whatever the size of the buffers: vsnprintf keeps what fits and
\* counts everything (lib/printfmt.c), and the system calls of the user's
\* cprintf carry exactly what was put, in order (lib/printf.c).
THEOREM SinksSound ==
  ASSUME NEW V, NEW out \in Seq(V), NEW n \in Nat
  PROVE  SinksRight(out, n)
<1>1. PICK w \in Nat \ {0} : w = CallSize /\ w = CPRINTF_BUF - 1
  <2>1. CPRINTF_BUF - 1 \in Nat \ {0}
    BY BufAssumption
  <2>2. QED  BY <2>1 DEF CallSize
<1>2. PICK c : c = vcprintf(out)
  OBVIOUS
<1>3. AllSent(out, w, c)
  BY <1>1, <1>2, CprintfRight
<1>4. PICK b : b = vsnprintf(n, out)
  OBVIOUS
<1>5. n >= 1 => b.ret = Len(out) /\ b.buf = Append(Cut(out, n - 1), "NUL")
  <2>1. SUFFICES ASSUME n >= 1 PROVE b.ret = Len(out) /\ b.buf = Append(Cut(out, n - 1), "NUL")
    OBVIOUS
  <2>2. b = [ret |-> Len(out), buf |-> Append(Cut(out, n - 1), "NUL")]
    BY <1>4, <2>1, SnprintfRight
  <2>3. QED  BY <2>2
<1>6. QED  BY <1>1, <1>2, <1>3, <1>4, <1>5, Zenon DEF SinksRight, AllSent

-----------------------------------------------------------------------------
\* Numbers.  The calls of printnum on ever smaller quotients.
Divided(f, num, base, n) == f = [k \in 0..n |-> IF k = 0 THEN num ELSE f[k - 1] \div base]

LEMMA DividedExists ==
  ASSUME NEW num, NEW base, NEW n \in Nat
  PROVE  \E f : Divided(f, num, base, n)
<1> DEFINE T == {k \in Nat : ~\E f : Divided(f, num, base, k)}
<1> SUFFICES T = {}
  OBVIOUS
<1> SUFFICES ASSUME T # {} PROVE FALSE
  OBVIOUS
<1>1. PICK k \in T : \A m \in T : k <= m
  <2>1. T \subseteq Nat
    OBVIOUS
  <2> HIDE DEF T
  <2>2. QED  BY <2>1, Least
<1>2. k \in Nat /\ ~\E f : Divided(f, num, base, k)
  OBVIOUS
<1>3. CASE k = 0
  <2>1. Divided([i \in 0..0 |-> num], num, base, 0)
    BY DEF Divided
  <2>2. QED  BY <1>2, <1>3, <2>1
<1>4. CASE k # 0
  <2>1. k - 1 \in Nat /\ k - 1 \notin T
    BY <1>1, <1>2, <1>4
  <2>2. PICK f : Divided(f, num, base, k - 1)
    BY <2>1
  <2>3. PICK g : g = [i \in 0..k |-> IF i = k THEN f[k - 1] \div base ELSE f[i]]
    OBVIOUS
  <2>4. ASSUME NEW i \in 0..k PROVE g[i] = IF i = 0 THEN num ELSE g[i - 1] \div base
    <3>1. CASE i = 0
      <4>1. g[0] = f[0] /\ f[0] = num
        BY <1>2, <1>4, <2>2, <2>3 DEF Divided
      <4>2. QED  BY <3>1, <4>1
    <3>2. CASE i # 0
      <4>1. i - 1 \in 0..k /\ i - 1 \in 0..(k - 1) /\ i - 1 # k
        BY <1>2, <3>2
      <4>2. g[i - 1] = f[i - 1]
        BY <2>3, <4>1
      <4>3. CASE i = k
        <5>1. g[i] = f[i - 1] \div base
          BY <2>3, <4>3
        <5>2. QED  BY <3>2, <4>2, <5>1, Zenon
      <4>4. CASE i # k
        <5>1. i \in 0..(k - 1)
          BY <1>2, <4>4
        <5>2. g[i] = f[i]
          BY <2>3, <4>4
        <5>3. f[i] = f[i - 1] \div base
          BY <2>2, <3>2, <5>1 DEF Divided
        <5>4. QED  BY <3>2, <4>2, <5>2, <5>3, Zenon
      <4>5. QED  BY <4>3, <4>4
    <3>3. QED  BY <3>1, <3>2
  <2>5. Divided(g, num, base, k)
    BY <2>3, <2>4 DEF Divided
  <2>6. QED  BY <1>2, <2>5
<1>5. QED  BY <1>3, <1>4

\* Each call has the quotient of the one before it.
Quotients(q, num, base) ==
  /\ q[0] = num /\ DOMAIN q = 0..num /\ \A k \in 0..num : q[k] \in Nat
  /\ \A k \in 1..num : q[k] = q[k - 1] \div base

LEMMA QuotientsAre ==
  ASSUME NEW num \in Nat, NEW base \in Nat \ {0}
  PROVE  Quotients(quotients(num, base), num, base)
<1>1. PICK q : q = quotients(num, base) /\ Divided(q, num, base, num)
  <2>1. \E f : Divided(f, num, base, num)
    BY DividedExists
  <2> DEFINE h == CHOOSE f : Divided(f, num, base, num)
  <2>2. Divided(h, num, base, num)
    BY <2>1, Zenon
  <2>3. quotients(num, base) = h
    BY Zenon DEF quotients, Divided
  <2>4. QED  BY <2>2, <2>3, Zenon
<1>2. q[0] = num /\ DOMAIN q = 0..num /\ \A k \in 1..num : q[k] = q[k - 1] \div base
  <2>1. q = [k \in 0..num |-> IF k = 0 THEN num ELSE q[k - 1] \div base]
    BY <1>1, Zenon DEF Divided
  <2>2. DOMAIN q = 0..num
    BY <2>1, Zenon
  <2>3. \A k \in 0..num : q[k] = IF k = 0 THEN num ELSE q[k - 1] \div base
    BY <2>1, Zenon
  <2>4. 0 \in 0..num /\ \A k \in 1..num : k \in 0..num /\ k # 0
    OBVIOUS
  <2>5. QED  BY <2>2, <2>3, <2>4, Zenon
<1> DEFINE T == {k \in 0..num : q[k] \notin Nat}
<1>3. T = {}
  <2> SUFFICES ASSUME T # {} PROVE FALSE
    OBVIOUS
  <2>1. PICK k \in T : \A m \in T : k <= m
    <3>1. T \subseteq Nat
      OBVIOUS
    <3> HIDE DEF T
    <3>2. QED  BY <3>1, Least
  <2>2. k \in 1..num
    BY <1>2
  <2>3. k - 1 \in 0..num /\ k - 1 \notin T
    BY <2>1, <2>2
  <2>4. PICK x \in Nat : x = q[k - 1]
    BY <2>3
  <2>5. q[k] = x \div base
    BY <1>2, <2>2, <2>4
  <2>6. x \div base \in Nat
    BY DivDef
  <2>7. QED  BY <2>5, <2>6
<1>4. QED  BY <1>1, <1>2, <1>3 DEF Quotients

\* The calls end, with the first quotient of one digit.
Ends(q, base, num, n) == n \in 0..num /\ q[n] < base /\ \A j \in 0..(n - 1) : q[j] >= base

LEMMA Halved ==
  ASSUME NEW x \in Nat, NEW base \in Nat, base >= 2, x >= 1
  PROVE  x \div base < x
<1>1. PICK d \in Nat : d = x \div base /\ d * base <= x
  <2>1. x \div base \in Nat /\ (x \div base) * base <= x
    BY DivDef
  <2>2. QED  BY <2>1, Zenon
<1>2. 2 * d <= base * d
  BY MulMono
<1>3. base * d = d * base
  OBVIOUS
<1>4. PICK e \in Int : e = d * base /\ 2 * d <= e /\ e <= x
  BY <1>1, <1>2, <1>3
<1>5. d < x
  BY <1>4
<1>6. QED  BY <1>1, <1>5

LEMMA LastCall ==
  ASSUME NEW num \in Nat, NEW base \in Nat, base >= 2, NEW q, Quotients(q, num, base)
  PROVE  Ends(q, base, num, last_call(q, base))
<1>1. q[0] = num /\ DOMAIN q = 0..num /\ \A k \in 0..num : q[k] \in Nat
  BY DEF Quotients
<1> DEFINE T == {k \in 0..num : q[k] + k > num /\ q[k] # 0}
<1>2. T = {}
  <2> SUFFICES ASSUME T # {} PROVE FALSE
    OBVIOUS
  <2>1. PICK k \in T : \A m \in T : k <= m
    <3>1. T \subseteq Nat
      OBVIOUS
    <3> HIDE DEF T
    <3>2. QED  BY <3>1, Least
  <2>2. k \in 1..num
    BY <1>1
  <2>3. k - 1 \in 0..num /\ k - 1 \notin T
    BY <2>1, <2>2
  <2>4. PICK x \in Nat : x = q[k - 1]
    BY <1>1, <2>3
  <2>5. PICK y \in Nat : y = q[k] /\ y + k > num /\ y # 0
    BY <1>1
  <2>6. y = x \div base
    BY <2>2, <2>4, <2>5 DEF Quotients
  <2>7. x + (k - 1) <= num \/ x = 0
    BY <2>3, <2>4
  <2>8. CASE x = 0
    <3>1. 0 * base <= 0 /\ 0 < 0 * base + base
      <4>1. 0 * base = 0
        OBVIOUS
      <4>2. QED  BY <4>1
    <3>2. 0 \div base = 0
      BY <3>1, DivIs
    <3>3. QED  BY <2>5, <2>6, <2>8, <3>2
  <2>9. CASE x # 0
    <3>1. x \div base < x
      BY <2>9, Halved
    <3>2. y < x
      BY <2>6, <3>1
    <3>3. QED  BY <2>2, <2>5, <2>7, <2>9, <3>2
  <2>10. QED  BY <2>8, <2>9
<1>3. PICK z \in Nat : z = q[num] /\ (z + num <= num \/ z = 0)
  <2>1. num \in 0..num
    OBVIOUS
  <2>2. QED  BY <1>1, <1>2, <2>1
<1>4. z < base
  BY <1>3
<1> DEFINE S == {k \in 0..num : q[k] < base}
<1>5. PICK n \in S : \A m \in S : n <= m
  <2>1. num \in S
    BY <1>3, <1>4
  <2>2. S \subseteq Nat /\ S # {}
    BY <2>1
  <2> HIDE DEF S
  <2>3. QED  BY <2>2, Least
<1>6. ASSUME NEW j \in 0..(n - 1) PROVE q[j] >= base
  <2>1. j \in 0..num /\ ~(n <= j)
    OBVIOUS
  <2>2. j \notin S
    BY <1>5, <2>1
  <2>3. ~(q[j] < base)
    BY <2>1, <2>2
  <2>4. PICK x \in Nat : x = q[j]
    BY <1>1, <2>1
  <2>5. QED  BY <2>3, <2>4
<1>7. n \in DOMAIN q /\ q[n] < base /\ \A j \in 0..(n - 1) : q[j] >= base
  BY <1>1, <1>6
<1>8. /\ last_call(q, base) \in DOMAIN q /\ q[last_call(q, base)] < base
      /\ \A j \in 0..(last_call(q, base) - 1) : q[j] >= base
  BY <1>7, Zenon DEF last_call
<1>9. QED  BY <1>1, <1>8 DEF Ends

LEMMA DivMod ==
  ASSUME NEW b \in Nat \ {0}, NEW x \in Nat
  PROVE  x % b \in Nat /\ x % b < b /\ (x \div b) * b + (x % b) = x
OBVIOUS

\* The digits are distinct, and digit tells which one a character is.
LEMMA DigitOf ==
  ASSUME NEW x \in 0..15
  PROVE  Digits[x + 1] \in ToSet(Digits) /\ digit(Digits[x + 1]) = x
<1>1. \A i, j \in 1..16 : Digits[i] = Digits[j] => i = j
  BY DEF Digits
<1>2. DOMAIN Digits = 1..16
  BY DEF Digits
<1>3. PICK i \in 1..16 : i = x + 1
  OBVIOUS
<1>4. Digits[i] \in ToSet(Digits)
  BY <1>2 DEF ToSet
<1>5. (CHOOSE j \in 1..16 : Digits[j] = Digits[i]) = i
  BY <1>1
<1>6. digit(Digits[i]) = i - 1
  BY <1>4, <1>5 DEF digit
<1>7. QED  BY <1>3, <1>4, <1>6

\* The digits that printnum puts for the n + 1 quotients.
DigitsOf(s, q, base, n) == \A i \in 1..(n + 1) : digit(s[i]) = q[n + 1 - i] % base /\ digit(s[i]) < base

LEMMA DigitsPut ==
  ASSUME NEW num \in Nat, NEW base \in 2..16, NEW q, Quotients(q, num, base),
         NEW n \in 0..num, NEW s, s = put_digits(q, base, n)
  PROVE  s \in Seq(ToSet(Digits)) /\ Len(s) = n + 1 /\ DigitsOf(s, q, base, n)
<1>1. ASSUME NEW i \in 1..(n + 1)
      PROVE  /\ Digits[(q[n + 1 - i] % base) + 1] \in ToSet(Digits)
             /\ digit(Digits[(q[n + 1 - i] % base) + 1]) = q[n + 1 - i] % base
             /\ q[n + 1 - i] % base < base
  <2>1. n + 1 - i \in 0..num
    OBVIOUS
  <2>2. PICK x \in Nat : x = q[n + 1 - i]
    BY <2>1 DEF Quotients
  <2>3. PICK d \in 0..15 : d = x % base /\ d < base
    <3>1. x % base \in Nat /\ x % base < base
      BY DivMod
    <3>2. x % base \in 0..15
      BY <3>1
    <3>3. QED  BY <3>1, <3>2
  <2>4. Digits[d + 1] \in ToSet(Digits) /\ digit(Digits[d + 1]) = d
    BY DigitOf
  <2>5. QED  BY <2>2, <2>3, <2>4, Zenon
<1>2. s = [i \in 1..(n + 1) |-> Digits[(q[n + 1 - i] % base) + 1]]
  BY Zenon DEF put_digits
<1>3. s \in [1..(n + 1) -> ToSet(Digits)]
  BY <1>1, <1>2, Zenon
<1>4. s \in Seq(ToSet(Digits)) /\ Len(s) = n + 1
  <2>1. PICK D : D = ToSet(Digits)
    OBVIOUS
  <2>2. n + 1 \in Nat /\ s \in [1..(n + 1) -> D]
    BY <1>3, <2>1
  <2>3. s \in Seq(D) /\ Len(s) = n + 1
    BY <2>2
  <2>4. QED  BY <2>1, <2>3, Zenon
<1>5. \A i \in 1..(n + 1) : s[i] = Digits[(q[n + 1 - i] % base) + 1]
  BY <1>2, Zenon
<1>6. QED  BY <1>1, <1>4, <1>5, Zenon DEF DigitsOf

\* strtol adds up the quotients in the opposite order.
LEMMA ReadBack ==
  ASSUME NEW num \in Nat, NEW base \in 2..16, NEW q, Quotients(q, num, base),
         NEW n \in Nat, Ends(q, base, num, n), NEW s, s = put_digits(q, base, n)
  PROVE  strtol_digits(s, base) = [val |-> num, rest |-> <<>>]
<1>1. n \in 0..num /\ q[n] < base
  BY DEF Ends
<1>2. s \in Seq(ToSet(Digits)) /\ Len(s) = n + 1 /\ DigitsOf(s, q, base, n)
  BY <1>1, DigitsPut
<1>3. \A i \in 1..(n + 1) : digit(s[i]) = q[n + 1 - i] % base /\ digit(s[i]) < base
  BY <1>2, Zenon DEF DigitsOf
<1> DEFINE go == {i \in 0..(Len(s) - 1) : digit(s[i + 1]) < base}
<1>4. scan(go, Len(s)) = n + 1
  <2>1. \A i \in 0..n : i \in go
    <3>1. \A i \in 0..n : i \in 0..(Len(s) - 1) /\ i + 1 \in 1..(n + 1)
      BY <1>2
    <3>2. QED  BY <1>3, <3>1
  <2> HIDE DEF go
  <2>2. PICK m \in Nat : m = n + 1 /\ m - 1 = n
    OBVIOUS
  <2>3. StopsAt(go, m, m)
    BY <2>1, <2>2 DEF StopsAt
  <2>4. scan(go, m) = m
    BY <2>3, ScanIs
  <2>5. QED  BY <1>2, <2>2, <2>4, Zenon
<1> DEFINE v == CHOOSE h : h = [k \in 0..(n + 1) |-> IF k = 0 THEN 0 ELSE h[k - 1] * base + digit(s[k])]
<1>5. strtol_digits(s, base) = [val |-> v[n + 1], rest |-> SubSeq(s, (n + 1) + 1, Len(s))]
  <2> HIDE DEF go
  <2>1. PICK m : m = scan(go, Len(s))
    OBVIOUS
  <2>2. strtol_digits(s, base) =
          [val |-> (CHOOSE h : h = [k \in 0..m |-> IF k = 0 THEN 0 ELSE h[k - 1] * base + digit(s[k])])[m],
           rest |-> SubSeq(s, m + 1, Len(s))]
    BY <2>1, Zenon DEF strtol_digits, go
  <2>3. QED  BY <1>4, <2>1, <2>2, Zenon
<1> HIDE DEF go, v
<1>6. PICK g : g = [k \in 0..(n + 1) |-> IF k = 0 THEN 0 ELSE q[n + 1 - k]]
  OBVIOUS
<1>7. ASSUME NEW k \in 1..(n + 1) PROVE g[k] = g[k - 1] * base + digit(s[k])
  <2>1. n + 1 - k \in 0..num /\ k \in 0..(n + 1) /\ k # 0 /\ k - 1 \in 0..(n + 1)
    BY <1>1
  <2>2. PICK x \in Nat : x = q[n + 1 - k]
    BY <2>1 DEF Quotients
  <2>3. g[k] = x /\ digit(s[k]) = x % base
    BY <1>3, <1>6, <2>1, <2>2, Zenon
  <2>4. x % base \in Nat /\ x % base < base /\ (x \div base) * base + (x % base) = x
    BY DivMod
  <2>5. g[k - 1] = x \div base
    <3>1. CASE k = 1
      <4>1. g[k - 1] = 0
        BY <1>6, <3>1
      <4>2. n + 1 - k = n
        BY <3>1
      <4>3. x < base
        BY <1>1, <2>2, <4>2, Zenon
      <4>4. 0 * base <= x /\ x < 0 * base + base
        <5>1. 0 * base = 0
          OBVIOUS
        <5>2. QED  BY <4>3, <5>1
      <4>5. x \div base = 0
        BY <4>4, DivIs
      <4>6. QED  BY <4>1, <4>5
    <3>2. CASE k # 1
      <4>1. PICK j \in 1..num : j = n + 2 - k /\ j - 1 = n + 1 - k /\ j = n + 1 - (k - 1) /\ k - 1 # 0
        <5>1. /\ n + 2 - k \in 1..num /\ (n + 2 - k) - 1 = n + 1 - k
              /\ n + 2 - k = n + 1 - (k - 1) /\ k - 1 # 0
          BY <1>1, <3>2
        <5>2. QED  BY <5>1, Zenon
      <4>2. q[j] = q[j - 1] \div base
        BY Zenon DEF Quotients
      <4>3. g[k - 1] = q[j]
        BY <1>6, <2>1, <4>1, Zenon
      <4>4. QED  BY <2>2, <4>1, <4>2, <4>3, Zenon
    <3>3. QED  BY <3>1, <3>2
  <2>6. QED  BY <2>3, <2>4, <2>5, Zenon
<1>8. g[0] = 0
  <2>1. 0 \in 0..(n + 1)
    OBVIOUS
  <2>2. QED  BY <1>6, <2>1, Zenon
<1>9. \E h : h = [k \in 0..(n + 1) |-> IF k = 0 THEN 0 ELSE h[k - 1] * base + digit(s[k])]
  <2>1. ASSUME NEW k \in 0..(n + 1) PROVE g[k] = IF k = 0 THEN 0 ELSE g[k - 1] * base + digit(s[k])
    <3>1. k = 0 \/ k \in 1..(n + 1)
      OBVIOUS
    <3>2. k \in 1..(n + 1) => k # 0
      OBVIOUS
    <3>3. QED  BY <1>7, <1>8, <3>1, <3>2, Zenon
  <2>2. DOMAIN g = 0..(n + 1) /\ g = [k \in DOMAIN g |-> g[k]]
    BY <1>6, Zenon
  <2>3. g = [k \in 0..(n + 1) |-> IF k = 0 THEN 0 ELSE g[k - 1] * base + digit(s[k])]
    BY <2>1, <2>2, Zenon
  <2>4. QED  BY <2>3, Zenon
<1>10. v = [k \in 0..(n + 1) |-> IF k = 0 THEN 0 ELSE v[k - 1] * base + digit(s[k])]
  BY <1>9, Zenon DEF v
<1>11. \A k \in 0..(n + 1) : v[k] = IF k = 0 THEN 0 ELSE v[k - 1] * base + digit(s[k])
  BY <1>10, Zenon
<1>12. v[n + 1] = g[n + 1]
  <2>1. 0 \in 0..(n + 1) /\ \A k \in 1..(n + 1) : k \in 0..(n + 1) /\ k # 0
    OBVIOUS
  <2>2. v[0] = g[0] /\ \A k \in 1..(n + 1) : v[k] = v[k - 1] * base + digit(s[k])
    BY <1>8, <1>11, <2>1, Zenon
  <2>3. \A k \in 1..(n + 1) : v[k - 1] = g[k - 1] => v[k] = g[k]
    BY <1>7, <2>2, Zenon
  <2>4. n + 1 \in Nat
    OBVIOUS
  <2>5. QED  BY <2>2, <2>3, <2>4, TurnsAgree, Zenon
<1>13. g[n + 1] = num
  <2>1. n + 1 \in 0..(n + 1) /\ n + 1 # 0 /\ n + 1 - (n + 1) = 0
    OBVIOUS
  <2>2. q[0] = num
    BY DEF Quotients
  <2>3. QED  BY <1>6, <2>1, <2>2, Zenon
<1>14. SubSeq(s, (n + 1) + 1, Len(s)) = <<>>
  <2>1. PICK D : D = ToSet(Digits)
    OBVIOUS
  <2>2. PICK m \in Nat : m = n + 1
    OBVIOUS
  <2>3. s \in Seq(D) /\ Len(s) = m
    BY <1>2, <2>1, <2>2
  <2>4. SubSeq(s, m + 1, m) = <<>>
    BY <2>3
  <2>5. QED  BY <2>2, <2>3, <2>4, Zenon
<1>15. QED  BY <1>5, <1>12, <1>13, <1>14, Zenon

LEMMA NoLeadingZero ==
  ASSUME NEW num \in Nat, NEW base \in 2..16, NEW q, Quotients(q, num, base),
         NEW n \in Nat, Ends(q, base, num, n), NEW s, s = put_digits(q, base, n), n > 0
  PROVE  s[1] # "0"
<1>1. n \in 1..num /\ n \in 0..num /\ n - 1 \in 0..num /\ n - 1 \in 0..(n - 1)
  BY DEF Ends
<1>2. PICK x \in Nat : x = q[n - 1] /\ x >= base
  BY <1>1 DEF Ends, Quotients
<1>3. PICK y \in Nat : y = q[n] /\ y < base /\ y = x \div base
  BY <1>1, <1>2 DEF Ends, Quotients
<1>4. y # 0
  <2>1. (x \div base) * base <= x /\ x < (x \div base) * base + base
    BY DivDef
  <2>2. y = 0 => y * base + base = base
    OBVIOUS
  <2>3. x < y * base + base
    BY <1>3, <2>1, Zenon
  <2>4. QED  BY <1>2, <2>2, <2>3
<1>5. y % base = y
  <2>1. 0 * base <= y /\ y < 0 * base + base
    BY <1>3
  <2>2. y \div base = 0
    BY <2>1, DivIs
  <2>3. (y \div base) * base + (y % base) = y /\ y % base \in Nat
    BY DivMod
  <2>4. PICK m \in Nat : m = y % base
    BY <2>3
  <2>5. 0 * base + m = y
    BY <2>2, <2>3, <2>4, Zenon
  <2>6. QED  BY <2>4, <2>5
<1>6. digit(s[1]) = y
  <2>1. DigitsOf(s, q, base, n)
    BY <1>1, DigitsPut
  <2>2. 1 \in 1..(n + 1) /\ n + 1 - 1 = n
    OBVIOUS
  <2>3. digit(s[1]) = q[n + 1 - 1] % base
    BY <2>1, <2>2, Zenon DEF DigitsOf
  <2>4. QED  BY <1>3, <1>5, <2>2, <2>3, Zenon
<1>7. digit("0") = 0
  <2>1. 0 \in 0..15 /\ 0 + 1 = 1
    OBVIOUS
  <2>2. digit(Digits[0 + 1]) = 0
    BY <2>1, DigitOf
  <2>3. Digits[1] = "0"
    BY DEF Digits
  <2>4. QED  BY <2>1, <2>2, <2>3, Zenon
<1>8. QED  BY <1>4, <1>6, <1>7, Zenon

LEMMA FillIs ==
  ASSUME NEW c, NEW m \in Int, NEW k \in Nat, k = IF m > 0 THEN m ELSE 0
  PROVE  Fill(c, m) = [i \in 1..k |-> c]
<1>1. CASE m > 0
  <2>1. k = m /\ ~(m <= 0)
    BY <1>1
  <2>2. QED  BY <2>1, Zenon DEF Fill
<1>2. CASE ~(m > 0)
  <2>1. k = 0 /\ m <= 0 /\ 1..0 = {}
    BY <1>2
  <2>2. [i \in 1..0 |-> c] = <<>>
    BY <2>1
  <2>3. QED  BY <2>1, <2>2, Zenon DEF Fill
<1>3. QED  BY <1>1, <1>2

\* A number is printed in full, whatever its size, base, width and pad
\* character: printnum (lib/printfmt.c) puts pad characters up to the width and
\* then digits without a leading zero, and strtol (lib/string.c) reads them back
\* as the number.
THEOREM PrintnumSound ==
  ASSUME NEW num \in Nat, NEW base \in 2..16, NEW width \in Int, NEW padc
  PROVE  PrintnumRight(num, base, width, padc)
<1>1. PICK q : q = quotients(num, base)
  OBVIOUS
<1>2. base \in Nat \ {0} /\ base \in Nat /\ base >= 2
  OBVIOUS
<1>3. Quotients(q, num, base)
  BY <1>1, <1>2, QuotientsAre
<1>4. PICK n : n = last_call(q, base)
  OBVIOUS
<1>5. Ends(q, base, num, n)
  BY <1>2, <1>3, <1>4, LastCall
<1>6. n \in Nat /\ n \in 0..num
  BY <1>5 DEF Ends
<1>7. PICK s : s = put_digits(q, base, n)
  OBVIOUS
<1>8. s \in Seq(ToSet(Digits)) /\ Len(s) = n + 1 /\ DigitsOf(s, q, base, n)
  BY <1>3, <1>6, <1>7, DigitsPut
<1>9. Numeral(s, num, base)
  <2>1. s # <<>>
    BY <1>6, <1>8
  <2>2. Len(s) > 1 => s[1] # "0"
    <3>1. Len(s) > 1 => n > 0
      BY <1>6, <1>8
    <3>2. n > 0 => s[1] # "0"
      BY <1>3, <1>5, <1>6, <1>7, NoLeadingZero
    <3>3. QED  BY <3>1, <3>2, Zenon
  <2>3. \A i \in 1..Len(s) : digit(s[i]) < base
    BY <1>8, Zenon DEF DigitsOf
  <2>4. strtol_digits(s, base) = [val |-> num, rest |-> <<>>]
    BY <1>3, <1>5, <1>6, <1>7, ReadBack
  <2>5. QED  BY <2>1, <2>2, <2>3, <2>4, Zenon DEF Numeral
<1>10. PICK m \in Int : m = (width - n) - 1
  BY <1>6
<1>11. PICK k \in Nat : k = IF m > 0 THEN m ELSE 0
  OBVIOUS
<1>12. PICK p : p = [i \in 1..k |-> padc]
  OBVIOUS
<1>13. PICK field : field = p \o s
  OBVIOUS
<1>14. printnum(num, base, width, padc) = field
  <2>1. Fill(padc, m) = p
    BY <1>11, <1>12, FillIs
  <2>2. printnum(num, base, width, padc) = Fill(padc, (width - n) - 1) \o put_digits(q, base, n)
    BY <1>1, <1>4, Zenon DEF printnum
  <2>3. QED  BY <1>7, <1>10, <1>13, <2>1, <2>2, Zenon
<1>15. PICK S : S = ToSet(Digits) \cup {padc}
  OBVIOUS
<1>16. p \in Seq(S) /\ Len(p) = k
  <2>1. p \in [1..k -> S]
    BY <1>12, <1>15
  <2>2. QED  BY <2>1
<1>17. PICK l \in Nat : l = n + 1 /\ l = Len(s) /\ s \in [1..l -> S]
  <2>1. n + 1 \in Nat
    BY <1>6
  <2>2. s \in [1..Len(s) -> ToSet(Digits)]
    BY <1>8, SeqFunction, Zenon
  <2>3. s \in [1..Len(s) -> S]
    BY <1>15, <2>2
  <2>4. QED  BY <1>8, <2>1, <2>3, Zenon
<1>18. s \in Seq(S)
  BY <1>17
<1>19. /\ Len(field) = k + l /\ \A i \in 1..k : field[i] = p[i]
       /\ \A i \in 1..l : field[k + i] = s[i]
  <2>1. /\ Len(p \o s) = Len(p) + Len(s)
        /\ \A i \in 1..(Len(p) + Len(s)) : (p \o s)[i] = IF i <= Len(p) THEN p[i] ELSE s[i - Len(p)]
    BY <1>16, <1>18, ConcatProperties
  <2>2. Len(field) = k + l /\ \A i \in 1..(k + l) : field[i] = IF i <= k THEN p[i] ELSE s[i - k]
    BY <1>13, <1>16, <1>17, <2>1, Zenon
  <2>3. \A i \in 1..k : i \in 1..(k + l) /\ i <= k
    OBVIOUS
  <2>4. \A i \in 1..l : k + i \in 1..(k + l) /\ ~(k + i <= k) /\ (k + i) - k = i
    OBVIOUS
  <2>5. QED  BY <2>2, <2>3, <2>4, Zenon
<1>20. k \in 0..Len(field) /\ Len(field) - k = l
  BY <1>19
<1>21. [i \in 1..(Len(field) - k) |-> field[k + i]] = s
  <2>1. s = [i \in 1..l |-> s[i]]
    BY <1>17, Zenon
  <2>2. [i \in 1..l |-> field[k + i]] = [i \in 1..l |-> s[i]]
    BY <1>19, Zenon
  <2>3. QED  BY <1>20, <2>1, <2>2, Zenon
<1>22. \A i \in 1..k : field[i] = padc
  BY <1>12, <1>19, Zenon
<1>23. k = IF width > Len(s) THEN width - Len(s) ELSE 0
  BY <1>6, <1>10, <1>11, <1>17
<1>24. QED  BY <1>9, <1>14, <1>20, <1>21, <1>22, <1>23, Zenon DEF PrintnumRight
=============================================================================
