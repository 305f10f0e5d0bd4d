----------------------------- MODULE PmapProofs -----------------------------
(***************************************************************************)
(* Proofs for module Pmap, for any set of pages, environments and          *)
(* addresses: reference counts are exact, a free page is unreachable, and  *)
(* page tables are private, provided no caller names an empty entry of an  *)
(* existing table (rule "mapped") or maps a page whose 16-bit count is at  *)
(* its largest value (rule "few").  There is no bound on the number of     *)
(* pages, environments and addresses, which far exceeds 2^16 in the code.  *)
(***************************************************************************)
EXTENDS Pmap, FiniteSetTheorems, TLAPS

Discipline == "mapped" \in Rules /\ "few" \in Rules

\* The count of q can be incremented.
Room(q) == pp_ref[q] < RefMod - 1

\* The numbers RefCountExact adds up.
nM(p) == Cardinality(Mappings(p))
nT(p) == Cardinality(Tables(p))
nD(p) == Cardinality(Dirs(p))
Refs(p) == nM(p) + nT(p) + nD(p) + Pinned(p)

-----------------------------------------------------------------------------
\* Counting the places of a finite table that hold a value.
LEMMA CountFinite ==
  ASSUME NEW S, IsFiniteSet(S), NEW A \in SUBSET S
  PROVE  /\ Cardinality(A) \in Nat /\ Cardinality(A) <= Cardinality(S)
         /\ Cardinality(A) = 0 <=> A = {}
<1>1. IsFiniteSet(A) /\ Cardinality(A) <= Cardinality(S)
  BY FS_Subset
<1>2. QED  BY <1>1, FS_CardinalityType, FS_EmptySet

\* Storing into one entry adds it to the entries that hold a value, takes it
\* from them, or leaves them alone.
LEMMA CountStore ==
  ASSUME NEW S, IsFiniteSet(S), NEW A \in SUBSET S, NEW B \in SUBSET S, NEW x \in S
  PROVE  /\ Cardinality(A) \in Nat /\ Cardinality(B) \in Nat
         /\ x \in A => Cardinality(A) > 0
         /\ x \notin A /\ B = A \cup {x} => Cardinality(B) = Cardinality(A) + 1
         /\ x \in A /\ B = A \ {x} => Cardinality(B) = Cardinality(A) - 1
<1>1. IsFiniteSet(A) /\ IsFiniteSet(B) /\ Cardinality(A) \in Nat /\ Cardinality(B) \in Nat
  BY FS_Subset, FS_CardinalityType
<1>2. x \in A => Cardinality(A) > 0
  BY <1>1, FS_EmptySet
<1>3. x \notin A /\ B = A \cup {x} => Cardinality(B) = Cardinality(A) + 1
  BY <1>1, FS_AddElement
<1>4. x \in A /\ B = A \ {x} => Cardinality(B) = Cardinality(A) - 1
  BY <1>1, FS_RemoveElement
<1>5. QED  BY <1>1, <1>2, <1>3, <1>4

\* Clearing some entries takes the number of those that held p off the count.
LEMMA CountClear ==
  ASSUME NEW S, IsFiniteSet(S), NEW A \in SUBSET S, NEW C \in SUBSET A, NEW B, B = A \ C
  PROVE  /\ Cardinality(A) \in Nat /\ Cardinality(B) \in Nat /\ Cardinality(C) \in Nat
         /\ Cardinality(B) = Cardinality(A) - Cardinality(C)
<1>1. IsFiniteSet(A) /\ Cardinality(A) \in Nat
  BY FS_Subset, FS_CardinalityType
<1>2. /\ IsFiniteSet(B) /\ IsFiniteSet(C) /\ Cardinality(B) \in Nat /\ Cardinality(C) \in Nat
  <2>1. B \subseteq A
    OBVIOUS
  <2>2. QED  BY <1>1, <2>1, FS_Subset, FS_CardinalityType
<1>3. A \cap C = C
  OBVIOUS
<1>4. Cardinality(A \ C) = Cardinality(A) - Cardinality(A \cap C)
  BY <1>1, <1>2, FS_Difference
<1>5. QED  BY <1>1, <1>2, <1>3, <1>4

-----------------------------------------------------------------------------
\* The inductive invariant, in numbers.
Shape ==
  /\ \A s \in Slot : pte[s] # NoPage => pde[tbl(s)] # NoPage
  /\ \A t \in Tbl : pde[t] # NoPage => env_pgdir[t[1]] # NoPage
Private(p) == nT(p) + nD(p) > 0 => nT(p) + nD(p) = 1 /\ nM(p) = 0 /\ Pinned(p) = 0
PInv ==
  /\ TypeOK /\ panicstr = FALSE /\ Shape
  /\ \A p \in Page : pp_ref[p] = Refs(p)
  /\ \A p \in page_free_list : Refs(p) = 0
  /\ \A p \in Page : Private(p)

\* The address spaces have finitely many entries, so counts are numbers.
LEMMA FiniteSpace == IsFiniteSet(Slot) /\ IsFiniteSet(Tbl) /\ IsFiniteSet(Env)
<1>1. IsFiniteSet(Tbl)
  BY SpaceAssumption, FS_Product DEF Tbl
<1>2. IsFiniteSet(Tbl \X PTX)
  BY <1>1, SpaceAssumption, FS_Product
<1>3. IsFiniteSet(Slot)
  <2> DEFINE f == [x \in Tbl \X PTX |-> <<x[1][1], x[1][2], x[2]>>]
  <2>1. f \in [Tbl \X PTX -> Slot]
    BY DEF Tbl, Slot
  <2>2. ASSUME NEW s \in Slot PROVE \E x \in Tbl \X PTX : f[x] = s
    <3>1. <<<<s[1], s[2]>>, s[3]>> \in Tbl \X PTX
      BY DEF Tbl, Slot
    <3>2. s = <<s[1], s[2], s[3]>>
      BY DEF Slot
    <3>3. f[<<<<s[1], s[2]>>, s[3]>>] = s
      BY <3>1, <3>2
    <3>4. QED  BY <3>1, <3>3
  <2>3. f \in Surjection(Tbl \X PTX, Slot)
    BY <2>1, <2>2 DEF Surjection
  <2>4. QED  BY <1>2, <2>3, FS_Surjection
<1>4. QED  BY <1>1, <1>3, SpaceAssumption

\* The parts of the address of a table entry.
LEMMA SlotParts == \A s \in Slot : tbl(s) \in Tbl /\ s[1] \in Env /\ tbl(s)[1] = s[1]
BY DEF Slot, Tbl, tbl

\* The counts are numbers.
LEMMA RefsType ==
  ASSUME NEW p
  PROVE  /\ nM(p) \in Nat /\ nT(p) \in Nat /\ nD(p) \in Nat /\ Pinned(p) \in Nat
         /\ Refs(p) \in Nat
         /\ nM(p) = 0 <=> Mappings(p) = {}
         /\ nT(p) = 0 <=> Tables(p) = {}
         /\ nD(p) = 0 <=> Dirs(p) = {}
<1>0. Mappings(p) \subseteq Slot /\ Tables(p) \subseteq Tbl /\ Dirs(p) \subseteq Env
  BY DEF Mappings, Tables, Dirs
<1>1. nM(p) \in Nat /\ nM(p) <= Cardinality(Slot) /\ (nM(p) = 0 <=> Mappings(p) = {})
  BY FiniteSpace, <1>0, CountFinite DEF nM
<1>2. nT(p) \in Nat /\ nT(p) <= Cardinality(Tbl) /\ (nT(p) = 0 <=> Tables(p) = {})
  BY FiniteSpace, <1>0, CountFinite DEF nT
<1>3. nD(p) \in Nat /\ nD(p) <= Cardinality(Env) /\ (nD(p) = 0 <=> Dirs(p) = {})
  BY FiniteSpace, <1>0, CountFinite DEF nD
<1>4. Pinned(p) \in Nat
  BY DEF Pinned
<1>5. QED  BY <1>1, <1>2, <1>3, <1>4 DEF Refs

\* How one store into a table changes the counts.
SetPte(s, y) == pte' = [pte EXCEPT ![s] = y]
SetPde(t, y) == pde' = [pde EXCEPT ![t] = y]
SetDir(e, y) == env_pgdir' = [env_pgdir EXCEPT ![e] = y]

\* A store into a page table moves at most one mapping.
LEMMA StorePte ==
  ASSUME TypeOK, NEW s \in Slot, NEW y \in OrNone, SetPte(s, y), NEW q
  PROVE  /\ pte[s] = q => nM(q) > 0
         /\ nM(q)' = IF pte[s] = y \/ (pte[s] # q /\ y # q) THEN nM(q)
                     ELSE IF y = q THEN nM(q) + 1 ELSE nM(q) - 1
<1> DEFINE A == Mappings(q)
<1> DEFINE B == Mappings(q)'
<1>1. A \in SUBSET Slot /\ B \in SUBSET Slot /\ (s \in A <=> pte[s] = q)
  BY DEF Mappings, TypeOK, SetPte
<1>2. /\ pte[s] = y \/ (pte[s] # q /\ y # q) => B = A
      /\ pte[s] # y /\ y = q => B = A \cup {s}
      /\ pte[s] # y /\ pte[s] = q => B = A \ {s}
  BY DEF Mappings, TypeOK, SetPte
<1> HIDE DEF A, B
<1>3. /\ Cardinality(A) \in Nat /\ Cardinality(B) \in Nat
      /\ s \in A => Cardinality(A) > 0
      /\ s \notin A /\ B = A \cup {s} => Cardinality(B) = Cardinality(A) + 1
      /\ s \in A /\ B = A \ {s} => Cardinality(B) = Cardinality(A) - 1
  BY <1>1, FiniteSpace, CountStore
<1>4. /\ pte[s] = q => Cardinality(A) > 0
      /\ Cardinality(B) = IF pte[s] = y \/ (pte[s] # q /\ y # q) THEN Cardinality(A)
                          ELSE IF y = q THEN Cardinality(A) + 1 ELSE Cardinality(A) - 1
  BY <1>1, <1>2, <1>3
<1>5. QED  BY <1>4 DEF A, B, nM

\* A store into a directory moves at most one page table.
LEMMA StorePde ==
  ASSUME TypeOK, NEW t \in Tbl, NEW y \in OrNone, SetPde(t, y), NEW q
  PROVE  nT(q)' = IF pde[t] = y \/ (pde[t] # q /\ y # q) THEN nT(q)
                  ELSE IF y = q THEN nT(q) + 1 ELSE nT(q) - 1
<1> DEFINE A == Tables(q)
<1> DEFINE B == Tables(q)'
<1>1. A \in SUBSET Tbl /\ B \in SUBSET Tbl /\ (t \in A <=> pde[t] = q)
  BY DEF Tables, TypeOK, SetPde
<1>2. /\ pde[t] = y \/ (pde[t] # q /\ y # q) => B = A
      /\ pde[t] # y /\ y = q => B = A \cup {t}
      /\ pde[t] # y /\ pde[t] = q => B = A \ {t}
  BY DEF Tables, TypeOK, SetPde
<1> HIDE DEF A, B
<1>3. /\ Cardinality(A) \in Nat /\ Cardinality(B) \in Nat
      /\ t \in A => Cardinality(A) > 0
      /\ t \notin A /\ B = A \cup {t} => Cardinality(B) = Cardinality(A) + 1
      /\ t \in A /\ B = A \ {t} => Cardinality(B) = Cardinality(A) - 1
  BY <1>1, FiniteSpace, CountStore
<1>4. /\ pde[t] = q => Cardinality(A) > 0
      /\ Cardinality(B) = IF pde[t] = y \/ (pde[t] # q /\ y # q) THEN Cardinality(A)
                          ELSE IF y = q THEN Cardinality(A) + 1 ELSE Cardinality(A) - 1
  BY <1>1, <1>2, <1>3
<1>5. QED  BY <1>4 DEF A, B, nT

\* A store into env_pgdir moves at most one directory.
LEMMA StoreDir ==
  ASSUME TypeOK, NEW e \in Env, NEW y \in OrNone, SetDir(e, y), NEW q
  PROVE  nD(q)' = IF env_pgdir[e] = y \/ (env_pgdir[e] # q /\ y # q) THEN nD(q)
                  ELSE IF y = q THEN nD(q) + 1 ELSE nD(q) - 1
<1> DEFINE A == Dirs(q)
<1> DEFINE B == Dirs(q)'
<1>1. A \in SUBSET Env /\ B \in SUBSET Env /\ (e \in A <=> env_pgdir[e] = q)
  BY DEF Dirs, TypeOK, SetDir
<1>2. /\ env_pgdir[e] = y \/ (env_pgdir[e] # q /\ y # q) => B = A
      /\ env_pgdir[e] # y /\ y = q => B = A \cup {e}
      /\ env_pgdir[e] # y /\ env_pgdir[e] = q => B = A \ {e}
  BY DEF Dirs, TypeOK, SetDir
<1> HIDE DEF A, B
<1>3. /\ Cardinality(A) \in Nat /\ Cardinality(B) \in Nat
      /\ e \in A => Cardinality(A) > 0
      /\ e \notin A /\ B = A \cup {e} => Cardinality(B) = Cardinality(A) + 1
      /\ e \in A /\ B = A \ {e} => Cardinality(B) = Cardinality(A) - 1
  BY <1>1, FiniteSpace, CountStore
<1>4. /\ env_pgdir[e] = q => Cardinality(A) > 0
      /\ Cardinality(B) = IF env_pgdir[e] = y \/ (env_pgdir[e] # q /\ y # q) THEN Cardinality(A)
                          ELSE IF y = q THEN Cardinality(A) + 1 ELSE Cardinality(A) - 1
  BY <1>1, <1>2, <1>3
<1>5. QED  BY <1>4 DEF A, B, nD

\* What does not change is counted the same.
LEMMA SameCounts ==
  ASSUME NEW q
  PROVE  /\ pte' = pte => nM(q)' = nM(q)
         /\ pde' = pde => nT(q)' = nT(q)
         /\ env_pgdir' = env_pgdir => nD(q)' = nD(q)
         /\ uenvs' = uenvs => Pinned(q)' = Pinned(q)
BY DEF nM, nT, nD, Mappings, Tables, Dirs, Pinned

\* With room for one more, ++ is ordinary, and so is -- above zero.
LEMMA RefArith ==
  ASSUME PInv, NEW q \in Page
  PROVE  /\ Room(q) => incref(pp_ref[q]) = Refs(q) + 1
         /\ incref(pp_ref[q]) \in 0..(RefMod - 1)
         /\ Refs(q) > 0 => decref(pp_ref[q]) = Refs(q) - 1
         /\ decref(pp_ref[q]) \in 0..(RefMod - 1)
<1>1. pp_ref[q] = Refs(q) /\ Refs(q) \in Nat /\ pp_ref[q] \in 0..(RefMod - 1)
  BY RefsType DEF PInv, TypeOK
<1>2. RefMod \in Nat /\ RefMod > 1
  BY RefModAssumption
<1>3. QED  BY <1>1, <1>2 DEF incref, decref, Room

\* There is room in the count of a free page.
LEMMA FreeRoom ==
  ASSUME PInv, NEW q \in page_free_list
  PROVE  Room(q)
<1>1. q \in Page /\ pp_ref[q] = 0
  BY DEF PInv, TypeOK
<1>2. QED  BY <1>1, RefModAssumption DEF Room

\* There is room in the count of a page a caller maps or sends.
LEMMA CallerRoom == ASSUME Discipline, NEW q, CountFits(q) PROVE Room(q)
BY DEF Discipline, CountFits, Room

\* The invariant after a step, page by page.
LEMMA PInvNext ==
  ASSUME TypeOK', panicstr' = FALSE, Shape',
         \A q \in Page : pp_ref'[q] = Refs(q)',
         \A q \in page_free_list' : Refs(q)' = 0,
         \A q \in Page : Private(q)'
  PROVE  PInv'
BY DEF PInv

\* What the invariant says of one page, in numbers.
LEMMA PageFacts ==
  ASSUME PInv, NEW q \in Page
  PROVE  /\ nM(q) \in Nat /\ nT(q) \in Nat /\ nD(q) \in Nat /\ Pinned(q) \in Nat
         /\ Refs(q) = nM(q) + nT(q) + nD(q) + Pinned(q) /\ Refs(q) \in Nat
         /\ pp_ref[q] = Refs(q) /\ Private(q)
         /\ q \in page_free_list => Refs(q) = 0
BY RefsType DEF PInv, Refs

\* page_insert keeps the invariant when p is a page that is no directory and
\* no page table: one that is mapped, or that the caller just allocated.
LEMMA PageInsertInv ==
  ASSUME PInv, NEW s \in Slot, NEW p \in Page, NEW w \in BOOLEAN, Room(p),
         NEW free \in SUBSET page_free_list, p \notin free, nT(p) + nD(p) = 0,
         Exists(s[1]), page_insert(s, p, w, free), ret' \in Results
  PROVE  PInv'
<1> DEFINE old == pte[s]
<1>1. /\ TypeOK /\ s \in Slot /\ tbl(s) \in Tbl /\ s[1] \in Env /\ tbl(s)[1] = s[1]
      /\ old \in OrNone /\ pde[tbl(s)] \in OrNone /\ NoPage \notin Page /\ panicstr = FALSE
      /\ pte' = [pte EXCEPT ![s] = p] /\ env_pgdir' = env_pgdir /\ uenvs' = uenvs
      /\ p \in OrNone
  BY SlotParts, PagesAssumption DEF PInv, TypeOK, page_insert, OrNone
<1>2. ASSUME NEW q \in Page
      PROVE  /\ old = q => nM(q) > 0
             /\ nM(q)' = IF old = p \/ (old # q /\ p # q) THEN nM(q)
                         ELSE IF p = q THEN nM(q) + 1 ELSE nM(q) - 1
             /\ nD(q)' = nD(q) /\ Pinned(q)' = Pinned(q)
             /\ Refs(q)' = nM(q)' + nT(q)' + nD(q)' + Pinned(q)'
  <2>1. /\ old = q => nM(q) > 0
        /\ nM(q)' = IF old = p \/ (old # q /\ p # q) THEN nM(q)
                    ELSE IF p = q THEN nM(q) + 1 ELSE nM(q) - 1
    <3>1. SetPte(s, p)
      BY <1>1 DEF SetPte
    <3> HIDE DEF old
    <3>2. QED  BY <1>1, <3>1, StorePte DEF old
  <2>2. nD(q)' = nD(q) /\ Pinned(q)' = Pinned(q)
    BY <1>1, SameCounts
  <2>3. QED  BY <2>1, <2>2 DEF Refs
<1>3. /\ pte' \in [Slot -> OrNone] /\ pte_w' \in [Slot -> BOOLEAN]
      /\ env_pgdir' \in [Env -> OrNone] /\ uenvs' \in Page /\ ret' \in Results
  BY <1>1 DEF TypeOK, page_insert
<1>4. ASSUME pde[tbl(s)] # NoPage, pde' = pde PROVE Shape'
  BY <1>1, <1>4 DEF Shape, PInv, TypeOK
<1> HIDE DEF old
<1>6. CASE insert_table(s, p, free)
  <2>1. PICK t \in free :
          /\ pde' = [pde EXCEPT ![tbl(s)] = t]
          /\ pp_ref' = [pp_ref EXCEPT ![t] = incref(@), ![p] = incref(@)]
          /\ page_free_list' = free \ {t}
    BY <1>6 DEF insert_table
  <2>2. pde[tbl(s)] = NoPage /\ old = NoPage /\ panicstr' = FALSE
    BY <1>1, <1>6 DEF insert_table, PInv, Shape, old
  <2>3. t \in Page /\ t # p /\ t \in page_free_list /\ Refs(t) = 0 /\ t \in OrNone /\ Room(t)
    BY <1>1, FreeRoom DEF PInv, TypeOK, OrNone
  <2>4. Shape'
    <3>1. ASSUME NEW x \in Slot, pte'[x] # NoPage PROVE pde'[tbl(x)] # NoPage
      BY <1>1, <2>1, <2>3, <3>1, SlotParts DEF Shape, PInv, TypeOK
    <3>2. ASSUME NEW x \in Tbl, pde'[x] # NoPage PROVE env_pgdir'[x[1]] # NoPage
      BY <1>1, <2>1, <2>3, <3>2 DEF Shape, PInv, TypeOK, Exists
    <3>3. QED  BY <3>1, <3>2 DEF Shape
  <2>5. ASSUME NEW q \in Page
        PROVE  /\ nT(q)' = IF q = t THEN nT(q) + 1 ELSE nT(q)
               /\ pp_ref'[q] = IF q = t \/ q = p THEN incref(pp_ref[q]) ELSE pp_ref[q]
    <3>0. SetPde(tbl(s), t)
      BY <2>1 DEF SetPde
    <3>1. nT(q)' = IF pde[tbl(s)] = t \/ (pde[tbl(s)] # q /\ t # q) THEN nT(q)
                   ELSE IF t = q THEN nT(q) + 1 ELSE nT(q) - 1
      BY <1>1, <2>3, <3>0, StorePde
    <3>2. QED  BY <1>1, <2>1, <2>2, <2>3, <3>1 DEF TypeOK
  <2>6. ASSUME NEW q \in Page
        PROVE  pp_ref'[q] = Refs(q)' /\ (q \in page_free_list' => Refs(q)' = 0) /\ Private(q)'
    <3>1. /\ nM(q)' = IF q = p THEN nM(q) + 1 ELSE nM(q)
          /\ nT(q)' = IF q = t THEN nT(q) + 1 ELSE nT(q)
          /\ nD(q)' = nD(q) /\ Pinned(q)' = Pinned(q)
          /\ Refs(q)' = nM(q)' + nT(q)' + nD(q)' + Pinned(q)'
      BY <1>1, <1>2, <2>2, <2>5
    <3>2. pp_ref'[q] = IF q = t \/ q = p THEN Refs(q) + 1 ELSE Refs(q)
      BY <2>3, <2>5, RefArith, PageFacts
    <3>3. q \in page_free_list' => q \in page_free_list /\ q # t /\ q # p
      BY <2>1
    <3>4. pp_ref'[q] = Refs(q)' /\ (q \in page_free_list' => Refs(q)' = 0)
      BY <2>3, <3>1, <3>2, <3>3, PageFacts
    <3>5. nT(q) + nD(q) > 0 => nT(q) + nD(q) = 1 /\ nM(q) = 0 /\ Pinned(q) = 0
      BY PageFacts DEF Private
    <3>6. q = t => nM(q) = 0 /\ nT(q) = 0 /\ nD(q) = 0 /\ Pinned(q) = 0
      <4>1. /\ nM(q) \in Nat /\ nT(q) \in Nat /\ nD(q) \in Nat /\ Pinned(q) \in Nat
            /\ Refs(q) = nM(q) + nT(q) + nD(q) + Pinned(q)
        BY PageFacts
      <4>2. QED  BY <2>3, <4>1
    <3>7. nT(q)' + nD(q)' > 0 => nT(q)' + nD(q)' = 1 /\ nM(q)' = 0 /\ Pinned(q)' = 0
      BY <2>3, <3>1, <3>5, <3>6, PageFacts
    <3>8. QED  BY <3>4, <3>7 DEF Private
  <2>7. TypeOK'
    <3>1. pp_ref' \in [Page -> 0..(RefMod - 1)]
      BY <1>1, <2>1, <2>3, RefArith DEF TypeOK
    <3>2. page_free_list' \subseteq Page /\ pde' \in [Tbl -> OrNone]
      BY <1>1, <2>1, <2>3 DEF TypeOK
    <3>3. QED  BY <1>3, <2>2, <3>1, <3>2 DEF TypeOK
  <2>8. QED  BY <2>2, <2>4, <2>6, <2>7, PInvNext DEF TypeOK
<1>7. CASE insert_same(s, p, free)
  <2>1. /\ pde[tbl(s)] # NoPage /\ old = p /\ pde' = pde /\ pp_ref' = pp_ref
        /\ page_free_list' = free /\ panicstr' = FALSE
    BY <1>1, <1>7 DEF insert_same, old
  <2>2. ASSUME NEW q \in Page
        PROVE  pp_ref'[q] = Refs(q)' /\ (q \in page_free_list' => Refs(q)' = 0) /\ Private(q)'
    <3>1. /\ nM(q)' = nM(q) /\ nT(q)' = nT(q) /\ nD(q)' = nD(q) /\ Pinned(q)' = Pinned(q)
          /\ Refs(q)' = nM(q)' + nT(q)' + nD(q)' + Pinned(q)'
      BY <1>2, <2>1, SameCounts
    <3>2. QED  BY <2>1, <3>1, PageFacts DEF Private
  <2>3. TypeOK'
    BY <1>1, <1>3, <2>1 DEF TypeOK
  <2>4. QED  BY <1>4, <2>1, <2>2, <2>3, PInvNext DEF TypeOK
<1>8. CASE insert_other(s, p, free)
  <2>1. /\ pde[tbl(s)] # NoPage /\ old \in Page /\ old # p /\ pde' = pde
        /\ pp_ref' = [pp_ref EXCEPT ![old] = decref(@), ![p] = incref(@)]
        /\ page_free_list' = free \cup freed(old)
        /\ panicstr' = (panicstr \/ freed(old) \cap page_free_list # {})
    BY <1>1, <1>8 DEF insert_other, old, page_free, OrNone
  <2>2. nM(old) > 0 /\ Refs(old) > 0 /\ (freed(old) # {} => Refs(old) = 1) /\ freed(old) \subseteq {old}
    BY <1>2, <2>1, PageFacts DEF freed
  <2>3. panicstr' = FALSE
    <3>1. old \notin page_free_list
      BY <2>1, <2>2, PageFacts
    <3>2. freed(old) \cap page_free_list = {}
      BY <2>2, <3>1
    <3>3. QED  BY <1>1, <2>1, <3>2
  <2>4. ASSUME NEW q \in Page
        PROVE  pp_ref'[q] = Refs(q)' /\ (q \in page_free_list' => Refs(q)' = 0) /\ Private(q)'
    <3>1. /\ nM(q)' = IF q = p THEN nM(q) + 1 ELSE IF q = old THEN nM(q) - 1 ELSE nM(q)
          /\ nT(q)' = nT(q) /\ nD(q)' = nD(q) /\ Pinned(q)' = Pinned(q)
          /\ Refs(q)' = nM(q)' + nT(q)' + nD(q)' + Pinned(q)'
      BY <1>2, <2>1, SameCounts
    <3>2. pp_ref'[q] = IF q = p THEN incref(pp_ref[q])
                       ELSE IF q = old THEN decref(pp_ref[q]) ELSE pp_ref[q]
      BY <1>1, <2>1 DEF TypeOK
    <3>3. pp_ref'[q] = IF q = p THEN Refs(q) + 1 ELSE IF q = old THEN Refs(q) - 1 ELSE Refs(q)
      BY <2>2, <3>2, RefArith, PageFacts
    <3>4. q \in page_free_list' => (q \in page_free_list /\ q # p) \/ (q = old /\ Refs(q) = 1)
      BY <2>1, <2>2
    <3>5. pp_ref'[q] = Refs(q)'
      BY <2>1, <2>2, <3>1, <3>3, PageFacts
    <3>6. q \in page_free_list' => Refs(q)' = 0
      <4>1. CASE q \in page_free_list /\ q # p
        <5>1. q # old
          BY <2>2, <4>1, PageFacts
        <5>2. QED  BY <3>1, <4>1, <5>1, PageFacts
      <4>2. CASE q = old /\ Refs(q) = 1
        BY <2>1, <3>1, <4>2, PageFacts
      <4>3. QED  BY <3>4, <4>1, <4>2
    <3>7. nT(q) + nD(q) > 0 => nT(q) + nD(q) = 1 /\ nM(q) = 0 /\ Pinned(q) = 0
      BY PageFacts DEF Private
    <3>8. nT(q)' + nD(q)' > 0 => nT(q)' + nD(q)' = 1 /\ nM(q)' = 0 /\ Pinned(q)' = 0
      BY <2>2, <3>1, <3>7, PageFacts
    <3>9. QED  BY <3>5, <3>6, <3>8 DEF Private
  <2>5. TypeOK'
    <3>1. pp_ref' \in [Page -> 0..(RefMod - 1)]
      BY <1>1, <2>1, RefArith DEF TypeOK
    <3>2. page_free_list' \subseteq Page
      BY <1>1, <2>1, <2>2 DEF TypeOK
    <3>3. QED  BY <1>1, <1>3, <2>1, <2>3, <3>1, <3>2 DEF TypeOK
  <2>6. QED  BY <1>4, <2>1, <2>3, <2>4, <2>5, PInvNext DEF TypeOK
<1>9. CASE insert_empty(s, p, free)
  <2>1. /\ pde[tbl(s)] # NoPage /\ old = NoPage /\ pde' = pde
        /\ pp_ref' = [pp_ref EXCEPT ![p] = incref(@)]
        /\ page_free_list' = free /\ panicstr' = FALSE
    BY <1>1, <1>9 DEF insert_empty, old
  <2>2. ASSUME NEW q \in Page
        PROVE  pp_ref'[q] = Refs(q)' /\ (q \in page_free_list' => Refs(q)' = 0) /\ Private(q)'
    <3>1. /\ nM(q)' = IF q = p THEN nM(q) + 1 ELSE nM(q)
          /\ nT(q)' = nT(q) /\ nD(q)' = nD(q) /\ Pinned(q)' = Pinned(q)
          /\ Refs(q)' = nM(q)' + nT(q)' + nD(q)' + Pinned(q)'
      BY <1>1, <1>2, <2>1, SameCounts
    <3>2. pp_ref'[q] = IF q = p THEN Refs(q) + 1 ELSE Refs(q)
      BY <1>1, <2>1, RefArith, PageFacts DEF TypeOK
    <3>3. QED  BY <2>1, <3>1, <3>2, PageFacts DEF Private
  <2>3. TypeOK'
    <3>1. pp_ref' \in [Page -> 0..(RefMod - 1)]
      BY <1>1, <2>1, RefArith DEF TypeOK
    <3>2. QED  BY <1>1, <1>3, <2>1, <3>1 DEF TypeOK
  <2>4. QED  BY <1>4, <2>1, <2>2, <2>3, PInvNext DEF TypeOK
<1>10. QED  BY <1>6, <1>7, <1>8, <1>9 DEF page_insert

\* A call that fails, and sys_page_alloc's path that loses a page, change no
\* pointer and no count.
LEMMA FailInv ==
  ASSUME PInv, UNCHANGED <<pp_ref, space, panicstr>>, ret' \in Results,
         page_free_list' \in SUBSET page_free_list
  PROVE  PInv'
<1>1. /\ pp_ref' = pp_ref /\ pte' = pte /\ pde' = pde /\ env_pgdir' = env_pgdir
      /\ uenvs' = uenvs /\ pte_w' = pte_w /\ panicstr' = FALSE
  BY DEF space, PInv
<1>2. TypeOK' /\ Shape'
  BY <1>1 DEF PInv, TypeOK, Shape
<1>3. ASSUME NEW q \in Page
      PROVE  pp_ref'[q] = Refs(q)' /\ (q \in page_free_list' => Refs(q)' = 0) /\ Private(q)'
  <2>1. nM(q)' = nM(q) /\ nT(q)' = nT(q) /\ nD(q)' = nD(q) /\ Pinned(q)' = Pinned(q)
    BY <1>1, SameCounts
  <2>2. QED  BY <1>1, <2>1, PageFacts DEF Private, Refs
<1>4. QED  BY <1>1, <1>2, <1>3, PInvNext DEF TypeOK

\* env_setup_vm takes a free page for the directory and counts it once.
LEMMA SetupInv ==
  ASSUME Discipline, PInv, NEW e \in Env, env_setup_vm(e)
  PROVE  PInv'
<1>1. CASE page_free_list = {} /\ fail("E_NO_MEM")
  BY <1>1, FailInv DEF fail, Results
<1>2. CASE ~(page_free_list = {} /\ fail("E_NO_MEM"))
  <2>1. PICK p \in page_free_list :
          /\ page_free_list' = page_free_list \ {p}
          /\ env_pgdir' = [env_pgdir EXCEPT ![e] = p]
          /\ pp_ref' = [pp_ref EXCEPT ![p] = incref(@)]
          /\ ret' = "0"
          /\ UNCHANGED <<pde, pte, pte_w, uenvs, panicstr>>
    BY <1>2 DEF env_setup_vm
  <2>2. /\ TypeOK /\ p \in Page /\ p \in OrNone /\ Refs(p) = 0 /\ NoPage \notin Page
        /\ env_pgdir[e] = NoPage /\ panicstr' = FALSE /\ SetDir(e, p) /\ Room(p)
    BY <2>1, FreeRoom, PagesAssumption DEF PInv, TypeOK, OrNone, env_setup_vm, Exists, SetDir
  <2>3. TypeOK'
    <3>1. pp_ref' \in [Page -> 0..(RefMod - 1)]
      BY <2>1, <2>2, RefArith DEF TypeOK
    <3>2. QED  BY <2>1, <2>2, <3>1 DEF TypeOK, Results
  <2>4. Shape'
    BY <2>1, <2>2 DEF Shape, PInv, TypeOK, Tbl
  <2>5. ASSUME NEW q \in Page
        PROVE  pp_ref'[q] = Refs(q)' /\ (q \in page_free_list' => Refs(q)' = 0) /\ Private(q)'
    <3>1. nD(q)' = IF env_pgdir[e] = p \/ (env_pgdir[e] # q /\ p # q) THEN nD(q)
                   ELSE IF p = q THEN nD(q) + 1 ELSE nD(q) - 1
      BY <2>2, StoreDir
    <3>2. /\ nD(q)' = IF q = p THEN nD(q) + 1 ELSE nD(q)
          /\ nM(q)' = nM(q) /\ nT(q)' = nT(q) /\ Pinned(q)' = Pinned(q)
      BY <2>1, <2>2, <3>1, SameCounts
    <3>3. pp_ref'[q] = IF q = p THEN Refs(q) + 1 ELSE Refs(q)
      BY <2>1, <2>2, RefArith, PageFacts DEF TypeOK
    <3>4. Refs(q)' = nM(q)' + nT(q)' + nD(q)' + Pinned(q)'
      BY DEF Refs
    <3>5. pp_ref'[q] = Refs(q)' /\ (q \in page_free_list' => Refs(q)' = 0)
      BY <2>1, <3>2, <3>3, <3>4, PageFacts
    <3>6. q = p => nM(q) = 0 /\ nT(q) = 0 /\ nD(q) = 0 /\ Pinned(q) = 0
      <4>1. /\ nM(q) \in Nat /\ nT(q) \in Nat /\ nD(q) \in Nat /\ Pinned(q) \in Nat
            /\ Refs(q) = nM(q) + nT(q) + nD(q) + Pinned(q)
        BY PageFacts
      <4>2. QED  BY <2>2, <4>1
    <3>7. nT(q) + nD(q) > 0 => nT(q) + nD(q) = 1 /\ nM(q) = 0 /\ Pinned(q) = 0
      BY PageFacts DEF Private
    <3>8. nT(q)' + nD(q)' > 0 => nT(q)' + nD(q)' = 1 /\ nM(q)' = 0 /\ Pinned(q)' = 0
      BY <3>2, <3>6, <3>7, PageFacts
    <3>9. QED  BY <3>5, <3>8 DEF Private
  <2>6. QED  BY <2>2, <2>3, <2>4, <2>5, PInvNext DEF TypeOK
<1>3. QED  BY <1>1, <1>2

\* What page_lookup finds under rule "mapped" is a page that is mapped, hence
\* neither free nor a page table.
LEMMA LookupMapped ==
  ASSUME Discipline, PInv, NEW a \in Slot, SafeVa(a), page_lookup(a) # NoPage
  PROVE  /\ page_lookup(a) = pte[a] /\ page_lookup(a) \in Page
         /\ page_lookup(a) \notin page_free_list
         /\ nM(page_lookup(a)) > 0 /\ nT(page_lookup(a)) + nD(page_lookup(a)) = 0
<1>1. page_lookup(a) = pte[a] /\ pte[a] \in Page
  BY DEF SafeVa, Discipline, page_lookup, PInv, TypeOK, OrNone
<1>2. a \in Mappings(pte[a])
  BY DEF Mappings
<1>3. nM(pte[a]) > 0
  BY <1>1, <1>2, RefsType
<1>4. /\ Private(pte[a]) /\ nT(pte[a]) \in Nat /\ nD(pte[a]) \in Nat
      /\ Refs(pte[a]) > 0 /\ (pte[a] \in page_free_list => Refs(pte[a]) = 0)
  BY <1>1, <1>3, PageFacts
<1>5. nT(pte[a]) + nD(pte[a]) = 0 /\ pte[a] \notin page_free_list
  BY <1>3, <1>4 DEF Private
<1>6. QED  BY <1>1, <1>3, <1>5

\* sys_page_alloc inserts a page it took from the free list, or loses it.
LEMMA AllocInv ==
  ASSUME Discipline, PInv, NEW s \in Slot, NEW w \in BOOLEAN, sys_page_alloc(s, w)
  PROVE  PInv'
<1>1. CASE page_free_list = {} /\ fail("E_NO_MEM")
  BY <1>1, FailInv DEF fail, Results
<1>2. CASE ~(page_free_list = {} /\ fail("E_NO_MEM"))
  <2>1. PICK p \in page_free_list :
          \/ /\ walk_fails(s, page_free_list \ {p})
             /\ page_free_list' = page_free_list \ {p}
             /\ ret' = "E_NO_MEM"
             /\ UNCHANGED <<pp_ref, space, panicstr>>
          \/ page_insert(s, p, w, page_free_list \ {p}) /\ ret' = "0"
    BY <1>2 DEF sys_page_alloc
  <2>2. p \in Page /\ nT(p) + nD(p) = 0 /\ Exists(s[1]) /\ Room(p)
    <3>1. p \in Page /\ Exists(s[1]) /\ Room(p)
      BY FreeRoom DEF PInv, TypeOK, sys_page_alloc
    <3>2. QED  BY <3>1, PageFacts
  <2>3. CASE page_insert(s, p, w, page_free_list \ {p}) /\ ret' = "0"
    <3> DEFINE free == page_free_list \ {p}
    <3>1. free \in SUBSET page_free_list /\ p \notin free /\ page_insert(s, p, w, free)
          /\ ret' \in Results
      BY <2>3 DEF Results
    <3> HIDE DEF free
    <3>2. QED  BY <2>2, <3>1, PageInsertInv
  <2>4. CASE UNCHANGED <<pp_ref, space, panicstr>> /\ ret' = "E_NO_MEM"
             /\ page_free_list' = page_free_list \ {p}
    BY <2>4, FailInv DEF Results
  <2>5. QED  BY <2>1, <2>3, <2>4
<1>3. QED  BY <1>1, <1>2

\* The part sys_page_map and sys_ipc_try_send share.
LEMMA TransferInv ==
  ASSUME Discipline, PInv, NEW a \in Slot, NEW b \in Slot, NEW w \in BOOLEAN,
         SafeVa(a), Exists(b[1]), page_lookup(a) # NoPage, CountFits(page_lookup(a)),
         page_insert(b, page_lookup(a), w, page_free_list), ret' = "0"
  PROVE  PInv'
<1> DEFINE p == page_lookup(a)
<1> DEFINE free == page_free_list
<1>1. p \in Page /\ p \notin free /\ nT(p) + nD(p) = 0 /\ free \in SUBSET page_free_list
      /\ Room(p)
  BY LookupMapped, CallerRoom
<1>2. page_insert(b, p, w, free) /\ ret' \in Results
  BY DEF Results
<1> HIDE DEF p, free
<1>3. QED  BY <1>1, <1>2, PageInsertInv

\* sys_page_map and sys_ipc_try_send fail or transfer a mapped page.
LEMMA MapInv ==
  ASSUME Discipline, PInv, NEW a \in Slot, NEW b \in Slot, NEW w \in BOOLEAN,
         sys_page_map(a, b, w) \/ sys_ipc_try_send(a, b, w)
  PROVE  PInv'
<1>1. /\ SafeVa(a) /\ Exists(b[1])
      /\ \/ \E r \in Results : fail(r)
         \/ /\ page_lookup(a) # NoPage /\ CountFits(page_lookup(a))
            /\ page_insert(b, page_lookup(a), w, page_free_list) /\ ret' = "0"
  BY DEF sys_page_map, sys_ipc_try_send, Results
<1>2. CASE \E r \in Results : fail(r)
  BY <1>2, FailInv DEF fail
<1>3. QED  BY <1>1, <1>2, TransferInv

\* page_remove drops one mapping and frees the page with the last one.
LEMMA UnmapInv ==
  ASSUME Discipline, PInv, NEW s \in Slot, sys_page_unmap(s)
  PROVE  PInv'
<1>1. /\ TypeOK /\ tbl(s) \in Tbl /\ NoPage \in OrNone /\ NoPage \notin Page /\ panicstr = FALSE
      /\ SafeVa(s) /\ page_remove(s) /\ ret' = "0" /\ ret' \in Results
      /\ env_pgdir' = env_pgdir /\ pde' = pde /\ uenvs' = uenvs
  BY SlotParts, PagesAssumption DEF PInv, OrNone, Results, sys_page_unmap
<1>2. CASE page_lookup(s) = NoPage
  BY <1>1, <1>2, FailInv DEF page_remove, space
<1>3. CASE page_lookup(s) # NoPage
  <2> DEFINE q0 == page_lookup(s)
  <2>1. q0 = pte[s] /\ q0 \in Page /\ q0 \notin page_free_list /\ nM(q0) > 0
    BY <1>1, <1>3, LookupMapped
  <2>2. /\ pp_ref' = [pp_ref EXCEPT ![q0] = decref(@)]
        /\ page_free_list' = page_free_list \cup freed(q0)
        /\ page_free(freed(q0))
        /\ pte' = [pte EXCEPT ![s] = NoPage]
        /\ pte_w' = [pte_w EXCEPT ![s] = FALSE]
    BY <1>1, <1>3 DEF page_remove
  <2> HIDE DEF q0
  <2>3. freed(q0) \subseteq {q0} /\ (freed(q0) # {} => Refs(q0) = 1) /\ Refs(q0) > 0
    BY <2>1, PageFacts DEF freed
  <2>4. panicstr' = FALSE
    <3>1. freed(q0) \cap page_free_list = {}
      BY <2>1, <2>3
    <3>2. QED  BY <1>1, <2>2, <3>1 DEF page_free
  <2>5. TypeOK'
    <3>1. pp_ref' \in [Page -> 0..(RefMod - 1)]
      BY <1>1, <2>1, <2>2, RefArith DEF TypeOK
    <3>2. QED  BY <1>1, <2>1, <2>2, <2>3, <2>4, <3>1 DEF TypeOK
  <2>6. Shape'
    BY <1>1, <2>2 DEF Shape, PInv, TypeOK
  <2>7. ASSUME NEW q \in Page
        PROVE  pp_ref'[q] = Refs(q)' /\ (q \in page_free_list' => Refs(q)' = 0) /\ Private(q)'
    <3>1. SetPte(s, NoPage)
      BY <2>2 DEF SetPte
    <3>2. /\ pte[s] = q => nM(q) > 0
          /\ nM(q)' = IF pte[s] = NoPage \/ (pte[s] # q /\ NoPage # q) THEN nM(q)
                      ELSE IF NoPage = q THEN nM(q) + 1 ELSE nM(q) - 1
      BY <1>1, <3>1, StorePte
    <3>3. /\ nM(q)' = IF q = q0 THEN nM(q) - 1 ELSE nM(q)
          /\ nT(q)' = nT(q) /\ nD(q)' = nD(q) /\ Pinned(q)' = Pinned(q)
          /\ Refs(q)' = nM(q)' + nT(q)' + nD(q)' + Pinned(q)'
      BY <1>1, <2>1, <3>2, SameCounts DEF Refs
    <3>4. pp_ref'[q] = IF q = q0 THEN Refs(q) - 1 ELSE Refs(q)
      BY <1>1, <2>1, <2>2, <2>3, RefArith, PageFacts DEF TypeOK
    <3>5. /\ nM(q) \in Nat /\ nT(q) \in Nat /\ nD(q) \in Nat /\ Pinned(q) \in Nat
          /\ Refs(q) = nM(q) + nT(q) + nD(q) + Pinned(q)
          /\ q \in page_free_list => Refs(q) = 0
          /\ nT(q) + nD(q) > 0 => nT(q) + nD(q) = 1 /\ nM(q) = 0 /\ Pinned(q) = 0
      BY PageFacts DEF Private
    <3>6. q \in page_free_list' => (q \in page_free_list /\ q # q0) \/ (q = q0 /\ Refs(q) = 1)
      BY <2>1, <2>2, <2>3
    <3>7. pp_ref'[q] = Refs(q)' /\ (q \in page_free_list' => Refs(q)' = 0)
      BY <3>3, <3>4, <3>5, <3>6
    <3>8. nT(q)' + nD(q)' > 0 => nT(q)' + nD(q)' = 1 /\ nM(q)' = 0 /\ Pinned(q)' = 0
      BY <2>1, <3>3, <3>5
    <3>9. QED  BY <3>7, <3>8 DEF Private
  <2>8. QED  BY <2>4, <2>5, <2>6, <2>7, PInvNext DEF TypeOK
<1>4. QED  BY <1>2, <1>3

\* Sending a page to a receiver that wants none moves the mapping at UENVS.
LEMMA UtopInv ==
  ASSUME Discipline, PInv, NEW a \in Slot, NEW e \in Env, NEW w \in BOOLEAN,
         sys_ipc_try_send_utop(a, e, w)
  PROVE  PInv'
<1> DEFINE pp == page_lookup(a)
<1> DEFINE u == uenvs
<1>1. /\ SafeVa(a) /\ pp # NoPage /\ uenvs' = pp /\ ret' = "0" /\ ret' \in Results
      /\ env_pgdir' = env_pgdir /\ pde' = pde /\ pte' = pte /\ pte_w' = pte_w
      /\ u \in Page /\ TypeOK /\ panicstr = FALSE /\ CountFits(pp)
      /\ \/ pp = u /\ UNCHANGED <<pp_ref, page_free_list, panicstr>>
         \/ /\ pp # u
            /\ pp_ref' = [pp_ref EXCEPT ![u] = decref(@), ![pp] = incref(@)]
            /\ page_free_list' = page_free_list \cup freed(u)
            /\ page_free(freed(u))
  BY DEF sys_ipc_try_send_utop, Results, PInv, TypeOK
<1>2. pp \in Page /\ pp \notin page_free_list /\ nM(pp) > 0 /\ nT(pp) + nD(pp) = 0 /\ Room(pp)
  BY <1>1, LookupMapped, CallerRoom
<1>3. ASSUME NEW q \in Page
      PROVE  Pinned(q)' = IF pp = u THEN Pinned(q)
                          ELSE IF q = pp THEN Pinned(q) + 1
                          ELSE IF q = u THEN Pinned(q) - 1 ELSE Pinned(q)
  BY <1>1 DEF Pinned
<1>4. Pinned(u) > 0
  BY DEF Pinned
<1> HIDE DEF pp, u
<1>5. CASE pp = u
  BY <1>1, <1>5, FailInv DEF space, u
<1>6. CASE pp # u
  <2>1. /\ pp_ref' = [pp_ref EXCEPT ![u] = decref(@), ![pp] = incref(@)]
        /\ page_free_list' = page_free_list \cup freed(u) /\ page_free(freed(u))
    BY <1>1, <1>6
  <2>2. /\ Refs(u) > 0 /\ u \notin page_free_list
        /\ freed(u) \subseteq {u} /\ (freed(u) # {} => Refs(u) = 1)
    BY <1>1, <1>4, PageFacts DEF freed
  <2>3. panicstr' = FALSE
    <3>1. freed(u) \cap page_free_list = {}
      BY <2>2
    <3>2. QED  BY <1>1, <2>1, <3>1 DEF page_free
  <2>4. TypeOK' /\ Shape'
    <3>1. pp_ref' \in [Page -> 0..(RefMod - 1)]
      BY <1>1, <1>2, <2>1, RefArith DEF TypeOK
    <3>2. TypeOK'
      BY <1>1, <1>2, <2>1, <2>2, <2>3, <3>1 DEF TypeOK
    <3>3. Shape'
      BY <1>1 DEF PInv, Shape
    <3>4. QED  BY <3>2, <3>3
  <2>5. ASSUME NEW q \in Page
        PROVE  pp_ref'[q] = Refs(q)' /\ (q \in page_free_list' => Refs(q)' = 0) /\ Private(q)'
    <3>1. /\ Pinned(q)' = IF q = pp THEN Pinned(q) + 1 ELSE IF q = u THEN Pinned(q) - 1 ELSE Pinned(q)
          /\ nM(q)' = nM(q) /\ nT(q)' = nT(q) /\ nD(q)' = nD(q)
          /\ Refs(q)' = nM(q)' + nT(q)' + nD(q)' + Pinned(q)'
      BY <1>1, <1>3, <1>6, SameCounts DEF Refs
    <3>2. pp_ref'[q] = IF q = pp THEN incref(pp_ref[q])
                       ELSE IF q = u THEN decref(pp_ref[q]) ELSE pp_ref[q]
      BY <1>1, <1>2, <1>6, <2>1 DEF TypeOK
    <3>3. pp_ref'[q] = IF q = pp THEN Refs(q) + 1 ELSE IF q = u THEN Refs(q) - 1 ELSE Refs(q)
      BY <1>2, <2>2, <3>2, RefArith, PageFacts
    <3>4. /\ nM(q) \in Nat /\ nT(q) \in Nat /\ nD(q) \in Nat /\ Pinned(q) \in Nat
          /\ Refs(q) = nM(q) + nT(q) + nD(q) + Pinned(q)
          /\ q \in page_free_list => Refs(q) = 0
          /\ nT(q) + nD(q) > 0 => nT(q) + nD(q) = 1 /\ nM(q) = 0 /\ Pinned(q) = 0
      BY PageFacts DEF Private
    <3>5. q \in page_free_list' => (q \in page_free_list /\ q # pp /\ q # u) \/ (q = u /\ Refs(q) = 1)
      BY <1>2, <2>1, <2>2
    <3>6. pp_ref'[q] = Refs(q)'
      BY <3>1, <3>3, <3>4
    <3>7. q \in page_free_list' => Refs(q)' = 0
      BY <1>6, <3>1, <3>4, <3>5
    <3>8. nT(q)' + nD(q)' > 0 => nT(q)' + nD(q)' = 1 /\ nM(q)' = 0 /\ Pinned(q)' = 0
      BY <1>2, <1>4, <3>1, <3>4
    <3>9. QED  BY <3>6, <3>7, <3>8 DEF Private
  <2>6. QED  BY <2>3, <2>4, <2>5, PInvNext DEF TypeOK
<1>7. QED  BY <1>5, <1>6

\* env_free takes off each count exactly the pointers that go away.
LEMMA DropsExact ==
  ASSUME PInv, NEW e \in Env, env_free(e), NEW q \in Page
  PROVE  /\ nM(q)' \in Nat /\ nT(q)' \in Nat /\ nD(q)' \in Nat /\ drops(e, q) \in Nat
         /\ nM(q)' <= nM(q) /\ nT(q)' <= nT(q) /\ nD(q)' <= nD(q)
         /\ Pinned(q)' = Pinned(q)
         /\ drops(e, q) = (nM(q) - nM(q)') + (nT(q) - nT(q)') + (nD(q) - nD(q)')
<1> DEFINE AM == Mappings(q)
<1> DEFINE BM == Mappings(q)'
<1> DEFINE CM == {s \in Slot : s[1] = e /\ pte[s] = q}
<1> DEFINE AT == Tables(q)
<1> DEFINE BT == Tables(q)'
<1> DEFINE CT == {t \in Tbl : t[1] = e /\ pde[t] = q}
<1>0. /\ TypeOK /\ q # NoPage /\ uenvs' = uenvs /\ env_pgdir' = [env_pgdir EXCEPT ![e] = NoPage]
      /\ pde' = [t \in Tbl |-> IF t[1] = e THEN NoPage ELSE pde[t]]
      /\ pte' = [s \in Slot |-> IF s[1] = e THEN NoPage ELSE pte[s]]
  BY PagesAssumption DEF PInv, env_free
<1>1. AM \in SUBSET Slot /\ CM \in SUBSET AM /\ BM = AM \ CM
  BY <1>0 DEF Mappings
<1>2. AT \in SUBSET Tbl /\ CT \in SUBSET AT /\ BT = AT \ CT
  BY <1>0 DEF Tables
<1>3. SetDir(e, NoPage) /\ NoPage \in OrNone
  BY <1>0 DEF SetDir, OrNone
<1>4. drops(e, q) = Cardinality(CM) + Cardinality(CT) + (IF env_pgdir[e] = q THEN 1 ELSE 0)
  BY DEF drops
<1>5. nM(q) = Cardinality(AM) /\ nT(q) = Cardinality(AT)
      /\ nM(q)' = Cardinality(BM) /\ nT(q)' = Cardinality(BT)
  BY DEF nM, nT
<1> HIDE DEF AM, BM, CM, AT, BT, CT
<1>6. /\ Cardinality(AM) \in Nat /\ Cardinality(BM) \in Nat /\ Cardinality(CM) \in Nat
      /\ Cardinality(BM) = Cardinality(AM) - Cardinality(CM)
  BY <1>1, FiniteSpace, CountClear
<1>7. /\ Cardinality(AT) \in Nat /\ Cardinality(BT) \in Nat /\ Cardinality(CT) \in Nat
      /\ Cardinality(BT) = Cardinality(AT) - Cardinality(CT)
  BY <1>2, FiniteSpace, CountClear
<1>8. nD(q)' = IF env_pgdir[e] = NoPage \/ (env_pgdir[e] # q /\ NoPage # q) THEN nD(q)
               ELSE IF NoPage = q THEN nD(q) + 1 ELSE nD(q) - 1
  BY <1>0, <1>3, StoreDir
<1>9. nD(q) \in Nat /\ (env_pgdir[e] = q => nD(q) > 0)
  <2>1. nD(q) \in Nat /\ (nD(q) = 0 <=> Dirs(q) = {})
    BY RefsType
  <2>2. env_pgdir[e] = q => e \in Dirs(q)
    BY DEF Dirs
  <2>3. QED  BY <2>1, <2>2
<1>10. nD(q)' = nD(q) - (IF env_pgdir[e] = q THEN 1 ELSE 0)
  BY <1>0, <1>8, <1>9
<1>11. Pinned(q)' = Pinned(q)
  BY <1>0, SameCounts
<1>12. QED  BY <1>4, <1>5, <1>6, <1>7, <1>9, <1>10, <1>11

\* env_free frees exactly the pages whose last pointers it removes.
LEMMA EnvFreeInv ==
  ASSUME Discipline, PInv, NEW e \in Env, env_free(e)
  PROVE  PInv'
<1> DEFINE reached0 == {p \in Page : pp_ref[p] > 0 /\ pp_ref[p] <= drops(e, p)}
<1>0. /\ TypeOK /\ panicstr = FALSE /\ NoPage \in OrNone
      /\ pp_ref' = [p \in Page |-> IF pp_ref[p] >= drops(e, p)
                                   THEN pp_ref[p] - drops(e, p)
                                   ELSE (pp_ref[p] + RefMod) - drops(e, p)]
      /\ page_free_list' = page_free_list \cup reached0
      /\ panicstr' = (panicstr \/ reached0 \cap page_free_list # {})
      /\ env_pgdir' = [env_pgdir EXCEPT ![e] = NoPage]
      /\ pde' = [t \in Tbl |-> IF t[1] = e THEN NoPage ELSE pde[t]]
      /\ pte' = [s \in Slot |-> IF s[1] = e THEN NoPage ELSE pte[s]]
      /\ pte_w' = [s \in Slot |-> IF s[1] = e THEN FALSE ELSE pte_w[s]]
      /\ ret' \in Results /\ uenvs' = uenvs
  BY DEF PInv, env_free, page_free, OrNone, Results
<1>1. ASSUME NEW q \in Page
      PROVE  /\ drops(e, q) \in Nat /\ pp_ref[q] \in Nat /\ pp_ref[q] >= drops(e, q)
             /\ pp_ref'[q] = pp_ref[q] - drops(e, q)
             /\ pp_ref'[q] = Refs(q)' /\ Private(q)'
             /\ q \in page_free_list => Refs(q)' = 0 /\ pp_ref[q] = 0
             /\ q \in reached0 => Refs(q)' = 0
  <2>1. /\ nM(q) \in Nat /\ nT(q) \in Nat /\ nD(q) \in Nat /\ Pinned(q) \in Nat
        /\ Refs(q) = nM(q) + nT(q) + nD(q) + Pinned(q) /\ pp_ref[q] = Refs(q)
        /\ q \in page_free_list => Refs(q) = 0
        /\ nT(q) + nD(q) > 0 => nT(q) + nD(q) = 1 /\ nM(q) = 0 /\ Pinned(q) = 0
    BY PageFacts DEF Private
  <2>2. /\ nM(q)' \in Nat /\ nT(q)' \in Nat /\ nD(q)' \in Nat /\ drops(e, q) \in Nat
        /\ nM(q)' <= nM(q) /\ nT(q)' <= nT(q) /\ nD(q)' <= nD(q)
        /\ Pinned(q)' = Pinned(q)
        /\ drops(e, q) = (nM(q) - nM(q)') + (nT(q) - nT(q)') + (nD(q) - nD(q)')
    BY DropsExact
  <2>3. Refs(q)' = nM(q)' + nT(q)' + nD(q)' + Pinned(q)'
    BY DEF Refs
  <2>4. pp_ref[q] >= drops(e, q) /\ Refs(q)' = Refs(q) - drops(e, q) /\ pp_ref[q] \in Nat
    BY <2>1, <2>2, <2>3
  <2>5. pp_ref'[q] = pp_ref[q] - drops(e, q)
    BY <1>0, <2>4
  <2>6. nT(q)' + nD(q)' > 0 => nT(q)' + nD(q)' = 1 /\ nM(q)' = 0 /\ Pinned(q)' = 0
    <3>1. ASSUME nT(q)' + nD(q)' > 0
          PROVE  nT(q)' + nD(q)' = 1 /\ nM(q)' = 0 /\ Pinned(q)' = 0
      <4>1. nT(q) + nD(q) > 0
        BY <2>1, <2>2, <3>1
      <4>2. nT(q) + nD(q) = 1 /\ nM(q) = 0 /\ Pinned(q) = 0
        BY <2>1, <4>1
      <4>3. QED  BY <2>1, <2>2, <3>1, <4>2
    <3>2. QED  BY <3>1
  <2>7. Private(q)'
    BY <2>6 DEF Private
  <2>8. q \in page_free_list => Refs(q)' = 0 /\ pp_ref[q] = 0
    BY <2>1, <2>2, <2>4
  <2>9. q \in reached0 => Refs(q)' = 0
    BY <2>1, <2>2, <2>4
  <2>10. QED  BY <2>1, <2>2, <2>4, <2>5, <2>7, <2>8, <2>9
<1>2. reached0 \subseteq Page /\ reached0 \cap page_free_list = {}
  <2>1. ASSUME NEW q \in Page, q \in page_free_list PROVE q \notin reached0
    BY <1>1, <2>1
  <2>2. QED  BY <2>1
<1> HIDE DEF reached0
<1>3. panicstr' = FALSE
  BY <1>0, <1>2
<1>4. TypeOK'
  <2>1. ASSUME NEW q \in Page PROVE pp_ref'[q] \in 0..(RefMod - 1)
    <3>1. pp_ref[q] \in 0..(RefMod - 1)
      BY <1>0 DEF TypeOK
    <3>2. QED  BY <1>1, <3>1, RefModAssumption
  <2>2. pp_ref' \in [Page -> 0..(RefMod - 1)]
    BY <1>0, <2>1
  <2>3. page_free_list' \subseteq Page
    BY <1>0, <1>2 DEF TypeOK
  <2>4. /\ env_pgdir' \in [Env -> OrNone] /\ pde' \in [Tbl -> OrNone]
        /\ pte' \in [Slot -> OrNone] /\ pte_w' \in [Slot -> BOOLEAN] /\ uenvs' \in Page
    BY <1>0 DEF TypeOK
  <2>5. QED  BY <1>0, <1>3, <2>2, <2>3, <2>4 DEF TypeOK
<1>5. Shape'
  <2>1. ASSUME NEW s \in Slot, pte'[s] # NoPage PROVE pde'[tbl(s)] # NoPage
    BY <1>0, <2>1, SlotParts DEF PInv, Shape
  <2>2. ASSUME NEW t \in Tbl, pde'[t] # NoPage PROVE env_pgdir'[t[1]] # NoPage
    <3>1. t[1] \in Env
      BY DEF Tbl
    <3>2. QED  BY <1>0, <2>2, <3>1 DEF PInv, Shape, TypeOK
  <2>3. QED  BY <2>1, <2>2 DEF Shape
<1>6. \A q \in page_free_list' : Refs(q)' = 0
  BY <1>0, <1>1, <1>2 DEF PInv, TypeOK
<1>7. QED  BY <1>1, <1>3, <1>4, <1>5, <1>6, PInvNext

-----------------------------------------------------------------------------
\* After mem_init and env_init the invariant holds.
LEMMA InitInv == Init => PInv
<1> SUFFICES ASSUME Init PROVE PInv
  OBVIOUS
<1>0. /\ NoPage \notin Page /\ BootPage \subseteq Page /\ EnvsPage \in BootPage
      /\ RefMod \in Nat /\ RefMod > 1
  BY PagesAssumption, RefModAssumption
<1>1. TypeOK /\ panicstr = FALSE /\ Shape
  <2>1. TypeOK
    <3>1. 0 \in 0..(RefMod - 1) /\ 1 \in 0..(RefMod - 1)
      BY <1>0
    <3>2. pp_ref \in [Page -> 0..(RefMod - 1)]
      BY <3>1 DEF Init
    <3>3. /\ page_free_list \subseteq Page /\ env_pgdir \in [Env -> OrNone]
          /\ pde \in [Tbl -> OrNone] /\ pte \in [Slot -> OrNone] /\ pte_w \in [Slot -> BOOLEAN]
          /\ ret \in Results
      BY DEF Init, OrNone, Results
    <3>4. uenvs \in Page /\ panicstr \in BOOLEAN
      BY <1>0 DEF Init
    <3>5. QED  BY <3>2, <3>3, <3>4 DEF TypeOK
  <2>2. Shape
    BY SlotParts DEF Init, Shape
  <2>3. QED  BY <2>1, <2>2 DEF Init
<1>2. ASSUME NEW q \in Page
      PROVE  /\ nM(q) = 0 /\ nT(q) = 0 /\ nD(q) = 0
             /\ Refs(q) = (IF q \in BootPage THEN 1 ELSE 0)
  <2>1. Mappings(q) = {} /\ Tables(q) = {} /\ Dirs(q) = {}
    BY <1>0 DEF Init, Mappings, Tables, Dirs
  <2>2. nM(q) = 0 /\ nT(q) = 0 /\ nD(q) = 0
    BY <2>1, RefsType
  <2>3. Pinned(q) = IF q \in BootPage THEN 1 ELSE 0
    BY <1>0 DEF Init, Pinned
  <2>4. QED  BY <2>2, <2>3 DEF Refs
<1>3. \A q \in Page : pp_ref[q] = Refs(q) /\ Private(q) /\ (q \in page_free_list => Refs(q) = 0)
  BY <1>2 DEF Init, Private
<1>4. page_free_list \subseteq Page
  BY DEF Init
<1>5. QED  BY <1>1, <1>3, <1>4 DEF PInv

\* Every system call preserves the invariant.
LEMMA NextInv ==
  ASSUME Discipline, PInv, [Next]_vars
  PROVE  PInv'
<1>1. CASE UNCHANGED vars
  <2>1. ret' \in Results /\ UNCHANGED <<pp_ref, space, panicstr>> /\ page_free_list' = page_free_list
    BY <1>1 DEF vars, PInv, TypeOK
  <2>2. QED  BY <2>1, FailInv
<1>2. ASSUME NEW e \in Env, env_setup_vm(e) \/ env_free(e) PROVE PInv'
  BY <1>2, SetupInv, EnvFreeInv
<1>3. ASSUME NEW s \in Slot, NEW w \in BOOLEAN, sys_page_alloc(s, w) PROVE PInv'
  BY <1>3, AllocInv
<1>4. ASSUME NEW a \in Slot, NEW b \in Slot, NEW w \in BOOLEAN,
             sys_page_map(a, b, w) \/ sys_ipc_try_send(a, b, w)
      PROVE  PInv'
  BY <1>4, MapInv
<1>5. ASSUME NEW s \in Slot, sys_page_unmap(s) PROVE PInv'
  BY <1>5, UnmapInv
<1>6. ASSUME NEW a \in Slot, NEW e \in Env, NEW w \in BOOLEAN, sys_ipc_try_send_utop(a, e, w)
      PROVE  PInv'
  BY <1>6, UtopInv
<1>7. CASE bad_env \/ bad_arg
  BY <1>7, FailInv DEF bad_env, bad_arg, fail, Results
<1>8. QED  BY <1>1, <1>2, <1>3, <1>4, <1>5, <1>6, <1>7 DEF Next

\* The inductive invariant holds of every behaviour.
THEOREM Invariant == ASSUME Discipline PROVE Spec => []PInv
<1>1. PInv /\ [Next]_vars => PInv'
  BY NextInv
<1>2. QED  BY <1>1, InitInv, PTL DEF Spec

\* Type correctness: in particular a count never leaves 0 .. RefMod - 1.
THEOREM TypeCorrect == ASSUME Discipline PROVE Spec => []TypeOK
<1>1. PInv => TypeOK
  BY DEF PInv
<1>2. QED  BY <1>1, Invariant, PTL

\* pp_ref is exactly the number of pointers to the page, after any sequence of
\* page_insert, page_remove, env_setup_vm, env_free and their failures.
THEOREM RefCountsExact == ASSUME Discipline PROVE Spec => []RefCountExact
<1>1. PInv => RefCountExact
  BY DEF PInv, RefCountExact, Refs, nM, nT, nD
<1>2. QED  BY <1>1, Invariant, PTL

\* Nothing points to a page on the free list, and page_free is never called
\* for a page that is already there.
THEOREM FreePagesSound == ASSUME Discipline PROVE Spec => []FreeSound
<1>1. PInv => FreeSound
  <2> SUFFICES ASSUME PInv PROVE FreeSound
    OBVIOUS
  <2>1. ASSUME NEW q \in page_free_list
        PROVE  /\ pp_ref[q] = 0 /\ q # uenvs
               /\ Mappings(q) = {} /\ Tables(q) = {} /\ Dirs(q) = {}
    <3>1. q \in Page /\ Refs(q) = 0
      BY DEF PInv, TypeOK
    <3>2. nM(q) = 0 /\ nT(q) = 0 /\ nD(q) = 0 /\ Pinned(q) = 0 /\ pp_ref[q] = 0
      BY <3>1, PageFacts
    <3>3. q # uenvs
      BY <3>2 DEF Pinned
    <3>4. QED  BY <3>2, <3>3, RefsType
  <2>2. QED  BY <2>1 DEF FreeSound, PInv
<1>2. QED  BY <1>1, Invariant, PTL

\* A directory or page table has that single use and is never mapped below
\* UTOP; entries exist only below the tables of living environments.
THEOREM TablesArePrivate == ASSUME Discipline PROVE Spec => []TablesPrivate
<1>1. PInv => TablesPrivate
  <2> SUFFICES ASSUME PInv PROVE TablesPrivate
    OBVIOUS
  <2>1. ASSUME NEW q \in Page, Tables(q) # {} \/ Dirs(q) # {}
        PROVE  /\ Mappings(q) = {} /\ q # uenvs /\ q \notin BootPage \ {EnvsPage}
               /\ Cardinality(Tables(q)) + Cardinality(Dirs(q)) = 1
    <3>1. nT(q) + nD(q) > 0
      BY <2>1, RefsType
    <3>2. nT(q) + nD(q) = 1 /\ nM(q) = 0 /\ Pinned(q) = 0
      BY <3>1, PageFacts DEF Private
    <3>3. q # uenvs /\ q \notin BootPage \ {EnvsPage}
      BY <3>2 DEF Pinned
    <3>4. Mappings(q) = {}
      BY <3>2, RefsType
    <3>5. QED  BY <3>2, <3>3, <3>4 DEF nT, nD
  <2>2. QED  BY <2>1 DEF TablesPrivate, PInv, Shape, Exists
<1>2. QED  BY <1>1, Invariant, PTL

-----------------------------------------------------------------------------
\* What a step does to the entries below UTOP: it leaves an entry alone,
\* clears it, or stores at s a page p with the right w, where p was free or
\* was already mapped, and writable if w.
MayStore(p, w) == p \in page_free_list \/ \E a \in Slot : pte[a] = p /\ (w => pte_w[a])
StoreOrClear ==
  \/ \A x \in Slot : \/ pte'[x] = NoPage
                     \/ pte'[x] = pte[x] /\ pte_w'[x] = pte_w[x]
  \/ \E s \in Slot, p \in Page, w \in BOOLEAN :
       /\ MayStore(p, w)
       /\ pte' = [pte EXCEPT ![s] = p] /\ pte_w' = [pte_w EXCEPT ![s] = w]

\* Every step is such a store, or leaves and clears entries.
LEMMA NextStores ==
  ASSUME Discipline, PInv, [Next]_vars
  PROVE  StoreOrClear
<1>0. pte \in [Slot -> OrNone] /\ pte_w \in [Slot -> BOOLEAN] /\ page_free_list \subseteq Page
  BY DEF PInv, TypeOK
<1>1. CASE UNCHANGED vars
  BY <1>1 DEF vars, space, StoreOrClear
<1>2. ASSUME NEW e \in Env, env_setup_vm(e) PROVE StoreOrClear
  BY <1>2 DEF env_setup_vm, fail, space, StoreOrClear
<1>3. ASSUME NEW e \in Env, env_free(e) PROVE StoreOrClear
  BY <1>3 DEF env_free, StoreOrClear
<1>4. ASSUME NEW s \in Slot, NEW w \in BOOLEAN, sys_page_alloc(s, w) PROVE StoreOrClear
  <2>1. CASE UNCHANGED space
    BY <2>1 DEF space, StoreOrClear
  <2>2. CASE \E p \in page_free_list : page_insert(s, p, w, page_free_list \ {p})
    <3>1. PICK p \in page_free_list : page_insert(s, p, w, page_free_list \ {p})
      BY <2>2
    <3>2. p \in Page /\ MayStore(p, w)
      BY <1>0 DEF MayStore
    <3>3. pte' = [pte EXCEPT ![s] = p] /\ pte_w' = [pte_w EXCEPT ![s] = w]
      BY <3>1 DEF page_insert
    <3>4. QED  BY <3>2, <3>3 DEF StoreOrClear
  <2>3. QED  BY <1>4, <2>1, <2>2 DEF sys_page_alloc, fail
<1>5. ASSUME NEW a \in Slot, NEW b \in Slot, NEW w \in BOOLEAN,
             sys_page_map(a, b, w) \/ sys_ipc_try_send(a, b, w)
      PROVE  StoreOrClear
  <2>1. CASE UNCHANGED space
    BY <2>1 DEF space, StoreOrClear
  <2>2. CASE /\ page_lookup(a) # NoPage /\ (w => pte_w[a])
             /\ page_insert(b, page_lookup(a), w, page_free_list)
    <3> DEFINE p == page_lookup(a)
    <3>1. SafeVa(a)
      BY <1>5 DEF sys_page_map, sys_ipc_try_send
    <3>2. p = pte[a] /\ p \in Page
      BY <2>2, <3>1, LookupMapped
    <3>3. pte' = [pte EXCEPT ![b] = p] /\ pte_w' = [pte_w EXCEPT ![b] = w]
      BY <2>2 DEF page_insert
    <3> HIDE DEF p
    <3>4. MayStore(p, w)
      BY <2>2, <3>2 DEF MayStore
    <3>5. QED  BY <3>2, <3>3, <3>4 DEF StoreOrClear
  <2>3. QED  BY <1>5, <2>1, <2>2 DEF sys_page_map, sys_ipc_try_send, fail
<1>6. ASSUME NEW s \in Slot, sys_page_unmap(s) PROVE StoreOrClear
  BY <1>0, <1>6 DEF sys_page_unmap, page_remove, StoreOrClear
<1>7. ASSUME NEW a \in Slot, NEW e \in Env, NEW w \in BOOLEAN, sys_ipc_try_send_utop(a, e, w)
      PROVE  StoreOrClear
  BY <1>7 DEF sys_ipc_try_send_utop, StoreOrClear
<1>8. CASE bad_env \/ bad_arg
  BY <1>8 DEF bad_env, bad_arg, fail, space, StoreOrClear
<1>9. QED  BY <1>1, <1>2, <1>3, <1>4, <1>5, <1>6, <1>7, <1>8 DEF Next

\* A free page is mapped nowhere.
LEMMA FreeUnmapped ==
  ASSUME PInv, NEW p \in page_free_list
  PROVE  Mappings(p) = {} /\ Pinned(p) = 0
<1>1. p \in Page
  BY DEF PInv, TypeOK
<1>2. nM(p) = 0 /\ Pinned(p) = 0
  BY <1>1, PageFacts
<1>3. QED  BY <1>2, RefsType

\* No chain of sys_page_map and sys_ipc_try_send raises PTE_W on a page that
\* is only mapped read-only.
THEOREM NoEscalation == ASSUME Discipline PROVE Spec => NoWriteEscalation
<1> DEFINE Step(p) == (Mappings(p) # {} /\ ~Writable(p)) => ~Writable(p)'
<1>1. PInv /\ [Next]_vars => \A p \in Page : Step(p)
  <2> SUFFICES ASSUME PInv, [Next]_vars, NEW q \in Page, Mappings(q) # {}, ~Writable(q),
                      Writable(q)'
               PROVE  FALSE
    OBVIOUS
  <2>0. /\ pte \in [Slot -> OrNone] /\ pte_w \in [Slot -> BOOLEAN]
        /\ \A x \in Slot : pte[x] = q => ~pte_w[x]
    BY DEF PInv, TypeOK, Writable, Mappings
  <2>1. PICK x \in Slot : pte'[x] = q /\ pte_w'[x]
    BY DEF Writable, Mappings
  <2>2. CASE \A y \in Slot : pte'[y] = NoPage \/ (pte'[y] = pte[y] /\ pte_w'[y] = pte_w[y])
    BY <2>0, <2>1, <2>2, PagesAssumption
  <2>3. CASE \E s \in Slot, p \in Page, w \in BOOLEAN :
               /\ MayStore(p, w)
               /\ pte' = [pte EXCEPT ![s] = p] /\ pte_w' = [pte_w EXCEPT ![s] = w]
    <3>1. PICK s \in Slot, p \in Page, w \in BOOLEAN :
               /\ MayStore(p, w)
               /\ pte' = [pte EXCEPT ![s] = p] /\ pte_w' = [pte_w EXCEPT ![s] = w]
      BY <2>3
    <3>2. x = s /\ p = q /\ w
      BY <2>0, <2>1, <3>1
    <3>3. q \notin page_free_list
      BY FreeUnmapped
    <3>4. QED  BY <2>0, <3>1, <3>2, <3>3 DEF MayStore
  <2>4. QED  BY <2>2, <2>3, NextStores DEF StoreOrClear
<1>2. QED  BY <1>1, Invariant, PTL DEF Spec, NoWriteEscalation

\* No page of K is mapped below UTOP.
Unmapped(K) == \A s \in Slot : pte[s] \notin K

\* That stays so as long as no page of K is free, because every page a step
\* inserts was free or mapped before.
LEMMA UnmappedNext ==
  ASSUME Discipline, PInv, [Next]_vars, NEW K \in SUBSET BootPage,
         Unmapped(K), \A p \in K : p \notin page_free_list
  PROVE  Unmapped(K)'
<1>1. /\ pte \in [Slot -> OrNone] /\ NoPage \notin K /\ \A s \in Slot : pte[s] \notin K
  BY PagesAssumption DEF PInv, TypeOK, Unmapped
<1>2. CASE \A y \in Slot : pte'[y] = NoPage \/ (pte'[y] = pte[y] /\ pte_w'[y] = pte_w[y])
  BY <1>1, <1>2 DEF Unmapped
<1>3. CASE \E s \in Slot, p \in Page, w \in BOOLEAN :
             /\ MayStore(p, w)
             /\ pte' = [pte EXCEPT ![s] = p] /\ pte_w' = [pte_w EXCEPT ![s] = w]
  <2>1. PICK s \in Slot, p \in Page, w \in BOOLEAN :
             /\ MayStore(p, w)
             /\ pte' = [pte EXCEPT ![s] = p] /\ pte_w' = [pte_w EXCEPT ![s] = w]
    BY <1>3
  <2>2. p \notin K
    BY <1>1, <2>1 DEF MayStore
  <2>3. QED  BY <1>1, <2>1, <2>2 DEF Unmapped
<1>4. QED  BY <1>2, <1>3, NextStores DEF StoreOrClear

\* A page that is pinned is not free.
LEMMA PinnedNotFree ==
  ASSUME PInv, NEW p, Pinned(p) # 0
  PROVE  p \notin page_free_list
BY FreeUnmapped

-----------------------------------------------------------------------------
\* Under the invariant the lost pages are those with count zero that are not on
\* the free list, so that only counts and the list need be looked at.
LEMMA LostByCount ==
  ASSUME PInv
  PROVE  Lost = {p \in Page : p \notin page_free_list /\ pp_ref[p] = 0}
<1>1. ASSUME NEW p \in Page
      PROVE  (Pinned(p) = 0 /\ Mappings(p) = {} /\ Tables(p) = {} /\ Dirs(p) = {}) <=> pp_ref[p] = 0
  BY RefsType, PageFacts
<1>2. QED  BY <1>1 DEF Lost

\* Neither free nor counted: by LostByCount, lost.
Gone(q) == pp_ref[q] = 0 /\ q \notin page_free_list

\* Every page whose count drops to zero in a step goes on the list, and every
\* page that leaves the list is counted.
Conserved == \A q \in Page : Gone(q)' <=> Gone(q)

\* sys_page_alloc has taken the last page and finds none for the page table.
Leaks == ret' = "E_NO_MEM" /\ page_free_list # {}

\* page_insert, of a page from the list or of a mapped one.
LEMMA InsertConserves ==
  ASSUME PInv, NEW s \in Slot, NEW p \in Page, NEW w, NEW free, Room(p),
         \/ p \in page_free_list /\ free = page_free_list \ {p}
         \/ nM(p) > 0 /\ free = page_free_list,
         page_insert(s, p, w, free)
  PROVE  Conserved
<1>1. /\ pp_ref \in [Page -> 0..(RefMod - 1)] /\ page_free_list \subseteq Page
      /\ RefMod \in Nat /\ RefMod > 1 /\ pte[s] \in OrNone /\ free \subseteq page_free_list
  BY RefModAssumption DEF PInv, TypeOK
<1>2. \A q \in Page : Room(q) => incref(pp_ref[q]) # 0
  BY RefArith, RefsType
<1>3. \A q \in Page : pp_ref[q] # 0 => (decref(pp_ref[q]) = 0 <=> pp_ref[q] = 1)
  BY <1>1 DEF decref
<1>4. \A q \in page_free_list : pp_ref[q] = 0 /\ Room(q)
  BY <1>1, PageFacts, FreeRoom
<1>5. ASSUME NEW x \in Page, pte[s] = x PROVE nM(x) > 0 /\ pp_ref[x] # 0
  <2>1. s \in Mappings(x)
    BY <1>5 DEF Mappings
  <2>2. nM(x) > 0
    BY <2>1, RefsType
  <2>3. QED  BY <2>2, PageFacts
<1>6. nM(p) > 0 => p \notin page_free_list /\ free = page_free_list /\ pp_ref[p] # 0
  BY PageFacts
<1>6a. p \notin free /\ ~Gone(p)
  BY <1>6, <1>1 DEF Gone
<1>7. CASE insert_table(s, p, free)
  <2>1. PICK t \in free : /\ pp_ref' = [pp_ref EXCEPT ![t] = incref(@), ![p] = incref(@)]
                          /\ page_free_list' = free \ {t}
    BY <1>7 DEF insert_table
  <2>2. t \in Page /\ t # p /\ t \in page_free_list /\ Room(t)
    BY <1>1, <1>4, <1>6a
  <2>3. \A q \in Page : pp_ref'[q] = IF q \in {t, p} THEN incref(pp_ref[q]) ELSE pp_ref[q]
    BY <1>1, <2>1, <2>2
  <2>4. ASSUME NEW q \in Page PROVE Gone(q)' <=> Gone(q)
    <3>1. CASE q \in {t, p}
      BY <1>2, <1>6a, <2>2, <2>3, <3>1 DEF Gone
    <3>2. CASE q \notin {t, p}
      <4>1. q \in page_free_list' <=> q \in page_free_list
        BY <2>1, <3>2
      <4>2. QED  BY <2>3, <3>2, <4>1 DEF Gone
    <3>3. QED  BY <3>1, <3>2
  <2>5. QED  BY <2>4 DEF Conserved
<1>8. CASE insert_same(s, p, free)
  <2>1. free = page_free_list
    BY <1>5, <1>6, <1>8 DEF insert_same
  <2>2. QED  BY <1>8, <2>1 DEF insert_same, Conserved, Gone
<1>9. CASE insert_other(s, p, free)
  <2> DEFINE x == pte[s]
  <2>1. /\ x \in Page /\ x # p
        /\ pp_ref' = [pp_ref EXCEPT ![x] = decref(@), ![p] = incref(@)]
        /\ page_free_list' = free \cup freed(x)
    BY <1>1, <1>9 DEF insert_other, OrNone
  <2>2. pp_ref[x] # 0 /\ x \notin page_free_list
    BY <1>4, <1>5, <2>1
  <2> HIDE DEF x
  <2>3. \A q \in Page : pp_ref'[q] = IF q = p THEN incref(pp_ref[q])
                                     ELSE IF q = x THEN decref(pp_ref[q]) ELSE pp_ref[q]
    BY <1>1, <2>1
  <2>4. ASSUME NEW q \in Page PROVE Gone(q)' <=> Gone(q)
    <3>1. CASE q = p
      BY <1>2, <1>6a, <2>3, <3>1 DEF Gone
    <3>2. CASE q = x
      BY <1>3, <2>1, <2>2, <2>3, <3>2 DEF Gone, freed
    <3>3. CASE q \notin {p, x}
      <4>1. q \in page_free_list' <=> q \in page_free_list
        BY <2>1, <3>3 DEF freed
      <4>2. QED  BY <2>3, <3>3, <4>1 DEF Gone
    <3>4. QED  BY <3>1, <3>2, <3>3
  <2>5. QED  BY <2>4 DEF Conserved
<1>10. CASE insert_empty(s, p, free)
  <2>1. /\ pp_ref' = [pp_ref EXCEPT ![p] = incref(@)] /\ page_free_list' = free
    BY <1>10 DEF insert_empty
  <2>2. \A q \in Page : pp_ref'[q] = IF q = p THEN incref(pp_ref[q]) ELSE pp_ref[q]
    BY <1>1, <2>1
  <2>3. ASSUME NEW q \in Page PROVE Gone(q)' <=> Gone(q)
    <3>1. CASE q = p
      BY <1>2, <1>6a, <2>2, <3>1 DEF Gone
    <3>2. CASE q # p
      <4>1. q \in page_free_list' <=> q \in page_free_list
        BY <2>1, <3>2
      <4>2. QED  BY <2>2, <3>2, <4>1 DEF Gone
    <3>3. QED  BY <3>1, <3>2
  <2>4. QED  BY <2>3 DEF Conserved
<1>11. QED  BY <1>7, <1>8, <1>9, <1>10 DEF page_insert

\* env_free puts back exactly what it drops the last pointer to.
LEMMA EnvFreeConserves ==
  ASSUME PInv, NEW e \in Env, env_free(e)
  PROVE  Conserved
<1> SUFFICES ASSUME NEW q \in Page PROVE Gone(q)' <=> Gone(q)
  BY DEF Conserved
<1>1. /\ pp_ref[q] = Refs(q) /\ Refs(q) \in Nat /\ drops(e, q) \in Nat /\ drops(e, q) <= Refs(q)
      /\ q \in page_free_list => Refs(q) = 0
  BY PageFacts, DropsExact
<1>2. pp_ref'[q] = pp_ref[q] - drops(e, q)
  BY <1>1 DEF env_free
<1>3. q \in page_free_list' <=>
        (q \in page_free_list \/ (pp_ref[q] > 0 /\ pp_ref[q] <= drops(e, q)))
  BY DEF env_free
<1>4. QED  BY <1>1, <1>2, <1>3 DEF Gone

\* Every step conserves the pages, but for sys_page_alloc's that leaks the last
\* one.
LEMMA NextConserves ==
  ASSUME Discipline, PInv, Next
  PROVE  /\ Leaks => page_free_list' = {} /\ \A q \in Page : Gone(q)' <=> (Gone(q) \/ q \in page_free_list)
         /\ ~Leaks => Conserved
<1> DEFINE Leaked == page_free_list' = {} /\ \A q \in Page : Gone(q)' <=> (Gone(q) \/ q \in page_free_list)
<1>0. /\ pp_ref \in [Page -> 0..(RefMod - 1)] /\ page_free_list \subseteq Page
      /\ RefMod \in Nat /\ RefMod > 1
  BY RefModAssumption DEF PInv, TypeOK
<1>1. ASSUME NEW r, fail(r) PROVE Conserved /\ ret' = r
  BY <1>1 DEF fail, Conserved, Gone
<1>2. \A q \in Page : Room(q) => incref(pp_ref[q]) # 0
  BY RefArith, RefsType
<1>3. \A q \in Page : pp_ref[q] # 0 => (decref(pp_ref[q]) = 0 <=> pp_ref[q] = 1)
  BY <1>0 DEF decref
<1>4. ASSUME NEW e \in Env, env_setup_vm(e) PROVE Conserved /\ ~Leaks
  <2>1. CASE page_free_list = {} /\ fail("E_NO_MEM")
    BY <1>1, <2>1 DEF Leaks
  <2>2. CASE ~(page_free_list = {} /\ fail("E_NO_MEM"))
    <3>1. PICK p \in page_free_list :
                 /\ page_free_list' = page_free_list \ {p} /\ ret' = "0"
                 /\ pp_ref' = [pp_ref EXCEPT ![p] = incref(@)]
      BY <1>4, <2>2 DEF env_setup_vm
    <3>2. p \in Page /\ incref(pp_ref[p]) # 0
      BY <1>0, <1>2, FreeRoom
    <3>3. \A q \in Page : pp_ref'[q] = IF q = p THEN incref(pp_ref[q]) ELSE pp_ref[q]
      BY <1>0, <3>1, <3>2
    <3>4. QED  BY <3>1, <3>2, <3>3 DEF Conserved, Gone, Leaks
  <2>3. QED  BY <2>1, <2>2
<1>5. ASSUME NEW s \in Slot, NEW w \in BOOLEAN, sys_page_alloc(s, w)
      PROVE  (Leaks => Leaked) /\ (~Leaks => Conserved)
  <2>1. CASE page_free_list = {} /\ fail("E_NO_MEM")
    BY <1>1, <2>1 DEF Leaks
  <2>2. CASE \E p \in page_free_list : page_insert(s, p, w, page_free_list \ {p}) /\ ret' = "0"
    <3>1. Conserved
      BY <2>2, <1>0, FreeRoom, InsertConserves
    <3>2. QED  BY <2>2, <3>1 DEF Leaks
  <2>3. CASE \E p \in page_free_list : /\ walk_fails(s, page_free_list \ {p})
                                       /\ page_free_list' = page_free_list \ {p}
                                       /\ ret' = "E_NO_MEM" /\ UNCHANGED pp_ref
    <3>1. page_free_list' = {} /\ Leaks /\ pp_ref' = pp_ref
      BY <2>3 DEF walk_fails, Leaks
    <3>2. \A q \in page_free_list : pp_ref[q] = 0
      BY <1>0, PageFacts
    <3>3. Leaked
      BY <3>1, <3>2 DEF Gone
    <3>4. QED  BY <3>1, <3>3
  <2>4. QED  BY <1>5, <2>1, <2>2, <2>3 DEF sys_page_alloc
<1>6. ASSUME NEW a \in Slot, NEW b \in Slot, NEW w \in BOOLEAN,
             sys_page_map(a, b, w) \/ sys_ipc_try_send(a, b, w)
      PROVE  Conserved /\ ~Leaks
  <2>1. CASE /\ SafeVa(a) /\ page_lookup(a) # NoPage /\ CountFits(page_lookup(a)) /\ ret' = "0"
             /\ page_insert(b, page_lookup(a), w, page_free_list)
    <3>1. page_lookup(a) \in Page /\ nM(page_lookup(a)) > 0 /\ Room(page_lookup(a))
      BY <2>1, LookupMapped, CallerRoom
    <3>2. Conserved
      BY <2>1, <3>1, InsertConserves
    <3>3. QED  BY <2>1, <3>2 DEF Leaks
  <2>2. CASE fail("E_INVAL")
    BY <1>1, <2>2 DEF Leaks
  <2>3. CASE walk_fails(b, page_free_list) /\ fail("E_NO_MEM")
    BY <1>1, <2>3 DEF Leaks, walk_fails
  <2>4. QED  BY <1>6, <2>1, <2>2, <2>3 DEF sys_page_map, sys_ipc_try_send
<1>7. ASSUME NEW s \in Slot, sys_page_unmap(s) PROVE Conserved /\ ~Leaks
  <2>0. ret' = "0" /\ SafeVa(s) /\ page_remove(s)
    BY <1>7 DEF sys_page_unmap
  <2>1. CASE page_lookup(s) = NoPage
    BY <2>0, <2>1 DEF page_remove, Conserved, Gone, Leaks
  <2>2. CASE page_lookup(s) # NoPage
    <3> DEFINE x == page_lookup(s)
    <3>1. x \in Page /\ nM(x) > 0 /\ x \notin page_free_list
      BY <2>0, <2>2, LookupMapped
    <3>2. pp_ref[x] # 0
      BY <3>1, PageFacts
    <3>3. /\ pp_ref' = [pp_ref EXCEPT ![x] = decref(@)]
          /\ page_free_list' = page_free_list \cup freed(x)
      BY <2>0, <2>2 DEF page_remove
    <3> HIDE DEF x
    <3>4. \A q \in Page : pp_ref'[q] = IF q = x THEN decref(pp_ref[q]) ELSE pp_ref[q]
      BY <1>0, <3>1, <3>3
    <3>5. QED  BY <1>3, <2>0, <3>1, <3>2, <3>3, <3>4 DEF Conserved, Gone, Leaks, freed
  <2>3. QED  BY <2>1, <2>2
<1>8. ASSUME NEW a \in Slot, NEW e \in Env, NEW w \in BOOLEAN, sys_ipc_try_send_utop(a, e, w)
      PROVE  Conserved /\ ~Leaks
  <2> DEFINE pp == page_lookup(a)
  <2> DEFINE u == uenvs
  <2>0. ret' = "0" /\ SafeVa(a) /\ pp # NoPage /\ CountFits(pp)
    BY <1>8 DEF sys_ipc_try_send_utop
  <2>1. pp \in Page /\ u \in Page /\ nM(pp) > 0 /\ Room(pp)
    BY <2>0, LookupMapped, CallerRoom DEF PInv, TypeOK
  <2>2. pp_ref[pp] # 0 /\ pp_ref[u] # 0 /\ u \notin page_free_list
    <3>1. Pinned(u) > 0
      BY DEF Pinned
    <3>2. QED  BY <2>1, <3>1, PageFacts
  <2>3. CASE pp = u
    BY <1>8, <2>0, <2>3 DEF sys_ipc_try_send_utop, Conserved, Gone, Leaks
  <2>4. CASE pp # u
    <3>1. /\ pp_ref' = [pp_ref EXCEPT ![u] = decref(@), ![pp] = incref(@)]
          /\ page_free_list' = page_free_list \cup freed(u)
      BY <1>8, <2>4 DEF sys_ipc_try_send_utop
    <3> HIDE DEF pp, u
    <3>2. \A q \in Page : pp_ref'[q] = IF q = pp THEN incref(pp_ref[q])
                                       ELSE IF q = u THEN decref(pp_ref[q]) ELSE pp_ref[q]
      BY <1>0, <2>1, <2>4, <3>1
    <3>3. ASSUME NEW q \in Page PROVE Gone(q)' <=> Gone(q)
      <4>1. CASE q = pp
        BY <1>2, <2>1, <2>2, <3>2, <4>1 DEF Gone
      <4>2. CASE q = u /\ q # pp
        BY <1>3, <2>2, <3>1, <3>2, <4>2 DEF Gone, freed
      <4>3. CASE q # u /\ q # pp
        BY <3>1, <3>2, <4>3 DEF Gone, freed
      <4>4. QED  BY <4>1, <4>2, <4>3
    <3>4. QED  BY <2>0, <3>3 DEF Conserved, Leaks
  <2>5. QED  BY <2>3, <2>4
<1>9. CASE bad_env \/ bad_arg
  <2>1. Conserved /\ ret' # "E_NO_MEM"
    BY <1>1, <1>9 DEF bad_env, bad_arg
  <2>2. QED  BY <2>1 DEF Leaks
<1>10. ASSUME NEW e \in Env, env_free(e) PROVE Conserved /\ ~Leaks
  <2>1. ret' # "E_NO_MEM"
    BY <1>10 DEF env_free
  <2>2. QED  BY <1>10, <2>1, EnvFreeConserves DEF Leaks
<1>11. QED  BY <1>4, <1>5, <1>6, <1>7, <1>8, <1>9, <1>10 DEF Next

\* The memory system calls and env_free neither lose a page nor get one back,
\* with the one exception the code has: sys_page_alloc loses the last free page
\* when there is none for a page table.
THEOREM PagesConserved == ASSUME Discipline PROVE Spec => LossAccounted
<1> DEFINE Step == IF ret' = "E_NO_MEM" /\ page_free_list # {}
                   THEN page_free_list' = {} /\ Lost' = Lost \cup page_free_list
                   ELSE Lost' = Lost
<1> DEFINE ByCount == Lost = {p \in Page : p \notin page_free_list /\ pp_ref[p] = 0}
<1>1. PInv => ByCount
  BY LostByCount
<1>2. PInv /\ ByCount /\ ByCount' /\ [Next]_vars => [Step]_vars
  <2> SUFFICES ASSUME PInv, ByCount, ByCount', Next PROVE Step
    OBVIOUS
  <2>0. page_free_list \subseteq Page
    BY DEF PInv, TypeOK
  <2>1. Lost = {p \in Page : Gone(p)} /\ Lost' = {p \in Page : Gone(p)'}
    BY DEF Gone
  <2>2. CASE Leaks
    BY <2>0, <2>1, <2>2, NextConserves DEF Leaks
  <2>3. CASE ~Leaks
    BY <2>1, <2>3, NextConserves DEF Leaks, Conserved
  <2>4. QED  BY <2>2, <2>3
<1>3. QED  BY <1>1, <1>2, Invariant, PTL DEF Spec, LossAccounted

-----------------------------------------------------------------------------
\* A page pinned by the kernel and mapped nowhere has no other use, and one that
\* nothing uses is gone or pinned.
LEMMA UsesOfPage ==
  ASSUME PInv, NEW p \in Page
  PROVE  /\ Pinned(p) # 0 /\ Mappings(p) = {} => KernelOnly(p)
         /\ Gone(p) => KernelOnly(p)
         /\ Pinned(p) = 0 /\ KernelOnly(p) => Gone(p)
<1>1. /\ Pinned(p) \in Nat /\ nM(p) \in Nat /\ nT(p) \in Nat /\ nD(p) \in Nat
      /\ pp_ref[p] = nM(p) + nT(p) + nD(p) + Pinned(p)
      /\ nT(p) + nD(p) > 0 => Pinned(p) = 0
      /\ p \in page_free_list => pp_ref[p] = 0
  BY PageFacts DEF Private
<1>2. (nM(p) = 0 <=> Mappings(p) = {}) /\ (nT(p) = 0 <=> Tables(p) = {}) /\ (nD(p) = 0 <=> Dirs(p) = {})
  BY RefsType
<1>3. ASSUME Pinned(p) # 0, Mappings(p) = {} PROVE KernelOnly(p)
  <2>1. nT(p) = 0 /\ nD(p) = 0 /\ p \notin page_free_list
    BY <1>1, <1>3
  <2>2. QED  BY <1>2, <1>3, <2>1 DEF KernelOnly
<1>4. ASSUME Gone(p) PROVE KernelOnly(p)
  <2>1. nM(p) = 0 /\ nT(p) = 0 /\ nD(p) = 0 /\ p \notin page_free_list
    BY <1>1, <1>4 DEF Gone
  <2>2. QED  BY <1>2, <2>1 DEF KernelOnly
<1>5. ASSUME Pinned(p) = 0, KernelOnly(p) PROVE Gone(p)
  <2>1. nM(p) = 0 /\ nT(p) = 0 /\ nD(p) = 0 /\ p \notin page_free_list
    BY <1>2, <1>5 DEF KernelOnly
  <2>2. QED  BY <1>1, <1>5, <2>1 DEF Gone
<1>6. QED  BY <1>3, <1>4, <1>5

\* Physical page 0 and the kernel's other pages stay in use by the kernel alone
\* through any sequence of system calls, and the page of envs[] too but for the
\* step in which a page sent to a receiver that asked for none takes its place.
THEOREM KernelPagesSafe == ASSUME Discipline PROVE Spec => KernelPagesKept
<1> DEFINE K == BootPage \ {EnvsPage}
<1> DEFINE Step == \A p \in BootPage : KernelOnly(p) =>
                     (KernelOnly(p)' \/ (p = EnvsPage /\ uenvs = p /\ uenvs' # p))
<1> DEFINE Uses ==
             \A p \in BootPage :
               /\ Pinned(p) # 0 /\ Mappings(p) = {} => KernelOnly(p)
               /\ Gone(p) => KernelOnly(p)
               /\ Pinned(p) = 0 /\ KernelOnly(p) => Gone(p)
<1>0. PInv => Uses
  BY UsesOfPage, PagesAssumption
<1>1. Init => Unmapped(K)
  BY PagesAssumption DEF Init, Unmapped
<1>2. PInv => \A p \in K : p \notin page_free_list
  BY PinnedNotFree DEF Pinned
<1>3. PInv /\ Unmapped(K) /\ [Next]_vars => Unmapped(K)'
  <2>1. K \in SUBSET BootPage
    OBVIOUS
  <2> HIDE DEF K
  <2>2. QED  BY <1>2, <2>1, UnmappedNext
<1>4. PInv /\ Uses /\ Uses' /\ Unmapped(K)' /\ [Next]_vars => [Step]_vars
  <2> SUFFICES ASSUME PInv, Uses, Uses', Unmapped(K)', Next, NEW p \in BootPage, KernelOnly(p),
                      ~(p = EnvsPage /\ uenvs = p /\ uenvs' # p)
               PROVE  KernelOnly(p)'
    OBVIOUS
  <2>0. p \in Page
    BY PagesAssumption
  <2>1. CASE p # EnvsPage
    <3>1. Pinned(p)' # 0
      BY <2>1 DEF Pinned
    <3>2. Mappings(p)' = {}
      BY <2>1 DEF Unmapped, Mappings
    <3>3. QED  BY <3>1, <3>2
  <2>2. CASE p = EnvsPage /\ uenvs = p
    <3>1. Pinned(p)' # 0
      BY <2>2 DEF Pinned
    <3>2. Unmapped({p}) /\ {p} \in SUBSET BootPage /\ \A x \in {p} : x \notin page_free_list
      BY DEF KernelOnly, Unmapped, Mappings
    <3>3. Unmapped({p})'
      BY <3>2, UnmappedNext
    <3>4. Mappings(p)' = {}
      BY <3>3 DEF Unmapped, Mappings
    <3>5. QED  BY <3>1, <3>4
  <2>3. CASE p = EnvsPage /\ uenvs # p
    <3>1. Pinned(p) = 0
      BY <2>3 DEF Pinned
    <3>2. Gone(p)
      BY <3>1
    <3>3. Gone(p)'
      BY <2>0, <3>2, NextConserves DEF Conserved
    <3>4. QED  BY <3>3
  <2>4. QED  BY <2>1, <2>2, <2>3
<1> HIDE DEF K, Step, Uses
<1>5. QED  BY <1>0, <1>1, <1>3, <1>4, Invariant, PTL DEF Spec, KernelPagesKept, Step

\* When senders also send pages only to receivers that asked for one, the same
\* holds of the page of envs[], and UENVS keeps showing it.
THEOREM KernelMapSafe ==
  ASSUME Discipline, "asked" \in Rules PROVE Spec => []KernelMapIntact
<1> DEFINE Boot == UenvsIntact /\ Unmapped(BootPage)
<1>1. Init => Boot
  BY PagesAssumption DEF Init, UenvsIntact, Unmapped
<1>2. PInv /\ Boot => \A p \in BootPage : p \notin page_free_list
  BY PinnedNotFree DEF Pinned, UenvsIntact
<1>3. PInv /\ Boot => KernelMapIntact
  <2> SUFFICES ASSUME PInv, Boot, NEW p \in BootPage PROVE KernelOnly(p)
    BY DEF KernelMapIntact
  <2>1. p \in Page /\ Pinned(p) # 0 /\ Mappings(p) = {}
    BY PagesAssumption DEF Pinned, UenvsIntact, Unmapped, Mappings
  <2>2. QED  BY <2>1, UsesOfPage
<1>4. PInv /\ Boot /\ [Next]_vars => Boot'
  <2> SUFFICES ASSUME PInv, Boot, [Next]_vars PROVE Boot'
    OBVIOUS
  <2>1. UenvsIntact'
    BY DEF UenvsIntact, Next, vars, space, env_setup_vm, env_free, sys_page_alloc,
           sys_page_map, sys_page_unmap, sys_ipc_try_send, sys_ipc_try_send_utop,
           bad_env, bad_arg, fail, page_insert
  <2>2. Unmapped(BootPage)'
    BY <1>2, UnmappedNext
  <2>3. QED  BY <2>1, <2>2
<1> HIDE DEF Boot
<1>5. QED  BY <1>1, <1>3, <1>4, Invariant, PTL DEF Spec
=============================================================================
