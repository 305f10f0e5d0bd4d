------------------------------ MODULE ForkProofs ----------------------------
(***************************************************************************)
(* Proof that copy-on-write fork gives every environment a memory of its   *)
(* own (module PrivateImages) and handles every fault it causes, for any   *)
(* number of environments, areas, values and calls of fork.                *)
(***************************************************************************)
EXTENDS Fork, SequenceTheorems, FiniteSetTheorems, TLAPS

FaultSteps == {"alloc", "copy", "unmap", "map", "unmap_temp", "ret"}
Loop == {"dup_read", "dup_child", "dup_self"}
StackSteps == {"stk_alloc", "stk_map", "stk_unmap", "set_upcall", "set_status"}
Busy == Loop \cup StackSteps

Frames == [va : Area, step : FaultSteps]
ForkType == TypeOK /\ utf \in [Env -> Seq(Frames)]

\* What an entry of a page table may be.  A page is named for the address it
\* is mapped at, except at PFTEMP.
EntryInv(e) ==
  /\ \A v \in VA : pt[e][v].w => pt[e][v].p # NoPage
  /\ \A v \in Area \cup {"UXSTACK"} : pt[e][v].p # NoPage => pt[e][v].p[2] = v
  /\ \A v \in Area \ Writable : ~pt[e][v].w /\ ~pt[e][v].cow
  /\ pc[e] = "free" => \A v \in VA : pt[e][v] = Absent
  /\ pc[e] = "embryo" => \A v \in Area : ~pt[e][v].w

\* A program's areas are mapped, but for the one pgfault is replacing; PFTEMP
\* is not, but for its two uses.
SpaceInv(e) ==
  /\ Born(e) => \A v \in Area :
       /\ pt[e][v].p = NoPage => at(e, "map") /\ top(e).va = v
       /\ v \in Writable /\ pt[e][v].p # NoPage => pt[e][v].w \/ pt[e][v].cow
  /\ pt[e]["PFTEMP"].p # NoPage =>
       \/ pc[e] = "stk_unmap"
       \/ utf[e] # <<>> /\ top(e).step \in {"copy", "unmap", "map", "unmap_temp"}

\* The steps of pgfault, for the page old at va and its copy at PFTEMP.
FrameInv(e) ==
  LET va == top(e).va
      old == pt[e][va]
      temp == pt[e]["PFTEMP"]
  IN /\ va \in Writable
     /\ top(e).step = "alloc" => old.cow
     /\ top(e).step \in {"copy", "unmap"} =>
          old.p # NoPage /\ old.cow /\ temp.w /\ temp.p[2] = va /\ temp.p # old.p
     /\ top(e).step = "unmap" => mem[temp.p] = mem[old.p]
     /\ top(e).step = "map" => old.p = NoPage /\ temp.w /\ temp.p[2] = va
     /\ top(e).step = "unmap_temp" => old.w /\ temp.p = old.p
     /\ top(e).step = "ret" => old.w

\* A second fault is one of the stack, in the return from the first.
FaultInv(e) ==
  utf[e] # <<>> =>
    /\ handler[e] /\ pc[e] \notin Slots \cup {"dup_self", "stk_unmap"}
    /\ Len(utf[e]) = 2 =>
         /\ utf[e][1].step = "ret" /\ utf[e][1].va # "stack" /\ utf[e][1].va \in Writable
         /\ pt[e][utf[e][1].va].w
         /\ utf[e][2].va = "stack"
    /\ FrameInv(e)

\* Who may fault has a handler, and until then all is writable.
HandlerInv(e) ==
  /\ pc[e] \notin {"killed", "panic_cow"}
  /\ pc[e] \in {"free", "embryo"} => ~handler[e]
  /\ handler[e] => upcall[e] /\ pt[e]["UXSTACK"].w
  /\ Born(e) /\ ~handler[e] =>
       /\ pc[e] \in {"main", "set_handler", "set_handler_upcall", "set_handler_store", "panic"}
       /\ \A v \in Writable : pt[e][v].w
  /\ pc[e] \in {"set_handler_upcall", "set_handler_store"} => pt[e]["UXSTACK"].w
  /\ pc[e] = "set_handler_store" => upcall[e]
  /\ pc[e] \in {"dup_self", "stk_unmap"} => pt[e]["stack"].w

LocalInv(e) == EntryInv(e) /\ SpaceInv(e) /\ FaultInv(e) /\ HandlerInv(e)

\* The areas duppage has given the child.
Done(e) ==
  {v \in Area : \/ pc[e] \in StackSteps
                \/ /\ pc[e] \in Loop
                   /\ \E i \in 1..pn[e] : v = Layout[i] /\ (i < pn[e] \/ pc[e] = "dup_self")}

\* fork's progress, and the embryo it works on.
ChildInv(e) ==
  /\ child[e] # NoEnv => pc[child[e]] = "embryo" /\ pc[e] \in Busy \cup {"panic"}
  /\ pc[e] \in Busy => child[e] # NoEnv
  /\ pc[e] \in Loop => pn[e] \in 1..Len(Layout)
  /\ pc[e] = "dup_child" => (cow[e] <=> here(e) \in Writable)
  /\ pc[e] = "dup_self" => here(e) \in Writable
  /\ pc[e] \in StackSteps \ {"stk_alloc"} => pt[child[e]]["UXSTACK"].w
  /\ pc[e] = "set_status" => upcall[child[e]]

\* The child has what its parent has, copy-on-write.
CopyInv(e) ==
  \A v \in Done(e) :
    /\ pt[child[e]][v].p # NoPage /\ (v \in Writable => pt[child[e]][v].cow)
    /\ v \in Writable => mem[pt[child[e]][v].p] = mem[frame(e, v)]

Parents == \A e, d \in Env : child[e] = child[d] /\ child[e] # NoEnv => d = e

\* A writable page is mapped by one environment, and by the child fork is
\* making between the two halves of duppage and of the exception stack's copy.
SharedInFork(e, v, d, u) ==
  /\ child[e] = d
  /\ \/ pc[e] = "dup_self" /\ v = here(e) /\ u = here(e)
     \/ pc[e] = "stk_unmap" /\ v = "PFTEMP" /\ u = "UXSTACK"

Exclusive ==
  \A e \in Env, v \in VA : pt[e][v].w => \A d \in Env \ {e}, u \in VA :
    pt[d][u].p = pt[e][v].p => SharedInFork(e, v, d, u) \/ SharedInFork(d, u, e, v)

IInv ==
  /\ ForkType
  /\ \A e \in Env : LocalInv(e) /\ ChildInv(e) /\ CopyInv(e)
  /\ Parents /\ Exclusive

-----------------------------------------------------------------------------
LEMMA Areas ==
  /\ Writable \subseteq Area /\ Area \subseteq VA
  /\ "PFTEMP" \in VA \ Area /\ "UXSTACK" \in VA \ Area /\ "PFTEMP" # "UXSTACK"
  /\ "data" \in Writable /\ "stack" \in Writable
  /\ Len(Layout) \in Nat /\ \A i \in 1..Len(Layout) : Layout[i] \in Area
BY LayoutAssumption DEF Area, Writable, VA

LEMMA SomeArea == Len(Layout) \in Nat /\ 1 \in 1..Len(Layout)
BY LayoutAssumption DEF Area, Writable

\* What a change of one entry does to the page tables.
LEMMA EntrySet ==
  ASSUME pt \in [Env -> [VA -> Entry]], NEW e \in Env, NEW v \in VA, NEW x \in Entry,
         pt' = [pt EXCEPT ![e][v] = x]
  PROVE  /\ pt' \in [Env -> [VA -> Entry]]
         /\ pt'[e][v] = x
         /\ \A d \in Env, u \in VA : d # e \/ u # v => pt'[d][u] = pt[d][u]
         /\ \A d \in Env \ {e} : pt'[d] = pt[d]
OBVIOUS

\* A page that is still mapped keeps its contents.
LEMMA MapsKeep ==
  ASSUME NEW pts, pts \in [Env -> [VA -> Entry]], mem \in [Page -> Val], maps(pts)
  PROVE  /\ pt' = pts /\ mem' \in [Page -> Val]
         /\ \A d \in Env, u \in VA : pt'[d][u].p # NoPage => mem'[pt'[d][u].p] = mem[pt'[d][u].p]
<1>1. pt' = pts /\ mem' = [p \in Page |-> IF p \in Used(pts) THEN mem[p] ELSE Zero]
  BY DEF maps
<1>2. mem' \in [Page -> Val]
  BY <1>1, ValAssumption
<1>3. ASSUME NEW d \in Env, NEW u \in VA, pts[d][u].p # NoPage PROVE mem'[pts[d][u].p] = mem[pts[d][u].p]
  <2>1. pts[d][u] \in Entry
    OBVIOUS
  <2>2. pts[d][u].p \in Page
    BY <1>3, <2>1 DEF Entry
  <2>3. pts[d][u].p \in Used(pts)
    BY DEF Used
  <2>4. QED  BY <1>1, <2>2, <2>3
<1>4. QED  BY <1>1, <1>2, <1>3

LEMMA Innermost ==
  ASSUME ForkType, NEW e \in Env
  PROVE  /\ utf[e] \in Seq(Frames) /\ Len(utf[e]) \in 0..2
         /\ utf[e] = <<>> <=> Len(utf[e]) = 0
         /\ utf[e] # <<>> => top(e) \in Frames
<1>1. utf[e] \in Seq(Frames) /\ Len(utf[e]) <= 2
  BY DEF ForkType, TypeOK
<1>2. utf[e] # <<>> => Len(utf[e]) \in Nat \ {0}
  BY <1>1, EmptySeq
<1>3. utf[e] # <<>> => top(e) \in Frames
  BY <1>1, <1>2, ElementOfSeq DEF top
<1>4. Len(utf[e]) \in Nat
  BY <1>1, LenProperties
<1>5. utf[e] = <<>> => Len(utf[e]) = 0
  BY EmptySeq
<1>6. Len(utf[e]) \in 0..2
  <2> DEFINE n == Len(utf[e])
  <2>1. n \in Nat /\ n <= 2
    BY <1>1, <1>4
  <2> HIDE DEF n
  <2>2. n \in 0..2
    BY <2>1
  <2>3. QED  BY <2>2 DEF n
<1>7. ASSUME utf[e] # <<>> PROVE Len(utf[e]) # 0
  <2>1. Len(utf[e]) \in Nat \ {0}
    BY <1>2, <1>7, Zenon
  <2>2. QED  BY <2>1
<1>8. QED  BY <1>1, <1>3, <1>5, <1>6, <1>7, Zenon

\* What a change of the innermost fault's step does, a fault and a return.
LEMMA ThenStep ==
  ASSUME ForkType, NEW e \in Env, utf[e] # <<>>, NEW s \in FaultSteps, then(e, s)
  PROVE  /\ utf' \in [Env -> Seq(Frames)]
         /\ Len(utf'[e]) = Len(utf[e]) /\ utf'[e] # <<>>
         /\ utf'[e][Len(utf'[e])].va = top(e).va /\ utf'[e][Len(utf'[e])].step = s
         /\ Len(utf[e]) = 2 => utf'[e][1] = utf[e][1] /\ utf'[e][2].va = utf[e][2].va
         /\ \A d \in Env \ {e} : utf'[d] = utf[d]
<1> DEFINE n == Len(utf[e])
           f == [utf[e][n] EXCEPT !.step = s]
           q == [utf[e] EXCEPT ![n] = f]
<1>1. utf \in [Env -> Seq(Frames)] /\ utf[e] \in Seq(Frames) /\ n \in 1..2 /\ utf[e][n] \in Frames
  BY Innermost DEF ForkType, top
<1>2. f \in Frames /\ f.va = utf[e][n].va /\ f.step = s
  BY <1>1 DEF Frames
<1>3. utf' = [utf EXCEPT ![e] = q]
  BY DEF then
<1>4. q \in Seq(Frames) /\ Len(q) = n /\ q[n] = f /\ (n = 2 => q[1] = utf[e][1])
  <2> HIDE DEF f
  <2>1. 1 \in 1..n /\ n \in 1..n
    BY <1>1
  <2>2. /\ q \in Seq(Frames) /\ Len(q) = n
        /\ \A j \in 1..n : q[j] = IF j = n THEN f ELSE utf[e][j]
    BY <1>1, <1>2, <2>1, ExceptSeq
  <2> HIDE DEF q, n
  <2>3. QED  BY <1>1, <2>1, <2>2
<1> HIDE DEF f, q
<1>6. utf'[e] = q /\ \A d \in Env \ {e} : utf'[d] = utf[d]
  BY <1>1, <1>3
<1>7. utf' \in [Env -> Seq(Frames)]
  BY <1>1, <1>3, <1>4
<1>8. q # <<>>
  BY <1>1, <1>4, EmptySeq
<1>9. QED  BY <1>1, <1>2, <1>4, <1>6, <1>7, <1>8 DEF top

LEMMA FaultStep ==
  ASSUME ForkType, NEW e \in Env, NEW v \in Area, Len(utf[e]) < 2,
         utf' = [utf EXCEPT ![e] = Append(@, [va |-> v, step |-> "alloc"])]
  PROVE  /\ utf' \in [Env -> Seq(Frames)]
         /\ Len(utf'[e]) = Len(utf[e]) + 1 /\ utf'[e] # <<>>
         /\ utf'[e][Len(utf'[e])].va = v /\ utf'[e][Len(utf'[e])].step = "alloc"
         /\ utf[e] # <<>> => utf'[e][1] = top(e) /\ utf'[e][2].va = v
         /\ \A d \in Env \ {e} : utf'[d] = utf[d]
<1> DEFINE f == [va |-> v, step |-> "alloc"]
           q == Append(utf[e], f)
<1>1. utf \in [Env -> Seq(Frames)] /\ utf[e] \in Seq(Frames) /\ Len(utf[e]) \in 0..1
      /\ (utf[e] = <<>> <=> Len(utf[e]) = 0)
  BY Innermost DEF ForkType
<1>2. f \in Frames /\ f.va = v /\ f.step = "alloc"
  BY DEF Frames, FaultSteps
<1> HIDE DEF f
<1>3. /\ q \in Seq(Frames) /\ q # <<>> /\ Len(q) = Len(utf[e]) + 1 /\ q[Len(utf[e]) + 1] = f
      /\ \A i \in 1..Len(utf[e]) : q[i] = utf[e][i]
  BY <1>1, <1>2, AppendProperties
<1> HIDE DEF q
<1>4. utf' = [utf EXCEPT ![e] = q]
  BY DEF q, f
<1>5. utf'[e] = q /\ \A d \in Env \ {e} : utf'[d] = utf[d]
  BY <1>1, <1>4
<1>6. utf' \in [Env -> Seq(Frames)]
  BY <1>1, <1>3, <1>4
<1>7. QED  BY <1>1, <1>2, <1>3, <1>5, <1>6 DEF top

LEMMA ReturnStep ==
  ASSUME ForkType, NEW e \in Env, utf[e] # <<>>,
         utf' = [utf EXCEPT ![e] = SubSeq(@, 1, Len(@) - 1)]
  PROVE  /\ utf' \in [Env -> Seq(Frames)]
         /\ Len(utf'[e]) = Len(utf[e]) - 1 /\ (utf'[e] = <<>> <=> Len(utf[e]) = 1)
         /\ Len(utf[e]) = 2 => utf'[e][Len(utf'[e])] = utf[e][1]
         /\ \A d \in Env \ {e} : utf'[d] = utf[d]
<1> DEFINE n == Len(utf[e])
           q == SubSeq(utf[e], 1, n - 1)
<1>1. utf \in [Env -> Seq(Frames)] /\ utf[e] \in Seq(Frames) /\ n \in 1..2
  BY Innermost DEF ForkType
<1>2. \A i \in 1..(n - 1) : utf[e][i] \in Frames
  BY <1>1, ElementOfSeq
<1>3. q \in Seq(Frames) /\ Len(q) = n - 1 /\ \A i \in 1..(n - 1) : q[i] = utf[e][i]
  <2>1. /\ q \in Seq(Frames)
        /\ Len(q) = IF 1 <= n - 1 THEN (n - 1) - 1 + 1 ELSE 0
        /\ \A i \in 1..((n - 1) - 1 + 1) : q[i] = utf[e][1 + i - 1]
    BY <1>1, <1>2, SubSeqProperties
  <2> HIDE DEF q, n
  <2>2. QED  BY <1>1, <2>1
<1> HIDE DEF q
<1>4. utf' = [utf EXCEPT ![e] = q]
  BY DEF q
<1>5. utf'[e] = q /\ \A d \in Env \ {e} : utf'[d] = utf[d]
  BY <1>1, <1>4
<1>6. utf' \in [Env -> Seq(Frames)]
  BY <1>1, <1>3, <1>4
<1>7. q = <<>> <=> Len(q) = 0
  BY <1>3, EmptySeq
<1>8. QED  BY <1>1, <1>3, <1>5, <1>6, <1>7

-----------------------------------------------------------------------------
(***************************************************************************)
(* Steps change the environment that takes them and the child it makes.    *)
(* The others keep what is theirs: their entries, and the contents of the  *)
(* pages these map.                                                        *)
(***************************************************************************)
Untouched(d) ==
  /\ pt'[d] = pt[d] /\ pc'[d] = pc[d] /\ pn'[d] = pn[d] /\ cow'[d] = cow[d] /\ child'[d] = child[d]
  /\ handler'[d] = handler[d] /\ upcall'[d] = upcall[d] /\ utf'[d] = utf[d]
Kept(d) == \A u \in VA : pt[d][u].p # NoPage => mem'[pt[d][u].p] = mem[pt[d][u].p]
Bystander(d) == Untouched(d) /\ Kept(d)

\* The image of d is what it was.
Stable(d) == \A v \in Writable : mem'[frame(d, v)'] = mem[frame(d, v)]

\* What a program sees is mapped.
LEMMA FrameMapped ==
  ASSUME IInv, NEW e \in Env, NEW v \in Writable, Born(e)
  PROVE  \E u \in VA : frame(e, v) = pt[e][u].p /\ pt[e][u].p # NoPage
<1>0. LocalInv(e)
  BY DEF IInv
<1>1. CASE at(e, "map") /\ top(e).va = v
  <2>1. frame(e, v) = pt[e]["PFTEMP"].p /\ pt[e]["PFTEMP"].w
    BY <1>0, <1>1 DEF frame, LocalInv, FaultInv, FrameInv, at
  <2>2. QED  BY <1>0, <2>1, Areas DEF LocalInv, EntryInv
<1>2. CASE ~(at(e, "map") /\ top(e).va = v)
  <2>1. frame(e, v) = pt[e][v].p
    BY <1>2 DEF frame
  <2>2. v \in Area /\ v \in VA
    BY Areas
  <2>3. QED  BY <1>0, <1>2, <2>1, <2>2 DEF LocalInv, SpaceInv
<1>3. QED  BY <1>1, <1>2

LEMMA BystanderLocal ==
  ASSUME IInv, NEW d \in Env, Bystander(d)
  PROVE  LocalInv(d)'
<1>0. LocalInv(d) /\ Untouched(d) /\ Kept(d)
  BY DEF IInv, Bystander
<1> USE <1>0 DEF LocalInv, Untouched
<1>1. EntryInv(d)'
  BY DEF EntryInv
<1>2. SpaceInv(d)'
  BY DEF SpaceInv, Born, at, top
<1>3. HandlerInv(d)'
  BY DEF HandlerInv, Born
<1>4. FaultInv(d)'
  <2> SUFFICES ASSUME utf[d] # <<>> PROVE FaultInv(d)!2'
    BY DEF FaultInv
  <2>1. FrameInv(d)'
    <3>1. FrameInv(d) /\ top(d)' = top(d)
      BY DEF FaultInv, top
    <3>2. top(d).step = "unmap" => mem'[pt[d]["PFTEMP"].p] = mem'[pt[d][top(d).va].p]
      <4> SUFFICES ASSUME top(d).step = "unmap"
                   PROVE  mem'[pt[d]["PFTEMP"].p] = mem'[pt[d][top(d).va].p]
        OBVIOUS
      <4>1. /\ top(d).va \in VA /\ "PFTEMP" \in VA /\ pt[d][top(d).va].p # NoPage
            /\ pt[d]["PFTEMP"].w /\ mem[pt[d]["PFTEMP"].p] = mem[pt[d][top(d).va].p]
        BY <3>1, Areas DEF FrameInv
      <4>2. pt[d]["PFTEMP"].p # NoPage
        BY <4>1 DEF EntryInv
      <4>3. QED  BY <4>1, <4>2 DEF Kept
    <3>3. QED  BY <3>1, <3>2 DEF FrameInv
  <2>2. QED  BY <2>1 DEF FaultInv
<1>5. QED  BY <1>1, <1>2, <1>3, <1>4

LEMMA BystanderStable ==
  ASSUME IInv, NEW d \in Env, Bystander(d), Born(d)
  PROVE  Stable(d)
<1> SUFFICES ASSUME NEW v \in Writable PROVE mem'[frame(d, v)'] = mem[frame(d, v)]
  BY DEF Stable
<1>1. frame(d, v)' = frame(d, v)
  BY DEF Bystander, Untouched, frame, at, top
<1>2. QED  BY <1>1, FrameMapped DEF Bystander, Kept

\* Nor does the fork an environment is in the middle of get anywhere.
LEMMA PairKept ==
  ASSUME IInv, NEW d \in Env, pc'[d] = pc[d], pn'[d] = pn[d], cow'[d] = cow[d], child'[d] = child[d],
         Born(d) => Stable(d), child[d] # NoEnv => Bystander(child[d])
  PROVE  ChildInv(d)' /\ CopyInv(d)'
<1>0. ChildInv(d) /\ CopyInv(d) /\ child[d] \in Env \cup {NoEnv}
  BY DEF IInv, ForkType, TypeOK
<1>1. ChildInv(d)'
  BY <1>0 DEF ChildInv, Bystander, Untouched, here, Busy, Loop, StackSteps
<1>2. CopyInv(d)'
  <2> SUFFICES ASSUME NEW v \in Done(d)' PROVE CopyInv(d)!(v)'
    BY DEF CopyInv
  <2>1. v \in Done(d) /\ pc[d] \in Busy
    BY DEF Done, Busy, Loop, StackSteps
  <2>2. child[d] \in Env /\ Bystander(child[d]) /\ Born(d) /\ Stable(d)
    BY <1>0, <2>1 DEF ChildInv, Born, Busy, Loop, StackSteps, Slots
  <2>3. v \in VA
    BY <1>0, <2>1, Areas DEF Done, ChildInv, Loop, StackSteps
  <2>4. /\ pt[child[d]][v].p # NoPage /\ (v \in Writable => pt[child[d]][v].cow)
        /\ v \in Writable => mem[pt[child[d]][v].p] = mem[frame(d, v)]
    BY <1>0, <2>1 DEF CopyInv
  <2>5. pt'[child[d]] = pt[child[d]] /\ mem'[pt[child[d]][v].p] = mem[pt[child[d]][v].p]
    BY <2>2, <2>3, <2>4 DEF Bystander, Untouched, Kept
  <2>6. v \in Writable => mem'[frame(d, v)'] = mem[frame(d, v)]
    BY <2>2 DEF Stable
  <2>7. QED  BY <2>4, <2>5, <2>6
<1>3. QED  BY <1>1, <1>2

\* A step of e alone.
LEMMA OneActor ==
  ASSUME IInv, NEW e \in Env, pc[e] # "embryo", \A d \in Env \ {e} : Bystander(d),
         child'[e] \in {child[e], NoEnv},
         ForkType', LocalInv(e)', ChildInv(e)', CopyInv(e)', Exclusive'
  PROVE  IInv'
<1>0. ASSUME NEW d \in Env PROVE ChildInv(d) /\ child[d] \in Env \cup {NoEnv}
  BY DEF IInv, ForkType, TypeOK
<1>1. ASSUME NEW d \in Env \ {e} PROVE LocalInv(d)' /\ ChildInv(d)' /\ CopyInv(d)'
  <2>1. Bystander(d) /\ (Born(d) => Stable(d))
    BY BystanderStable
  <2>2. child[d] # NoEnv => Bystander(child[d])
    BY <1>0 DEF ChildInv
  <2>3. QED  BY <2>1, <2>2, BystanderLocal, PairKept DEF Bystander, Untouched
<1>2. Parents'
  BY DEF IInv, Parents, Bystander, Untouched
<1>3. QED  BY <1>1, <1>2 DEF IInv

\* A step of e that makes, fills or starts the child c.
LEMMA ParentAndChild ==
  ASSUME IInv, NEW e \in Env, NEW c \in Env \ {e}, pc[e] # "embryo",
         \A d \in Env \ {e, c} : Bystander(d), \A d \in Env \ {e} : child[d] # c,
         child'[e] \in {c, NoEnv}, child'[c] = NoEnv, pc'[c] \in {"embryo", "thisenv"},
         ForkType', LocalInv(e)', LocalInv(c)', ChildInv(e)', CopyInv(e)', Exclusive'
  PROVE  IInv'
<1>0. ASSUME NEW d \in Env PROVE ChildInv(d) /\ child[d] \in Env \cup {NoEnv}
  BY DEF IInv, ForkType, TypeOK
<1>1. ASSUME NEW d \in Env \ {e, c} PROVE LocalInv(d)' /\ ChildInv(d)' /\ CopyInv(d)'
  <2>1. Bystander(d) /\ (Born(d) => Stable(d))
    BY BystanderStable
  <2>2. child[d] # NoEnv => Bystander(child[d])
    BY <1>0 DEF ChildInv
  <2>3. QED  BY <2>1, <2>2, BystanderLocal, PairKept DEF Bystander, Untouched
<1>2. ChildInv(c)' /\ CopyInv(c)'
  BY DEF ChildInv, CopyInv, Done, Busy, Loop, StackSteps
<1>3. Parents'
  BY EnvAssumption DEF IInv, Parents, Bystander, Untouched
<1>4. QED  BY <1>1, <1>2, <1>3 DEF IInv

\* Exclusive, where entries at most disappear.
LEMMA ExclusiveKept ==
  ASSUME IInv, \A d \in Env, u \in VA : pt'[d][u] = pt[d][u] \/ pt'[d][u] = Absent,
         \A d \in Env : pc[d] \in {"dup_self", "stk_unmap"} =>
           pc'[d] = pc[d] /\ pn'[d] = pn[d] /\ child'[d] = child[d]
  PROVE  Exclusive'
<1> SUFFICES ASSUME NEW e \in Env, NEW v \in VA, pt'[e][v].w,
                    NEW d \in Env \ {e}, NEW u \in VA, pt'[d][u].p = pt'[e][v].p
             PROVE  SharedInFork(e, v, d, u)' \/ SharedInFork(d, u, e, v)'
  BY DEF Exclusive
<1>1. pt'[e][v] = pt[e][v] /\ pt[e][v].w /\ pt[e][v].p # NoPage
  BY DEF Absent, IInv, LocalInv, EntryInv
<1>2. pt'[d][u] = pt[d][u]
  BY <1>1 DEF Absent
<1>3. SharedInFork(e, v, d, u) \/ SharedInFork(d, u, e, v)
  BY <1>1, <1>2 DEF IInv, Exclusive
<1>4. QED  BY <1>3 DEF SharedInFork, here

\* Nobody's image changes.
SameImages == \A d \in Env : (Born(d)' <=> Born(d)) /\ (Born(d) => Stable(d))

\* A step of the library in e that leaves memory and faults alone.
LEMMA ProgramStep ==
  ASSUME IInv, NEW e \in Env, Born(e), UNCHANGED <<pt, mem, child, utf>>,
         \A d \in Env \ {e} : /\ pc'[d] = pc[d] /\ pn'[d] = pn[d] /\ cow'[d] = cow[d]
                              /\ handler'[d] = handler[d] /\ upcall'[d] = upcall[d],
         pc'[e] \notin Slots, {pc[e], pc'[e]} \cap {"dup_self", "stk_unmap"} = {},
         handler[e] => handler'[e],
         ForkType', HandlerInv(e)', ChildInv(e)', CopyInv(e)'
  PROVE  IInv' /\ SameImages
<1>0. LocalInv(e) /\ pc[e] # "embryo" /\ pc[e] \notin {"dup_self", "stk_unmap"}
  BY DEF IInv, Born, Slots
<1>1. \A d \in Env \ {e} : Bystander(d)
  BY DEF Bystander, Untouched, Kept
<1>2. EntryInv(e)'
  BY <1>0 DEF LocalInv, EntryInv, Slots
<1>3. SpaceInv(e)'
  BY <1>0 DEF LocalInv, SpaceInv, Born, at, top
<1>4. FaultInv(e)'
  BY <1>0 DEF LocalInv, FaultInv, FrameInv, top
<1>5. Exclusive'
  BY ExclusiveKept, <1>0
<1>6. IInv'
  BY <1>0, <1>1, <1>2, <1>3, <1>4, <1>5, OneActor DEF LocalInv
<1>7. Stable(e) /\ Born(e)'
  BY DEF Stable, frame, at, top, Born
<1>8. QED  BY <1>1, <1>6, <1>7, BystanderStable DEF SameImages, Bystander, Untouched, Born

\* What holds of an environment that executes library code.
LEMMA ReadyFacts ==
  ASSUME IInv, NEW e \in Env, NEW place, ready(e, place), place \notin Slots
  PROVE  /\ pc[e] = place /\ utf[e] = <<>> /\ Born(e) /\ LocalInv(e) /\ ChildInv(e) /\ CopyInv(e)
         /\ \A v \in Area : pt[e][v].p # NoPage /\ frame(e, v) = pt[e][v].p
         /\ \A v \in Area : pt[e][v].w \/ pt[e][v].cow <=> v \in Writable
<1>1. pc[e] = place /\ utf[e] = <<>> /\ Born(e) /\ LocalInv(e) /\ ChildInv(e) /\ CopyInv(e)
  BY DEF ready, Born, IInv
<1>2. \A v \in Area : pt[e][v].p # NoPage /\ frame(e, v) = pt[e][v].p
  BY <1>1, Areas DEF LocalInv, SpaceInv, at, frame
<1>3. ASSUME NEW v \in Area PROVE pt[e][v].w \/ pt[e][v].cow <=> v \in Writable
  BY <1>1, <1>2 DEF LocalInv, SpaceInv, EntryInv
<1>4. QED  BY <1>1, <1>2, <1>3

LEMMA PanicStep ==
  ASSUME IInv, NEW e \in Env, Born(e), pc[e] \notin {"dup_self", "stk_unmap"}, panic(e, "panic"), UNCHANGED forks
  PROVE  IInv' /\ SameImages
<1>0. LocalInv(e) /\ ChildInv(e) /\ ForkType
  BY DEF IInv
<1>1. pc' = [pc EXCEPT ![e] = "panic"] /\ UNCHANGED <<pt, mem, pn, cow, child, handler, upcall, utf, forks>>
  BY DEF panic, goto
<1>2. pc'[e] = "panic" /\ \A d \in Env \ {e} : pc'[d] = pc[d]
  BY <1>0, <1>1 DEF ForkType, TypeOK
<1>3. ForkType'
  BY <1>0, <1>1 DEF ForkType, TypeOK, Places, Stopped
<1>4. HandlerInv(e)'
  BY <1>0, <1>1, <1>2 DEF LocalInv, HandlerInv, Born
<1>5. ChildInv(e)' /\ CopyInv(e)'
  <2>1. child[e] # NoEnv => child[e] # e /\ child[e] \in Env
    BY <1>0 DEF ChildInv, Born, Slots, ForkType, TypeOK
  <2>2. QED  BY <1>0, <1>1, <1>2, <2>1 DEF ChildInv, CopyInv, Done, Busy, Loop, StackSteps
<1>6. QED  BY <1>0, <1>1, <1>2, <1>3, <1>4, <1>5, ProgramStep DEF Slots

LEMMA CallForkStep ==
  ASSUME IInv, NEW e \in Env, call_fork(e)
  PROVE  IInv' /\ SameImages
<1>0. /\ pc[e] = "main" /\ Born(e) /\ LocalInv(e) /\ ChildInv(e) /\ ForkType
  BY ReadyFacts DEF IInv, call_fork, Slots
<1>1. /\ pc' = [pc EXCEPT ![e] = "set_handler"] /\ forks < MaxFork /\ forks' = forks + 1
      /\ UNCHANGED <<pt, mem, pn, cow, child, handler, upcall, utf>>
  BY DEF call_fork, goto
<1>2. pc'[e] = "set_handler" /\ \A d \in Env \ {e} : pc'[d] = pc[d]
  BY <1>0, <1>1 DEF ForkType, TypeOK
<1>3. ForkType'
  BY <1>0, <1>1, EnvAssumption DEF ForkType, TypeOK, Places, ForkSteps
<1>4. HandlerInv(e)'
  BY <1>0, <1>1, <1>2 DEF LocalInv, HandlerInv, Born
<1>5. ChildInv(e)' /\ CopyInv(e)'
  BY <1>0, <1>1, <1>2 DEF ChildInv, CopyInv, Done, Busy, Loop, StackSteps
<1>6. QED  BY <1>0, <1>1, <1>2, <1>3, <1>4, <1>5, ProgramStep DEF Slots

\* sys_page_alloc maps a page nobody maps, writable.
LEMMA AllocFacts ==
  ASSUME ForkType, NEW e \in Env, NEW v \in VA, NEW area \in Area \cup {"UXSTACK"},
         sys_page_alloc(e, v, area)
  PROVE  /\ pt' \in [Env -> [VA -> Entry]] /\ mem' \in [Page -> Val]
         /\ pt'[e][v].w /\ ~pt'[e][v].cow /\ pt'[e][v].p # NoPage /\ pt'[e][v].p[2] = area
         /\ \A d \in Env, u \in VA : d # e \/ u # v =>
              pt'[d][u] = pt[d][u] /\ pt'[d][u].p # pt'[e][v].p
         /\ \A d \in Env, u \in VA : pt'[d][u].p # NoPage => mem'[pt'[d][u].p] = mem[pt'[d][u].p]
         /\ \A d \in Env \ {e} : pt'[d] = pt[d]
<1>1. PICK i \in 1..Cardinality(Env) :
        /\ <<e, area, i>> \notin Used(pt)
        /\ maps([pt EXCEPT ![e][v] = [p |-> <<e, area, i>>, w |-> TRUE, cow |-> FALSE]])
  BY DEF sys_page_alloc
<1> DEFINE x == [p |-> <<e, area, i>>, w |-> TRUE, cow |-> FALSE]
           pts == [pt EXCEPT ![e][v] = x]
<1>2. <<e, area, i>> \in Page /\ <<e, area, i>> # NoPage
  BY PageAssumption DEF Page
<1>3. x \in Entry
  BY <1>2 DEF Entry
<1>4. pt \in [Env -> [VA -> Entry]] /\ mem \in [Page -> Val]
  BY DEF ForkType, TypeOK
<1>5. pts \in [Env -> [VA -> Entry]]
  BY <1>3, <1>4
<1>6. /\ pt' = pts /\ mem' \in [Page -> Val]
      /\ \A d \in Env, u \in VA : pt'[d][u].p # NoPage => mem'[pt'[d][u].p] = mem[pt'[d][u].p]
  <2> HIDE DEF pts
  <2>1. maps(pts)
    BY <1>1 DEF pts
  <2>2. QED  BY <1>4, <1>5, <2>1, MapsKeep
<1>7. \A d \in Env, u \in VA : pt[d][u].p # <<e, area, i>>
  BY <1>1 DEF Used
<1>8. /\ pt'[e][v] = x /\ \A d \in Env, u \in VA : d # e \/ u # v => pt'[d][u] = pt[d][u]
      /\ \A d \in Env \ {e} : pt'[d] = pt[d]
  BY <1>3, <1>4, <1>6, EntrySet
<1>9. /\ pt'[e][v].p = <<e, area, i>> /\ pt'[e][v].w /\ ~pt'[e][v].cow /\ pt'[e][v].p # NoPage
      /\ <<e, area, i>>[2] = area
  BY <1>2, <1>8
<1>10. pt' \in [Env -> [VA -> Entry]]
  BY <1>5, <1>6
<1> HIDE DEF x, pts
<1>11. QED  BY <1>6, <1>7, <1>8, <1>9, <1>10

LEMMA ExclusiveFresh ==
  ASSUME IInv, NEW e \in Env, NEW v \in VA, pt'[e][v].p # NoPage,
         \A d \in Env, u \in VA : d # e \/ u # v => pt'[d][u] = pt[d][u] /\ pt'[d][u].p # pt'[e][v].p,
         \A d \in Env : pc[d] \in {"dup_self", "stk_unmap"} =>
           pc'[d] = pc[d] /\ pn'[d] = pn[d] /\ child'[d] = child[d]
  PROVE  Exclusive'
<1> SUFFICES ASSUME NEW a \in Env, NEW x \in VA, pt'[a][x].w,
                    NEW d \in Env \ {a}, NEW u \in VA, pt'[d][u].p = pt'[a][x].p
             PROVE  SharedInFork(a, x, d, u)' \/ SharedInFork(d, u, a, x)'
  BY DEF Exclusive
<1>1. pt'[a][x] = pt[a][x] /\ pt'[d][u] = pt[d][u]
  OBVIOUS
<1>2. SharedInFork(a, x, d, u) \/ SharedInFork(d, u, a, x)
  BY <1>1 DEF IInv, Exclusive
<1>3. QED  BY <1>2 DEF SharedInFork, here

LEMMA SetHandlerStep ==
  ASSUME IInv, NEW e \in Env, set_pgfault_handler(e), UNCHANGED forks
  PROVE  IInv' /\ SameImages
<1>t. ForkType
  BY DEF IInv
<1>1. ASSUME ready(e, "set_handler"), sys_page_alloc(e, "UXSTACK", "UXSTACK"), goto(e, "set_handler_upcall"),
             UNCHANGED <<pn, cow, child, handler, upcall, utf>>
      PROVE  IInv' /\ SameImages
  <2>0. /\ pc[e] = "set_handler" /\ utf[e] = <<>> /\ Born(e) /\ LocalInv(e) /\ ChildInv(e)
        /\ \A v \in Area : pt[e][v].p # NoPage /\ frame(e, v) = pt[e][v].p
    BY <1>1, ReadyFacts DEF Slots
  <2>1. /\ pt' \in [Env -> [VA -> Entry]] /\ mem' \in [Page -> Val]
        /\ pt'[e]["UXSTACK"].w /\ pt'[e]["UXSTACK"].p # NoPage /\ pt'[e]["UXSTACK"].p[2] = "UXSTACK"
        /\ \A d \in Env, u \in VA : d # e \/ u # "UXSTACK" =>
             pt'[d][u] = pt[d][u] /\ pt'[d][u].p # pt'[e]["UXSTACK"].p
        /\ \A d \in Env, u \in VA : pt'[d][u].p # NoPage => mem'[pt'[d][u].p] = mem[pt'[d][u].p]
        /\ \A d \in Env \ {e} : pt'[d] = pt[d]
    BY <1>1, <1>t, AllocFacts, Areas
  <2>2. pc' = [pc EXCEPT ![e] = "set_handler_upcall"] /\ pc'[e] = "set_handler_upcall"
        /\ \A d \in Env \ {e} : pc'[d] = pc[d]
    BY <1>1, <1>t DEF goto, ForkType, TypeOK
  <2>3. ForkType'
    BY <1>1, <1>t, <2>1, <2>2 DEF ForkType, TypeOK, Places, ForkSteps
  <2>4. \A d \in Env \ {e} : Bystander(d)
    BY <1>1, <2>1, <2>2 DEF Bystander, Untouched, Kept
  <2>5. \A v \in Area \cup {"PFTEMP"} : pt'[e][v] = pt[e][v]
    BY <2>1, Areas
  <2>6. LocalInv(e)'
    <3>1. EntryInv(e)'
      BY <2>0, <2>1, <2>2, <2>5, Areas DEF LocalInv, EntryInv, VA
    <3>2. SpaceInv(e)'
      BY <1>1, <2>0, <2>2, <2>5, Areas DEF LocalInv, SpaceInv, Born, at, top
    <3>3. FaultInv(e)'
      BY <1>1, <2>0 DEF FaultInv
    <3>4. HandlerInv(e)'
      BY <1>1, <2>0, <2>1, <2>2, <2>5, Areas DEF LocalInv, HandlerInv, Born, Slots
    <3>5. QED  BY <3>1, <3>2, <3>3, <3>4 DEF LocalInv
  <2>7. ChildInv(e)' /\ CopyInv(e)'
    BY <1>1, <2>0, <2>2 DEF ChildInv, CopyInv, Done, Busy, Loop, StackSteps
  <2>8. Exclusive'
    BY <1>1, <2>0, <2>1, <2>2, ExclusiveFresh, Areas
  <2>9. IInv'
    BY <1>1, <2>0, <2>3, <2>4, <2>6, <2>7, <2>8, OneActor
  <2>10. Stable(e) /\ Born(e)'
    <3>1. \A v \in Area : frame(e, v)' = pt'[e][v].p
      BY <1>1, <2>0 DEF frame, at
    <3>2. QED  BY <2>0, <2>1, <2>2, <2>5, <3>1, Areas DEF Stable, Born, Slots
  <2>11. QED  BY <2>0, <2>4, <2>9, <2>10, BystanderStable DEF SameImages, Bystander, Untouched, Born
<1>2. ASSUME ready(e, "set_handler"), handler[e], goto(e, "set_handler_store"),
             UNCHANGED <<pt, mem, pn, cow, child, handler, upcall, utf>>
      PROVE  IInv' /\ SameImages
  <2>0. pc[e] = "set_handler" /\ Born(e) /\ LocalInv(e) /\ ChildInv(e)
    BY <1>2, ReadyFacts DEF Slots
  <2>1. pc' = [pc EXCEPT ![e] = "set_handler_store"] /\ pc'[e] = "set_handler_store"
        /\ \A d \in Env \ {e} : pc'[d] = pc[d]
    BY <1>2, <1>t DEF goto, ForkType, TypeOK
  <2>2. ForkType'
    BY <1>2, <1>t, <2>1 DEF ForkType, TypeOK, Places, ForkSteps
  <2>3. HandlerInv(e)'
    BY <1>2, <2>0, <2>1 DEF LocalInv, HandlerInv, Born
  <2>4. ChildInv(e)' /\ CopyInv(e)'
    BY <1>2, <2>0, <2>1 DEF ChildInv, CopyInv, Done, Busy, Loop, StackSteps
  <2>5. QED  BY <1>2, <2>0, <2>1, <2>2, <2>3, <2>4, ProgramStep DEF Slots
<1>3. ASSUME ready(e, "set_handler_upcall"), goto(e, "set_handler_store"),
             upcall' = [upcall EXCEPT ![e] = TRUE], UNCHANGED <<pt, mem, pn, cow, child, handler, utf>>
      PROVE  IInv' /\ SameImages
  <2>0. pc[e] = "set_handler_upcall" /\ Born(e) /\ LocalInv(e) /\ ChildInv(e)
    BY <1>3, ReadyFacts DEF Slots
  <2>1. pc' = [pc EXCEPT ![e] = "set_handler_store"] /\ pc'[e] = "set_handler_store" /\ upcall'[e]
        /\ \A d \in Env \ {e} : pc'[d] = pc[d] /\ upcall'[d] = upcall[d]
    BY <1>3, <1>t DEF goto, ForkType, TypeOK
  <2>2. ForkType'
    BY <1>3, <1>t, <2>1 DEF ForkType, TypeOK, Places, ForkSteps
  <2>3. HandlerInv(e)'
    BY <1>3, <2>0, <2>1 DEF LocalInv, HandlerInv, Born
  <2>4. ChildInv(e)' /\ CopyInv(e)'
    BY <1>3, <2>0, <2>1 DEF ChildInv, CopyInv, Done, Busy, Loop, StackSteps
  <2>5. QED  BY <1>3, <2>0, <2>1, <2>2, <2>3, <2>4, ProgramStep DEF Slots
<1>4. ASSUME ready(e, "set_handler_store"), goto(e, "exofork"),
             handler' = [handler EXCEPT ![e] = TRUE], UNCHANGED <<pt, mem, pn, cow, child, upcall, utf>>
      PROVE  IInv' /\ SameImages
  <2>0. pc[e] = "set_handler_store" /\ Born(e) /\ LocalInv(e) /\ ChildInv(e)
    BY <1>4, ReadyFacts DEF Slots
  <2>1. pc' = [pc EXCEPT ![e] = "exofork"] /\ pc'[e] = "exofork" /\ handler'[e]
        /\ \A d \in Env \ {e} : pc'[d] = pc[d] /\ handler'[d] = handler[d]
    BY <1>4, <1>t DEF goto, ForkType, TypeOK
  <2>2. ForkType'
    BY <1>4, <1>t, <2>1 DEF ForkType, TypeOK, Places, ForkSteps
  <2>3. HandlerInv(e)'
    BY <1>4, <2>0, <2>1 DEF LocalInv, HandlerInv, Born
  <2>4. ChildInv(e)' /\ CopyInv(e)'
    BY <1>4, <2>0, <2>1 DEF ChildInv, CopyInv, Done, Busy, Loop, StackSteps
  <2>5. QED  BY <1>4, <2>0, <2>1, <2>2, <2>3, <2>4, ProgramStep DEF Slots
<1>5. QED  BY <1>1, <1>2, <1>3, <1>4 DEF set_pgfault_handler

-----------------------------------------------------------------------------
\* The steps of a page fault, wherever the program is.

LEMMA FaultActor ==
  ASSUME IInv, NEW e \in Env, Born(e), UNCHANGED locals, \A d \in Env \ {e} : Bystander(d),
         Stable(e), ForkType', LocalInv(e)', Exclusive'
  PROVE  IInv' /\ SameImages
<1>1. child[e] # NoEnv => child[e] \in Env \ {e}
  BY DEF IInv, ForkType, TypeOK, ChildInv, Born, Slots
<1>2. ChildInv(e)' /\ CopyInv(e)'
  BY <1>1, PairKept DEF locals
<1>3. IInv'
  BY <1>2, OneActor DEF locals, Born, Slots
<1>4. QED  BY <1>3, BystanderStable DEF SameImages, locals, Born

LEMMA AtFacts ==
  ASSUME IInv, NEW e \in Env, NEW s, at(e, s)
  PROVE  /\ ForkType /\ utf[e] # <<>> /\ Born(e) /\ LocalInv(e) /\ FrameInv(e) /\ handler[e]
         /\ top(e).step = s /\ top(e).va \in Writable /\ top(e).va \in Area /\ top(e).va \in VA
         /\ pc[e] \notin Slots \cup {"dup_self", "stk_unmap"}
BY Areas DEF IInv, LocalInv, FaultInv, FrameInv, at, Born

\* page_fault_handler finds the upcall in place.
LEMMA EnterFault ==
  ASSUME IInv, NEW e \in Env, NEW v \in Writable, Born(e), ~pt[e][v].w, page_fault_handler(e, v),
         pc[e] \notin {"dup_self", "stk_unmap"}, UNCHANGED forks,
         utf[e] = <<>> \/ (Len(utf[e]) = 1 /\ at(e, "ret") /\ v = "stack")
  PROVE  IInv' /\ SameImages
<1>t. ForkType /\ LocalInv(e) /\ v \in Area /\ v \in VA
  BY Areas DEF IInv
<1>n. utf[e] = <<>> <=> Len(utf[e]) = 0
  BY <1>t, Innermost
<1>l. Len(utf[e]) < 2 /\ Len(utf[e]) + 1 <= 2 /\ (Len(utf[e]) + 1 = 2 => utf[e] # <<>>)
  <2>1. CASE Len(utf[e]) = 0
    BY <2>1
  <2>2. CASE Len(utf[e]) = 1
    BY <1>n, <2>2
  <2>3. QED  BY <1>n, <2>1, <2>2
<1>1. handler[e] /\ upcall[e] /\ pt[e]["UXSTACK"].w
  BY <1>t DEF LocalInv, HandlerInv
<1>2. UNCHANGED <<pt, mem, locals>> /\ utf' = [utf EXCEPT ![e] = Append(@, [va |-> v, step |-> "alloc"])]
  BY <1>1 DEF page_fault_handler, locals
<1>3. /\ utf' \in [Env -> Seq(Frames)]
      /\ Len(utf'[e]) = Len(utf[e]) + 1 /\ utf'[e] # <<>>
      /\ utf'[e][Len(utf'[e])].va = v /\ utf'[e][Len(utf'[e])].step = "alloc"
      /\ utf[e] # <<>> => utf'[e][1] = top(e) /\ utf'[e][2].va = v
      /\ \A d \in Env \ {e} : utf'[d] = utf[d]
  BY <1>t, <1>l, <1>2, FaultStep
<1>4. ForkType'
  <2>1. \A d \in Env : Len(utf'[d]) <= 2 /\ \A i \in 1..Len(utf'[d]) : utf'[d][i].va \in Area
    <3> SUFFICES ASSUME NEW d \in Env
                 PROVE  Len(utf'[d]) <= 2 /\ \A i \in 1..Len(utf'[d]) : utf'[d][i].va \in Area
      OBVIOUS
    <3>1. CASE d # e
      BY <1>t, <1>3, <3>1 DEF ForkType, TypeOK
    <3>2. CASE d = e
      <4>1. utf'[e] \in Seq(Frames)
        BY <1>3
      <4>2. \A i \in 1..Len(utf'[e]) : utf'[e][i] \in Frames
        BY <4>1, ElementOfSeq
      <4>3. QED  BY <1>l, <1>3, <3>2, <4>2 DEF Frames
    <3>3. QED  BY <3>1, <3>2
  <2>2. QED  BY <1>t, <1>2, <1>3, <2>1 DEF ForkType, TypeOK, locals
<1>5. \A d \in Env \ {e} : Bystander(d)
  BY <1>2, <1>3 DEF Bystander, Untouched, Kept, locals
<1>6. ~at(e, "map") /\ ~at(e, "map")' /\ top(e)'.va = v /\ top(e)'.step = "alloc"
  BY <1>3 DEF at, top
<1>7. pt[e][v].p # NoPage /\ pt[e][v].cow /\ pt[e]["PFTEMP"].p = NoPage
  BY <1>t, <1>6 DEF LocalInv, SpaceInv, at
<1>8. LocalInv(e)'
  <2>1. EntryInv(e)' /\ HandlerInv(e)'
    BY <1>t, <1>2 DEF LocalInv, EntryInv, HandlerInv, Born, locals
  <2>2. SpaceInv(e)'
    BY <1>t, <1>2, <1>6, <1>7 DEF LocalInv, SpaceInv, Born, locals
  <2>3. FrameInv(e)'
    BY <1>2, <1>6, <1>7 DEF FrameInv
  <2>4. Len(utf'[e]) = 2 => /\ utf'[e][1].step = "ret" /\ utf'[e][1].va # "stack" /\ utf'[e][1].va \in Writable
                            /\ pt[e][utf'[e][1].va].w /\ utf'[e][2].va = "stack"
    <3> SUFFICES ASSUME Len(utf'[e]) = 2
                 PROVE  /\ top(e).step = "ret" /\ top(e).va # "stack" /\ top(e).va \in Writable
                        /\ pt[e][top(e).va].w /\ v = "stack"
      BY <1>l, <1>3
    <3>1. at(e, "ret") /\ v = "stack"
      BY <1>l, <1>3
    <3>2. FrameInv(e) /\ top(e).step = "ret"
      BY <3>1, AtFacts
    <3>3. QED  BY <3>1, <3>2 DEF FrameInv
  <2>5. FaultInv(e)'
    BY <1>1, <1>2, <2>3, <2>4 DEF FaultInv, locals, Born
  <2>6. QED  BY <2>1, <2>2, <2>5 DEF LocalInv
<1>9. Exclusive'
  BY <1>2, ExclusiveKept DEF locals
<1>10. Stable(e)
  BY <1>2, <1>6 DEF Stable, frame
<1>11. QED  BY <1>2, <1>4, <1>5, <1>8, <1>9, <1>10, FaultActor

LEMMA FaultType ==
  ASSUME ForkType, NEW e \in Env, UNCHANGED <<locals, forks>>, utf' \in [Env -> Seq(Frames)],
         \A d \in Env \ {e} : utf'[d] = utf[d], Len(utf'[e]) <= 2,
         pt' \in [Env -> [VA -> Entry]], mem' \in [Page -> Val]
  PROVE  ForkType'
<1>1. ASSUME NEW d \in Env
      PROVE  Len(utf'[d]) <= 2 /\ \A i \in 1..Len(utf'[d]) : utf'[d][i].va \in Area
  <2>1. CASE d # e
    BY <2>1 DEF ForkType, TypeOK
  <2>2. CASE d = e
    <3>1. utf'[e] \in Seq(Frames)
      OBVIOUS
    <3>2. \A i \in 1..Len(utf'[e]) : utf'[e][i] \in Frames
      BY <3>1, ElementOfSeq
    <3>3. QED  BY <2>2, <3>2 DEF Frames
  <2>3. QED  BY <2>1, <2>2
<1>2. QED  BY <1>1 DEF ForkType, TypeOK, locals

\* What the steps of pgfault have in common.
LEMMA PgfaultFacts ==
  ASSUME IInv, NEW e \in Env, NEW s, at(e, s), NEW t \in FaultSteps, then(e, t), UNCHANGED <<locals, forks>>,
         pt' \in [Env -> [VA -> Entry]], mem' \in [Page -> Val]
  PROVE  /\ ForkType' /\ utf'[e] # <<>> /\ top(e)'.va = top(e).va /\ top(e)'.step = t
         /\ \A d \in Env \ {e} : utf'[d] = utf[d]
         /\ Len(utf'[e]) = 2 => /\ utf'[e][1].step = "ret" /\ utf'[e][1].va # "stack"
                                /\ utf'[e][1].va \in Writable /\ utf'[e][1].va # top(e).va
                                /\ pt[e][utf'[e][1].va].w /\ utf'[e][2].va = "stack"
         /\ Born(e)' /\ handler'[e] /\ pc'[e] \notin Slots \cup {"dup_self", "stk_unmap"}
<1>1. /\ ForkType /\ utf[e] # <<>> /\ Born(e) /\ LocalInv(e) /\ handler[e]
      /\ pc[e] \notin Slots \cup {"dup_self", "stk_unmap"}
  BY AtFacts
<1>2. /\ utf' \in [Env -> Seq(Frames)]
      /\ Len(utf'[e]) = Len(utf[e]) /\ utf'[e] # <<>>
      /\ utf'[e][Len(utf'[e])].va = top(e).va /\ utf'[e][Len(utf'[e])].step = t
      /\ Len(utf[e]) = 2 => utf'[e][1] = utf[e][1] /\ utf'[e][2].va = utf[e][2].va
      /\ \A d \in Env \ {e} : utf'[d] = utf[d]
  BY <1>1, ThenStep
<1>3. Len(utf'[e]) <= 2
  BY <1>1, <1>2 DEF ForkType, TypeOK
<1>4. ForkType'
  BY <1>1, <1>2, <1>3, FaultType
<1>5. ASSUME Len(utf'[e]) = 2
      PROVE  /\ utf'[e][1].step = "ret" /\ utf'[e][1].va # "stack"
             /\ utf'[e][1].va \in Writable /\ utf'[e][1].va # top(e).va
             /\ pt[e][utf'[e][1].va].w /\ utf'[e][2].va = "stack"
  <2>1. utf'[e][1] = utf[e][1] /\ utf'[e][2].va = utf[e][2].va /\ Len(utf[e]) = 2
    BY <1>2, <1>5
  <2>2. top(e).va = utf[e][2].va
    BY <2>1 DEF top
  <2>3. QED  BY <1>1, <2>1, <2>2 DEF LocalInv, FaultInv
<1>6. QED  BY <1>1, <1>2, <1>4, <1>5 DEF top, locals, Born

LEMMA PgfaultAlloc ==
  ASSUME IInv, NEW e \in Env, pgfault_alloc(e), UNCHANGED forks
  PROVE  IInv' /\ SameImages
<1>0. at(e, "alloc")
  BY DEF pgfault_alloc
<1>1. PICK a \in Writable : a = top(e).va
  BY <1>0, AtFacts
<1>2. /\ ForkType /\ utf[e] # <<>> /\ Born(e) /\ LocalInv(e) /\ FrameInv(e) /\ handler[e]
      /\ top(e).step = "alloc" /\ a \in Area /\ a \in VA /\ "PFTEMP" \in VA \ Area /\ "UXSTACK" \in VA \ Area
      /\ pc[e] \notin Slots \cup {"dup_self", "stk_unmap"}
  BY <1>0, <1>1, AtFacts, Areas
<1>3. pt[e][a].cow /\ ~at(e, "map") /\ \A v \in Area : pt[e][v].p # NoPage
  BY <1>1, <1>2 DEF FrameInv, at, LocalInv, SpaceInv
<1>4. CASE panic(e, IF pt[e][top(e).va].cow THEN "panic" ELSE "panic_cow")
  BY <1>1, <1>2, <1>3, <1>4, PanicStep
<1>5. ASSUME sys_page_alloc(e, "PFTEMP", top(e).va), then(e, "copy"), UNCHANGED locals
      PROVE  IInv' /\ SameImages
  <2>1. /\ pt' \in [Env -> [VA -> Entry]] /\ mem' \in [Page -> Val]
        /\ pt'[e]["PFTEMP"].w /\ pt'[e]["PFTEMP"].p # NoPage /\ pt'[e]["PFTEMP"].p[2] = a
        /\ \A d \in Env, u \in VA : d # e \/ u # "PFTEMP" =>
             pt'[d][u] = pt[d][u] /\ pt'[d][u].p # pt'[e]["PFTEMP"].p
        /\ \A d \in Env, u \in VA : pt'[d][u].p # NoPage => mem'[pt'[d][u].p] = mem[pt'[d][u].p]
        /\ \A d \in Env \ {e} : pt'[d] = pt[d]
    BY <1>1, <1>2, <1>5, AllocFacts
  <2>2. /\ ForkType' /\ utf'[e] # <<>> /\ top(e)'.va = a /\ top(e)'.step = "copy"
        /\ \A d \in Env \ {e} : utf'[d] = utf[d]
        /\ Len(utf'[e]) = 2 => /\ utf'[e][1].step = "ret" /\ utf'[e][1].va # "stack"
                               /\ utf'[e][1].va \in Writable
                               /\ pt[e][utf'[e][1].va].w /\ utf'[e][2].va = "stack"
        /\ Born(e)' /\ handler'[e] /\ pc'[e] \notin Slots \cup {"dup_self", "stk_unmap"}
    BY <1>0, <1>1, <1>5, <2>1, PgfaultFacts DEF FaultSteps
  <2>3. \A d \in Env \ {e} : Bystander(d)
    BY <1>5, <2>1, <2>2 DEF Bystander, Untouched, Kept, locals
  <2>4. \A v \in Area \cup {"UXSTACK"} : pt'[e][v] = pt[e][v]
    BY <1>2, <2>1, Areas
  <2>5. LocalInv(e)'
    <3>1. EntryInv(e)'
      BY <1>2, <1>5, <2>1, <2>4 DEF LocalInv, EntryInv, VA, locals, Slots
    <3>2. SpaceInv(e)'
      BY <1>2, <1>3, <2>2, <2>4 DEF LocalInv, SpaceInv
    <3>3. FrameInv(e)'
      BY <1>2, <1>3, <2>1, <2>2, <2>4 DEF FrameInv
    <3>4. FaultInv(e)'
      BY <2>2, <2>4, <3>3, Areas DEF FaultInv
    <3>5. HandlerInv(e)'
      BY <1>2, <1>5, <2>4, Areas DEF LocalInv, HandlerInv, locals, Born
    <3>6. QED  BY <3>1, <3>2, <3>4, <3>5 DEF LocalInv
  <2>6. Exclusive'
    BY <1>2, <1>5, <2>1, ExclusiveFresh DEF locals
  <2>7. Stable(e)
    <3>1. ~at(e, "map")'
      BY <2>2 DEF at
    <3>2. \A v \in Writable : frame(e, v) = pt[e][v].p /\ frame(e, v)' = pt'[e][v].p /\ v \in Area /\ v \in VA
      BY <1>3, <3>1, Areas DEF frame
    <3>3. QED  BY <1>3, <2>1, <2>4, <3>2 DEF Stable
  <2>8. QED  BY <1>2, <1>5, <2>2, <2>3, <2>5, <2>6, <2>7, FaultActor
<1>6. QED  BY <1>4, <1>5 DEF pgfault_alloc

\* Outside the shared moments of fork a writable page is its owner's alone.
LEMMA PrivatePage ==
  ASSUME IInv, NEW e \in Env, pc[e] \notin {"embryo", "dup_self", "stk_unmap"}, NEW v \in VA, pt[e][v].w,
         NEW d \in Env \ {e}, NEW u \in VA
  PROVE  pt[d][u].p # pt[e][v].p
<1> SUFFICES ASSUME pt[d][u].p = pt[e][v].p PROVE FALSE
  OBVIOUS
<1>1. SharedInFork(e, v, d, u) \/ SharedInFork(d, u, e, v)
  BY DEF IInv, Exclusive
<1>2. child[d] = e
  BY <1>1 DEF SharedInFork
<1>3. ChildInv(d)
  BY DEF IInv
<1>4. QED  BY <1>2, <1>3, EnvAssumption DEF ChildInv

LEMMA MappedPage ==
  ASSUME ForkType, NEW e \in Env, NEW v \in VA, pt[e][v].p # NoPage
  PROVE  pt[e][v].p \in Page /\ mem[pt[e][v].p] \in Val
<1>1. pt[e][v] \in Entry /\ mem \in [Page -> Val]
  BY DEF ForkType, TypeOK
<1>2. QED  BY <1>1 DEF Entry

LEMMA PgfaultCopy ==
  ASSUME IInv, NEW e \in Env, pgfault_copy(e), UNCHANGED forks
  PROVE  IInv' /\ SameImages
<1>0. at(e, "copy") /\ then(e, "unmap") /\ UNCHANGED <<pt, locals, forks>>
  BY DEF pgfault_copy
<1>1. PICK a \in Writable : a = top(e).va
  BY <1>0, AtFacts
<1>2. /\ ForkType /\ utf[e] # <<>> /\ Born(e) /\ LocalInv(e) /\ FrameInv(e)
      /\ top(e).step = "copy" /\ a \in Area /\ a \in VA /\ "PFTEMP" \in VA \ Area
      /\ pc[e] \notin Slots \cup {"dup_self", "stk_unmap"}
  BY <1>0, <1>1, AtFacts, Areas
<1>3. /\ pt[e][a].cow /\ pt[e][a].p # NoPage /\ ~at(e, "map")
      /\ pt[e]["PFTEMP"].w /\ pt[e]["PFTEMP"].p[2] = a /\ pt[e]["PFTEMP"].p # pt[e][a].p
      /\ pt[e]["PFTEMP"].p # NoPage
  BY <1>1, <1>2 DEF FrameInv, at, LocalInv, EntryInv
<1>4. /\ mem' = [mem EXCEPT ![pt[e]["PFTEMP"].p] = mem[pt[e][a].p]]
      /\ pt[e]["PFTEMP"].p \in Page /\ mem[pt[e][a].p] \in Val /\ mem \in [Page -> Val]
  BY <1>1, <1>2, <1>3, MappedPage DEF pgfault_copy, ForkType, TypeOK
<1>5. mem' \in [Page -> Val] /\ mem'[pt[e]["PFTEMP"].p] = mem[pt[e][a].p]
      /\ \A d \in Env, u \in VA : pt[d][u].p # NoPage /\ pt[d][u].p # pt[e]["PFTEMP"].p =>
           mem'[pt[d][u].p] = mem[pt[d][u].p]
  BY <1>2, <1>4, MappedPage
<1>6. pt' \in [Env -> [VA -> Entry]]
  BY <1>0, <1>2 DEF ForkType, TypeOK
<1>7. /\ ForkType' /\ utf'[e] # <<>> /\ top(e)'.va = a /\ top(e)'.step = "unmap"
      /\ \A d \in Env \ {e} : utf'[d] = utf[d]
      /\ Len(utf'[e]) = 2 => /\ utf'[e][1].step = "ret" /\ utf'[e][1].va # "stack"
                             /\ utf'[e][1].va \in Writable
                             /\ pt[e][utf'[e][1].va].w /\ utf'[e][2].va = "stack"
      /\ Born(e)' /\ handler'[e] /\ pc'[e] \notin Slots \cup {"dup_self", "stk_unmap"}
  BY <1>0, <1>1, <1>5, <1>6, PgfaultFacts DEF FaultSteps
<1>8. \A d \in Env \ {e} : Bystander(d)
  <2>1. \A d \in Env \ {e}, u \in VA : pt[d][u].p # pt[e]["PFTEMP"].p
    BY <1>2, <1>3, PrivatePage DEF Slots
  <2>2. QED  BY <1>0, <1>5, <1>7, <2>1 DEF Bystander, Untouched, Kept, locals
<1>9. LocalInv(e)'
  <2>1. EntryInv(e)' /\ HandlerInv(e)'
    BY <1>0, <1>2 DEF LocalInv, EntryInv, HandlerInv, locals, Born
  <2>2. SpaceInv(e)'
    BY <1>0, <1>2, <1>3, <1>7 DEF LocalInv, SpaceInv, locals, Born, at
  <2>3. FrameInv(e)'
    BY <1>0, <1>2, <1>3, <1>5, <1>7 DEF FrameInv
  <2>4. FaultInv(e)'
    BY <1>0, <1>7, <2>3 DEF FaultInv
  <2>5. QED  BY <2>1, <2>2, <2>4 DEF LocalInv
<1>10. Exclusive'
  BY <1>0, ExclusiveKept DEF locals
<1>11. Stable(e)
  <2>1. ~at(e, "map")'
    BY <1>7 DEF at
  <2> SUFFICES ASSUME NEW v \in Writable PROVE mem'[frame(e, v)'] = mem[frame(e, v)]
    BY DEF Stable
  <2>2. v \in Area /\ v \in VA /\ frame(e, v) = pt[e][v].p /\ frame(e, v)' = pt[e][v].p
    BY <1>0, <1>3, <2>1, Areas DEF frame
  <2>3. pt[e][v].p # NoPage /\ pt[e][v].p # pt[e]["PFTEMP"].p
    BY <1>2, <1>3, <2>2 DEF LocalInv, SpaceInv, EntryInv
  <2>4. QED  BY <1>5, <2>2, <2>3
<1>12. QED  BY <1>0, <1>2, <1>7, <1>8, <1>9, <1>10, <1>11, FaultActor

\* sys_page_unmap and sys_page_map change one entry.
LEMMA SetEntryFacts ==
  ASSUME ForkType, NEW e \in Env, NEW v \in VA, NEW x \in Entry, maps([pt EXCEPT ![e][v] = x])
  PROVE  /\ pt' \in [Env -> [VA -> Entry]] /\ mem' \in [Page -> Val]
         /\ pt'[e][v] = x
         /\ \A d \in Env, u \in VA : d # e \/ u # v => pt'[d][u] = pt[d][u]
         /\ \A d \in Env, u \in VA : pt'[d][u].p # NoPage => mem'[pt'[d][u].p] = mem[pt'[d][u].p]
         /\ \A d \in Env \ {e} : pt'[d] = pt[d]
<1> DEFINE pts == [pt EXCEPT ![e][v] = x]
<1>1. pt \in [Env -> [VA -> Entry]] /\ mem \in [Page -> Val]
  BY DEF ForkType, TypeOK
<1>2. pts \in [Env -> [VA -> Entry]]
  BY <1>1
<1>3. /\ pt' = pts /\ mem' \in [Page -> Val]
      /\ \A d \in Env, u \in VA : pt'[d][u].p # NoPage => mem'[pt'[d][u].p] = mem[pt'[d][u].p]
  <2> HIDE DEF pts
  <2>1. maps(pts)
    BY DEF pts
  <2>2. QED  BY <1>1, <1>2, <2>1, MapsKeep
<1>4. QED  BY <1>1, <1>3, EntrySet

LEMMA UnmapFacts ==
  ASSUME ForkType, NEW e \in Env, NEW v \in VA, sys_page_unmap(e, v)
  PROVE  /\ pt' \in [Env -> [VA -> Entry]] /\ mem' \in [Page -> Val]
         /\ pt'[e][v] = Absent
         /\ \A d \in Env, u \in VA : d # e \/ u # v => pt'[d][u] = pt[d][u]
         /\ \A d \in Env, u \in VA : pt'[d][u].p # NoPage => mem'[pt'[d][u].p] = mem[pt'[d][u].p]
         /\ \A d \in Env \ {e} : pt'[d] = pt[d]
<1>1. Absent \in Entry
  BY DEF Absent, Entry
<1>2. QED  BY <1>1, SetEntryFacts DEF sys_page_unmap

\* The new entry of sys_page_map.
LEMMA MapEntry ==
  ASSUME ForkType, NEW e \in Env, NEW v \in VA, NEW w \in BOOLEAN, NEW c \in BOOLEAN
  PROVE  [p |-> pt[e][v].p, w |-> w, cow |-> c] \in Entry
<1>1. pt[e][v] \in Entry
  BY DEF ForkType, TypeOK
<1>2. QED  BY <1>1 DEF Entry

LEMMA PgfaultUnmap ==
  ASSUME IInv, NEW e \in Env, pgfault_unmap(e), UNCHANGED forks
  PROVE  IInv' /\ SameImages
<1>0. at(e, "unmap") /\ then(e, "map") /\ UNCHANGED <<locals, forks>>
  BY DEF pgfault_unmap
<1>1. PICK a \in Writable : a = top(e).va
  BY <1>0, AtFacts
<1>2. /\ ForkType /\ utf[e] # <<>> /\ Born(e) /\ LocalInv(e) /\ FrameInv(e) /\ handler[e]
      /\ top(e).step = "unmap" /\ a \in Area /\ a \in VA /\ "PFTEMP" \in VA \ Area /\ "UXSTACK" \in VA \ Area
      /\ pc[e] \notin Slots \cup {"dup_self", "stk_unmap"}
  BY <1>0, <1>1, AtFacts, Areas
<1>3. /\ pt[e]["PFTEMP"].w /\ pt[e]["PFTEMP"].p # NoPage /\ pt[e]["PFTEMP"].p[2] = a
      /\ mem[pt[e]["PFTEMP"].p] = mem[pt[e][a].p]
      /\ \A v \in Area : pt[e][v].p # NoPage
  BY <1>1, <1>2 DEF FrameInv, at, LocalInv, EntryInv, SpaceInv
<1>4. /\ pt' \in [Env -> [VA -> Entry]] /\ mem' \in [Page -> Val]
      /\ pt'[e][a] = Absent
      /\ \A d \in Env, u \in VA : d # e \/ u # a => pt'[d][u] = pt[d][u]
      /\ \A d \in Env, u \in VA : pt'[d][u].p # NoPage => mem'[pt'[d][u].p] = mem[pt'[d][u].p]
      /\ \A d \in Env \ {e} : pt'[d] = pt[d]
  BY <1>0, <1>1, <1>2, UnmapFacts DEF pgfault_unmap
<1>5. /\ ForkType' /\ utf'[e] # <<>> /\ top(e)'.va = a /\ top(e)'.step = "map"
      /\ \A d \in Env \ {e} : utf'[d] = utf[d]
      /\ Len(utf'[e]) = 2 => /\ utf'[e][1].step = "ret" /\ utf'[e][1].va # "stack"
                             /\ utf'[e][1].va \in Writable /\ utf'[e][1].va # a
                             /\ pt[e][utf'[e][1].va].w /\ utf'[e][2].va = "stack"
      /\ Born(e)' /\ handler'[e] /\ pc'[e] \notin Slots \cup {"dup_self", "stk_unmap"}
  BY <1>0, <1>1, <1>4, PgfaultFacts DEF FaultSteps
<1>6. \A d \in Env \ {e} : Bystander(d)
  BY <1>0, <1>4, <1>5 DEF Bystander, Untouched, Kept, locals
<1>7. LocalInv(e)'
  <2>1. EntryInv(e)'
    <3>1. \A v \in VA : pt'[e][v] = pt[e][v] \/ pt'[e][v] = Absent
      BY <1>4
    <3>2. QED  BY <1>0, <1>2, <3>1, Areas DEF LocalInv, EntryInv, locals, Slots, Absent
  <2>2. SpaceInv(e)'
    BY <1>0, <1>2, <1>3, <1>4, <1>5, Areas DEF LocalInv, SpaceInv, locals, Born, at, Absent
  <2>3. FrameInv(e)'
    BY <1>2, <1>3, <1>4, <1>5 DEF FrameInv, Absent
  <2>4. FaultInv(e)'
    BY <1>4, <1>5, <2>3, Areas DEF FaultInv
  <2>5. HandlerInv(e)'
    BY <1>0, <1>2, <1>4, <1>5 DEF LocalInv, HandlerInv, locals, Born
  <2>6. QED  BY <2>1, <2>2, <2>4, <2>5 DEF LocalInv
<1>8. Exclusive'
  BY <1>0, <1>4, ExclusiveKept DEF locals
<1>9. Stable(e)
  <2> SUFFICES ASSUME NEW v \in Writable PROVE mem'[frame(e, v)'] = mem[frame(e, v)]
    BY DEF Stable
  <2>1. v \in Area /\ v \in VA /\ frame(e, v) = pt[e][v].p
    BY <1>2, Areas DEF frame, at
  <2>2. CASE v = a
    BY <1>2, <1>3, <1>4, <1>5, <2>1, <2>2 DEF frame, at
  <2>3. CASE v # a
    BY <1>2, <1>3, <1>4, <1>5, <2>1, <2>3 DEF frame
  <2>4. QED  BY <2>2, <2>3
<1>10. QED  BY <1>0, <1>2, <1>5, <1>6, <1>7, <1>8, <1>9, FaultActor

LEMMA PgfaultMap ==
  ASSUME IInv, NEW e \in Env, pgfault_map(e), UNCHANGED forks
  PROVE  IInv' /\ SameImages
<1>0. at(e, "map") /\ then(e, "unmap_temp") /\ UNCHANGED <<locals, forks>>
  BY DEF pgfault_map
<1>1. PICK a \in Writable : a = top(e).va
  BY <1>0, AtFacts
<1>2. /\ ForkType /\ utf[e] # <<>> /\ Born(e) /\ LocalInv(e) /\ FrameInv(e) /\ handler[e]
      /\ top(e).step = "map" /\ a \in Area /\ a \in VA /\ "PFTEMP" \in VA \ Area /\ "UXSTACK" \in VA \ Area
      /\ pc[e] \notin Slots \cup {"dup_self", "stk_unmap"}
  BY <1>0, <1>1, AtFacts, Areas
<1>3. /\ pt[e]["PFTEMP"].w /\ pt[e]["PFTEMP"].p # NoPage /\ pt[e]["PFTEMP"].p[2] = a
      /\ \A v \in Area \ {a} : pt[e][v].p # NoPage
  BY <1>1, <1>2 DEF FrameInv, at, LocalInv, EntryInv, SpaceInv
<1>4. /\ pt' \in [Env -> [VA -> Entry]] /\ mem' \in [Page -> Val]
      /\ pt'[e][a] = [p |-> pt[e]["PFTEMP"].p, w |-> TRUE, cow |-> FALSE]
      /\ \A d \in Env, u \in VA : d # e \/ u # a => pt'[d][u] = pt[d][u]
      /\ \A d \in Env, u \in VA : pt'[d][u].p # NoPage => mem'[pt'[d][u].p] = mem[pt'[d][u].p]
      /\ \A d \in Env \ {e} : pt'[d] = pt[d]
  <2> DEFINE x == [p |-> pt[e]["PFTEMP"].p, w |-> TRUE, cow |-> FALSE]
  <2>1. maps([pt EXCEPT ![e][a] = x])
    BY <1>1 DEF pgfault_map, sys_page_map
  <2>2. x \in Entry
    BY <1>2, MapEntry
  <2> HIDE DEF x
  <2>3. QED  BY <1>2, <2>1, <2>2, SetEntryFacts DEF x
<1>5. /\ ForkType' /\ utf'[e] # <<>> /\ top(e)'.va = a /\ top(e)'.step = "unmap_temp"
      /\ \A d \in Env \ {e} : utf'[d] = utf[d]
      /\ Len(utf'[e]) = 2 => /\ utf'[e][1].step = "ret" /\ utf'[e][1].va # "stack"
                             /\ utf'[e][1].va \in Writable /\ utf'[e][1].va # a
                             /\ pt[e][utf'[e][1].va].w /\ utf'[e][2].va = "stack"
      /\ Born(e)' /\ handler'[e] /\ pc'[e] \notin Slots \cup {"dup_self", "stk_unmap"}
  BY <1>0, <1>1, <1>4, PgfaultFacts DEF FaultSteps
<1>6. \A d \in Env \ {e} : Bystander(d)
  BY <1>0, <1>4, <1>5 DEF Bystander, Untouched, Kept, locals
<1>7. LocalInv(e)'
  <2>1. EntryInv(e)'
    BY <1>0, <1>2, <1>3, <1>4 DEF LocalInv, EntryInv, locals, Slots, VA, Absent
  <2>2. SpaceInv(e)'
    BY <1>0, <1>2, <1>3, <1>4, <1>5, Areas DEF LocalInv, SpaceInv, locals, Born, at, Absent
  <2>3. FrameInv(e)'
    BY <1>2, <1>3, <1>4, <1>5 DEF FrameInv, Absent
  <2>4. FaultInv(e)'
    BY <1>4, <1>5, <2>3, Areas DEF FaultInv
  <2>5. HandlerInv(e)'
    BY <1>0, <1>2, <1>4, <1>5 DEF LocalInv, HandlerInv, locals, Born
  <2>6. QED  BY <2>1, <2>2, <2>4, <2>5 DEF LocalInv
<1>8. Exclusive'
  <2> SUFFICES ASSUME NEW f \in Env, NEW x \in VA, pt'[f][x].w,
                      NEW d \in Env \ {f}, NEW u \in VA, pt'[d][u].p = pt'[f][x].p
               PROVE  SharedInFork(f, x, d, u)' \/ SharedInFork(d, u, f, x)'
    BY DEF Exclusive
  <2>1. \A g \in Env \ {e}, y \in VA : pt[g][y].p # pt[e]["PFTEMP"].p
    BY <1>2, <1>3, PrivatePage DEF Slots
  <2>2. pt'[f][x] = pt[f][x] /\ pt'[d][u] = pt[d][u]
    BY <1>4, <2>1
  <2>3. SharedInFork(f, x, d, u) \/ SharedInFork(d, u, f, x)
    BY <2>2 DEF IInv, Exclusive
  <2>4. QED  BY <1>0, <2>3 DEF SharedInFork, here, locals
<1>9. Stable(e)
  <2> SUFFICES ASSUME NEW v \in Writable PROVE mem'[frame(e, v)'] = mem[frame(e, v)]
    BY DEF Stable
  <2>1. v \in Area /\ v \in VA /\ frame(e, v)' = pt'[e][v].p
    BY <1>5, Areas DEF frame, at
  <2>2. CASE v = a
    <3>1. frame(e, v) = pt[e]["PFTEMP"].p
      BY <1>1, <1>2, <2>2 DEF frame, at
    <3>2. QED  BY <1>3, <1>4, <2>1, <2>2, <3>1
  <2>3. CASE v # a
    <3>1. frame(e, v) = pt[e][v].p
      BY <1>1, <2>3 DEF frame
    <3>2. QED  BY <1>3, <1>4, <2>1, <2>3, <3>1
  <2>4. QED  BY <2>2, <2>3
<1>10. QED  BY <1>0, <1>2, <1>5, <1>6, <1>7, <1>8, <1>9, FaultActor

LEMMA PgfaultUnmapTemp ==
  ASSUME IInv, NEW e \in Env, pgfault_unmap_temp(e), UNCHANGED forks
  PROVE  IInv' /\ SameImages
<1>0. at(e, "unmap_temp") /\ then(e, "ret") /\ UNCHANGED <<locals, forks>>
  BY DEF pgfault_unmap_temp
<1>1. PICK a \in Writable : a = top(e).va
  BY <1>0, AtFacts
<1>2. /\ ForkType /\ utf[e] # <<>> /\ Born(e) /\ LocalInv(e) /\ FrameInv(e) /\ handler[e]
      /\ top(e).step = "unmap_temp" /\ a \in Area /\ a \in VA /\ "PFTEMP" \in VA \ Area /\ "UXSTACK" \in VA \ Area
      /\ pc[e] \notin Slots \cup {"dup_self", "stk_unmap"}
  BY <1>0, <1>1, AtFacts, Areas
<1>3. pt[e][a].w /\ \A v \in Area : pt[e][v].p # NoPage
  BY <1>1, <1>2 DEF FrameInv, at, LocalInv, SpaceInv
<1>4. /\ pt' \in [Env -> [VA -> Entry]] /\ mem' \in [Page -> Val]
      /\ pt'[e]["PFTEMP"] = Absent
      /\ \A d \in Env, u \in VA : d # e \/ u # "PFTEMP" => pt'[d][u] = pt[d][u]
      /\ \A d \in Env, u \in VA : pt'[d][u].p # NoPage => mem'[pt'[d][u].p] = mem[pt'[d][u].p]
      /\ \A d \in Env \ {e} : pt'[d] = pt[d]
  BY <1>0, <1>1, <1>2, UnmapFacts DEF pgfault_unmap_temp
<1>5. /\ ForkType' /\ utf'[e] # <<>> /\ top(e)'.va = a /\ top(e)'.step = "ret"
      /\ \A d \in Env \ {e} : utf'[d] = utf[d]
      /\ Len(utf'[e]) = 2 => /\ utf'[e][1].step = "ret" /\ utf'[e][1].va # "stack"
                             /\ utf'[e][1].va \in Writable /\ utf'[e][1].va # a
                             /\ pt[e][utf'[e][1].va].w /\ utf'[e][2].va = "stack"
      /\ Born(e)' /\ handler'[e] /\ pc'[e] \notin Slots \cup {"dup_self", "stk_unmap"}
  BY <1>0, <1>1, <1>4, PgfaultFacts DEF FaultSteps
<1>6. \A d \in Env \ {e} : Bystander(d)
  BY <1>0, <1>4, <1>5 DEF Bystander, Untouched, Kept, locals
<1>7. LocalInv(e)'
  <2>1. EntryInv(e)'
    <3>1. \A v \in VA : pt'[e][v] = pt[e][v] \/ pt'[e][v] = Absent
      BY <1>4
    <3>2. QED  BY <1>0, <1>2, <3>1, Areas DEF LocalInv, EntryInv, locals, Slots, Absent
  <2>2. SpaceInv(e)'
    BY <1>0, <1>2, <1>3, <1>4, <1>5, Areas DEF LocalInv, SpaceInv, locals, Born, at, Absent
  <2>3. FrameInv(e)'
    BY <1>2, <1>3, <1>4, <1>5 DEF FrameInv, Absent
  <2>4. FaultInv(e)'
    BY <1>4, <1>5, <2>3, Areas DEF FaultInv
  <2>5. HandlerInv(e)'
    BY <1>0, <1>2, <1>4, <1>5 DEF LocalInv, HandlerInv, locals, Born
  <2>6. QED  BY <2>1, <2>2, <2>4, <2>5 DEF LocalInv
<1>8. Exclusive'
  BY <1>0, <1>4, ExclusiveKept DEF locals
<1>9. Stable(e)
  <2> SUFFICES ASSUME NEW v \in Writable PROVE mem'[frame(e, v)'] = mem[frame(e, v)]
    BY DEF Stable
  <2>1. v \in Area /\ v \in VA /\ frame(e, v) = pt[e][v].p /\ frame(e, v)' = pt'[e][v].p
    BY <1>2, <1>5, Areas DEF frame, at
  <2>2. QED  BY <1>2, <1>3, <1>4, <2>1
<1>10. QED  BY <1>0, <1>2, <1>5, <1>6, <1>7, <1>8, <1>9, FaultActor

LEMMA PfentryRet ==
  ASSUME IInv, NEW e \in Env, pfentry_ret(e), UNCHANGED forks
  PROVE  /\ IInv' /\ SameImages
         /\ pt' = pt /\ pt[e][top(e).va].w
<1>0. at(e, "ret")
  BY DEF pfentry_ret
<1>1. /\ ForkType /\ utf[e] # <<>> /\ Born(e) /\ LocalInv(e) /\ FrameInv(e) /\ handler[e]
      /\ top(e).step = "ret" /\ top(e).va \in Writable /\ pt[e][top(e).va].w
      /\ pc[e] \notin Slots \cup {"dup_self", "stk_unmap"}
  BY <1>0, AtFacts DEF FrameInv
<1>2. ASSUME Len(utf[e]) = 1, ~pt[e]["stack"].w, page_fault_handler(e, "stack") PROVE IInv' /\ SameImages /\ pt' = pt
  <2>1. "stack" \in Writable
    BY Areas
  <2>2. IInv' /\ SameImages
    BY <1>0, <1>1, <1>2, <2>1, EnterFault
  <2>3. upcall[e] /\ pt[e]["UXSTACK"].w
    BY <1>1 DEF LocalInv, HandlerInv
  <2>4. QED  BY <1>1, <1>2, <2>2, <2>3 DEF page_fault_handler
<1>3. ASSUME utf' = [utf EXCEPT ![e] = SubSeq(@, 1, Len(@) - 1)], UNCHANGED <<pt, mem, locals>>
      PROVE  IInv' /\ SameImages
  <2>1. /\ utf' \in [Env -> Seq(Frames)]
        /\ Len(utf'[e]) = Len(utf[e]) - 1 /\ (utf'[e] = <<>> <=> Len(utf[e]) = 1)
        /\ Len(utf[e]) = 2 => utf'[e][Len(utf'[e])] = utf[e][1]
        /\ \A d \in Env \ {e} : utf'[d] = utf[d]
    BY <1>1, <1>3, ReturnStep
  <2>2. Len(utf[e]) = 1 \/ Len(utf[e]) = 2
    <3>1. Len(utf[e]) \in 0..2 /\ Len(utf[e]) # 0
      BY <1>1, Innermost
    <3>2. QED  BY <3>1
  <2>3. Len(utf'[e]) <= 2 /\ Len(utf'[e]) # 2 /\ (utf'[e] # <<>> => Len(utf[e]) = 2)
    <3>1. CASE Len(utf[e]) = 1
      BY <2>1, <3>1
    <3>2. CASE Len(utf[e]) = 2
      BY <2>1, <3>2
    <3>3. QED  BY <2>2, <3>1, <3>2
  <2>4. ForkType'
    BY <1>1, <1>3, <2>1, <2>3, FaultType DEF ForkType, TypeOK
  <2>5. \A d \in Env \ {e} : Bystander(d)
    BY <1>3, <2>1 DEF Bystander, Untouched, Kept, locals
  <2>6. utf'[e] # <<>> => top(e)'.step = "ret" /\ top(e)'.va \in Writable /\ pt[e][top(e)'.va].w
    <3> SUFFICES ASSUME utf'[e] # <<>> PROVE top(e)'.step = "ret" /\ top(e)'.va \in Writable /\ pt[e][top(e)'.va].w
      OBVIOUS
    <3>1. top(e)' = utf[e][1] /\ Len(utf[e]) = 2
      BY <2>1, <2>3 DEF top
    <3>2. QED  BY <1>1, <3>1 DEF LocalInv, FaultInv
  <2>7. /\ pt[e]["PFTEMP"].p = NoPage /\ \A v \in Area : pt[e][v].p # NoPage
    BY <1>1 DEF LocalInv, SpaceInv, at
  <2>8. LocalInv(e)'
    <3>1. EntryInv(e)' /\ HandlerInv(e)'
      BY <1>1, <1>3 DEF LocalInv, EntryInv, HandlerInv, locals, Born
    <3>2. SpaceInv(e)'
      BY <1>1, <1>3, <2>7 DEF LocalInv, SpaceInv, locals, Born
    <3>3. utf'[e] # <<>> => FrameInv(e)'
      BY <1>3, <2>6 DEF FrameInv
    <3>4. FaultInv(e)'
      BY <1>1, <1>3, <2>3, <3>3 DEF FaultInv, locals
    <3>5. QED  BY <3>1, <3>2, <3>4 DEF LocalInv
  <2>9. Exclusive'
    BY <1>3, ExclusiveKept DEF locals
  <2>10. Stable(e)
    <3>1. ~at(e, "map") /\ ~at(e, "map")'
      BY <1>1, <2>6 DEF at
    <3>2. QED  BY <1>3, <3>1 DEF Stable, frame
  <2>11. QED  BY <1>1, <1>3, <2>4, <2>5, <2>8, <2>9, <2>10, FaultActor
<1>4. QED  BY <1>1, <1>2, <1>3 DEF pfentry_ret

-----------------------------------------------------------------------------
\* The steps of fork.

LEMMA WriteFault ==
  ASSUME IInv, NEW e \in Env, write_fault(e), UNCHANGED forks
  PROVE  IInv' /\ SameImages
<1>1. PICK v \in needs(e) : utf[e] = <<>> /\ ~pt[e][v].w /\ page_fault_handler(e, v)
  BY DEF write_fault
<1>2. v \in Writable /\ Born(e) /\ (pc[e] \in {"dup_self", "stk_unmap"} => v = "stack")
  BY Areas DEF needs, Born, ForkSteps, Slots
<1>3. pc[e] \notin {"dup_self", "stk_unmap"}
  BY <1>1, <1>2 DEF IInv, LocalInv, HandlerInv
<1>4. utf[e] = <<>> \/ (Len(utf[e]) = 1 /\ at(e, "ret") /\ v = "stack")
  BY <1>1
<1>5. ~pt[e][v].w /\ page_fault_handler(e, v)
  BY <1>1
<1>6. QED  BY <1>2, <1>3, <1>4, <1>5, EnterFault

LEMMA NoMem ==
  ASSUME IInv, NEW e \in Env, no_mem(e), UNCHANGED forks
  PROVE  IInv' /\ SameImages
<1>1. pc[e] \in {"set_handler", "exofork", "dup_child", "stk_alloc", "stk_map"} /\ panic(e, "panic")
  BY DEF no_mem, ready
<1>2. QED  BY <1>1, PanicStep DEF Born, Slots

\* The child fork is working on.
LEMMA Embryo ==
  ASSUME IInv, NEW e \in Env, pc[e] \in Busy
  PROVE  /\ child[e] \in Env \ {e} /\ pc[child[e]] = "embryo" /\ LocalInv(child[e]) /\ ~Born(child[e])
         /\ utf[child[e]] = <<>> /\ child[child[e]] = NoEnv /\ ~handler[child[e]]
         /\ pt[child[e]]["PFTEMP"].p = NoPage /\ \A d \in Env \ {e} : child[d] # child[e]
<1>1. child[e] \in Env /\ pc[child[e]] = "embryo" /\ child[e] # e /\ child[e] # NoEnv
  BY DEF IInv, ForkType, TypeOK, ChildInv, Busy, Loop, StackSteps
<1>2. LocalInv(child[e]) /\ ~Born(child[e])
  BY <1>1 DEF IInv, Born, Slots
<1>3. utf[child[e]] = <<>>
  BY <1>1, <1>2 DEF LocalInv, FaultInv, Slots
<1>4. ~handler[child[e]] /\ pt[child[e]]["PFTEMP"].p = NoPage
  BY <1>1, <1>2, <1>3 DEF LocalInv, HandlerInv, SpaceInv
<1>5. child[child[e]] = NoEnv
  BY <1>1 DEF IInv, ChildInv, Busy, Loop, StackSteps
<1>6. \A d \in Env \ {e} : child[d] # child[e]
  BY <1>1 DEF IInv, Parents
<1>7. QED  BY <1>1, <1>2, <1>3, <1>4, <1>5, <1>6

LEMMA Exofork ==
  ASSUME IInv, NEW e \in Env, sys_exofork(e), UNCHANGED forks
  PROVE  IInv' /\ SameImages
<1>1. PICK c \in Env :
        /\ ready(e, "exofork") /\ pc[c] \in {"free", "killed"}
        /\ pc' = [pc EXCEPT ![e] = "dup_read", ![c] = "embryo"]
        /\ child' = [child EXCEPT ![e] = c]
        /\ pn' = [pn EXCEPT ![e] = 1]
        /\ UNCHANGED <<pt, mem, cow, handler, upcall, utf>>
  BY DEF sys_exofork
<1>2. /\ pc[e] = "exofork" /\ utf[e] = <<>> /\ Born(e) /\ LocalInv(e) /\ ChildInv(e) /\ ForkType
      /\ \A v \in Area : pt[e][v].p # NoPage
  BY <1>1, ReadyFacts DEF IInv, Slots
<1>3. pc[c] = "free" /\ c # e /\ LocalInv(c) /\ ChildInv(c)
  BY <1>1, <1>2 DEF IInv, LocalInv, HandlerInv
<1>4. utf[c] = <<>> /\ child[c] = NoEnv /\ ~handler[c] /\ ~Born(c)
  BY <1>3 DEF LocalInv, FaultInv, ChildInv, HandlerInv, Slots, Busy, Loop, StackSteps, Born
<1>5. /\ pc'[e] = "dup_read" /\ pc'[c] = "embryo" /\ child'[e] = c /\ child'[c] = NoEnv /\ pn'[e] = 1
      /\ \A d \in Env \ {e, c} : pc'[d] = pc[d] /\ child'[d] = child[d] /\ pn'[d] = pn[d]
  BY <1>1, <1>2, <1>3, <1>4 DEF ForkType, TypeOK
<1>6. ForkType'
  <2>1. pc' \in [Env -> Places]
    BY <1>1, <1>2 DEF ForkType, TypeOK, Places, ForkSteps, Slots
  <2>2. child' \in [Env -> Env \cup {NoEnv}]
    BY <1>1, <1>2 DEF ForkType, TypeOK
  <2>3. pn' \in [Env -> 0..Len(Layout)]
    BY <1>1, <1>2, SomeArea DEF ForkType, TypeOK
  <2>4. QED  BY <1>1, <1>2, <2>1, <2>2, <2>3 DEF ForkType, TypeOK
<1>7. \A d \in Env \ {e, c} : Bystander(d)
  BY <1>1, <1>5 DEF Bystander, Untouched, Kept
<1>8. \A d \in Env \ {e} : child[d] # c
  BY <1>3, EnvAssumption DEF IInv, ChildInv
<1>9. LocalInv(e)'
  BY <1>1, <1>2, <1>5 DEF LocalInv, EntryInv, SpaceInv, FaultInv, HandlerInv, Born, Slots
<1>10. LocalInv(c)'
  BY <1>1, <1>3, <1>4, <1>5, Areas DEF LocalInv, EntryInv, SpaceInv, FaultInv, HandlerInv, Born, Slots, Absent
<1>11. ChildInv(e)' /\ CopyInv(e)'
  <2>1. Done(e)' = {}
    BY <1>5 DEF Done, StackSteps
  <2>2. CopyInv(e)'
    BY <2>1 DEF CopyInv
  <2>3. QED  BY <1>3, <1>5, <2>2, SomeArea, EnvAssumption DEF ChildInv, Busy, Loop, StackSteps
<1>12. Exclusive'
  BY <1>1, <1>2, <1>3, <1>5, ExclusiveKept
<1>13. IInv'
  BY <1>2, <1>3, <1>5, <1>6, <1>7, <1>8, <1>9, <1>10, <1>11, <1>12, ParentAndChild
<1>14. Stable(e) /\ Born(e)' /\ ~Born(c)'
  BY <1>1, <1>5 DEF Stable, frame, at, top, Born, Slots
<1>15. QED  BY <1>2, <1>4, <1>7, <1>13, <1>14, BystanderStable DEF SameImages, Bystander, Untouched, Born

LEMMA DupRead ==
  ASSUME IInv, NEW e \in Env, dup_read(e), UNCHANGED forks
  PROVE  IInv' /\ SameImages
<1>0. /\ pc[e] = "dup_read" /\ utf[e] = <<>> /\ Born(e) /\ LocalInv(e) /\ ChildInv(e) /\ CopyInv(e) /\ ForkType
      /\ \A v \in Area : pt[e][v].p # NoPage /\ frame(e, v) = pt[e][v].p
      /\ \A v \in Area : pt[e][v].w \/ pt[e][v].cow <=> v \in Writable
  BY ReadyFacts DEF IInv, Slots, dup_read
<1>1. here(e) \in Area /\ pn[e] \in 1..Len(Layout)
  BY <1>0, Areas DEF ChildInv, Loop, here
<1>2. /\ cow' = [cow EXCEPT ![e] = pt[e][here(e)].w \/ pt[e][here(e)].cow]
      /\ pc' = [pc EXCEPT ![e] = "dup_child"]
      /\ UNCHANGED <<pn, pt, mem, child, handler, upcall, utf>>
  BY <1>0, <1>1 DEF dup_read, goto
<1>3. /\ pc'[e] = "dup_child" /\ (cow'[e] <=> here(e) \in Writable)
      /\ \A d \in Env \ {e} : pc'[d] = pc[d] /\ cow'[d] = cow[d]
  BY <1>0, <1>1, <1>2 DEF ForkType, TypeOK
<1>4. ForkType'
  <2>1. (pt[e][here(e)].w \/ pt[e][here(e)].cow) \in BOOLEAN
    OBVIOUS
  <2>2. QED  BY <1>0, <1>2, <2>1 DEF ForkType, TypeOK, Places, ForkSteps
<1>5. HandlerInv(e)'
  BY <1>0, <1>2, <1>3 DEF LocalInv, HandlerInv, Born, Slots
<1>6. child[e] # e /\ child[e] \in Env
  BY <1>0, Embryo DEF Busy, Loop
<1>7. ChildInv(e)'
  BY <1>0, <1>1, <1>2, <1>3, <1>6 DEF ChildInv, here, Busy, Loop, StackSteps
<1>8. CopyInv(e)'
  <2>1. Done(e)' = Done(e)
    BY <1>0, <1>2, <1>3 DEF Done, Loop, StackSteps
  <2>2. QED  BY <1>0, <1>2, <2>1 DEF CopyInv, frame, at, top
<1>9. QED  BY <1>0, <1>2, <1>3, <1>4, <1>5, <1>7, <1>8, ProgramStep DEF Slots

LEMMA NextPage ==
  ASSUME ForkType, NEW e \in Env, pn[e] \in 1..Len(Layout), pc[e] \in Loop, next_page(e)
  PROVE  /\ pc' \in [Env -> Places] /\ pn' \in [Env -> 0..Len(Layout)] /\ cow' \in [Env -> BOOLEAN]
         /\ pc'[e] \in {"dup_read", "stk_alloc"} /\ (pc'[e] = "dup_read" => pn'[e] \in 1..Len(Layout))
         /\ \A d \in Env \ {e} : pc'[d] = pc[d] /\ pn'[d] = pn[d] /\ cow'[d] = cow[d]
         /\ \A v \in Done(e)' : v \in Area /\ (v # here(e) => v \in Done(e))
<1>1. Len(Layout) \in Nat
  BY SomeArea
<1>2. CASE pn[e] = Len(Layout)
  <2>1. pc' = [pc EXCEPT ![e] = "stk_alloc"] /\ pn' = [pn EXCEPT ![e] = 0] /\ cow' = [cow EXCEPT ![e] = FALSE]
    BY <1>2 DEF next_page, goto
  <2>2. ASSUME NEW v \in Area, v # here(e) PROVE v \in Done(e)
    <3>1. PICK i \in 1..Len(Layout) : v = Layout[i]
      BY DEF Area
    <3>2. i # pn[e]
      BY <2>2, <3>1 DEF here
    <3>3. i \in 1..pn[e] /\ i < pn[e]
      BY <1>1, <1>2, <3>1, <3>2
    <3>4. QED  BY <2>2, <3>1, <3>3 DEF Done
  <2>3. pc' \in [Env -> Places] /\ cow' \in [Env -> BOOLEAN] /\ pn' \in [Env -> 0..Len(Layout)]
    BY <1>1, <2>1 DEF ForkType, TypeOK, Places, ForkSteps
  <2>4. pc'[e] = "stk_alloc" /\ \A d \in Env \ {e} : pc'[d] = pc[d] /\ pn'[d] = pn[d] /\ cow'[d] = cow[d]
    BY <2>1 DEF ForkType, TypeOK
  <2>5. Done(e)' \subseteq Area
    BY DEF Done
  <2>6. QED  BY <2>2, <2>3, <2>4, <2>5
<1>3. CASE pn[e] # Len(Layout)
  <2>1. /\ pc' = [pc EXCEPT ![e] = "dup_read"] /\ pn' = [pn EXCEPT ![e] = pn[e] + 1]
        /\ cow' = [cow EXCEPT ![e] = FALSE]
    BY <1>3 DEF next_page, goto
  <2>2. pn[e] + 1 \in 1..Len(Layout)
    BY <1>1, <1>3
  <2>3. pc'[e] = "dup_read" /\ pn'[e] = pn[e] + 1
    BY <2>1 DEF ForkType, TypeOK
  <2>4. ASSUME NEW v \in Done(e)', v # here(e) PROVE v \in Done(e)
    <3>1. PICK i \in 1..(pn[e] + 1) : v = Layout[i] /\ i < pn[e] + 1
      BY <2>3 DEF Done, StackSteps
    <3>2. i # pn[e]
      BY <2>4, <3>1 DEF here
    <3>3. i \in 1..pn[e] /\ i < pn[e]
      BY <1>1, <3>1, <3>2
    <3>4. QED  BY <3>1, <3>3 DEF Done
  <2>5. Done(e)' \subseteq Area
    BY DEF Done
  <2>6. pc' \in [Env -> Places] /\ cow' \in [Env -> BOOLEAN] /\ pn' \in [Env -> 0..Len(Layout)]
    BY <1>1, <2>1, <2>2 DEF ForkType, TypeOK, Places, ForkSteps
  <2>7. \A d \in Env \ {e} : pc'[d] = pc[d] /\ pn'[d] = pn[d] /\ cow'[d] = cow[d]
    BY <2>1 DEF ForkType, TypeOK
  <2>8. QED  BY <2>2, <2>3, <2>4, <2>5, <2>6, <2>7
<1>4. QED  BY <1>2, <1>3

\* The first half of duppage: the child's mapping.
LEMMA DupChild ==
  ASSUME IInv, NEW e \in Env, ready(e, "dup_child"),
         sys_page_map(e, here(e), child[e], here(e), FALSE, cow[e]),
         IF cow[e] THEN goto(e, "dup_self") /\ UNCHANGED <<pn, cow>> ELSE next_page(e),
         UNCHANGED <<child, handler, upcall, utf, forks>>
  PROVE  IInv' /\ SameImages
<1>0. /\ pc[e] = "dup_child" /\ utf[e] = <<>> /\ Born(e) /\ LocalInv(e) /\ ChildInv(e) /\ CopyInv(e) /\ ForkType
      /\ \A v \in Area : pt[e][v].p # NoPage /\ frame(e, v) = pt[e][v].p
      /\ \A v \in Area : pt[e][v].w \/ pt[e][v].cow <=> v \in Writable
  BY ReadyFacts DEF IInv, Slots
<1>1. PICK c \in Env \ {e} :
        /\ c = child[e] /\ pc[c] = "embryo" /\ LocalInv(c) /\ ~Born(c) /\ utf[c] = <<>> /\ child[c] = NoEnv
        /\ ~handler[c] /\ pt[c]["PFTEMP"].p = NoPage /\ \A d \in Env \ {e} : child[d] # c
  BY <1>0, Embryo DEF Busy, Loop
<1>2. PICK h \in Area : h = here(e) /\ pn[e] \in 1..Len(Layout) /\ h \in VA /\ (cow[e] <=> h \in Writable)
  BY <1>0, Areas DEF ChildInv, Loop, here
<1>3. pt[e]["stack"].w /\ pt[e]["PFTEMP"].p = NoPage /\ "PFTEMP" \in VA \ Area /\ "UXSTACK" \in VA \ Area
  <2>1. needs(e) = {"stack"}
    BY <1>0 DEF needs, ForkSteps
  <2>2. QED  BY <1>0, <2>1, Areas DEF ready, LocalInv, SpaceInv
<1>4. /\ pt' \in [Env -> [VA -> Entry]] /\ mem' \in [Page -> Val]
      /\ pt'[c][h].p = pt[e][h].p /\ ~pt'[c][h].w /\ (pt'[c][h].cow <=> h \in Writable)
      /\ \A f \in Env, x \in VA : f # c \/ x # h => pt'[f][x] = pt[f][x]
      /\ \A f \in Env, x \in VA : pt'[f][x].p # NoPage => mem'[pt'[f][x].p] = mem[pt'[f][x].p]
      /\ \A f \in Env \ {c} : pt'[f] = pt[f]
  <2> DEFINE x == [p |-> pt[e][h].p, w |-> FALSE, cow |-> cow[e]]
  <2>1. maps([pt EXCEPT ![c][h] = x])
    BY <1>1, <1>2 DEF sys_page_map
  <2>2. x \in Entry /\ x.p = pt[e][h].p /\ ~x.w /\ (x.cow <=> h \in Writable)
    <3>1. pt[e][h] \in Entry /\ cow[e] \in BOOLEAN
      BY <1>0, <1>2 DEF ForkType, TypeOK
    <3>2. QED  BY <1>2, <3>1 DEF Entry
  <2> HIDE DEF x
  <2>3. QED  BY <1>0, <1>2, <2>1, <2>2, SetEntryFacts
<1>5. /\ pc' \in [Env -> Places] /\ pn' \in [Env -> 0..Len(Layout)] /\ cow' \in [Env -> BOOLEAN]
      /\ \A d \in Env \ {e} : pc'[d] = pc[d] /\ pn'[d] = pn[d] /\ cow'[d] = cow[d]
      /\ pc'[e] \in {"dup_read", "stk_alloc", "dup_self"}
      /\ (pc'[e] \in {"dup_read", "dup_self"} => pn'[e] \in 1..Len(Layout))
      /\ (h \in Writable => pc'[e] = "dup_self" /\ pn'[e] = pn[e])
      /\ (pc'[e] = "dup_self" => h \in Writable /\ pn'[e] = pn[e])
      /\ \A v \in Done(e)' : v \in Area /\ (v # h => v \in Done(e))
  <2>1. CASE cow[e]
    <3>1. pc' = [pc EXCEPT ![e] = "dup_self"] /\ UNCHANGED <<pn, cow>> /\ h \in Writable
      BY <1>2, <2>1 DEF goto
    <3>2. pc'[e] = "dup_self" /\ pn'[e] = pn[e]
      BY <1>0, <3>1 DEF ForkType, TypeOK
    <3>3. ASSUME NEW v \in Done(e)', v # h PROVE v \in Done(e)
      <4>1. PICK i \in 1..pn[e] : v = Layout[i]
        BY <3>2 DEF Done, StackSteps
      <4>2. i # pn[e]
        BY <1>2, <3>3, <4>1 DEF here
      <4>3. i < pn[e]
        BY <1>2, <4>1, <4>2
      <4>4. v \in Area
        BY <3>3 DEF Done
      <4>5. QED  BY <1>0, <4>1, <4>3, <4>4 DEF Done, Loop
    <3>4. Done(e)' \subseteq Area
      BY DEF Done
    <3>5. pc' \in [Env -> Places] /\ \A d \in Env \ {e} : pc'[d] = pc[d]
      BY <1>0, <3>1 DEF ForkType, TypeOK, Places, ForkSteps
    <3>6. QED  BY <1>0, <1>2, <3>1, <3>2, <3>3, <3>4, <3>5 DEF ForkType, TypeOK
  <2>2. CASE ~cow[e]
    BY <1>0, <1>2, <2>2, NextPage DEF Loop
  <2>3. QED  BY <2>1, <2>2
<1>6. ForkType'
  BY <1>0, <1>4, <1>5 DEF ForkType, TypeOK
<1>7. pc'[c] = "embryo" /\ child'[e] = c /\ child'[c] = NoEnv
  BY <1>1, <1>5
<1>8. \A d \in Env \ {e, c} : Bystander(d)
  BY <1>4, <1>5 DEF Bystander, Untouched, Kept
<1>9. LocalInv(e)'
  BY <1>0, <1>3, <1>4, <1>5 DEF LocalInv, EntryInv, SpaceInv, FaultInv, HandlerInv, Born, Slots
<1>10. LocalInv(c)'
  <2>1. EntryInv(c)'
    <3>1. pt[e][h].p # NoPage /\ pt[e][h].p[2] = h
      BY <1>0 DEF LocalInv, EntryInv
    <3>2. \A x \in VA : x # h => pt'[c][x] = pt[c][x]
      BY <1>4
    <3>3. ~pt'[c][h].w /\ pt'[c][h].p = pt[e][h].p /\ (pt'[c][h].cow <=> h \in Writable)
      BY <1>4
    <3>4. \A x \in Area : ~pt'[c][x].w
      BY <1>1, <3>2, <3>3, Areas DEF LocalInv, EntryInv
    <3>5. QED  BY <1>1, <1>7, <3>1, <3>2, <3>3, <3>4, Areas DEF LocalInv, EntryInv
  <2>2. SpaceInv(c)' /\ FaultInv(c)' /\ HandlerInv(c)'
    BY <1>1, <1>3, <1>4, <1>7 DEF LocalInv, SpaceInv, FaultInv, HandlerInv, Born, Slots
  <2>3. QED  BY <2>1, <2>2 DEF LocalInv
<1>11. ChildInv(e)'
  <2>1. here(e)' = Layout[pn'[e]]
    BY DEF here
  <2>2. pc'[e] = "dup_self" => here(e)' \in Writable
    BY <1>2, <1>5, <2>1 DEF here
  <2>3. QED  BY <1>1, <1>5, <1>7, <2>2 DEF ChildInv, Busy, Loop, StackSteps
<1>12. CopyInv(e)'
  <2> SUFFICES ASSUME NEW v \in Done(e)' PROVE CopyInv(e)!(v)'
    BY DEF CopyInv
  <2>1. v \in Area /\ v \in VA /\ frame(e, v) = pt[e][v].p /\ frame(e, v)' = pt[e][v].p /\ pt[e][v].p # NoPage
        /\ mem'[pt[e][v].p] = mem[pt[e][v].p]
    BY <1>0, <1>4, <1>5, Areas DEF frame, at
  <2>2. CASE v = h
    BY <1>1, <1>2, <1>4, <1>7, <2>1, <2>2
  <2>3. CASE v # h
    <3>1. v \in Done(e) /\ pt'[c][v] = pt[c][v]
      BY <1>4, <1>5, <2>1, <2>3
    <3>2. pt[c][v].p # NoPage /\ (v \in Writable => pt[c][v].cow /\ mem[pt[c][v].p] = mem[frame(e, v)])
      BY <1>0, <1>1, <3>1 DEF CopyInv
    <3>3. mem'[pt[c][v].p] = mem[pt[c][v].p]
      BY <1>4, <2>1, <3>1, <3>2
    <3>4. QED  BY <1>7, <2>1, <3>1, <3>2, <3>3
  <2>4. QED  BY <2>2, <2>3
<1>13. Exclusive'
  <2> SUFFICES ASSUME NEW f \in Env, NEW x \in VA, pt'[f][x].w,
                      NEW d \in Env \ {f}, NEW u \in VA, pt'[d][u].p = pt'[f][x].p
               PROVE  SharedInFork(f, x, d, u)' \/ SharedInFork(d, u, f, x)'
    BY DEF Exclusive
  <2>1. pt'[f][x] = pt[f][x] /\ pt[f][x].w
    BY <1>4
  <2>2. CASE d # c \/ u # h
    <3>1. SharedInFork(f, x, d, u) \/ SharedInFork(d, u, f, x)
      BY <1>4, <2>1, <2>2 DEF IInv, Exclusive
    <3>2. QED  BY <1>0, <1>5, <3>1 DEF SharedInFork, here
  <2>3. CASE d = c /\ u = h
    <3>1. pt[f][x].p = pt[e][h].p
      BY <1>4, <2>1, <2>3
    <3>2. CASE f = e
      <4>1. x = h
        BY <1>0, <1>3, <2>1, <3>1, <3>2 DEF LocalInv, EntryInv, VA
      <4>2. h \in Writable
        BY <1>0, <2>1, <3>2, <4>1
      <4>3. here(e)' = h
        BY <1>2, <1>5, <4>2 DEF here
      <4>4. QED  BY <1>5, <1>7, <2>3, <3>2, <4>1, <4>2, <4>3 DEF SharedInFork
    <3>3. CASE f # e
      <4>1. SharedInFork(f, x, e, h) \/ SharedInFork(e, h, f, x)
        BY <1>2, <2>1, <3>1, <3>3 DEF IInv, Exclusive
      <4>2. child[f] = e
        BY <1>0, <4>1 DEF SharedInFork
      <4>3. pc[e] = "embryo"
        BY <4>2, EnvAssumption DEF IInv, ChildInv
      <4>4. QED  BY <1>0, <4>3
    <3>4. QED  BY <3>2, <3>3
  <2>4. QED  BY <2>2, <2>3
<1>14. IInv'
  BY <1>0, <1>1, <1>6, <1>7, <1>8, <1>9, <1>10, <1>11, <1>12, <1>13, ParentAndChild
<1>15. Stable(e) /\ Born(e)' /\ ~Born(c)'
  <2>1. Born(e)' /\ ~Born(c)'
    BY <1>5, <1>7 DEF Born, Slots
  <2>2. ASSUME NEW v \in Writable PROVE mem'[frame(e, v)'] = mem[frame(e, v)]
    BY <1>0, <1>4, Areas DEF frame, at
  <2>3. QED  BY <2>1, <2>2 DEF Stable
<1>16. QED  BY <1>0, <1>1, <1>8, <1>14, <1>15, BystanderStable DEF SameImages, Bystander, Untouched, Born

\* The second half of duppage: our own mapping.
LEMMA DupSelf ==
  ASSUME IInv, NEW e \in Env, ready(e, "dup_self"), next_page(e),
         sys_page_map(e, here(e), e, here(e), FALSE, TRUE), UNCHANGED <<child, handler, upcall, utf, forks>>
  PROVE  IInv' /\ SameImages
<1>0. /\ pc[e] = "dup_self" /\ utf[e] = <<>> /\ Born(e) /\ LocalInv(e) /\ ChildInv(e) /\ CopyInv(e) /\ ForkType
      /\ \A v \in Area : pt[e][v].p # NoPage /\ frame(e, v) = pt[e][v].p
  BY ReadyFacts DEF IInv, Slots
<1>1. PICK c \in Env \ {e} :
        /\ c = child[e] /\ pc[c] = "embryo" /\ LocalInv(c)
  BY <1>0, Embryo DEF Busy, Loop
<1>2. PICK h \in Writable : h = here(e) /\ pn[e] \in 1..Len(Layout) /\ h \in Area /\ h \in VA
  BY <1>0, Areas DEF ChildInv, Loop, here
<1>3. pt[e]["PFTEMP"].p = NoPage /\ handler[e] /\ "PFTEMP" \in VA \ Area /\ "UXSTACK" \in VA \ Area
  BY <1>0, Areas DEF LocalInv, SpaceInv, HandlerInv
<1>4. /\ pt' \in [Env -> [VA -> Entry]] /\ mem' \in [Page -> Val]
      /\ pt'[e][h].p = pt[e][h].p /\ ~pt'[e][h].w /\ pt'[e][h].cow
      /\ \A f \in Env, x \in VA : f # e \/ x # h => pt'[f][x] = pt[f][x]
      /\ \A f \in Env, x \in VA : pt'[f][x].p # NoPage => mem'[pt'[f][x].p] = mem[pt'[f][x].p]
      /\ \A f \in Env \ {e} : pt'[f] = pt[f]
  <2> DEFINE x == [p |-> pt[e][h].p, w |-> FALSE, cow |-> TRUE]
  <2>1. maps([pt EXCEPT ![e][h] = x])
    BY <1>2 DEF sys_page_map
  <2>2. x \in Entry /\ x.p = pt[e][h].p /\ ~x.w /\ x.cow
    <3>1. pt[e][h] \in Entry
      BY <1>0, <1>2 DEF ForkType, TypeOK
    <3>2. QED  BY <3>1 DEF Entry
  <2> HIDE DEF x
  <2>3. QED  BY <1>0, <1>2, <2>1, <2>2, SetEntryFacts
<1>5. /\ pc' \in [Env -> Places] /\ pn' \in [Env -> 0..Len(Layout)] /\ cow' \in [Env -> BOOLEAN]
      /\ pc'[e] \in {"dup_read", "stk_alloc"} /\ (pc'[e] = "dup_read" => pn'[e] \in 1..Len(Layout))
      /\ \A d \in Env \ {e} : pc'[d] = pc[d] /\ pn'[d] = pn[d] /\ cow'[d] = cow[d]
      /\ \A v \in Done(e)' : v \in Area /\ v \in Done(e)
  <2>1. h \in Done(e)
    BY <1>0, <1>2 DEF Done, Loop, here
  <2>2. QED  BY <1>0, <1>2, <2>1, NextPage DEF Loop
<1>6. ForkType'
  BY <1>0, <1>4, <1>5 DEF ForkType, TypeOK
<1>7. \A d \in Env \ {e} : Bystander(d)
  BY <1>4, <1>5 DEF Bystander, Untouched, Kept
<1>8. \A x \in VA : x # h => pt'[e][x] = pt[e][x]
  BY <1>4
<1>9. LocalInv(e)'
  <2>0. pt[e][h].p # NoPage /\ pt[e][h].p[2] = h /\ Area \subseteq VA
    BY <1>0, <1>2, Areas DEF LocalInv, EntryInv
  <2>1. EntryInv(e)'
    <3>1. \A v \in VA : pt'[e][v].w => pt'[e][v].p # NoPage
      BY <1>0, <1>4, <1>8 DEF LocalInv, EntryInv
    <3>2. \A v \in Area \cup {"UXSTACK"} : pt'[e][v].p # NoPage => pt'[e][v].p[2] = v
      BY <1>0, <1>3, <1>4, <1>8, <2>0 DEF LocalInv, EntryInv
    <3>3. \A v \in Area \ Writable : ~pt'[e][v].w /\ ~pt'[e][v].cow
      BY <1>0, <1>2, <1>8, <2>0 DEF LocalInv, EntryInv
    <3>4. QED  BY <1>5, <3>1, <3>2, <3>3 DEF EntryInv
  <2>2. SpaceInv(e)'
    <3>1. ASSUME NEW v \in Area PROVE pt'[e][v].p # NoPage /\ (v \in Writable => pt'[e][v].w \/ pt'[e][v].cow)
      BY <1>0, <1>4, <1>8, <2>0 DEF LocalInv, SpaceInv
    <3>2. pt'[e]["PFTEMP"].p = NoPage
      BY <1>2, <1>3, <1>8
    <3>3. QED  BY <3>1, <3>2 DEF SpaceInv
  <2>3. FaultInv(e)' /\ HandlerInv(e)'
    BY <1>0, <1>2, <1>3, <1>5, <1>8 DEF LocalInv, FaultInv, HandlerInv
  <2>4. QED  BY <2>1, <2>2, <2>3 DEF LocalInv
<1>10. ChildInv(e)'
  BY <1>0, <1>1, <1>5 DEF ChildInv, Busy, Loop, StackSteps
<1>11. ASSUME NEW v \in Area
       PROVE  /\ frame(e, v) = pt[e][v].p /\ frame(e, v)' = pt[e][v].p
              /\ mem'[pt[e][v].p] = mem[pt[e][v].p] /\ v \in VA
  <2>1. pt'[e][v].p = pt[e][v].p /\ v \in VA /\ pt[e][v].p # NoPage
    BY <1>0, <1>4, <1>8, Areas
  <2>2. QED  BY <1>0, <1>4, <2>1 DEF frame, at
<1>12. CopyInv(e)'
  <2> SUFFICES ASSUME NEW v \in Done(e)' PROVE CopyInv(e)!(v)'
    BY DEF CopyInv
  <2>1. v \in Area /\ v \in Done(e)
    BY <1>5
  <2>2. pt[c][v].p # NoPage /\ (v \in Writable => pt[c][v].cow /\ mem[pt[c][v].p] = mem[frame(e, v)])
    BY <1>0, <1>1, <2>1 DEF CopyInv
  <2>3. pt'[c][v] = pt[c][v] /\ mem'[pt[c][v].p] = mem[pt[c][v].p]
    BY <1>4, <1>11, <2>1, <2>2
  <2>4. QED  BY <1>1, <1>11, <2>1, <2>2, <2>3
<1>13. Exclusive'
  <2> SUFFICES ASSUME NEW f \in Env, NEW x \in VA, pt'[f][x].w,
                      NEW d \in Env \ {f}, NEW u \in VA, pt'[d][u].p = pt'[f][x].p
               PROVE  SharedInFork(f, x, d, u)' \/ SharedInFork(d, u, f, x)'
    BY DEF Exclusive
  <2>1. pt'[f][x] = pt[f][x] /\ pt[f][x].w /\ (f # e \/ x # h) /\ pt'[d][u].p = pt[d][u].p
    BY <1>4
  <2>2. SharedInFork(f, x, d, u) \/ SharedInFork(d, u, f, x)
    BY <2>1 DEF IInv, Exclusive
  <2>3. ~SharedInFork(e, x, d, u) \/ f # e
    BY <1>0, <1>2, <2>1 DEF SharedInFork
  <2>4. ~SharedInFork(d, u, f, x) \/ d # e
    BY <1>0, <1>1, <1>2, <2>1 DEF SharedInFork, LocalInv, EntryInv
  <2>5. QED  BY <1>5, <2>2, <2>3, <2>4 DEF SharedInFork, here
<1>14. IInv'
  BY <1>0, <1>6, <1>7, <1>9, <1>10, <1>12, <1>13, OneActor
<1>15. Stable(e) /\ Born(e)'
  BY <1>5, <1>11, Areas DEF Stable, Born, Slots
<1>16. QED  BY <1>0, <1>7, <1>14, <1>15, BystanderStable DEF SameImages, Bystander, Untouched, Born

LEMMA StkAlloc ==
  ASSUME IInv, NEW e \in Env, ready(e, "stk_alloc"), goto(e, "stk_map"),
         sys_page_alloc(child[e], "UXSTACK", "UXSTACK"), UNCHANGED <<pn, cow, child, handler, upcall, utf, forks>>
  PROVE  IInv' /\ SameImages
<1>0. /\ pc[e] = "stk_alloc" /\ utf[e] = <<>> /\ Born(e) /\ LocalInv(e) /\ ChildInv(e) /\ CopyInv(e) /\ ForkType
      /\ \A v \in Area : pt[e][v].p # NoPage /\ frame(e, v) = pt[e][v].p
  BY ReadyFacts DEF IInv, Slots
<1>1. PICK c \in Env \ {e} :
        /\ c = child[e] /\ pc[c] = "embryo" /\ LocalInv(c) /\ ~Born(c) /\ utf[c] = <<>> /\ child[c] = NoEnv
        /\ ~handler[c] /\ pt[c]["PFTEMP"].p = NoPage /\ \A d \in Env \ {e} : child[d] # c
  BY <1>0, Embryo DEF Busy, StackSteps
<1>2. "PFTEMP" \in VA \ Area /\ "UXSTACK" \in VA \ Area /\ Area \subseteq VA
  BY Areas
<1>3. /\ pt' \in [Env -> [VA -> Entry]] /\ mem' \in [Page -> Val]
      /\ pt'[c]["UXSTACK"].w /\ pt'[c]["UXSTACK"].p # NoPage /\ pt'[c]["UXSTACK"].p[2] = "UXSTACK"
      /\ \A d \in Env, u \in VA : d # c \/ u # "UXSTACK" =>
           pt'[d][u] = pt[d][u] /\ pt'[d][u].p # pt'[c]["UXSTACK"].p
      /\ \A d \in Env, u \in VA : pt'[d][u].p # NoPage => mem'[pt'[d][u].p] = mem[pt'[d][u].p]
      /\ \A d \in Env \ {c} : pt'[d] = pt[d]
  BY <1>0, <1>1, <1>2, AllocFacts
<1>4. /\ pc' = [pc EXCEPT ![e] = "stk_map"] /\ pc'[e] = "stk_map" /\ \A d \in Env \ {e} : pc'[d] = pc[d]
  BY <1>0 DEF goto, ForkType, TypeOK
<1>5. ForkType'
  BY <1>0, <1>3, <1>4 DEF ForkType, TypeOK, Places, ForkSteps
<1>6. \A d \in Env \ {e, c} : Bystander(d)
  BY <1>3, <1>4 DEF Bystander, Untouched, Kept
<1>7. LocalInv(e)'
  BY <1>0, <1>3, <1>4 DEF LocalInv, EntryInv, SpaceInv, FaultInv, HandlerInv, Born, Slots
<1>8. LocalInv(c)'
  <2>1. \A v \in VA : v # "UXSTACK" => pt'[c][v] = pt[c][v]
    BY <1>3
  <2>2. EntryInv(c)'
    <3>1. \A v \in VA : pt'[c][v].w => pt'[c][v].p # NoPage
      BY <1>1, <1>3, <2>1 DEF LocalInv, EntryInv
    <3>2. \A v \in Area \cup {"UXSTACK"} : pt'[c][v].p # NoPage => pt'[c][v].p[2] = v
      BY <1>1, <1>2, <1>3, <2>1 DEF LocalInv, EntryInv
    <3>3. \A v \in Area : pt'[c][v] = pt[c][v]
      BY <1>2, <2>1
    <3>4. pc'[c] = "embryo"
      BY <1>1, <1>4
    <3>5. QED  BY <1>1, <3>1, <3>2, <3>3, <3>4, Areas DEF LocalInv, EntryInv
  <2>3. SpaceInv(c)' /\ FaultInv(c)' /\ HandlerInv(c)'
    BY <1>1, <1>2, <1>4, <2>1 DEF LocalInv, SpaceInv, FaultInv, HandlerInv, Born, Slots
  <2>4. QED  BY <2>2, <2>3 DEF LocalInv
<1>9. ChildInv(e)'
  BY <1>1, <1>3, <1>4 DEF ChildInv, Busy, Loop, StackSteps
<1>10. ASSUME NEW v \in Area
       PROVE  /\ frame(e, v) = pt[e][v].p /\ frame(e, v)' = pt[e][v].p
              /\ mem'[pt[e][v].p] = mem[pt[e][v].p] /\ v \in VA
  BY <1>0, <1>2, <1>3 DEF frame, at
<1>11. CopyInv(e)'
  <2> SUFFICES ASSUME NEW v \in Done(e)' PROVE CopyInv(e)!(v)'
    BY DEF CopyInv
  <2>1. v \in Area /\ v \in Done(e)
    BY <1>0 DEF Done, StackSteps
  <2>2. pt[c][v].p # NoPage /\ (v \in Writable => pt[c][v].cow /\ mem[pt[c][v].p] = mem[frame(e, v)])
    BY <1>0, <1>1, <2>1 DEF CopyInv
  <2>3. pt'[c][v] = pt[c][v] /\ mem'[pt[c][v].p] = mem[pt[c][v].p]
    BY <1>2, <1>3, <2>1, <2>2
  <2>4. QED  BY <1>1, <1>10, <2>1, <2>2, <2>3
<1>12. Exclusive'
  BY <1>0, <1>2, <1>3, <1>4, ExclusiveFresh
<1>13. IInv'
  BY <1>0, <1>1, <1>4, <1>5, <1>6, <1>7, <1>8, <1>9, <1>11, <1>12, ParentAndChild
<1>14. Stable(e) /\ Born(e)' /\ ~Born(c)'
  BY <1>1, <1>4, <1>10, Areas DEF Stable, Born, Slots
<1>15. QED  BY <1>0, <1>1, <1>6, <1>13, <1>14, BystanderStable DEF SameImages, Bystander, Untouched, Born


LEMMA StkMap ==
  ASSUME IInv, NEW e \in Env, ready(e, "stk_map"), goto(e, "stk_unmap"),
         sys_page_map(child[e], "UXSTACK", e, "PFTEMP", TRUE, FALSE),
         UNCHANGED <<pn, cow, child, handler, upcall, utf, forks>>
  PROVE  IInv' /\ SameImages
<1>0. /\ pc[e] = "stk_map" /\ utf[e] = <<>> /\ Born(e) /\ LocalInv(e) /\ ChildInv(e) /\ CopyInv(e) /\ ForkType
      /\ \A v \in Area : pt[e][v].p # NoPage /\ frame(e, v) = pt[e][v].p
  BY ReadyFacts DEF IInv, Slots
<1>1. PICK c \in Env \ {e} :
        /\ c = child[e] /\ pc[c] = "embryo" /\ LocalInv(c) /\ child[c] = NoEnv
        /\ pt[c]["PFTEMP"].p = NoPage /\ \A d \in Env \ {e} : child[d] # c
  BY <1>0, Embryo DEF Busy, StackSteps
<1>2. "PFTEMP" \in VA \ Area /\ "UXSTACK" \in VA \ Area /\ "PFTEMP" # "UXSTACK" /\ Area \subseteq VA
  BY Areas
<1>3. /\ pt[c]["UXSTACK"].w /\ pt[c]["UXSTACK"].p # NoPage /\ pt[c]["UXSTACK"].p[2] = "UXSTACK"
      /\ pt[e]["stack"].w /\ handler[e]
  <2>1. pt[c]["UXSTACK"].w
    BY <1>0, <1>1 DEF ChildInv, StackSteps
  <2>2. pt[c]["UXSTACK"].p # NoPage /\ pt[c]["UXSTACK"].p[2] = "UXSTACK"
    BY <1>1, <1>2, <2>1 DEF LocalInv, EntryInv
  <2>3. needs(e) = {"stack"}
    BY <1>0 DEF needs, ForkSteps
  <2>4. QED  BY <1>0, <2>1, <2>2, <2>3 DEF ready, LocalInv, HandlerInv
<1>4. /\ pt' \in [Env -> [VA -> Entry]] /\ mem' \in [Page -> Val]
      /\ pt'[e]["PFTEMP"].p = pt[c]["UXSTACK"].p
      /\ \A f \in Env, x \in VA : f # e \/ x # "PFTEMP" => pt'[f][x] = pt[f][x]
      /\ \A f \in Env, x \in VA : pt'[f][x].p # NoPage => mem'[pt'[f][x].p] = mem[pt'[f][x].p]
      /\ \A f \in Env \ {e} : pt'[f] = pt[f]
  <2> DEFINE x == [p |-> pt[c]["UXSTACK"].p, w |-> TRUE, cow |-> FALSE]
  <2>1. maps([pt EXCEPT ![e]["PFTEMP"] = x])
    BY <1>1 DEF sys_page_map
  <2>2. x \in Entry /\ x.p = pt[c]["UXSTACK"].p
    BY <1>0, <1>2, MapEntry
  <2> HIDE DEF x
  <2>3. QED  BY <1>0, <1>2, <2>1, <2>2, SetEntryFacts
<1>5. /\ pc' = [pc EXCEPT ![e] = "stk_unmap"] /\ pc'[e] = "stk_unmap" /\ \A d \in Env \ {e} : pc'[d] = pc[d]
  BY <1>0 DEF goto, ForkType, TypeOK
<1>6. ForkType'
  BY <1>0, <1>4, <1>5 DEF ForkType, TypeOK, Places, ForkSteps
<1>7. \A d \in Env \ {e} : Bystander(d)
  BY <1>4, <1>5 DEF Bystander, Untouched, Kept
<1>8. \A v \in VA : v # "PFTEMP" => pt'[e][v] = pt[e][v]
  BY <1>4
<1>9. LocalInv(e)'
  <2>1. \A v \in Area \cup {"UXSTACK"} : pt'[e][v] = pt[e][v]
    BY <1>2, <1>8
  <2>2. EntryInv(e)'
    <3>1. \A v \in VA : pt'[e][v].w => pt'[e][v].p # NoPage
      BY <1>0, <1>3, <1>4, <1>8 DEF LocalInv, EntryInv
    <3>2. QED  BY <1>0, <1>5, <2>1, <3>1 DEF LocalInv, EntryInv
  <2>3. SpaceInv(e)' /\ FaultInv(e)'
    BY <1>0, <1>5, <2>1 DEF LocalInv, SpaceInv, FaultInv
  <2>4. HandlerInv(e)'
    BY <1>0, <1>3, <1>5, <2>1, Areas DEF LocalInv, HandlerInv
  <2>5. QED  BY <2>2, <2>3, <2>4 DEF LocalInv
<1>10. ChildInv(e)'
  BY <1>1, <1>3, <1>4, <1>5 DEF ChildInv, Busy, Loop, StackSteps
<1>11. ASSUME NEW v \in Area
       PROVE  /\ frame(e, v) = pt[e][v].p /\ frame(e, v)' = pt[e][v].p
              /\ mem'[pt[e][v].p] = mem[pt[e][v].p] /\ v \in VA
  <2>1. pt'[e][v].p = pt[e][v].p /\ v \in VA /\ pt[e][v].p # NoPage
    BY <1>0, <1>2, <1>8
  <2>2. QED  BY <1>0, <1>4, <2>1 DEF frame, at
<1>12. CopyInv(e)'
  <2> SUFFICES ASSUME NEW v \in Done(e)' PROVE CopyInv(e)!(v)'
    BY DEF CopyInv
  <2>1. v \in Area /\ v \in Done(e)
    BY <1>0 DEF Done, StackSteps
  <2>2. pt[c][v].p # NoPage /\ (v \in Writable => pt[c][v].cow /\ mem[pt[c][v].p] = mem[frame(e, v)])
    BY <1>0, <1>1, <2>1 DEF CopyInv
  <2>3. pt'[c][v] = pt[c][v] /\ mem'[pt[c][v].p] = mem[pt[c][v].p]
    BY <1>4, <1>11, <2>1, <2>2
  <2>4. QED  BY <1>1, <1>11, <2>1, <2>2, <2>3
<1>13. ASSUME NEW d \in Env \ {e}, NEW u \in VA, pt[d][u].p = pt[c]["UXSTACK"].p
       PROVE  d = c /\ u = "UXSTACK"
  <2>1. CASE d = c
    BY <1>1, <1>3, <1>13, <2>1 DEF LocalInv, EntryInv, VA
  <2>2. CASE d # c
    <3>1. SharedInFork(c, "UXSTACK", d, u) \/ SharedInFork(d, u, c, "UXSTACK")
      BY <1>2, <1>3, <1>13, <2>2 DEF IInv, Exclusive
    <3>2. QED  BY <1>1, <3>1, EnvAssumption DEF SharedInFork
  <2>3. QED  BY <2>1, <2>2
<1>14. Exclusive'
  <2> SUFFICES ASSUME NEW f \in Env, NEW x \in VA, pt'[f][x].w,
                      NEW d \in Env \ {f}, NEW u \in VA, pt'[d][u].p = pt'[f][x].p
               PROVE  SharedInFork(f, x, d, u)' \/ SharedInFork(d, u, f, x)'
    BY DEF Exclusive
  <2>1. SharedInFork(e, "PFTEMP", c, "UXSTACK")'
    BY <1>1, <1>5 DEF SharedInFork
  <2>2. CASE f = e /\ x = "PFTEMP"
    <3>1. pt[d][u].p = pt[c]["UXSTACK"].p
      BY <1>4, <2>2
    <3>2. QED  BY <1>13, <2>1, <2>2, <3>1
  <2>3. CASE d = e /\ u = "PFTEMP"
    <3>1. pt[f][x].p = pt[c]["UXSTACK"].p
      BY <1>4, <2>3
    <3>2. QED  BY <1>13, <2>1, <2>3, <3>1
  <2>4. CASE ~(f = e /\ x = "PFTEMP") /\ ~(d = e /\ u = "PFTEMP")
    <3>1. pt'[f][x] = pt[f][x] /\ pt'[d][u] = pt[d][u]
      BY <1>4, <2>4
    <3>2. SharedInFork(f, x, d, u) \/ SharedInFork(d, u, f, x)
      BY <3>1 DEF IInv, Exclusive
    <3>3. QED  BY <1>0, <1>5, <3>2 DEF SharedInFork, here
  <2>5. QED  BY <2>2, <2>3, <2>4
<1>15. IInv'
  BY <1>0, <1>6, <1>7, <1>9, <1>10, <1>12, <1>14, OneActor
<1>16. Stable(e) /\ Born(e)'
  BY <1>5, <1>11, Areas DEF Stable, Born, Slots
<1>17. QED  BY <1>0, <1>7, <1>15, <1>16, BystanderStable DEF SameImages, Bystander, Untouched, Born

LEMMA StkUnmap ==
  ASSUME IInv, NEW e \in Env, ready(e, "stk_unmap"), goto(e, "set_upcall"), sys_page_unmap(e, "PFTEMP"),
         UNCHANGED <<pn, cow, child, handler, upcall, utf, forks>>
  PROVE  IInv' /\ SameImages
<1>0. /\ pc[e] = "stk_unmap" /\ utf[e] = <<>> /\ Born(e) /\ LocalInv(e) /\ ChildInv(e) /\ CopyInv(e) /\ ForkType
      /\ \A v \in Area : pt[e][v].p # NoPage /\ frame(e, v) = pt[e][v].p
  BY ReadyFacts DEF IInv, Slots
<1>1. PICK c \in Env \ {e} :
        /\ c = child[e] /\ pc[c] = "embryo" /\ LocalInv(c) /\ child[c] = NoEnv
        /\ pt[c]["PFTEMP"].p = NoPage /\ \A d \in Env \ {e} : child[d] # c
  BY <1>0, Embryo DEF Busy, StackSteps
<1>2. "PFTEMP" \in VA \ Area /\ "UXSTACK" \in VA \ Area /\ "PFTEMP" # "UXSTACK" /\ Area \subseteq VA
  BY Areas
<1>3. handler[e] /\ pt[c]["UXSTACK"].w
  BY <1>0, <1>1 DEF LocalInv, HandlerInv, ChildInv, StackSteps
<1>4. /\ pt' \in [Env -> [VA -> Entry]] /\ mem' \in [Page -> Val]
      /\ pt'[e]["PFTEMP"] = Absent
      /\ \A f \in Env, x \in VA : f # e \/ x # "PFTEMP" => pt'[f][x] = pt[f][x]
      /\ \A f \in Env, x \in VA : pt'[f][x].p # NoPage => mem'[pt'[f][x].p] = mem[pt'[f][x].p]
      /\ \A f \in Env \ {e} : pt'[f] = pt[f]
  BY <1>0, <1>2, UnmapFacts
<1>5. /\ pc' = [pc EXCEPT ![e] = "set_upcall"] /\ pc'[e] = "set_upcall" /\ \A d \in Env \ {e} : pc'[d] = pc[d]
  BY <1>0 DEF goto, ForkType, TypeOK
<1>6. ForkType'
  BY <1>0, <1>4, <1>5 DEF ForkType, TypeOK, Places, ForkSteps
<1>7. \A d \in Env \ {e} : Bystander(d)
  BY <1>4, <1>5 DEF Bystander, Untouched, Kept
<1>8. \A v \in VA : v # "PFTEMP" => pt'[e][v] = pt[e][v]
  BY <1>4
<1>a. ~pt'[e]["PFTEMP"].w /\ pt'[e]["PFTEMP"].p = NoPage
  BY <1>4 DEF Absent
<1>9. LocalInv(e)'
  <2>1. \A v \in Area \cup {"UXSTACK"} : pt'[e][v] = pt[e][v]
    BY <1>2, <1>8
  <2>2. EntryInv(e)'
    <3>1. \A v \in VA : pt'[e][v].w => pt'[e][v].p # NoPage
      BY <1>0, <1>8, <1>a DEF LocalInv, EntryInv
    <3>2. QED  BY <1>0, <1>5, <2>1, <3>1 DEF LocalInv, EntryInv
  <2>3. SpaceInv(e)' /\ FaultInv(e)'
    BY <1>0, <1>5, <1>a, <2>1 DEF LocalInv, SpaceInv, FaultInv
  <2>4. HandlerInv(e)'
    BY <1>0, <1>3, <1>5, <2>1, Areas DEF LocalInv, HandlerInv
  <2>5. QED  BY <2>2, <2>3, <2>4 DEF LocalInv
<1>10. ChildInv(e)'
  BY <1>1, <1>3, <1>4, <1>5 DEF ChildInv, Busy, Loop, StackSteps
<1>11. ASSUME NEW v \in Area
       PROVE  /\ frame(e, v) = pt[e][v].p /\ frame(e, v)' = pt[e][v].p
              /\ mem'[pt[e][v].p] = mem[pt[e][v].p] /\ v \in VA
  <2>1. pt'[e][v].p = pt[e][v].p /\ v \in VA /\ pt[e][v].p # NoPage
    BY <1>0, <1>2, <1>8
  <2>2. QED  BY <1>0, <1>4, <2>1 DEF frame, at
<1>12. CopyInv(e)'
  <2> SUFFICES ASSUME NEW v \in Done(e)' PROVE CopyInv(e)!(v)'
    BY DEF CopyInv
  <2>1. v \in Area /\ v \in Done(e)
    BY <1>0 DEF Done, StackSteps
  <2>2. pt[c][v].p # NoPage /\ (v \in Writable => pt[c][v].cow /\ mem[pt[c][v].p] = mem[frame(e, v)])
    BY <1>0, <1>1, <2>1 DEF CopyInv
  <2>3. pt'[c][v] = pt[c][v] /\ mem'[pt[c][v].p] = mem[pt[c][v].p]
    BY <1>4, <1>11, <2>1, <2>2
  <2>4. QED  BY <1>1, <1>11, <2>1, <2>2, <2>3
<1>14. Exclusive'
  <2> SUFFICES ASSUME NEW f \in Env, NEW x \in VA, pt'[f][x].w,
                      NEW d \in Env \ {f}, NEW u \in VA, pt'[d][u].p = pt'[f][x].p
               PROVE  SharedInFork(f, x, d, u)' \/ SharedInFork(d, u, f, x)'
    BY DEF Exclusive
  <2>1. ~(f = e /\ x = "PFTEMP") /\ pt'[f][x] = pt[f][x] /\ pt[f][x].p # NoPage
    BY <1>4, <1>a DEF IInv, LocalInv, EntryInv
  <2>2. ~(d = e /\ u = "PFTEMP") /\ pt'[d][u] = pt[d][u]
    BY <1>4, <1>a, <2>1
  <2>3. SharedInFork(f, x, d, u) \/ SharedInFork(d, u, f, x)
    BY <2>1, <2>2 DEF IInv, Exclusive
  <2>4. QED  BY <1>0, <1>5, <2>1, <2>2, <2>3 DEF SharedInFork, here
<1>15. IInv'
  BY <1>0, <1>6, <1>7, <1>9, <1>10, <1>12, <1>14, OneActor
<1>16. Stable(e) /\ Born(e)'
  BY <1>5, <1>11, Areas DEF Stable, Born, Slots
<1>17. QED  BY <1>0, <1>7, <1>15, <1>16, BystanderStable DEF SameImages, Bystander, Untouched, Born


LEMMA SetUpcall ==
  ASSUME IInv, NEW e \in Env, ready(e, "set_upcall"), goto(e, "set_status"),
         upcall' = [upcall EXCEPT ![child[e]] = TRUE], UNCHANGED <<pt, mem, pn, cow, child, handler, utf, forks>>
  PROVE  IInv' /\ SameImages
<1>0. /\ pc[e] = "set_upcall" /\ utf[e] = <<>> /\ Born(e) /\ LocalInv(e) /\ ChildInv(e) /\ CopyInv(e) /\ ForkType
  BY ReadyFacts DEF IInv, Slots
<1>1. PICK c \in Env \ {e} :
        /\ c = child[e] /\ pc[c] = "embryo" /\ LocalInv(c) /\ ~Born(c) /\ utf[c] = <<>> /\ child[c] = NoEnv
        /\ ~handler[c] /\ pt[c]["PFTEMP"].p = NoPage /\ \A d \in Env \ {e} : child[d] # c
  BY <1>0, Embryo DEF Busy, StackSteps
<1>2. /\ pc' = [pc EXCEPT ![e] = "set_status"] /\ pc'[e] = "set_status" /\ \A d \in Env \ {e} : pc'[d] = pc[d]
      /\ upcall'[c] /\ \A d \in Env \ {c} : upcall'[d] = upcall[d]
  BY <1>0, <1>1 DEF goto, ForkType, TypeOK
<1>3. ForkType'
  <2>1. pc' \in [Env -> Places] /\ upcall' \in [Env -> BOOLEAN]
    BY <1>0, <1>2 DEF ForkType, TypeOK, Places, ForkSteps
  <2>2. QED  BY <1>0, <2>1 DEF ForkType, TypeOK
<1>4. \A d \in Env \ {e, c} : Bystander(d)
  BY <1>2 DEF Bystander, Untouched, Kept
<1>5. LocalInv(e)'
  BY <1>0, <1>2 DEF LocalInv, EntryInv, SpaceInv, FaultInv, HandlerInv, Born, Slots, at, top
<1>6. LocalInv(c)'
  BY <1>1, <1>2 DEF LocalInv, EntryInv, SpaceInv, FaultInv, HandlerInv, Born, Slots
<1>7. ChildInv(e)'
  BY <1>0, <1>1, <1>2 DEF ChildInv, Busy, Loop, StackSteps
<1>8. CopyInv(e)'
  <2>1. Done(e)' = Done(e)
    BY <1>0, <1>2 DEF Done, StackSteps
  <2>2. QED  BY <1>0, <2>1 DEF CopyInv, frame, at, top
<1>9. Exclusive'
  BY <1>0, <1>2, ExclusiveKept
<1>10. IInv'
  BY <1>0, <1>1, <1>2, <1>3, <1>4, <1>5, <1>6, <1>7, <1>8, <1>9, ParentAndChild
<1>11. Stable(e) /\ Born(e)' /\ ~Born(c)'
  BY <1>1, <1>2 DEF Stable, frame, at, top, Born, Slots
<1>12. QED  BY <1>0, <1>1, <1>4, <1>10, <1>11, BystanderStable DEF SameImages, Bystander, Untouched, Born

\* Only the image of e, which is born before or after, may change.
OthersSame(e) == \A d \in Env \ {e} : (Born(d)' <=> Born(d)) /\ (Born(d) => Stable(d))

\* The child starts with the memory of its parent.
Copies(e, c) ==
  /\ Born(e) /\ Stable(e) /\ ~Born(c) /\ Born(c)'
  /\ \A v \in Writable : mem'[frame(c, v)'] = mem[frame(e, v)]
  /\ OthersSame(c)

LEMMA SetStatus ==
  ASSUME IInv, NEW e \in Env, ready(e, "set_status"),
         pc' = [pc EXCEPT ![e] = "main", ![child[e]] = "thisenv"],
         handler' = [handler EXCEPT ![child[e]] = handler[e]],
         child' = [child EXCEPT ![e] = NoEnv], UNCHANGED <<pt, mem, pn, cow, upcall, utf, forks>>
  PROVE  IInv' /\ \E c \in Env : Copies(e, c)
<1>0. /\ pc[e] = "set_status" /\ utf[e] = <<>> /\ Born(e) /\ LocalInv(e) /\ ChildInv(e) /\ CopyInv(e) /\ ForkType
  BY ReadyFacts DEF IInv, Slots
<1>1. PICK c \in Env \ {e} :
        /\ c = child[e] /\ pc[c] = "embryo" /\ LocalInv(c) /\ ~Born(c) /\ utf[c] = <<>> /\ child[c] = NoEnv
        /\ ~handler[c] /\ pt[c]["PFTEMP"].p = NoPage /\ \A d \in Env \ {e} : child[d] # c
  BY <1>0, Embryo DEF Busy, StackSteps
<1>2. /\ pc'[e] = "main" /\ pc'[c] = "thisenv" /\ child'[e] = NoEnv /\ child'[c] = NoEnv
      /\ handler'[e] = handler[e] /\ handler'[c] = handler[e]
      /\ \A d \in Env \ {e, c} : pc'[d] = pc[d] /\ handler'[d] = handler[d] /\ child'[d] = child[d]
  BY <1>0, <1>1 DEF ForkType, TypeOK
<1>3. handler[e] /\ upcall[c] /\ pt[c]["UXSTACK"].w
  BY <1>0, <1>1 DEF LocalInv, HandlerInv, ChildInv, StackSteps
<1>4. ForkType'
  <2>1. pc' \in [Env -> Places]
    BY <1>0, <1>1 DEF ForkType, TypeOK, Places
  <2>2. handler' \in [Env -> BOOLEAN] /\ child' \in [Env -> Env \cup {NoEnv}]
    BY <1>0, <1>1 DEF ForkType, TypeOK
  <2>3. QED  BY <1>0, <2>1, <2>2 DEF ForkType, TypeOK
<1>5. \A d \in Env \ {e, c} : Bystander(d)
  BY <1>2 DEF Bystander, Untouched, Kept
<1>6. LocalInv(e)'
  BY <1>0, <1>2, <1>3 DEF LocalInv, EntryInv, SpaceInv, FaultInv, HandlerInv, Born, Slots, at, top
<1>7. \A v \in Area : /\ pt[c][v].p # NoPage
                      /\ v \in Writable => pt[c][v].cow /\ mem[pt[c][v].p] = mem[frame(e, v)]
  <2>1. Done(e) = Area
    BY <1>0 DEF Done, StackSteps
  <2>2. QED  BY <1>0, <1>1, <2>1 DEF CopyInv
<1>8. LocalInv(c)'
  <2>1. EntryInv(c)'
    BY <1>1, <1>2 DEF LocalInv, EntryInv
  <2>2. SpaceInv(c)'
    BY <1>1, <1>7 DEF SpaceInv
  <2>3. FaultInv(c)' /\ HandlerInv(c)'
    BY <1>1, <1>2, <1>3 DEF FaultInv, HandlerInv
  <2>4. QED  BY <2>1, <2>2, <2>3 DEF LocalInv
<1>9. ChildInv(e)' /\ CopyInv(e)'
  BY <1>2 DEF ChildInv, CopyInv, Done, Busy, Loop, StackSteps
<1>10. Exclusive'
  BY <1>0, <1>1, <1>2, ExclusiveKept
<1>11. IInv'
  BY <1>0, <1>1, <1>2, <1>4, <1>5, <1>6, <1>8, <1>9, <1>10, ParentAndChild
<1>12. Stable(e) /\ Born(e)' /\ Born(c)'
  BY <1>1, <1>2 DEF Stable, frame, at, top, Born, Slots
<1>13. \A v \in Writable : mem'[frame(c, v)'] = mem[frame(e, v)]
  BY <1>1, <1>7, Areas DEF frame, at
<1>14. OthersSame(c)
  BY <1>0, <1>5, <1>12, BystanderStable DEF OthersSame, Bystander, Untouched, Born
<1>15. QED  BY <1>0, <1>1, <1>11, <1>12, <1>13, <1>14 DEF Copies

LEMMA SetThisenv ==
  ASSUME IInv, NEW e \in Env, set_thisenv(e), UNCHANGED forks
  PROVE  IInv' /\ SameImages
<1>0. pc[e] = "thisenv" /\ Born(e) /\ LocalInv(e) /\ ChildInv(e) /\ ForkType
  BY ReadyFacts DEF IInv, set_thisenv, Slots
<1>1. /\ pc' = [pc EXCEPT ![e] = "main"] /\ UNCHANGED <<pt, mem, pn, cow, child, handler, upcall, utf>>
  BY DEF set_thisenv, goto
<1>2. pc'[e] = "main" /\ \A d \in Env \ {e} : pc'[d] = pc[d]
  BY <1>0, <1>1 DEF ForkType, TypeOK
<1>3. ForkType'
  BY <1>0, <1>1 DEF ForkType, TypeOK, Places
<1>4. HandlerInv(e)'
  BY <1>0, <1>1, <1>2 DEF LocalInv, HandlerInv, Born, Slots
<1>5. ChildInv(e)' /\ CopyInv(e)'
  BY <1>0, <1>1, <1>2 DEF ChildInv, CopyInv, Done, Busy, Loop, StackSteps
<1>6. QED  BY <1>0, <1>1, <1>2, <1>3, <1>4, <1>5, ProgramStep DEF Slots

-----------------------------------------------------------------------------
\* The program.

\* A store to a writable page is seen by the environment that makes it.
Stores(e, v, x) ==
  /\ Born(e) /\ Born(e)' /\ mem'[frame(e, v)'] = x
  /\ \A u \in Writable \ {v} : mem'[frame(e, u)'] = mem[frame(e, u)]
  /\ OthersSame(e)

LEMMA StoreStep ==
  ASSUME IInv, NEW e \in Env, NEW v \in Writable, NEW x \in Val, store(e, v, x), UNCHANGED forks
  PROVE  IInv' /\ (SameImages \/ Stores(e, v, x))
<1>0. /\ pc[e] = "main" /\ utf[e] = <<>> /\ Born(e) /\ LocalInv(e) /\ ChildInv(e) /\ ForkType
      /\ \A u \in Area : pt[e][u].p # NoPage /\ frame(e, u) = pt[e][u].p
  BY ReadyFacts DEF IInv, store, Slots
<1>1. CASE ~pt[e][v].w
  <2>1. page_fault_handler(e, v)
    BY <1>1 DEF store
  <2>2. IInv' /\ SameImages
    BY <1>0, <1>1, <2>1, EnterFault
  <2>3. QED  BY <2>2
<1>2. CASE pt[e][v].w
  <2>1. mem' = [mem EXCEPT ![pt[e][v].p] = x] /\ UNCHANGED <<pt, pc, pn, cow, child, handler, upcall, utf>>
    BY <1>2 DEF store
  <2>2. v \in VA /\ v \in Area /\ pt[e][v].p \in Page /\ mem \in [Page -> Val]
    BY <1>0, Areas, MappedPage DEF ForkType, TypeOK
  <2>3. ForkType'
    BY <1>0, <2>1, <2>2 DEF ForkType, TypeOK
  <2>4. ASSUME NEW d \in Env \ {e} PROVE Bystander(d)
    <3>1. \A u \in VA : pt[d][u].p # pt[e][v].p
      BY <1>0, <1>2, <2>2, PrivatePage
    <3>2. ASSUME NEW u \in VA, pt[d][u].p # NoPage PROVE mem'[pt[d][u].p] = mem[pt[d][u].p]
      BY <1>0, <2>1, <2>2, <3>1, <3>2, MappedPage
    <3>3. QED  BY <2>1, <3>2 DEF Bystander, Untouched, Kept
  <2>5. LocalInv(e)'
    BY <1>0, <2>1 DEF LocalInv, EntryInv, SpaceInv, FaultInv, HandlerInv, Born, at, top
  <2>6. ChildInv(e)' /\ CopyInv(e)'
    BY <1>0, <2>1 DEF ChildInv, CopyInv, Done, Busy, Loop, StackSteps, here
  <2>7. Exclusive'
    BY <1>0, <2>1, ExclusiveKept
  <2>8. IInv'
    BY <1>0, <2>1, <2>3, <2>4, <2>5, <2>6, <2>7, OneActor
  <2>9. mem'[frame(e, v)'] = x /\ Born(e)'
    BY <1>0, <2>1, <2>2 DEF frame, at, top, Born
  <2>10. ASSUME NEW u \in Writable \ {v} PROVE mem'[frame(e, u)'] = mem[frame(e, u)]
    <3>1. pt[e][u].p # pt[e][v].p /\ u \in VA /\ u \in Area
      BY <1>0, <2>2, Areas DEF LocalInv, EntryInv
    <3>2. frame(e, u)' = pt[e][u].p /\ frame(e, u) = pt[e][u].p /\ pt[e][u].p \in Page
      BY <1>0, <2>1, <3>1, MappedPage DEF frame, at
    <3>3. QED  BY <2>1, <2>2, <3>1, <3>2
  <2>11. OthersSame(e)
    BY <2>4, BystanderStable DEF OthersSame, Bystander, Untouched, Born
  <2>12. QED  BY <1>0, <2>8, <2>9, <2>10, <2>11 DEF Stores
<1>3. QED  BY <1>1, <1>2

Exits(e) == Born(e) /\ ~Born(e)' /\ OthersSame(e)

LEMMA ExitStep ==
  ASSUME IInv, NEW e \in Env, exit(e), UNCHANGED forks
  PROVE  IInv' /\ Exits(e) /\ utf[e] = <<>>
<1>0. /\ pc[e] = "main" /\ utf[e] = <<>> /\ Born(e) /\ LocalInv(e) /\ ChildInv(e) /\ ForkType
  BY ReadyFacts DEF IInv, exit, Slots
<1> DEFINE none == [v \in VA |-> Absent]
           pts == [pt EXCEPT ![e] = none]
<1>1. /\ maps(pts) /\ pc' = [pc EXCEPT ![e] = "free"]
      /\ upcall' = [upcall EXCEPT ![e] = FALSE] /\ handler' = [handler EXCEPT ![e] = FALSE]
      /\ utf' = [utf EXCEPT ![e] = <<>>] /\ pn' = [pn EXCEPT ![e] = 0]
      /\ cow' = [cow EXCEPT ![e] = FALSE] /\ child' = [child EXCEPT ![e] = NoEnv]
  BY DEF exit, env_free, goto
<1>2. /\ pt \in [Env -> [VA -> Entry]] /\ pts \in [Env -> [VA -> Entry]] /\ mem \in [Page -> Val]
      /\ pts[e] = none /\ \A d \in Env \ {e} : pts[d] = pt[d]
  BY <1>0 DEF ForkType, TypeOK, Absent, Entry
<1>3. /\ pt' = pts /\ mem' \in [Page -> Val]
      /\ \A d \in Env, u \in VA : pt'[d][u].p # NoPage => mem'[pt'[d][u].p] = mem[pt'[d][u].p]
  <2> HIDE DEF pts
  <2>1. QED  BY <1>1, <1>2, MapsKeep
<1>4. \A v \in VA : pt'[e][v] = Absent
  BY <1>2, <1>3
<1>5. pt' \in [Env -> [VA -> Entry]] /\ \A d \in Env \ {e} : pt'[d] = pt[d]
  BY <1>2, <1>3
<1> HIDE DEF pts, none
<1>6. /\ pc'[e] = "free" /\ ~handler'[e] /\ utf'[e] = <<>> /\ child'[e] = NoEnv
      /\ \A d \in Env \ {e} :
           /\ pc'[d] = pc[d] /\ pn'[d] = pn[d] /\ cow'[d] = cow[d] /\ child'[d] = child[d]
           /\ handler'[d] = handler[d] /\ upcall'[d] = upcall[d] /\ utf'[d] = utf[d]
  BY <1>0, <1>1 DEF ForkType, TypeOK
<1>7. ForkType'
  <2>1. pc' \in [Env -> Places] /\ child' \in [Env -> Env \cup {NoEnv}]
    BY <1>0, <1>1 DEF ForkType, TypeOK, Places, Slots
  <2>2. pn' \in [Env -> 0..Len(Layout)]
    BY <1>0, <1>1, SomeArea DEF ForkType, TypeOK
  <2>3. handler' \in [Env -> BOOLEAN] /\ upcall' \in [Env -> BOOLEAN] /\ cow' \in [Env -> BOOLEAN]
    BY <1>0, <1>1 DEF ForkType, TypeOK
  <2>4. <<>> \in Seq(Frames) /\ Len(<<>>) = 0
    OBVIOUS
  <2>5. utf' \in [Env -> Seq(Frames)]
    BY <1>0, <1>1, <2>4 DEF ForkType
  <2>6. ASSUME NEW d \in Env
        PROVE  Len(utf'[d]) <= 2 /\ \A i \in 1..Len(utf'[d]) : utf'[d][i].va \in Area
    <3>1. CASE d = e
      BY <1>6, <2>4, <3>1
    <3>2. CASE d # e
      BY <1>0, <1>6, <3>2 DEF ForkType, TypeOK
    <3>3. QED  BY <3>1, <3>2
  <2>7. QED  BY <1>0, <1>3, <1>5, <2>1, <2>2, <2>3, <2>5, <2>6 DEF ForkType, TypeOK
<1>8. \A d \in Env \ {e} : Bystander(d)
  BY <1>3, <1>5, <1>6 DEF Bystander, Untouched, Kept
<1>9. LocalInv(e)'
  <2>1. \A v \in VA : ~pt'[e][v].w /\ ~pt'[e][v].cow /\ pt'[e][v].p = NoPage
    BY <1>4 DEF Absent
  <2>2. EntryInv(e)'
    BY <1>4, <1>6, <2>1, Areas DEF EntryInv
  <2>3. SpaceInv(e)' /\ FaultInv(e)' /\ HandlerInv(e)'
    BY <1>6, <2>1, Areas DEF SpaceInv, FaultInv, HandlerInv, Born, Slots
  <2>4. QED  BY <2>2, <2>3 DEF LocalInv
<1>10. ChildInv(e)' /\ CopyInv(e)'
  BY <1>6 DEF ChildInv, CopyInv, Done, Busy, Loop, StackSteps
<1>11. Exclusive'
  BY <1>0, <1>4, <1>5, <1>6, ExclusiveKept
<1>12. IInv'
  BY <1>0, <1>6, <1>7, <1>8, <1>9, <1>10, <1>11, OneActor
<1>13. QED  BY <1>0, <1>6, <1>8, <1>12, BystanderStable DEF Exits, OthersSame, Bystander, Untouched, Born, Slots


-----------------------------------------------------------------------------
LEMMA InitInv == Init => IInv
<1> SUFFICES ASSUME Init PROVE IInv
  OBVIOUS
<1>1. Cardinality(Env) \in Nat /\ 1 \in 1..Cardinality(Env)
  <2>1. Cardinality(Env) \in Nat /\ Cardinality(Env) # 0
    BY EnvAssumption, FS_CardinalityType, FS_EmptySet
  <2>2. QED  BY <2>1
<1>2. ASSUME NEW v \in Area
      PROVE  /\ <<First, v, 1>> \in Page /\ <<First, v, 1>> # NoPage /\ <<First, v, 1>>[2] = v
             /\ [p |-> <<First, v, 1>>, w |-> v \in Writable, cow |-> FALSE] \in Entry
  <2>1. <<First, v, 1>> \in Page /\ (v \in Writable) \in BOOLEAN
    BY <1>1, EnvAssumption DEF Page
  <2>2. QED  BY <2>1, PageAssumption DEF Entry
<1>3. Absent \in Entry /\ Absent.p = NoPage /\ ~Absent.w /\ ~Absent.cow
  BY DEF Absent, Entry
<1>4. ASSUME NEW e \in Env, NEW v \in VA
      PROVE  /\ pt[e][v] \in Entry
             /\ e = First /\ v \in Area =>
                  pt[e][v].p = <<First, v, 1>> /\ (pt[e][v].w <=> v \in Writable) /\ ~pt[e][v].cow
             /\ ~(e = First /\ v \in Area) => pt[e][v] = Absent
  <2>1. pt[e][v] = IF e = First /\ v \in Area
                   THEN [p |-> <<First, v, 1>>, w |-> v \in Writable, cow |-> FALSE] ELSE Absent
    BY DEF Init
  <2>2. CASE e = First /\ v \in Area
    <3> DEFINE b == v \in Writable
               x == [p |-> <<First, v, 1>>, w |-> b, cow |-> FALSE]
    <3>1. pt[e][v] = x /\ x \in Entry
      BY <1>2, <2>1, <2>2
    <3>2. b \in BOOLEAN /\ (b <=> v \in Writable)
      OBVIOUS
    <3> HIDE DEF b
    <3>3. x.p = <<First, v, 1>> /\ x.w = b /\ ~x.cow
      OBVIOUS
    <3> HIDE DEF x
    <3>4. QED  BY <2>2, <3>1, <3>2, <3>3
  <2>3. CASE ~(e = First /\ v \in Area)
    BY <1>3, <2>1, <2>3
  <2>4. QED  BY <2>2, <2>3
<1>5. /\ pc \in [Env -> Places] /\ pc[First] = "main" /\ \A e \in Env \ {First} : pc[e] = "free"
      /\ \A e \in Env : utf[e] = <<>> /\ ~handler[e] /\ child[e] = NoEnv
  BY EnvAssumption DEF Init, Places, Slots
<1>6. ForkType
  <2>1. pt \in [Env -> [VA -> Entry]]
    <3>1. pt = [e \in Env |-> pt[e]]
      BY DEF Init
    <3>2. ASSUME NEW e \in Env PROVE pt[e] \in [VA -> Entry]
      <4>1. pt[e] = [v \in VA |-> pt[e][v]]
        BY DEF Init
      <4>2. QED  BY <1>4, <4>1
    <3>3. QED  BY <3>1, <3>2
  <2>2. <<>> \in Seq(Frames) /\ Len(<<>>) = 0
    OBVIOUS
  <2>3. utf \in [Env -> Seq(Frames)]
    BY <2>2 DEF Init
  <2>4. mem \in [Page -> Val] /\ pn \in [Env -> 0..Len(Layout)] /\ child \in [Env -> Env \cup {NoEnv}]
    BY ValAssumption, SomeArea DEF Init
  <2>5. cow \in [Env -> BOOLEAN] /\ handler \in [Env -> BOOLEAN] /\ upcall \in [Env -> BOOLEAN] /\ forks \in 0..MaxFork
    BY EnvAssumption DEF Init
  <2>6. \A e \in Env : Len(utf[e]) <= 2 /\ \A i \in 1..Len(utf[e]) : utf[e][i].va \in Area
    BY <1>5, <2>2
  <2>7. QED  BY <1>5, <2>1, <2>3, <2>4, <2>5, <2>6 DEF ForkType, TypeOK
<1>7. ASSUME NEW e \in Env PROVE LocalInv(e) /\ ChildInv(e) /\ CopyInv(e)
  <2>1. ChildInv(e) /\ CopyInv(e)
    BY <1>5 DEF ChildInv, CopyInv, Done, Busy, Loop, StackSteps
  <2>2. CASE e = First
    <3>1. ASSUME NEW v \in Area
          PROVE  /\ (pt[e][v].w <=> v \in Writable) /\ ~pt[e][v].cow
                 /\ pt[e][v].p # NoPage /\ pt[e][v].p[2] = v
      <4>1. pt[e][v].p = <<First, v, 1>> /\ (pt[e][v].w <=> v \in Writable) /\ ~pt[e][v].cow
        BY <1>4, <2>2, Areas
      <4>2. <<First, v, 1>> # NoPage /\ <<First, v, 1>>[2] = v
        BY <1>2
      <4>3. QED  BY <4>1, <4>2, Zenon
    <3>2. \A v \in VA \ Area : pt[e][v].p = NoPage /\ ~pt[e][v].w
      BY <1>3, <1>4
    <3>3. EntryInv(e)
      BY <1>5, <2>2, <3>1, <3>2, Areas DEF EntryInv
    <3>4. SpaceInv(e)
      BY <3>1, <3>2, Areas DEF SpaceInv
    <3>5. FaultInv(e) /\ HandlerInv(e)
      BY <1>5, <2>2, <3>1, Areas DEF FaultInv, HandlerInv, Born, Slots
    <3>6. QED  BY <2>1, <3>3, <3>4, <3>5 DEF LocalInv
  <2>3. CASE e # First
    <3>1. pc[e] = "free" /\ \A v \in VA : pt[e][v] = Absent /\ pt[e][v].p = NoPage /\ ~pt[e][v].w /\ ~pt[e][v].cow
      BY <1>3, <1>4, <1>5, <2>3
    <3>2. EntryInv(e)
      BY <3>1, Areas DEF EntryInv
    <3>3. SpaceInv(e) /\ FaultInv(e) /\ HandlerInv(e)
      BY <1>5, <3>1, Areas DEF SpaceInv, FaultInv, HandlerInv, Born, Slots
    <3>4. QED  BY <2>1, <3>2, <3>3 DEF LocalInv
  <2>4. QED  BY <2>2, <2>3
<1>8. Parents
  BY <1>5 DEF Parents
<1>9. Exclusive
  <2> SUFFICES ASSUME NEW e \in Env, NEW v \in VA, pt[e][v].w,
                      NEW d \in Env \ {e}, NEW u \in VA, pt[d][u].p = pt[e][v].p
               PROVE  FALSE
    BY DEF Exclusive
  <2>1. e = First /\ pt[e][v].p # NoPage
    BY <1>3, <1>4, <1>7 DEF LocalInv, EntryInv
  <2>2. QED  BY <1>3, <1>4, <2>1
<1>10. QED  BY <1>6, <1>7, <1>8, <1>9 DEF IInv

\* What a step may do to the images.
ImageStep ==
  \/ SameImages
  \/ \E e \in Env : \/ Exits(e)
                    \/ \E c \in Env : Copies(e, c)
                    \/ \E v \in Writable, x \in Val : Stores(e, v, x)

LEMMA StepInv ==
  ASSUME IInv, NEW e \in Env, Step(e)
  PROVE  IInv' /\ ImageStep
<1>1. CASE call_fork(e)
  BY <1>1, CallForkStep DEF ImageStep
<1>2. ASSUME exit(e), UNCHANGED forks PROVE IInv' /\ ImageStep
  BY <1>2, ExitStep DEF ImageStep
<1>3. ASSUME NEW v \in Writable, NEW x \in Val, store(e, v, x), UNCHANGED forks PROVE IInv' /\ ImageStep
  BY <1>3, StoreStep DEF ImageStep
<1>4. ASSUME pgfault(e), UNCHANGED forks PROVE IInv' /\ ImageStep
  BY <1>4, PgfaultAlloc, PgfaultCopy, PgfaultUnmap, PgfaultMap, PgfaultUnmapTemp, PfentryRet
  DEF pgfault, ImageStep
<1>5. ASSUME write_fault(e), UNCHANGED forks PROVE IInv' /\ ImageStep
  BY <1>5, WriteFault DEF ImageStep
<1>6. ASSUME fork(e), UNCHANGED forks PROVE IInv' /\ ImageStep
  <2>1. CASE set_pgfault_handler(e) \/ sys_exofork(e) \/ dup_read(e) \/ set_thisenv(e) \/ no_mem(e)
    BY <1>6, <2>1, SetHandlerStep, Exofork, DupRead, SetThisenv, NoMem DEF ImageStep
  <2>2. CASE duppage(e)
    BY <1>6, <2>2, DupChild, DupSelf DEF duppage, ImageStep
  <2>3. CASE exception_stack(e)
    BY <1>6, <2>3, StkAlloc, StkMap, StkUnmap DEF exception_stack, ImageStep
  <2>4. CASE start_child(e)
    BY <1>6, <2>4, SetUpcall, SetStatus DEF start_child, ImageStep
  <2>5. QED  BY <1>6, <2>1, <2>2, <2>3, <2>4 DEF fork
<1>7. QED  BY <1>1, <1>2, <1>3, <1>4, <1>5, <1>6 DEF Step

LEMMA StepPreserves == IInv /\ [Next]_vars => IInv' /\ (ImageStep \/ UNCHANGED vars)
<1> SUFFICES ASSUME IInv, [Next]_vars PROVE IInv' /\ (ImageStep \/ UNCHANGED vars)
  OBVIOUS
<1>1. CASE Next
  BY <1>1, StepInv DEF Next
<1>2. CASE UNCHANGED vars
  <2>1. \A d \in Env : Bystander(d)
    BY <1>2 DEF vars, Bystander, Untouched, Kept
  <2>2. ForkType'
    BY <1>2 DEF vars, IInv, ForkType, TypeOK
  <2>3. \A d \in Env : LocalInv(d)'
    BY <2>1, BystanderLocal
  <2>4. ASSUME NEW d \in Env PROVE ChildInv(d)' /\ CopyInv(d)'
    <3>1. child[d] \in Env \cup {NoEnv}
      BY DEF IInv, ForkType, TypeOK
    <3>2. QED  BY <1>2, <2>1, <3>1, BystanderStable, PairKept DEF vars
  <2>5. Parents' /\ Exclusive'
    BY <1>2, ExclusiveKept DEF vars, IInv, Parents
  <2>6. QED  BY <1>2, <2>2, <2>3, <2>4, <2>5 DEF IInv
<1>3. QED  BY <1>1, <1>2

\* The inductive invariant holds throughout.
THEOREM Invariant == Spec => []IInv
<1>1. QED  BY InitInv, StepPreserves, PTL DEF Spec

\* The variables have their types; no more than two faults nest.
THEOREM TypeCorrect == Spec => []TypeOK
<1>1. IInv => TypeOK
  BY DEF IInv, ForkType
<1>2. QED  BY <1>1, Invariant, PTL

\* Who can write a page has it alone, but for fork and its embryo between the
\* two halves of duppage and of the copy of the exception stack.
THEOREM WritersAlone == Spec => []PrivateWhenWritable
<1>1. IInv => PrivateWhenWritable
  <2> SUFFICES ASSUME IInv, NEW e \in Env, NEW v \in VA, pt[e][v].w,
                      NEW d \in Env \ {e}, NEW u \in VA, pt[d][u].p = pt[e][v].p
               PROVE  \/ child[e] = d /\ pc[d] = "embryo" /\ pc[e] \in {"dup_self", "stk_unmap"}
                      \/ child[d] = e /\ pc[e] = "embryo" /\ pc[d] = "stk_unmap"
    BY DEF PrivateWhenWritable
  <2>1. SharedInFork(e, v, d, u) \/ SharedInFork(d, u, e, v)
    BY DEF IInv, Exclusive
  <2>2. CASE SharedInFork(e, v, d, u)
    BY <2>2, EnvAssumption DEF SharedInFork, IInv, ChildInv
  <2>3. CASE SharedInFork(d, u, e, v)
    <3>1. child[d] = e /\ pc[e] = "embryo"
      BY <2>3, EnvAssumption DEF SharedInFork, IInv, ChildInv
    <3>2. pc[d] # "dup_self"
      <4> SUFFICES ASSUME pc[d] = "dup_self" PROVE FALSE
        OBVIOUS
      <4>1. v = here(d) /\ here(d) \in Writable
        BY <2>3 DEF SharedInFork, IInv, ChildInv
      <4>2. v \in Area
        BY <4>1, Areas
      <4>3. QED  BY <3>1, <4>2 DEF IInv, LocalInv, EntryInv
    <3>3. QED  BY <2>3, <3>1, <3>2 DEF SharedInFork
  <2>4. QED  BY <2>1, <2>2, <2>3
<1>2. QED  BY <1>1, Invariant, PTL

\* No fault of copy-on-write kills an environment or makes it panic.
THEOREM FaultsAreHandled == Spec => []FaultsHandled
<1>1. IInv => FaultsHandled
  BY DEF IInv, LocalInv, HandlerInv, FaultsHandled
<1>2. QED  BY <1>1, Invariant, PTL


-----------------------------------------------------------------------------
\* Faults end in pfentry_ret only.
Repaired == \A e \in Env : Len(utf'[e]) < Len(utf[e]) => pt'[e][top(e).va].w

LEMMA NoShorter ==
  ASSUME ForkType, NEW e \in Env, Len(utf'[e]) \in {Len(utf[e]), Len(utf[e]) + 1},
         \A d \in Env \ {e} : utf'[d] = utf[d]
  PROVE  Repaired
<1>1. ASSUME NEW d \in Env PROVE ~(Len(utf'[d]) < Len(utf[d]))
  <2>1. Len(utf[d]) \in Nat /\ Len(utf'[d]) \in {Len(utf[d]), Len(utf[d]) + 1}
    BY Innermost
  <2> DEFINE n == Len(utf[d])
             m == Len(utf'[d])
  <2>2. n \in Nat /\ m \in {n, n + 1}
    BY <2>1
  <2> HIDE DEF n, m
  <2>3. ~(m < n)
    BY <2>2
  <2>4. QED  BY <2>3 DEF n, m
<1>2. QED  BY <1>1 DEF Repaired

LEMMA FaultGrows ==
  ASSUME IInv, IInv', NEW e \in Env, NEW v, page_fault_handler(e, v)
  PROVE  Repaired
<1>1. ForkType /\ pc'[e] # "killed" /\ utf \in [Env -> Seq(Frames)] /\ pc \in [Env -> Places]
  BY DEF IInv, ForkType, TypeOK, LocalInv, HandlerInv
<1>2. utf' = [utf EXCEPT ![e] = Append(@, [va |-> v, step |-> "alloc"])]
  BY <1>1 DEF page_fault_handler, env_free, goto
<1>3. utf'[e] = Append(utf[e], [va |-> v, step |-> "alloc"]) /\ \A d \in Env \ {e} : utf'[d] = utf[d]
  BY <1>1, <1>2
<1>4. Len(Append(utf[e], [va |-> v, step |-> "alloc"])) = Len(utf[e]) + 1
  BY <1>1
<1>5. QED  BY <1>1, <1>3, <1>4, NoShorter

LEMMA StepRepairs ==
  ASSUME IInv, NEW e \in Env, Step(e)
  PROVE  Repaired
<1>0. IInv' /\ ForkType
  BY StepInv DEF IInv
<1>1. CASE UNCHANGED utf
  BY <1>0, <1>1, NoShorter
<1>2. ASSUME exit(e) PROVE Repaired
  <2>1. utf[e] = <<>> /\ utf' = [utf EXCEPT ![e] = <<>>]
    BY <1>2 DEF exit, ready, env_free
  <2>2. QED  BY <1>0, <2>1, NoShorter DEF ForkType
<1>3. ASSUME NEW v \in Writable, NEW x \in Val, store(e, v, x) PROVE Repaired
  BY <1>0, <1>1, <1>3, FaultGrows DEF store
<1>4. ASSUME write_fault(e) PROVE Repaired
  BY <1>0, <1>4, FaultGrows DEF write_fault
<1>5. ASSUME pgfault(e), UNCHANGED forks PROVE Repaired
  <2>1. ASSUME NEW s \in FaultSteps, utf[e] # <<>>, then(e, s) PROVE Repaired
    BY <1>0, <2>1, ThenStep, NoShorter
  <2>2. CASE pfentry_ret(e)
    <3>1. pt' = pt /\ pt[e][top(e).va].w
      BY <1>5, <2>2, PfentryRet
    <3>2. CASE Len(utf[e]) = 1 /\ ~pt[e]["stack"].w
      BY <1>0, <2>2, <3>2, FaultGrows DEF pfentry_ret
    <3>3. CASE ~(Len(utf[e]) = 1 /\ ~pt[e]["stack"].w)
      <4>1. utf' = [utf EXCEPT ![e] = SubSeq(@, 1, Len(@) - 1)]
        BY <2>2, <3>3 DEF pfentry_ret
      <4>2. \A d \in Env \ {e} : utf'[d] = utf[d]
        BY <1>0, <4>1 DEF ForkType
      <4>3. ASSUME NEW d \in Env \ {e} PROVE ~(Len(utf'[d]) < Len(utf[d]))
        <5>1. Len(utf[d]) \in Nat /\ utf'[d] = utf[d]
          BY <1>0, <4>2, Innermost
        <5>2. QED  BY <5>1
      <4>4. QED  BY <3>1, <4>3 DEF Repaired
    <3>4. QED  BY <3>2, <3>3
  <2>3. CASE UNCHANGED utf
    BY <1>1, <2>3
  <2>4. CASE pgfault_alloc(e)
    BY <2>1, <2>3, <2>4 DEF pgfault_alloc, panic, at, FaultSteps
  <2>5. CASE pgfault_copy(e)
    BY <2>1, <2>5 DEF pgfault_copy, at, FaultSteps
  <2>6. CASE pgfault_unmap(e)
    BY <2>1, <2>6 DEF pgfault_unmap, at, FaultSteps
  <2>7. CASE pgfault_map(e)
    BY <2>1, <2>7 DEF pgfault_map, at, FaultSteps
  <2>8. CASE pgfault_unmap_temp(e)
    BY <2>1, <2>8 DEF pgfault_unmap_temp, at, FaultSteps
  <2>9. QED  BY <1>5, <2>2, <2>4, <2>5, <2>6, <2>7, <2>8 DEF pgfault
<1>6. ASSUME fork(e) PROVE UNCHANGED utf
  BY <1>6 DEF fork, set_pgfault_handler, sys_exofork, dup_read, duppage, exception_stack, start_child,
              set_thisenv, no_mem, panic
<1>7. ASSUME call_fork(e) PROVE UNCHANGED utf
  BY <1>7 DEF call_fork
<1>8. QED  BY <1>1, <1>2, <1>3, <1>4, <1>5, <1>6, <1>7 DEF Step

\* A fault that returns has made its page writable.
THEOREM FaultsRepaired == Spec => FaultRepaired
<1>1. IInv /\ [Next]_vars => [Repaired]_vars
  BY StepRepairs DEF Next
<1>2. QED  BY <1>1, Invariant, PTL DEF Spec, FaultRepaired, Repaired

-----------------------------------------------------------------------------
(***************************************************************************)
(* The refinement.  The image of an environment is a function of its page  *)
(* table, its innermost fault and the contents of the pages it maps.       *)
(***************************************************************************)
Image(e) == IF Born(e) THEN [v \in Writable |-> mem[frame(e, v)]] ELSE NoEnv
Memory == [e \in Env |-> Image(e)]

LEMMA ImageOfBorn ==
  ASSUME IInv, NEW e \in Env
  PROVE  Born(e) <=> Image(e) # NoEnv
<1>1. ASSUME Born(e) PROVE Image(e) # NoEnv
  <2>1. ASSUME NEW v \in Writable PROVE mem[frame(e, v)] \in Val
    BY <1>1, FrameMapped, MappedPage DEF IInv
  <2>2. [v \in Writable |-> mem[frame(e, v)]] \in [Writable -> Val]
    BY <2>1
  <2>3. QED  BY <1>1, <2>2, ValAssumption DEF Image
<1>2. QED  BY <1>1 DEF Image

LEMMA ImageKept ==
  ASSUME NEW d \in Env, Born(d)' <=> Born(d), Born(d) => Stable(d)
  PROVE  Image(d)' = Image(d)
<1>1. Image(d)' = IF Born(d)' THEN [v \in Writable |-> mem'[frame(d, v)']] ELSE NoEnv
  BY DEF Image
<1>2. QED  BY <1>1 DEF Image, Stable

LEMMA ImagesStep ==
  ASSUME IInv, IInv', ImageStep
  PROVE  Images!Next \/ UNCHANGED Memory
<1>1. CASE SameImages
  <2>1. \A d \in Env : Image(d)' = Image(d)
    BY <1>1, ImageKept DEF SameImages
  <2>2. QED  BY <2>1 DEF Memory
<1>o. ASSUME NEW e \in Env, OthersSame(e) PROVE \A d \in Env \ {e} : Image(d)' = Image(d)
  BY <1>o, ImageKept DEF OthersSame
<1>2. ASSUME NEW e \in Env, Exits(e) PROVE Images!Next
  <2>1. Memory[e] # NoEnv /\ Image(e)' = NoEnv
    BY <1>2, ImageOfBorn DEF Exits, Memory, Image
  <2>2. Memory' = [Memory EXCEPT ![e] = NoEnv]
    BY <1>2, <1>o, <2>1 DEF Exits, Memory
  <2>3. Images!Exit(e)
    BY <2>1, <2>2 DEF Images!Exit, Memory, Image
  <2>4. QED  BY <2>3 DEF Images!Next
<1>3. ASSUME NEW e \in Env, NEW c \in Env, Copies(e, c) PROVE Images!Next
  <2>1. Memory[e] # NoEnv /\ Memory[c] = NoEnv
    BY <1>3, ImageOfBorn DEF Copies, Memory, Image
  <2>2. Image(c)' = Image(e)
    BY <1>3 DEF Copies, Image
  <2>3. Memory' = [Memory EXCEPT ![c] = Memory[e]]
    BY <1>3, <1>o, <2>2 DEF Copies, Memory
  <2>4. Images!Fork(e, c)
    BY <2>1, <2>3 DEF Images!Fork, Memory, Image
  <2>5. QED  BY <2>4 DEF Images!Next
<1>4. ASSUME NEW e \in Env, NEW v \in Writable, NEW x \in Val, Stores(e, v, x) PROVE Images!Next
  <2>1. Memory[e] # NoEnv /\ Memory[e] = [u \in Writable |-> mem[frame(e, u)]]
    BY <1>4, ImageOfBorn DEF Stores, Memory, Image
  <2>2. Image(e)' = [u \in Writable |-> mem'[frame(e, u)']]
    BY <1>4 DEF Stores, Image
  <2>3. Image(e)' = [Memory[e] EXCEPT ![v] = x]
    BY <1>4, <2>1, <2>2 DEF Stores
  <2>4. Memory' = [Memory EXCEPT ![e][v] = x]
    BY <1>4, <1>o, <2>3 DEF Stores, Memory
  <2>5. Images!Store(e, v, x)
    BY <2>1, <2>4 DEF Images!Store, Memory, Image
  <2>6. QED  BY <2>5 DEF Images!Next
<1>5. QED  BY <1>1, <1>2, <1>3, <1>4 DEF ImageStep

LEMMA ImagesInit == Init => Images!Init
<1> SUFFICES ASSUME Init PROVE Images!Init
  OBVIOUS
<1>0. IInv
  BY InitInv
<1>1. \A e \in Env : (Born(e) <=> e = First) /\ utf[e] = <<>>
  BY DEF Init, Born, Slots
<1>2. ASSUME NEW v \in Writable PROVE mem[frame(First, v)] = Zero
  <2>1. frame(First, v) \in Page
    BY <1>0, <1>1, EnvAssumption, FrameMapped, MappedPage DEF IInv
  <2>2. QED  BY <2>1 DEF Init
<1>3. Memory = [x \in Env |-> IF x = First THEN [v \in Writable |-> Zero] ELSE NoEnv]
  BY <1>1, <1>2 DEF Memory, Image
<1>4. QED  BY <1>3, EnvAssumption DEF Images!Init, Memory, Image

\* fork implements copying all memory at once: to the programs, copy-on-write
\* and its page faults are invisible.
THEOREM ForkImplementsCopy == Spec => ForkCopies
<1>1. IInv /\ IInv' /\ [Next]_vars => [Images!Next]_Memory
  <2> SUFFICES ASSUME IInv, IInv', [Next]_vars PROVE Images!Next \/ UNCHANGED Memory
    OBVIOUS
  <2>1. CASE ImageStep
    BY <2>1, ImagesStep
  <2>2. CASE UNCHANGED vars
    BY <2>2 DEF vars, Memory, Image, Born, frame, at, top
  <2>3. QED  BY <2>1, <2>2, StepPreserves
<1>2. QED  BY <1>1, Invariant, ImagesInit, PTL DEF Spec, ForkCopies, Images!Spec, Memory, Image
=============================================================================
