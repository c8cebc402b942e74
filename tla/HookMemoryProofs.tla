-------------------------- MODULE HookMemoryProofs --------------------------
(***************************************************************************)
(* Proofs about the memory hooks, for any memory of the GPU, any width of  *)
(* size_t and any number of addresses and list nodes: types for any number *)
(* of threads, and the accounting for an application that allocates and    *)
(* frees from one thread.                                                  *)
(***************************************************************************)
EXTENDS HookMemory, SequenceTheorems, FiniteSetTheorems, WellFoundedInduction, TLAPS

Entries == [node : Nodes, ptr : Ptrs, size : Sizes]

Frames ==
    [pc : {"out"} \cup AllocSteps \cup FreeSteps, size : SizeT,
     ptr : Ptrs \cup {Nil}, node : Nodes \cup {Nil}, reg : SizeT, tail : Nodes \cup {Nil}]

-----------------------------------------------------------------------------
(* The inductive invariants *)

(* Between the driver's call and the link of the node; after the driver's    *)
(* call and before the end of the walk                                       *)
Adding(h) == h.pc \in {"add", "addstore", "find", "link"}
Removing(h) == h.pc \in FreeSteps

FrameOK(h) ==
    /\ h.pc \in AllocSteps => h.size \in Sizes
    /\ Adding(h) \/ Removing(h) => h.ptr \in Ptrs
    /\ h.pc = "link" => h.node \in Nodes

MInv == MemTypeOK /\ \A t \in Threads : FrameOK(th[t])

(* One thread.  The list has the live allocations, except the one that is    *)
(* being added, and the one that is being removed.                           *)
ListOK(h, list, given) ==
    /\ \A i, j \in 1 .. Len(list) :
          list[i].ptr = list[j].ptr \/ list[i].node = list[j].node => i = j
    /\ \A i \in 1 .. Len(list) :
          list[i].size = given[list[i].ptr] \/ (Removing(h) /\ list[i].ptr = h.ptr)
    /\ \A p \in Ptrs : given[p] # 0 /\ ~(Adding(h) /\ h.ptr = p) =>
          \E i \in 1 .. Len(list) : list[i].ptr = p
    /\ Adding(h) => given[h.ptr] = h.size /\ \A i \in 1 .. Len(list) : list[i].ptr # h.ptr
    /\ Removing(h) => given[h.ptr] = 0
    /\ h.pc = "link" =>
          /\ \A i \in 1 .. Len(list) : list[i].node # h.node
          /\ h.tail = IF list = <<>> THEN Nil ELSE Last(list).node
    /\ h.pc = "sub" =>
          \E i \in 1 .. Len(list) :
              list[i].ptr = h.ptr /\ list[i].node = h.node /\ list[i].size = h.size

(* The sum is what is live, before the addition and the subtraction too *)
SumOK(h, list, sum, total) ==
    /\ total <= DriverCap /\ sum <= DriverCap
    /\ h.pc \in {"add", "addstore"} => sum + h.size = total
    /\ h.pc = "addstore" \/ h.pc = "sub" => h.reg = sum
    /\ Removing(h) /\ (\A i \in 1 .. Len(list) : list[i].ptr # h.ptr) => sum = total
    /\ Removing(h) =>
          \A i \in 1 .. Len(list) : list[i].ptr = h.ptr => sum = total + list[i].size
    /\ ~Removing(h) /\ h.pc \notin {"add", "addstore"} => sum = total

(* The limit is set before the first allocation, and does not change *)
LimitOK(h) ==
    /\ ~got_max_mem_size =>
          /\ LiveTotal = 0 /\ \A p \in Ptrs : live[p] = 0
          /\ h.pc \in {"out", "info", "reserve"}
    /\ got_max_mem_size => h.pc \notin {"info", "reserve"}
    /\ h.pc = "alloc" /\ ~single_oversub =>
          (sum_allocated + h.size) % SizeMod <= mem_allocatable
    /\ WithinLimit

SeqInv(t) ==
    /\ ListOK(th[t], cuda_allocation_list, live)
    /\ SumOK(th[t], cuda_allocation_list, sum_allocated, LiveTotal)
    /\ LimitOK(th[t])

-----------------------------------------------------------------------------
(* Numbers, and places in the list *)

LEMMA ModRange ==
    ASSUME NEW m \in Nat \ {0}, NEW a \in Int
    PROVE  a % m \in 0 .. m - 1 /\ (a \in 0 .. m - 1 => a % m = a)
OBVIOUS

LEMMA MinExists ==
    ASSUME NEW S \in SUBSET Nat, S # {}
    PROVE  Min(S) \in S
<1> DEFINE R == OpToRel(<, Nat)
<1>1. \A x, y \in Nat : <<y, x>> \in R <=> y < x
  BY DEF OpToRel
<1>2. IsWellFoundedOn(R, Nat)
  BY NatLessThanWellFounded
<1> HIDE DEF R
<1>3. PICK x \in S : \A y \in S : ~(<<y, x>> \in R)
  BY <1>2, WFMin
<1>4. \A y \in S : ~(y < x)
  BY <1>1, <1>3
<1>5. \A y \in S : x <= y
  BY <1>4
<1>6. QED
  BY <1>3, <1>5 DEF Min

(* RemoveAt() takes out one entry; the later ones move up *)
LEMMA RemoveAtEntries ==
    ASSUME NEW S, NEW q \in Seq(S), NEW i \in 1 .. Len(q)
    PROVE  /\ RemoveAt(q, i) \in Seq(S)
           /\ Len(RemoveAt(q, i)) = Len(q) - 1 /\ Len(q) \in Nat
           /\ \A j \in 1 .. Len(q) - 1 :
                 RemoveAt(q, i)[j] = IF j < i THEN q[j] ELSE q[j + 1]
<1> DEFINE a == SubSeq(q, 1, i - 1)
           b == SubSeq(q, i + 1, Len(q))
<1>1. a \in Seq(S) /\ Len(a) = i - 1 /\ \A j \in 1 .. i - 1 : a[j] = q[j]
  BY SubSeqProperties
<1>2. b \in Seq(S) /\ Len(b) = Len(q) - i /\ \A j \in 1 .. Len(q) - i : b[j] = q[i + j]
  BY SubSeqProperties
<1>3. RemoveAt(q, i) = a \o b /\ Len(q) \in Nat
  BY LenProperties DEF RemoveAt
<1> HIDE DEF a, b
<1>4. /\ a \o b \in Seq(S) /\ Len(a \o b) = Len(a) + Len(b)
      /\ \A j \in 1 .. Len(a) + Len(b) :
            (a \o b)[j] = IF j <= Len(a) THEN a[j] ELSE b[j - Len(a)]
  BY <1>1, <1>2, ConcatProperties
<1>5. Len(a \o b) = Len(q) - 1
  BY <1>1, <1>2, <1>3, <1>4
<1>6. ASSUME NEW j \in 1 .. Len(q) - 1
      PROVE  (a \o b)[j] = IF j < i THEN q[j] ELSE q[j + 1]
  <2>1. CASE j < i
    BY <1>1, <1>2, <1>3, <1>4, <2>1
  <2>2. CASE ~(j < i)
    <3>1. j - (i - 1) \in 1 .. Len(q) - i /\ i + (j - (i - 1)) = j + 1
      BY <1>3, <2>2
    <3>2. (a \o b)[j] = b[j - (i - 1)]
      BY <1>1, <1>2, <1>3, <1>4, <2>2
    <3>3. QED
      BY <1>2, <2>2, <3>1, <3>2
  <2>3. QED
    BY <2>1, <2>2
<1>7. QED
  BY <1>3, <1>4, <1>5, <1>6

LEMMA PositionOK ==
    ASSUME NEW n, cuda_allocation_list \in Seq(Entries)
    PROVE  \/ /\ Position(n) = 0
              /\ \A i \in 1 .. Len(cuda_allocation_list) : cuda_allocation_list[i].node # n
           \/ /\ Position(n) \in 1 .. Len(cuda_allocation_list)
              /\ cuda_allocation_list[Position(n)].node = n
<1>1. DOMAIN cuda_allocation_list = 1 .. Len(cuda_allocation_list)
  BY LenProperties
<1>2. QED
  BY <1>1 DEF Position

LEMMA EntryOK ==
    ASSUME NEW q \in Seq(Entries), NEW i \in 1 .. Len(q)
    PROVE  q[i] \in Entries /\ q[i].node \in Nodes /\ q[i].ptr \in Ptrs /\ q[i].size \in Sizes
<1>1. q[i] \in Entries
  BY ElementOfSeq
<1>2. QED
  BY <1>1 DEF Entries

LEMMA SizesOK ==
    /\ 0 \in SizeT /\ SizeMod \in Nat \ {0} /\ Sizes \subseteq SizeT
    /\ Total \in SizeT /\ Reserve \in Nat /\ DriverCap \in Nat /\ DriverCap < SizeMod
    /\ \A n \in Sizes : n \in Nat /\ n > 0
    /\ \A n \in Int : n % SizeMod \in SizeT
<1>1. /\ Total \in Nat /\ Reserve \in Nat /\ DriverCap \in Nat /\ SizeMod \in Nat
      /\ Reserve < Total /\ Total <= DriverCap /\ DriverCap < SizeMod
      /\ Sizes \subseteq 1 .. (SizeMod - 1)
  BY MemoryAssumption
<1>2. SizeMod \in Nat \ {0} /\ SizeT = 0 .. SizeMod - 1
  BY <1>1 DEF SizeT
<1>3. \A n \in Int : n % SizeMod \in SizeT
  BY <1>2, ModRange
<1>4. Sizes \subseteq SizeT /\ \A n \in Sizes : n \in Nat /\ n > 0
  BY <1>1, <1>2
<1>5. 0 \in SizeT /\ Total \in SizeT
  BY <1>1, <1>2
<1>6. QED
  BY <1>1, <1>2, <1>3, <1>4, <1>5

LEMMA SizeArithmetic ==
    ASSUME NEW a \in SizeT, NEW b \in Nat
    PROVE  a \in Nat /\ (a + b) % SizeMod \in SizeT /\ (a - b) % SizeMod \in SizeT
<1>1. a \in Nat /\ a + b \in Int /\ a - b \in Int
  BY SizesOK DEF SizeT
<1>2. QED
  BY <1>1, SizesOK

LEMMA NoWrap == \A k \in Nat : k <= DriverCap => k % SizeMod = k
<1>1. DriverCap \in Nat /\ SizeMod \in Nat \ {0} /\ DriverCap < SizeMod
  BY SizesOK
<1>2. \A k \in Nat : k <= DriverCap => k \in 0 .. SizeMod - 1
  BY <1>1
<1>3. QED
  BY <1>1, <1>2, ModRange

-----------------------------------------------------------------------------
(* Bytes *)

LEMMA BytesFinite ==
    ASSUME NEW f
    PROVE  IsFiniteSet(BytesOf(f)) /\ Cardinality(BytesOf(f)) \in Nat
<1>1. IsFiniteSet(SizeT)
  BY FS_Interval, SizesOK DEF SizeT
<1>2. IsFiniteSet(Ptrs \X SizeT)
  BY <1>1, FS_Product, MemoryAssumption
<1>3. BytesOf(f) \subseteq Ptrs \X SizeT
  BY DEF BytesOf
<1>4. QED
  BY <1>2, <1>3, FS_Subset, FS_CardinalityType

(* n bytes at a free address are n bytes more *)
LEMMA MoreBytes ==
    ASSUME NEW f \in [Ptrs -> SizeT], NEW p \in Ptrs, f[p] = 0, NEW n \in SizeT
    PROVE  Cardinality(BytesOf([f EXCEPT ![p] = n])) = Cardinality(BytesOf(f)) + n
<1> DEFINE g == [f EXCEPT ![p] = n]
           B == {p} \X (0 .. n - 1)
<1>1. n \in Nat /\ SizeT = 0 .. SizeMod - 1 /\ SizeMod \in Nat /\ n <= SizeMod - 1
  BY SizesOK DEF SizeT
<1>2. \A k : k \in 0 .. n - 1 <=> k \in SizeT /\ k < n
  BY <1>1
<1>3. BytesOf(g) = BytesOf(f) \cup B
  <2>1. ASSUME NEW b \in Ptrs \X SizeT PROVE b[2] < g[b[1]] <=> b[2] < f[b[1]] \/ b \in B
    <3>1. b[1] \in Ptrs /\ b[2] \in SizeT /\ b = <<b[1], b[2]>>
      OBVIOUS
    <3>2. b \in B <=> b[1] = p /\ b[2] \in 0 .. n - 1
      BY <3>1
    <3>3. CASE b[1] = p
      <4>1. g[b[1]] = n /\ f[b[1]] = 0
        BY <3>3
      <4>2. ~(b[2] < 0)
        BY <1>1, <3>1
      <4>3. QED
        BY <1>2, <3>1, <3>2, <3>3, <4>1, <4>2
    <3>4. CASE b[1] # p
      BY <3>1, <3>2, <3>4
    <3>5. QED
      BY <3>3, <3>4
  <2>2. B \subseteq Ptrs \X SizeT
    BY <1>2
  <2>3. QED
    BY <2>1, <2>2 DEF BytesOf
<1>4. BytesOf(f) \cap B = {}
  <2>1. ASSUME NEW b \in BytesOf(f), b \in B PROVE FALSE
    <3>1. b[1] = p /\ b[2] \in SizeT /\ b[2] < f[b[1]]
      BY <2>1 DEF BytesOf
    <3>2. QED
      BY <1>1, <3>1
  <2>2. QED
    BY <2>1
<1>5. IsFiniteSet(B) /\ Cardinality(B) = n
  <2>1. IsFiniteSet(0 .. n - 1) /\ Cardinality(0 .. n - 1) = n
    <3>1. 0 \in Int /\ n - 1 \in Int
      BY <1>1
    <3>2. /\ IsFiniteSet(0 .. n - 1)
          /\ Cardinality(0 .. n - 1) = IF 0 > n - 1 THEN 0 ELSE (n - 1) - 0 + 1
      BY <3>1, FS_Interval
    <3>3. QED
      BY <1>1, <3>2
  <2>2. IsFiniteSet({p}) /\ Cardinality({p}) = 1
    BY FS_Singleton
  <2>3. /\ IsFiniteSet({p} \X (0 .. n - 1))
        /\ Cardinality({p} \X (0 .. n - 1)) = Cardinality({p}) * Cardinality(0 .. n - 1)
    BY <2>1, <2>2, FS_Product, Zenon
  <2>4. Cardinality({p}) * Cardinality(0 .. n - 1) = n
    BY <1>1, <2>1, <2>2
  <2>5. QED
    BY <2>3, <2>4, Zenon
<1> HIDE DEF B, g
<1>6. Cardinality(BytesOf(f) \cup B)
        = Cardinality(BytesOf(f)) + Cardinality(B) - Cardinality(BytesOf(f) \cap B)
  BY <1>5, BytesFinite, FS_Union
<1>7. Cardinality(BytesOf(f) \cap B) = 0
  BY <1>4, FS_EmptySet
<1>8. Cardinality(BytesOf(f)) \in Nat
  BY BytesFinite
<1>9. Cardinality(BytesOf(g)) = Cardinality(BytesOf(f)) + n
  BY <1>1, <1>3, <1>5, <1>6, <1>7, <1>8
<1>10. QED
  BY <1>9 DEF g

(* and the n bytes of an address that is freed are n bytes less *)
LEMMA LessBytes ==
    ASSUME NEW f \in [Ptrs -> SizeT], NEW p \in Ptrs
    PROVE  Cardinality(BytesOf(f)) = Cardinality(BytesOf([f EXCEPT ![p] = 0])) + f[p]
<1> DEFINE g == [f EXCEPT ![p] = 0]
<1>1. g \in [Ptrs -> SizeT] /\ g[p] = 0 /\ f[p] \in SizeT
  BY SizesOK
<1>2. f = [g EXCEPT ![p] = f[p]]
  OBVIOUS
<1> HIDE DEF g
<1>3. Cardinality(BytesOf([g EXCEPT ![p] = f[p]])) = Cardinality(BytesOf(g)) + f[p]
  BY <1>1, MoreBytes
<1>4. QED
  BY <1>2, <1>3 DEF g

LEMMA NoBytes ==
    ASSUME NEW f, \A p \in Ptrs : f[p] = 0
    PROVE  Cardinality(BytesOf(f)) = 0
<1>1. ASSUME NEW b \in BytesOf(f) PROVE FALSE
  <2>1. b[1] \in Ptrs /\ b[2] \in SizeT /\ b[2] < f[b[1]]
    BY DEF BytesOf
  <2>2. QED
    BY <2>1, SizesOK DEF SizeT
<1>2. BytesOf(f) = {}
  BY <1>1
<1>3. QED
  BY <1>2, FS_EmptySet

-----------------------------------------------------------------------------
(* Types, for any number of threads *)

(* What every step has to show: its frame, and what it writes *)
LEMMA MInvStep ==
    ASSUME MInv, NEW t \in Threads, NEW h \in Frames, FrameOK(h), th' = [th EXCEPT ![t] = h],
           cuda_allocation_list' \in Seq(Entries), sum_allocated' \in SizeT,
           mem_allocatable' \in SizeT, got_max_mem_size' \in BOOLEAN,
           single_oversub' \in BOOLEAN, live' \in [Ptrs -> Sizes \cup {0}]
    PROVE  MInv'
<1>1. th \in [Threads -> Frames] /\ \A u \in Threads : FrameOK(th[u])
  BY DEF MInv, MemTypeOK, Frames
<1>2. th' \in [Threads -> Frames] /\ \A u \in Threads : th'[u] = h \/ th'[u] = th[u]
  BY <1>1
<1>3. \A u \in Threads : FrameOK(th'[u])
  BY <1>1, <1>2
<1>4. MemTypeOK'
  BY <1>2 DEF MemTypeOK, Frames, Entries
<1>5. QED
  BY <1>3, <1>4 DEF MInv, FrameOK, Adding, Removing

LEMMA MInvTypes ==
    ASSUME MInv, NEW t \in Threads
    PROVE  /\ th \in [Threads -> Frames] /\ th[t] \in Frames /\ FrameOK(th[t])
           /\ cuda_allocation_list \in Seq(Entries) /\ sum_allocated \in SizeT
           /\ mem_allocatable \in SizeT /\ got_max_mem_size \in BOOLEAN
           /\ single_oversub \in BOOLEAN /\ live \in [Ptrs -> Sizes \cup {0}]
<1>1. th \in [Threads -> Frames]
  BY DEF MInv, MemTypeOK, Frames
<1>2. QED
  BY <1>1 DEF MInv, MemTypeOK, Entries

LEMMA OutsideOK == Outside \in Frames /\ FrameOK(Outside)
<1>1. Outside \in Frames
  BY SizesOK DEF Outside, Frames
<1>2. QED
  BY <1>1 DEF Outside, FrameOK, Adding, Removing, AllocSteps, FreeSteps

LEMMA MInvInit == MemInit => MInv
<1> SUFFICES ASSUME MemInit PROVE MInv
  OBVIOUS
<1>1. th \in [Threads -> Frames] /\ \A u \in Threads : FrameOK(th[u])
  BY OutsideOK DEF MemInit
<1>2. cuda_allocation_list \in Seq(Entries)
  BY DEF MemInit
<1>3. MemTypeOK
  BY <1>1, <1>2, SizesOK DEF MemInit, MemTypeOK, Frames, Entries
<1>4. QED
  BY <1>1, <1>3 DEF MInv

(* What LL_APPEND and the walk of remove_cuda_allocation() find *)
LEMMA LastNode ==
    ASSUME MInv
    PROVE  (IF cuda_allocation_list = <<>> THEN Nil ELSE Last(cuda_allocation_list).node)
              \in Nodes \cup {Nil}
<1>1. cuda_allocation_list \in Seq(Entries)
  BY DEF MInv, MemTypeOK, Entries
<1>2. CASE cuda_allocation_list # <<>>
  <2>1. Len(cuda_allocation_list) \in 1 .. Len(cuda_allocation_list)
    BY <1>1, <1>2, EmptySeq, LenProperties
  <2>2. QED
    BY <1>1, <1>2, <2>1, EntryOK DEF Last
<1>3. QED
  BY <1>2

LEMMA FoundFrame ==
    ASSUME MInv, NEW t \in Threads, RemoveFind(t)
    PROVE  \/ /\ th' = [th EXCEPT ![t] = Outside]
              /\ \A i \in 1 .. Len(cuda_allocation_list) :
                    cuda_allocation_list[i].ptr # th[t].ptr
           \/ \E i \in 1 .. Len(cuda_allocation_list) :
                 /\ cuda_allocation_list[i].ptr = th[t].ptr
                 /\ th' = [th EXCEPT ![t] = [th[t] EXCEPT !.node = cuda_allocation_list[i].node,
                                                          !.size = cuda_allocation_list[i].size,
                                                          !.reg = sum_allocated, !.pc = "sub"]]
<1> DEFINE found == {i \in DOMAIN cuda_allocation_list :
                        cuda_allocation_list[i].ptr = th[t].ptr}
           F(i) == [th EXCEPT ![t] = [th[t] EXCEPT !.node = cuda_allocation_list[i].node,
                                                   !.size = cuda_allocation_list[i].size,
                                                   !.reg = sum_allocated, !.pc = "sub"]]
<1>1. /\ DOMAIN cuda_allocation_list = 1 .. Len(cuda_allocation_list)
      /\ Len(cuda_allocation_list) \in Nat
  BY MInvTypes, LenProperties
<1>2. found \in SUBSET Nat
  BY <1>1
<1>3. found # {} => Min(found) \in found
  BY <1>2, MinExists, Zenon
<1>4. IF found = {} THEN th' = [th EXCEPT ![t] = Outside] ELSE th' = F(Min(found))
  BY DEF RemoveFind
<1>5. CASE found = {}
  BY <1>1, <1>4, <1>5
<1>6. CASE found # {}
  <2>1. th' = F(Min(found)) /\ Min(found) \in found
    BY <1>3, <1>4, <1>6, Zenon
  <2>2. PICK i \in found : th' = F(i)
    BY <2>1, Zenon
  <2>3. QED
    BY <1>1, <2>2
<1>7. QED
  BY <1>5, <1>6

LEMMA MInvNext == MInv /\ [MemNext]_memVars => MInv'
<1> SUFFICES ASSUME MInv, [MemNext]_memVars PROVE MInv'
  OBVIOUS
<1>1. ASSUME NEW t \in Threads, CallAlloc(t) PROVE MInv'
  <2>1. PICK n \in Sizes :
           th' = [th EXCEPT ![t].size = n,
                            ![t].pc = IF got_max_mem_size THEN "check" ELSE "info"]
    BY <1>1 DEF CallAlloc
  <2> DEFINE c == IF got_max_mem_size THEN "check" ELSE "info"
             h == [th[t] EXCEPT !.size = n, !.pc = c]
  <2>2. c \in {"check", "info"}
    OBVIOUS
  <2>3. th' = [th EXCEPT ![t] = h]
    BY <2>1, MInvTypes DEF Frames
  <2> HIDE DEF c
  <2>4. h \in Frames /\ FrameOK(h)
    BY <2>2, MInvTypes, SizesOK DEF Frames, FrameOK, Adding, Removing, AllocSteps, FreeSteps
  <2> HIDE DEF h
  <2>5. QED
    BY <1>1, <2>3, <2>4, MInvTypes, MInvStep DEF CallAlloc
<1>2. ASSUME NEW t \in Threads, InfoReal(t) PROVE MInv'
  <2>1. PICK r \in SizeT : th' = [th EXCEPT ![t].reg = r, ![t].pc = "reserve"]
    BY <1>2, SizesOK DEF InfoReal
  <2>2. mem_allocatable' \in SizeT
    BY <1>2, MInvTypes, MemoryAssumption DEF InfoReal, SizeT
  <2> DEFINE h == [th[t] EXCEPT !.reg = r, !.pc = "reserve"]
  <2>3. th' = [th EXCEPT ![t] = h]
    BY <2>1, MInvTypes DEF Frames
  <2>4. h \in Frames /\ FrameOK(h)
    <3>1. th[t] \in Frames /\ FrameOK(th[t]) /\ th[t].pc = "info"
      BY <1>2, MInvTypes DEF InfoReal
    <3>2. h \in Frames
      BY <3>1 DEF Frames, AllocSteps
    <3>3. h.pc = "reserve" /\ h.size = th[t].size /\ th[t].size \in Sizes
      BY <3>1 DEF Frames, FrameOK, AllocSteps
    <3> HIDE DEF h
    <3>4. QED
      BY <3>2, <3>3 DEF FrameOK, Adding, Removing, FreeSteps
  <2> HIDE DEF h
  <2>5. QED
    BY <1>2, <2>2, <2>3, <2>4, MInvTypes, MInvStep DEF InfoReal
<1>3. ASSUME NEW t \in Threads, InfoReserve(t) PROVE MInv'
  <2>1. (th[t].reg - Reserve) % SizeMod \in SizeT
    <3>1. th[t].reg \in SizeT /\ th[t].size \in SizeT
      BY MInvTypes DEF Frames
    <3>2. QED
      BY <3>1, SizeArithmetic, SizesOK
  <2> DEFINE h == [th[t] EXCEPT !.reg = 0, !.pc = "check"]
  <2>2. th' = [th EXCEPT ![t] = h]
    BY <1>3, MInvTypes DEF Frames, InfoReserve
  <2>3. h \in Frames /\ FrameOK(h)
    BY <1>3, MInvTypes, SizesOK
    DEF InfoReserve, Frames, FrameOK, Adding, Removing, AllocSteps, FreeSteps
  <2> HIDE DEF h
  <2>4. QED
    BY <1>3, <2>1, <2>2, <2>3, MInvTypes, MInvStep DEF InfoReserve
<1>4. ASSUME NEW t \in Threads, Check(t) PROVE MInv'
  <2>1. PICK h \in {Outside, [th[t] EXCEPT !.pc = "alloc"]} : th' = [th EXCEPT ![t] = h]
    BY <1>4 DEF Check
  <2>2. [th[t] EXCEPT !.pc = "alloc"] \in Frames /\ FrameOK([th[t] EXCEPT !.pc = "alloc"])
    BY <1>4, MInvTypes DEF Check, Frames, FrameOK, Adding, Removing, AllocSteps, FreeSteps
  <2>3. h \in Frames /\ FrameOK(h)
    BY <2>1, <2>2, OutsideOK
  <2>4. QED
    BY <1>4, <2>1, <2>3, MInvTypes, MInvStep DEF Check
<1>5. ASSUME NEW t \in Threads, AllocReal(t) PROVE MInv'
  <2>1. CASE th' = [th EXCEPT ![t] = Outside] /\ live' = live
    BY <1>5, <2>1, OutsideOK, MInvTypes, MInvStep DEF AllocReal
  <2>2. ASSUME NEW p \in Ptrs, live' = [live EXCEPT ![p] = th[t].size],
               th' = [th EXCEPT ![t].ptr = p, ![t].pc = "add"]
        PROVE  MInv'
    <3> DEFINE h == [th[t] EXCEPT !.ptr = p, !.pc = "add"]
    <3>1. th[t].size \in Sizes
      BY <1>5, MInvTypes DEF AllocReal, FrameOK, AllocSteps
    <3>2. live' \in [Ptrs -> Sizes \cup {0}]
      BY <2>2, <3>1, MInvTypes
    <3>3. th' = [th EXCEPT ![t] = h]
      BY <2>2, MInvTypes DEF Frames
    <3>4. h \in Frames /\ FrameOK(h)
      BY <3>1, MInvTypes DEF Frames, FrameOK, Adding, Removing, AllocSteps, FreeSteps
    <3> HIDE DEF h
    <3>5. QED
      BY <1>5, <3>2, <3>3, <3>4, MInvTypes, MInvStep DEF AllocReal
  <2>3. QED
    BY <1>5, <2>1, <2>2 DEF AllocReal
<1>6. ASSUME NEW t \in Threads, AddLoad(t) PROVE MInv'
  <2> DEFINE h == [th[t] EXCEPT !.reg = sum_allocated, !.pc = "addstore"]
  <2>1. th' = [th EXCEPT ![t] = h]
    BY <1>6, MInvTypes DEF Frames, AddLoad
  <2>2. h \in Frames /\ FrameOK(h)
    BY <1>6, MInvTypes
    DEF AddLoad, Frames, FrameOK, Adding, Removing, AllocSteps, FreeSteps
  <2> HIDE DEF h
  <2>3. QED
    BY <1>6, <2>1, <2>2, MInvTypes, MInvStep DEF AddLoad
<1>7. ASSUME NEW t \in Threads, AddStore(t) PROVE MInv'
  <2>1. (th[t].reg + th[t].size) % SizeMod \in SizeT
    <3>1. th[t].reg \in SizeT /\ th[t].size \in SizeT
      BY MInvTypes DEF Frames
    <3>2. QED
      BY <3>1, SizeArithmetic, SizesOK
  <2> DEFINE h == [th[t] EXCEPT !.reg = 0, !.pc = "find"]
  <2>2. th' = [th EXCEPT ![t] = h]
    BY <1>7, MInvTypes DEF Frames, AddStore
  <2>3. h \in Frames /\ FrameOK(h)
    BY <1>7, MInvTypes, SizesOK
    DEF AddStore, Frames, FrameOK, Adding, Removing, AllocSteps, FreeSteps
  <2> HIDE DEF h
  <2>4. QED
    BY <1>7, <2>1, <2>2, <2>3, MInvTypes, MInvStep DEF AddStore
<1>8. ASSUME NEW t \in Threads, AppendFind(t) PROVE MInv'
  <2>1. PICK n \in Nodes, z \in Nodes \cup {Nil} :
           th' = [th EXCEPT ![t].node = n, ![t].tail = z, ![t].pc = "link"]
    BY <1>8, LastNode DEF AppendFind
  <2> DEFINE h == [th[t] EXCEPT !.node = n, !.tail = z, !.pc = "link"]
  <2>2. th' = [th EXCEPT ![t] = h]
    BY <2>1, MInvTypes DEF Frames
  <2>3. h \in Frames /\ FrameOK(h)
    BY <1>8, MInvTypes
    DEF AppendFind, Frames, FrameOK, Adding, Removing, AllocSteps, FreeSteps
  <2> HIDE DEF h
  <2>4. QED
    BY <1>8, <2>2, <2>3, MInvTypes, MInvStep DEF AppendFind
<1>9. ASSUME NEW t \in Threads, AppendLink(t) PROVE MInv'
  <2> DEFINE e == [node |-> th[t].node, ptr |-> th[t].ptr, size |-> th[t].size]
             q == cuda_allocation_list
  <2>1. e \in Entries
    BY <1>9, MInvTypes DEF AppendLink, FrameOK, Adding, AllocSteps, Entries
  <2>2. q \in Seq(Entries)
    BY MInvTypes
  <2>3. Position(th[t].tail) \in 0 .. Len(q)
    BY <2>2, PositionOK, LenProperties
  <2> HIDE DEF e
  <2>4. SubSeq(q, 1, Position(th[t].tail)) \in Seq(Entries)
    BY <2>2, <2>3, SubSeqProperties
  <2>5. Append(SubSeq(q, 1, Position(th[t].tail)), e) \in Seq(Entries)
    BY <2>1, <2>4, AppendProperties
  <2>6. cuda_allocation_list' \in Seq(Entries)
    BY <1>9, <2>2, <2>5 DEF AppendLink, e
  <2>7. QED
    BY <1>9, <2>6, OutsideOK, MInvTypes, MInvStep DEF AppendLink
<1>10. ASSUME NEW t \in Threads, CallFree(t) PROVE MInv'
  <2>1. PICK p \in Ptrs : /\ live' = [live EXCEPT ![p] = 0]
                          /\ th' = [th EXCEPT ![t].ptr = p, ![t].pc = "remove"]
    BY <1>10 DEF CallFree
  <2> DEFINE h == [th[t] EXCEPT !.ptr = p, !.pc = "remove"]
  <2>2. live' \in [Ptrs -> Sizes \cup {0}]
    BY <2>1, MInvTypes
  <2>3. th' = [th EXCEPT ![t] = h]
    BY <2>1, MInvTypes DEF Frames
  <2>4. h \in Frames /\ FrameOK(h)
    BY MInvTypes DEF Frames, FrameOK, Adding, Removing, AllocSteps, FreeSteps
  <2> HIDE DEF h
  <2>5. QED
    BY <1>10, <2>2, <2>3, <2>4, MInvTypes, MInvStep DEF CallFree
<1>11. ASSUME NEW t \in Threads, RemoveFind(t) PROVE MInv'
  <2>1. CASE th' = [th EXCEPT ![t] = Outside]
    BY <1>11, <2>1, OutsideOK, MInvTypes, MInvStep DEF RemoveFind
  <2>2. ASSUME NEW i \in 1 .. Len(cuda_allocation_list),
               th' = [th EXCEPT ![t] = [th[t] EXCEPT !.node = cuda_allocation_list[i].node,
                                                     !.size = cuda_allocation_list[i].size,
                                                     !.reg = sum_allocated, !.pc = "sub"]]
        PROVE  MInv'
    <3> DEFINE h == [th[t] EXCEPT !.node = cuda_allocation_list[i].node,
                                  !.size = cuda_allocation_list[i].size,
                                  !.reg = sum_allocated, !.pc = "sub"]
    <3>1. cuda_allocation_list[i].node \in Nodes /\ cuda_allocation_list[i].size \in SizeT
      BY MInvTypes, EntryOK, SizesOK
    <3>2. th[t] \in Frames /\ th[t].ptr \in Ptrs /\ sum_allocated \in SizeT
      BY <1>11, MInvTypes DEF RemoveFind, FrameOK, Removing, FreeSteps
    <3>3. h \in Frames
      BY <3>1, <3>2 DEF Frames, FreeSteps
    <3>4. h.pc = "sub" /\ h.ptr = th[t].ptr
      BY <3>2 DEF Frames
    <3>5. th' = [th EXCEPT ![t] = h]
      BY <2>2
    <3> HIDE DEF h
    <3>6. FrameOK(h)
      BY <3>2, <3>4 DEF FrameOK, AllocSteps
    <3>7. QED
      BY <1>11, <3>3, <3>5, <3>6, MInvTypes, MInvStep DEF RemoveFind
  <2>3. QED
    BY <1>11, <2>1, <2>2, FoundFrame
<1>12. ASSUME NEW t \in Threads, RemoveStore(t) PROVE MInv'
  <2>1. (th[t].reg - th[t].size) % SizeMod \in SizeT
    <3>1. th[t].reg \in SizeT /\ th[t].size \in SizeT
      BY MInvTypes DEF Frames
    <3>2. QED
      BY <3>1, SizeArithmetic, SizesOK
  <2>2. Unlinked(th[t].node) \in Seq(Entries)
    BY MInvTypes, PositionOK, RemoveAtEntries DEF Unlinked
  <2> DEFINE h == [th[t] EXCEPT !.node = Nil, !.size = 0, !.reg = 0, !.pc = "remove"]
  <2>3. th' = [th EXCEPT ![t] = h]
    BY <1>12, MInvTypes DEF Frames, RemoveStore
  <2>4. h \in Frames /\ FrameOK(h)
    BY <1>12, MInvTypes, SizesOK
    DEF RemoveStore, Frames, FrameOK, Adding, Removing, AllocSteps, FreeSteps
  <2> HIDE DEF h
  <2>5. QED
    BY <1>12, <2>1, <2>2, <2>3, <2>4, MInvTypes, MInvStep DEF RemoveStore
<1>13. CASE UNCHANGED memVars
  BY <1>13 DEF memVars, MInv, MemTypeOK, FrameOK, Adding, Removing
<1>14. QED
  BY <1>1, <1>2, <1>3, <1>4, <1>5, <1>6, <1>7, <1>8, <1>9, <1>10, <1>11, <1>12, <1>13
  DEF MemNext

(* Each thread's local variables and the shared accounting keep their types  *)
(* through every interleaving of cuMemAlloc(), cuMemFree() and               *)
(* cuMemGetInfo(): sum_allocated and nvshare_size_mem_allocatable are size_t *)
(* values whatever wraps around, and a node is linked only with an address   *)
(* and a size the driver has granted.                                        *)
THEOREM MemTypeCorrect == MemSpec => []MemTypeOK
<1>1. MemInit => MInv
  BY MInvInit
<1>2. MInv /\ [MemNext]_memVars => MInv'
  BY MInvNext
<1>3. MInv => MemTypeOK
  BY DEF MInv
<1>4. QED
  BY <1>1, <1>2, <1>3, PTL DEF MemSpec

-----------------------------------------------------------------------------
(* One thread: the accounting *)

LEMMA LiveTypes ==
    ASSUME MInv, NEW t \in Threads
    PROVE  /\ live \in [Ptrs -> SizeT] /\ LiveTotal \in Nat
           /\ LiveTotal = Cardinality(BytesOf(live))
           /\ LiveTotal' = Cardinality(BytesOf(live'))
           /\ sum_allocated \in Nat /\ mem_allocatable \in Nat
<1>1. live \in [Ptrs -> SizeT]
  BY MInvTypes, SizesOK
<1>2. LiveTotal \in Nat
  BY BytesFinite DEF LiveTotal
<1>3. sum_allocated \in Nat /\ mem_allocatable \in Nat
  BY MInvTypes, SizesOK DEF SizeT
<1>4. LiveTotal' = Cardinality(BytesOf(live'))
  BY DEF LiveTotal, BytesOf
<1>5. QED
  BY <1>1, <1>2, <1>3, <1>4 DEF LiveTotal

LEMMA SeqInvPrime ==
    ASSUME NEW t, ListOK(th'[t], cuda_allocation_list', live'),
           SumOK(th'[t], cuda_allocation_list', sum_allocated', LiveTotal'), LimitOK(th[t])'
    PROVE  SeqInv(t)'
BY DEF SeqInv, ListOK, SumOK, Adding, Removing

(* Steps before the driver's call *)
LEMMA CalmStep ==
    ASSUME NEW t \in Threads, SeqInv(t),
           UNCHANGED <<cuda_allocation_list, sum_allocated, live>>,
           ~Adding(th[t]), ~Removing(th[t]), ~Adding(th'[t]), ~Removing(th'[t]),
           LimitOK(th[t])'
    PROVE  SeqInv(t)'
<1>1. LiveTotal' = LiveTotal
  BY DEF LiveTotal, BytesOf
<1>2. ListOK(th'[t], cuda_allocation_list', live')
  <2>1. th'[t].pc # "link" /\ th'[t].pc # "sub"
    BY DEF Adding, Removing, FreeSteps
  <2>2. QED
    BY <2>1 DEF SeqInv, ListOK
<1>3. SumOK(th'[t], cuda_allocation_list', sum_allocated', LiveTotal')
  <2>1. th[t].pc \notin {"add", "addstore"} /\ th'[t].pc \notin {"add", "addstore", "sub"}
    BY DEF Adding, Removing, FreeSteps
  <2>2. QED
    BY <1>1, <2>1 DEF SeqInv, SumOK
<1>4. QED
  BY <1>2, <1>3, SeqInvPrime

LEMMA SeqCallAlloc ==
    ASSUME NEW t \in Threads, MInv, SeqInv(t), CallAlloc(t)
    PROVE  SeqInv(t)'
<1>1. th[t].pc = "out" /\ th'[t].pc = IF got_max_mem_size THEN "check" ELSE "info"
  BY MInvTypes DEF CallAlloc, Frames
<1>2. LiveTotal' = LiveTotal
  BY DEF CallAlloc, LiveTotal, BytesOf
<1>3. LimitOK(th[t])'
  BY <1>1, <1>2 DEF SeqInv, LimitOK, WithinLimit, CallAlloc
<1>4. QED
  BY <1>1, <1>3, CalmStep DEF CallAlloc, Adding, Removing, FreeSteps

LEMMA SeqInfoReal ==
    ASSUME NEW t \in Threads, MInv, SeqInv(t), InfoReal(t)
    PROVE  SeqInv(t)'
<1>1. th[t].pc = "info" /\ th'[t].pc = "reserve"
  <2>1. PICK z : th' = [th EXCEPT ![t].reg = z, ![t].pc = "reserve"]
    BY DEF InfoReal
  <2>2. th \in [Threads -> Frames]
    BY MInvTypes
  <2>3. th'[t].pc = "reserve"
    BY <2>1, <2>2 DEF Frames
  <2>4. QED
    BY <2>3 DEF InfoReal
<1>2. ~got_max_mem_size /\ got_max_mem_size' = got_max_mem_size
  BY <1>1, MInvTypes DEF SeqInv, LimitOK, InfoReal
<1>3. LiveTotal = 0 /\ LiveTotal' = LiveTotal /\ \A p \in Ptrs : live'[p] = 0
  BY <1>2 DEF SeqInv, LimitOK, InfoReal, LiveTotal, BytesOf
<1>4. LiveTotal' <= Total - Reserve
  BY <1>3, MemoryAssumption
<1>5. LimitOK(th[t])'
  BY <1>1, <1>2, <1>3, <1>4 DEF LimitOK, WithinLimit
<1>6. QED
  BY <1>1, <1>5, CalmStep DEF InfoReal, Adding, Removing, FreeSteps

LEMMA SeqInfoReserve ==
    ASSUME NEW t \in Threads, MInv, SeqInv(t), InfoReserve(t)
    PROVE  SeqInv(t)'
<1>1. th[t].pc = "reserve" /\ th'[t].pc = "check"
  BY MInvTypes DEF InfoReserve, Frames
<1>2. ~got_max_mem_size /\ got_max_mem_size' = TRUE
  BY <1>1, MInvTypes DEF SeqInv, LimitOK, InfoReserve
<1>3. LiveTotal = 0 /\ LiveTotal' = LiveTotal
  BY <1>2 DEF SeqInv, LimitOK, InfoReserve, LiveTotal, BytesOf
<1>4. LiveTotal' <= Total - Reserve
  BY <1>3, MemoryAssumption
<1>5. LimitOK(th[t])'
  BY <1>1, <1>2, <1>4 DEF LimitOK, WithinLimit
<1>6. QED
  BY <1>1, <1>5, CalmStep DEF InfoReserve, Adding, Removing, FreeSteps

LEMMA SeqCheck ==
    ASSUME NEW t \in Threads, MInv, SeqInv(t), Check(t)
    PROVE  SeqInv(t)'
<1>1. /\ th[t].pc = "check"
      /\ \/ th'[t].pc = "out"
         \/ /\ th'[t].pc = "alloc" /\ th'[t].size = th[t].size
            /\ ~((sum_allocated + th[t].size) % SizeMod > mem_allocatable /\ ~single_oversub)
  BY MInvTypes DEF Check, Frames, Outside
<1>2. LiveTotal' = LiveTotal
  BY DEF Check, LiveTotal, BytesOf
<1>3. got_max_mem_size /\ WithinLimit
  BY <1>1, MInvTypes DEF SeqInv, LimitOK
<1>4. WithinLimit' /\ got_max_mem_size'
  BY <1>2, <1>3 DEF WithinLimit, Check
<1>5. ASSUME th'[t].pc = "alloc", ~single_oversub
      PROVE  (sum_allocated + th'[t].size) % SizeMod <= mem_allocatable
  <2>1. (sum_allocated + th[t].size) % SizeMod \in SizeT /\ mem_allocatable \in SizeT
    BY MInvTypes, SizeArithmetic, SizesOK DEF Frames
  <2>2. \A a, b \in SizeT : ~(a > b) => a <= b
    BY SizesOK DEF SizeT
  <2>3. ~((sum_allocated + th[t].size) % SizeMod > mem_allocatable)
    BY <1>1, <1>5
  <2>4. th'[t].size = th[t].size
    BY <1>1, <1>5
  <2>5. QED
    BY <2>1, <2>2, <2>3, <2>4, Zenon
<1>6. LimitOK(th[t])'
  BY <1>1, <1>4, <1>5 DEF LimitOK, Check
<1>7. QED
  BY <1>1, <1>6, CalmStep DEF Check, Adding, Removing, FreeSteps

LEMMA SeqAllocReal ==
    ASSUME NEW t \in Threads, MInv, SeqInv(t), AllocReal(t)
    PROVE  SeqInv(t)'
<1>1. th[t].pc = "alloc" /\ th[t].size \in Sizes /\ got_max_mem_size
  BY MInvTypes DEF AllocReal, FrameOK, AllocSteps, SeqInv, LimitOK
<1>2. ~Adding(th[t]) /\ ~Removing(th[t])
  BY <1>1 DEF Adding, Removing, FreeSteps
<1>3. ASSUME th' = [th EXCEPT ![t] = Outside], live' = live PROVE SeqInv(t)'
  <2>1. th'[t].pc = "out" /\ LiveTotal' = LiveTotal
    BY <1>3, MInvTypes DEF Outside, LiveTotal, BytesOf
  <2>2. LimitOK(th[t])'
    BY <1>1, <2>1 DEF AllocReal, SeqInv, LimitOK, WithinLimit
  <2>3. QED
    BY <1>2, <1>3, <2>1, <2>2, CalmStep DEF AllocReal, Adding, Removing, FreeSteps
<1>4. ASSUME NEW p \in Ptrs, LiveTotal + th[t].size <= DriverCap, live[p] = 0,
             live' = [live EXCEPT ![p] = th[t].size],
             th' = [th EXCEPT ![t].ptr = p, ![t].pc = "add"]
      PROVE  SeqInv(t)'
  <2> DEFINE q == cuda_allocation_list
  <2>1. th'[t].pc = "add" /\ th'[t].ptr = p /\ th'[t].size = th[t].size
    BY <1>4, MInvTypes DEF Frames
  <2>2. LiveTotal' = LiveTotal + th[t].size
    BY <1>1, <1>4, LiveTypes, MoreBytes, SizesOK
  <2>3. live'[p] = th[t].size /\ \A r \in Ptrs : r # p => live'[r] = live[r]
    BY <1>4, MInvTypes
  <2>4. Adding(th'[t]) /\ ~Removing(th'[t])
    BY <2>1 DEF Adding, Removing, FreeSteps
  <2>5. \A i \in 1 .. Len(q) : q[i].ptr \in Ptrs /\ q[i].ptr # p
    <3>1. \A i \in 1 .. Len(q) : q[i].size = live[q[i].ptr]
      BY <1>2 DEF SeqInv, ListOK
    <3>2. \A i \in 1 .. Len(q) : q[i].ptr \in Ptrs /\ q[i].size \in Sizes
      BY MInvTypes, EntryOK
    <3>3. 0 \notin Sizes
      BY SizesOK
    <3>4. QED
      BY <1>4, <3>1, <3>2, <3>3
  <2>6. q' = q /\ sum_allocated' = sum_allocated
    BY DEF AllocReal
  <2>7. ListOK(th'[t], q, live')
    BY <1>2, <2>1, <2>3, <2>4, <2>5 DEF SeqInv, ListOK
  <2>8. sum_allocated = LiveTotal
    BY <1>1, <1>2 DEF SeqInv, SumOK
  <2>9. LiveTotal + th[t].size \in Nat /\ DriverCap \in Nat /\ DriverCap < SizeMod
    BY <1>1, LiveTypes, SizesOK
  <2>10. SumOK(th'[t], q, sum_allocated, LiveTotal')
    BY <1>1, <1>4, <2>1, <2>2, <2>4, <2>8, <2>9, SizesOK DEF SeqInv, SumOK
  <2>11. WithinLimit'
    <3>1. SUFFICES ASSUME ~single_oversub', mem_allocatable' = Total - Reserve
                   PROVE  LiveTotal' <= Total - Reserve
      BY DEF WithinLimit
    <3>2. (LiveTotal + th[t].size) % SizeMod <= mem_allocatable
      BY <1>1, <2>8, <3>1 DEF AllocReal, SeqInv, LimitOK
    <3>3. \A n \in Nat : n <= DriverCap => n % SizeMod = n
      BY NoWrap
    <3>4. (LiveTotal + th[t].size) % SizeMod = LiveTotal + th[t].size
      BY <1>4, <2>9, <3>3
    <3>5. mem_allocatable = Total - Reserve
      BY <3>1 DEF AllocReal
    <3>6. QED
      BY <2>2, <3>2, <3>4, <3>5
  <2>12. LimitOK(th[t])'
    BY <1>1, <2>1, <2>11 DEF AllocReal, LimitOK
  <2>13. QED
    BY <2>6, <2>7, <2>10, <2>12, SeqInvPrime
<1>5. QED
  BY <1>3, <1>4 DEF AllocReal

LEMMA SeqAddLoad ==
    ASSUME NEW t \in Threads, MInv, SeqInv(t), AddLoad(t)
    PROVE  SeqInv(t)'
<1>1. /\ th[t].pc = "add" /\ th'[t].pc = "addstore" /\ th'[t].ptr = th[t].ptr
      /\ th'[t].size = th[t].size /\ th'[t].reg = sum_allocated
  BY MInvTypes DEF AddLoad, Frames
<1>2. /\ Adding(th[t]) /\ Adding(th'[t]) /\ ~Removing(th[t]) /\ ~Removing(th'[t])
  BY <1>1 DEF Adding, Removing, FreeSteps
<1>3. LiveTotal' = LiveTotal
  BY DEF AddLoad, LiveTotal, BytesOf
<1>4. ListOK(th'[t], cuda_allocation_list, live)
  BY <1>1, <1>2 DEF SeqInv, ListOK
<1>5. SumOK(th'[t], cuda_allocation_list, sum_allocated, LiveTotal)
  BY <1>1, <1>2 DEF SeqInv, SumOK
<1>6. LimitOK(th[t])'
  BY <1>1, <1>3 DEF AddLoad, SeqInv, LimitOK, WithinLimit
<1>7. QED
  BY <1>3, <1>4, <1>5, <1>6, SeqInvPrime DEF AddLoad

LEMMA SeqAddStore ==
    ASSUME NEW t \in Threads, MInv, SeqInv(t), AddStore(t)
    PROVE  SeqInv(t)'
<1>1. /\ th[t].pc = "addstore" /\ th'[t].pc = "find" /\ th'[t].ptr = th[t].ptr
      /\ th'[t].size = th[t].size
  BY MInvTypes DEF AddStore, Frames
<1>2. /\ Adding(th[t]) /\ Adding(th'[t]) /\ ~Removing(th[t]) /\ ~Removing(th'[t])
  BY <1>1 DEF Adding, Removing, FreeSteps
<1>3. LiveTotal' = LiveTotal
  BY DEF AddStore, LiveTotal, BytesOf
<1>4. ListOK(th'[t], cuda_allocation_list, live)
  BY <1>1, <1>2 DEF SeqInv, ListOK
<1>5. sum_allocated' = LiveTotal
  <2>1. sum_allocated' = LiveTotal % SizeMod /\ LiveTotal <= DriverCap
    BY <1>1 DEF AddStore, SeqInv, SumOK
  <2>2. \A n \in Nat : n <= DriverCap => n % SizeMod = n
    BY NoWrap
  <2>3. QED
    BY <2>1, <2>2, LiveTypes
<1>6. SumOK(th'[t], cuda_allocation_list, sum_allocated', LiveTotal)
  BY <1>1, <1>2, <1>5 DEF SeqInv, SumOK
<1>7. LimitOK(th[t])'
  BY <1>1, <1>3 DEF AddStore, SeqInv, LimitOK, WithinLimit
<1>8. QED
  BY <1>3, <1>4, <1>6, <1>7, SeqInvPrime DEF AddStore

LEMMA SeqAppendFind ==
    ASSUME NEW t \in Threads, MInv, SeqInv(t), AppendFind(t)
    PROVE  SeqInv(t)'
<1> DEFINE q == cuda_allocation_list
           tail == IF q = <<>> THEN Nil ELSE Last(q).node
<1>1. PICK n \in Nodes \ NodesInUse :
         th' = [th EXCEPT ![t].node = n, ![t].tail = tail, ![t].pc = "link"]
  BY DEF AppendFind
<1> HIDE DEF tail
<1>2. /\ th[t].pc = "find" /\ th'[t].pc = "link" /\ th'[t].ptr = th[t].ptr
      /\ th'[t].size = th[t].size /\ th'[t].node = n /\ th'[t].tail = tail
  BY <1>1, MInvTypes DEF AppendFind, Frames
<1>3. /\ Adding(th[t]) /\ Adding(th'[t]) /\ ~Removing(th[t]) /\ ~Removing(th'[t])
  BY <1>2 DEF Adding, Removing, FreeSteps
<1>4. LiveTotal' = LiveTotal
  BY DEF AppendFind, LiveTotal, BytesOf
<1>5. \A i \in 1 .. Len(q) : q[i].node # n
  <2>1. \A i \in 1 .. Len(q) : q[i] \in ToSet(q)
    BY MInvTypes, LenProperties DEF ToSet
  <2>2. QED
    BY <1>1, <2>1 DEF NodesInUse
<1>6. ListOK(th'[t], q, live)
  BY <1>2, <1>3, <1>5 DEF SeqInv, ListOK, tail
<1>7. SumOK(th'[t], q, sum_allocated, LiveTotal)
  BY <1>2, <1>3 DEF SeqInv, SumOK
<1>8. LimitOK(th[t])'
  BY <1>2, <1>4 DEF AppendFind, SeqInv, LimitOK, WithinLimit
<1>9. QED
  BY <1>4, <1>6, <1>7, <1>8, SeqInvPrime DEF AppendFind

(* With one thread the node that LL_APPEND found is still the last one *)
LEMMA LinksAtEnd ==
    ASSUME NEW t \in Threads, MInv, SeqInv(t), AppendLink(t)
    PROVE  cuda_allocation_list' =
              Append(cuda_allocation_list,
                     [node |-> th[t].node, ptr |-> th[t].ptr, size |-> th[t].size])
<1> DEFINE q == cuda_allocation_list
           e == [node |-> th[t].node, ptr |-> th[t].ptr, size |-> th[t].size]
           k == Position(th[t].tail)
<1>1. q \in Seq(Entries) /\ Len(q) \in Nat
  BY MInvTypes, LenProperties
<1>2. th[t].tail = IF q = <<>> THEN Nil ELSE Last(q).node
  BY DEF AppendLink, SeqInv, ListOK
<1>3. q' = IF th[t].tail = Nil \/ k # 0 THEN Append(SubSeq(q, 1, k), e) ELSE q
  BY DEF AppendLink
<1>4. \/ k = 0 /\ \A i \in 1 .. Len(q) : q[i].node # th[t].tail
      \/ k \in 1 .. Len(q) /\ q[k].node = th[t].tail
  BY <1>1, PositionOK
<1> HIDE DEF e, k
<1>5. CASE q = <<>>
  <2>1. k = 0 /\ th[t].tail = Nil /\ SubSeq(q, 1, 0) = q
    BY <1>1, <1>2, <1>4, <1>5
  <2>2. QED
    BY <1>3, <2>1 DEF e
<1>6. CASE q # <<>>
  <2>1. Len(q) \in 1 .. Len(q) /\ th[t].tail = q[Len(q)].node
    BY <1>1, <1>2, <1>6, EmptySeq DEF Last
  <2>2. k \in 1 .. Len(q) /\ q[k].node = q[Len(q)].node
    BY <1>4, <2>1
  <2>3. k = Len(q)
    BY <2>1, <2>2 DEF SeqInv, ListOK
  <2>4. SubSeq(q, 1, Len(q)) = q
    BY <1>1, SubSeqFull
  <2>5. k # 0
    BY <2>2
  <2>6. QED
    BY <1>3, <2>3, <2>4, <2>5 DEF e
<1>7. QED
  BY <1>5, <1>6

LEMMA SeqAppendLink ==
    ASSUME NEW t \in Threads, MInv, SeqInv(t), AppendLink(t)
    PROVE  SeqInv(t)'
<1> DEFINE q == cuda_allocation_list
           e == [node |-> th[t].node, ptr |-> th[t].ptr, size |-> th[t].size]
           r == Append(q, e)
<1>1. q' = r
  BY LinksAtEnd
<1>2. q \in Seq(Entries) /\ Len(q) \in Nat
  BY MInvTypes, LenProperties
<1>3. e.node = th[t].node /\ e.ptr = th[t].ptr /\ e.size = th[t].size
  OBVIOUS
<1>4. e \in Entries
  BY MInvTypes DEF AppendLink, FrameOK, Adding, AllocSteps, Entries
<1> HIDE DEF e
<1>5. /\ Len(r) = Len(q) + 1 /\ r[Len(q) + 1] = e
      /\ \A i \in 1 .. Len(q) : r[i] = q[i]
  BY <1>2, <1>4, AppendProperties
<1> HIDE DEF r
<1>6. \A i \in 1 .. Len(r) : (i \in 1 .. Len(q) /\ r[i] = q[i]) \/ (i = Len(r) /\ r[i] = e)
  BY <1>2, <1>5
<1>7. 1 .. Len(q) \subseteq 1 .. Len(r) /\ Len(r) \in 1 .. Len(r)
  BY <1>2, <1>5
<1>8. th[t].pc = "link" /\ th'[t].pc = "out"
  BY MInvTypes DEF AppendLink, Outside
<1>9. Adding(th[t]) /\ ~Removing(th[t]) /\ ~Adding(th'[t]) /\ ~Removing(th'[t])
  BY <1>8 DEF Adding, Removing, FreeSteps
<1>10. LiveTotal' = LiveTotal
  BY DEF AppendLink, LiveTotal, BytesOf
<1>11. /\ live[th[t].ptr] = th[t].size
       /\ \A i \in 1 .. Len(q) : q[i].ptr # e.ptr /\ q[i].node # e.node
  BY <1>3, <1>8, <1>9 DEF SeqInv, ListOK
<1>12. ListOK(th'[t], r, live)
  <2>1. ASSUME NEW i \in 1 .. Len(r), NEW j \in 1 .. Len(r),
               r[i].ptr = r[j].ptr \/ r[i].node = r[j].node
        PROVE  i = j
    <3>1. CASE i \in 1 .. Len(q) /\ r[i] = q[i] /\ j \in 1 .. Len(q) /\ r[j] = q[j]
      BY <2>1, <3>1 DEF SeqInv, ListOK
    <3>2. QED
      BY <1>6, <1>11, <2>1, <3>1
  <2>2. \A i \in 1 .. Len(r) : r[i].size = live[r[i].ptr]
    <3>1. \A i \in 1 .. Len(q) : q[i].size = live[q[i].ptr]
      BY <1>9 DEF SeqInv, ListOK
    <3>2. QED
      BY <1>3, <1>6, <1>11, <3>1
  <2>3. ASSUME NEW p \in Ptrs, live[p] # 0 PROVE \E i \in 1 .. Len(r) : r[i].ptr = p
    <3>1. CASE p = th[t].ptr
      BY <1>3, <1>5, <1>7, <3>1
    <3>2. CASE p # th[t].ptr
      <4>1. PICK i \in 1 .. Len(q) : q[i].ptr = p
        BY <2>3, <3>2 DEF SeqInv, ListOK
      <4>2. QED
        BY <1>5, <1>7, <4>1
    <3>3. QED
      BY <3>1, <3>2
  <2>4. QED
    BY <1>8, <1>9, <2>1, <2>2, <2>3 DEF ListOK
<1>13. SumOK(th'[t], r, sum_allocated, LiveTotal)
  BY <1>8, <1>9 DEF SeqInv, SumOK
<1>14. LimitOK(th[t])'
  BY <1>8, <1>10 DEF AppendLink, SeqInv, LimitOK, WithinLimit
<1>15. QED
  BY <1>1, <1>10, <1>12, <1>13, <1>14, SeqInvPrime DEF AppendLink

LEMMA SeqCallFree ==
    ASSUME NEW t \in Threads, MInv, SeqInv(t), CallFree(t)
    PROVE  SeqInv(t)'
<1> DEFINE q == cuda_allocation_list
<1>1. PICK p \in Ptrs : /\ live[p] # 0
                        /\ live' = [live EXCEPT ![p] = 0]
                        /\ th' = [th EXCEPT ![t].ptr = p, ![t].pc = "remove"]
  BY DEF CallFree
<1>2. th[t].pc = "out" /\ th'[t].pc = "remove" /\ th'[t].ptr = p
  BY <1>1, MInvTypes DEF CallFree, Frames
<1>3. ~Adding(th[t]) /\ ~Removing(th[t]) /\ ~Adding(th'[t]) /\ Removing(th'[t])
  BY <1>2 DEF Adding, Removing, FreeSteps
<1>4. LiveTotal = LiveTotal' + live[p]
  BY <1>1, LiveTypes, LessBytes
<1>5. LiveTotal \in Nat /\ LiveTotal' \in Nat /\ live[p] \in Nat /\ DriverCap \in Nat
  <2>1. live[p] \in Nat
    BY LiveTypes, SizesOK DEF SizeT
  <2>2. QED
    BY <2>1, LiveTypes, BytesFinite, SizesOK
<1>6. live'[p] = 0 /\ \A r \in Ptrs : r # p => live'[r] = live[r]
  BY <1>1, MInvTypes
<1>7. \A i \in 1 .. Len(q) : q[i].ptr \in Ptrs /\ q[i].size = live[q[i].ptr]
  BY <1>3, MInvTypes, EntryOK DEF SeqInv, ListOK
<1>8. PICK m \in 1 .. Len(q) : q[m].ptr = p
  BY <1>1, <1>3 DEF SeqInv, ListOK
<1>9. sum_allocated = LiveTotal /\ LiveTotal <= DriverCap
  BY <1>2, <1>3 DEF SeqInv, SumOK
<1>10. ListOK(th'[t], q, live')
  <2>1. \A i \in 1 .. Len(q) : q[i].size = live'[q[i].ptr] \/ q[i].ptr = p
    BY <1>6, <1>7
  <2>2. \A r \in Ptrs : live'[r] # 0 => \E i \in 1 .. Len(q) : q[i].ptr = r
    BY <1>3, <1>6 DEF SeqInv, ListOK
  <2>3. QED
    BY <1>2, <1>3, <1>6, <2>1, <2>2 DEF SeqInv, ListOK
<1>11. SumOK(th'[t], q, sum_allocated, LiveTotal')
  <2>1. LiveTotal' <= DriverCap /\ sum_allocated <= DriverCap
    BY <1>4, <1>5, <1>9
  <2>2. \A i \in 1 .. Len(q) : q[i].ptr = p => sum_allocated = LiveTotal' + q[i].size
    BY <1>4, <1>7, <1>9
  <2>3. QED
    BY <1>2, <1>3, <1>8, <2>1, <2>2 DEF SumOK
<1>12. LimitOK(th[t])'
  <2>1. got_max_mem_size
    BY <1>1 DEF SeqInv, LimitOK
  <2>2. WithinLimit'
    <3>1. SUFFICES ASSUME ~single_oversub', mem_allocatable' = Total - Reserve
                   PROVE  LiveTotal' <= Total - Reserve
      BY DEF WithinLimit
    <3>2. LiveTotal <= Total - Reserve
      BY <3>1 DEF CallFree, SeqInv, LimitOK, WithinLimit
    <3>3. QED
      BY <1>4, <1>5, <3>2, MemoryAssumption
  <2>3. QED
    BY <1>2, <2>1, <2>2 DEF CallFree, LimitOK
<1>13. QED
  BY <1>10, <1>11, <1>12, SeqInvPrime DEF CallFree

LEMMA SeqRemoveFind ==
    ASSUME NEW t \in Threads, MInv, SeqInv(t), RemoveFind(t)
    PROVE  SeqInv(t)'
<1> DEFINE q == cuda_allocation_list
<1>1. th[t].pc = "remove" /\ Removing(th[t]) /\ ~Adding(th[t])
  BY DEF RemoveFind, Adding, Removing, FreeSteps
<1>2. LiveTotal' = LiveTotal /\ q' = q /\ live' = live /\ sum_allocated' = sum_allocated
  BY DEF RemoveFind, LiveTotal, BytesOf
<1>3. ASSUME th'[t].pc \in {"out", "sub"} PROVE LimitOK(th[t])'
  BY <1>1, <1>2, <1>3 DEF RemoveFind, SeqInv, LimitOK, WithinLimit
<1>4. ASSUME th' = [th EXCEPT ![t] = Outside], \A i \in 1 .. Len(q) : q[i].ptr # th[t].ptr
      PROVE  SeqInv(t)'
  <2>1. th'[t].pc = "out"
    BY <1>4, MInvTypes DEF Outside
  <2>2. ~Adding(th'[t]) /\ ~Removing(th'[t])
    BY <2>1 DEF Adding, Removing, FreeSteps
  <2>3. ListOK(th'[t], q, live)
    BY <1>1, <1>4, <2>1, <2>2 DEF SeqInv, ListOK
  <2>4. SumOK(th'[t], q, sum_allocated, LiveTotal)
    BY <1>1, <1>4, <2>1, <2>2 DEF SeqInv, SumOK
  <2>5. QED
    BY <1>2, <1>3, <2>1, <2>3, <2>4, SeqInvPrime
<1>5. ASSUME NEW i \in 1 .. Len(q), q[i].ptr = th[t].ptr,
             th' = [th EXCEPT ![t] = [th[t] EXCEPT !.node = q[i].node, !.size = q[i].size,
                                                   !.reg = sum_allocated, !.pc = "sub"]]
      PROVE  SeqInv(t)'
  <2>1. /\ th'[t].pc = "sub" /\ th'[t].ptr = th[t].ptr /\ th'[t].node = q[i].node
        /\ th'[t].size = q[i].size /\ th'[t].reg = sum_allocated
    BY <1>5, MInvTypes DEF Frames
  <2>2. ~Adding(th'[t]) /\ Removing(th'[t])
    BY <2>1 DEF Adding, Removing, FreeSteps
  <2>3. ListOK(th'[t], q, live)
    BY <1>1, <1>5, <2>1, <2>2 DEF SeqInv, ListOK
  <2>4. SumOK(th'[t], q, sum_allocated, LiveTotal)
    BY <1>1, <2>1, <2>2 DEF SeqInv, SumOK
  <2>5. QED
    BY <1>2, <1>3, <2>1, <2>3, <2>4, SeqInvPrime
<1>6. QED
  BY <1>4, <1>5, FoundFrame

(* Without its i-th entry a list has the others, each where it was or one    *)
(* place further up                                                          *)
LEMMA OthersStay ==
    ASSUME NEW S, NEW q \in Seq(S), NEW i \in 1 .. Len(q), NEW r, r = RemoveAt(q, i)
    PROVE  /\ \A j \in 1 .. Len(r) :
                 \E m \in 1 .. Len(q) : /\ m # i /\ r[j] = q[m]
                                        /\ m = IF j < i THEN j ELSE j + 1
           /\ \A m \in 1 .. Len(q) : m # i => \E j \in 1 .. Len(r) : r[j] = q[m]
<1>1. /\ Len(r) = Len(q) - 1 /\ Len(q) \in Nat
      /\ \A j \in 1 .. Len(q) - 1 : r[j] = IF j < i THEN q[j] ELSE q[j + 1]
  BY RemoveAtEntries
<1>2. ASSUME NEW j \in 1 .. Len(r)
      PROVE  \E m \in 1 .. Len(q) : /\ m # i /\ r[j] = q[m]
                                    /\ m = IF j < i THEN j ELSE j + 1
  <2>1. CASE j < i
    BY <1>1, <2>1
  <2>2. CASE ~(j < i)
    BY <1>1, <2>2
  <2>3. QED
    BY <2>1, <2>2
<1>3. ASSUME NEW m \in 1 .. Len(q), m # i PROVE \E j \in 1 .. Len(r) : r[j] = q[m]
  <2>1. CASE m < i
    BY <1>1, <2>1
  <2>2. CASE m > i
    <3>1. m - 1 \in 1 .. Len(r) /\ ~(m - 1 < i) /\ (m - 1) + 1 = m
      BY <1>1, <2>2
    <3>2. QED
      BY <1>1, <3>1
  <2>3. QED
    BY <1>3, <2>1, <2>2
<1>4. QED
  BY <1>2, <1>3

LEMMA SeqRemoveStore ==
    ASSUME NEW t \in Threads, MInv, SeqInv(t), RemoveStore(t)
    PROVE  SeqInv(t)'
<1> DEFINE q == cuda_allocation_list
           n == th[t].node
<1>1. q \in Seq(Entries)
  BY MInvTypes
<1>2. /\ th[t].pc = "sub" /\ th'[t].pc = "remove" /\ th'[t].ptr = th[t].ptr
  BY MInvTypes DEF RemoveStore, Frames
<1>3. ~Adding(th[t]) /\ Removing(th[t]) /\ ~Adding(th'[t]) /\ Removing(th'[t])
  BY <1>2 DEF Adding, Removing, FreeSteps
<1>4. LiveTotal' = LiveTotal /\ live' = live
  BY DEF RemoveStore, LiveTotal, BytesOf
<1>5. PICK i \in 1 .. Len(q) :
         q[i].ptr = th[t].ptr /\ q[i].node = n /\ q[i].size = th[t].size
  BY <1>2 DEF SeqInv, ListOK
<1>6. Position(n) = i
  <2>1. Position(n) \in 1 .. Len(q) /\ q[Position(n)].node = n
    BY <1>1, <1>5, PositionOK
  <2>2. QED
    BY <1>5, <2>1 DEF SeqInv, ListOK
<1> DEFINE r == RemoveAt(q, i)
<1>7. q' = r
  <2>1. i # 0
    OBVIOUS
  <2>2. QED
    BY <1>6, <2>1 DEF RemoveStore, Unlinked
<1>8. /\ \A j \in 1 .. Len(r) :
            \E m \in 1 .. Len(q) : /\ m # i /\ r[j] = q[m]
                                   /\ m = IF j < i THEN j ELSE j + 1
      /\ \A m \in 1 .. Len(q) : m # i => \E j \in 1 .. Len(r) : r[j] = q[m]
  BY <1>1, OthersStay
<1> HIDE DEF r
<1>9. \A m \in 1 .. Len(q) : m # i => q[m].ptr # th[t].ptr
  BY <1>5 DEF SeqInv, ListOK
<1>10. \A j \in 1 .. Len(r) : r[j].ptr # th[t].ptr
  <2>1. SUFFICES ASSUME NEW j \in 1 .. Len(r) PROVE r[j].ptr # th[t].ptr
    OBVIOUS
  <2>2. PICK m \in 1 .. Len(q) : m # i /\ r[j] = q[m]
    BY <1>8, Zenon
  <2>3. QED
    BY <1>9, <2>2, Zenon
<1>11. sum_allocated = LiveTotal + th[t].size /\ th[t].reg = sum_allocated
  BY <1>2, <1>3, <1>5 DEF SeqInv, SumOK
<1>12. sum_allocated' = LiveTotal
  <2>1. th[t].size \in Nat /\ LiveTotal \in Nat /\ LiveTotal <= DriverCap
    BY <1>1, <1>5, EntryOK, SizesOK, LiveTypes DEF SeqInv, SumOK
  <2>2. th[t].reg - th[t].size = LiveTotal
    BY <1>11, <2>1
  <2>3. \A k \in Nat : k <= DriverCap => k % SizeMod = k
    BY NoWrap
  <2>4. QED
    BY <2>1, <2>2, <2>3 DEF RemoveStore
<1>13. ListOK(th'[t], r, live)
  <2>1. ASSUME NEW j \in 1 .. Len(r), NEW k \in 1 .. Len(r),
               r[j].ptr = r[k].ptr \/ r[j].node = r[k].node
        PROVE  j = k
    <3>1. PICK a \in 1 .. Len(q) : /\ a # i /\ r[j] = q[a]
                                   /\ a = IF j < i THEN j ELSE j + 1
      BY <1>8
    <3>2. PICK b \in 1 .. Len(q) : /\ b # i /\ r[k] = q[b]
                                   /\ b = IF k < i THEN k ELSE k + 1
      BY <1>8
    <3>3. a = b
      BY <2>1, <3>1, <3>2 DEF SeqInv, ListOK
    <3>4. QED
      BY <3>1, <3>2, <3>3
  <2>2. \A j \in 1 .. Len(r) : r[j].size = live[r[j].ptr]
    <3>1. \A m \in 1 .. Len(q) : m # i => q[m].size = live[q[m].ptr]
      BY <1>9 DEF SeqInv, ListOK
    <3>2. SUFFICES ASSUME NEW j \in 1 .. Len(r) PROVE r[j].size = live[r[j].ptr]
      OBVIOUS
    <3>3. PICK m \in 1 .. Len(q) : m # i /\ r[j] = q[m]
      BY <1>8, Zenon
    <3>4. QED
      BY <3>1, <3>3, Zenon
  <2>3. live[th[t].ptr] = 0
    BY <1>3 DEF SeqInv, ListOK
  <2>4. ASSUME NEW p \in Ptrs, live[p] # 0 PROVE \E j \in 1 .. Len(r) : r[j].ptr = p
    <3>1. PICK m \in 1 .. Len(q) : q[m].ptr = p
      BY <1>3, <2>4 DEF SeqInv, ListOK
    <3>2. m # i
      BY <1>5, <2>3, <2>4, <3>1
    <3>3. QED
      BY <1>8, <3>1, <3>2
  <2>5. QED
    BY <1>2, <1>3, <2>1, <2>2, <2>3, <2>4 DEF ListOK
<1>14. SumOK(th'[t], r, LiveTotal, LiveTotal)
  BY <1>2, <1>3, <1>10 DEF SeqInv, SumOK
<1>15. LimitOK(th[t])'
  BY <1>2, <1>4 DEF RemoveStore, SeqInv, LimitOK, WithinLimit
<1>16. QED
  BY <1>4, <1>7, <1>12, <1>13, <1>14, <1>15, SeqInvPrime

LEMMA SeqInvInit ==
    ASSUME NEW t \in Threads, MemInit
    PROVE  SeqInv(t)
<1>1. th[t].pc = "out" /\ ~Adding(th[t]) /\ ~Removing(th[t])
  BY DEF MemInit, Outside, Adding, Removing, FreeSteps
<1>2. Len(cuda_allocation_list) = 0 /\ \A p \in Ptrs : live[p] = 0
  BY DEF MemInit
<1>3. LiveTotal = 0 /\ sum_allocated = 0
  BY <1>2, NoBytes DEF LiveTotal, MemInit
<1>4. ListOK(th[t], cuda_allocation_list, live)
  BY <1>1, <1>2 DEF ListOK
<1>5. SumOK(th[t], cuda_allocation_list, sum_allocated, LiveTotal)
  BY <1>1, <1>3, SizesOK DEF SumOK
<1>6. 0 <= Total - Reserve
  BY MemoryAssumption
<1>7. LimitOK(th[t])
  BY <1>1, <1>2, <1>3, <1>6 DEF LimitOK, WithinLimit, MemInit
<1>8. QED
  BY <1>4, <1>5, <1>7 DEF SeqInv

LEMMA SeqInvNext ==
    ASSUME NEW t, Threads = {t}, MInv, SeqInv(t), [MemNext]_memVars
    PROVE  SeqInv(t)'
<1>1. CASE UNCHANGED memVars
  BY <1>1 DEF memVars, SeqInv, ListOK, SumOK, LimitOK, WithinLimit, LiveTotal, BytesOf,
              Adding, Removing
<1>2. CASE MemNext
  <2>1. t \in Threads /\ \A u \in Threads : u = t
    OBVIOUS
  <2>2. \/ CallAlloc(t) \/ InfoReal(t) \/ InfoReserve(t) \/ Check(t) \/ AllocReal(t)
        \/ AddLoad(t) \/ AddStore(t) \/ AppendFind(t) \/ AppendLink(t)
        \/ CallFree(t) \/ RemoveFind(t) \/ RemoveStore(t)
    BY <1>2, <2>1, Zenon DEF MemNext
  <2>3. QED
    BY <2>1, <2>2, SeqCallAlloc, SeqInfoReal, SeqInfoReserve, SeqCheck, SeqAllocReal,
       SeqAddLoad, SeqAddStore, SeqAppendFind, SeqAppendLink, SeqCallFree, SeqRemoveFind,
       SeqRemoveStore
<1>3. QED
  BY <1>1, <1>2

LEMMA SeqAlways ==
    ASSUME NEW t, Threads = {t}
    PROVE  MemSpec => [](MInv /\ SeqInv(t))
<1>1. MemInit => MInv /\ SeqInv(t)
  BY MInvInit, SeqInvInit
<1>2. MInv /\ SeqInv(t) /\ [MemNext]_memVars => MInv' /\ SeqInv(t)'
  BY MInvNext, SeqInvNext
<1>3. QED
  BY <1>1, <1>2, PTL DEF MemSpec

(* The allocation list of an application that calls the memory hooks from    *)
(* one thread: whenever it is outside the hooks, insert_cuda_allocation()    *)
(* and remove_cuda_allocation() have left exactly one entry, with the right  *)
(* size, for each address the driver has given, failed calls and reused      *)
(* addresses notwithstanding.  (The hooks take no lock: with two threads an  *)
(* append may cut off another one, and the statement is false.)              *)
THEOREM ListIsComplete ==
    ASSUME NEW t, Threads = {t}
    PROVE  MemSpec => []ListComplete
<1>1. ASSUME MInv, SeqInv(t) PROVE ListComplete
  <2> DEFINE q == cuda_allocation_list
             At(p) == {i \in DOMAIN q : q[i].ptr = p}
  <2>1. SUFFICES ASSUME Quiet
                 PROVE  /\ \A p \in Ptrs : Cardinality(At(p)) = IF live[p] = 0 THEN 0 ELSE 1
                        /\ \A a \in ToSet(q) : a.size = live[a.ptr]
    BY DEF ListComplete
  <2>2. t \in Threads /\ th[t].pc = "out" /\ ~Adding(th[t]) /\ ~Removing(th[t])
    BY <2>1 DEF Quiet, Adding, Removing, FreeSteps
  <2>3. q \in Seq(Entries) /\ DOMAIN q = 1 .. Len(q)
    BY <1>1, <2>2, MInvTypes, LenProperties
  <2>4. \A i \in 1 .. Len(q) : q[i].size = live[q[i].ptr] /\ q[i].size # 0
    <3>1. \A i \in 1 .. Len(q) : q[i].size \in Sizes
      BY <2>3, EntryOK
    <3>2. 0 \notin Sizes
      BY SizesOK
    <3>3. QED
      BY <1>1, <2>2, <3>1, <3>2 DEF SeqInv, ListOK
  <2>5. ASSUME NEW p \in Ptrs, live[p] = 0 PROVE Cardinality(At(p)) = 0
    <3>1. At(p) = {}
      BY <2>3, <2>4, <2>5
    <3>2. QED
      BY <3>1, FS_EmptySet
  <2>6. ASSUME NEW p \in Ptrs, live[p] # 0 PROVE Cardinality(At(p)) = 1
    <3>1. PICK i \in 1 .. Len(q) : q[i].ptr = p
      BY <1>1, <2>2, <2>6 DEF SeqInv, ListOK
    <3>2. At(p) = {i}
      BY <1>1, <2>3, <3>1 DEF SeqInv, ListOK
    <3>3. QED
      BY <3>2, FS_Singleton
  <2>7. \A a \in ToSet(q) : a.size = live[a.ptr]
    BY <2>3, <2>4 DEF ToSet
  <2>8. QED
    BY <2>5, <2>6, <2>7
<1>2. MemSpec => [](MInv /\ SeqInv(t))
  BY SeqAlways
<1>3. QED
  BY <1>1, <1>2, PTL

(* sum_allocated of an application that calls the memory hooks from one      *)
(* thread is the memory the driver has given it, whenever it is outside the  *)
(* hooks: the load and the store of each += and -= meet no other write, and  *)
(* the size_t arithmetic does not wrap around, as the driver never gives     *)
(* SizeMod bytes.                                                            *)
THEOREM SumIsExact ==
    ASSUME NEW t, Threads = {t}
    PROVE  MemSpec => []SumExact
<1>1. ASSUME MInv, SeqInv(t) PROVE SumExact
  <2>1. SUFFICES ASSUME Quiet PROVE sum_allocated = LiveTotal
    BY DEF SumExact
  <2>2. th[t].pc = "out" /\ ~Removing(th[t])
    BY <2>1 DEF Quiet, Removing, FreeSteps
  <2>3. QED
    BY <1>1, <2>2 DEF SeqInv, SumOK
<1>2. MemSpec => [](MInv /\ SeqInv(t))
  BY SeqAlways
<1>3. QED
  BY <1>1, <1>2, PTL

(* cuMemAlloc() grants an application with one thread no more than           *)
(* cuMemGetInfo() reports, the memory of the GPU without the reserve, inside *)
(* the hooks too: the test of a request may wrap around only for a size the  *)
(* driver then refuses.                                                      *)
THEOREM LimitIsKept ==
    ASSUME NEW t, Threads = {t}
    PROVE  MemSpec => []WithinLimit
<1>1. SeqInv(t) => WithinLimit
  BY DEF SeqInv, LimitOK
<1>2. MemSpec => [](MInv /\ SeqInv(t))
  BY SeqAlways
<1>3. QED
  BY <1>1, <1>2, PTL
=============================================================================
