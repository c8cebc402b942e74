----------------------------- MODULE HookMemory -----------------------------
(***************************************************************************)
(* The memory hooks of src/src/hook.c in one application process:          *)
(* cuMemAlloc(), cuMemFree() and cuMemGetInfo(), with the allocation list  *)
(* and the sum that they share.                                            *)
(*                                                                         *)
(* The CUDA driver API may be called from any thread and these hooks take  *)
(* no lock, so a step here is one access to shared memory or one call of   *)
(* the driver.  `sum_allocated += n' is a load and a store.  LL_APPEND     *)
(* finds the last node and then writes its next pointer: nodes that others *)
(* appended in between are cut off.  Unlinking a node is one step.         *)
(***************************************************************************)
EXTENDS Integers, FiniteSets, SequencesExt

CONSTANTS
    Threads,      \* application threads
    Ptrs,         \* addresses the driver may return; it reuses freed ones
    Nodes,        \* heap chunks for list nodes; malloc() does not run out of them
    Sizes,        \* sizes the application asks for
    Total,        \* memory of the GPU
    Reserve,      \* MEMINFO_RESERVE_MIB
    SizeMod,      \* size_t is arithmetic modulo SizeMod
    DriverCap,    \* managed memory the driver can give (host memory included)
    InfoMayFail,  \* whether cuMemGetInfo() of the driver may fail
    Nil           \* the null pointer

ASSUME MemoryAssumption ==
    /\ {Total, Reserve, SizeMod, DriverCap} \subseteq Nat
    /\ Reserve < Total /\ Total <= DriverCap /\ DriverCap < SizeMod
    /\ Sizes \subseteq 1 .. (SizeMod - 1)
    /\ InfoMayFail \in BOOLEAN
    /\ Nil \notin Nodes \cup Ptrs
    /\ IsFiniteSet(Ptrs)

VARIABLES
    cuda_allocation_list,   \* sequence of [node, ptr, size]
    sum_allocated,
    mem_allocatable,        \* nvshare_size_mem_allocatable
    got_max_mem_size,
    single_oversub,         \* enable_single_oversub
    live,                   \* the driver's view: live[p] is the size at p, 0 if free
    th                      \* th[t]: what thread t does, and its local variables

memVars == <<cuda_allocation_list, sum_allocated, mem_allocatable, got_max_mem_size,
             single_oversub, live, th>>

SizeT == 0 .. (SizeMod - 1)

(* size: of the allocation at hand; ptr, node: its address, its list node;   *)
(* reg: a value loaded from memory; tail: the last node found by LL_APPEND   *)
Outside == [pc |-> "out", size |-> 0, ptr |-> Nil, node |-> Nil, reg |-> 0, tail |-> Nil]

AllocSteps == {"info", "reserve", "check", "alloc", "add", "addstore", "find", "link"}
FreeSteps == {"remove", "sub"}

MemTypeOK ==
    /\ cuda_allocation_list \in Seq([node : Nodes, ptr : Ptrs, size : Sizes])
    /\ sum_allocated \in SizeT
    /\ mem_allocatable \in SizeT
    /\ got_max_mem_size \in BOOLEAN
    /\ single_oversub \in BOOLEAN
    /\ live \in [Ptrs -> Sizes \cup {0}]
    /\ th \in [Threads -> [pc : {"out"} \cup AllocSteps \cup FreeSteps, size : SizeT,
                           ptr : Ptrs \cup {Nil}, node : Nodes \cup {Nil}, reg : SizeT,
                           tail : Nodes \cup {Nil}]]

MemInit ==
    /\ cuda_allocation_list = <<>>
    /\ sum_allocated = 0
    /\ mem_allocatable = 0
    /\ got_max_mem_size = FALSE
    /\ single_oversub \in BOOLEAN
    /\ live = [p \in Ptrs |-> 0]
    /\ th = [t \in Threads |-> Outside]

(* The bytes the driver has given, and how many there are *)
BytesOf(f) == {b \in Ptrs \X SizeT : b[2] < f[b[1]]}

LiveTotal == Cardinality(BytesOf(live))

-----------------------------------------------------------------------------
(* cuMemAlloc() *)

(* Entry: the first calls ask how much memory there is *)
CallAlloc(t) ==
    /\ th[t].pc = "out"
    /\ \E n \in Sizes :
          th' = [th EXCEPT ![t].size = n,
                           ![t].pc = IF got_max_mem_size THEN "check" ELSE "info"]
    /\ UNCHANGED <<cuda_allocation_list, sum_allocated, mem_allocatable, got_max_mem_size,
                   single_oversub, live>>

(* real_cuMemGetInfo() writes the free memory of the GPU, of which co-located *)
(* processes use any part, straight into nvshare_size_mem_allocatable.  When  *)
(* it fails, the total stays the uninitialised variable `junk'.               *)
InfoReal(t) ==
    /\ th[t].pc = "info"
    /\ \/ /\ mem_allocatable' \in 0 .. Total
          /\ th' = [th EXCEPT ![t].reg = Total, ![t].pc = "reserve"]
       \/ /\ InfoMayFail
          /\ \E junk \in SizeT : th' = [th EXCEPT ![t].reg = junk, ![t].pc = "reserve"]
          /\ UNCHANGED mem_allocatable
    /\ UNCHANGED <<cuda_allocation_list, sum_allocated, got_max_mem_size, single_oversub, live>>

(* Wrong variant: a difference of signed numbers *)
InfoReserveSigned(t) ==
    /\ th[t].pc = "reserve"
    /\ mem_allocatable' = th[t].reg - Reserve
    /\ got_max_mem_size' = TRUE
    /\ th' = [th EXCEPT ![t].reg = 0, ![t].pc = "check"]
    /\ UNCHANGED <<cuda_allocation_list, sum_allocated, single_oversub, live>>

(* The rest of cuMemGetInfo(), whatever the driver's call returned *)
InfoReserve(t) ==
    /\ th[t].pc = "reserve"
    /\ mem_allocatable' = (th[t].reg - Reserve) % SizeMod
    /\ got_max_mem_size' = TRUE
    /\ th' = [th EXCEPT ![t].reg = 0, ![t].pc = "check"]
    /\ UNCHANGED <<cuda_allocation_list, sum_allocated, single_oversub, live>>

(* Wrong variant: what is allocated already is not counted *)
CheckAlone(t) ==
    /\ th[t].pc = "check"
    /\ th' = [th EXCEPT ![t] = IF th[t].size > mem_allocatable /\ ~single_oversub
                               THEN Outside ELSE [th[t] EXCEPT !.pc = "alloc"]]
    /\ UNCHANGED <<cuda_allocation_list, sum_allocated, mem_allocatable, got_max_mem_size,
                   single_oversub, live>>

(* CUDA_ERROR_OUT_OF_MEMORY, or go on *)
Check(t) ==
    /\ th[t].pc = "check"
    /\ th' = [th EXCEPT ![t] =
                 IF (sum_allocated + th[t].size) % SizeMod > mem_allocatable /\ ~single_oversub
                 THEN Outside ELSE [th[t] EXCEPT !.pc = "alloc"]]
    /\ UNCHANGED <<cuda_allocation_list, sum_allocated, mem_allocatable, got_max_mem_size,
                   single_oversub, live>>

(* real_cuMemAllocManaged() gives a free address, or fails *)
AllocReal(t) ==
    /\ th[t].pc = "alloc"
    /\ \/ /\ LiveTotal + th[t].size <= DriverCap
          /\ \E p \in Ptrs :
                /\ live[p] = 0
                /\ live' = [live EXCEPT ![p] = th[t].size]
                /\ th' = [th EXCEPT ![t].ptr = p, ![t].pc = "add"]
       \/ /\ th' = [th EXCEPT ![t] = Outside]
          /\ UNCHANGED live
    /\ UNCHANGED <<cuda_allocation_list, sum_allocated, mem_allocatable, got_max_mem_size,
                   single_oversub>>

(* insert_cuda_allocation(): sum_allocated += bytesize *)
AddLoad(t) ==
    /\ th[t].pc = "add"
    /\ th' = [th EXCEPT ![t].reg = sum_allocated, ![t].pc = "addstore"]
    /\ UNCHANGED <<cuda_allocation_list, sum_allocated, mem_allocatable, got_max_mem_size,
                   single_oversub, live>>

AddStore(t) ==
    /\ th[t].pc = "addstore"
    /\ sum_allocated' = (th[t].reg + th[t].size) % SizeMod
    /\ th' = [th EXCEPT ![t].reg = 0, ![t].pc = "find"]
    /\ UNCHANGED <<cuda_allocation_list, mem_allocatable, got_max_mem_size, single_oversub, live>>

(* Nodes in use: in the list, or about to be *)
NodesInUse ==
    {a.node : a \in ToSet(cuda_allocation_list)} \cup {th[t].node : t \in Threads}

(* malloc() of the node; LL_APPEND walks to the end of the list *)
AppendFind(t) ==
    /\ th[t].pc = "find"
    /\ \E n \in Nodes \ NodesInUse :
          th' = [th EXCEPT
                    ![t].node = n,
                    ![t].tail = IF cuda_allocation_list = <<>> THEN Nil
                                ELSE Last(cuda_allocation_list).node,
                    ![t].pc = "link"]
    /\ UNCHANGED <<cuda_allocation_list, sum_allocated, mem_allocatable, got_max_mem_size,
                   single_oversub, live>>

(* Where node n is in the list, 0 if it is not *)
Position(n) ==
    IF \E i \in DOMAIN cuda_allocation_list : cuda_allocation_list[i].node = n
    THEN CHOOSE i \in DOMAIN cuda_allocation_list : cuda_allocation_list[i].node = n
    ELSE 0

(* ... and links the node behind the one it found (behind the head of the    *)
(* list, if it found none).  If that one has been unlinked, the new node     *)
(* hangs off freed memory: it is lost.                                       *)
AppendLink(t) ==
    /\ th[t].pc = "link"
    /\ cuda_allocation_list' =
          IF th[t].tail = Nil \/ Position(th[t].tail) # 0
          THEN Append(SubSeq(cuda_allocation_list, 1, Position(th[t].tail)),
                      [node |-> th[t].node, ptr |-> th[t].ptr, size |-> th[t].size])
          ELSE cuda_allocation_list
    /\ th' = [th EXCEPT ![t] = Outside]
    /\ UNCHANGED <<sum_allocated, mem_allocatable, got_max_mem_size, single_oversub, live>>

-----------------------------------------------------------------------------
(* cuMemFree() *)

(* The application frees what a cuMemAlloc() that has returned gave it; the  *)
(* driver's real_cuMemFree() succeeds and may return the address again.      *)
CallFree(t) ==
    /\ th[t].pc = "out"
    /\ \E p \in Ptrs :
          /\ live[p] # 0
          /\ \A u \in Threads : th[u].pc \in AllocSteps => th[u].ptr # p
          /\ live' = [live EXCEPT ![p] = 0]
          /\ th' = [th EXCEPT ![t].ptr = p, ![t].pc = "remove"]
    /\ UNCHANGED <<cuda_allocation_list, sum_allocated, mem_allocatable, got_max_mem_size,
                   single_oversub>>

(* Wrong variant: only the first node of the list is looked at *)
RemoveFindHead(t) ==
    /\ th[t].pc = "remove"
    /\ th' = [th EXCEPT ![t] =
                 IF cuda_allocation_list = <<>> \/ Head(cuda_allocation_list).ptr # th[t].ptr
                 THEN Outside
                 ELSE [th[t] EXCEPT !.node = Head(cuda_allocation_list).node,
                                    !.size = Head(cuda_allocation_list).size,
                                    !.reg = sum_allocated, !.pc = "sub"]]
    /\ UNCHANGED <<cuda_allocation_list, sum_allocated, mem_allocatable, got_max_mem_size,
                   single_oversub, live>>

(* remove_cuda_allocation(): the next node with this address, of which there *)
(* may be several; load sum_allocated, or the end of the walk.               *)
RemoveFind(t) ==
    /\ th[t].pc = "remove"
    /\ LET found == {i \in DOMAIN cuda_allocation_list : cuda_allocation_list[i].ptr = th[t].ptr}
           i == Min(found)
       IN  th' = [th EXCEPT ![t] =
                     IF found = {} THEN Outside
                     ELSE [th[t] EXCEPT !.node = cuda_allocation_list[i].node,
                                        !.size = cuda_allocation_list[i].size,
                                        !.reg = sum_allocated, !.pc = "sub"]]
    /\ UNCHANGED <<cuda_allocation_list, sum_allocated, mem_allocatable, got_max_mem_size,
                   single_oversub, live>>

(* LL_DELETE *)
Unlinked(n) ==
    IF Position(n) = 0 THEN cuda_allocation_list ELSE RemoveAt(cuda_allocation_list, Position(n))

(* Wrong variant: the sum is left as it is *)
RemoveStoreKeepsSum(t) ==
    /\ th[t].pc = "sub"
    /\ cuda_allocation_list' = Unlinked(th[t].node)
    /\ th' = [th EXCEPT ![t].node = Nil, ![t].size = 0, ![t].reg = 0, ![t].pc = "remove"]
    /\ UNCHANGED <<sum_allocated, mem_allocatable, got_max_mem_size, single_oversub, live>>

(* sum_allocated -= a->size, LL_DELETE, free *)
RemoveStore(t) ==
    /\ th[t].pc = "sub"
    /\ sum_allocated' = (th[t].reg - th[t].size) % SizeMod
    /\ cuda_allocation_list' = Unlinked(th[t].node)
    /\ th' = [th EXCEPT ![t].node = Nil, ![t].size = 0, ![t].reg = 0, ![t].pc = "remove"]
    /\ UNCHANGED <<mem_allocatable, got_max_mem_size, single_oversub, live>>

-----------------------------------------------------------------------------
MemNext ==
    \E t \in Threads :
        \/ CallAlloc(t) \/ InfoReal(t) \/ InfoReserve(t) \/ Check(t) \/ AllocReal(t)
        \/ AddLoad(t) \/ AddStore(t) \/ AppendFind(t) \/ AppendLink(t)
        \/ CallFree(t) \/ RemoveFind(t) \/ RemoveStore(t)

MemSpec == MemInit /\ [][MemNext]_memVars

-----------------------------------------------------------------------------
Quiet == \A t \in Threads : th[t].pc = "out"

(* hook.c, "Linked list that holds all memory allocations of current         *)
(* application": whenever no thread is inside a hook, the list holds what    *)
(* the driver has given to the application and nothing else, each allocation *)
(* once, whatever order of allocations, failures, frees and reused addresses *)
(* led there.                                                                *)
ListComplete ==
    Quiet =>
        /\ \A p \in Ptrs :
              Cardinality({i \in DOMAIN cuda_allocation_list :
                              cuda_allocation_list[i].ptr = p}) = IF live[p] = 0 THEN 0 ELSE 1
        /\ \A a \in ToSet(cuda_allocation_list) : a.size = live[a.ptr]

(* sum_allocated, which decides on CUDA_ERROR_OUT_OF_MEMORY, is the memory   *)
(* the application really has, whenever no thread is inside a hook: failed   *)
(* calls and requests whose size wraps around in the test leave no trace.    *)
SumExact == Quiet => sum_allocated = LiveTotal

(* What cuMemGetInfo() reports is what cuMemAlloc() grants: unless single     *)
(* oversubscription is enabled, a process gets at most the memory of the GPU *)
(* without the reserve, although the sum in the test wraps around.  (Once    *)
(* the limit is known: a failed cuMemGetInfo() leaves an arbitrary one.)     *)
WithinLimit ==
    ~single_oversub /\ mem_allocatable = Total - Reserve => LiveTotal <= Total - Reserve
=============================================================================
