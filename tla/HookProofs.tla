----------------------------- MODULE HookProofs -----------------------------
(***************************************************************************)
(* Proofs about the hooks of one process.  First the kernel window, which  *)
(* bounds the kernels on the GPU, for any number of launching threads and  *)
(* any largest window; then the start of the library, on any platform, and *)
(* the two together.                                                       *)
(***************************************************************************)
EXTENDS HookBoot, FiniteSetTheorems, TLAPS

(* Kernels launched but not counted yet *)
Uncounted == Cardinality(Launched)

(* Who has kcount_mutex *)
HolderOK == \A t \in Threads : pc[t] \in {"sync", "adjust"} <=> kcount = t

(* The count stays below the window while kcount_mutex is free *)
CountOK == kern_since_sync <= WindowMax /\ (kcount = None => kern_since_sync < WindowMax)

(* Every kernel on the GPU is counted or about to be *)
PendingOK == pending <= kern_since_sync + Uncounted

(* Kernels younger than the synchronisation a thread waits for are uncounted, *)
(* because their launchers wait for kcount_mutex                              *)
SyncOK ==
    \A t \in Threads : /\ pc[t] = "sync" => pending <= awaited[t] + Uncounted
                       /\ pc[t] = "adjust" => pending <= Uncounted

IInv == KernTypeOK /\ HolderOK /\ CountOK /\ PendingOK /\ SyncOK

-----------------------------------------------------------------------------
(* Launched is finite and no larger than the set of threads, and smaller     *)
(* when some thread is not in it                                             *)
LEMMA LaunchedSize ==
    /\ IsFiniteSet(Launched) /\ Uncounted \in Nat
    /\ Cardinality(Threads) \in Nat
    /\ Uncounted <= Cardinality(Threads)
    /\ \A t \in Threads : t \notin Launched => Uncounted + 1 <= Cardinality(Threads)
<1>1. Launched \in SUBSET Threads
  BY DEF Launched
<1>2. IsFiniteSet(Launched) /\ Uncounted <= Cardinality(Threads)
  BY <1>1, ThreadsAssumption, FS_Subset DEF Uncounted
<1>3. Uncounted \in Nat /\ Cardinality(Threads) \in Nat
  BY <1>2, ThreadsAssumption, FS_CardinalityType DEF Uncounted
<1>4. ASSUME NEW t \in Threads, t \notin Launched
      PROVE  Uncounted + 1 <= Cardinality(Threads)
  <2>1. Cardinality(Launched \cup {t}) = Uncounted + 1
    BY <1>2, <1>4, FS_AddElement DEF Uncounted
  <2>2. Launched \cup {t} \in SUBSET Threads
    BY <1>1
  <2>3. Cardinality(Launched \cup {t}) <= Cardinality(Threads)
    BY <2>2, ThreadsAssumption, FS_Subset
  <2> QED
    BY <2>1, <2>3
<1> QED
  BY <1>2, <1>3, <1>4

(* A launch adds one uncounted kernel *)
LEMMA LaunchAdds ==
    ASSUME KernTypeOK, NEW t \in Threads, Launch(t)
    PROVE  Uncounted' = Uncounted + 1
<1>1. Launched' = Launched \cup {t} /\ t \notin Launched
  BY DEF Launched, Launch, KernTypeOK
<1> QED
  BY <1>1, LaunchedSize, FS_AddElement DEF Uncounted

(* Counting takes one away *)
LEMMA CountRemoves ==
    ASSUME KernTypeOK, NEW t \in Threads, Count(t)
    PROVE  Uncounted' = Uncounted - 1 /\ Uncounted' \in Nat
<1>1. Launched' = Launched \ {t} /\ t \in Launched
  BY DEF Launched, Count, KernTypeOK
<1>2. IsFiniteSet(Launched') /\ Uncounted' = Uncounted - 1
  BY <1>1, LaunchedSize, FS_RemoveElement DEF Uncounted
<1>3. Uncounted' \in Nat
  BY <1>2, FS_CardinalityType DEF Uncounted
<1> QED
  BY <1>2, <1>3

(* The window stays in its bounds *)
LEMMA AdjustedBounds ==
    ASSUME NEW w \in 1 .. WindowMax
    PROVE  Adjusted(w) \subseteq 1 .. WindowMax
BY WindowAssumption DEF Adjusted

-----------------------------------------------------------------------------
LEMMA InitIInv == KernInit => IInv
<1> SUFFICES ASSUME KernInit PROVE IInv
  OBVIOUS
<1>1. KernTypeOK
  <2>1. own_lock \in BOOLEAN
    BY Zenon DEF KernInit
  <2>2. 0 \in Nat /\ 1 \in 1 .. WindowMax
    BY WindowAssumption
  <2> QED
    BY <2>1, <2>2 DEF KernInit, KernTypeOK
<1>2. HolderOK /\ SyncOK
  BY ThreadsAssumption DEF KernInit, HolderOK, SyncOK
<1>3. CountOK /\ PendingOK
  BY WindowAssumption, LaunchedSize DEF KernInit, CountOK, PendingOK
<1> QED
  BY <1>1, <1>2, <1>3 DEF IInv

(* Each step keeps the invariant *)
LEMMA NextIInv == IInv /\ [KernNext]_vars => IInv'
<1> SUFFICES ASSUME IInv, [KernNext]_vars PROVE IInv'
  OBVIOUS
<1> USE DEF IInv
<1>0. WindowMax \in Nat \ {0} /\ Uncounted \in Nat
  BY WindowAssumption, LaunchedSize
<1>1. ASSUME NEW t \in Threads, Gate(t) PROVE IInv'
  <2>1. KernTypeOK'
    BY <1>1 DEF Gate, KernTypeOK
  <2>2. Uncounted' = Uncounted
    BY <1>1 DEF Gate, KernTypeOK, Uncounted, Launched
  <2> QED
    BY <1>1, <2>1, <2>2 DEF Gate, KernTypeOK, HolderOK, CountOK, PendingOK, SyncOK
<1>2. ASSUME NEW t \in Threads, Launch(t) PROVE IInv'
  <2>1. KernTypeOK'
    BY <1>2 DEF Launch, KernTypeOK
  <2>2. Uncounted' = Uncounted + 1
    BY <1>2, LaunchAdds
  <2>3. HolderOK' /\ CountOK'
    BY <1>2 DEF Launch, KernTypeOK, HolderOK, CountOK
  <2>4. PendingOK'
    BY <1>0, <1>2, <2>2 DEF Launch, KernTypeOK, PendingOK
  <2>5. SyncOK'
    BY <1>0, <1>2, <2>2 DEF Launch, KernTypeOK, SyncOK, Waiters
  <2> QED
    BY <2>1, <2>3, <2>4, <2>5
<1>3. ASSUME NEW t \in Threads, Count(t) PROVE IInv'
  <2>1. KernTypeOK'
    BY <1>3 DEF Count, KernTypeOK, Waiters
  <2>2. Uncounted' = Uncounted - 1 /\ Uncounted' \in Nat
    BY <1>3, CountRemoves
  <2>3. \A u \in Threads : pc[u] \notin {"sync", "adjust"}
    BY <1>3, ThreadsAssumption DEF Count, HolderOK
  <2>4. HolderOK'
    BY <1>3, <2>3, ThreadsAssumption DEF Count, KernTypeOK, HolderOK
  <2>5. CountOK'
    BY <1>0, <1>3, ThreadsAssumption DEF Count, KernTypeOK, CountOK
  <2>6. PendingOK'
    <3>1. pending' = pending /\ kern_since_sync' = kern_since_sync + 1
      BY <1>3 DEF Count
    <3>2. pending \in Nat /\ kern_since_sync \in Nat
      BY DEF KernTypeOK
    <3> QED
      BY <1>0, <2>2, <3>1, <3>2 DEF PendingOK
  <2>7. SyncOK'
    BY <1>0, <1>3, <2>2, <2>3 DEF Count, KernTypeOK, SyncOK, Waiters
  <2> QED
    BY <2>1, <2>4, <2>5, <2>6, <2>7
<1>4. ASSUME NEW t \in Threads, SyncReturns(t) PROVE IInv'
  <2>1. KernTypeOK'
    BY <1>4, AdjustedBounds DEF SyncReturns, KernTypeOK
  <2>2. Uncounted' = Uncounted
    BY <1>4 DEF SyncReturns, KernTypeOK, Uncounted, Launched
  <2>3. HolderOK' /\ CountOK' /\ PendingOK'
    BY <1>4, <2>2 DEF SyncReturns, KernTypeOK, HolderOK, CountOK, PendingOK
  <2>4. SyncOK'
    BY <1>0, <1>4, <2>2 DEF SyncReturns, KernTypeOK, SyncOK
  <2> QED
    BY <2>1, <2>3, <2>4
<1>5. ASSUME NEW t \in Threads, Adjust(t) PROVE IInv'
  <2>1. KernTypeOK'
    BY <1>0, <1>5 DEF Adjust, KernTypeOK
  <2>2. Uncounted' = Uncounted
    BY <1>5 DEF Adjust, KernTypeOK, Uncounted, Launched
  <2>3. \A u \in Threads : u # t => pc[u] \notin {"sync", "adjust"}
    BY <1>5 DEF Adjust, HolderOK
  <2>4. HolderOK'
    BY <1>5, <2>3, ThreadsAssumption DEF Adjust, KernTypeOK, HolderOK
  <2>5. CountOK'
    BY <1>0, <1>5 DEF Adjust, CountOK
  <2>6. PendingOK'
    BY <1>0, <1>5, <2>2 DEF Adjust, KernTypeOK, PendingOK, SyncOK
  <2>7. SyncOK'
    BY <1>5, <2>3 DEF Adjust, KernTypeOK, SyncOK
  <2> QED
    BY <2>1, <2>4, <2>5, <2>6, <2>7
<1>6. ASSUME DropLock \/ IdleCheck PROVE IInv'
  <2>1. KernTypeOK'
    <3>1. own_lock' \in BOOLEAN
      BY <1>6, Zenon DEF DropLock, IdleCheck, KernTypeOK
    <3>2. pending_kernel_window' = 1 /\ awaited' = [awaited EXCEPT ![Syncer] = pending]
      BY <1>6 DEF DropLock, IdleCheck, cuda_sync_context
    <3>3. /\ syncing' \in {"no", "drop", "idle"}
          /\ UNCHANGED <<pc, kcount, kern_since_sync, next_window, pending>>
      BY <1>6 DEF DropLock, IdleCheck
    <3> QED
      BY <1>0, <3>1, <3>2, <3>3 DEF KernTypeOK, Waiters
  <2>2. Uncounted' = Uncounted
    BY <1>6 DEF DropLock, IdleCheck, Uncounted, Launched
  <2>3. \A t \in Threads : awaited'[t] = awaited[t]
    BY <1>6, ThreadsAssumption DEF DropLock, IdleCheck, cuda_sync_context, KernTypeOK, Waiters
  <2> QED
    BY <1>6, <2>1, <2>2, <2>3
    DEF DropLock, IdleCheck, HolderOK, CountOK, PendingOK, SyncOK
<1>7. ASSUME SyncDone \/ LockOk \/ LockGone \/ UNCHANGED vars PROVE IInv'
  <2>1. KernTypeOK'
    BY <1>7 DEF SyncDone, LockOk, LockGone, vars, KernTypeOK
  <2>2. UNCHANGED <<pc, kcount, kern_since_sync, pending, awaited>>
    BY <1>7 DEF SyncDone, LockOk, LockGone, vars
  <2> QED
    BY <2>1, <2>2 DEF HolderOK, CountOK, PendingOK, SyncOK, Uncounted, Launched
<1>8. ASSUME KernelDone PROVE IInv'
  <2>1. KernTypeOK'
    BY <1>8 DEF KernelDone, KernTypeOK
  <2>2. Uncounted' = Uncounted
    BY <1>8 DEF KernelDone, Uncounted, Launched
  <2>3. HolderOK' /\ CountOK'
    BY <1>8 DEF KernelDone, HolderOK, CountOK
  <2>4. PendingOK'
    BY <1>0, <1>8, <2>2 DEF KernelDone, KernTypeOK, PendingOK
  <2>5. SyncOK'
    BY <1>0, <1>8, <2>2 DEF KernelDone, KernTypeOK, SyncOK, Waiters
  <2> QED
    BY <2>1, <2>3, <2>4, <2>5
<1> QED
  BY <1>1, <1>2, <1>3, <1>4, <1>5, <1>6, <1>7, <1>8 DEF KernNext, LaunchStep

(* The invariant gives the bound: either kcount_mutex is free and the count  *)
(* is below the window, or its holder is no uncounted launcher               *)
LEMMA IInvThrottle == IInv => Throttle
<1> SUFFICES ASSUME IInv PROVE Throttle
  OBVIOUS
<1>1. /\ WindowMax \in Nat /\ Uncounted \in Nat /\ Cardinality(Threads) \in Nat
      /\ Uncounted <= Cardinality(Threads)
      /\ kern_since_sync \in Nat /\ pending \in Nat
      /\ pending <= kern_since_sync + Uncounted
  BY WindowAssumption, LaunchedSize DEF IInv, KernTypeOK, PendingOK
<1>2. CASE kcount = None
  BY <1>1, <1>2 DEF IInv, CountOK, Throttle
<1>3. CASE kcount \in Threads
  <2>1. kcount \notin Launched
    BY <1>3 DEF IInv, HolderOK, Launched
  <2>2. Uncounted + 1 <= Cardinality(Threads)
    BY <1>3, <2>1, LaunchedSize
  <2> QED
    BY <1>1, <2>2 DEF IInv, CountOK, Throttle
<1> QED
  BY <1>2, <1>3 DEF IInv, KernTypeOK

-----------------------------------------------------------------------------
(* The start of the library *)

(* Without these the process ends *)
Mandatory == RealFns \ (NvmlSymbols \cup OptionalSymbols)

(* Pointers lead where they should *)
PointersOK ==
    /\ table \in [Hooks -> {"null", "hook"}]
    /\ real \in [RealFns -> {"null", "driver"}]

(* bootstrap_cuda() has looked up the first `symbols' of its names.  A       *)
(* mandatory one that is missing was the last; one of NVML's that is missing *)
(* has cleared nvml_ok.                                                      *)
SymbolsOK ==
    /\ symbols \in 0 .. Len(BootOrder)
    /\ \A i \in 1 .. Len(BootOrder) : i > symbols => real[BootOrder[i]] = "null"
    /\ \A i \in 1 .. symbols :
          BootOrder[i] \in Mandatory /\ real[BootOrder[i]] = "null" =>
              i = symbols /\ cuda = "exited"
    /\ nvml_ok =>
          \A i \in 1 .. symbols : BootOrder[i] \in NvmlSymbols => real[BootOrder[i]] # "null"

(* The client is created behind a bootstrap that is complete *)
StagesOK ==
    /\ once \in [{"lib", "client"} -> {"no", "running", "done"}]
    /\ once["lib"] = "done" => symbols = Len(BootOrder)
    /\ once["client"] = "done" => once["lib"] = "done"
    /\ client # "none" => once["lib"] = "done"
    /\ \A t \in Threads : entry[t] \in {"client", "create", "ready"} => once["lib"] = "done"

(* cuInit() returns behind it too *)
UpOK == cuda \notin {"no", "exited"} => once["lib"] = "done"

Entries == {"out", "lib", "bootstrap", "client", "create", "ready"}

BootInv ==
    /\ PointersOK /\ SymbolsOK /\ StagesOK /\ UpOK
    /\ null_call # "yes"
    /\ entry \in [Threads -> Entries]

(* The order of the names matters: what a gated hook calls comes before it *)
LEMMA BootOrderFacts ==
    /\ Len(BootOrder) = 23 /\ RealFns = {BootOrder[i] : i \in 1 .. 23}
    /\ \A i, j \in 1 .. 23 : BootOrder[i] = BootOrder[j] => i = j
    /\ \A i \in 1 .. 23 : BootOrder[i] \in Gated => i >= 15
    /\ BootOrder[9] = "cuGetErrorString" /\ BootOrder[10] = "cuGetErrorName"
    /\ BootOrder[12] = "cuCtxGetCurrent" /\ BootOrder[13] = "cuInit"
    /\ BootOrder[14] = "cuCtxSynchronize"
<1>1. Len(BootOrder) = 23
  BY DEF BootOrder
<1>3. DOMAIN BootOrder = 1 .. 23
  BY DEF BootOrder
<1>4. RealFns = {BootOrder[i] : i \in 1 .. 23}
  BY <1>3 DEF RealFns, Range
<1>5. /\ BootOrder[1] = "nvmlDeviceGetUtilizationRates" /\ BootOrder[2] = "nvmlInit"
      /\ BootOrder[3] = "nvmlDeviceGetHandleByIndex" /\ BootOrder[4] = "cuMemAllocManaged"
      /\ BootOrder[5] = "cuMemFree" /\ BootOrder[6] = "cuGetProcAddress"
      /\ BootOrder[7] = "cuGetProcAddress_v2" /\ BootOrder[8] = "cuMemGetInfo"
      /\ BootOrder[9] = "cuGetErrorString" /\ BootOrder[10] = "cuGetErrorName"
      /\ BootOrder[11] = "cuCtxSetCurrent" /\ BootOrder[12] = "cuCtxGetCurrent"
      /\ BootOrder[13] = "cuInit" /\ BootOrder[14] = "cuCtxSynchronize"
      /\ BootOrder[15] = "cuLaunchKernel" /\ BootOrder[16] = "cuMemcpy"
      /\ BootOrder[17] = "cuMemcpyAsync" /\ BootOrder[18] = "cuMemcpyDtoH"
      /\ BootOrder[19] = "cuMemcpyDtoHAsync" /\ BootOrder[20] = "cuMemcpyHtoD"
      /\ BootOrder[21] = "cuMemcpyHtoDAsync" /\ BootOrder[22] = "cuMemcpyDtoD"
      /\ BootOrder[23] = "cuMemcpyDtoDAsync"
  BY DEF BootOrder
<1>6. \A i, j \in 1 .. 23 : BootOrder[i] = BootOrder[j] => i = j
  BY <1>5
<1>7. \A i \in 1 .. 23 : BootOrder[i] \in Gated => i >= 15
  BY <1>5 DEF Gated
<1>8. QED
  BY <1>1, <1>4, <1>5, <1>6, <1>7

(* A function that is looked up by the headers' name has its hook found *)
LEMMA TablesOK ==
    TableByDlsym \in [Hooks -> {"hook"}] /\ TableByProcAddress \in [Hooks -> {"hook"}]
<1>1. ASSUME NEW f \in Hooks PROVE dlsym(CUDA_SYMBOL_STRING(f)) = "hook"
  <2>1. CUDA_SYMBOL_STRING(f) \in dlsym_225_names /\ CUDA_SYMBOL_STRING(f) \in dlsym_234_names
    BY DEF dlsym_225_names, dlsym_234_names, Hooks, Gated
  <2>2. QED
    BY <2>1 DEF dlsym
<1>2. ASSUME NEW f \in Hooks PROVE cuGetProcAddress(Plain(f)) = "hook"
  <2>1. Plain(f) \in cuGetProcAddress_names
    BY DEF cuGetProcAddress_names, Hooks, Gated
  <2>2. QED
    BY <2>1 DEF cuGetProcAddress
<1>3. QED
  BY <1>1, <1>2 DEF TableByDlsym, TableByProcAddress

LEMMA InitBootInv == BootInit => BootInv
<1> SUFFICES ASSUME BootInit PROVE BootInv
  OBVIOUS
<1>1. PointersOK
  BY DEF BootInit, PointersOK
<1>2. \A i \in 1 .. 23 : BootOrder[i] \in RealFns
  BY BootOrderFacts
<1>3. SymbolsOK
  BY <1>2, BootOrderFacts DEF BootInit, SymbolsOK
<1>4. once = [lib |-> "no", client |-> "no"] /\ client = "none" /\ cuda = "no"
      /\ null_call = "no" /\ entry = [t \in Threads |-> "out"]
  BY DEF BootInit
<1>5. once["lib"] = "no" /\ once["client"] = "no"
  BY <1>4
<1>6. once \in [{"lib", "client"} -> {"no", "running", "done"}]
  BY <1>4
<1>7. StagesOK
  BY <1>4, <1>5, <1>6 DEF StagesOK
<1>8. entry \in [Threads -> Entries]
  BY <1>4 DEF Entries
<1>9. QED
  BY <1>1, <1>3, <1>4, <1>7, <1>8 DEF BootInv, UpOK

(* A process that lives behind its bootstrap has every mandatory function *)
LEMMA BootedPointers ==
    ASSUME BootInv, once["lib"] = "done", cuda # "exited"
    PROVE  \A g \in Mandatory : real[g] # "null"
<1>1. symbols = 23
  BY BootOrderFacts DEF BootInv, StagesOK
<1>2. ASSUME NEW g \in Mandatory PROVE real[g] # "null"
  <2>1. PICK i \in 1 .. 23 : g = BootOrder[i]
    BY <1>2, BootOrderFacts DEF Mandatory
  <2>2. QED
    BY <1>1, <1>2, <2>1 DEF BootInv, SymbolsOK
<1>3. QED
  BY <1>2

(* What cuInit() and the memory hooks call is mandatory *)
LEMMA UsesMandatory ==
    InitUses \subseteq Mandatory /\ \A f \in MemHooks : MemUses(f) \subseteq Mandatory
<1>1. \A g \in {"cuInit", "cuGetErrorString", "cuGetErrorName", "cuMemAllocManaged",
                "cuMemFree", "cuMemGetInfo"} : g \in Mandatory
  BY DEF Mandatory, RealFns, Range, BootOrder, NvmlSymbols, OptionalSymbols
<1>2. InitUses \subseteq Mandatory
  BY <1>1 DEF InitUses, ErrorFns
<1>3. ASSUME NEW f \in MemHooks PROVE MemUses(f) \subseteq Mandatory
  BY <1>1 DEF MemHooks, MemUses, Tested, ErrorFns
<1>4. QED
  BY <1>2, <1>3

(* One more symbol *)
LEMMA BootstrapKeeps ==
    ASSUME BootInv, NEW t \in Threads, Bootstrap(t)
    PROVE  PointersOK' /\ SymbolsOK' /\ once["lib"] # "done"
<1> DEFINE n == symbols + 1
           f == BootOrder[n]
           address == real_dlsym(CUDA_SYMBOL_STRING(f))
<1>0. /\ Len(BootOrder) = 23 /\ symbols \in 0 .. 23 /\ symbols < 23 /\ n \in 1 .. 23
      /\ \A i \in 1 .. 23 : i > symbols => real[BootOrder[i]] = "null"
      /\ \A i \in 1 .. symbols :
            BootOrder[i] \in Mandatory /\ real[BootOrder[i]] = "null" =>
                i = symbols /\ cuda = "exited"
      /\ nvml_ok =>
            \A i \in 1 .. symbols : BootOrder[i] \in NvmlSymbols => real[BootOrder[i]] # "null"
  BY BootOrderFacts DEF BootInv, SymbolsOK, Bootstrap
<1>1. /\ address \in {"null", "driver"} /\ f \in RealFns
      /\ \A i, j \in 1 .. 23 : BootOrder[i] = BootOrder[j] => i = j
      /\ \A i \in 1 .. 23 : BootOrder[i] \in RealFns
  BY <1>0, BootOrderFacts DEF real_dlsym
<1>2. /\ symbols' = n /\ cuda # "exited"
      /\ real' = [real EXCEPT ![f] = address]
      /\ nvml_ok' = (nvml_ok /\ (f \in NvmlSymbols => address # "null"))
      /\ cuda' = IF address = "null" /\ f \notin NvmlSymbols \cup OptionalSymbols
                 THEN "exited" ELSE cuda
      /\ table' = table
  BY DEF Bootstrap, Alive
<1>3. real \in [RealFns -> {"null", "driver"}] /\ table \in [Hooks -> {"null", "hook"}]
  BY DEF BootInv, PointersOK
<1> HIDE DEF address
<1>4. PointersOK'
  BY <1>1, <1>2, <1>3 DEF PointersOK
<1>5. /\ real'[BootOrder[n]] = address
      /\ \A i \in 1 .. 23 : i # n => real'[BootOrder[i]] = real[BootOrder[i]]
  BY <1>0, <1>1, <1>2, <1>3
<1>6. \A i \in 1 .. n : i = n \/ i \in 1 .. symbols
  BY <1>0
<1>7. \A i \in 1 .. 23 : i > n => real'[BootOrder[i]] = "null"
  BY <1>0, <1>5
<1>8. ASSUME NEW i \in 1 .. n, BootOrder[i] \in Mandatory, real'[BootOrder[i]] = "null"
      PROVE  i = n /\ cuda' = "exited"
  <2>1. CASE i = n
    BY <1>2, <1>5, <1>8, <2>1 DEF Mandatory
  <2>2. CASE i # n
    BY <1>0, <1>2, <1>5, <1>6, <1>8, <2>2
  <2>3. QED
    BY <2>1, <2>2
<1>13. nvml_ok' => nvml_ok /\ (f \in NvmlSymbols => address # "null")
  BY <1>2, Zenon
<1>9. ASSUME nvml_ok', NEW i \in 1 .. n, BootOrder[i] \in NvmlSymbols
      PROVE  real'[BootOrder[i]] # "null"
  <2>1. CASE i = n
    BY <1>5, <1>9, <1>13, <2>1
  <2>2. CASE i # n
    BY <1>0, <1>5, <1>6, <1>9, <1>13, <2>2
  <2>3. QED
    BY <2>1, <2>2
<1>10. SymbolsOK'
  BY <1>0, <1>2, <1>7, <1>8, <1>9 DEF SymbolsOK
<1>11. once["lib"] # "done"
  BY <1>0 DEF BootInv, StagesOK
<1>12. QED
  BY <1>4, <1>10, <1>11

LEMMA NextBootInv == BootInv /\ [HookNext]_hookVars => BootInv'
<1> SUFFICES ASSUME BootInv, [HookNext]_hookVars PROVE BootInv'
  OBVIOUS
<1>0. /\ entry \in [Threads -> Entries] /\ null_call # "yes" /\ UpOK
      /\ PointersOK /\ SymbolsOK /\ StagesOK
      /\ once \in [{"lib", "client"} -> {"no", "running", "done"}]
  BY DEF BootInv, StagesOK
<1>1. Stage["out"] = "lib" /\ Stage["lib"] = "client" /\ Stage["client"] = "ready"
  BY DEF Stage
<1>2. ASSUME UNCHANGED <<real, symbols, nvml_ok>>, cuda' = cuda \/ cuda' = "exited" \/ cuda # "exited"
      PROVE  SymbolsOK'
  BY <1>0, <1>2 DEF SymbolsOK
<1>3. ASSUME UNCHANGED <<real, table>> PROVE PointersOK'
  BY <1>0, <1>3 DEF PointersOK
<1>4. ASSUME NEW t \in Threads, Load(t) PROVE BootInv'
  <2>1. PointersOK'
    BY <1>0, <1>4, TablesOK DEF Load, PointersOK, Enter
  <2>2. SymbolsOK'
    BY <1>2, <1>4 DEF Load
  <2>3. entry' \in [Threads -> Entries] /\ \A u \in Threads : entry'[u] = entry[u] \/ entry'[u] = "lib"
    BY <1>0, <1>1, <1>4 DEF Load, Enter, Entries
  <2>4. StagesOK'
    BY <1>0, <1>4, <2>3 DEF Load, StagesOK
  <2>5. QED
    BY <1>0, <1>4, <2>1, <2>2, <2>3, <2>4 DEF BootInv, UpOK, Load
<1>5. ASSUME NEW t \in Threads, CallInit(t) PROVE BootInv'
  <2>1. PointersOK' /\ SymbolsOK'
    BY <1>2, <1>3, <1>5 DEF CallInit
  <2>2. entry' \in [Threads -> Entries] /\ \A u \in Threads : entry'[u] = entry[u] \/ entry'[u] = "lib"
    BY <1>0, <1>1, <1>5 DEF CallInit, Enter, Entries
  <2>3. StagesOK'
    BY <1>0, <1>5, <2>2 DEF CallInit, StagesOK
  <2>4. QED
    BY <1>0, <1>5, <2>1, <2>2, <2>3 DEF BootInv, UpOK, CallInit
<1>6. ASSUME NEW t \in Threads, OnceBegins(t) PROVE BootInv'
  <2>1. PointersOK' /\ SymbolsOK'
    BY <1>2, <1>3, <1>6 DEF OnceBegins
  <2>2. /\ entry' \in [Threads -> Entries]
        /\ \A u \in Threads : \/ entry'[u] = entry[u] \/ entry'[u] = "bootstrap"
                              \/ entry'[u] = "create" /\ entry[u] = "client"
    BY <1>0, <1>6 DEF OnceBegins, Entries
  <2>3. /\ once' \in [{"lib", "client"} -> {"no", "running", "done"}]
        /\ \A x \in {"lib", "client"} : once'[x] = "done" <=> once[x] = "done"
    BY <1>0, <1>6 DEF OnceBegins
  <2>4. StagesOK'
    BY <1>0, <1>6, <2>2, <2>3 DEF OnceBegins, StagesOK
  <2>5. QED
    BY <1>0, <1>6, <2>1, <2>2, <2>3, <2>4 DEF BootInv, UpOK, OnceBegins
<1>7. ASSUME NEW t \in Threads, OncePasses(t) PROVE BootInv'
  <2>1. PointersOK' /\ SymbolsOK'
    BY <1>2, <1>3, <1>7 DEF OncePasses
  <2>2. /\ entry' \in [Threads -> Entries]
        /\ \A u \in Threads : \/ entry'[u] = entry[u]
                              \/ entry'[u] = "client" /\ once["lib"] = "done"
                              \/ entry'[u] = "ready" /\ entry[u] = "client"
    BY <1>0, <1>1, <1>7 DEF OncePasses, Entries
  <2>3. StagesOK'
    BY <1>0, <1>7, <2>2 DEF OncePasses, StagesOK
  <2>4. QED
    BY <1>0, <1>7, <2>1, <2>2, <2>3 DEF BootInv, UpOK, OncePasses
<1>8. ASSUME NEW t \in Threads, Bootstrap(t) PROVE BootInv'
  <2>1. PointersOK' /\ SymbolsOK' /\ once["lib"] # "done"
    BY <1>8, BootstrapKeeps
  <2>2. UNCHANGED <<once, entry, client, null_call>>
    BY <1>8 DEF Bootstrap
  <2>3. StagesOK'
    BY <1>0, <2>1, <2>2 DEF StagesOK
  <2>4. cuda' = cuda \/ cuda' = "exited"
    BY <1>8 DEF Bootstrap
  <2>5. QED
    BY <1>0, <2>1, <2>2, <2>3, <2>4 DEF BootInv, UpOK
<1>9. ASSUME NEW t \in Threads, BootstrapDone(t) PROVE BootInv'
  <2>1. PointersOK' /\ SymbolsOK'
    BY <1>2, <1>3, <1>9 DEF BootstrapDone
  <2>2. entry' \in [Threads -> Entries]
    BY <1>0, <1>1, <1>9 DEF BootstrapDone, Entries
  <2>3. /\ once' \in [{"lib", "client"} -> {"no", "running", "done"}]
        /\ once'["lib"] = "done" /\ symbols' = Len(BootOrder)
    BY <1>0, <1>9 DEF BootstrapDone
  <2>4. StagesOK'
    BY <2>3 DEF StagesOK
  <2>5. QED
    BY <1>0, <1>9, <2>1, <2>2, <2>3, <2>4 DEF BootInv, UpOK, BootstrapDone
<1>10. ASSUME NEW t \in Threads, CreateClient(t) PROVE BootInv'
  <2>1. PointersOK' /\ SymbolsOK'
    BY <1>2, <1>3, <1>10 DEF CreateClient
  <2>2. StagesOK'
    BY <1>0, <1>10 DEF CreateClient, StagesOK
  <2>3. QED
    BY <1>0, <1>10, <2>1, <2>2 DEF BootInv, UpOK, CreateClient
<1>11. ASSUME NEW t \in Threads, ClientReady(t) PROVE BootInv'
  <2>1. PointersOK' /\ SymbolsOK'
    BY <1>2, <1>3, <1>11 DEF ClientReady
  <2>2. entry' \in [Threads -> Entries]
    BY <1>0, <1>1, <1>11 DEF ClientReady, Entries
  <2>3. once["lib"] = "done" /\ symbols = Len(BootOrder)
    BY <1>0, <1>11 DEF ClientReady, StagesOK
  <2>4. /\ once' \in [{"lib", "client"} -> {"no", "running", "done"}]
        /\ once'["lib"] = "done" /\ symbols' = Len(BootOrder)
    BY <1>0, <1>11, <2>3 DEF ClientReady
  <2>5. StagesOK'
    BY <2>4 DEF StagesOK
  <2>6. QED
    BY <1>0, <1>11, <2>1, <2>2, <2>4, <2>5 DEF BootInv, UpOK, ClientReady
<1>12. ASSUME NEW t \in Threads, InitReturns(t) PROVE BootInv'
  <2>1. PointersOK' /\ SymbolsOK'
    BY <1>2, <1>3, <1>12 DEF InitReturns
  <2>2. /\ entry' \in [Threads -> Entries]
        /\ \A u \in Threads : entry'[u] = entry[u] \/ entry'[u] = "out"
    BY <1>0, <1>12 DEF InitReturns, Entries
  <2>3. StagesOK'
    BY <1>0, <1>12, <2>2 DEF InitReturns, StagesOK
  <2>4. once["lib"] = "done" /\ cuda # "exited"
    BY <1>0, <1>12 DEF InitReturns, StagesOK
  <2>5. ~CallsNull(InitUses)
    BY <2>4, BootedPointers, UsesMandatory DEF CallsNull
  <2>6. null_call' # "yes" /\ UpOK'
    BY <1>0, <1>12, <2>4, <2>5 DEF InitReturns, UpOK
  <2>7. QED
    BY <2>1, <2>2, <2>3, <2>6 DEF BootInv
<1>13. ASSUME NEW t \in Threads, ProcAddressReturns(t) PROVE BootInv'
  <2>1. PointersOK'
    BY <1>0, <1>13, TablesOK DEF ProcAddressReturns, PointersOK
  <2>2. SymbolsOK'
    BY <1>2, <1>13 DEF ProcAddressReturns
  <2>3. /\ entry' \in [Threads -> Entries]
        /\ \A u \in Threads : entry'[u] = entry[u] \/ entry'[u] = "out"
    BY <1>0, <1>13 DEF ProcAddressReturns, Entries
  <2>4. StagesOK'
    BY <1>0, <1>13, <2>3 DEF ProcAddressReturns, StagesOK
  <2>5. QED
    BY <1>0, <1>13, <2>1, <2>2, <2>3, <2>4 DEF BootInv, UpOK, ProcAddressReturns
<1>14. CASE ClientStarts
  <2>1. PointersOK' /\ SymbolsOK'
    BY <1>2, <1>3, <1>14 DEF ClientStarts, Alive
  <2>2. StagesOK'
    BY <1>0, <1>14 DEF ClientStarts, StagesOK
  <2>3. once["lib"] = "done" /\ cuda # "exited"
    BY <1>0, <1>14 DEF ClientStarts, StagesOK, Alive
  <2>4. ~CallsNull(InitUses)
    BY <2>3, BootedPointers, UsesMandatory DEF CallsNull
  <2>5. null_call' # "yes" /\ UpOK' /\ entry' = entry
    BY <1>0, <1>14, <2>3, <2>4 DEF ClientStarts, UpOK
  <2>6. QED
    BY <1>0, <2>1, <2>2, <2>5 DEF BootInv
<1>15. CASE InitialStatus
  <2>1. PointersOK' /\ SymbolsOK'
    BY <1>2, <1>3, <1>15 DEF InitialStatus
  <2>2. StagesOK'
    BY <1>0, <1>15 DEF InitialStatus, StagesOK
  <2>3. QED
    BY <1>0, <1>15, <2>1, <2>2 DEF BootInv, UpOK, InitialStatus
<1>16. CASE Running \/ UNCHANGED hookVars
  <2>1. UNCHANGED bootVars
    BY <1>16 DEF Running, Started, hookVars
  <2>2. UNCHANGED <<real, symbols, nvml_ok, cuda, table, once, client, entry, null_call>>
    BY <2>1 DEF bootVars
  <2>3. PointersOK' /\ SymbolsOK'
    BY <1>2, <1>3, <2>2
  <2>4. StagesOK'
    BY <1>0, <2>2 DEF StagesOK
  <2>5. QED
    BY <1>0, <2>2, <2>3, <2>4 DEF BootInv, UpOK
<1>17. ASSUME NEW t \in Threads, NEW f \in MemHooks, MemCall(t, f) PROVE BootInv'
  <2>1. /\ UNCHANGED <<real, symbols, nvml_ok, table, once, client, entry>>
        /\ cuda' = "exited" /\ cuda # "exited" /\ CallsNull(MemUses(f))
        /\ null_call' = IF cuda = "no" THEN "early" ELSE "yes"
    BY <1>17 DEF MemCall, Alive
  <2>2. PointersOK' /\ SymbolsOK'
    BY <1>2, <1>3, <2>1
  <2>3. StagesOK'
    BY <1>0, <2>1 DEF StagesOK
  <2>4. ASSUME cuda # "no" PROVE FALSE
    <3>1. once["lib"] = "done"
      BY <1>0, <2>1, <2>4 DEF UpOK
    <3>2. ~CallsNull(MemUses(f))
      BY <2>1, <3>1, BootedPointers, UsesMandatory DEF CallsNull
    <3>3. QED
      BY <2>1, <3>2
  <2>5. QED
    BY <1>0, <2>1, <2>2, <2>3, <2>4 DEF BootInv, UpOK
<1>18. QED
  BY <1>4, <1>5, <1>6, <1>7, <1>8, <1>9, <1>10, <1>11, <1>12, <1>13, <1>14, <1>15, <1>16,
     <1>17 DEF HookNext, BootStep

(* What a process does before its first status leaves the kernels alone *)
LEMMA NextBothInv == IInv /\ [HookNext]_hookVars => IInv'
<1> SUFFICES ASSUME IInv, [HookNext]_hookVars PROVE IInv'
  OBVIOUS
<1>1. CASE Running
  <2>1. KernNext
    BY <1>1 DEF Running, KernNext
  <2>2. QED
    BY <2>1, NextIInv
<1>2. CASE InitialStatus
  <2>1. /\ own_lock' \in BOOLEAN
        /\ UNCHANGED <<syncing, pc, kcount, kern_since_sync, pending_kernel_window,
                       next_window, pending, awaited>>
    BY <1>2 DEF InitialStatus
  <2>2. Uncounted' = Uncounted
    BY <2>1 DEF Uncounted, Launched
  <2>3. KernTypeOK'
    <3>1. own_lock' \in BOOLEAN
      BY <2>1
    <3>2. QED
      BY <2>1, <3>1 DEF IInv, KernTypeOK
  <2>4. QED
    BY <2>1, <2>2, <2>3 DEF IInv, HolderOK, CountOK, PendingOK, SyncOK
<1>3. CASE UNCHANGED vars
  BY <1>3, NextIInv
<1>4. ASSUME NEW t \in Threads, Load(t) \/ CallInit(t) \/ BootStep(t) PROVE UNCHANGED vars
  BY <1>4 DEF Load, CallInit, BootStep, OnceBegins, OncePasses, Bootstrap, BootstrapDone,
              CreateClient, ClientReady, InitReturns, ProcAddressReturns
<1>5. ClientStarts => UNCHANGED vars
  BY DEF ClientStarts
<1>6. ASSUME NEW t \in Threads, NEW f \in MemHooks, MemCall(t, f) PROVE UNCHANGED vars
  BY <1>6 DEF MemCall
<1>7. QED
  BY <1>1, <1>2, <1>3, <1>4, <1>5, <1>6 DEF HookNext, hookVars

(* A gated hook that finds its own pointer finds everything it calls: the    *)
(* names it needs come before it in bootstrap_cuda(), and a missing one has  *)
(* ended the process                                                         *)
LEMMA BootInvNoNullCall == BootInv => NoNullCall
<1> SUFFICES ASSUME BootInv PROVE NoNullCall
  OBVIOUS
<1>0. /\ symbols \in 0 .. 23
      /\ \A i \in 1 .. 23 : i > symbols => real[BootOrder[i]] = "null"
      /\ \A i \in 1 .. symbols :
            BootOrder[i] \in Mandatory /\ real[BootOrder[i]] = "null" => i = symbols
      /\ nvml_ok =>
            \A i \in 1 .. symbols : BootOrder[i] \in NvmlSymbols => real[BootOrder[i]] # "null"
  BY BootOrderFacts DEF BootInv, SymbolsOK
<1>1. ASSUME once.client = "done", nvml_ok, NEW f \in NvmlSymbols PROVE real[f] # "null"
  <2>1. symbols = 23
    BY <1>1, BootOrderFacts DEF BootInv, StagesOK
  <2>2. f \in RealFns
    BY DEF NvmlSymbols, RealFns, Range, BootOrder
  <2>3. PICK i \in 1 .. 23 : f = BootOrder[i]
    BY <2>2, BootOrderFacts
  <2>4. QED
    BY <1>0, <1>1, <2>1, <2>3
<1>2. ASSUME NEW f \in Gated, real[f] # "null", NEW g \in Uses(f) PROVE real[g] # "null"
  <2>1. f \in RealFns
    BY DEF Gated, RealFns, Range, BootOrder
  <2>2. PICK i \in 1 .. 23 : f = BootOrder[i]
    BY <2>1, BootOrderFacts
  <2>3. i >= 15 /\ symbols >= 15
    BY <1>0, <1>2, <2>2, BootOrderFacts
  <2>4. CASE g = f
    BY <1>2, <2>4
  <2>5. CASE g # f
    <3>1. g \in {"cuCtxGetCurrent", "cuGetErrorString", "cuGetErrorName", "cuCtxSynchronize"}
      BY <1>2, <2>5 DEF Uses, ErrorFns
    <3>2. g = BootOrder[12] \/ g = BootOrder[9] \/ g = BootOrder[10] \/ g = BootOrder[14]
      BY <3>1, BootOrderFacts
    <3>3. PICK j \in 1 .. 14 : g = BootOrder[j]
      BY <3>2
    <3>4. g \in RealFns
      BY <3>3, BootOrderFacts
    <3>5. g \in Mandatory
      BY <3>1, <3>4 DEF Mandatory, NvmlSymbols, OptionalSymbols
    <3>6. QED
      BY <1>0, <2>3, <3>3, <3>5
  <2>6. QED
    BY <2>4, <2>5
<1>3. null_call # "yes"
  BY DEF BootInv
<1>4. ASSUME NEW f \in Gated, real[f] # "null" PROVE ~CallsNull(Uses(f))
  BY <1>2, <1>4 DEF CallsNull
<1>5. QED
  BY <1>1, <1>3, <1>4 DEF NoNullCall

-----------------------------------------------------------------------------
(* The invariants of the two parts, of a whole process *)
THEOREM HookInvariance == HookSpec => [](IInv /\ BootInv)
<1>1. BootInit => IInv /\ BootInv
  BY InitIInv, InitBootInv DEF BootInit
<1> QED
  BY <1>1, NextBothInv, NextBootInv, PTL DEF HookSpec

(* On every platform, however many threads start at once, no lookup through  *)
(* dlsym() or cuGetProcAddress() gives the application the driver's own      *)
(* function, and no real_ pointer of hook.c is a hook                        *)
THEOREM AlwaysInterposed == HookSpec => []Interposed
<1>1. BootInv => Interposed
  BY DEF BootInv, PointersOK, Interposed
<1> QED
  BY <1>1, HookInvariance, PTL

(* cuInit(), client_fn(), the early releaser and the gated hooks call no     *)
(* NULL pointer, at whatever moment of bootstrap_cuda() another thread       *)
(* enters a hook, and neither do the memory hooks once a cuInit() returned   *)
THEOREM NullIsNeverCalled == HookSpec => []NoNullCall
BY HookInvariance, BootInvNoNullCall, PTL

(* cuLaunchKernel() and cuda_sync_context() keep at most WindowMax kernels,  *)
(* and one for every further thread, on the GPU                              *)
THEOREM WindowThrottles == HookSpec => []Throttle
BY HookInvariance, IInvThrottle, PTL

(* Every variable of the launches keeps its type; the window never leaves    *)
(* 1 .. WindowMax although two mutexes protect its two writers               *)
THEOREM KernTypeCorrect == HookSpec => []KernTypeOK
<1>1. IInv => KernTypeOK
  BY DEF IInv
<1> QED
  BY <1>1, HookInvariance, PTL
=============================================================================
