------------------------------ MODULE HookBoot ------------------------------
(***************************************************************************)
(* How libnvshare gets between an application and the CUDA driver          *)
(* (src/src/hook.c), and how it starts (bootstrap_cuda() in hook.c,        *)
(* initialize_client() and the start of client_fn() in src/src/client.c),  *)
(* composed with the kernel launches of HookKernels.                       *)
(*                                                                         *)
(* An application reaches the driver's functions by linking to them, by    *)
(* dlsym(), or by cuGetProcAddress(), whose own address it has from        *)
(* dlsym().  Where an address leads is one of "null", "hook" or "driver".  *)
(* The platform (how the CUDA runtime asks, which optional symbols the     *)
(* driver and NVML have) is fixed in the initial state.                    *)
(*                                                                         *)
(* External, taken from the comments in hook.c: the CUDA runtime looks its *)
(* functions up once, and falls back to dlsym() if cuGetProcAddress() does *)
(* not answer; an application launches kernels after cuInit() returned,    *)
(* but may call the memory functions too early.                            *)
(***************************************************************************)
EXTENDS HookKernels, Sequences, SequencesExt

CONSTANT Platforms    \* platforms to start on

VARIABLES
    platform,     \* see PlatformOK
    real,         \* real[f]: the pointer real_f of hook.c
    symbols,      \* how many symbols bootstrap_cuda() has looked up
    nvml_ok,
    once,         \* the two pthread_once_t: "no", "running" or "done"
    entry,        \* entry[t]: how far t is in an entry point
    calls,        \* calls[t]: the entry point
    client,       \* the client thread: "none", "started", "connected", "told"
    table,        \* table[f]: where the application's pointer to f leads
    cuda,         \* "no", "up" once cuInit() has returned, "exited"
    null_call     \* a NULL pointer was called: "no", "early" (see MemCall) or "yes"

bootVars == <<platform, real, symbols, nvml_ok, once, entry, calls, client, table,
              cuda, null_call>>
hookVars == <<vars, bootVars>>

(* The functions hook.c defines *)
Gated == {"cuLaunchKernel", "cuMemcpy", "cuMemcpyAsync", "cuMemcpyDtoH", "cuMemcpyDtoHAsync",
          "cuMemcpyHtoD", "cuMemcpyHtoDAsync", "cuMemcpyDtoD", "cuMemcpyDtoDAsync"}
Hooks == Gated \cup {"cuMemAlloc", "cuMemFree", "cuMemGetInfo", "cuGetProcAddress",
                     "cuGetProcAddress_v2", "cuInit"}

(* The macros of cuda_defs.h: these have a second version, and the headers'  *)
(* name is the suffixed one, for callers and for the hooks' own definitions. *)
Versioned == {"cuMemGetInfo", "cuMemAlloc", "cuMemFree", "cuMemcpyHtoD", "cuMemcpyDtoH",
              "cuMemcpyDtoD", "cuMemcpyHtoDAsync", "cuMemcpyDtoHAsync", "cuMemcpyDtoDAsync",
              "nvmlInit", "nvmlDeviceGetHandleByIndex"}

Plain(f) == [fn |-> f, v2 |-> FALSE]
CUDA_SYMBOL_STRING(f) == [fn |-> f, v2 |-> f \in Versioned]

(* The order of bootstrap_cuda() *)
NvmlSymbols == {"nvmlDeviceGetUtilizationRates", "nvmlInit", "nvmlDeviceGetHandleByIndex"}
OptionalSymbols == {"cuGetProcAddress", "cuGetProcAddress_v2"}

BootOrder ==
    <<"nvmlDeviceGetUtilizationRates", "nvmlInit", "nvmlDeviceGetHandleByIndex",
      "cuMemAllocManaged", "cuMemFree", "cuGetProcAddress", "cuGetProcAddress_v2",
      "cuMemGetInfo", "cuGetErrorString", "cuGetErrorName", "cuCtxSetCurrent",
      "cuCtxGetCurrent", "cuInit", "cuCtxSynchronize", "cuLaunchKernel",
      "cuMemcpy", "cuMemcpyAsync", "cuMemcpyDtoH", "cuMemcpyDtoHAsync",
      "cuMemcpyHtoD", "cuMemcpyHtoDAsync", "cuMemcpyDtoD", "cuMemcpyDtoDAsync">>

RealFns == Range(BootOrder)

(* How the application asks, its version of dlsym(), the symbols the         *)
(* libraries lack.                                                           *)
PlatformOK(p) ==
    /\ p.asks \in {"link", "dlsym", "cuGetProcAddress", "cuGetProcAddress_v2"}
    /\ p.dlsym \in {"225", "234"}
    /\ p.lacks \subseteq RealFns

ASSUME PlatformsAssumption == \A p \in Platforms : PlatformOK(p)

BootInit ==
    /\ KernInit
    /\ platform \in Platforms
    /\ real = [f \in RealFns |-> "null"]
    /\ symbols = 0
    /\ nvml_ok = TRUE
    /\ once = [lib |-> "no", client |-> "no"]
    /\ entry = [t \in Threads |-> "out"]
    /\ calls = [t \in Threads |-> "none"]
    /\ client = "none"
    /\ table = [f \in Hooks |-> "null"]
    /\ cuda = "no"
    /\ null_call = "no"

-----------------------------------------------------------------------------
(* Where names lead *)

(* The real dlsym(), which real_dlsym_225() and real_dlsym_234() find *)
real_dlsym(name) == IF name.fn \in platform.lacks THEN "null" ELSE "driver"

dlsym_225_names ==
    {CUDA_SYMBOL_STRING(f) : f \in
        {"cuMemAlloc", "cuMemFree", "cuMemGetInfo", "cuGetProcAddress", "cuGetProcAddress_v2",
         "cuInit", "cuLaunchKernel", "cuMemcpy", "cuMemcpyAsync", "cuMemcpyDtoH",
         "cuMemcpyDtoHAsync", "cuMemcpyHtoD", "cuMemcpyHtoDAsync", "cuMemcpyDtoD",
         "cuMemcpyDtoDAsync"}}

dlsym_234_names ==
    {CUDA_SYMBOL_STRING(f) : f \in
        {"cuMemAlloc", "cuMemFree", "cuMemGetInfo", "cuGetProcAddress", "cuGetProcAddress_v2",
         "cuInit", "cuLaunchKernel", "cuMemcpy", "cuMemcpyAsync", "cuMemcpyDtoH",
         "cuMemcpyDtoHAsync", "cuMemcpyHtoD", "cuMemcpyHtoDAsync", "cuMemcpyDtoD",
         "cuMemcpyDtoDAsync"}}

(* dlsym() as the application calls it *)
dlsym(name) ==
    IF name \in (IF platform.dlsym = "225" THEN dlsym_225_names ELSE dlsym_234_names)
    THEN "hook" ELSE real_dlsym(name)

(* Wrong variant: the names of dlsym() *)
cuGetProcAddress_suffixed == {CUDA_SYMBOL_STRING(f) : f \in Hooks}

(* The names cuGetProcAddress() and cuGetProcAddress_v2() answer themselves *)
cuGetProcAddress_names ==
    {Plain(f) : f \in
        {"cuMemAlloc", "cuMemFree", "cuMemGetInfo", "cuGetProcAddress", "cuGetProcAddress_v2",
         "cuInit", "cuLaunchKernel", "cuMemcpy", "cuMemcpyAsync", "cuMemcpyDtoH",
         "cuMemcpyDtoHAsync", "cuMemcpyHtoD", "cuMemcpyHtoDAsync", "cuMemcpyDtoD",
         "cuMemcpyDtoDAsync"}}

cuGetProcAddress(name) ==
    IF name \in cuGetProcAddress_names THEN "hook" ELSE real_dlsym(name)

(* The application's table, filled by dlsym() (an application that is linked *)
(* finds the preloaded definitions, under the same names) and by             *)
(* cuGetProcAddress().                                                       *)
TableByDlsym == [f \in Hooks |-> dlsym(CUDA_SYMBOL_STRING(f))]
TableByProcAddress == [f \in Hooks |-> cuGetProcAddress(Plain(f))]

-----------------------------------------------------------------------------
(* What is called through the real_ pointers *)

ErrorFns == {"cuGetErrorString", "cuGetErrorName"}

(* cuInit(), of the application and of client_fn(), with                     *)
(* cuda_driver_check_error().                                                *)
InitUses == {"cuInit"} \cup ErrorFns

(* The memory hooks: the one pointer each tests, and what it calls then.     *)
(* (cuMemAlloc() calls the hook cuMemGetInfo() first, which tests its own.)  *)
MemHooks == {"cuMemAlloc", "cuMemFree", "cuMemGetInfo"}
Tested(f) == IF f = "cuMemAlloc" THEN "cuMemAllocManaged" ELSE f
MemUses(f) == {Tested(f)} \cup (IF f = "cuMemFree" THEN {} ELSE ErrorFns)

(* What a gated hook calls after the test of its own real_ pointer *)
Uses(f) ==
    {"cuCtxGetCurrent", f} \cup ErrorFns
        \cup (IF f = "cuLaunchKernel" THEN {"cuCtxSynchronize"} ELSE {})

CallsNull(fns) == \E g \in fns : real[g] = "null"

-----------------------------------------------------------------------------
(* The application and the entry points of hook.c *)

Alive == cuda # "exited"

(* Wrong variant: the client first *)
StageSwapped == [out |-> "client", client |-> "lib", lib |-> "ready"]

(* An entry point's two pthread_once(), in this order *)
Stage == [out |-> "lib", lib |-> "client", client |-> "ready"]

Enter(t, f) ==
    /\ entry' = [entry EXCEPT ![t] = Stage["out"]]
    /\ calls' = [calls EXCEPT ![t] = f]

(* The runtime has not looked its functions up, and is not doing it *)
Unloaded == table["cuInit"] = "null" /\ \A t \in Threads : calls[t] = "none"

(* The runtime begins to look its functions up *)
Load(t) ==
    /\ Alive
    /\ Unloaded
    /\ entry[t] = "out"
    /\ IF platform.asks \in {"link", "dlsym"} \/ dlsym(Plain(platform.asks)) = "null"
       THEN table' = TableByDlsym /\ UNCHANGED <<entry, calls>>
       ELSE Enter(t, platform.asks) /\ UNCHANGED table
    /\ UNCHANGED <<vars, platform, real, symbols, nvml_ok, once, client, cuda, null_call>>

(* The application calls cuInit(), from as many threads as it likes *)
CallInit(t) ==
    /\ cuda = "no"
    /\ table["cuInit"] = "hook"
    /\ entry[t] = "out"
    /\ Enter(t, "cuInit")
    /\ UNCHANGED <<vars, platform, real, symbols, nvml_ok, once, client, table,
                   cuda, null_call>>

(* pthread_once() runs the initialiser, or returns after somebody else ran it *)
OnceBegins(t) ==
    /\ Alive
    /\ entry[t] \in {"lib", "client"}
    /\ once[entry[t]] = "no"
    /\ once' = [once EXCEPT ![entry[t]] = "running"]
    /\ entry' = [entry EXCEPT ![t] = IF @ = "lib" THEN "bootstrap" ELSE "create"]
    /\ UNCHANGED <<vars, platform, real, symbols, nvml_ok, calls, client, table,
                   cuda, null_call>>

OncePasses(t) ==
    /\ Alive
    /\ entry[t] \in {"lib", "client"}
    /\ once[entry[t]] = "done"
    /\ entry' = [entry EXCEPT ![t] = Stage[@]]
    /\ UNCHANGED <<vars, platform, real, symbols, nvml_ok, once, calls, client, table,
                   cuda, null_call>>

(* bootstrap_cuda() looks the next symbol up.  Without one of NVML's there   *)
(* is no NVML, without an optional one there is none, and without any other  *)
(* the process ends.                                                         *)
Bootstrap(t) ==
    /\ Alive
    /\ entry[t] = "bootstrap"
    /\ symbols < Len(BootOrder)
    /\ LET f == BootOrder[symbols + 1]
           address == real_dlsym(CUDA_SYMBOL_STRING(f))
       IN /\ real' = [real EXCEPT ![f] = address]
          /\ nvml_ok' = (nvml_ok /\ (f \in NvmlSymbols => address # "null"))
          /\ cuda' = IF address = "null" /\ f \notin NvmlSymbols \cup OptionalSymbols
                     THEN "exited" ELSE cuda
    /\ symbols' = symbols + 1
    /\ UNCHANGED <<vars, platform, once, entry, calls, client, table, null_call>>

BootstrapDone(t) ==
    /\ Alive
    /\ entry[t] = "bootstrap"
    /\ symbols = Len(BootOrder)
    /\ once' = [once EXCEPT !.lib = "done"]
    /\ entry' = [entry EXCEPT ![t] = Stage["lib"]]
    /\ UNCHANGED <<vars, platform, real, symbols, nvml_ok, calls, client, table,
                   cuda, null_call>>

(* initialize_client() creates the client thread and waits for it *)
CreateClient(t) ==
    /\ Alive
    /\ entry[t] = "create"
    /\ client = "none"
    /\ client' = "started"
    /\ UNCHANGED <<vars, platform, real, symbols, nvml_ok, once, entry, calls, table,
                   cuda, null_call>>

(* The initial status has come; the releaser is created *)
ClientReady(t) ==
    /\ Alive
    /\ entry[t] = "create"
    /\ client = "told"
    /\ once' = [once EXCEPT !.client = "done"]
    /\ entry' = [entry EXCEPT ![t] = Stage["client"]]
    /\ UNCHANGED <<vars, platform, real, symbols, nvml_ok, calls, client, table,
                   cuda, null_call>>

(* The rest of cuInit() *)
InitReturns(t) ==
    /\ cuda = "no" \/ cuda = "up"
    /\ entry[t] = "ready"
    /\ calls[t] = "cuInit"
    /\ entry' = [entry EXCEPT ![t] = "out"]
    /\ calls' = [calls EXCEPT ![t] = "none"]
    /\ cuda' = "up"
    /\ null_call' = IF CallsNull(InitUses) THEN "yes" ELSE null_call
    /\ UNCHANGED <<vars, platform, real, symbols, nvml_ok, once, client, table>>

(* The rest of cuGetProcAddress() or cuGetProcAddress_v2(), for every        *)
(* function; with no real_cuGetProcAddress it is CUDA_ERROR_NOT_INITIALIZED  *)
(* and the runtime falls back to dlsym().                                    *)
ProcAddressReturns(t) ==
    /\ Alive
    /\ entry[t] = "ready"
    /\ calls[t] \in OptionalSymbols
    /\ entry' = [entry EXCEPT ![t] = "out"]
    /\ calls' = [calls EXCEPT ![t] = "none"]
    /\ table' = IF real[calls[t]] = "null" THEN TableByDlsym ELSE TableByProcAddress
    /\ UNCHANGED <<vars, platform, real, symbols, nvml_ok, once, client, cuda, null_call>>

(* A memory hook does not wait for the bootstrap, and tests one pointer.  If *)
(* another that it needs is still NULL (those of cuda_driver_check_error(),  *)
(* when the driver fails), the process ends; otherwise nothing here changes  *)
(* (HookMemory has the rest).  Early is before any cuInit() has returned,    *)
(* when CUDA does not allow the call.                                        *)
MemCall(t, f) ==
    /\ Alive
    /\ entry[t] = "out"
    /\ table[f] = "hook"
    /\ real[Tested(f)] # "null" /\ CallsNull(MemUses(f))
    /\ null_call' = IF cuda = "no" THEN "early" ELSE "yes"
    /\ cuda' = "exited"
    /\ UNCHANGED <<vars, platform, real, symbols, nvml_ok, once, entry, calls, client, table>>

-----------------------------------------------------------------------------
(* The start of client_fn() *)

(* Wrong variant: cuInit() of the application's name, which is the hook *)
ClientCanInitHooked == once.lib = "done" /\ once.client = "done"

(* real_cuInit() can be called at any time *)
ClientCanInit == TRUE

(* real_cuInit(), then connect and register; a failure ends the process *)
ClientStarts ==
    /\ Alive
    /\ client = "started"
    /\ ClientCanInit
    /\ null_call' = IF CallsNull(InitUses) THEN "yes" ELSE null_call
    /\ \/ client' = "connected" /\ UNCHANGED cuda
       \/ cuda' = "exited" /\ UNCHANGED client
    /\ UNCHANGED <<vars, platform, real, symbols, nvml_ok, once, entry, calls, table>>

(* The initial status: with the scheduler off everybody owns the lock *)
InitialStatus ==
    /\ Alive
    /\ client = "connected"
    /\ client' = "told"
    /\ own_lock' \in BOOLEAN
    /\ UNCHANGED <<syncing, pc, kcount, kern_since_sync, pending_kernel_window, next_window,
                   pending, awaited, platform, real, symbols, nvml_ok, once, entry, calls,
                   table, cuda, null_call>>

-----------------------------------------------------------------------------
BootStep(t) ==
    \/ OnceBegins(t) \/ OncePasses(t) \/ Bootstrap(t) \/ BootstrapDone(t)
    \/ CreateClient(t) \/ ClientReady(t) \/ InitReturns(t) \/ ProcAddressReturns(t)

(* A step of HookKernels *)
Started == Alive /\ UNCHANGED bootVars

(* Launches begin after cuInit() returned; the client thread handles         *)
(* messages once it has its first status; the releaser starts after that.    *)
Running ==
    /\ Started
    /\ \/ \E t \in Threads : /\ LaunchStep(t)
                             /\ cuda = "up" /\ table["cuLaunchKernel"] # "null"
                             /\ entry[t] = "out"
       \/ client = "told" /\ (DropLock \/ SyncDone \/ LockOk \/ LockGone)
       \/ once.client = "done" /\ IdleCheck
       \/ KernelDone

HookNext ==
    \/ \E t \in Threads : Load(t) \/ CallInit(t) \/ BootStep(t)
    \/ \E t \in Threads, f \in MemHooks : MemCall(t, f)
    \/ ClientStarts \/ InitialStatus
    \/ Running

(* Threads inside the library go on, and the scheduler answers a REGISTER *)
HookSpec ==
    /\ BootInit
    /\ [][HookNext]_hookVars
    /\ \A t \in Threads :
          /\ WF_hookVars(BootStep(t))
          /\ WF_hookVars(Launch(t) /\ Started) /\ SF_hookVars(Count(t) /\ Started)
          /\ WF_hookVars(SyncReturns(t) /\ Started) /\ WF_hookVars(Adjust(t) /\ Started)
    /\ WF_hookVars(ClientStarts) /\ WF_hookVars(InitialStatus)
    /\ WF_hookVars(SyncDone /\ Started)
    /\ WF_hookVars(KernelDone /\ Started)

-----------------------------------------------------------------------------
(* Properties *)

(* Whether the application links to its functions or asks for them by the    *)
(* names of the headers, through dlsym() or cuGetProcAddress(), it never     *)
(* gets past the hooks, and libnvshare never gets its own.                   *)
Interposed ==
    /\ \A f \in Hooks : table[f] # "driver"
    /\ \A f \in RealFns : real[f] # "hook"

(* No NULL pointer is called: not by client_fn() nor cuInit(); not by the    *)
(* releaser, which trusts nvml_ok; not by a gated hook, called at any moment *)
(* of the bootstrap by another thread, whose only test is of its own         *)
(* pointer; and not by a memory hook, once some cuInit() has returned.  (A   *)
(* memory hook that is called before that may: README, known limits.)        *)
NoNullCall ==
    /\ null_call # "yes"
    /\ once.client = "done" /\ nvml_ok => \A f \in NvmlSymbols : real[f] # "null"
    /\ \A f \in Gated : real[f] # "null" => ~CallsNull(Uses(f))

(* Every entry point returns or the process ends: the threads that wait for  *)
(* each other in pthread_once() and on the semaphore are not in a circle,    *)
(* although client_fn() itself has to initialise CUDA.                       *)
EntryReturns == \A t \in Threads : entry[t] # "out" ~> entry[t] = "out" \/ cuda = "exited"
=============================================================================
