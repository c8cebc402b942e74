---------------------------- MODULE HookKernels ----------------------------
(***************************************************************************)
(* The rate control of kernel launches in one application process:         *)
(* cuLaunchKernel() in src/src/hook.c, and cuda_sync_context() in          *)
(* src/src/client.c, which the client thread (DROP_LOCK) and the early     *)
(* releaser call.                                                          *)
(*                                                                         *)
(* kcount_mutex protects kern_since_sync and is held while a launching     *)
(* thread waits for the GPU.  pending_kernel_window is also written by     *)
(* cuda_sync_context(), under global_mutex only: its update by             *)
(* cuLaunchKernel() is a load and a store.  The gate of the launches is    *)
(* reduced to own_lock and the holder of global_mutex; module Client has   *)
(* the rest.                                                               *)
(***************************************************************************)
EXTENDS Naturals, FiniteSets

CONSTANTS
    Threads,     \* application threads that launch kernels
    WindowMax,   \* KERN_SYNC_WINDOW_MAX
    Syncer,      \* whichever thread is inside cuda_sync_context()
    None         \* no thread

ASSUME WindowAssumption == WindowMax \in Nat \ {0}
ASSUME ThreadsAssumption == IsFiniteSet(Threads) /\ Syncer \notin Threads /\ None \notin Threads

Waiters == Threads \cup {Syncer}

VARIABLES
    own_lock,
    syncing,                 \* "no", "drop" or "idle": in cuda_sync_context(), with global_mutex
    pc,                      \* pc[t]: where thread t is in cuLaunchKernel()
    kcount,                  \* holder of kcount_mutex
    kern_since_sync,
    pending_kernel_window,
    next_window,             \* next_window[t]: the value t is about to store
    pending,                 \* kernels on the GPU
    awaited                  \* awaited[w]: kernels before w's cuCtxSynchronize(), not complete

vars == <<own_lock, syncing, pc, kcount, kern_since_sync, pending_kernel_window,
          next_window, pending, awaited>>

KernTypeOK ==
    /\ own_lock \in BOOLEAN
    /\ syncing \in {"no", "drop", "idle"}
    /\ pc \in [Threads -> {"out", "cleared", "launched", "sync", "adjust"}]
    /\ kcount \in Threads \cup {None}
    /\ kern_since_sync \in Nat
    /\ pending_kernel_window \in 1 .. WindowMax
    /\ next_window \in [Threads -> 1 .. WindowMax]
    /\ pending \in Nat
    /\ awaited \in [Waiters -> Nat]

KernInit ==
    /\ own_lock = FALSE
    /\ syncing = "no"
    /\ pc = [t \in Threads |-> "out"]
    /\ kcount = None
    /\ kern_since_sync = 0
    /\ pending_kernel_window = 1
    /\ next_window = [t \in Threads |-> 1]
    /\ pending = 0
    /\ awaited = [w \in Waiters |-> 0]

-----------------------------------------------------------------------------
(* cuLaunchKernel() *)

(* continue_with_lock() returns *)
Gate(t) ==
    /\ pc[t] = "out"
    /\ own_lock
    /\ syncing = "no"
    /\ pc' = [pc EXCEPT ![t] = "cleared"]
    /\ UNCHANGED <<own_lock, syncing, kcount, kern_since_sync, pending_kernel_window,
                   next_window, pending, awaited>>

(* real_cuLaunchKernel() succeeds or not: it is counted in both cases *)
Launch(t) ==
    /\ pc[t] = "cleared"
    /\ pc' = [pc EXCEPT ![t] = "launched"]
    /\ pending' = pending + 1 \/ UNCHANGED pending
    /\ UNCHANGED <<own_lock, syncing, kcount, kern_since_sync, pending_kernel_window,
                   next_window, awaited>>

(* Wrong variant: the window may be exceeded by one *)
CountLate(t) ==
    /\ pc[t] = "launched"
    /\ kcount = None
    /\ kern_since_sync' = kern_since_sync + 1
    /\ \/ /\ kern_since_sync' <= pending_kernel_window
          /\ pc' = [pc EXCEPT ![t] = "out"]
          /\ UNCHANGED <<kcount, awaited>>
       \/ /\ kern_since_sync' > pending_kernel_window
          /\ pc' = [pc EXCEPT ![t] = "sync"]
          /\ kcount' = t
          /\ awaited' = [awaited EXCEPT ![t] = pending]
    /\ UNCHANGED <<own_lock, syncing, pending_kernel_window, next_window, pending>>

(* With kcount_mutex: one more kernel; when the window is full, keep the     *)
(* mutex and call real_cuCtxSynchronize().                                   *)
Count(t) ==
    /\ pc[t] = "launched"
    /\ kcount = None
    /\ kern_since_sync' = kern_since_sync + 1
    /\ \/ /\ kern_since_sync' < pending_kernel_window
          /\ pc' = [pc EXCEPT ![t] = "out"]
          /\ UNCHANGED <<kcount, awaited>>
       \/ /\ kern_since_sync' >= pending_kernel_window
          /\ pc' = [pc EXCEPT ![t] = "sync"]
          /\ kcount' = t
          /\ awaited' = [awaited EXCEPT ![t] = pending]
    /\ UNCHANGED <<own_lock, syncing, pending_kernel_window, next_window, pending>>

(* Wrong variant: no lower bound when the window is halved *)
AdjustedNoFloor(w) == {1, w \div 2, IF 2 * w < WindowMax THEN 2 * w ELSE WindowMax}

(* The new window, from the one in force and how long the synchronisation    *)
(* took: KERN_SYNC_DURATION_BIG or more, ..._STEPDOWN_THRESH or more, less.  *)
Adjusted(w) ==
    {1,
     IF w \div 2 > 1 THEN w \div 2 ELSE 1,
     IF 2 * w < WindowMax THEN 2 * w ELSE WindowMax}

(* real_cuCtxSynchronize() returns; load the window *)
SyncReturns(t) ==
    /\ pc[t] = "sync"
    /\ awaited[t] = 0
    /\ \E w \in Adjusted(pending_kernel_window) : next_window' = [next_window EXCEPT ![t] = w]
    /\ pc' = [pc EXCEPT ![t] = "adjust"]
    /\ UNCHANGED <<own_lock, syncing, kcount, kern_since_sync, pending_kernel_window,
                   pending, awaited>>

(* Wrong variant: returns without unlocking kcount_mutex *)
AdjustNoUnlock(t) ==
    /\ pc[t] = "adjust"
    /\ pending_kernel_window' = next_window[t]
    /\ next_window' = [next_window EXCEPT ![t] = 1]
    /\ kern_since_sync' = 0
    /\ pc' = [pc EXCEPT ![t] = "out"]
    /\ UNCHANGED <<own_lock, syncing, kcount, pending, awaited>>

(* Store the window, start counting anew, unlock *)
Adjust(t) ==
    /\ pc[t] = "adjust"
    /\ pending_kernel_window' = next_window[t]
    /\ next_window' = [next_window EXCEPT ![t] = 1]
    /\ kern_since_sync' = 0
    /\ kcount' = None
    /\ pc' = [pc EXCEPT ![t] = "out"]
    /\ UNCHANGED <<own_lock, syncing, pending, awaited>>

-----------------------------------------------------------------------------
(* cuda_sync_context(), up to the wait in its real_cuCtxSynchronize() *)
cuda_sync_context ==
    /\ pending_kernel_window' = 1
    /\ awaited' = [awaited EXCEPT ![Syncer] = pending]

(* DROP_LOCK *)
DropLock ==
    /\ own_lock
    /\ syncing = "no"
    /\ own_lock' = FALSE
    /\ syncing' = "drop"
    /\ cuda_sync_context
    /\ UNCHANGED <<pc, kcount, kern_since_sync, next_window, pending>>

(* The early releaser's check without NVML *)
IdleCheck ==
    /\ own_lock
    /\ syncing = "no"
    /\ syncing' = "idle"
    /\ cuda_sync_context
    /\ UNCHANGED <<own_lock, pc, kcount, kern_since_sync, next_window, pending>>

(* Synchronised: LOCK_RELEASED, or the idle check took 100 ms and the lock   *)
(* is kept                                                                   *)
SyncDone ==
    /\ syncing # "no"
    /\ awaited[Syncer] = 0
    /\ syncing' = "no"
    /\ own_lock' \in {FALSE, syncing = "idle"}
    /\ UNCHANGED <<pc, kcount, kern_since_sync, pending_kernel_window, next_window,
                   pending, awaited>>

(* LOCK_OK or SCHED_OFF *)
LockOk ==
    /\ ~own_lock
    /\ syncing = "no"
    /\ own_lock' = TRUE
    /\ UNCHANGED <<syncing, pc, kcount, kern_since_sync, pending_kernel_window,
                   next_window, pending, awaited>>

(* The lock goes without a synchronisation: the early releaser with NVML, or *)
(* SCHED_ON while everybody owns the lock                                    *)
LockGone ==
    /\ own_lock
    /\ syncing = "no"
    /\ own_lock' = FALSE
    /\ UNCHANGED <<syncing, pc, kcount, kern_since_sync, pending_kernel_window,
                   next_window, pending, awaited>>

(* The GPU completes the oldest kernel *)
KernelDone ==
    /\ pending > 0
    /\ pending' = pending - 1
    /\ awaited' = [w \in Waiters |-> IF awaited[w] > 0 THEN awaited[w] - 1 ELSE 0]
    /\ UNCHANGED <<own_lock, syncing, pc, kcount, kern_since_sync, pending_kernel_window,
                   next_window>>

-----------------------------------------------------------------------------
LaunchStep(t) == Gate(t) \/ Launch(t) \/ Count(t) \/ SyncReturns(t) \/ Adjust(t)

KernNext ==
    \/ \E t \in Threads : LaunchStep(t)
    \/ DropLock \/ IdleCheck \/ SyncDone \/ LockOk \/ LockGone \/ KernelDone

KernSpec == KernInit /\ [][KernNext]_vars

(* Threads that can run do run, the GPU makes progress, and a thread gets    *)
(* kcount_mutex if it is free again and again.  Applications and the         *)
(* scheduler are under no obligation.                                        *)
KernFairSpec ==
    /\ KernSpec
    /\ \A t \in Threads : /\ WF_vars(Launch(t)) /\ SF_vars(Count(t))
                          /\ WF_vars(SyncReturns(t)) /\ WF_vars(Adjust(t))
    /\ WF_vars(SyncDone)
    /\ WF_vars(KernelDone)

-----------------------------------------------------------------------------
Launched == {t \in Threads : pc[t] = "launched"}

(* The purpose of the window: however many threads launch, and although      *)
(* cuda_sync_context() writes the window without kcount_mutex (its reset may *)
(* be lost or interleave with a doubling), no more kernels are on the GPU    *)
(* than the largest window and one per further thread, so a DROP_LOCK never  *)
(* waits for more.                                                           *)
Throttle == pending + 1 <= WindowMax + Cardinality(Threads)

(* Every launch that passed the gate returns, and every cuda_sync_context()  *)
(* with global_mutex held ends, although threads hold kcount_mutex while     *)
(* they wait for the GPU and those past the gate keep launching.             *)
HooksReturn ==
    /\ \A t \in Threads : pc[t] # "out" ~> pc[t] = "out"
    /\ syncing # "no" ~> syncing = "no"
=============================================================================
