------------------------------- MODULE Client -------------------------------
(***************************************************************************)
(* The nvshare client inside an application (src/src/client.c), the CUDA   *)
(* hooks' use of it (continue_with_lock() in src/src/hook.c), and what     *)
(* they need of the GPU.                                                   *)
(*                                                                         *)
(* Every application process runs a client thread (client_fn), an early    *)
(* releaser (release_early_fn) and application threads that call CUDA      *)
(* hooks.  They share global_mutex.  A critical section is one action,     *)
(* except where the code waits for the GPU with the mutex held: the        *)
(* DROP_LOCK handler and the releaser's fallback check.  An application    *)
(* thread that leaves continue_with_lock() has released the mutex: the     *)
(* CUDA call it guards is a later step.                                    *)
(***************************************************************************)
EXTENDS Comm

CONSTANTS
    Clients,     \* slots of application processes
    Threads,     \* application threads of a process that call CUDA
    IdleChecks,  \* bound: FALSE in a run that leaves the early releaser out
    HasNvml      \* libnvidia-ml and its symbols were found (nvml_ok after bootstrap)

ASSUME ClientsAssumption == Clients \subseteq Conns
ASSUME FlagsAssumption == {IdleChecks, HasNvml} \subseteq BOOLEAN

VARIABLES
    proc,         \* "down", "boot" (waits for the initial status), "up"
    status_on,    \* the client's scheduler_on
    own_lock,
    need_lock,
    did_work,
    nvml_ok,
    cuda_ctx_ok,
    handler,      \* client thread: "recv", or "drop" while it synchronises
    releaser,     \* early releaser: where it is
    app,          \* app[c][t]: an application thread in a CUDA hook
    gpu_busy      \* work this process submitted has not completed

clientVars == <<proc, status_on, own_lock, need_lock, did_work, nvml_ok,
                cuda_ctx_ok, handler, releaser, app, gpu_busy>>

ClientTypeOK ==
    /\ proc \in [Clients -> {"down", "boot", "up"}]
    /\ status_on \in [Clients -> BOOLEAN]
    /\ own_lock \in [Clients -> BOOLEAN]
    /\ need_lock \in [Clients -> BOOLEAN]
    /\ did_work \in [Clients -> BOOLEAN]
    /\ nvml_ok \in [Clients -> BOOLEAN]
    /\ cuda_ctx_ok \in [Clients -> BOOLEAN]
    /\ handler \in [Clients -> {"recv", "drop"}]
    /\ releaser \in [Clients -> {"starting", "waiting", "signaled", "timedout", "sync"}]
    /\ app \in [Clients -> [Threads -> {"out", "waiting", "woken", "cleared"}]]
    /\ gpu_busy \in [Clients -> BOOLEAN]

ClientInit ==
    /\ proc = [c \in Clients |-> "down"]
    /\ status_on = [c \in Clients |-> FALSE]
    /\ own_lock = [c \in Clients |-> FALSE]
    /\ need_lock = [c \in Clients |-> FALSE]
    /\ did_work = [c \in Clients |-> FALSE]
    /\ nvml_ok = [c \in Clients |-> HasNvml]
    /\ cuda_ctx_ok = [c \in Clients |-> FALSE]
    /\ handler = [c \in Clients |-> "recv"]
    /\ releaser = [c \in Clients |-> "starting"]
    /\ app = [c \in Clients |-> [t \in Threads |-> "out"]]
    /\ gpu_busy = [c \in Clients |-> FALSE]

MutexFreeIn(c) == handler[c] = "recv" /\ releaser[c] # "sync"

(* pthread_cond_broadcast(&own_lock_cv) *)
WakeApp(c) ==
    app' = [app EXCEPT ![c] = [t \in Threads |-> IF @[t] = "waiting" THEN "woken" ELSE @[t]]]

(* pthread_cond_broadcast(&release_early_cv) *)
WakeReleaser(c) ==
    releaser' = [releaser EXCEPT ![c] = IF @ = "waiting" THEN "signaled" ELSE @]

-----------------------------------------------------------------------------
(* Process life *)

(* initialize_client() and client_fn() up to the wait for the initial status *)
Start(c) ==
    /\ proc[c] = "down"
    /\ Connect(c, <<"REGISTER">>, TRUE)
    /\ proc' = [proc EXCEPT ![c] = "boot"]
    /\ UNCHANGED <<status_on, own_lock, need_lock, did_work, nvml_ok, cuda_ctx_ok,
                   handler, releaser, app, gpu_busy>>

(* The process is gone: its socket is closed and the driver destroys its     *)
(* CUDA context.                                                             *)
Gone(c) ==
    /\ Close(c)
    /\ proc' = [proc EXCEPT ![c] = "down"]
    /\ status_on' = [status_on EXCEPT ![c] = FALSE]
    /\ own_lock' = [own_lock EXCEPT ![c] = FALSE]
    /\ need_lock' = [need_lock EXCEPT ![c] = FALSE]
    /\ did_work' = [did_work EXCEPT ![c] = FALSE]
    /\ nvml_ok' = [nvml_ok EXCEPT ![c] = HasNvml]
    /\ cuda_ctx_ok' = [cuda_ctx_ok EXCEPT ![c] = FALSE]
    /\ handler' = [handler EXCEPT ![c] = "recv"]
    /\ releaser' = [releaser EXCEPT ![c] = "starting"]
    /\ app' = [app EXCEPT ![c] = [t \in Threads |-> "out"]]
    /\ gpu_busy' = [gpu_busy EXCEPT ![c] = FALSE]

(* The application ends or crashes at any point *)
Crash(c) == proc[c] # "down" /\ Gone(c)

(* The scheduler's end is closed: nvshare_receive_block() meets the end of   *)
(* file, or the write of LOCK_RELEASED fails; true_or_exit() or SIGPIPE ends *)
(* the application.  (The other failing writes are deaths Crash covers: the  *)
(* client thread then dies at its next read in any case.)                    *)
LoseScheduler(c) ==
    /\ \/ Eof(c) /\ handler[c] = "recv"
       \/ handler[c] = "drop" /\ ~gpu_busy[c] /\ ~ServerOpen(c)
    /\ Gone(c)

-----------------------------------------------------------------------------
(* The client thread, client_fn() *)

(* The initial status; initialize_client() then starts the releaser *)
InitialStatus(c) ==
    /\ proc[c] = "boot"
    /\ \E m \in {"SCHED_ON", "SCHED_OFF"} :
          /\ Read(c, m)
          /\ status_on' = [status_on EXCEPT ![c] = (m = "SCHED_ON")]
          /\ own_lock' = [own_lock EXCEPT ![c] = (m = "SCHED_OFF")]
    /\ need_lock' = [need_lock EXCEPT ![c] = FALSE]
    /\ proc' = [proc EXCEPT ![c] = "up"]
    /\ UNCHANGED <<toSched, peer, backlog, clients, exited, did_work, nvml_ok,
                   cuda_ctx_ok, handler, releaser, app, gpu_busy>>

(* Read message m and hold the mutex for its handler *)
Receive(c, m) ==
    /\ proc[c] = "up"
    /\ MutexFreeIn(c)
    /\ Read(c, m)
    /\ UNCHANGED <<toSched, peer, backlog, clients, exited, proc, nvml_ok,
                   cuda_ctx_ok, gpu_busy>>

(* Wrong variants: the waiting threads are not woken up; the early release   *)
(* timer is not restarted.                                                   *)
OnLockOkNoWake(c) ==
    /\ Receive(c, "LOCK_OK")
    /\ need_lock' = [need_lock EXCEPT ![c] = FALSE]
    /\ own_lock' = [own_lock EXCEPT ![c] = TRUE]
    /\ did_work' = [did_work EXCEPT ![c] = TRUE]
    /\ WakeReleaser(c)
    /\ UNCHANGED <<status_on, handler, app>>

OnLockOkNoRestart(c) ==
    /\ Receive(c, "LOCK_OK")
    /\ need_lock' = [need_lock EXCEPT ![c] = FALSE]
    /\ own_lock' = [own_lock EXCEPT ![c] = TRUE]
    /\ WakeApp(c)
    /\ WakeReleaser(c)
    /\ UNCHANGED <<status_on, handler, did_work>>

OnLockOk(c) ==
    /\ Receive(c, "LOCK_OK")
    /\ need_lock' = [need_lock EXCEPT ![c] = FALSE]
    /\ own_lock' = [own_lock EXCEPT ![c] = TRUE]
    /\ did_work' = [did_work EXCEPT ![c] = TRUE]
    /\ WakeApp(c)
    /\ WakeReleaser(c)
    /\ UNCHANGED <<status_on, handler>>

(* Wrong variant: no test of own_lock *)
OnDropLockUnchecked(c) ==
    /\ Receive(c, "DROP_LOCK")
    /\ own_lock' = [own_lock EXCEPT ![c] = FALSE]
    /\ handler' = [handler EXCEPT ![c] = "drop"]
    /\ UNCHANGED <<status_on, need_lock, did_work, releaser, app>>

(* The mutex stays held until DropDone *)
OnDropLock(c) ==
    /\ Receive(c, "DROP_LOCK")
    /\ own_lock' = [own_lock EXCEPT ![c] = FALSE]
    /\ handler' = [handler EXCEPT ![c] = IF own_lock[c] THEN "drop" ELSE "recv"]
    /\ UNCHANGED <<status_on, need_lock, did_work, releaser, app>>

(* cuda_sync_context() returned *)
DropDone(c) ==
    /\ handler[c] = "drop"
    /\ ~gpu_busy[c]
    /\ Write(c, "LOCK_RELEASED")
    /\ handler' = [handler EXCEPT ![c] = "recv"]
    /\ UNCHANGED <<toClient, peer, backlog, clients, exited, proc, status_on, own_lock,
                   need_lock, did_work, nvml_ok, cuda_ctx_ok, releaser, app, gpu_busy>>

(* Wrong variant: the lock everybody owned while the scheduler was off is kept *)
OnSchedOnKeeps(c) ==
    /\ Receive(c, "SCHED_ON")
    /\ status_on' = [status_on EXCEPT ![c] = TRUE]
    /\ need_lock' = [need_lock EXCEPT ![c] = @ /\ status_on[c]]
    /\ UNCHANGED <<own_lock, did_work, handler, releaser, app>>

OnSchedOn(c) ==
    /\ Receive(c, "SCHED_ON")
    /\ status_on' = [status_on EXCEPT ![c] = TRUE]
    /\ need_lock' = [need_lock EXCEPT ![c] = @ /\ status_on[c]]
    /\ own_lock' = [own_lock EXCEPT ![c] = @ /\ status_on[c]]
    /\ UNCHANGED <<did_work, handler, releaser, app>>

(* Wrong variant: the waiting threads are not woken up *)
OnSchedOffNoWake(c) ==
    /\ Receive(c, "SCHED_OFF")
    /\ status_on' = [status_on EXCEPT ![c] = FALSE]
    /\ own_lock' = [own_lock EXCEPT ![c] = @ \/ status_on[c]]
    /\ need_lock' = [need_lock EXCEPT ![c] = @ /\ ~status_on[c]]
    /\ UNCHANGED <<did_work, handler, releaser, app>>

OnSchedOff(c) ==
    /\ Receive(c, "SCHED_OFF")
    /\ status_on' = [status_on EXCEPT ![c] = FALSE]
    /\ IF status_on[c]
       THEN /\ own_lock' = [own_lock EXCEPT ![c] = TRUE]
            /\ need_lock' = [need_lock EXCEPT ![c] = FALSE]
            /\ WakeApp(c)
       ELSE UNCHANGED <<own_lock, need_lock, app>>
    /\ UNCHANGED <<did_work, handler, releaser>>

HandlerNext(c) ==
    \/ InitialStatus(c) \/ OnLockOk(c) \/ OnDropLock(c) \/ DropDone(c)
    \/ OnSchedOn(c) \/ OnSchedOff(c) \/ LoseScheduler(c)

-----------------------------------------------------------------------------
(* The application threads: a CUDA hook is continue_with_lock(), then the    *)
(* real CUDA call.                                                           *)

(* The rest of continue_with_lock() from the test of own_lock, with the      *)
(* mutex: go on to the CUDA call, or ask for the lock (once on behalf of all *)
(* threads) and wait.                                                        *)
PassOrWait(c, t) ==
    \/ /\ own_lock[c]
       /\ did_work' = [did_work EXCEPT ![c] = TRUE]
       /\ WakeReleaser(c)
       /\ app' = [app EXCEPT ![c][t] = "cleared"]
       /\ UNCHANGED <<toSched, need_lock>>
    \/ /\ ~own_lock[c]
       /\ IF need_lock[c]
          THEN UNCHANGED <<toSched, need_lock>>
          ELSE /\ need_lock' = [need_lock EXCEPT ![c] = TRUE]
               /\ Write(c, "REQ_LOCK")
       /\ app' = [app EXCEPT ![c][t] = "waiting"]
       /\ UNCHANGED <<did_work, releaser>>

InLockGate(c) ==
    /\ proc[c] = "up"
    /\ MutexFreeIn(c)
    /\ UNCHANGED <<toClient, peer, backlog, clients, exited, proc, status_on,
                   own_lock, nvml_ok, handler, gpu_busy>>

(* Wrong variant: the context is recorded only by a thread that need not wait *)
continue_with_lock_late_ctx(c, t) ==
    /\ InLockGate(c)
    /\ app[c][t] = "out"
    /\ cuda_ctx_ok' = [cuda_ctx_ok EXCEPT ![c] = @ \/ own_lock[c]]
    /\ PassOrWait(c, t)

continue_with_lock(c, t) ==
    /\ InLockGate(c)
    /\ app[c][t] = "out"
    /\ cuda_ctx_ok' = [cuda_ctx_ok EXCEPT ![c] = TRUE]
    /\ PassOrWait(c, t)

(* pthread_cond_wait() returned with the mutex *)
WakeUp(c, t) ==
    /\ InLockGate(c)
    /\ app[c][t] = "woken"
    /\ PassOrWait(c, t)
    /\ UNCHANGED cuda_ctx_ok

(* pthread_cond_wait() may wake up without a broadcast *)
SpuriousWake(c, t) ==
    /\ app[c][t] = "waiting"
    /\ app' = [app EXCEPT ![c][t] = "woken"]
    /\ UNCHANGED <<commVars, proc, status_on, own_lock, need_lock, did_work, nvml_ok,
                   cuda_ctx_ok, handler, releaser, gpu_busy>>

(* The CUDA call behind the gate: a kernel launch or a copy *)
Submit(c, t) ==
    /\ app[c][t] = "cleared"
    /\ app' = [app EXCEPT ![c][t] = "out"]
    /\ gpu_busy' = [gpu_busy EXCEPT ![c] = TRUE]
    /\ UNCHANGED <<commVars, proc, status_on, own_lock, need_lock, did_work, nvml_ok,
                   cuda_ctx_ok, handler, releaser>>

(* The GPU completes everything process c submitted *)
GpuDone(c) ==
    /\ gpu_busy[c]
    /\ gpu_busy' = [gpu_busy EXCEPT ![c] = FALSE]
    /\ UNCHANGED <<commVars, proc, status_on, own_lock, need_lock, did_work, nvml_ok,
                   cuda_ctx_ok, handler, releaser, app>>

-----------------------------------------------------------------------------
(* The early releaser, release_early_fn() *)

ReleaserStep(c, from) ==
    /\ proc[c] = "up"
    /\ releaser[c] = from
    /\ UNCHANGED <<toClient, peer, backlog, clients, exited, proc, status_on, need_lock,
                   cuda_ctx_ok, handler, app, gpu_busy>>

(* The head of the loop, up to the wait *)
ReleaserWaits(c) ==
    /\ did_work' = [did_work EXCEPT ![c] = FALSE]
    /\ releaser' = [releaser EXCEPT ![c] = "waiting"]

ReleaserStart(c) ==
    /\ IdleChecks
    /\ ReleaserStep(c, "starting")
    /\ MutexFreeIn(c)
    /\ ReleaserWaits(c)
    /\ nvml_ok' = [nvml_ok EXCEPT ![c] = FALSE] \/ UNCHANGED nvml_ok   \* nvmlInit() may fail
    /\ UNCHANGED <<toSched, own_lock>>

(* The interval passes; the thread still needs the mutex to see ETIMEDOUT *)
ReleaserDeadline(c) ==
    /\ ReleaserStep(c, "waiting")
    /\ releaser' = [releaser EXCEPT ![c] = "timedout"]
    /\ UNCHANGED <<toSched, own_lock, did_work, nvml_ok>>

ReleaserSignaled(c) ==
    /\ ReleaserStep(c, "signaled")
    /\ MutexFreeIn(c)
    /\ ReleaserWaits(c)      \* did_work or not, it waits again with did_work = 0
    /\ UNCHANGED <<toSched, own_lock, nvml_ok>>

(* Nothing to release, or the application did something in the interval *)
NotIdle(c) == ~status_on[c] \/ ~own_lock[c] \/ did_work[c]

ReleaserNotIdle(c) ==
    /\ ReleaserStep(c, "timedout")
    /\ MutexFreeIn(c)
    /\ NotIdle(c)
    /\ ReleaserWaits(c)
    /\ UNCHANGED <<toSched, own_lock, nvml_ok>>

(* IDLE: LOCK_RELEASED, then back to the head of the loop *)
ReleaseEarly(c) ==
    /\ Write(c, "LOCK_RELEASED")
    /\ own_lock' = [own_lock EXCEPT ![c] = FALSE]
    /\ ReleaserWaits(c)

(* NVML reports the utilisation of the whole GPU over a past sample period,  *)
(* by kernels only: it may be 0 or not whatever is running now.              *)
ReleaserNvml(c) ==
    /\ ReleaserStep(c, "timedout")
    /\ MutexFreeIn(c)
    /\ ~NotIdle(c)
    /\ nvml_ok[c]
    /\ \/ /\ nvml_ok' = [nvml_ok EXCEPT ![c] = FALSE]          \* the query failed
          /\ ReleaserWaits(c)
          /\ UNCHANGED <<toSched, own_lock>>
       \/ /\ ReleaserWaits(c)                                  \* utilisation > 0
          /\ UNCHANGED <<toSched, own_lock, nvml_ok>>
       \/ /\ ReleaseEarly(c)                                   \* utilisation = 0
          /\ UNCHANGED nvml_ok

(* The fallback: how long does cuda_sync_context() take?  The thread holds   *)
(* the mutex until it returns.                                               *)
ReleaserFallback(c) ==
    /\ ReleaserStep(c, "timedout")
    /\ MutexFreeIn(c)
    /\ ~NotIdle(c)
    /\ ~nvml_ok[c]
    /\ releaser' = [releaser EXCEPT ![c] = "sync"]
    /\ UNCHANGED <<toSched, own_lock, did_work, nvml_ok>>

ReleaserSynced(c) ==
    /\ ReleaserStep(c, "sync")
    /\ ~gpu_busy[c]
    /\ \/ /\ ReleaserWaits(c)                                  \* it took 100 ms or more
          /\ UNCHANGED <<toSched, own_lock>>
       \/ ReleaseEarly(c)
    /\ UNCHANGED nvml_ok

ReleaserNext(c) ==
    \/ ReleaserStart(c) \/ ReleaserDeadline(c) \/ ReleaserSignaled(c)
    \/ ReleaserNotIdle(c) \/ ReleaserNvml(c) \/ ReleaserFallback(c) \/ ReleaserSynced(c)

AppNext(c) ==
    \E t \in Threads : \/ continue_with_lock(c, t) \/ WakeUp(c, t)
                       \/ SpuriousWake(c, t) \/ Submit(c, t)

ClientNext(c) ==
    \/ Start(c) \/ Crash(c) \/ HandlerNext(c) \/ AppNext(c) \/ GpuDone(c) \/ ReleaserNext(c)
=============================================================================
