----------------------------- MODULE MCNvShare ------------------------------
(* Small instances of NvShare for TLC *)
EXTENDS NvShare

VARIABLE rested    \* history: c's early releaser has started a new interval since c's last activity

hvars == <<vars, rested>>

NoCommands == <<>>
OneCycle == <<"SCHED_OFF", "SCHED_ON">>

Symmetry == Permutations(Clients)

(* A reachable state to start longer runs from: every application has read   *)
(* its initial SCHED_ON and none has called CUDA, except those in asked: a   *)
(* thread of theirs asked for the lock, and nvsharectl turned the scheduler  *)
(* off, which let the thread through, and on again before the scheduler came *)
(* to read the REQ_LOCK.                                                     *)
Booted(asked) ==
    /\ toSched = [c \in Conns |-> IF c \in asked THEN <<"REQ_LOCK">> ELSE <<>>]
    /\ toClient = [c \in Conns |-> <<>>]
    /\ peer = [c \in Conns |-> c \in Clients]
    /\ backlog = {}
    /\ clients = Clients
    /\ exited = "no"
    /\ scheduler_on = TRUE
    /\ lock_held = FALSE
    /\ must_reset_timer = FALSE
    /\ registered = Clients
    /\ requests = <<>>
    /\ round_changed = FALSE
    /\ drop_lock_sent = FALSE
    /\ timer = "waiting"
    /\ events = <<>>
    /\ main = "epoll"
    /\ proc = [c \in Clients |-> "up"]
    /\ status_on = [c \in Clients |-> TRUE]
    /\ own_lock = [c \in Clients |-> FALSE]
    /\ need_lock = [c \in Clients |-> FALSE]
    /\ did_work = [c \in Clients |-> FALSE]
    /\ nvml_ok = [c \in Clients |-> HasNvml]
    /\ cuda_ctx_ok = [c \in Clients |-> c \in asked]
    /\ handler = [c \in Clients |-> "recv"]
    /\ releaser = [c \in Clients |-> "starting"]
    /\ app = [c \in Clients |-> [t \in Threads |-> IF c \in asked THEN "woken" ELSE "out"]]
    /\ gpu_busy = [c \in Clients |-> FALSE]
    /\ commands = CtlScript

BootedInit == Booted({})

(* The scheduler has been off and on once: with this as the initial state    *)
(* the script is the second cycle, and OneOwnerWhenSettled fails (README,    *)
(* known limits).  nvshare_toggle reaches it in 26 steps.                    *)
ToggledInit == \E c \in Clients : Booted({c})

(* Application c was given the lock or passed continue_with_lock() *)
Active(c) ==
    \/ own_lock'[c] /\ ~own_lock[c]
    \/ \E t \in Threads : app'[c][t] = "cleared" /\ app[c][t] # "cleared"

Follow ==
    rested' = [c \in Clients |->
        /\ ~Active(c)
        /\ rested[c] \/ (releaser'[c] = "waiting" /\ releaser[c] # "waiting")]

HNext == Next /\ Follow

Fresh == rested = [c \in Clients |-> FALSE]

HInit == Init /\ Fresh

HSpec == HInit /\ [][HNext]_hvars

BootedHInit == BootedInit /\ Fresh

BootedSpec == BootedHInit /\ [][HNext]_hvars

ToggledHInit == ToggledInit /\ Fresh

ToggledSpec == ToggledHInit /\ [][HNext]_hvars

(* The lock is released early only after an interval in which the            *)
(* application was neither given the lock nor entered a CUDA call: a grant   *)
(* that races the releaser's time-out restarts the interval (client.c,       *)
(* "Restart the early release timer to avoid race").                         *)
EarlyRelease(c) ==
    /\ releaser[c] \in {"timedout", "sync"} /\ releaser'[c] = "waiting"
    /\ own_lock[c] /\ ~own_lock'[c]
    /\ proc'[c] = "up"

IdleBeforeRelease == [][\A c \in Clients : EarlyRelease(c) => rested[c]]_hvars

=============================================================================
