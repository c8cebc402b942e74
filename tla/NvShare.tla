------------------------------ MODULE NvShare -------------------------------
(***************************************************************************)
(* The deployed system: one nvshare-scheduler, application processes with  *)
(* libnvshare, and nvsharectl (src/src/cli.c), which connects, writes one  *)
(* message and closes.                                                     *)
(***************************************************************************)
EXTENDS Scheduler, Client

CONSTANTS
    Ctls,          \* slots nvsharectl connects from
    CtlScript,     \* bound: the commands nvsharectl is given, in this order
    MayCrash       \* applications end or crash

ASSUME CtlsAssumption == Conns = Clients \cup Ctls /\ Clients \cap Ctls = {}
ASSUME CtlScriptAssumption == CtlScript \in Seq({"SCHED_ON", "SCHED_OFF", "SET_TQ"})
ASSUME MayCrashAssumption == MayCrash \in BOOLEAN

VARIABLE commands  \* nvsharectl invocations still to come

vars == <<commVars, schedVars, clientVars, commands>>

Init == CommInit /\ SchedInit /\ ClientInit /\ commands = CtlScript

(* change_status() or change_tq(): the message is in the socket when the     *)
(* scheduler accepts the connection, and the other end is closed.            *)
nvsharectl(c) ==
    /\ commands # <<>>
    /\ commands' = Tail(commands)
    /\ Connect(c, <<Head(commands)>>, FALSE)
    /\ UNCHANGED <<schedVars, clientVars>>

ClientAction(c) ==
    /\ \/ Start(c) \/ HandlerNext(c) \/ AppNext(c) \/ GpuDone(c) \/ ReleaserNext(c)
       \/ MayCrash /\ Crash(c)
    /\ UNCHANGED <<schedVars, commands>>

Next ==
    \/ SchedNext /\ UNCHANGED <<clientVars, commands>>
    \/ \E c \in Clients : ClientAction(c)
    \/ \E c \in Ctls : nvsharectl(c)

Spec == Init /\ [][Next]_vars

-----------------------------------------------------------------------------
(* Properties *)

(* How often message m is in channel q *)
Count(q, m) == Cardinality({i \in DOMAIN q : q[i] = m})

(* Where the GPU lock is, seen from client c: granted and on its way, owned, *)
(* being given back, or given back and on its way.                           *)
Tokens(c) ==
    Count(toClient[c], "LOCK_OK") + Count(toSched[c], "LOCK_RELEASED")
        + (IF own_lock[c] \/ handler[c] = "drop" THEN 1 ELSE 0)

Served(c) == exited = "no" /\ c \in clients

(* While the scheduler is never turned off, the GPU lock exists once: at any *)
(* time at most one served client owns it, has it on its way, or is giving   *)
(* it back, and that client is the one at the head of the requests list.     *)
(* README.md: "It assigns exclusive usage of the whole GPU ... to a single   *)
(* application at a time".                                                   *)
OneLock ==
    \A c \in Clients : Served(c) /\ Tokens(c) > 0 =>
        Tokens(c) = 1 /\ lock_held /\ requests[1] = c

(* A change of status has reached every client *)
StatusSettled ==
    /\ scheduler_on
    /\ \A c \in Clients : Served(c) => {"SCHED_ON", "SCHED_OFF"} \cap Range(toClient[c]) = {}

(* Once a change of status has reached every client, the scheduler being on  *)
(* means again that at most one client owns the lock: what the change        *)
(* overtook (grants, requests, releases) is not taken for what came after.   *)
(* README.md: "exclusive usage of the whole GPU ... to a single application  *)
(* at a time".                                                               *)
OneOwnerWhenSettled ==
    StatusSettled =>
        \A c, d \in Clients :
            Served(c) /\ Served(d) /\ own_lock[c] /\ own_lock[d] => c = d

(* A request is never left behind: whenever no thread of the scheduler is    *)
(* in its critical section and somebody has requested the lock, somebody     *)
(* holds it (every path that frees the lock calls try_schedule()).           *)
NoStrandedRequest ==
    exited = "no" /\ MutexFree /\ requests # <<>> => lock_held

(* An application thread waiting for own_lock_cv is waiting for something:   *)
(* its request is on its way or in the list, or the grant, or a status       *)
(* change that wakes it up or makes it ask again, is on its way.             *)
NoLostRequest ==
    \A c \in Clients :
        (\E t \in Threads : app[c][t] = "waiting") /\ Served(c) =>
            \/ "REQ_LOCK" \in Range(toSched[c])
            \/ c \in Range(requests)
            \/ {"LOCK_OK", "SCHED_OFF"} \cap Range(toClient[c]) # {}

(* The client synchronises a CUDA context only after one was recorded:       *)
(* cuda_sync_context() uses cuda_ctx, which continue_with_lock() sets.       *)
ContextKnown ==
    \A c \in Clients :
        handler[c] = "drop" \/ releaser[c] = "sync" \/ (status_on[c] /\ own_lock[c])
            => cuda_ctx_ok[c]

(* The first message a new client reads answers its REGISTER: the status,    *)
(* with the identifier that only register_client() writes into it.  On       *)
(* anything else client_fn() aborts the application, so a change of status   *)
(* must not reach a connection before its registration.                      *)
StatusFirst ==
    \A c \in Clients : proc[c] = "boot" /\ toClient[c] # <<>> =>
        /\ c \in clients => c \in registered
        /\ Head(toClient[c]) \in {"SCHED_ON", "SCHED_OFF"}

(* The scheduler never gives up on an application that is alive: a socket    *)
(* buffer for SockBuf messages is enough for what it may leave unread.       *)
NoLiveClientDropped ==
    \A c \in Clients : proc[c] # "down" /\ exited = "no" => c \in clients \cup backlog

(* The scheduler process never dies of an event whose client was deleted     *)
(* between epoll_wait() and its turn in the batch: with genuine clients the  *)
(* only deletions are those of the event's own client.                       *)
NoStaleEvent == exited # "fatal"

(* README.md: "during TQ seconds, only one process runs computation on the   *)
(* GPU".                                                                     *)
OneProcessOnGpu ==
    \A c, d \in Clients : gpu_busy[c] /\ gpu_busy[d] => c = d

(* scheduler.c on send_message(): "consider the client dead if we encounter  *)
(* any (even possibly recoverable if we were more lenient) error": a failed  *)
(* send costs the client its connection, not the scheduler its life.         *)
SchedulerSurvives == exited = "no"
=============================================================================
