-------------------------- MODULE MCSchedulerPeers --------------------------
(***************************************************************************)
(* Small instances of SchedulerPeers for TLC.  A history variable follows  *)
(* the current binding of the GPU lock to a client: granted, then timed    *)
(* once the timer thread has computed a deadline for it, then dropped once *)
(* DROP_LOCK was written.                                                  *)
(***************************************************************************)
EXTENDS SchedulerPeers

VARIABLE binding

hvars == <<vars, binding>>

Symmetry == Permutations(Conns)

(* This step ends at the head of the timer thread's loop *)
Armed ==
    /\ timer' = "waiting"
    /\ \/ timer \in {"starting", "timedout"}
       \/ timer = "signaled" /\ must_reset_timer

Follow ==
    binding' = CASE \E c \in Conns : SentTo(c, "LOCK_OK") -> IF Armed THEN "timed" ELSE "granted"
                 [] \E c \in Conns : SentTo(c, "DROP_LOCK") -> "dropped"
                 [] ~lock_held' -> "none"
                 [] lock_held' /\ Armed /\ binding = "granted" -> "timed"
                 [] OTHER -> binding

HInit == Init /\ binding = "none"

HNext == Next /\ Follow

HSpec == HInit /\ [][HNext]_hvars

(* Longer runs start where every slot carries a registered client, and bound *)
(* the clients by allowing no further connection.                            *)
SteadyInit ==
    /\ toSched = [c \in Conns |-> <<>>]
    /\ toClient = [c \in Conns |-> <<>>]
    /\ peer = [c \in Conns |-> TRUE]
    /\ backlog = {}
    /\ clients = Conns
    /\ exited = "no"
    /\ scheduler_on = TRUE
    /\ lock_held = FALSE
    /\ must_reset_timer = FALSE
    /\ registered = Conns
    /\ requests = <<>>
    /\ round_changed = FALSE
    /\ drop_lock_sent = FALSE
    /\ timer = "waiting"
    /\ events = <<>>
    /\ main = "epoll"
    /\ binding = "none"

Steady == Follow /\ backlog' = {}

SteadyNext == Next /\ Steady

SteadySpec == SteadyInit /\ [][SteadyNext]_hvars

(* DROP_LOCK is written once per binding, and only when the deadline that    *)
(* passed was computed after that binding's LOCK_OK: the round numbers of    *)
(* timer_thr_fn() keep a late timer from dropping the next holder.  (Without *)
(* SET_TQ, which makes the timer start over.)                                *)
DropOncePerQuantum ==
    [][\A c \in Conns : SentTo(c, "DROP_LOCK") => binding = "timed" /\ requests[1] = c]_hvars

(* The run about time quanta also bounds the clients to ones that stay *)
Stay == Steady /\ peer' = peer

(* Scheduling of the two threads.  A deadline passes whatever happens; the   *)
(* mutex is free whenever the main thread sleeps in epoll_wait(), so each    *)
(* thread gets it again and again.  Clients read what they are sent.         *)
Fairness ==
    /\ WF_hvars(MainNext /\ Stay)
    /\ SF_hvars(TimerDeadline /\ Stay)
    /\ SF_hvars((TimerStart \/ TimerSignaled) /\ Stay)
    /\ SF_hvars((TimerIdle \/ TimerOldRound \/ TimerDrop) /\ Stay)
    /\ \A c \in Conns : WF_hvars(PeerRead(c) /\ Stay)

FairSpec == SteadyInit /\ [][Next /\ Stay]_hvars /\ Fairness

(* scheduler.c: "When TQ elapses, it sends a DROP_LOCK message to the client *)
(* that holds the lock": a client that keeps the lock is told to drop it.    *)
HolderIsTold ==
    \A c \in Conns :
        (lock_held /\ requests[1] = c) ~>
            (binding = "dropped" \/ ~lock_held \/ requests[1] # c \/ exited # "no")
=============================================================================
