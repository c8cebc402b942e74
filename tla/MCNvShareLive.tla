--------------------------- MODULE MCNvShareLive ----------------------------
(* Liveness of NvShare on a small instance *)
EXTENDS NvShare

VARIABLE missed    \* history: the timer took the holder for one it has told already

lvars == <<vars, missed>>

NoCommands == <<>>

(* The timer, too late for the last holder, finds drop_lock_sent still set   *)
(* and counts a TQ of the new holder as one it has spoken about: scheduler.c *)
(* tests the flag before the round numbers (run scheduler_starved).          *)
Misses ==
    /\ timer = "timedout" /\ timer' = "waiting"
    /\ lock_held /\ drop_lock_sent /\ round_changed

(* The lock has been granted anew, or is free *)
NewBinding == ~lock_held' \/ (round_changed' /\ ~round_changed)

Follow == missed' = ((Misses \/ missed) /\ ~NewBinding)

LiveInit == Init /\ missed = FALSE

(* Every thread that can run runs: the main thread, the client threads and   *)
(* the GPU; a deadline passes whatever happens.  Strong fairness where a     *)
(* thread competes for a mutex that is free again and again.  Applications   *)
(* are under no obligation, and may compute for ever.                        *)
ByScheduler(A) == A /\ UNCHANGED <<clientVars, commands>> /\ Follow
ByProcess(A) == A /\ UNCHANGED <<schedVars, commands>> /\ Follow

LiveSpec ==
    /\ LiveInit /\ [][Next /\ Follow]_lvars
    /\ SF_lvars(ByScheduler(MainNext))
    /\ SF_lvars(ByScheduler(TimerDeadline))
    /\ SF_lvars(ByScheduler(TimerStart \/ TimerSignaled \/ TimerIdle \/ TimerOldRound \/ TimerDrop))
    /\ \A c \in Clients :
          /\ WF_lvars(ByProcess(HandlerNext(c)))
          /\ WF_lvars(ByProcess(GpuDone(c)))

(* An application whose thread waits for the lock gets it, even if the       *)
(* others never go idle, unless it or the scheduler ends, or a holder whose  *)
(* TQ the timer has missed keeps the lock for ever: nothing else starves it. *)
WaiterGetsLock ==
    \A c \in Clients, t \in Threads :
        app[c][t] = "waiting" ~>
            (own_lock[c] \/ proc[c] = "down" \/ exited # "no" \/ []missed)
=============================================================================
