------------------------------ MODULE GpuLock -------------------------------
(***************************************************************************)
(* What nvshare-scheduler promises of the GPU lock, without connections,   *)
(* messages, threads or lists: who waits for the lock or holds it, who is  *)
(* ahead of whom, and who the holder is.  Clients join at the end and may  *)
(* leave at any time; the lock stays with its holder until that leaves,    *)
(* and then may go to the one nobody is ahead of.  SchedulerPeers          *)
(* implements it.                                                          *)
(***************************************************************************)
CONSTANT Clients

VARIABLES
    waiting,    \* the clients that want the lock, its holder included
    ahead,      \* pairs <<c, d>> of them: c came before d
    holders     \* at most one of them

lockVars == <<waiting, ahead, holders>>

Init ==
    /\ waiting = {}
    /\ ahead = {}
    /\ holders = {}

(* Those in gone leave, then those in new join behind everybody *)
Line(gone, new) ==
    /\ waiting' = (waiting \ gone) \cup new
    /\ ahead' = {p \in ahead : {p[1], p[2]} \cap gone = {}} \cup ((waiting \ gone) \X new)

(* The holder has not left: it keeps the lock *)
Keep(gone) == holders # {} /\ holders \cap gone = {} /\ holders' = holders

(* Nobody holds the lock any more *)
Free(gone) == holders \subseteq gone /\ holders' = {}

(* The lock goes to the one nobody is ahead of *)
Grant(gone) ==
    /\ holders \subseteq gone
    /\ \E c \in waiting' : holders' = {c} /\ \A d \in waiting' : <<d, c>> \notin ahead'

Next ==
    \E gone \in SUBSET waiting :
        /\ Line(gone, {}) \/ \E c \in Clients \ waiting : Line(gone, {c})
        /\ Keep(gone) \/ Free(gone) \/ Grant(gone)

Spec == Init /\ [][Next]_lockVars
=============================================================================
