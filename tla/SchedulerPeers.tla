--------------------------- MODULE SchedulerPeers ---------------------------
(***************************************************************************)
(* nvshare-scheduler among arbitrary peers.  The socket is writable by     *)
(* every user, so any process may connect, write any message of            *)
(* PeerMessages, read, and close at any time, in any order.  What holds    *)
(* here holds whatever the clients do.                                     *)
(***************************************************************************)
EXTENDS Scheduler

CONSTANT PeerMessages   \* what peers write

ASSUME PeerMessagesAssumption == PeerMessages \subseteq Messages


PeerConnect(c) == Connect(c, <<>>, TRUE) /\ UNCHANGED schedVars

PeerWrite(c, m) ==
    /\ Write(c, m)
    /\ UNCHANGED <<toClient, peer, backlog, clients, exited, schedVars>>

PeerRead(c) ==
    /\ \E m \in Messages : Read(c, m)
    /\ UNCHANGED <<toSched, peer, backlog, clients, exited, schedVars>>

PeerClose(c) == Close(c) /\ UNCHANGED schedVars

PeerNext ==
    \E c \in Conns : \/ PeerConnect(c)
                     \/ \E m \in PeerMessages : PeerWrite(c, m)
                     \/ PeerRead(c)
                     \/ PeerClose(c)

vars == <<commVars, schedVars>>

Init == CommInit /\ SchedInit

Next == SchedNext \/ PeerNext

Spec == Init /\ [][Next]_vars

-----------------------------------------------------------------------------
(* Properties *)

(* The requests list is sound whatever peers send: lock_held is only set     *)
(* while somebody is at the head to hold the lock (timer_thr_fn() follows    *)
(* requests->client without a check), every entry is a live registered       *)
(* client (delete_client() frees the struct an entry points to), nobody is   *)
(* queued twice, and turning the scheduler off leaves no request behind.     *)
HolderIsHead == lock_held => requests # <<>>

RequestsAreClients == Range(requests) \subseteq registered /\ registered \subseteq clients

NoDuplicateRequest == IsInjective(requests)

OffIsEmpty == ~scheduler_on => requests = <<>>

QueueSound == HolderIsHead /\ RequestsAreClients /\ NoDuplicateRequest /\ OffIsEmpty

(* The scheduler wrote m to connection c in this step *)
SentTo(c, m) == toClient'[c] = Append(toClient[c], m)

(* The scheduler implements GpuLock: whatever peers send, whichever writes   *)
(* fail and however requests are taken out of the middle of the list, those  *)
(* that stay keep their order (insert_req() appends, remove_req() and        *)
(* try_schedule() only take entries out), the lock stays with its holder     *)
(* until LOCK_RELEASED, a disconnect, a failed write or SCHED_OFF takes it   *)
(* out, and it goes to nobody but the first in line.                         *)
Lock == INSTANCE GpuLock WITH
    Clients <- Conns,
    waiting <- Range(requests),
    ahead <- {p \in Conns \X Conns :
                 \E i, j \in DOMAIN requests : i < j /\ p = <<requests[i], requests[j]>>},
    holders <- IF lock_held THEN {requests[1]} ELSE {}

ImplementsLock == Lock!Spec

(* LOCK_OK is only ever written to the new head of the requests list, and    *)
(* never while an earlier holder is still in it: the lock moves on only      *)
(* after LOCK_RELEASED, a disconnect, a failed write or SCHED_OFF took the   *)
(* holder out.                                                               *)
GrantStep ==
    \A c \in Conns : SentTo(c, "LOCK_OK") =>
        /\ lock_held'
        /\ requests'[1] = c
        /\ lock_held => requests[1] \notin Range(requests')

OneGrantAtATime == [][GrantStep]_vars
=============================================================================
