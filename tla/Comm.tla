-------------------------------- MODULE Comm --------------------------------
(***************************************************************************)
(* The UNIX stream sockets between nvshare-scheduler and its peers (the    *)
(* nvshare clients and nvsharectl): src/src/comm.c, the message types of   *)
(* src/src/comm.h and the read/write loops of src/src/common.c.            *)
(*                                                                         *)
(* A connection is a slot of Conns.  Its server-side end is in the accept  *)
(* backlog, accepted (a member of the scheduler's clients list), or does   *)
(* not exist; its peer-side end is open or closed.  A slot whose two ends  *)
(* are gone may carry a new connection, which is how the model shows the   *)
(* reuse of file descriptors and of freed struct nvshare_client chunks.    *)
(* Each direction is a FIFO of whole messages: both sides write a message  *)
(* with one call, and a partial transfer is treated by the scheduler the   *)
(* same way as a failed one.                                               *)
(***************************************************************************)
EXTENDS Integers, Sequences

CONSTANTS
    Conns,        \* connection slots
    SockBuf       \* whole messages a socket buffer holds before write() fails or blocks

ASSUME SockBufAssumption == SockBuf \in Nat \ {0}

VARIABLES
    toSched,      \* toSched[c]:  sent by the peer, not yet read by the scheduler
    toClient,     \* toClient[c]: sent by the scheduler, not yet read by the peer
    peer,         \* peer[c]: the peer's end of the connection is open
    backlog,      \* connections nvshare_accept() has not returned yet
    clients,      \* connections in the scheduler's clients list
    exited        \* "no", or why the scheduler process is gone

commVars == <<toSched, toClient, peer, backlog, clients, exited>>

(* enum message_type.  OTHER stands for every message process_msg() ignores: *)
(* an unknown type, a type only the scheduler sends, or a SET_TQ whose data  *)
(* does not parse.                                                           *)
Messages == {"REGISTER", "SCHED_ON", "SCHED_OFF", "REQ_LOCK", "LOCK_OK",
             "DROP_LOCK", "LOCK_RELEASED", "SET_TQ", "OTHER"}

CommTypeOK ==
    /\ toSched \in [Conns -> Seq(Messages)]
    /\ toClient \in [Conns -> Seq(Messages)]
    /\ peer \in [Conns -> BOOLEAN]
    /\ backlog \in SUBSET Conns
    /\ clients \in SUBSET Conns
    /\ exited \in {"no", "sigpipe", "fatal"}

CommInit ==
    /\ toSched = [c \in Conns |-> <<>>]
    /\ toClient = [c \in Conns |-> <<>>]
    /\ peer = [c \in Conns |-> FALSE]
    /\ backlog = {}
    /\ clients = {}
    /\ exited = "no"

-----------------------------------------------------------------------------
(* The peer's side *)

(* The scheduler still has its end of connection c *)
ServerOpen(c) == exited = "no" /\ c \in clients \cup backlog

(* No process uses slot c *)
Free(c) == ~peer[c] /\ c \notin clients \cup backlog

(* nvshare_connect(): the connection waits in the backlog.  `first' is what  *)
(* the peer has written, and `stays' whether it has not closed its end yet.  *)
Connect(c, first, stays) ==
    /\ exited = "no"
    /\ Free(c)
    /\ backlog' = backlog \cup {c}
    /\ peer' = [peer EXCEPT ![c] = stays]
    /\ toSched' = [toSched EXCEPT ![c] = first]
    /\ toClient' = [toClient EXCEPT ![c] = <<>>]
    /\ UNCHANGED <<clients, exited>>

(* write_whole(): the blocking write of one message by the peer *)
CanWrite(c) == peer[c] /\ ServerOpen(c) /\ Len(toSched[c]) < SockBuf

Write(c, m) ==
    /\ CanWrite(c)
    /\ toSched' = [toSched EXCEPT ![c] = Append(@, m)]

(* nvshare_receive_block(): the peer takes the oldest message *)
Read(c, m) ==
    /\ peer[c]
    /\ toClient[c] # <<>>
    /\ m = Head(toClient[c])
    /\ toClient' = [toClient EXCEPT ![c] = Tail(@)]

(* read() returns 0: everything was read and the scheduler's end is closed *)
Eof(c) == peer[c] /\ toClient[c] = <<>> /\ ~ServerOpen(c)

(* The peer closes its end, or its process ends.  What it had not read is    *)
(* lost; what it wrote stays readable.                                       *)
Close(c) ==
    /\ peer[c]
    /\ peer' = [peer EXCEPT ![c] = FALSE]
    /\ toClient' = [toClient EXCEPT ![c] = <<>>]
    /\ UNCHANGED <<toSched, backlog, clients, exited>>
=============================================================================
