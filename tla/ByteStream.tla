----------------------------- MODULE ByteStream -----------------------------
(***************************************************************************)
(* The UNIX stream sockets of nvshare byte by byte: what src/src/comm.c    *)
(* and the loops of src/src/common.c do with short counts.  Module Comm    *)
(* has whole messages only.                                                *)
(*                                                                         *)
(* Peers write with write_whole() and read with read_whole(), which go on  *)
(* after a short count; the scheduler uses one non-blocking write() or     *)
(* read() per message and takes a short count for a failure.  RETRY_INTR() *)
(* repeats an interrupted call, which nothing can tell from a late one.    *)
(***************************************************************************)
EXTENDS Integers, Sequences, SequencesExt

CONSTANTS
    Conns,       \* connections
    MsgLen,      \* sizeof(struct message)
    Cap          \* bytes a socket buffer holds

ASSUME BytesAssumption == MsgLen \in Nat \ {0} /\ Cap \in Nat /\ Cap >= MsgLen

VARIABLES
    up,          \* up[c]: bytes the peer wrote and the scheduler has not read
    down,        \* down[c]: bytes the scheduler wrote and the peer has not read
    peer,        \* peer[c]: the peer's end is open
    server       \* server[c]: the scheduler's end: "none", "backlog" or "open"

streamVars == <<up, down, peer, server>>

(* A message as bytes *)
Bytes(m) == [k \in 1 .. MsgLen |-> [msg |-> m, k |-> k]]

(* q is a run of whole messages, the last of them maybe cut short *)
Aligned(q) ==
    \A i \in DOMAIN q :
        /\ i % MsgLen = q[i].k % MsgLen
        /\ q[i].k > 1 => q[i].msg = q[i - 1].msg

-----------------------------------------------------------------------------
(* The peer's side.  Each operation says how it changes the stream; the      *)
(* buffer the peer works on is the caller's.                                 *)

(* nvshare_connect() to a scheduler that listens *)
Connect(c) ==
    /\ ~peer[c]
    /\ server[c] = "none"
    /\ peer' = [peer EXCEPT ![c] = TRUE]
    /\ server' = [server EXCEPT ![c] = "backlog"]
    /\ up' = [up EXCEPT ![c] = <<>>]
    /\ down' = [down EXCEPT ![c] = <<>>]

(* One write() of write_whole(): it blocks while there is no room, and takes *)
(* any number of the remaining bytes that fit.                               *)
WriteSome(c, rest, n) ==
    /\ peer[c]
    /\ server[c] # "none"
    /\ n \in 1 .. Len(rest)
    /\ Len(up[c]) + n <= Cap
    /\ up' = [up EXCEPT ![c] = @ \o SubSeq(rest, 1, n)]
    /\ UNCHANGED <<down, peer, server>>

(* write() to a connection the scheduler closed: SIGPIPE, or EPIPE where the *)
(* application ignores it                                                    *)
WriteFails(c, rest) == peer[c] /\ server[c] = "none" /\ rest # <<>>

(* Wrong variant: every read() asks for a whole message *)
WantedAgain(got) == MsgLen

(* What read_whole() still needs *)
Wanted(got) == MsgLen - Len(got)

(* One read() of read_whole(), after the bytes `got': at least one byte, at  *)
(* most what it asks for                                                     *)
ReadSome(c, got, n) ==
    /\ peer[c]
    /\ n \in 1 .. Wanted(got)
    /\ n <= Len(down[c])
    /\ down' = [down EXCEPT ![c] = SubSeq(@, n + 1, Len(@))]
    /\ UNCHANGED <<up, peer, server>>

(* read() returns 0, and read_whole() a short count *)
ReadEnds(c) == peer[c] /\ down[c] = <<>> /\ server[c] = "none"

PeerClose(c) ==
    /\ peer' = [peer EXCEPT ![c] = FALSE]
    /\ down' = [down EXCEPT ![c] = <<>>]
    /\ UNCHANGED <<up, server>>

-----------------------------------------------------------------------------
(* The scheduler's side *)

(* nvshare_accept() *)
Accept(c) ==
    /\ server[c] = "backlog"
    /\ server' = [server EXCEPT ![c] = "open"]
    /\ UNCHANGED <<up, down, peer>>

(* EPOLLIN *)
Readable(c) == server[c] = "open" /\ (up[c] # <<>> \/ ~peer[c])

(* What nvshare_receive_noblock() reads: all there is, at most a message *)
Received(c) == SubSeq(up[c], 1, IF Len(up[c]) < MsgLen THEN Len(up[c]) ELSE MsgLen)

(* Wrong variants: a short message is processed; the end of file is not      *)
(* noticed                                                                   *)
ReceivedAnything(c) == Received(c) # <<>>
ReceivedEof(c) == Len(Received(c)) \in {0, MsgLen}

(* receive_message() returns 0.  A short count, like the end of file, is -1. *)
ReceivedMessage(c) == Len(Received(c)) = MsgLen

AfterReceive(c) == [up EXCEPT ![c] = SubSeq(@, Len(Received(c)) + 1, Len(@))]

(* What nvshare_send_noblock() writes of m: as much as there is room for *)
Writable(c, m) ==
    LET room == Cap - Len(down[c])
    IN SubSeq(Bytes(m), 1, IF room < MsgLen THEN room ELSE MsgLen)

(* Wrong variant: a short count is taken for success *)
SentSome(c, m) == Writable(c, m) # <<>>

(* send_message() returns 0.  A short count, like EAGAIN, is -1. *)
SentMessage(c, m) == Len(Writable(c, m)) = MsgLen
=============================================================================
