----------------------------- MODULE Nvsharectl -----------------------------
(***************************************************************************)
(* nvsharectl (src/src/cli.c) from its command line to its effect: the     *)
(* options become at most two messages, each on a connection of its own;   *)
(* the scheduler takes them byte by byte, changes its status or TQ, and    *)
(* tells a registered client, whose connection also carries the client's   *)
(* own messages.  The lock protocol is left out (module NvShare has it).   *)
(***************************************************************************)
EXTENDS XOpt, ByteStream

CONSTANTS
    App,          \* the connection of a registered client
    FirstArgvs,   \* command lines of the first invocation
    LaterArgvs,   \* command lines of later ones
    MaxRuns,      \* bound: invocations
    DefaultTq     \* NVSHARE_DEFAULT_TQ

ASSUME AppAssumption == App \in Conns
ASSUME TqAssumption == DefaultTq \in 1 .. (IntMod \div 2) - 1
ASSUME ArgvsAssumption ==
    \A args \in FirstArgvs \cup LaterArgvs :
        args \in Seq(Range(args)) /\ \A a \in Range(args) : ArgumentOK(a)
ASSUME RunsAssumption == MaxRuns \in Nat \ {0}

Ctls == Conns \ {App}

VARIABLES
    argv,         \* the arguments nvsharectl was started with
    parser,       \* the state of xopt_parse()
    ctl,          \* nvsharectl: "parse", "connect", "write", "ended"
    todo,         \* messages it has not sent
    rest,         \* bytes of the current message it has not written
    at,           \* its connection
    runs,         \* invocations so far
    scheduler_on,
    tq,
    alive,        \* the client's process
    status_on,    \* the client's scheduler_on
    got,          \* bytes its read_whole() has
    rest_app      \* bytes of the message it writes, under global_mutex

ctlVars == <<argv, parser, ctl, todo, rest, at, runs>>
schedVars == <<scheduler_on, tq>>
appVars == <<alive, status_on, got, rest_app>>
vars == <<streamVars, ctlVars, schedVars, appVars>>

Status(on) == [type |-> IF on THEN "SCHED_ON" ELSE "SCHED_OFF", tq |-> 0]
SetTq(n) == [type |-> "SET_TQ", tq |-> n]
ReqLock == [type |-> "REQ_LOCK", tq |-> 0]

Init ==
    /\ up = [c \in Conns |-> <<>>]
    /\ down = [c \in Conns |-> <<>>]
    /\ peer = [c \in Conns |-> c = App]
    /\ server = [c \in Conns |-> IF c = App THEN "open" ELSE "none"]
    /\ argv \in FirstArgvs
    /\ parser = Start
    /\ ctl = "parse"
    /\ todo = <<>>
    /\ rest = <<>>
    /\ at = App
    /\ runs = 1
    /\ scheduler_on = TRUE
    /\ tq = DefaultTq
    /\ alive = TRUE
    /\ status_on = TRUE
    /\ got = <<>>
    /\ rest_app = <<>>

-----------------------------------------------------------------------------
(* nvsharectl *)

(* Wrong variant: the TQ is not checked *)
TqInRangeAny(n) == n # 0

(* main() refuses a TQ that is not positive; 0 counts as not given *)
TqInRange(n) == n > 0

(* What main() sends for a parsed command line, in this order.  The status   *)
(* goes out before the TQ is looked at.                                      *)
CtlMessages(p) ==
    IF p.err \/ p.config.status \notin {"", "on", "off"}
    THEN <<>>
    ELSE (IF p.config.status = "" THEN <<>> ELSE <<Status(p.config.status = "on")>>)
         \o (IF TqInRange(p.config.tq) THEN <<SetTq(p.config.tq)>> ELSE <<>>)

(* One argument of xopt_parse(), or one letter of a cluster *)
CtlParse ==
    /\ ctl = "parse"
    /\ ~xopt_done(argv, parser)
    /\ parser' = xopt_parse_arg(argv, parser)
    /\ UNCHANGED <<streamVars, argv, ctl, todo, rest, at, runs, schedVars, appVars>>

CtlParsed ==
    /\ ctl = "parse"
    /\ xopt_done(argv, parser)
    /\ todo' = CtlMessages(xopt_parse_end(parser))
    /\ ctl' = "connect"
    /\ argv' = <<>>
    /\ parser' = Start
    /\ UNCHANGED <<streamVars, rest, at, runs, schedVars, appVars>>

(* change_status() or change_tq() *)
CtlConnect(c) ==
    /\ ctl = "connect"
    /\ todo # <<>>
    /\ Connect(c)
    /\ at' = c
    /\ rest' = Bytes(Head(todo))
    /\ todo' = Tail(todo)
    /\ ctl' = "write"
    /\ UNCHANGED <<argv, parser, runs, schedVars, appVars>>

CtlWrite ==
    /\ ctl = "write"
    /\ \E n \in 1 .. MsgLen :
          /\ WriteSome(at, rest, n)
          /\ rest' = SubSeq(rest, n + 1, Len(rest))
    /\ UNCHANGED <<argv, parser, ctl, todo, at, runs, schedVars, appVars>>

(* The message is written: close() and go on *)
CtlClose ==
    /\ ctl = "write"
    /\ rest = <<>>
    /\ PeerClose(at)
    /\ ctl' = "connect"
    /\ at' = App
    /\ UNCHANGED <<argv, parser, todo, rest, runs, schedVars, appVars>>

CtlEnd ==
    /\ ctl = "connect"
    /\ todo = <<>>
    /\ ctl' = "ended"
    /\ UNCHANGED <<streamVars, argv, parser, todo, rest, at, runs, schedVars, appVars>>

(* write() to a connection the scheduler closed raises SIGPIPE, which ends   *)
(* the process before write_whole() can return an error.                     *)
CtlDies ==
    /\ ctl = "write"
    /\ WriteFails(at, rest)
    /\ PeerClose(at)
    /\ ctl' = "ended"
    /\ todo' = <<>>
    /\ rest' = <<>>
    /\ at' = App
    /\ UNCHANGED <<argv, parser, runs, schedVars, appVars>>

(* connect() fails: log_fatal() *)
CtlRefused ==
    /\ ctl = "connect"
    /\ todo # <<>>
    /\ ctl' = "ended"
    /\ todo' = <<>>
    /\ UNCHANGED <<streamVars, argv, parser, rest, at, runs, schedVars, appVars>>

(* Somebody runs nvsharectl again *)
CtlAgain ==
    /\ ctl = "ended"
    /\ runs < MaxRuns
    /\ runs' = runs + 1
    /\ argv' \in LaterArgvs
    /\ ctl' = "parse"
    /\ UNCHANGED <<streamVars, parser, todo, rest, at, schedVars, appVars>>

CtlNext == CtlParse \/ CtlParsed \/ (\E c \in Ctls : CtlConnect(c)) \/ CtlWrite \/ CtlClose \/ CtlEnd \/ CtlDies

-----------------------------------------------------------------------------
(* The scheduler *)

SchedAccept(c) == Accept(c) /\ UNCHANGED <<ctlVars, schedVars, appVars>>

(* delete_client() *)
Delete(c) ==
    /\ server' = [server EXCEPT ![c] = "none"]
    /\ up' = [up EXCEPT ![c] = <<>>]
    /\ UNCHANGED <<down, peer, schedVars>>

(* receive_message() fails *)
SchedHangup(c) ==
    /\ Readable(c)
    /\ ~ReceivedMessage(c)
    /\ Delete(c)
    /\ UNCHANGED <<ctlVars, appVars>>

(* bcast_status(): the client is deleted if it cannot be told *)
bcast_status(c, on) ==
    /\ down' = IF server[App] = "open" THEN [down EXCEPT ![App] = @ \o Writable(App, Status(on))]
                                       ELSE down
    /\ IF server[App] = "open" /\ ~SentMessage(App, Status(on))
       THEN /\ server' = [server EXCEPT ![App] = "none"]
            /\ up' = [AfterReceive(c) EXCEPT ![App] = <<>>]
       ELSE /\ up' = AfterReceive(c)
            /\ UNCHANGED server

(* SCHED_ON and SCHED_OFF *)
set_status(c, on) ==
    /\ scheduler_on' = on
    /\ IF scheduler_on # on THEN bcast_status(c, on)
                            ELSE up' = AfterReceive(c) /\ UNCHANGED <<down, server>>

(* process_msg().  What is not the bytes of a message has no known type. *)
SchedMessage(c) ==
    /\ Readable(c)
    /\ ReceivedMessage(c)
    /\ LET msg == Received(c)
           type == IF msg # <<>> /\ Aligned(msg) THEN msg[1].msg.type ELSE "OTHER"
       IN CASE type \in {"SCHED_ON", "SCHED_OFF"} ->
                  set_status(c, type = "SCHED_ON") /\ UNCHANGED tq
            [] type = "SET_TQ" ->
                  /\ tq' = ToInt(msg[1].msg.tq)
                  /\ up' = AfterReceive(c)
                  /\ UNCHANGED <<down, server, scheduler_on>>
            [] OTHER -> up' = AfterReceive(c) /\ UNCHANGED <<down, server, schedVars>>
    /\ UNCHANGED <<peer, ctlVars, appVars>>

-----------------------------------------------------------------------------
(* The client *)

(* An application thread begins a REQ_LOCK *)
AppRequest ==
    /\ alive
    /\ rest_app = <<>>
    /\ rest_app' = Bytes(ReqLock)
    /\ UNCHANGED <<streamVars, ctlVars, schedVars, alive, status_on, got>>

AppWrite ==
    /\ alive
    /\ \E n \in 1 .. MsgLen :
          /\ WriteSome(App, rest_app, n)
          /\ rest_app' = SubSeq(rest_app, n + 1, Len(rest_app))
    /\ UNCHANGED <<ctlVars, schedVars, alive, status_on, got>>

(* The client thread's nvshare_receive_block(), and the status it brings *)
AppRead ==
    /\ alive
    /\ \E n \in 1 .. Len(down[App]) : LET buf == got \o SubSeq(down[App], 1, n) IN
          /\ ReadSome(App, got, n)
          /\ IF Len(buf) = MsgLen
             THEN got' = <<>> /\ status_on' = (buf[1].msg.type = "SCHED_ON")
             ELSE got' = buf /\ UNCHANGED status_on
    /\ UNCHANGED <<ctlVars, schedVars, alive, rest_app>>

(* true_or_exit() of a short read or a failed write *)
AppDies ==
    /\ alive
    /\ ReadEnds(App) \/ WriteFails(App, rest_app)
    /\ alive' = FALSE
    /\ got' = <<>>
    /\ rest_app' = <<>>
    /\ PeerClose(App)
    /\ UNCHANGED <<ctlVars, schedVars, status_on>>

-----------------------------------------------------------------------------
SchedNext == \E c \in Conns : SchedAccept(c) \/ SchedHangup(c) \/ SchedMessage(c)

AppNext == AppRequest \/ AppWrite \/ AppRead \/ AppDies

Next == CtlNext \/ CtlRefused \/ CtlAgain \/ SchedNext \/ AppNext

(* The scheduler serves every ready connection (epoll_wait() returns all of  *)
(* them), nvsharectl goes on, and the client reads what it is sent and       *)
(* finishes the messages it has begun.                                       *)
Spec ==
    /\ Init
    /\ [][Next]_vars
    /\ WF_vars(CtlNext)
    /\ \A c \in Conns : /\ WF_vars(SchedAccept(c))
                        /\ WF_vars(SchedHangup(c) \/ SchedMessage(c))
    /\ WF_vars(AppRead) /\ WF_vars(AppWrite) /\ WF_vars(AppDies)

-----------------------------------------------------------------------------
(* Properties *)

Ints == -(IntMod \div 2) .. (IntMod \div 2) - 1

CtlMsgs == {Status(TRUE), Status(FALSE)} \cup {SetTq(n) : n \in Ints}

(* Nothing is longer than its buffer: a socket's, a message's, or the two    *)
(* messages a command line can mean; read_whole() never has a byte too many. *)
CtlTypeOK ==
    /\ \A c \in Conns : Len(up[c]) <= Cap /\ Len(down[c]) <= Cap
    /\ peer \in [Conns -> BOOLEAN]
    /\ server \in [Conns -> {"none", "backlog", "open"}]
    /\ parser.argi \in 1 .. Len(argv) + 1 /\ parser.config.tq \in Ints
    /\ ctl \in {"parse", "connect", "write", "ended"}
    /\ Len(todo) <= 2 /\ Range(todo) \subseteq CtlMsgs
    /\ Len(rest) <= MsgLen /\ Len(rest_app) <= MsgLen
    /\ Len(got) < MsgLen
    /\ at \in Conns
    /\ runs \in 1 .. MaxRuns
    /\ tq \in Ints
    /\ {scheduler_on, alive, status_on} \subseteq BOOLEAN

(* The meaning of a command line, position by position, as its usage text    *)
(* has it: nothing at all if it is not well formed or the status is neither  *)
(* "on" nor "off"; else the last status given, then the last TQ given, "to   *)
(* TQ seconds", if it is a positive integer.                                 *)
Meant(args) ==
    LET status == LastGiven(args, "S", "anti-thrash").word
        n == LastGiven(args, "T", "set-tq").n
    IN IF ~WellFormed(args) \/ status \notin {"", "on", "off"}
       THEN <<>>
       ELSE (IF status = "" THEN <<>> ELSE <<Status(status = "on")>>)
            \o (IF n > 0 THEN <<SetTq(n)>> ELSE <<>>)

(* The last TQ given is an int.  If it is not, xopt_parse() keeps its low    *)
(* bits (README, known limits).                                              *)
TqIsInt(args) == LastGiven(args, "T", "set-tq").n \in Ints

(* For every command line, unless it is well formed and its TQ no int, what  *)
(* xopt_parse() and main() make of it in one pass over argv is what it means.*)
CommandLineMeaning ==
    ctl = "parse" /\ xopt_done(argv, parser) =>
        \/ WellFormed(argv) /\ ~TqIsInt(argv)
        \/ CtlMessages(parser) = Meant(argv)

(* However many extras there are, and with the terminator, the parser never  *)
(* writes past the array it has grown for them.                              *)
ExtrasInBounds == ~xopt_parse_end(parser).overrun

(* Framing never slips: what either side has still to read begins where a    *)
(* message begins, whatever was written or read in part before.              *)
Framed ==
    /\ \A c \in Conns : server[c] = "open" => Aligned(up[c])
    /\ alive => Aligned(got \o down[App])

(* Whatever nvsharectl is given, the scheduler's TQ stays positive: the      *)
(* deadline of timer_thr_fn() is in the future.                              *)
TqPositive == tq >= 1

(* A connection of nvsharectl, complete or cut short, does not stay with the *)
(* scheduler.                                                                *)
ConnectionsEnd == \A c \in Ctls : server[c] # "none" ~> server[c] = "none"

(* A client learns of every change of status, unless it is dropped for not   *)
(* reading, and then it ends.                                                *)
ClientFollows == (alive /\ status_on # scheduler_on) ~> (~alive \/ status_on = scheduler_on)
=============================================================================
