----------------------------- MODULE Scheduler ------------------------------
(***************************************************************************)
(* nvshare-scheduler (src/src/scheduler.c): the daemon that hands the GPU  *)
(* lock to one client at a time, first come first served, and asks the     *)
(* holder to give it back when its time quantum (TQ) elapses.              *)
(*                                                                         *)
(* Two threads share global_mutex.  The main thread leaves epoll_wait()    *)
(* with a batch of events, takes the mutex and handles the events one by   *)
(* one; peers run between two events, the timer thread does not.  The      *)
(* timer thread sleeps in pthread_cond_timedwait() and runs one iteration  *)
(* of its loop, from wake-up to the next wait, under the mutex.            *)
(*                                                                         *)
(* The C functions that work on the shared lists are operators from a      *)
(* state record to a state record, composed the way the code calls them.   *)
(* Time is left out: a deadline may pass whenever the timer waits, so tq   *)
(* itself has no state; a SET_TQ only re-arms the timer.                   *)
(***************************************************************************)
EXTENDS Comm, SequencesExt

CONSTANTS
    Lsock,            \* the listening socket, as an event source
    MaxEvents,        \* EPOLL_MAX_EVENTS
    SigpipeFatal,     \* SIGPIPE has its default disposition (it has: no code changes it)
    EpollAddMayFail   \* epoll_ctl(EPOLL_CTL_ADD) may fail for an accepted connection

ASSUME LsockAssumption == Lsock \notin Conns
ASSUME MaxEventsAssumption == MaxEvents \in Nat \ {0}
ASSUME FaultAssumption == {SigpipeFatal, EpollAddMayFail} \subseteq BOOLEAN

VARIABLES
    scheduler_on,
    lock_held,
    must_reset_timer,
    registered,       \* members of clients with id # NVSHARE_UNREGISTERED_ID
    requests,         \* FCFS list; its head is the holder while lock_held
    round_changed,    \* scheduling_round # round_at_start of the timer thread
    drop_lock_sent,   \* local to the timer thread
    timer,            \* where the timer thread is
    events,           \* what epoll_wait() returned and is still unhandled
    main              \* "epoll", "woken" (batch in hand), "locked" (in the batch loop)

schedVars == <<scheduler_on, lock_held, must_reset_timer, registered, requests,
               round_changed, drop_lock_sent, timer, events, main>>

SchedTypeOK ==
    /\ CommTypeOK
    /\ scheduler_on \in BOOLEAN
    /\ lock_held \in BOOLEAN
    /\ must_reset_timer \in BOOLEAN
    /\ registered \in SUBSET Conns
    /\ requests \in Seq(Conns)
    /\ round_changed \in BOOLEAN
    /\ drop_lock_sent \in BOOLEAN
    /\ timer \in {"starting", "waiting", "signaled", "timedout"}
    /\ events \in Seq(Conns \cup {Lsock})
    /\ main \in {"epoll", "woken", "locked"}

SchedInit ==
    /\ scheduler_on = TRUE
    /\ lock_held = FALSE
    /\ must_reset_timer = FALSE
    /\ registered = {}
    /\ requests = <<>>
    /\ round_changed = FALSE
    /\ drop_lock_sent = FALSE
    /\ timer = "starting"
    /\ events = <<>>
    /\ main = "epoll"

-----------------------------------------------------------------------------
(* The shared state as a record, so that the code's functions compose *)

State == [on |-> scheduler_on, held |-> lock_held, reset |-> must_reset_timer,
          clients |-> clients, registered |-> registered, requests |-> requests,
          toSched |-> toSched, toClient |-> toClient,
          round |-> round_changed, timer |-> timer, exited |-> exited]

Become(s) ==
    /\ scheduler_on' = s.on
    /\ lock_held' = s.held
    /\ must_reset_timer' = s.reset
    /\ clients' = s.clients
    /\ registered' = s.registered
    /\ requests' = s.requests
    /\ toSched' = s.toSched
    /\ toClient' = s.toClient
    /\ round_changed' = s.round
    /\ timer' = s.timer
    /\ exited' = s.exited

(* Wrong variant: SIGPIPE is ignored, so that write() returns EPIPE *)
send_result_epipe(s, c) ==
    IF peer[c] /\ Len(s.toClient[c]) < SockBuf THEN "ok" ELSE "fail"

(* send_message(): write() to a peer that closed its end raises SIGPIPE      *)
(* (EPIPE where the signal is ignored); a full socket buffer is EAGAIN.      *)
send_result(s, c) ==
    CASE ~peer[c] /\ SigpipeFatal          -> "die"
      [] ~peer[c] /\ ~SigpipeFatal         -> "fail"
      [] peer[c] /\ Len(s.toClient[c]) >= SockBuf -> "fail"
      [] OTHER                             -> "ok"

Sent(s, c, m) == [s EXCEPT !.toClient = [@ EXCEPT ![c] = Append(s.toClient[c], m)]]

(* pthread_cond_broadcast(&timer_cv): a thread that already timed out will   *)
(* return ETIMEDOUT all the same.                                            *)
Broadcast(s) == [s EXCEPT !.timer = IF @ = "waiting" THEN "signaled" ELSE @]

(* Wrong variant: lock_held is cleared whoever leaves *)
remove_req_frees(s, c) ==
    IF \E i \in DOMAIN s.requests : s.requests[i] = c
    THEN [s EXCEPT !.held = FALSE,
                   !.requests = RemoveAt(@, CHOOSE i \in DOMAIN @ : @[i] = c)]
    ELSE s

remove_req(s, c) ==
    IF \E i \in DOMAIN s.requests : s.requests[i] = c
    THEN [s EXCEPT !.held = @ /\ s.requests[1] # c,
                   !.requests = RemoveAt(@, CHOOSE i \in DOMAIN @ : @[i] = c)]
    ELSE s

(* Wrong variant: the client's request is left in the list *)
delete_client_keeps_request(s, c) ==
    [s EXCEPT !.clients = @ \ {c}, !.registered = @ \ {c}, !.toSched = [@ EXCEPT ![c] = <<>>]]

(* remove_req(), unlink from clients, close(): what the peer wrote is lost.  *)
(* (The loop that unlinks reads client->fd again after free(): allocator     *)
(* data by then, which is no client's descriptor, so that it unlinks one.)   *)
delete_client(s, c) ==
    [remove_req(s, c) EXCEPT !.clients = @ \ {c},
                             !.registered = @ \ {c},
                             !.toSched = [@ EXCEPT ![c] = <<>>]]

(* Wrong variant: LL_PREPEND for LL_APPEND *)
insert_req_prepends(s, c) ==
    IF \E i \in DOMAIN s.requests : s.requests[i] = c
    THEN s
    ELSE [s EXCEPT !.requests = <<c>> \o @]

insert_req(s, c) ==
    IF \E i \in DOMAIN s.requests : s.requests[i] = c
    THEN s
    ELSE [s EXCEPT !.requests = Append(@, c)]

(* delete_client() of the first n requests, head by head *)
DeleteFirst(s, n) ==
    LET gone == {s.requests[i] : i \in 1..n}
    IN [s EXCEPT !.held = @ /\ n = 0,
                 !.requests = SubSeq(@, n + 1, Len(@)),
                 !.clients = @ \ gone,
                 !.registered = @ \ gone,
                 !.toSched = [c \in Conns |-> IF c \in gone THEN <<>> ELSE @[c]]]

(* LOCK_OK went to the head *)
Grant(s) ==
    Broadcast([Sent(s, s.requests[1], "LOCK_OK")
               EXCEPT !.round = TRUE, !.held = TRUE, !.reset = TRUE])

(* Serve the first request whose LOCK_OK can be written, and delete those    *)
(* before it.                                                                *)
try_schedule(s) ==
    LET Served(i) == send_result(s, s.requests[i]) # "fail"
        served == {i \in DOMAIN s.requests : Served(i)}
        first == CHOOSE i \in served : \A j \in served : i <= j
        t == DeleteFirst(s, first - 1)
    IN IF served = {}
       THEN DeleteFirst(s, Len(s.requests))
       ELSE IF send_result(s, s.requests[first]) = "die"
            THEN [t EXCEPT !.exited = "sigpipe"]
            ELSE Grant(t)

(* Wrong variant: no has_registered() test *)
AudienceAll(s) == s.clients

(* The clients a change of status is broadcast to *)
Audience(s) == s.registered

(* Tell every registered client the status; delete those that cannot be      *)
(* told.  (When the scheduler dies on the way, every client meets the end of *)
(* file next, told or not.)                                                  *)
bcast_status(s) ==
    LET status == IF s.on THEN "SCHED_ON" ELSE "SCHED_OFF"
        Result(c) == send_result(s, c)
        gone == {c \in Audience(s) : Result(c) = "fail"}
        Stays(c) == c \notin gone
    IN [s EXCEPT
          !.exited = IF \E c \in Audience(s) : Result(c) = "die" THEN "sigpipe" ELSE @,
          !.clients = @ \ gone,
          !.registered = @ \ gone,
          !.requests = IF @ = <<>> THEN @ ELSE SelectSeq(@, Stays),
          !.held = @ /\ s.requests # <<>> /\ s.requests[1] \notin gone,
          !.toSched = [c \in Conns |-> IF c \in gone THEN <<>> ELSE @[c]],
          !.toClient = [c \in Conns |-> IF c \in Audience(s) /\ Result(c) = "ok"
                                        THEN Append(@[c], status) ELSE @[c]]]

register_client(s, c) ==
    LET result == send_result(s, c)
    IN IF c \in s.registered \/ result = "fail"
       THEN delete_client(s, c)
       ELSE IF result = "die"
            THEN [s EXCEPT !.exited = "sigpipe"]
            ELSE [Sent(s, c, IF s.on THEN "SCHED_ON" ELSE "SCHED_OFF")
                  EXCEPT !.registered = @ \cup {c}]

(* Wrong variants: lock_held is not looked at; try_schedule() is not called *)
RescheduleAlways(s) == try_schedule(s)
RescheduleNever(s) == s

(* REQ_LOCK and LOCK_RELEASED of a registered client while the scheduler is  *)
(* on: edit the list, then hand the lock out if nobody holds it.             *)
Reschedule(s) == IF s.held THEN s ELSE try_schedule(s)

process_msg(s, c, m) ==
    CASE m = "REGISTER" -> register_client(s, c)
      [] m = "SCHED_ON" -> IF s.on THEN s ELSE bcast_status([s EXCEPT !.on = TRUE])
      [] m = "SCHED_OFF" ->
            IF s.on THEN [bcast_status([s EXCEPT !.on = FALSE])
                          EXCEPT !.requests = <<>>, !.held = FALSE]
                    ELSE s
      [] m = "SET_TQ" -> Broadcast([s EXCEPT !.reset = TRUE])
      [] m \in {"REQ_LOCK", "LOCK_RELEASED"} /\ c \notin s.registered -> delete_client(s, c)
      [] m = "REQ_LOCK" /\ c \in s.registered ->
            IF s.on THEN Reschedule(insert_req(s, c)) ELSE s
      [] m = "LOCK_RELEASED" /\ c \in s.registered ->
            IF s.on THEN Reschedule(remove_req(s, c)) ELSE s
      [] OTHER -> s

-----------------------------------------------------------------------------
(* The main thread *)

Running == exited = "no"

MutexFree == main # "locked"

Ready == {c \in clients : toSched[c] # <<>> \/ ~peer[c]}
            \cup (IF backlog # {} THEN {Lsock} ELSE {})

(* epoll_wait(): every ready descriptor, in any order, at most MaxEvents *)
EpollWait ==
    /\ Running
    /\ main = "epoll"
    /\ \E n \in 1..MaxEvents : \E e \in Injection(1..n, Ready) :
          /\ n = MaxEvents \/ Ready = Range(e)
          /\ events' = e
    /\ main' = "woken"
    /\ UNCHANGED <<commVars, scheduler_on, lock_held, must_reset_timer, registered,
                   requests, round_changed, drop_lock_sent, timer>>

(* Take the next event of the batch; the mutex is released after the last *)
NextEvent(e) ==
    /\ Running
    /\ main # "epoll"
    /\ e = Head(events)
    /\ events' = Tail(events)
    /\ main' = IF Tail(events) = <<>> THEN "epoll" ELSE "locked"
    /\ UNCHANGED drop_lock_sent

(* Wrong variant: client->fd is the listening socket *)
AcceptListener(c) ==
    /\ NextEvent(Lsock)
    /\ c \in backlog
    /\ backlog' = backlog \ {c}
    /\ clients' = clients \cup {Lsock}
    /\ UNCHANGED <<toSched, toClient, peer, exited, scheduler_on, lock_held,
                   must_reset_timer, registered, requests, round_changed, timer>>

(* nvshare_accept() and epoll_ctl(EPOLL_CTL_ADD) *)
Accept(c) ==
    /\ NextEvent(Lsock)
    /\ c \in backlog
    /\ backlog' = backlog \ {c}
    /\ clients' = clients \cup {c}
    /\ UNCHANGED <<toSched, toClient, peer, exited, scheduler_on, lock_held,
                   must_reset_timer, registered, requests, round_changed, timer>>

(* epoll_ctl() failed: the new connection is closed *)
AcceptFails(c) ==
    /\ NextEvent(Lsock)
    /\ EpollAddMayFail
    /\ c \in backlog
    /\ backlog' = backlog \ {c}
    /\ toSched' = [toSched EXCEPT ![c] = <<>>]
    /\ UNCHANGED <<toClient, peer, clients, exited, scheduler_on, lock_held,
                   must_reset_timer, registered, requests, round_changed, timer>>

(* receive_message() returned a message *)
ReceiveMsg(c) ==
    /\ NextEvent(c)
    /\ c \in clients
    /\ toSched[c] # <<>>
    /\ LET s == [State EXCEPT !.toSched = [@ EXCEPT ![c] = Tail(toSched[c])]]
       IN Become(process_msg(s, c, Head(toSched[c])))
    /\ UNCHANGED <<peer, backlog>>

(* Wrong variant: nobody is served after a disconnect *)
after_hangup_nothing(s) == s

(* The freed lock goes to the next request *)
after_hangup(s) == IF ~s.held /\ s.on THEN try_schedule(s) ELSE s

(* receive_message() failed: end of file, or EAGAIN when the event was meant *)
(* for an earlier connection that used the same slot.                        *)
Hangup(c) ==
    /\ NextEvent(c)
    /\ c \in clients
    /\ toSched[c] = <<>>
    /\ Become(after_hangup(delete_client(State, c)))
    /\ UNCHANGED <<peer, backlog>>

(* The event's struct nvshare_client was freed after epoll_wait() returned   *)
(* it.  The chunk's first word, fd, now holds allocator data, so read() or   *)
(* epoll_ctl() fails with an error that is fatal.                            *)
StaleEvent(c) ==
    /\ NextEvent(c)
    /\ c \in Conns \ clients
    /\ exited' = "fatal"
    /\ UNCHANGED <<toSched, toClient, peer, backlog, clients, scheduler_on, lock_held,
                   must_reset_timer, registered, requests, round_changed, timer>>

MainNext ==
    \/ EpollWait
    \/ \E c \in Conns : \/ Accept(c)
                        \/ AcceptFails(c)
                        \/ ReceiveMsg(c)
                        \/ Hangup(c)
                        \/ StaleEvent(c)

-----------------------------------------------------------------------------
(* The timer thread, timer_thr_fn() *)

(* The head of its loop, up to the wait *)
Arm(s) == [s EXCEPT !.reset = FALSE, !.round = FALSE, !.timer = "waiting"]

TimerStep(from) ==
    /\ Running
    /\ timer = from
    /\ UNCHANGED <<peer, backlog, events, main>>

TimerStart ==
    /\ TimerStep("starting")
    /\ MutexFree
    /\ Become(Arm(State))
    /\ UNCHANGED drop_lock_sent

(* The deadline passes; the thread still needs the mutex to return ETIMEDOUT *)
TimerDeadline ==
    /\ TimerStep("waiting")
    /\ Become([State EXCEPT !.timer = "timedout"])
    /\ UNCHANGED drop_lock_sent

(* POSIX allows the wait to return 0 without a signal *)
TimerSpurious ==
    /\ TimerStep("waiting")
    /\ Become([State EXCEPT !.timer = "signaled"])
    /\ UNCHANGED drop_lock_sent

(* Wrong variant: drop_lock_sent survives the end of the binding *)
TimerSignaledKeeps ==
    /\ TimerStep("signaled")
    /\ MutexFree
    /\ IF must_reset_timer THEN Become(Arm(State)) ELSE Become([State EXCEPT !.timer = "waiting"])
    /\ UNCHANGED drop_lock_sent

TimerSignaled ==
    /\ TimerStep("signaled")
    /\ MutexFree
    /\ IF must_reset_timer
       THEN Become(Arm(State)) /\ drop_lock_sent' = FALSE
       ELSE Become([State EXCEPT !.timer = "waiting"]) /\ UNCHANGED drop_lock_sent

(* Wrong variant: DROP_LOCK at every elapsed TQ *)
TimerNothingToDoOnce == ~lock_held

(* TQ elapsed, but there is nothing to drop or it was asked for already *)
TimerNothingToDo == ~lock_held \/ drop_lock_sent

TimerIdle ==
    /\ TimerStep("timedout")
    /\ MutexFree
    /\ TimerNothingToDo
    /\ Become(Arm(State))
    /\ UNCHANGED drop_lock_sent

(* The lock changed hands since the timer was armed *)
TimerOldRound ==
    /\ TimerStep("timedout")
    /\ MutexFree
    /\ ~TimerNothingToDo
    /\ round_changed
    /\ Become(Arm(State))
    /\ drop_lock_sent' = FALSE

(* DROP_LOCK to the holder, who is deleted when it cannot be told *)
TimerDrop ==
    LET holder == requests[1]
        result == send_result(State, holder)
    IN /\ TimerStep("timedout")
       /\ MutexFree
       /\ ~TimerNothingToDo
       /\ ~round_changed
       /\ \/ /\ result = "ok"
             /\ Become(Arm(Sent(State, holder, "DROP_LOCK")))
             /\ drop_lock_sent' = TRUE
          \/ /\ result = "fail"
             /\ Become(Arm(try_schedule(delete_client(State, holder))))
             /\ drop_lock_sent' = FALSE
          \/ /\ result = "die"
             /\ Become([State EXCEPT !.exited = "sigpipe"])
             /\ UNCHANGED drop_lock_sent

TimerNext ==
    \/ TimerStart \/ TimerDeadline \/ TimerSpurious \/ TimerSignaled
    \/ TimerIdle \/ TimerOldRound \/ TimerDrop

SchedNext == MainNext \/ TimerNext
=============================================================================
