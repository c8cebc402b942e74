--------------------------- MODULE NvShareProofs ----------------------------
(***************************************************************************)
(* Proofs about the composed system: the scheduler, any number of          *)
(* applications that start, end and crash, and any commands of nvsharectl. *)
(* SchedulerEffects says what a step of the scheduler does to a connection;*)
(* this module says what the applications do and puts the two together.    *)
(***************************************************************************)
EXTENDS MCNvShare, SchedulerEffects, FiniteSetTheorems

(* Message m is in channel q at most once; only as its first message *)
Once(q, m) == \A i, j \in 1..Len(q) : q[i] = m /\ q[j] = m => i = j

OnlyFirst(q, m) == \A i \in 1..Len(q) : q[i] = m => i = 1

(* The channel q to the scheduler ends with a request, up to what follows it *)
Asks(q) ==
    \E i \in 1..Len(q) :
        q[i] = "REQ_LOCK" /\ \A j \in 1..Len(q) : i < j => q[j] # "LOCK_RELEASED"

-----------------------------------------------------------------------------
(* The inductive invariant *)

ClientMessages == {"REGISTER", "REQ_LOCK", "LOCK_RELEASED"}
CtlMessages == {"SCHED_ON", "SCHED_OFF", "SET_TQ"}

(* A client registers once, first.  A connection that waits to be accepted   *)
(* has registered and heard nothing.                                         *)
Channels(c) ==
    /\ peer[c] = (proc[c] # "down")
    /\ toSched[c] \in Seq(ClientMessages)
    /\ OnlyFirst(toSched[c], "REGISTER")
    /\ c \in registered => ~In(toSched[c], "REGISTER")
    /\ c \in backlog =>
          /\ toSched[c] = <<"REGISTER">> /\ toClient[c] = <<>>
          /\ c \notin clients /\ proc[c] # "up"

CtlChannels(c) == toSched[c] \in Seq(CtlMessages)

(* A process that is not up has done nothing *)
Idle(c) ==
    proc[c] # "up" =>
        /\ ~own_lock[c] /\ ~need_lock[c] /\ ~cuda_ctx_ok[c]
        /\ handler[c] = "recv" /\ releaser[c] = "starting"
        /\ \A t \in Threads : app[c][t] = "out"

(* Whatever has to do with the lock comes after the CUDA context: a thread   *)
(* in the gate, a request anywhere, its answer, and the lock.                *)
InGate(c) ==
    \/ handler[c] = "drop" \/ releaser[c] = "sync" \/ (status_on[c] /\ own_lock[c])
    \/ \E t \in Threads : app[c][t] # "out"

Pending(c) ==
    /\ proc[c] # "down"
    /\ \/ In(toSched[c], "REQ_LOCK") \/ In(requests, c)
       \/ In(toClient[c], "LOCK_OK") \/ In(toClient[c], "DROP_LOCK")

Context(c) == InGate(c) \/ Pending(c) => cuda_ctx_ok[c]

(* The first message of the scheduler is the status *)
Greeted(c) ==
    proc[c] = "boot" /\ toClient[c] # <<>> =>
        /\ Head(toClient[c]) \in {"SCHED_ON", "SCHED_OFF"}
        /\ c \in clients => c \in registered

NInv ==
    /\ IInv
    /\ ClientTypeOK
    /\ commands \in Seq(CtlMessages)
    /\ \A c \in Clients : Channels(c) /\ Idle(c) /\ Context(c) /\ Greeted(c)
    /\ \A c \in Ctls : CtlChannels(c)
    /\ ~Stranded(State)

(* While the scheduler is never turned off *)
NoOff(c) == ~In(toSched[c], "SCHED_OFF") /\ ~In(toClient[c], "SCHED_OFF")

AlwaysOn ==
    /\ scheduler_on
    /\ commands \in Seq(CtlMessages \ {"SCHED_OFF"})
    /\ \A c \in Conns : NoOff(c)
    /\ \A c \in Clients : proc[c] = "up" => status_on[c]

Granted(c) == In(toClient[c], "LOCK_OK")
Returned(c) == In(toSched[c], "LOCK_RELEASED")
HasLock(c) == Granted(c) \/ Returned(c) \/ own_lock[c] \/ handler[c] = "drop"

(* The lock is in one place, and its client is the holder *)
Places(c) ==
    /\ Once(toClient[c], "LOCK_OK") /\ Once(toSched[c], "LOCK_RELEASED")
    /\ Granted(c) => ~Returned(c) /\ ~own_lock[c] /\ handler[c] = "recv"
    /\ Returned(c) => ~own_lock[c] /\ handler[c] = "recv"
    /\ handler[c] = "drop" => ~own_lock[c] /\ releaser[c] # "sync"
    /\ releaser[c] = "sync" => own_lock[c]
    /\ c \in clients /\ HasLock(c) => lock_held /\ requests[1] = c

(* A client that needs the lock has asked for it and not been answered yet *)
Asked(c) ==
    /\ own_lock[c] \/ handler[c] = "drop" => ~need_lock[c]
    /\ \A t \in Threads : app[c][t] = "waiting" => need_lock[c]
    /\ c \in clients /\ need_lock[c] =>
          Asks(toSched[c]) \/ (In(requests, c) /\ ~Returned(c)) \/ Granted(c)

LInv == NInv /\ AlwaysOn /\ \A c \in Clients : Places(c) /\ Asked(c)

-----------------------------------------------------------------------------
(* Channels *)

(* Writing a message *)
LEMMA WriteChannel ==
    ASSUME NEW S, NEW q \in Seq(S), NEW x \in S
    PROVE  /\ Append(q, x) \in Seq(S)
           /\ Append(q, x) # <<>>
           /\ \A m : In(Append(q, x), m) <=> In(q, m) \/ m = x
           /\ \A m : Once(q, m) /\ (x # m \/ ~In(q, m)) => Once(Append(q, x), m)
           /\ \A m : OnlyFirst(q, m) /\ x # m => OnlyFirst(Append(q, x), m)
           /\ Asks(q) /\ x # "LOCK_RELEASED" => Asks(Append(q, x))
           /\ x = "REQ_LOCK" => Asks(Append(q, x))
           /\ Head(Append(q, x)) = IF q = <<>> THEN x ELSE Head(q)
<1> DEFINE r == Append(q, x)
           n == Len(q)
<1>1. /\ r \in Seq(S) /\ Len(r) = n + 1 /\ n \in Nat
      /\ \A i \in 1..n : r[i] = q[i]
      /\ r[n + 1] = x
  BY AppendProperties, LenProperties
<1>2. Head(r) = r[1] /\ r # <<>>
  <2>1. r # <<>>
    BY <1>1, EmptySeq
  <2>2. QED
    BY <1>1, <2>1, HeadTailProperties
<1>3. q # <<>> => Head(q) = q[1] /\ 1 \in 1..n
  BY <1>1, EmptyIffNoLength, HeadTailProperties
<1>4. q = <<>> => n = 0
  BY <1>1, EmptyIffNoLength
<1> HIDE DEF r
<1>5. ASSUME NEW i \in 1..Len(r) PROVE (i \in 1..n /\ r[i] = q[i]) \/ (i = n + 1 /\ r[i] = x)
  BY <1>1
<1>6. ASSUME NEW i \in 1..n PROVE i \in 1..Len(r) /\ r[i] = q[i] /\ i < n + 1
  BY <1>1
<1>7. n + 1 \in 1..Len(r) /\ r[n + 1] = x
  BY <1>1
<1>8. ASSUME NEW m PROVE In(r, m) <=> In(q, m) \/ m = x
  BY <1>5, <1>6, <1>7 DEF In
<1>9. ASSUME NEW m, Once(q, m), x # m \/ ~In(q, m) PROVE Once(r, m)
  BY <1>5, <1>9 DEF Once, In
<1>10. ASSUME NEW m, OnlyFirst(q, m), x # m PROVE OnlyFirst(r, m)
  BY <1>5, <1>10 DEF OnlyFirst
<1>11. ASSUME Asks(q), x # "LOCK_RELEASED" PROVE Asks(r)
  <2>1. PICK i \in 1..n : q[i] = "REQ_LOCK" /\ \A j \in 1..n : i < j => q[j] # "LOCK_RELEASED"
    BY <1>11 DEF Asks
  <2>2. i \in 1..Len(r) /\ r[i] = "REQ_LOCK"
    BY <1>6, <2>1
  <2>3. \A j \in 1..Len(r) : i < j => r[j] # "LOCK_RELEASED"
    BY <1>5, <1>11, <2>1
  <2>4. QED
    BY <2>2, <2>3 DEF Asks
<1>12. ASSUME x = "REQ_LOCK" PROVE Asks(r)
  <2>1. \A j \in 1..Len(r) : ~(n + 1 < j)
    BY <1>1
  <2>2. QED
    BY <1>7, <1>12, <2>1 DEF Asks
<1>13. Head(r) = IF q = <<>> THEN x ELSE Head(q)
  BY <1>1, <1>2, <1>3, <1>4
<1>14. QED
  BY <1>1, <1>2, <1>8, <1>9, <1>10, <1>11, <1>12, <1>13 DEF r

(* Reading one *)
LEMMA ReadChannel ==
    ASSUME NEW S, NEW q \in Seq(S), q # <<>>
    PROVE  /\ Head(q) \in S /\ Tail(q) \in Seq(S)
           /\ \A m : In(q, m) <=> In(Tail(q), m) \/ m = Head(q)
           /\ \A m : Once(q, m) => Once(Tail(q), m) /\ ~(Head(q) = m /\ In(Tail(q), m))
           /\ \A m : OnlyFirst(q, m) => OnlyFirst(Tail(q), m) /\ ~In(Tail(q), m)
           /\ Asks(q) => \/ Asks(Tail(q))
                         \/ Head(q) = "REQ_LOCK" /\ ~In(Tail(q), "LOCK_RELEASED")
<1> DEFINE r == Tail(q)
           n == Len(r)
<1>1. /\ Head(q) \in S /\ r \in Seq(S) /\ Len(q) = n + 1 /\ n \in Nat
      /\ Head(q) = q[1] /\ \A i \in 1..n : r[i] = q[i + 1]
  <2>1. Len(q) \in Nat /\ Len(q) # 0
    BY EmptyIffNoLength, LenProperties
  <2>2. QED
    BY <2>1, HeadTailProperties
<1> HIDE DEF r
<1>2. ASSUME NEW i \in 1..n
      PROVE  i + 1 \in 1..Len(q) /\ r[i] = q[i + 1] /\ i + 1 # 1 /\ i \in Nat
  BY <1>1
<1>3. ASSUME NEW i \in 1..Len(q) PROVE i = 1 \/ (i - 1 \in 1..n /\ r[i - 1] = q[i])
  BY <1>1
<1>4. 1 \in 1..Len(q) /\ q[1] = Head(q)
  BY <1>1
<1>5. ASSUME NEW m PROVE In(q, m) <=> In(r, m) \/ m = Head(q)
  <2>1. In(q, m) => In(r, m) \/ m = Head(q)
    BY <1>3, <1>4 DEF In
  <2>2. In(r, m) => In(q, m)
    BY <1>2 DEF In
  <2>3. m = Head(q) => In(q, m)
    BY <1>4 DEF In
  <2>4. QED
    BY <2>1, <2>2, <2>3
<1>6. ASSUME NEW m, Once(q, m) PROVE Once(r, m) /\ ~(Head(q) = m /\ In(r, m))
  <2>1. ASSUME NEW i \in 1..n, NEW j \in 1..n, r[i] = m, r[j] = m PROVE i = j
    <3>1. i + 1 = j + 1
      BY <1>2, <1>6, <2>1 DEF Once
    <3>2. QED
      BY <3>1
  <2>2. ~(Head(q) = m /\ In(r, m))
    BY <1>2, <1>4, <1>6 DEF Once, In
  <2>3. QED
    BY <2>1, <2>2 DEF Once
<1>7. ASSUME NEW m, OnlyFirst(q, m) PROVE OnlyFirst(r, m) /\ ~In(r, m)
  BY <1>2, <1>7 DEF OnlyFirst, In
<1>8. ASSUME Asks(q) PROVE Asks(r) \/ (Head(q) = "REQ_LOCK" /\ ~In(r, "LOCK_RELEASED"))
  <2>1. PICK i \in 1..Len(q) :
          q[i] = "REQ_LOCK" /\ \A j \in 1..Len(q) : i < j => q[j] # "LOCK_RELEASED"
    BY <1>8 DEF Asks
  <2>2. CASE i = 1
    <3>1. ASSUME NEW j \in 1..n PROVE r[j] # "LOCK_RELEASED"
      <4>1. j + 1 \in 1..Len(q) /\ 1 < j + 1
        BY <1>2
      <4>2. QED
        BY <1>2, <2>1, <2>2, <4>1
    <3>2. QED
      BY <1>4, <2>1, <2>2, <3>1 DEF In
  <2>3. CASE i # 1
    <3>1. i - 1 \in 1..n /\ r[i - 1] = "REQ_LOCK"
      BY <1>3, <2>1, <2>3
    <3>2. ASSUME NEW j \in 1..n, i - 1 < j PROVE r[j] # "LOCK_RELEASED"
      <4>1. j + 1 \in 1..Len(q) /\ i < j + 1
        BY <1>2, <3>2
      <4>2. QED
        BY <1>2, <2>1, <4>1
    <3>3. QED
      BY <3>1, <3>2 DEF Asks
  <2>4. QED
    BY <2>2, <2>3
<1>9. QED
  BY <1>1, <1>5, <1>6, <1>7, <1>8 DEF r

(* A new connection *)
LEMMA NewChannel ==
    /\ \A m : ~In(<<>>, m) /\ Once(<<>>, m) /\ OnlyFirst(<<>>, m)
    /\ \A x, m : (In(<<x>>, m) <=> x = m) /\ Once(<<x>>, m) /\ OnlyFirst(<<x>>, m)
    /\ \A S : <<>> \in Seq(S)
    /\ \A S : \A x \in S : <<x>> \in Seq(S)
<1>1. \A i : i \in 1..0 => FALSE
  OBVIOUS
<1>2. Len(<<>>) = 0
  OBVIOUS
<1>3. \A m : ~In(<<>>, m) /\ Once(<<>>, m) /\ OnlyFirst(<<>>, m)
  BY <1>1, <1>2 DEF In, Once, OnlyFirst
<1>4. ASSUME NEW x, NEW m PROVE (In(<<x>>, m) <=> x = m) /\ Once(<<x>>, m) /\ OnlyFirst(<<x>>, m)
  <2>1. Len(<<x>>) = 1 /\ <<x>>[1] = x
    OBVIOUS
  <2>2. \A i : i \in 1..1 <=> i = 1
    OBVIOUS
  <2>3. QED
    BY <2>1, <2>2 DEF In, Once, OnlyFirst
<1>5. QED
  BY <1>3, <1>4

-----------------------------------------------------------------------------
(* Steps of the scheduler *)

(* What IInv says of the variables *)
LEMMA SchedFacts ==
    ASSUME IInv
    PROVE  /\ toSched \in [Conns -> Seq(Messages)] /\ toClient \in [Conns -> Seq(Messages)]
           /\ clients \in SUBSET Conns /\ registered \subseteq clients
           /\ peer \in [Conns -> BOOLEAN] /\ backlog \in SUBSET Conns
           /\ scheduler_on \in BOOLEAN /\ lock_held \in BOOLEAN
           /\ requests \in Seq(Conns)
           /\ \A d : In(requests, d) => d \in registered
           /\ lock_held => In(requests, requests[1])
           /\ exited \in {"no", "sigpipe", "fatal"}
<1>1. Sound(State) /\ State \in Records
  BY DEF IInv, Sound
<1>2. lock_held => In(requests, requests[1])
  BY <1>1, SoundList DEF State
<1>3. \A d : In(requests, d) => d \in registered
  BY <1>1 DEF Sound, Listed, State, In
<1>4. /\ toSched \in [Conns -> Seq(Messages)] /\ toClient \in [Conns -> Seq(Messages)]
      /\ clients \in SUBSET Conns /\ scheduler_on \in BOOLEAN /\ lock_held \in BOOLEAN
      /\ requests \in Seq(Conns) /\ exited \in {"no", "sigpipe", "fatal"}
  BY <1>1 DEF State, Records
<1>5. registered \subseteq clients
  BY <1>1 DEF Sound, State
<1>6. QED
  BY <1>2, <1>3, <1>4, <1>5 DEF IInv, RestOK

(* The scheduler is about to handle m, from the record s *)
Handles(s, c, m) ==
    /\ s.on = scheduler_on /\ s.held = lock_held /\ s.clients = clients
    /\ s.registered = registered /\ s.requests = requests /\ s.toClient = toClient
    /\ s.exited = exited
    /\ \/ m = "none" /\ s.toSched = toSched
       \/ /\ c \in clients /\ toSched[c] # <<>> /\ m = Head(toSched[c])
          /\ m \in Messages
          /\ s.toSched = [toSched EXCEPT ![c] = Tail(toSched[c])]

(* Effect in terms of the variables, for one connection *)
Writes(c, m, d) ==
    \/ toClient'[d] = toClient[d]
    \/ /\ toClient'[d] = Append(toClient[d], "LOCK_OK")
       /\ lock_held' /\ requests'[1] = d /\ In(requests', d)
       /\ ~(lock_held /\ requests[1] = d)
    \/ /\ toClient'[d] = Append(toClient[d], "DROP_LOCK")
       /\ m = "none" /\ lock_held /\ requests[1] = d /\ In(requests, d)
    \/ /\ toClient'[d] = Append(toClient[d], IF scheduler_on' THEN "SCHED_ON" ELSE "SCHED_OFF")
       /\ d \in registered'
       /\ m \in {"SCHED_ON", "SCHED_OFF"} \/ (m = "REGISTER" /\ c = d)

Queues(c, m, d) ==
    /\ In(requests', d) => In(requests, d) \/ (m = "REQ_LOCK" /\ c = d)
    /\ d \in clients' =>
          /\ In(requests, d) \/ (m = "REQ_LOCK" /\ c = d /\ scheduler_on) =>
                In(requests', d) \/ m = "SCHED_OFF" \/ (m = "LOCK_RELEASED" /\ c = d)
          /\ lock_held /\ requests[1] = d =>
                \/ lock_held' /\ requests'[1] = d
                \/ m = "SCHED_OFF" \/ (m = "LOCK_RELEASED" /\ c = d)

Reads(c, m, d) ==
    /\ d \in clients' => d \in clients
    /\ toSched'[d] = IF d \in clients \ clients' THEN <<>>
                     ELSE IF m # "none" /\ c = d THEN Tail(toSched[d]) ELSE toSched[d]
    /\ d \in registered' => d \in registered \/ (m = "REGISTER" /\ c = d)
    /\ d \in registered /\ d \in clients' => d \in registered'
    /\ m # "none" => c \in clients /\ toSched[c] # <<>> /\ m = Head(toSched[c])

HandleStep(c, m) ==
    /\ \A d \in Conns : Writes(c, m, d) /\ Queues(c, m, d) /\ Reads(c, m, d)
    /\ scheduler_on' = IF m \in {"SCHED_ON", "SCHED_OFF"} THEN m = "SCHED_ON" ELSE scheduler_on
    /\ Stranded(State)' => Stranded(State) \/ (m = "REGISTER" /\ c \in registered)
    /\ m # "none" => c \in clients
    /\ UNCHANGED <<peer, backlog, clientVars, commands>>

LEMMA EffectView ==
    ASSUME IInv, NEW s, NEW c, NEW m, Handles(s, c, m), Effect(s, State', c, m),
           UNCHANGED <<peer, backlog, clientVars, commands>>
    PROVE  HandleStep(c, m)
<1> DEFINE t == State'
<1>1. /\ t.on = scheduler_on' /\ t.held = lock_held' /\ t.clients = clients'
      /\ t.registered = registered' /\ t.requests = requests' /\ t.toClient = toClient'
      /\ t.exited = exited' /\ t.toSched = toSched'
  BY DEF State
<1>2. toSched \in [Conns -> Seq(Messages)]
  BY SchedFacts
<1>3. Effect(s, t, c, m)
  OBVIOUS
<1>4. Stranded(State)' <=> Stranded(t)
  BY DEF Stranded
<1>5. Stranded(State) <=> Stranded(s)
  BY DEF Handles, Stranded, State
<1> HIDE DEF t
<1>6. ASSUME NEW d \in Conns PROVE Writes(c, m, d)
  <2>1. Told(s, t, c, m, d)
    BY <1>3 DEF Effect
  <2>2. QED
    BY <1>1, <2>1 DEF Told, Writes, Handles
<1>7. ASSUME NEW d \in Conns PROVE Queues(c, m, d)
  <2>1. Queued(s, t, c, m, d)
    BY <1>3 DEF Effect
  <2>2. QED
    BY <1>1, <2>1 DEF Queued, Queues, Handles
<1>8. ASSUME NEW d \in Conns PROVE Reads(c, m, d)
  <2>1. Stays(s, t, c, m, d)
    BY <1>3 DEF Effect
  <2>2. s.toSched[d] = IF m # "none" /\ c = d THEN Tail(toSched[d]) ELSE toSched[d]
    BY <1>2 DEF Handles, Messages
  <2>3. QED
    BY <1>1, <2>1, <2>2 DEF Stays, Reads, Handles
<1>9. /\ scheduler_on' = IF m \in {"SCHED_ON", "SCHED_OFF"} THEN m = "SCHED_ON" ELSE scheduler_on
      /\ Stranded(t) => Stranded(s) \/ (m = "REGISTER" /\ c \in registered)
  BY <1>1, <1>3 DEF Effect, Handles
<1>10. QED
  BY <1>4, <1>5, <1>6, <1>7, <1>8, <1>9 DEF HandleStep, Handles

(* The rest of the scheduler's steps: a connection is accepted or refused,   *)
(* or nothing changes that matters to a client.                              *)
AcceptStep(c) ==
    /\ c \in backlog
    /\ backlog' = backlog \ {c}
    /\ \/ clients' = clients \cup {c} /\ UNCHANGED toSched
       \/ clients' = clients /\ toSched' = [toSched EXCEPT ![c] = <<>>]
    /\ UNCHANGED <<toClient, peer, exited, scheduler_on, lock_held, registered, requests,
                   clientVars, commands>>

NoStep ==
    /\ UNCHANGED <<toSched, toClient, peer, backlog, clients, scheduler_on, lock_held,
                   registered, requests, clientVars, commands>>
    /\ exited' = "no" => exited = "no"

LEMMA TimerHandles ==
    ASSUME IInv, TimerNext, UNCHANGED <<clientVars, commands>>
    PROVE  HandleStep(Lsock, "none") /\ exited = "no"
<1>1. Effect(State, State', Lsock, "none")
  BY TimerEffect
<1>2. Handles(State, Lsock, "none")
  BY DEF Handles, State
<1>3. UNCHANGED <<peer, backlog>> /\ exited = "no"
  BY DEF TimerNext, TimerStart, TimerDeadline, TimerSpurious, TimerSignaled, TimerIdle,
         TimerOldRound, TimerDrop, TimerStep, Running
<1>4. QED
  BY <1>1, <1>2, <1>3, EffectView

LEMMA ReceiveHandles ==
    ASSUME IInv, NEW c \in Conns, ReceiveMsg(c), UNCHANGED <<clientVars, commands>>
    PROVE  HandleStep(c, Head(toSched[c])) /\ Head(toSched[c]) \in Messages /\ exited = "no"
<1>0. toSched \in [Conns -> Seq(Messages)]
  BY SchedFacts
<1>1. Effect(Popped(c), State', c, Head(toSched[c]))
  BY ReceiveEffect
<1>2. c \in clients /\ toSched[c] # <<>> /\ exited = "no" /\ UNCHANGED <<peer, backlog>>
  BY DEF ReceiveMsg, NextEvent, Running
<1>3. Head(toSched[c]) \in Messages
  BY <1>0, <1>2, ReadChannel
<1>4. Handles(Popped(c), c, Head(toSched[c]))
  BY <1>2, <1>3 DEF Handles, Popped, State
<1>5. QED
  BY <1>1, <1>2, <1>3, <1>4, EffectView

LEMMA HangupHandles ==
    ASSUME IInv, NEW c \in Conns, Hangup(c), UNCHANGED <<clientVars, commands>>
    PROVE  HandleStep(c, "none") /\ exited = "no"
<1>1. Effect(State, State', c, "none")
  BY HangupEffect
<1>2. Handles(State, c, "none")
  BY DEF Handles, State
<1>3. UNCHANGED <<peer, backlog>> /\ exited = "no"
  BY DEF Hangup, NextEvent, Running
<1>4. QED
  BY <1>1, <1>2, <1>3, EffectView

LEMMA SchedSteps ==
    ASSUME IInv, SchedNext, UNCHANGED <<clientVars, commands>>
    PROVE  /\ \/ \E c \in Conns \cup {Lsock}, m \in Messages \cup {"none"} : HandleStep(c, m)
              \/ \E c \in Conns : AcceptStep(c)
              \/ NoStep
           /\ exited = "no"
<1>1. CASE TimerNext
  BY <1>1, TimerHandles
<1>2. CASE EpollWait
  BY <1>2 DEF EpollWait, NoStep, commVars, Running
<1>3. ASSUME NEW c \in Conns, Accept(c) \/ AcceptFails(c) PROVE AcceptStep(c) /\ exited = "no"
  BY <1>3 DEF Accept, AcceptFails, AcceptStep, NextEvent, Running
<1>4. ASSUME NEW c \in Conns, StaleEvent(c) PROVE NoStep /\ exited = "no"
  BY <1>4 DEF StaleEvent, NoStep, NextEvent, Running
<1>5. ASSUME NEW c \in Conns, ReceiveMsg(c)
      PROVE  HandleStep(c, Head(toSched[c])) /\ Head(toSched[c]) \in Messages /\ exited = "no"
  BY <1>5, ReceiveHandles
<1>6. ASSUME NEW c \in Conns, Hangup(c) PROVE HandleStep(c, "none") /\ exited = "no"
  BY <1>6, HangupHandles
<1>7. QED
  BY <1>1, <1>2, <1>3, <1>4, <1>5, <1>6 DEF SchedNext, MainNext

(* The channels of one connection after the scheduler handled an event *)
LEMMA HandleChannels ==
    ASSUME IInv, IInv', NEW c, NEW m, HandleStep(c, m), NEW d \in Conns
    PROVE  /\ \A x : In(toSched'[d], x) => In(toSched[d], x)
           /\ \A x : OnlyFirst(toSched[d], x) => OnlyFirst(toSched'[d], x)
           /\ \A x : Once(toSched[d], x) => Once(toSched'[d], x)
           /\ \A S : toSched[d] \in Seq(S) => toSched'[d] \in Seq(S)
           /\ m # "none" /\ c = d /\ OnlyFirst(toSched[d], m) => ~In(toSched'[d], m)
           /\ m # "none" /\ c = d => In(toSched[d], m)
<1>1. Reads(c, m, d) /\ toSched[d] \in Seq(Messages)
  BY SchedFacts DEF HandleStep
<1>2. CASE toSched'[d] = <<>>
  <2>1. \A x : ~In(toSched'[d], x) /\ Once(toSched'[d], x) /\ OnlyFirst(toSched'[d], x)
    BY <1>2, NewChannel
  <2>2. \A S : toSched'[d] \in Seq(S)
    BY <1>2, NewChannel
  <2>3. m # "none" /\ c = d => In(toSched[d], m)
    BY <1>1, ReadChannel DEF Reads
  <2>4. QED
    BY <2>1, <2>2, <2>3
<1>3. CASE m # "none" /\ c = d /\ toSched'[d] = Tail(toSched[d])
  <2>1. toSched[d] # <<>> /\ m = Head(toSched[d])
    BY <1>1, <1>3 DEF Reads
  <2>2. \A S : toSched[d] \in Seq(S) => Tail(toSched[d]) \in Seq(S)
    BY <2>1, ReadChannel
  <2>3. /\ \A x : In(toSched[d], x) <=> In(Tail(toSched[d]), x) \/ x = Head(toSched[d])
        /\ \A x : Once(toSched[d], x) => Once(Tail(toSched[d]), x)
        /\ \A x : OnlyFirst(toSched[d], x) =>
                    OnlyFirst(Tail(toSched[d]), x) /\ ~In(Tail(toSched[d]), x)
    BY <1>1, <2>1, ReadChannel
  <2>4. QED
    BY <1>3, <2>1, <2>2, <2>3
<1>4. CASE ~(m # "none" /\ c = d) /\ toSched'[d] = toSched[d]
  BY <1>4
<1>5. QED
  BY <1>1, <1>2, <1>3, <1>4 DEF Reads

LEMMA HandleNInv ==
    ASSUME NInv, IInv', NEW c \in Conns \cup {Lsock}, NEW m \in Messages \cup {"none"},
           HandleStep(c, m)
    PROVE  NInv'
<1>0. UNCHANGED <<peer, backlog, clientVars, commands>> /\ IInv /\ Clients \subseteq Conns
      /\ Ctls \subseteq Conns
  BY ClientsAssumption, CtlsAssumption DEF HandleStep, NInv
<1>1. ASSUME NEW d \in Clients PROVE Channels(d)'
  <2>1. Channels(d) /\ Reads(c, m, d) /\ Writes(c, m, d) /\ Queues(c, m, d)
    BY <1>0 DEF NInv, HandleStep
  <2>2. /\ \A x : In(toSched'[d], x) => In(toSched[d], x)
        /\ \A x : OnlyFirst(toSched[d], x) => OnlyFirst(toSched'[d], x)
        /\ \A S : toSched[d] \in Seq(S) => toSched'[d] \in Seq(S)
        /\ m # "none" /\ c = d /\ OnlyFirst(toSched[d], m) => ~In(toSched'[d], m)
    BY <1>0, HandleChannels
  <2>3. (d \in registered => ~In(toSched[d], "REGISTER"))'
    BY <2>1, <2>2 DEF Channels, Reads
  <2>4. ASSUME d \in backlog
        PROVE  toSched'[d] = toSched[d] /\ toClient'[d] = toClient[d] /\ d \notin clients'
    <3>1. d \notin clients /\ d \notin clients' /\ d \notin registered /\ ~In(requests, d)
      BY <1>0, <2>1, <2>4, SchedFacts DEF Channels, Reads
    <3>2. toSched'[d] = toSched[d]
      BY <2>1, <3>1 DEF Reads
    <3>3. ~In(requests', d) /\ d \notin registered'
      BY <2>1, <3>1 DEF Reads, Queues
    <3>4. toClient'[d] = toClient[d]
      BY <2>1, <3>1, <3>3 DEF Writes
    <3>5. QED
      BY <3>1, <3>2, <3>4
  <2>5. QED
    BY <1>0, <2>1, <2>2, <2>3, <2>4 DEF Channels, clientVars
<1>2. ASSUME NEW d \in Clients PROVE Idle(d)'
  BY <1>0 DEF NInv, Idle, clientVars
<1>3. ASSUME NEW d \in Clients PROVE Context(d)'
  <2>1. Context(d) /\ Reads(c, m, d) /\ Writes(c, m, d) /\ Queues(c, m, d)
    BY <1>0 DEF NInv, HandleStep
  <2>2. /\ \A x : In(toSched'[d], x) => In(toSched[d], x)
        /\ m # "none" /\ c = d => In(toSched[d], m)
    BY <1>0, HandleChannels
  <2>3. In(requests', d) => In(requests, d) \/ In(toSched[d], "REQ_LOCK")
    BY <2>1, <2>2 DEF Queues
  <2>4. toClient[d] \in Seq(Messages)
    BY <1>0, SchedFacts
  <2>5. ASSUME NEW x \in {"LOCK_OK", "DROP_LOCK"}, In(toClient'[d], x)
        PROVE  In(toClient[d], x) \/ In(requests, d) \/ In(requests', d)
    <3>1. \A y \in Messages : In(Append(toClient[d], y), x) <=> In(toClient[d], x) \/ x = y
      BY <2>4, WriteChannel
    <3>2. "LOCK_OK" \in Messages /\ "DROP_LOCK" \in Messages /\ "SCHED_ON" \in Messages
          /\ "SCHED_OFF" \in Messages
      BY DEF Messages
    <3>3. QED
      BY <2>1, <2>5, <3>1, <3>2 DEF Writes
  <2>6. InGate(d)' = InGate(d) /\ cuda_ctx_ok' = cuda_ctx_ok /\ proc' = proc
    BY <1>0 DEF InGate, clientVars
  <2>7. Pending(d)' => Pending(d)
    BY <2>2, <2>3, <2>5, <2>6 DEF Pending
  <2>8. QED
    BY <2>1, <2>6, <2>7 DEF Context
<1>4. ASSUME NEW d \in Clients PROVE Greeted(d)'
  <2>1. SUFFICES ASSUME proc[d] = "boot", toClient'[d] # <<>>
                 PROVE  /\ Head(toClient'[d]) \in {"SCHED_ON", "SCHED_OFF"}
                        /\ d \in clients' => d \in registered'
    BY <1>0 DEF Greeted, clientVars
  <2>2. /\ Greeted(d) /\ Idle(d) /\ Context(d) /\ Context(d)'
        /\ Reads(c, m, d) /\ Writes(c, m, d)
    BY <1>0, <1>3 DEF NInv, HandleStep
  <2>3. ~In(requests, d) /\ ~In(requests', d)
    <3>1. ~cuda_ctx_ok[d] /\ ~cuda_ctx_ok'[d] /\ proc'[d] = "boot"
      BY <1>0, <2>1, <2>2 DEF Idle, clientVars
    <3>2. QED
      BY <2>1, <2>2, <3>1 DEF Context, Pending
  <2>4. CASE toClient'[d] = toClient[d]
    BY <2>1, <2>2, <2>4 DEF Greeted, Reads
  <2>5. CASE toClient'[d] # toClient[d]
    <3> DEFINE x == IF scheduler_on' THEN "SCHED_ON" ELSE "SCHED_OFF"
    <3>1. toClient'[d] = Append(toClient[d], x) /\ d \in registered'
      BY <2>2, <2>3, <2>5 DEF Writes
    <3>2. x \in Messages /\ x \in {"SCHED_ON", "SCHED_OFF"} /\ toClient[d] \in Seq(Messages)
      BY <1>0, SchedFacts DEF Messages
    <3> HIDE DEF x
    <3>3. Head(toClient'[d]) = IF toClient[d] = <<>> THEN x ELSE Head(toClient[d])
      BY <3>1, <3>2, WriteChannel
    <3>4. QED
      BY <2>1, <2>2, <3>1, <3>2, <3>3 DEF Greeted
  <2>6. QED
    BY <2>4, <2>5
<1>5. ASSUME NEW d \in Ctls PROVE CtlChannels(d)'
  BY <1>0, HandleChannels DEF NInv, CtlChannels
<1>6. ~Stranded(State)'
  <2>1. ASSUME m = "REGISTER", c \in registered PROVE FALSE
    <3>1. c \in Conns /\ In(toSched[c], "REGISTER")
      BY <1>0, <2>1, SchedFacts, HandleChannels
    <3>2. c \notin Clients
      BY <2>1, <3>1 DEF NInv, Channels
    <3>3. c \in Ctls
      BY <3>1, <3>2, CtlsAssumption
    <3>4. toSched[c] \in Seq(CtlMessages)
      BY <3>3 DEF NInv, CtlChannels
    <3>5. QED
      BY <3>1, <3>4, ElementOfSeq DEF In, CtlMessages
  <2>2. QED
    BY <2>1 DEF HandleStep, NInv
<1>7. ClientTypeOK' /\ (commands \in Seq(CtlMessages))'
  BY <1>0 DEF NInv, ClientTypeOK, clientVars
<1>8. QED
  BY <1>1, <1>2, <1>3, <1>4, <1>5, <1>6, <1>7 DEF NInv

(* Who is in the list of a sound record is a client *)
LEMMA ListedClient ==
    ASSUME NEW s, Sound(s), NEW d, In(s.requests, d)
    PROVE  d \in s.clients
BY DEF Sound, Listed, In

(* With the scheduler always on, handling an event moves the lock from the   *)
(* holder that gave it back to the next, and answers requests.               *)
LEMMA HandleLInv ==
    ASSUME LInv, IInv', NEW c \in Conns \cup {Lsock}, NEW m \in Messages \cup {"none"},
           HandleStep(c, m)
    PROVE  AlwaysOn' /\ \A d \in Clients : (Places(d) /\ Asked(d))'
<1>0. /\ UNCHANGED <<peer, backlog, clientVars, commands>> /\ IInv
      /\ Clients \subseteq Conns /\ NInv
  BY ClientsAssumption DEF HandleStep, LInv, NInv
<1>1. m # "SCHED_OFF"
  <2>1. SUFFICES ASSUME m = "SCHED_OFF" PROVE FALSE
    OBVIOUS
  <2>2. c \in Conns
    BY <1>0, <2>1, SchedFacts DEF HandleStep
  <2>3. In(toSched[c], "SCHED_OFF")
    BY <1>0, <2>1, <2>2, HandleChannels
  <2>4. QED
    BY <2>2, <2>3 DEF LInv, AlwaysOn, NoOff
<1>2. scheduler_on'
  BY <1>1 DEF HandleStep, LInv, AlwaysOn
<1>3. ASSUME NEW d \in Conns
      PROVE  /\ \/ toClient'[d] = toClient[d]
                \/ \E x \in {"LOCK_OK", "DROP_LOCK", "SCHED_ON"} :
                      /\ toClient'[d] = Append(toClient[d], x)
                      /\ x = "LOCK_OK" => /\ lock_held' /\ requests'[1] = d /\ d \in clients'
                                          /\ ~(lock_held /\ requests[1] = d)
             /\ \A x \in Messages :
                   /\ In(Append(toClient[d], x), "LOCK_OK") <=> Granted(d) \/ x = "LOCK_OK"
                   /\ In(Append(toClient[d], x), "SCHED_OFF") <=>
                         In(toClient[d], "SCHED_OFF") \/ x = "SCHED_OFF"
                   /\ Once(toClient[d], "LOCK_OK") /\ (x # "LOCK_OK" \/ ~Granted(d)) =>
                         Once(Append(toClient[d], x), "LOCK_OK")
  <2>1. toClient[d] \in Seq(Messages) /\ Writes(c, m, d)
    BY <1>0, SchedFacts DEF HandleStep
  <2>2. In(requests', d) => d \in clients'
    <3>1. Sound(State') /\ State'.requests = requests' /\ State'.clients = clients'
      BY DEF IInv, State
    <3>2. QED
      BY <3>1, ListedClient
  <2>3. \/ toClient'[d] = toClient[d]
        \/ \E x \in {"LOCK_OK", "DROP_LOCK", "SCHED_ON"} :
              /\ toClient'[d] = Append(toClient[d], x)
              /\ x = "LOCK_OK" => /\ lock_held' /\ requests'[1] = d /\ d \in clients'
                                  /\ ~(lock_held /\ requests[1] = d)
    BY <1>2, <2>1, <2>2 DEF Writes
  <2>4. QED
    BY <2>1, <2>3, WriteChannel DEF Granted
<1>4. {"LOCK_OK", "DROP_LOCK", "SCHED_ON"} \subseteq Messages
  BY DEF Messages
<1>5. ASSUME NEW d \in Conns PROVE NoOff(d)'
  <2>1. NoOff(d)
    BY DEF LInv, AlwaysOn
  <2>2. ~In(toSched'[d], "SCHED_OFF")
    BY <1>0, <2>1, HandleChannels DEF NoOff
  <2>3. ~In(toClient'[d], "SCHED_OFF")
    <3>1. \/ toClient'[d] = toClient[d]
          \/ \E x \in {"LOCK_OK", "DROP_LOCK", "SCHED_ON"} : toClient'[d] = Append(toClient[d], x)
      BY <1>3
    <3>2. \A x \in Messages : In(Append(toClient[d], x), "SCHED_OFF") <=>
                               In(toClient[d], "SCHED_OFF") \/ x = "SCHED_OFF"
      BY <1>3
    <3>3. QED
      BY <1>4, <2>1, <3>1, <3>2 DEF NoOff
  <2>4. QED
    BY <2>2, <2>3 DEF NoOff
<1>6. AlwaysOn'
  BY <1>0, <1>2, <1>5 DEF LInv, AlwaysOn, clientVars
<1>7. ASSUME NEW d \in Clients PROVE (Places(d) /\ Asked(d))'
  <2>1. /\ Places(d) /\ Asked(d) /\ Reads(c, m, d) /\ Queues(c, m, d) /\ d \in Conns
        /\ scheduler_on /\ toSched[d] \in Seq(Messages)
    BY <1>0, SchedFacts DEF LInv, AlwaysOn, HandleStep
  <2>2. /\ Returned(d)' => Returned(d)
        /\ Once(toSched'[d], "LOCK_RELEASED")
        /\ m = "LOCK_RELEASED" /\ c = d => Returned(d) /\ ~Returned(d)'
    <3>1. /\ Returned(d)' => Returned(d)
          /\ Once(toSched'[d], "LOCK_RELEASED")
          /\ m = "LOCK_RELEASED" /\ c = d => Returned(d)
      <4>1. /\ \A x : In(toSched'[d], x) => In(toSched[d], x)
            /\ \A x : Once(toSched[d], x) => Once(toSched'[d], x)
            /\ m # "none" /\ c = d => In(toSched[d], m)
        BY <1>0, <2>1, HandleChannels
      <4>2. Once(toSched[d], "LOCK_RELEASED")
        BY <2>1 DEF Places
      <4>3. QED
        BY <4>1, <4>2 DEF Returned
    <3>2. ASSUME m = "LOCK_RELEASED", c = d PROVE ~In(toSched'[d], "LOCK_RELEASED")
      <4>1. toSched[d] # <<>> /\ Head(toSched[d]) = "LOCK_RELEASED"
        BY <2>1, <3>2 DEF Reads
      <4>2. ~In(Tail(toSched[d]), "LOCK_RELEASED")
        BY <2>1, <4>1, ReadChannel DEF Places
      <4>3. ~In(<<>>, "LOCK_RELEASED")
        BY NewChannel
      <4>4. QED
        BY <2>1, <3>2, <4>2, <4>3 DEF Reads
    <3>3. QED
      BY <3>1, <3>2 DEF Returned
  <2>3. /\ Granted(d) => Granted(d)'
        /\ Granted(d)' /\ ~Granted(d) =>
              lock_held' /\ requests'[1] = d /\ d \in clients /\ ~HasLock(d)
        /\ Once(toClient'[d], "LOCK_OK")
    <3>1. d \in clients' => d \in clients
      BY <2>1 DEF Reads
    <3>2. CASE toClient'[d] = toClient[d]
      BY <2>1, <3>2 DEF Granted, Places
    <3>3. ASSUME NEW x \in {"LOCK_OK", "DROP_LOCK", "SCHED_ON"},
                 toClient'[d] = Append(toClient[d], x),
                 x = "LOCK_OK" => /\ lock_held' /\ requests'[1] = d /\ d \in clients'
                                  /\ ~(lock_held /\ requests[1] = d)
          PROVE  /\ Granted(d) => Granted(d)'
                 /\ Granted(d)' /\ ~Granted(d) =>
                       lock_held' /\ requests'[1] = d /\ d \in clients /\ ~HasLock(d)
                 /\ Once(toClient'[d], "LOCK_OK")
      <4>1. Granted(d)' <=> Granted(d) \/ x = "LOCK_OK"
        BY <1>3, <1>4, <2>1, <3>3 DEF Granted
      <4>2. x = "LOCK_OK" => d \in clients /\ ~HasLock(d)
        BY <2>1, <3>1, <3>3 DEF Places
      <4>3. x = "LOCK_OK" => ~Granted(d)
        BY <4>2 DEF HasLock
      <4>4. Once(toClient'[d], "LOCK_OK")
        BY <1>3, <1>4, <2>1, <3>3, <4>3 DEF Places
      <4>5. QED
        BY <3>3, <4>1, <4>2, <4>4
    <3>4. QED
      BY <1>3, <2>1, <3>2, <3>3
  <2>4. own_lock'[d] = own_lock[d] /\ handler'[d] = handler[d] /\ releaser'[d] = releaser[d]
        /\ need_lock'[d] = need_lock[d] /\ app'[d] = app[d]
    BY <1>0 DEF clientVars
  <2>5. Places(d)'
    <3>1. ASSUME d \in clients', HasLock(d)' PROVE lock_held' /\ requests'[1] = d
      <4>1. CASE Granted(d)' /\ ~Granted(d)
        BY <2>3, <4>1
      <4>2. CASE ~(Granted(d)' /\ ~Granted(d))
        <5>1. HasLock(d) /\ d \in clients
          BY <2>1, <2>2, <2>4, <3>1, <4>2 DEF HasLock, Reads
        <5>2. lock_held /\ requests[1] = d
          BY <2>1, <5>1 DEF Places
        <5>3. ~(m = "LOCK_RELEASED" /\ c = d)
          BY <2>1, <2>2, <2>4, <3>1, <4>2 DEF Places, HasLock
        <5>4. QED
          BY <1>1, <2>1, <3>1, <5>2, <5>3 DEF Queues
      <4>3. QED
        BY <4>1, <4>2
    <3>2. Granted(d)' => ~Returned(d)' /\ ~own_lock'[d] /\ handler'[d] = "recv"
      <4>1. handler[d] \in {"recv", "drop"}
        BY <1>0 DEF NInv, ClientTypeOK
      <4>2. QED
        BY <2>1, <2>2, <2>3, <2>4, <4>1 DEF Places, HasLock
    <3>3. QED
      BY <2>1, <2>2, <2>3, <2>4, <3>1, <3>2 DEF Places
  <2>6. Asked(d)'
    <3>1. ASSUME d \in clients', need_lock[d]
          PROVE  Asks(toSched'[d]) \/ (In(requests', d) /\ ~Returned(d)') \/ Granted(d)'
      <4>1. d \in clients /\ ~(d \in clients \ clients')
        BY <2>1, <3>1 DEF Reads
      <4>2. CASE Asks(toSched[d])
        <5>1. CASE ~(m # "none" /\ c = d)
          <6>1. toSched'[d] = toSched[d]
            BY <2>1, <4>1, <5>1 DEF Reads
          <6>2. QED
            BY <4>2, <6>1
        <5>2. CASE m # "none" /\ c = d
          <6>1. toSched[d] # <<>> /\ Head(toSched[d]) = m /\ toSched'[d] = Tail(toSched[d])
            BY <2>1, <4>1, <5>2 DEF Reads
          <6>2. \/ Asks(toSched'[d])
                \/ m = "REQ_LOCK" /\ ~In(toSched'[d], "LOCK_RELEASED")
            BY <2>1, <4>2, <6>1, ReadChannel
          <6>3. m = "REQ_LOCK" => In(requests', d)
            BY <2>1, <3>1, <5>2 DEF Queues
          <6>4. QED
            BY <6>2, <6>3 DEF Returned
        <5>3. QED
          BY <5>1, <5>2
      <4>3. CASE In(requests, d) /\ ~Returned(d)
        BY <1>1, <2>1, <2>2, <3>1, <4>3 DEF Queues
      <4>4. CASE Granted(d)
        BY <2>3, <4>4
      <4>5. QED
        BY <2>1, <3>1, <4>1, <4>2, <4>3, <4>4 DEF Asked
    <3>2. QED
      BY <2>1, <2>4, <3>1 DEF Asked
  <2>7. QED
    BY <2>5, <2>6
<1>8. QED
  BY <1>6, <1>7

(* A connection leaves the backlog *)
LEMMA AcceptNInv ==
    ASSUME NInv, IInv', NEW c \in Conns, AcceptStep(c)
    PROVE  NInv'
<1>0. /\ IInv /\ Clients \subseteq Conns /\ Ctls \subseteq Conns
      /\ toSched \in [Conns -> Seq(Messages)]
  BY ClientsAssumption, CtlsAssumption, SchedFacts DEF NInv
<1>1. ASSUME NEW d \in Conns
      PROVE  /\ toSched'[d] = toSched[d] \/ (toSched'[d] = <<>> /\ d = c)
             /\ d \in clients' /\ d \notin clients => d = c
             /\ d \in backlog' => d \in backlog /\ d # c
             /\ toClient'[d] = toClient[d] /\ peer'[d] = peer[d]
  BY <1>0 DEF AcceptStep
<1>2. /\ UNCHANGED <<clientVars, commands, requests, lock_held, registered>>
      /\ exited' = exited
  BY DEF AcceptStep
<1>3. ASSUME NEW d \in Clients PROVE Channels(d)'
  <2>1. Channels(d) /\ d \in Conns
    BY <1>0 DEF NInv
  <2>2. /\ toSched'[d] \in Seq(ClientMessages) /\ OnlyFirst(toSched'[d], "REGISTER")
        /\ In(toSched'[d], "REGISTER") => In(toSched[d], "REGISTER")
    <3>1. ~In(<<>>, "REGISTER") /\ OnlyFirst(<<>>, "REGISTER") /\ <<>> \in Seq(ClientMessages)
      BY NewChannel
    <3>2. QED
      BY <1>1, <2>1, <3>1 DEF Channels
  <2>3. QED
    BY <1>1, <1>2, <2>1, <2>2 DEF Channels, clientVars
<1>4. ASSUME NEW d \in Clients PROVE Idle(d)'
  BY <1>2 DEF NInv, Idle, clientVars
<1>5. ASSUME NEW d \in Clients PROVE Context(d)'
  <2>1. In(toSched'[d], "REQ_LOCK") => In(toSched[d], "REQ_LOCK")
    <3>1. ~In(<<>>, "REQ_LOCK")
      BY NewChannel
    <3>2. QED
      BY <1>0, <1>1, <3>1
  <2>2. Context(d) /\ toClient'[d] = toClient[d]
    BY <1>0, <1>1 DEF NInv
  <2>3. QED
    BY <1>2, <2>1, <2>2 DEF Context, InGate, Pending, clientVars
<1>6. ASSUME NEW d \in Clients PROVE Greeted(d)'
  <2>1. d = c => toClient[d] = <<>>
    BY DEF AcceptStep, NInv, Channels
  <2>2. QED
    BY <1>0, <1>1, <1>2, <2>1 DEF NInv, Greeted, clientVars
<1>7. ASSUME NEW d \in Ctls PROVE CtlChannels(d)'
  <2>1. <<>> \in Seq(CtlMessages)
    BY EmptySeq
  <2>2. QED
    BY <1>0, <1>1, <2>1 DEF NInv, CtlChannels
<1>8. ~Stranded(State)'
  BY <1>2 DEF NInv, Stranded, State
<1>9. ClientTypeOK' /\ (commands \in Seq(CtlMessages))'
  BY <1>2 DEF NInv, ClientTypeOK, clientVars
<1>10. QED
  BY <1>3, <1>4, <1>5, <1>6, <1>7, <1>8, <1>9 DEF NInv

LEMMA AcceptLInv ==
    ASSUME LInv, NEW c \in Conns, AcceptStep(c)
    PROVE  AlwaysOn' /\ \A d \in Clients : (Places(d) /\ Asked(d))'
<1>0. /\ NInv /\ IInv /\ Clients \subseteq Conns /\ toSched \in [Conns -> Seq(Messages)]
  BY ClientsAssumption, SchedFacts DEF LInv, NInv
<1>1. ASSUME NEW d \in Conns
      PROVE  /\ toSched'[d] = toSched[d] \/ (toSched'[d] = <<>> /\ d = c /\ clients' = clients)
             /\ d \in clients' /\ d \notin clients => d = c
             /\ toClient'[d] = toClient[d]
  BY <1>0 DEF AcceptStep
<1>2. UNCHANGED <<clientVars, commands, requests, lock_held, registered, scheduler_on>>
  BY DEF AcceptStep
<1>3. AlwaysOn'
  BY <1>1, <1>2, NewChannel DEF LInv, AlwaysOn, NoOff, clientVars
<1>4. ASSUME NEW d \in Clients PROVE (Places(d) /\ Asked(d))'
  <2>1. Places(d) /\ Asked(d)
    BY DEF LInv
  <2>2. CASE d # c
    <3>1. toSched'[d] = toSched[d] /\ toClient'[d] = toClient[d] /\ (d \in clients' => d \in clients)
      BY <1>0, <1>1, <2>2
    <3>2. QED
      BY <1>2, <2>1, <3>1 DEF Places, Asked, HasLock, Granted, Returned, clientVars
  <2>3. CASE d = c
    <3>1. /\ toSched[d] = <<"REGISTER">> /\ toClient[d] = <<>> /\ proc[d] # "up"
          /\ ~own_lock[d] /\ ~need_lock[d] /\ handler[d] = "recv" /\ releaser[d] = "starting"
      BY <2>3 DEF AcceptStep, NInv, LInv, Channels, Idle
    <3>5. /\ ~In(<<>>, "LOCK_OK") /\ Once(<<>>, "LOCK_OK")
          /\ ~In(<<>>, "LOCK_RELEASED") /\ Once(<<>>, "LOCK_RELEASED")
      BY NewChannel
    <3>6. ~In(<<"REGISTER">>, "LOCK_RELEASED") /\ Once(<<"REGISTER">>, "LOCK_RELEASED")
      <4>1. \A m : (In(<<"REGISTER">>, m) <=> "REGISTER" = m) /\ Once(<<"REGISTER">>, m)
        BY NewChannel
      <4>2. QED
        BY <4>1
    <3>7. toClient'[d] = <<>> /\ (toSched'[d] = <<"REGISTER">> \/ toSched'[d] = <<>>)
      BY <1>0, <1>1, <3>1
    <3>2. ~Granted(d)' /\ ~Returned(d)'
      BY <3>5, <3>6, <3>7 DEF Granted, Returned
    <3>3. Once(toClient'[d], "LOCK_OK") /\ Once(toSched'[d], "LOCK_RELEASED")
      BY <3>5, <3>6, <3>7
    <3>4. QED
      BY <1>2, <2>1, <3>1, <3>2, <3>3 DEF Places, Asked, HasLock, clientVars
  <2>4. QED
    BY <2>2, <2>3
<1>5. QED
  BY <1>3, <1>4

(* Nothing changes that the invariants are about *)
LEMMA NoStepNInv ==
    ASSUME NInv, IInv', NoStep
    PROVE  NInv'
<1>1. ~Stranded(State)'
  BY DEF NInv, NoStep, Stranded, State
<1>2. QED
  BY <1>1 DEF NInv, NoStep, ClientTypeOK, Channels, Idle, Context, InGate, Pending, Greeted,
              CtlChannels, clientVars

LEMMA NoStepLInv ==
    ASSUME LInv, NoStep
    PROVE  AlwaysOn' /\ \A d \in Clients : (Places(d) /\ Asked(d))'
BY DEF LInv, NoStep, AlwaysOn, NoOff, Places, Asked, HasLock, Granted, Returned, clientVars

LEMMA SchedNInv ==
    ASSUME NInv, SchedNext, UNCHANGED <<clientVars, commands>>
    PROVE  NInv'
<1>1. IInv'
  BY MainIInv, TimerIInv DEF NInv, SchedNext
<1>2. \/ \E c \in Conns \cup {Lsock}, m \in Messages \cup {"none"} : HandleStep(c, m)
      \/ \E c \in Conns : AcceptStep(c)
      \/ NoStep
  BY SchedSteps DEF NInv
<1>3. QED
  BY <1>1, <1>2, HandleNInv, AcceptNInv, NoStepNInv

LEMMA SchedLInv ==
    ASSUME LInv, SchedNext, UNCHANGED <<clientVars, commands>>
    PROVE  LInv'
<1>1. NInv' /\ IInv'
  BY SchedNInv DEF LInv, NInv
<1>2. \/ \E c \in Conns \cup {Lsock}, m \in Messages \cup {"none"} : HandleStep(c, m)
      \/ \E c \in Conns : AcceptStep(c)
      \/ NoStep
  BY SchedSteps DEF LInv, NInv
<1>3. AlwaysOn' /\ \A d \in Clients : (Places(d) /\ Asked(d))'
  BY <1>1, <1>2, HandleLInv, AcceptLInv, NoStepLInv
<1>4. QED
  BY <1>1, <1>3 DEF LInv

-----------------------------------------------------------------------------
(* Steps of the scheduler's peers *)

(* Only connection c changes *)
Wires(c) ==
    /\ toSched' \in [Conns -> Seq(Messages)] /\ toClient' \in [Conns -> Seq(Messages)]
    /\ peer' \in [Conns -> BOOLEAN] /\ backlog' \in SUBSET Conns
    /\ \A d \in Conns \ {c} :
          /\ toSched'[d] = toSched[d] /\ toClient'[d] = toClient[d] /\ peer'[d] = peer[d]
          /\ d \in backlog' <=> d \in backlog
    /\ UNCHANGED <<clients, exited, schedVars>>

(* Not even that one *)
SameWire(c) ==
    /\ toSched'[c] = toSched[c] /\ toClient'[c] = toClient[c] /\ peer'[c] = peer[c]
    /\ c \in backlog' <=> c \in backlog

LEMMA WiresIInv ==
    ASSUME IInv, NEW c \in Conns, Wires(c)
    PROVE  IInv' /\ (Stranded(State)' <=> Stranded(State))
<1> USE DEF IInv
<1> DEFINE in == toSched'
           out == toClient'
           t == [State EXCEPT !.toSched = in, !.toClient = out]
<1>1. State \in Records /\ in \in [Conns -> Seq(Messages)] /\ out \in [Conns -> Seq(Messages)]
  BY DEF Sound, Wires
<1>2. UNCHANGED <<clients, exited, schedVars>>
  BY DEF Wires
<1>3. Become(t)
  BY <1>2 DEF Become, State, schedVars
<1>4. Stranded(State)' <=> Stranded(State)
  BY <1>2 DEF Stranded, State, schedVars
<1> HIDE DEF in, out
<1>5. Sound(t)
  BY <1>1 DEF Sound, Records, State
<1> HIDE DEF t
<1>6. Sound(State')
  BY <1>3, <1>5, BecomeSound
<1>7. RestOK'
  BY DEF Wires, RestOK, schedVars
<1>8. QED
  BY <1>4, <1>6, <1>7

(* What the calls of comm.c do to connection c *)
LEMMA WriteWires ==
    ASSUME IInv, NEW c \in Conns, NEW m \in Messages, Write(c, m),
           UNCHANGED <<toClient, peer, backlog, clients, exited, schedVars>>
    PROVE  /\ Wires(c)
           /\ toSched'[c] = Append(toSched[c], m) /\ toClient'[c] = toClient[c]
           /\ peer'[c] = peer[c] /\ (c \in backlog' <=> c \in backlog)
           /\ c \in clients \cup backlog
<1>1. /\ toSched \in [Conns -> Seq(Messages)] /\ toClient \in [Conns -> Seq(Messages)]
      /\ peer \in [Conns -> BOOLEAN] /\ backlog \in SUBSET Conns
  BY SchedFacts
<1> DEFINE l == Append(toSched[c], m)
<1>2. l \in Seq(Messages)
  BY <1>1, AppendProperties
<1>3. toSched' = [toSched EXCEPT ![c] = l] /\ c \in clients \cup backlog
  BY DEF Write, CanWrite, ServerOpen
<1> HIDE DEF l
<1>4. /\ toSched' \in [Conns -> Seq(Messages)] /\ toSched'[c] = l
      /\ \A d \in Conns \ {c} : toSched'[d] = toSched[d]
  BY <1>1, <1>2, <1>3
<1>5. QED
  BY <1>1, <1>3, <1>4 DEF Wires, l

LEMMA ReadWires ==
    ASSUME IInv, NEW c \in Conns, NEW m, Read(c, m),
           UNCHANGED <<toSched, peer, backlog, clients, exited, schedVars>>
    PROVE  /\ Wires(c)
           /\ toClient[c] # <<>> /\ m = Head(toClient[c])
           /\ toClient'[c] = Tail(toClient[c]) /\ toSched'[c] = toSched[c]
           /\ peer'[c] = peer[c] /\ (c \in backlog' <=> c \in backlog)
<1>1. /\ toSched \in [Conns -> Seq(Messages)] /\ toClient \in [Conns -> Seq(Messages)]
      /\ peer \in [Conns -> BOOLEAN] /\ backlog \in SUBSET Conns
  BY SchedFacts
<1> DEFINE l == Tail(toClient[c])
<1>2. toClient[c] # <<>> /\ m = Head(toClient[c]) /\ toClient' = [toClient EXCEPT ![c] = l]
  BY DEF Read
<1>3. l \in Seq(Messages)
  BY <1>1, <1>2, ReadChannel
<1> HIDE DEF l
<1>4. /\ toClient' \in [Conns -> Seq(Messages)] /\ toClient'[c] = l
      /\ \A d \in Conns \ {c} : toClient'[d] = toClient[d]
  BY <1>1, <1>2, <1>3
<1>5. QED
  BY <1>1, <1>2, <1>4 DEF Wires, l

LEMMA ConnectWires ==
    ASSUME IInv, NEW c \in Conns, NEW first \in Seq(Messages), NEW stays \in BOOLEAN,
           Connect(c, first, stays), UNCHANGED schedVars
    PROVE  /\ Wires(c)
           /\ toSched'[c] = first /\ toClient'[c] = <<>> /\ peer'[c] = stays
           /\ c \notin clients
<1>1. /\ toSched \in [Conns -> Seq(Messages)] /\ toClient \in [Conns -> Seq(Messages)]
      /\ peer \in [Conns -> BOOLEAN] /\ backlog \in SUBSET Conns
  BY SchedFacts
<1>2. <<>> \in Seq(Messages)
  BY EmptySeq
<1>3. /\ toSched' \in [Conns -> Seq(Messages)] /\ toSched'[c] = first
      /\ \A d \in Conns \ {c} : toSched'[d] = toSched[d]
  BY <1>1 DEF Connect
<1>4. /\ toClient' \in [Conns -> Seq(Messages)] /\ toClient'[c] = <<>>
      /\ \A d \in Conns \ {c} : toClient'[d] = toClient[d]
  BY <1>1, <1>2 DEF Connect
<1>5. /\ peer' \in [Conns -> BOOLEAN] /\ peer'[c] = stays
      /\ \A d \in Conns \ {c} : peer'[d] = peer[d]
  BY <1>1 DEF Connect
<1>6. QED
  BY <1>1, <1>3, <1>4, <1>5 DEF Wires, Connect, Free

LEMMA CloseWires ==
    ASSUME IInv, NEW c \in Conns, Close(c), UNCHANGED schedVars
    PROVE  /\ Wires(c)
           /\ toSched'[c] = toSched[c] /\ toClient'[c] = <<>> /\ peer'[c] = FALSE
           /\ (c \in backlog' <=> c \in backlog)
<1>1. /\ toSched \in [Conns -> Seq(Messages)] /\ toClient \in [Conns -> Seq(Messages)]
      /\ peer \in [Conns -> BOOLEAN] /\ backlog \in SUBSET Conns
  BY SchedFacts
<1>2. <<>> \in Seq(Messages)
  BY EmptySeq
<1>3. /\ toClient' \in [Conns -> Seq(Messages)] /\ toClient'[c] = <<>>
      /\ \A d \in Conns \ {c} : toClient'[d] = toClient[d]
  BY <1>1, <1>2 DEF Close
<1>4. /\ peer' \in [Conns -> BOOLEAN] /\ peer'[c] = FALSE
      /\ \A d \in Conns \ {c} : peer'[d] = peer[d]
  BY <1>1 DEF Close
<1>5. QED
  BY <1>1, <1>3, <1>4 DEF Wires, Close

LEMMA SameWires ==
    ASSUME IInv, NEW c \in Conns,
           UNCHANGED <<toSched, toClient, peer, backlog, clients, exited, schedVars>>
    PROVE  Wires(c) /\ SameWire(c)
BY SchedFacts DEF Wires, SameWire

(* Only process c changes *)
Others(c) ==
    \A d \in Clients \ {c} :
        /\ proc'[d] = proc[d] /\ status_on'[d] = status_on[d] /\ own_lock'[d] = own_lock[d]
        /\ need_lock'[d] = need_lock[d] /\ cuda_ctx_ok'[d] = cuda_ctx_ok[d]
        /\ handler'[d] = handler[d] /\ releaser'[d] = releaser[d] /\ app'[d] = app[d]

LEMMA OthersKept ==
    ASSUME NInv, NEW c \in Conns, Wires(c), Others(c), NEW d \in Clients, d # c
    PROVE  /\ (Channels(d) /\ Idle(d) /\ Context(d) /\ Greeted(d))'
           /\ Places(d) /\ Asked(d) => (Places(d) /\ Asked(d))'
<1>1. /\ toSched'[d] = toSched[d] /\ toClient'[d] = toClient[d] /\ peer'[d] = peer[d]
      /\ d \in backlog' <=> d \in backlog
      /\ UNCHANGED <<clients, registered, requests, lock_held>>
  BY ClientsAssumption DEF Wires, schedVars
<1>2. /\ proc'[d] = proc[d] /\ status_on'[d] = status_on[d] /\ own_lock'[d] = own_lock[d]
      /\ need_lock'[d] = need_lock[d] /\ cuda_ctx_ok'[d] = cuda_ctx_ok[d]
      /\ handler'[d] = handler[d] /\ releaser'[d] = releaser[d] /\ app'[d] = app[d]
  BY DEF Others
<1>3. Channels(d) /\ Idle(d) /\ Context(d) /\ Greeted(d)
  BY DEF NInv
<1>4. Channels(d)'
  BY <1>1, <1>2, <1>3 DEF Channels
<1>5. Idle(d)'
  BY <1>2, <1>3 DEF Idle
<1>6. Context(d)'
  BY <1>1, <1>2, <1>3 DEF Context, InGate, Pending
<1>7. Greeted(d)'
  BY <1>1, <1>2, <1>3 DEF Greeted
<1>8. Places(d) => Places(d)'
  BY <1>1, <1>2 DEF Places, HasLock, Granted, Returned
<1>9. Asked(d) => Asked(d)'
  BY <1>1, <1>2 DEF Asked, Granted, Returned
<1>10. QED
  BY <1>4, <1>5, <1>6, <1>7, <1>8, <1>9

(* The steps of a process that touch no channel *)
Quiet(c) ==
    /\ SameWire(c)
    /\ proc'[c] = proc[c] /\ status_on'[c] = status_on[c] /\ own_lock'[c] = own_lock[c]
    /\ need_lock'[c] = need_lock[c] /\ handler'[c] = handler[c]
    /\ \/ cuda_ctx_ok'[c]
       \/ /\ cuda_ctx_ok'[c] = cuda_ctx_ok[c]
          /\ \A t \in Threads : app'[c][t] # "out" => app[c][t] # "out"
    /\ \A t \in Threads : app'[c][t] = "waiting" => app[c][t] = "waiting" \/ need_lock[c]
    /\ \/ releaser'[c] # "sync" \/ releaser[c] = "sync"
       \/ own_lock[c] /\ status_on[c] /\ handler[c] = "recv"
    /\ \/ proc[c] = "up"
       \/ cuda_ctx_ok'[c] = cuda_ctx_ok[c] /\ app'[c] = app[c] /\ releaser'[c] = releaser[c]

(* A thread asks for the lock *)
Ask(c) ==
    /\ toSched'[c] = Append(toSched[c], "REQ_LOCK") /\ toClient'[c] = toClient[c]
    /\ peer'[c] = peer[c] /\ (c \in backlog' <=> c \in backlog)
    /\ c \in clients \cup backlog
    /\ proc[c] = "up" /\ proc'[c] = "up" /\ status_on'[c] = status_on[c]
    /\ ~own_lock[c] /\ ~own_lock'[c] /\ ~need_lock[c] /\ need_lock'[c] /\ cuda_ctx_ok'[c]
    /\ handler[c] = "recv" /\ handler'[c] = "recv" /\ releaser'[c] = releaser[c]

(* The lock is given back, by the client thread or the releaser *)
Release(c) ==
    /\ toSched'[c] = Append(toSched[c], "LOCK_RELEASED") /\ toClient'[c] = toClient[c]
    /\ peer'[c] = peer[c] /\ (c \in backlog' <=> c \in backlog)
    /\ c \in clients \cup backlog
    /\ proc[c] = "up" /\ proc'[c] = "up" /\ status_on'[c] = status_on[c]
    /\ need_lock'[c] = need_lock[c] /\ cuda_ctx_ok'[c] = cuda_ctx_ok[c]
    /\ app'[c] = app[c]
    /\ \/ /\ handler[c] = "drop" /\ handler'[c] = "recv"
          /\ own_lock'[c] = own_lock[c] /\ releaser'[c] = releaser[c]
       \/ /\ releaser[c] = "sync" \/ (own_lock[c] /\ status_on[c] /\ handler[c] = "recv")
          /\ ~own_lock'[c] /\ releaser'[c] # "sync" /\ handler'[c] = handler[c]

KindOf(c) ==
    \/ Quiet(c) \/ Ask(c) \/ Release(c) \/ Start(c) \/ (proc[c] # "down" /\ Gone(c))
    \/ InitialStatus(c) \/ OnLockOk(c) \/ OnDropLock(c) \/ OnSchedOn(c) \/ OnSchedOff(c)

(* Every action of a process is of one of these kinds and leaves the other   *)
(* processes alone.                                                          *)
LEMMA GateKinds ==
    ASSUME NInv, NEW c \in Clients, AppNext(c) \/ GpuDone(c), UNCHANGED schedVars
    PROVE  Wires(c) /\ ClientTypeOK' /\ Others(c) /\ (Quiet(c) \/ Ask(c))
<1>0. IInv /\ ClientTypeOK /\ c \in Conns /\ Idle(c) /\ Context(c)
  BY ClientsAssumption DEF NInv
<1> USE DEF commVars
<1>1. CASE GpuDone(c)
  <2>1. Wires(c) /\ SameWire(c)
    BY <1>0, <1>1, SameWires DEF GpuDone
  <2>2. ClientTypeOK'
    BY <1>0, <1>1 DEF GpuDone, ClientTypeOK
  <2>3. Others(c) /\ Quiet(c)
    BY <1>1, <2>1 DEF GpuDone, Others, Quiet
  <2>4. QED
    BY <2>1, <2>2, <2>3
<1>2. ASSUME NEW t \in Threads, SpuriousWake(c, t) \/ Submit(c, t)
      PROVE  Wires(c) /\ ClientTypeOK' /\ Others(c) /\ Quiet(c)
  <2>1. Wires(c) /\ SameWire(c)
    BY <1>0, <1>2, SameWires DEF SpuriousWake, Submit
  <2>2. ClientTypeOK'
    <3>1. CASE SpuriousWake(c, t)
      BY <1>0, <3>1 DEF SpuriousWake, ClientTypeOK
    <3>2. CASE Submit(c, t)
      BY <1>0, <3>2 DEF Submit, ClientTypeOK
    <3>3. QED
      BY <1>2, <3>1, <3>2
  <2>3. Others(c)
    BY <1>0, <1>2 DEF SpuriousWake, Submit, Others, ClientTypeOK
  <2>4. proc[c] = "up" /\ app[c][t] # "out"
    BY <1>0, <1>2 DEF SpuriousWake, Submit, Idle
  <2>5. \A u \in Threads : /\ app'[c][u] # "out" => app[c][u] # "out"
                           /\ app'[c][u] = "waiting" => app[c][u] = "waiting"
    BY <1>0, <1>2, <2>4 DEF SpuriousWake, Submit, ClientTypeOK
  <2>6. Quiet(c)
    BY <1>2, <2>1, <2>4, <2>5 DEF SpuriousWake, Submit, Quiet
  <2>7. QED
    BY <2>1, <2>2, <2>3, <2>6
<1>3. ASSUME NEW t \in Threads, continue_with_lock(c, t) \/ WakeUp(c, t)
      PROVE  Wires(c) /\ ClientTypeOK' /\ Others(c) /\ (Quiet(c) \/ Ask(c))
  <2>1. /\ proc[c] = "up" /\ handler[c] = "recv" /\ releaser[c] # "sync"
        /\ UNCHANGED <<toClient, peer, backlog, clients, exited, proc, status_on,
                       own_lock, nvml_ok, handler, gpu_busy>>
        /\ PassOrWait(c, t)
    BY <1>3 DEF continue_with_lock, WakeUp, InLockGate, MutexFreeIn
  <2>2. /\ cuda_ctx_ok'[c] /\ cuda_ctx_ok' \in [Clients -> BOOLEAN]
        /\ \A d \in Clients \ {c} : cuda_ctx_ok'[d] = cuda_ctx_ok[d]
    <3>1. CASE continue_with_lock(c, t)
      BY <1>0, <3>1 DEF continue_with_lock, ClientTypeOK
    <3>2. CASE WakeUp(c, t)
      BY <1>0, <3>2 DEF WakeUp, ClientTypeOK, Context, InGate
    <3>3. QED
      BY <1>3, <3>1, <3>2
  <2>3. CASE own_lock[c]
    <3>1. /\ did_work' = [did_work EXCEPT ![c] = TRUE] /\ WakeReleaser(c)
          /\ app' = [app EXCEPT ![c][t] = "cleared"] /\ UNCHANGED <<toSched, need_lock>>
      BY <2>1, <2>3 DEF PassOrWait
    <3>2. Wires(c) /\ SameWire(c)
      BY <1>0, <2>1, <3>1, SameWires
    <3>3. ClientTypeOK'
      BY <1>0, <2>1, <2>2, <3>1 DEF ClientTypeOK, WakeReleaser
    <3>4. Others(c)
      BY <1>0, <2>1, <2>2, <3>1 DEF ClientTypeOK, WakeReleaser, Others
    <3>5. releaser'[c] # "sync"
      BY <1>0, <2>1, <3>1 DEF ClientTypeOK, WakeReleaser
    <3>6. \A u \in Threads : app'[c][u] = "waiting" => app[c][u] = "waiting"
      BY <1>0, <3>1 DEF ClientTypeOK
    <3>7. Quiet(c)
      BY <2>1, <2>2, <3>1, <3>2, <3>5, <3>6 DEF Quiet
    <3>8. QED
      BY <3>2, <3>3, <3>4, <3>7
  <2>4. CASE ~own_lock[c]
    <3>1. /\ app' = [app EXCEPT ![c][t] = "waiting"] /\ UNCHANGED <<did_work, releaser>>
          /\ IF need_lock[c]
             THEN UNCHANGED <<toSched, need_lock>>
             ELSE need_lock' = [need_lock EXCEPT ![c] = TRUE] /\ Write(c, "REQ_LOCK")
      BY <2>1, <2>4 DEF PassOrWait
    <3>2. ClientTypeOK'
      BY <1>0, <2>1, <2>2, <3>1 DEF ClientTypeOK
    <3>3. Others(c)
      BY <1>0, <2>1, <2>2, <3>1 DEF ClientTypeOK, Others
    <3>4. CASE need_lock[c]
      <4>1. Wires(c) /\ SameWire(c)
        BY <1>0, <2>1, <3>1, <3>4, SameWires
      <4>2. Quiet(c)
        BY <2>1, <2>2, <3>1, <3>4, <4>1 DEF Quiet
      <4>3. QED
        BY <3>2, <3>3, <4>1, <4>2
    <3>5. CASE ~need_lock[c]
      <4>1. "REQ_LOCK" \in Messages
        BY DEF Messages
      <4>2. /\ Wires(c)
            /\ toSched'[c] = Append(toSched[c], "REQ_LOCK") /\ toClient'[c] = toClient[c]
            /\ peer'[c] = peer[c] /\ (c \in backlog' <=> c \in backlog)
            /\ c \in clients \cup backlog
        BY <1>0, <2>1, <3>1, <3>5, <4>1, WriteWires
      <4>3. need_lock'[c]
        BY <1>0, <3>1, <3>5 DEF ClientTypeOK
      <4>4. Ask(c)
        BY <2>1, <2>2, <2>4, <3>1, <3>5, <4>2, <4>3 DEF Ask
      <4>5. QED
        BY <3>2, <3>3, <4>2, <4>4
    <3>6. QED
      BY <3>4, <3>5
  <2>5. QED
    BY <2>3, <2>4
<1>4. QED
  BY <1>1, <1>2, <1>3 DEF AppNext

LEMMA ReleaserKinds ==
    ASSUME NInv, NEW c \in Clients, ReleaserNext(c), UNCHANGED schedVars
    PROVE  Wires(c) /\ ClientTypeOK' /\ Others(c) /\ (Quiet(c) \/ Release(c))
<1>0. IInv /\ ClientTypeOK /\ c \in Conns
  BY ClientsAssumption DEF NInv
<1>1. /\ proc[c] = "up"
      /\ UNCHANGED <<toClient, peer, backlog, clients, exited, proc, status_on, need_lock,
                     cuda_ctx_ok, handler, app, gpu_busy>>
  BY DEF ReleaserNext, ReleaserStart, ReleaserDeadline, ReleaserSignaled, ReleaserNotIdle,
         ReleaserNvml, ReleaserFallback, ReleaserSynced, ReleaserStep
<1> DEFINE Waits ==
             /\ UNCHANGED <<toSched, own_lock>>
             /\ \E w \in BOOLEAN : did_work' = [did_work EXCEPT ![c] = w]
             /\ nvml_ok' = [nvml_ok EXCEPT ![c] = FALSE] \/ UNCHANGED nvml_ok
             /\ \E r \in {"waiting", "timedout", "sync"} :
                   /\ releaser' = [releaser EXCEPT ![c] = r]
                   /\ r = "sync" => own_lock[c] /\ status_on[c] /\ handler[c] = "recv"
           Frees ==
             /\ ReleaseEarly(c)
             /\ UNCHANGED nvml_ok
             /\ releaser[c] = "sync" \/ (own_lock[c] /\ status_on[c] /\ handler[c] = "recv")
<1>2. Waits \/ Frees
  <2>0. did_work = [did_work EXCEPT ![c] = did_work[c]] /\ did_work[c] \in BOOLEAN
    BY <1>0 DEF ClientTypeOK
  <2>1. CASE ReleaserStart(c) \/ ReleaserSignaled(c) \/ ReleaserNotIdle(c)
    BY <2>1 DEF ReleaserStart, ReleaserSignaled, ReleaserNotIdle, ReleaserWaits
  <2>2. CASE ReleaserDeadline(c)
    BY <2>0, <2>2 DEF ReleaserDeadline
  <2>3. CASE ReleaserFallback(c)
    BY <2>0, <2>3 DEF ReleaserFallback, MutexFreeIn, NotIdle
  <2>4. CASE ReleaserNvml(c)
    BY <2>4 DEF ReleaserNvml, ReleaserWaits, MutexFreeIn, NotIdle
  <2>5. CASE ReleaserSynced(c)
    BY <2>5 DEF ReleaserSynced, ReleaserStep, ReleaserWaits
  <2>6. QED
    BY <2>1, <2>2, <2>3, <2>4, <2>5 DEF ReleaserNext
<1>3. CASE Waits
  <2>1. Wires(c) /\ SameWire(c)
    BY <1>0, <1>1, <1>3, SameWires
  <2>2. PICK w \in BOOLEAN : did_work' = [did_work EXCEPT ![c] = w]
    BY <1>3
  <2>3. PICK r \in {"waiting", "timedout", "sync"} :
           /\ releaser' = [releaser EXCEPT ![c] = r]
           /\ r = "sync" => own_lock[c] /\ status_on[c] /\ handler[c] = "recv"
    BY <1>3
  <2>4. ClientTypeOK'
    BY <1>0, <1>1, <1>3, <2>2, <2>3 DEF ClientTypeOK
  <2>5. Others(c) /\ releaser'[c] = r
    BY <1>0, <1>1, <1>3, <2>3 DEF ClientTypeOK, Others
  <2>6. Quiet(c)
    BY <1>1, <1>3, <2>1, <2>3, <2>5 DEF Quiet
  <2>7. QED
    BY <2>1, <2>4, <2>5, <2>6
<1>4. CASE Frees
  <2>1. /\ Write(c, "LOCK_RELEASED") /\ own_lock' = [own_lock EXCEPT ![c] = FALSE]
        /\ did_work' = [did_work EXCEPT ![c] = FALSE]
        /\ releaser' = [releaser EXCEPT ![c] = "waiting"] /\ UNCHANGED nvml_ok
        /\ releaser[c] = "sync" \/ (own_lock[c] /\ status_on[c] /\ handler[c] = "recv")
    BY <1>4 DEF ReleaseEarly, ReleaserWaits
  <2>2. "LOCK_RELEASED" \in Messages
    BY DEF Messages
  <2>3. /\ Wires(c)
        /\ toSched'[c] = Append(toSched[c], "LOCK_RELEASED") /\ toClient'[c] = toClient[c]
        /\ peer'[c] = peer[c] /\ (c \in backlog' <=> c \in backlog)
        /\ c \in clients \cup backlog
    BY <1>0, <1>1, <2>1, <2>2, WriteWires
  <2>4. ClientTypeOK'
    BY <1>0, <1>1, <2>1 DEF ClientTypeOK
  <2>5. Others(c) /\ releaser'[c] = "waiting" /\ own_lock'[c] = FALSE
    BY <1>0, <1>1, <2>1 DEF ClientTypeOK, Others
  <2>6. Release(c)
    BY <1>1, <2>1, <2>3, <2>5 DEF Release
  <2>7. QED
    BY <2>3, <2>4, <2>5, <2>6
<1>5. QED
  BY <1>2, <1>3, <1>4

LEMMA HandlerKinds ==
    ASSUME NInv, NEW c \in Clients, UNCHANGED schedVars,
           Start(c) \/ HandlerNext(c) \/ Crash(c)
    PROVE  Wires(c) /\ ClientTypeOK' /\ Others(c) /\ KindOf(c)
<1>0. IInv /\ ClientTypeOK /\ c \in Conns /\ Idle(c)
  BY ClientsAssumption DEF NInv
<1>1. CASE Start(c)
  <2>1. <<"REGISTER">> \in Seq(Messages)
    BY NewChannel DEF Messages
  <2>2. Wires(c)
    BY <1>0, <1>1, <2>1, ConnectWires DEF Start
  <2>3. ClientTypeOK' /\ Others(c)
    BY <1>0, <1>1 DEF Start, ClientTypeOK, Others
  <2>4. QED
    BY <1>1, <2>2, <2>3 DEF KindOf
<1>2. CASE DropDone(c)
  <2>1. "LOCK_RELEASED" \in Messages
    BY DEF Messages
  <2>2. /\ Wires(c)
        /\ toSched'[c] = Append(toSched[c], "LOCK_RELEASED") /\ toClient'[c] = toClient[c]
        /\ peer'[c] = peer[c] /\ (c \in backlog' <=> c \in backlog)
        /\ c \in clients \cup backlog
    BY <1>0, <1>2, <2>1, WriteWires DEF DropDone
  <2>3. ClientTypeOK' /\ Others(c) /\ handler'[c] = "recv"
    BY <1>0, <1>2 DEF DropDone, ClientTypeOK, Others
  <2>4. proc[c] = "up"
    BY <1>0, <1>2 DEF DropDone, Idle
  <2>5. Release(c)
    BY <1>2, <2>2, <2>3, <2>4 DEF DropDone, Release
  <2>6. QED
    BY <2>2, <2>3, <2>5 DEF KindOf
<1>3. CASE Crash(c) \/ LoseScheduler(c)
  <2>1. proc[c] # "down" /\ Gone(c)
    BY <1>0, <1>3 DEF Crash, LoseScheduler, Idle, Eof, NInv, Channels
  <2>2. Wires(c)
    BY <1>0, <2>1, CloseWires DEF Gone
  <2>3. ClientTypeOK'
    BY <1>0, <2>1, FlagsAssumption DEF Gone, ClientTypeOK
  <2>4. Others(c)
    BY <1>0, <2>1 DEF Gone, ClientTypeOK, Others
  <2>5. QED
    BY <2>1, <2>2, <2>3, <2>4 DEF KindOf
<1>4. CASE InitialStatus(c)
  <2>1. PICK m \in {"SCHED_ON", "SCHED_OFF"} :
          /\ Read(c, m)
          /\ status_on' = [status_on EXCEPT ![c] = (m = "SCHED_ON")]
          /\ own_lock' = [own_lock EXCEPT ![c] = (m = "SCHED_OFF")]
    BY <1>4 DEF InitialStatus
  <2>2. Wires(c)
    BY <1>0, <1>4, <2>1, ReadWires DEF InitialStatus
  <2>3. ClientTypeOK'
    BY <1>0, <1>4, <2>1 DEF InitialStatus, ClientTypeOK
  <2>4. Others(c)
    BY <1>0, <1>4, <2>1 DEF InitialStatus, ClientTypeOK, Others
  <2>5. QED
    BY <1>4, <2>2, <2>3, <2>4 DEF KindOf
<1>5. ASSUME NEW m, Receive(c, m) PROVE Wires(c)
  BY <1>0, <1>5, ReadWires DEF Receive
<1>6. CASE OnLockOk(c)
  <2>1. ClientTypeOK'
    BY <1>0, <1>6 DEF OnLockOk, Receive, WakeApp, WakeReleaser, ClientTypeOK
  <2>2. Others(c)
    BY <1>0, <1>6 DEF OnLockOk, Receive, WakeApp, WakeReleaser, ClientTypeOK, Others
  <2>3. QED
    BY <1>5, <1>6, <2>1, <2>2 DEF OnLockOk, KindOf
<1>7. CASE OnDropLock(c)
  <2>1. ClientTypeOK' /\ Others(c)
    BY <1>0, <1>7 DEF OnDropLock, Receive, ClientTypeOK, Others
  <2>2. QED
    BY <1>5, <1>7, <2>1 DEF OnDropLock, KindOf
<1>8. CASE OnSchedOn(c)
  <2>1. ClientTypeOK' /\ Others(c)
    BY <1>0, <1>8 DEF OnSchedOn, Receive, ClientTypeOK, Others
  <2>2. QED
    BY <1>5, <1>8, <2>1 DEF OnSchedOn, KindOf
<1>9. CASE OnSchedOff(c)
  <2>1. /\ status_on' = [status_on EXCEPT ![c] = FALSE]
        /\ UNCHANGED <<proc, did_work, nvml_ok, cuda_ctx_ok, handler, releaser, gpu_busy>>
    BY <1>9 DEF OnSchedOff, Receive
  <2>0. Wires(c) /\ KindOf(c)
    BY <1>5, <1>9 DEF OnSchedOff, KindOf
  <2>2. CASE status_on[c]
    <3>1. /\ own_lock' = [own_lock EXCEPT ![c] = TRUE]
          /\ need_lock' = [need_lock EXCEPT ![c] = FALSE] /\ WakeApp(c)
      BY <1>9, <2>2 DEF OnSchedOff
    <3>2. ClientTypeOK'
      BY <1>0, <2>1, <3>1 DEF WakeApp, ClientTypeOK
    <3>3. Others(c)
      BY <1>0, <2>1, <3>1 DEF WakeApp, ClientTypeOK, Others
    <3>4. QED
      BY <2>0, <3>2, <3>3
  <2>3. CASE ~status_on[c]
    <3>1. UNCHANGED <<own_lock, need_lock, app>>
      BY <1>9, <2>3 DEF OnSchedOff
    <3>2. QED
      BY <1>0, <2>0, <2>1, <3>1 DEF ClientTypeOK, Others
  <2>4. QED
    BY <2>2, <2>3
<1>10. QED
  BY <1>1, <1>2, <1>3, <1>4, <1>6, <1>7, <1>8, <1>9 DEF HandlerNext

LEMMA ClientKinds ==
    ASSUME NInv, NEW c \in Clients, ClientAction(c)
    PROVE  Wires(c) /\ ClientTypeOK' /\ Others(c) /\ KindOf(c) /\ commands' = commands
BY GateKinds, ReleaserKinds, HandlerKinds DEF ClientAction, KindOf

(* One step of process c keeps what NInv says of it *)
LEMMA OwnNInv ==
    ASSUME NInv, NEW c \in Clients, Wires(c), KindOf(c)
    PROVE  (Channels(c) /\ Idle(c) /\ Context(c) /\ Greeted(c))'
<1>0. /\ IInv /\ c \in Conns /\ ClientTypeOK
      /\ Channels(c) /\ Idle(c) /\ Context(c) /\ Greeted(c)
      /\ toSched[c] \in Seq(ClientMessages) /\ toClient[c] \in Seq(Messages)
      /\ {"REQ_LOCK", "LOCK_RELEASED"} \subseteq ClientMessages
  BY ClientsAssumption, SchedFacts DEF NInv, Channels, ClientMessages
<1>1. UNCHANGED <<clients, registered, requests, lock_held, schedVars>>
  BY DEF Wires, schedVars
<1>2. CASE Quiet(c)
  <2>1. Channels(c)' /\ Greeted(c)'
    BY <1>0, <1>1, <1>2 DEF Quiet, SameWire, Channels, Greeted
  <2>2. Idle(c)'
    BY <1>0, <1>2 DEF Quiet, Idle
  <2>3. Context(c)'
    <3>1. CASE cuda_ctx_ok'[c]
      BY <3>1 DEF Context
    <3>2. CASE ~cuda_ctx_ok'[c]
      <4>1. /\ cuda_ctx_ok'[c] = cuda_ctx_ok[c]
            /\ \A t \in Threads : app'[c][t] # "out" => app[c][t] # "out"
        BY <1>2, <3>2 DEF Quiet
      <4>2. InGate(c)' => InGate(c)
        BY <1>2, <4>1 DEF Quiet, InGate
      <4>3. Pending(c)' => Pending(c)
        BY <1>1, <1>2 DEF Quiet, SameWire, Pending
      <4>4. QED
        BY <1>0, <4>1, <4>2, <4>3 DEF Context
    <3>3. QED
      BY <3>1, <3>2
  <2>4. QED
    BY <2>1, <2>2, <2>3
<1>3. ASSUME NEW m \in {"REQ_LOCK", "LOCK_RELEASED"}, toSched'[c] = Append(toSched[c], m),
             toClient'[c] = toClient[c],
             peer'[c] = peer[c], c \in backlog' <=> c \in backlog,
             proc[c] = "up", proc'[c] = "up"
      PROVE  /\ Channels(c)' /\ Greeted(c)' /\ Idle(c)'
             /\ In(toSched'[c], "REQ_LOCK") => In(toSched[c], "REQ_LOCK") \/ m = "REQ_LOCK"
  <2>1. /\ toSched'[c] \in Seq(ClientMessages)
        /\ OnlyFirst(toSched'[c], "REGISTER")
        /\ In(toSched'[c], "REGISTER") => In(toSched[c], "REGISTER")
        /\ In(toSched'[c], "REQ_LOCK") => In(toSched[c], "REQ_LOCK") \/ m = "REQ_LOCK"
    <3>1. m \in ClientMessages /\ m # "REGISTER"
      BY <1>0, <1>3
    <3>2. OnlyFirst(toSched[c], "REGISTER")
      BY <1>0 DEF Channels
    <3>3. /\ \A x : In(Append(toSched[c], m), x) <=> In(toSched[c], x) \/ x = m
          /\ \A x : OnlyFirst(toSched[c], x) /\ m # x => OnlyFirst(Append(toSched[c], m), x)
          /\ Append(toSched[c], m) \in Seq(ClientMessages)
      BY <1>0, <3>1, WriteChannel
    <3>4. QED
      BY <1>3, <3>1, <3>2, <3>3
  <2>2. c \notin backlog
    BY <1>0, <1>3 DEF Channels
  <2>3. QED
    BY <1>0, <1>1, <1>3, <2>1, <2>2 DEF Channels, Greeted, Idle
<1>4. CASE Ask(c)
  BY <1>3, <1>4 DEF Ask, Context
<1>5. CASE Release(c)
  <2>1. Channels(c)' /\ Greeted(c)' /\ Idle(c)'
    BY <1>3, <1>5 DEF Release
  <2>2. In(toSched'[c], "REQ_LOCK") => In(toSched[c], "REQ_LOCK")
    BY <1>3, <1>5 DEF Release
  <2>3. InGate(c)' => InGate(c)
    BY <1>5 DEF Release, InGate
  <2>4. Pending(c)' => Pending(c)
    BY <1>1, <1>5, <2>2 DEF Release, Pending
  <2>5. QED
    BY <1>0, <1>5, <2>1, <2>3, <2>4 DEF Release, Context
<1>6. CASE Start(c)
  <2>1. <<"REGISTER">> \in Seq(ClientMessages) /\ <<"REGISTER">> \in Seq(Messages)
    BY NewChannel DEF ClientMessages, Messages
  <2>2. /\ toSched'[c] = <<"REGISTER">> /\ toClient'[c] = <<>> /\ peer'[c] = TRUE
        /\ c \notin clients
    BY <1>0, <1>1, <1>6, <2>1, ConnectWires DEF Start
  <2>3. /\ OnlyFirst(<<"REGISTER">>, "REGISTER") /\ ~In(<<"REGISTER">>, "REQ_LOCK")
        /\ ~In(<<>>, "LOCK_OK") /\ ~In(<<>>, "DROP_LOCK")
    <3>1. \A m : (In(<<"REGISTER">>, m) <=> "REGISTER" = m) /\ OnlyFirst(<<"REGISTER">>, m)
      BY NewChannel
    <3>2. QED
      BY <3>1, NewChannel
  <2>4. proc[c] = "down" /\ proc'[c] = "boot"
    BY <1>0, <1>6 DEF Start, ClientTypeOK
  <2>5. c \notin registered /\ ~In(requests, c)
    BY <1>0, <2>2, SchedFacts
  <2>6. Channels(c)' /\ Greeted(c)'
    BY <1>1, <2>1, <2>2, <2>3, <2>4, <2>5 DEF Channels, Greeted
  <2>7. Idle(c)'
    BY <1>0, <1>6, <2>4 DEF Idle, Start
  <2>8. ~Pending(c)'
    BY <1>1, <2>2, <2>3, <2>5 DEF Pending
  <2>9. InGate(c)' => InGate(c)
    BY <1>6 DEF Start, InGate
  <2>10. Context(c)'
    BY <1>0, <1>6, <2>8, <2>9 DEF Context, Start
  <2>11. QED
    BY <2>6, <2>7, <2>10
<1>7. CASE proc[c] # "down" /\ Gone(c)
  <2>1. /\ toSched'[c] = toSched[c] /\ toClient'[c] = <<>> /\ peer'[c] = FALSE
        /\ (c \in backlog' <=> c \in backlog)
    BY <1>0, <1>1, <1>7, CloseWires DEF Gone
  <2>2. /\ proc'[c] = "down" /\ ~own_lock'[c] /\ ~need_lock'[c] /\ ~cuda_ctx_ok'[c]
        /\ handler'[c] = "recv" /\ releaser'[c] = "starting"
        /\ \A t \in Threads : app'[c][t] = "out"
    BY <1>0, <1>7 DEF Gone, ClientTypeOK
  <2>3. QED
    BY <1>0, <1>1, <2>1, <2>2 DEF Channels, Greeted, Idle, Context, InGate, Pending
<1>8. ASSUME NEW m, Read(c, m), UNCHANGED <<toSched, peer, backlog, clients, exited>>,
             proc'[c] = "up", proc[c] # "down"
      PROVE  /\ (Channels(c) /\ Greeted(c) /\ Idle(c))'
             /\ Pending(c)' => Pending(c)
             /\ m \in {"LOCK_OK", "DROP_LOCK"} => cuda_ctx_ok[c]
  <2>1. /\ toClient[c] # <<>> /\ m = Head(toClient[c])
        /\ toClient'[c] = Tail(toClient[c]) /\ toSched'[c] = toSched[c]
    BY <1>0, <1>1, <1>8, ReadWires
  <2>2. \A x : In(toClient[c], x) <=> In(toClient'[c], x) \/ x = m
    <3>1. \A x : In(toClient[c], x) <=> In(Tail(toClient[c]), x) \/ x = Head(toClient[c])
      BY <1>0, <2>1, ReadChannel
    <3>2. QED
      BY <2>1, <3>1
  <2>3. c \notin backlog /\ c \notin backlog'
    BY <1>0, <1>8, <2>1 DEF Channels
  <2>4. Channels(c)'
    BY <1>0, <1>1, <1>8, <2>1, <2>3 DEF Channels
  <2>5. (Greeted(c) /\ Idle(c))'
    BY <1>8 DEF Greeted, Idle
  <2>6. Pending(c)' => Pending(c)
    BY <1>1, <1>8, <2>1, <2>2 DEF Pending
  <2>7. m \in {"LOCK_OK", "DROP_LOCK"} => cuda_ctx_ok[c]
    BY <1>0, <1>8, <2>2 DEF Context, Pending
  <2>8. QED
    BY <2>4, <2>5, <2>6, <2>7
<1>9. CASE InitialStatus(c)
  <2>1. PICK m \in {"SCHED_ON", "SCHED_OFF"} :
          /\ Read(c, m)
          /\ status_on' = [status_on EXCEPT ![c] = (m = "SCHED_ON")]
          /\ own_lock' = [own_lock EXCEPT ![c] = (m = "SCHED_OFF")]
    BY <1>9 DEF InitialStatus
  <2>2. /\ proc[c] = "boot" /\ proc'[c] = "up" /\ ~(status_on'[c] /\ own_lock'[c])
        /\ UNCHANGED <<toSched, peer, backlog, clients, exited, cuda_ctx_ok, handler,
                       releaser, app>>
    BY <1>0, <1>9, <2>1 DEF InitialStatus, ClientTypeOK
  <2>3. (Channels(c) /\ Greeted(c) /\ Idle(c))' /\ (Pending(c)' => Pending(c))
    BY <1>8, <2>1, <2>2
  <2>4. ~InGate(c)'
    BY <1>0, <2>2 DEF InGate, Idle
  <2>5. Context(c)'
    BY <1>0, <2>2, <2>3, <2>4 DEF Context
  <2>6. QED
    BY <2>3, <2>5
<1>10. ASSUME NEW m, Receive(c, m)
       PROVE  /\ (Channels(c) /\ Greeted(c) /\ Idle(c))'
              /\ Pending(c)' => Pending(c)
              /\ m \in {"LOCK_OK", "DROP_LOCK"} => cuda_ctx_ok[c]
              /\ cuda_ctx_ok'[c] = cuda_ctx_ok[c]
  BY <1>8, <1>10 DEF Receive
<1>11. CASE OnLockOk(c)
  BY <1>10, <1>11 DEF OnLockOk, Context
<1>12. CASE OnDropLock(c)
  BY <1>10, <1>12 DEF OnDropLock, Context
<1>13. CASE OnSchedOn(c)
  <2>1. InGate(c)' => InGate(c)
    BY <1>0, <1>13 DEF OnSchedOn, InGate, ClientTypeOK
  <2>2. QED
    BY <1>0, <1>10, <1>13, <2>1 DEF OnSchedOn, Context
<1>14. CASE OnSchedOff(c)
  <2>1. ~status_on'[c] /\ UNCHANGED <<handler, releaser>>
    BY <1>0, <1>14 DEF OnSchedOff, ClientTypeOK
  <2>2. \A t \in Threads : app'[c][t] # "out" => app[c][t] # "out"
    BY <1>0, <1>14 DEF OnSchedOff, WakeApp, ClientTypeOK
  <2>3. InGate(c)' => InGate(c)
    BY <2>1, <2>2 DEF InGate
  <2>4. QED
    BY <1>0, <1>10, <1>14, <2>3 DEF OnSchedOff, Context
<1>15. QED
  BY <1>2, <1>4, <1>5, <1>6, <1>7, <1>9, <1>11, <1>12, <1>13, <1>14 DEF KindOf

(* With the scheduler always on, one step of process c keeps the lock in one *)
(* place and its request on its way.                                         *)
LEMMA OwnLInv ==
    ASSUME LInv, NEW c \in Clients, Wires(c), KindOf(c)
    PROVE  (Places(c) /\ Asked(c) /\ NoOff(c) /\ (proc[c] = "up" => status_on[c]))'
<1>0. /\ NInv /\ IInv /\ c \in Conns /\ ClientTypeOK
      /\ Channels(c) /\ Idle(c) /\ Places(c) /\ Asked(c) /\ NoOff(c)
      /\ proc[c] = "up" => status_on[c]
      /\ toSched[c] \in Seq(Messages) /\ toClient[c] \in Seq(Messages)
  BY ClientsAssumption, SchedFacts DEF LInv, AlwaysOn, NInv
<1>1. UNCHANGED <<clients, registered, requests, lock_held, schedVars>>
  BY DEF Wires, schedVars
<1>2. handler[c] \in {"recv", "drop"} /\ own_lock[c] \in BOOLEAN
  BY <1>0 DEF ClientTypeOK
<1>3. CASE Quiet(c)
  <2>1. /\ toSched'[c] = toSched[c] /\ toClient'[c] = toClient[c]
        /\ proc'[c] = proc[c] /\ status_on'[c] = status_on[c] /\ own_lock'[c] = own_lock[c]
        /\ need_lock'[c] = need_lock[c] /\ handler'[c] = handler[c]
    BY <1>3 DEF Quiet, SameWire
  <2>2. releaser'[c] = "sync" => own_lock[c] /\ handler[c] = "recv"
    BY <1>0, <1>2, <1>3 DEF Quiet, Places
  <2>3. \A t \in Threads : app'[c][t] = "waiting" => need_lock[c]
    BY <1>0, <1>3 DEF Quiet, Asked
  <2>4. Places(c)'
    BY <1>0, <1>1, <2>1, <2>2 DEF Places, HasLock, Granted, Returned
  <2>5. Asked(c)'
    BY <1>0, <1>1, <2>1, <2>3 DEF Asked, Granted, Returned
  <2>6. QED
    BY <1>0, <2>1, <2>4, <2>5 DEF NoOff
<1>4. ASSUME NEW m \in {"REQ_LOCK", "LOCK_RELEASED"}, toSched'[c] = Append(toSched[c], m),
             toClient'[c] = toClient[c]
      PROVE  /\ NoOff(c)'
             /\ Returned(c)' <=> Returned(c) \/ m = "LOCK_RELEASED"
             /\ Once(toSched[c], "LOCK_RELEASED") /\ (m = "REQ_LOCK" \/ ~Returned(c)) =>
                   Once(toSched'[c], "LOCK_RELEASED")
             /\ m = "REQ_LOCK" => Asks(toSched'[c])
  <2>1. m \in Messages
    BY DEF Messages
  <2>2. /\ \A x : In(Append(toSched[c], m), x) <=> In(toSched[c], x) \/ x = m
        /\ \A x : Once(toSched[c], x) /\ (m # x \/ ~In(toSched[c], x)) =>
                     Once(Append(toSched[c], m), x)
        /\ m = "REQ_LOCK" => Asks(Append(toSched[c], m))
    BY <1>0, <2>1, WriteChannel
  <2>3. QED
    BY <1>0, <1>4, <2>2 DEF NoOff, Returned
<1>5. CASE Ask(c)
  <2>1. /\ NoOff(c)' /\ (Returned(c)' <=> Returned(c))
        /\ Once(toSched'[c], "LOCK_RELEASED") /\ Asks(toSched'[c])
    BY <1>0, <1>4, <1>5 DEF Ask, Places
  <2>2. Granted(c)' <=> Granted(c)
    BY <1>5 DEF Ask, Granted
  <2>3. /\ ~own_lock[c] /\ ~own_lock'[c] /\ need_lock'[c] /\ handler[c] = "recv"
        /\ handler'[c] = "recv" /\ releaser'[c] = releaser[c] /\ toClient'[c] = toClient[c]
    BY <1>5 DEF Ask
  <2>4. Places(c)'
    BY <1>0, <1>1, <2>1, <2>2, <2>3 DEF Places, HasLock
  <2>5. Asked(c)'
    BY <2>1, <2>3 DEF Asked
  <2>6. QED
    BY <1>0, <1>5, <2>1, <2>4, <2>5 DEF Ask
<1>6. CASE Release(c)
  <2>1. /\ own_lock[c] \/ handler[c] = "drop" 
        /\ ~own_lock'[c] /\ handler'[c] = "recv" /\ releaser'[c] # "sync"
    BY <1>0, <1>2, <1>6 DEF Release, Places
  <2>2. ~Granted(c) /\ ~Returned(c) /\ HasLock(c) /\ ~need_lock[c]
    BY <1>0, <2>1 DEF Places, Asked, HasLock
  <2>3. /\ NoOff(c)' /\ Returned(c)' /\ Once(toSched'[c], "LOCK_RELEASED")
    BY <1>0, <1>4, <1>6, <2>2 DEF Release, Places
  <2>4. ~Granted(c)' /\ toClient'[c] = toClient[c] /\ ~need_lock'[c] /\ app'[c] = app[c]
    BY <1>6, <2>2 DEF Release, Granted
  <2>5. Places(c)'
    BY <1>0, <1>1, <2>1, <2>2, <2>3, <2>4 DEF Places
  <2>6. Asked(c)'
    BY <1>0, <2>1, <2>2, <2>4 DEF Asked
  <2>7. QED
    BY <1>0, <1>6, <2>3, <2>5, <2>6 DEF Release
<1>7. /\ ~In(<<>>, "LOCK_OK") /\ Once(<<>>, "LOCK_OK") /\ ~In(<<>>, "SCHED_OFF")
      /\ ~In(<<"REGISTER">>, "LOCK_RELEASED") /\ ~In(<<"REGISTER">>, "SCHED_OFF")
      /\ Once(<<"REGISTER">>, "LOCK_RELEASED")
  <2>1. \A m : (In(<<"REGISTER">>, m) <=> "REGISTER" = m) /\ Once(<<"REGISTER">>, m)
    BY NewChannel
  <2>2. \A m : ~In(<<>>, m) /\ Once(<<>>, m)
    BY NewChannel
  <2>3. QED
    BY <2>1, <2>2
<1>8. CASE Start(c)
  <2>1. <<"REGISTER">> \in Seq(Messages)
    BY NewChannel DEF Messages
  <2>2. /\ toSched'[c] = <<"REGISTER">> /\ toClient'[c] = <<>> /\ c \notin clients
    BY <1>0, <1>1, <1>8, <2>1, ConnectWires DEF Start
  <2>3. /\ proc[c] = "down" /\ proc'[c] = "boot" /\ own_lock'[c] = own_lock[c]
        /\ need_lock'[c] = need_lock[c] /\ handler'[c] = handler[c]
        /\ releaser'[c] = releaser[c] /\ app'[c] = app[c]
    BY <1>0, <1>8 DEF Start, ClientTypeOK
  <2>4. /\ ~own_lock[c] /\ ~need_lock[c] /\ handler[c] = "recv" /\ releaser[c] = "starting"
        /\ \A t \in Threads : app[c][t] = "out"
    BY <1>0, <2>3 DEF Idle
  <2>5. ~Granted(c)' /\ ~Returned(c)' /\ NoOff(c)'
    BY <1>7, <2>2 DEF Granted, Returned, NoOff
  <2>6. Places(c)' /\ Asked(c)'
    BY <1>7, <2>2, <2>3, <2>4, <2>5 DEF Places, Asked, HasLock
  <2>7. QED
    BY <2>3, <2>5, <2>6
<1>9. CASE proc[c] # "down" /\ Gone(c)
  <2>1. toSched'[c] = toSched[c] /\ toClient'[c] = <<>>
    BY <1>0, <1>1, <1>9, CloseWires DEF Gone
  <2>2. /\ proc'[c] = "down" /\ ~own_lock'[c] /\ ~need_lock'[c]
        /\ handler'[c] = "recv" /\ releaser'[c] = "starting"
        /\ \A t \in Threads : app'[c][t] = "out"
    BY <1>0, <1>9 DEF Gone, ClientTypeOK
  <2>3. ~Granted(c)' /\ (Returned(c)' <=> Returned(c)) /\ NoOff(c)'
    BY <1>0, <1>7, <2>1 DEF Granted, Returned, NoOff
  <2>4. Places(c)' /\ Asked(c)'
    BY <1>0, <1>1, <1>7, <2>1, <2>2, <2>3 DEF Places, Asked, HasLock
  <2>5. QED
    BY <2>2, <2>3, <2>4
<1>10. ASSUME NEW m, Read(c, m), UNCHANGED <<toSched, peer, backlog, clients, exited>>
       PROVE  /\ NoOff(c)' /\ m # "SCHED_OFF"
              /\ Returned(c)' <=> Returned(c)
              /\ Granted(c) <=> Granted(c)' \/ m = "LOCK_OK"
              /\ m = "LOCK_OK" => ~Granted(c)'
              /\ Once(toSched'[c], "LOCK_RELEASED") /\ Once(toClient'[c], "LOCK_OK")
              /\ Asks(toSched'[c]) <=> Asks(toSched[c])
  <2>1. /\ toClient[c] # <<>> /\ m = Head(toClient[c])
        /\ toClient'[c] = Tail(toClient[c]) /\ toSched'[c] = toSched[c]
    BY <1>0, <1>1, <1>10, ReadWires
  <2>2. /\ \A x : In(toClient[c], x) <=> In(Tail(toClient[c]), x) \/ x = Head(toClient[c])
        /\ \A x : Once(toClient[c], x) =>
                     /\ Once(Tail(toClient[c]), x)
                     /\ ~(Head(toClient[c]) = x /\ In(Tail(toClient[c]), x))
    BY <1>0, <2>1, ReadChannel
  <2>3. QED
    BY <1>0, <2>1, <2>2 DEF NoOff, Returned, Granted, Places
<1>11. CASE InitialStatus(c)
  <2>1. PICK m \in {"SCHED_ON", "SCHED_OFF"} :
          /\ Read(c, m)
          /\ status_on' = [status_on EXCEPT ![c] = (m = "SCHED_ON")]
          /\ own_lock' = [own_lock EXCEPT ![c] = (m = "SCHED_OFF")]
    BY <1>11 DEF InitialStatus
  <2>2. UNCHANGED <<toSched, peer, backlog, clients, exited, handler, releaser, app>>
    BY <1>11 DEF InitialStatus
  <2>3. /\ NoOff(c)' /\ m = "SCHED_ON" /\ (Returned(c)' <=> Returned(c))
        /\ Granted(c)' <=> Granted(c)
        /\ Once(toSched'[c], "LOCK_RELEASED") /\ Once(toClient'[c], "LOCK_OK")
    BY <1>10, <2>1, <2>2
  <2>4. ~own_lock'[c] /\ status_on'[c] /\ ~need_lock'[c]
    BY <1>0, <1>11, <2>1, <2>3 DEF InitialStatus, ClientTypeOK
  <2>5. /\ handler[c] = "recv" /\ releaser[c] = "starting"
        /\ \A t \in Threads : app[c][t] = "out"
    BY <1>0, <1>11 DEF InitialStatus, Idle
  <2>6. Places(c)' /\ Asked(c)'
    BY <1>0, <1>1, <2>2, <2>3, <2>4, <2>5 DEF Places, Asked, HasLock
  <2>7. QED
    BY <2>3, <2>4, <2>6
<1>12. ASSUME NEW m, Receive(c, m)
       PROVE  /\ NoOff(c)' /\ m # "SCHED_OFF"
              /\ Returned(c)' <=> Returned(c)
              /\ Granted(c) <=> Granted(c)' \/ m = "LOCK_OK"
              /\ m = "LOCK_OK" => ~Granted(c)'
              /\ Once(toSched'[c], "LOCK_RELEASED") /\ Once(toClient'[c], "LOCK_OK")
              /\ Asks(toSched'[c]) <=> Asks(toSched[c])
              /\ proc[c] = "up" /\ status_on[c] /\ handler[c] = "recv" /\ releaser[c] # "sync"
  <2>1. /\ Read(c, m) /\ UNCHANGED <<toSched, peer, backlog, clients, exited>>
        /\ proc[c] = "up" /\ handler[c] = "recv" /\ releaser[c] # "sync"
    BY <1>12 DEF Receive, MutexFreeIn
  <2>2. QED
    BY <1>0, <1>10, <2>1
<1>13. CASE OnLockOk(c)
  <2>1. /\ NoOff(c)' /\ (Returned(c)' <=> Returned(c)) /\ Granted(c) /\ ~Granted(c)'
        /\ Once(toSched'[c], "LOCK_RELEASED") /\ Once(toClient'[c], "LOCK_OK")
        /\ status_on[c] /\ handler[c] = "recv"
    BY <1>12, <1>13 DEF OnLockOk
  <2>2. /\ own_lock'[c] /\ ~need_lock'[c] /\ UNCHANGED <<status_on, handler>>
        /\ \A t \in Threads : app'[c][t] # "waiting"
    BY <1>0, <1>13 DEF OnLockOk, WakeApp, ClientTypeOK
  <2>3. Places(c)'
    BY <1>0, <1>1, <2>1, <2>2 DEF Places, HasLock
  <2>4. Asked(c)'
    BY <2>2 DEF Asked
  <2>5. QED
    BY <2>1, <2>2, <2>3, <2>4
<1>14. CASE OnDropLock(c)
  <2>1. /\ NoOff(c)' /\ (Returned(c)' <=> Returned(c)) /\ (Granted(c)' <=> Granted(c))
        /\ Once(toSched'[c], "LOCK_RELEASED") /\ Once(toClient'[c], "LOCK_OK")
        /\ status_on[c] /\ handler[c] = "recv" /\ releaser[c] # "sync"
        /\ Asks(toSched'[c]) <=> Asks(toSched[c])
    BY <1>12, <1>14 DEF OnDropLock
  <2>2. /\ ~own_lock'[c] /\ UNCHANGED <<status_on, need_lock, releaser, app>>
        /\ handler'[c] = IF own_lock[c] THEN "drop" ELSE "recv"
    BY <1>0, <1>14 DEF OnDropLock, ClientTypeOK
  <2>3. HasLock(c)' => HasLock(c)
    BY <2>1, <2>2 DEF HasLock
  <2>4. Places(c)'
    BY <1>0, <1>1, <2>1, <2>2, <2>3 DEF Places
  <2>5. Asked(c)'
    BY <1>0, <1>1, <2>1, <2>2 DEF Asked
  <2>6. QED
    BY <2>1, <2>2, <2>4, <2>5
<1>15. CASE OnSchedOn(c)
  <2>1. /\ NoOff(c)' /\ (Returned(c)' <=> Returned(c)) /\ (Granted(c)' <=> Granted(c))
        /\ Once(toSched'[c], "LOCK_RELEASED") /\ Once(toClient'[c], "LOCK_OK")
        /\ status_on[c] /\ (Asks(toSched'[c]) <=> Asks(toSched[c]))
    BY <1>12, <1>15 DEF OnSchedOn
  <2>2. /\ own_lock'[c] = own_lock[c] /\ need_lock'[c] = need_lock[c] /\ status_on'[c]
        /\ UNCHANGED <<handler, releaser, app>>
    BY <1>0, <1>15, <2>1 DEF OnSchedOn, ClientTypeOK
  <2>3. Places(c)'
    BY <1>0, <1>1, <2>1, <2>2 DEF Places, HasLock
  <2>4. Asked(c)'
    BY <1>0, <1>1, <2>1, <2>2 DEF Asked
  <2>5. QED
    BY <2>1, <2>2, <2>3, <2>4
<1>16. CASE OnSchedOff(c)
  BY <1>12, <1>16 DEF OnSchedOff
<1>17. QED
  BY <1>3, <1>5, <1>6, <1>8, <1>9, <1>11, <1>13, <1>14, <1>15, <1>16 DEF KindOf

(* A command of nvsharectl opens a connection of its own *)
LEMMA CtlStep ==
    ASSUME NInv, NEW c \in Ctls, nvsharectl(c)
    PROVE  /\ c \in Conns /\ Wires(c) /\ clientVars' = clientVars
           /\ commands # <<>> /\ commands' = Tail(commands)
           /\ toSched'[c] = <<Head(commands)>> /\ toClient'[c] = <<>>
           /\ peer'[c] = FALSE /\ c \notin clients
<1>1. c \in Conns /\ IInv /\ commands \in Seq(CtlMessages)
  BY CtlsAssumption DEF NInv
<1>2. commands # <<>> /\ Connect(c, <<Head(commands)>>, FALSE) /\ UNCHANGED <<schedVars, clientVars>>
  BY DEF nvsharectl
<1>3. Head(commands) \in Messages
  BY <1>1, <1>2, ReadChannel DEF CtlMessages, Messages
<1>4. <<Head(commands)>> \in Seq(Messages)
  BY <1>3, NewChannel
<1>5. QED
  BY <1>1, <1>2, <1>4, ConnectWires DEF nvsharectl

LEMMA NextNInv ==
    ASSUME NInv, [Next]_vars
    PROVE  NInv'
<1>0. IInv /\ Clients \subseteq Conns
  BY ClientsAssumption DEF NInv
<1>1. CASE SchedNext /\ UNCHANGED <<clientVars, commands>>
  BY <1>1, SchedNInv
<1>2. ASSUME NEW c \in Clients, ClientAction(c) PROVE NInv'
  <2>1. Wires(c) /\ ClientTypeOK' /\ Others(c) /\ KindOf(c) /\ commands' = commands
    BY <1>2, ClientKinds
  <2>2. IInv' /\ ~Stranded(State)'
    BY <1>0, <2>1, WiresIInv DEF NInv
  <2>3. \A d \in Clients : (Channels(d) /\ Idle(d) /\ Context(d) /\ Greeted(d))'
    BY <1>0, <2>1, OwnNInv, OthersKept
  <2>4. \A d \in Ctls : CtlChannels(d)'
    BY <2>1, CtlsAssumption DEF NInv, CtlChannels, Wires
  <2>5. QED
    BY <2>1, <2>2, <2>3, <2>4 DEF NInv
<1>3. ASSUME NEW c \in Ctls, nvsharectl(c) PROVE NInv'
  <2>1. /\ c \in Conns /\ Wires(c) /\ clientVars' = clientVars
        /\ commands # <<>> /\ commands' = Tail(commands)
        /\ toSched'[c] = <<Head(commands)>>
    BY <1>3, CtlStep
  <2>2. IInv' /\ ~Stranded(State)'
    BY <1>0, <2>1, WiresIInv DEF NInv
  <2>3. ClientTypeOK' /\ Others(c)
    BY <2>1 DEF NInv, ClientTypeOK, clientVars, Others
  <2>4. \A d \in Clients : (Channels(d) /\ Idle(d) /\ Context(d) /\ Greeted(d))'
    BY <2>1, <2>3, OthersKept, CtlsAssumption
  <2>5. commands' \in Seq(CtlMessages) /\ Head(commands) \in CtlMessages
    BY <2>1, ReadChannel DEF NInv
  <2>6. <<Head(commands)>> \in Seq(CtlMessages)
    BY <2>5, NewChannel
  <2>7. \A d \in Ctls : CtlChannels(d)'
    BY <2>1, <2>6, CtlsAssumption DEF NInv, CtlChannels, Wires
  <2>8. QED
    BY <2>2, <2>3, <2>4, <2>5, <2>7 DEF NInv
<1>4. CASE UNCHANGED vars
  <2>1. IInv'
    BY <1>0, <1>4 DEF vars, commVars, schedVars, IInv, RestOK, State
  <2>2. NoStep
    BY <1>4 DEF vars, commVars, schedVars, NoStep
  <2>3. QED
    BY <2>1, <2>2, NoStepNInv
<1>5. QED
  BY <1>1, <1>2, <1>3, <1>4 DEF Next

LEMMA NextLInv ==
    ASSUME LInv, [Next]_vars
    PROVE  LInv'
<1>0. NInv /\ NInv' /\ Clients \subseteq Conns
  BY NextNInv, ClientsAssumption DEF LInv
<1>1. CASE SchedNext /\ UNCHANGED <<clientVars, commands>>
  BY <1>1, SchedLInv
<1>2. ASSUME NEW c \in Clients, ClientAction(c) PROVE LInv'
  <2>1. Wires(c) /\ Others(c) /\ KindOf(c) /\ commands' = commands
    BY <1>0, <1>2, ClientKinds
  <2>2. (Places(c) /\ Asked(c) /\ NoOff(c) /\ (proc[c] = "up" => status_on[c]))'
    BY <2>1, OwnLInv
  <2>3. \A d \in Clients : (Places(d) /\ Asked(d))'
    BY <1>0, <2>1, <2>2, OthersKept DEF LInv
  <2>4. \A d \in Conns : NoOff(d)'
    BY <2>1, <2>2 DEF LInv, AlwaysOn, NoOff, Wires
  <2>5. \A d \in Clients : (proc[d] = "up" => status_on[d])'
    BY <2>1, <2>2 DEF LInv, AlwaysOn, Others
  <2>6. AlwaysOn'
    BY <2>1, <2>4, <2>5 DEF LInv, AlwaysOn, Wires, schedVars
  <2>7. QED
    BY <1>0, <2>3, <2>6 DEF LInv
<1>3. ASSUME NEW c \in Ctls, nvsharectl(c) PROVE LInv'
  <2>1. /\ c \in Conns /\ Wires(c) /\ clientVars' = clientVars
        /\ commands # <<>> /\ commands' = Tail(commands)
        /\ toSched'[c] = <<Head(commands)>> /\ toClient'[c] = <<>>
    BY <1>0, <1>3, CtlStep
  <2>2. Others(c)
    BY <2>1 DEF clientVars, Others
  <2>3. \A d \in Clients : (Places(d) /\ Asked(d))'
    BY <1>0, <2>1, <2>2, OthersKept, CtlsAssumption DEF LInv
  <2>4. /\ commands' \in Seq(CtlMessages \ {"SCHED_OFF"})
        /\ Head(commands) \in CtlMessages \ {"SCHED_OFF"}
    BY <2>1, ReadChannel DEF LInv, AlwaysOn
  <2>5. NoOff(c)'
    <3> DEFINE m == Head(commands)
    <3> HIDE DEF m
    <3>1. (In(<<m>>, "SCHED_OFF") <=> m = "SCHED_OFF") /\ ~In(<<>>, "SCHED_OFF")
      BY NewChannel
    <3>2. QED
      BY <2>1, <2>4, <3>1 DEF NoOff, m
  <2>6. \A d \in Conns : NoOff(d)'
    BY <2>1, <2>5 DEF LInv, AlwaysOn, NoOff, Wires
  <2>7. AlwaysOn'
    BY <2>1, <2>4, <2>6 DEF LInv, AlwaysOn, Wires, schedVars, clientVars
  <2>8. QED
    BY <1>0, <2>3, <2>7 DEF LInv
<1>4. CASE UNCHANGED vars
  <2>1. NoStep
    BY <1>4 DEF vars, commVars, schedVars, NoStep
  <2>2. QED
    BY <1>0, <2>1, NoStepLInv DEF LInv
<1>5. QED
  BY <1>1, <1>2, <1>3, <1>4 DEF Next

-----------------------------------------------------------------------------
(* Initially *)

LEMMA InitNInv == Init => NInv
<1> SUFFICES ASSUME Init PROVE NInv
  OBVIOUS
<1>1. IInv
  BY InitIInv DEF Init
<1>2. ClientTypeOK
  BY FlagsAssumption DEF Init, ClientInit, ClientTypeOK
<1>3. commands \in Seq(CtlMessages)
  BY CtlScriptAssumption DEF Init, CtlMessages
<1>4. ASSUME NEW c \in Conns PROVE toSched[c] = <<>> /\ toClient[c] = <<>> /\ peer[c] = FALSE
  BY <1>4 DEF Init, CommInit
<1>5. \A m : ~In(<<>>, m) /\ OnlyFirst(<<>>, m)
  BY NewChannel
<1>6. <<>> \in Seq(ClientMessages) /\ <<>> \in Seq(CtlMessages)
  BY EmptySeq
<1>7. backlog = {} /\ clients = {} /\ registered = {} /\ requests = <<>> /\ ~lock_held
  BY DEF Init, CommInit, SchedInit
<1>8. ASSUME NEW c \in Clients PROVE Channels(c) /\ Idle(c) /\ Context(c) /\ Greeted(c)
  <2>1. c \in Conns /\ proc[c] = "down"
    BY ClientsAssumption DEF Init, ClientInit
  <2>2. Channels(c) /\ Greeted(c)
    BY <1>4, <1>5, <1>6, <1>7, <2>1 DEF Channels, Greeted
  <2>3. Idle(c) /\ ~InGate(c)
    BY <1>8 DEF Init, ClientInit, Idle, InGate
  <2>4. Context(c)
    BY <2>1, <2>3 DEF Context, Pending
  <2>5. QED
    BY <2>2, <2>3, <2>4
<1>9. \A c \in Ctls : CtlChannels(c)
  BY <1>4, <1>6, CtlsAssumption DEF CtlChannels
<1>10. ~Stranded(State)
  BY <1>7 DEF Stranded, State
<1>11. QED
  BY <1>1, <1>2, <1>3, <1>8, <1>9, <1>10 DEF NInv

LEMMA InitLInv ==
    ASSUME CtlScript \in Seq({"SCHED_ON", "SET_TQ"}), Init
    PROVE  LInv
<1>1. NInv
  BY InitNInv
<1>2. CtlMessages \ {"SCHED_OFF"} = {"SCHED_ON", "SET_TQ"}
  BY DEF CtlMessages
<1>3. commands \in Seq(CtlMessages \ {"SCHED_OFF"})
  BY <1>2 DEF Init
<1>4. \A c \in Conns : toSched[c] = <<>> /\ toClient[c] = <<>>
  BY DEF Init, CommInit
<1>5. \A m : ~In(<<>>, m) /\ Once(<<>>, m)
  BY NewChannel
<1>6. AlwaysOn
  BY <1>3, <1>4, <1>5 DEF Init, SchedInit, ClientInit, AlwaysOn, NoOff
<1>7. ASSUME NEW c \in Clients PROVE Places(c) /\ Asked(c)
  <2>1. /\ toSched[c] = <<>> /\ toClient[c] = <<>> /\ c \notin clients
        /\ ~own_lock[c] /\ ~need_lock[c] /\ handler[c] = "recv" /\ releaser[c] = "starting"
        /\ \A t \in Threads : app[c][t] = "out"
    BY <1>4, ClientsAssumption DEF Init, CommInit, ClientInit
  <2>2. QED
    BY <1>5, <2>1 DEF Places, Asked, Granted, Returned
<1>8. QED
  BY <1>1, <1>6, <1>7 DEF LInv

-----------------------------------------------------------------------------
(* The theorems *)

(* NInv is an invariant of the system, whatever nvsharectl is told to do *)
THEOREM SystemInvariance == Spec => []NInv
<1>1. NInv /\ [Next]_vars => NInv'
  BY NextNInv
<1>2. QED
  BY InitNInv, <1>1, PTL DEF Spec

(* No request is stranded: whatever the clients, their crashes and           *)
(* nvsharectl do, the scheduler (process_msg(), delete_client(),             *)
(* try_schedule()) never leaves its mutex with a request in the list and the *)
(* lock free.                                                                *)
THEOREM RequestsAreServed == Spec => []NoStrandedRequest
<1>1. NInv => NoStrandedRequest
  BY DEF NInv, NoStrandedRequest, Stranded, State
<1>2. QED
  BY SystemInvariance, <1>1, PTL

(* cuda_sync_context() is never called before continue_with_lock() has       *)
(* recorded a context, in whatever order grants, drops and changes of status *)
(* reach the client.                                                         *)
THEOREM ContextIsKnown == Spec => []ContextKnown
<1>1. NInv => ContextKnown
  BY DEF NInv, ContextKnown, Context, InGate
<1>2. QED
  BY SystemInvariance, <1>1, PTL

(* The first message a new client reads is the status, and nothing is sent   *)
(* to an accepted connection before register_client().                       *)
THEOREM StatusComesFirst == Spec => []StatusFirst
<1>1. NInv => StatusFirst
  BY DEF NInv, StatusFirst, Greeted
<1>2. QED
  BY SystemInvariance, <1>1, PTL

(* LInv is an invariant as long as nvsharectl never turns the scheduler off *)
THEOREM LockInvariance ==
    ASSUME CtlScript \in Seq({"SCHED_ON", "SET_TQ"})
    PROVE  Spec => []LInv
<1>1. Init => LInv
  BY InitLInv
<1>2. LInv /\ [Next]_vars => LInv'
  BY NextLInv
<1>3. QED
  BY <1>1, <1>2, PTL DEF Spec

(* What Count counts *)
LEMMA CountIn ==
    ASSUME NEW q \in Seq(Messages), NEW m
    PROVE  /\ ~In(q, m) => Count(q, m) = 0
           /\ In(q, m) /\ Once(q, m) => Count(q, m) = 1
<1>1. DOMAIN q = 1..Len(q)
  BY LenProperties
<1>2. ASSUME ~In(q, m) PROVE Count(q, m) = 0
  <2>1. {i \in DOMAIN q : q[i] = m} = {}
    BY <1>1, <1>2 DEF In
  <2>2. QED
    BY <2>1, FS_EmptySet DEF Count
<1>3. ASSUME In(q, m), Once(q, m) PROVE Count(q, m) = 1
  <2>1. PICK i \in 1..Len(q) : q[i] = m
    BY <1>3 DEF In
  <2>2. {j \in DOMAIN q : q[j] = m} = {i}
    BY <1>1, <1>3, <2>1 DEF Once
  <2>3. QED
    BY <2>2, FS_Singleton DEF Count
<1>4. QED
  BY <1>2, <1>3

(* While the scheduler is not turned off, there is one GPU lock: granted and *)
(* on its way, owned, being given back or given back and on its way, it is   *)
(* in one of these places, of one served client, the head of the requests    *)
(* list.  The applications may start, crash and lose the scheduler, and all  *)
(* their threads may run in any order.                                       *)
THEOREM LockIsUnique ==
    ASSUME CtlScript \in Seq({"SCHED_ON", "SET_TQ"})
    PROVE  Spec => []OneLock
<1>1. ASSUME LInv PROVE OneLock
  <2>1. SUFFICES ASSUME NEW c \in Clients, Served(c), Tokens(c) > 0
                 PROVE  Tokens(c) = 1 /\ lock_held /\ requests[1] = c
    BY DEF OneLock
  <2>2. Places(c) /\ c \in clients /\ toClient[c] \in Seq(Messages) /\ toSched[c] \in Seq(Messages)
    BY <1>1, <2>1, SchedFacts, ClientsAssumption DEF LInv, NInv, Served
  <2> DEFINE a == Count(toClient[c], "LOCK_OK")
             b == Count(toSched[c], "LOCK_RELEASED")
             o == IF own_lock[c] \/ handler[c] = "drop" THEN 1 ELSE 0
  <2>3. (Granted(c) => a = 1) /\ (~Granted(c) => a = 0)
    BY <2>2, CountIn DEF Places, Granted
  <2>4. (Returned(c) => b = 1) /\ (~Returned(c) => b = 0)
    BY <2>2, CountIn DEF Places, Returned
  <2>5. Tokens(c) = a + b + o
    BY DEF Tokens
  <2> HIDE DEF a, b
  <2>6. HasLock(c) /\ Tokens(c) = 1
    <3>1. CASE Granted(c)
      <4>1. ~Returned(c) /\ o = 0
        BY <2>2, <3>1 DEF Places
      <4>2. QED
        BY <2>3, <2>4, <2>5, <3>1, <4>1 DEF HasLock
    <3>2. CASE ~Granted(c) /\ Returned(c)
      <4>1. o = 0
        BY <2>2, <3>2 DEF Places
      <4>2. QED
        BY <2>3, <2>4, <2>5, <3>2, <4>1 DEF HasLock
    <3>3. CASE ~Granted(c) /\ ~Returned(c)
      <4>1. a = 0 /\ b = 0
        BY <2>3, <2>4, <3>3
      <4>2. own_lock[c] \/ handler[c] = "drop"
        BY <2>1, <2>5, <4>1
      <4>3. QED
        BY <2>5, <4>1, <4>2 DEF HasLock
    <3>4. QED
      BY <3>1, <3>2, <3>3
  <2>7. QED
    BY <2>2, <2>6 DEF Places
<1>2. QED
  BY LockInvariance, <1>1, PTL

-----------------------------------------------------------------------------
(* The early release *)

(* The interval that ends in an early release is over only if the thread     *)
(* went back to wait after the last activity, which did_work tells it.       *)
Rested(c) ==
    /\ status_on[c] /\ own_lock[c] /\ ~did_work[c] /\ releaser[c] # "starting" => rested[c]
    /\ releaser[c] = "sync" => status_on[c] /\ own_lock[c] /\ ~did_work[c]

RInv == NInv /\ \A c \in Clients : Rested(c)

(* What a step of process c does to the state the releaser tests: nothing,   *)
(* an activity, the end of ownership, or a step of the releaser itself.      *)
Undisturbed(c) ==
    /\ status_on'[c] = status_on[c] /\ own_lock'[c] = own_lock[c] /\ did_work'[c] = did_work[c]
    /\ releaser'[c] = releaser[c] \/ (releaser[c] = "waiting" /\ releaser'[c] = "timedout")
    /\ \A t \in Threads : app'[c][t] = "cleared" => app[c][t] = "cleared"

Disturbed(c) ==
    /\ releaser[c] # "sync" /\ releaser'[c] # "sync"
    /\ releaser'[c] = "waiting" => releaser[c] = "waiting"
    /\ did_work'[c] \/ ~own_lock'[c] \/ ~status_on'[c]

NewInterval(c) ==
    /\ releaser[c] # "waiting" /\ releaser'[c] = "waiting"
    /\ \A t \in Threads : app'[c][t] = app[c][t]
    /\ status_on'[c] = status_on[c]
    /\ \/ own_lock'[c] = own_lock[c]
       \/ /\ ~own_lock'[c] /\ status_on[c] /\ own_lock[c] /\ ~did_work[c]
          /\ releaser[c] # "starting"

Synchronises(c) ==
    /\ UNCHANGED <<status_on, own_lock, did_work, app>>
    /\ releaser[c] = "timedout" /\ releaser'[c] = "sync"
    /\ status_on[c] /\ own_lock[c] /\ ~did_work[c]

Ends(c) == proc'[c] = "down" /\ ~own_lock'[c] /\ releaser'[c] = "starting"

LEMMA RestedKept ==
    ASSUME NEW c \in Clients, Rested(c), Follow,
           Undisturbed(c) \/ Disturbed(c) \/ NewInterval(c) \/ Synchronises(c) \/ Ends(c)
    PROVE  Rested(c)' /\ (EarlyRelease(c) => rested[c])
<1>1. rested'[c] <=> ~Active(c) /\ (rested[c] \/ (releaser'[c] = "waiting" /\ releaser[c] # "waiting"))
  BY Zenon DEF Follow
<1>2. CASE Undisturbed(c)
  <2>1. ~Active(c)
    BY <1>2 DEF Undisturbed, Active
  <2>2. QED
    BY <1>1, <1>2, <2>1 DEF Undisturbed, Rested, EarlyRelease
<1>3. CASE Disturbed(c)
  BY <1>3 DEF Disturbed, Rested, EarlyRelease
<1>4. CASE NewInterval(c)
  <2>1. ~Active(c)
    BY <1>4 DEF NewInterval, Active
  <2>2. QED
    BY <1>1, <1>4, <2>1 DEF NewInterval, Rested, EarlyRelease
<1>5. CASE Synchronises(c)
  <2>1. ~Active(c)
    BY <1>5 DEF Synchronises, Active
  <2>2. QED
    BY <1>1, <1>5, <2>1 DEF Synchronises, Rested, EarlyRelease
<1>6. CASE Ends(c)
  BY <1>6 DEF Ends, Rested, EarlyRelease
<1>7. QED
  BY <1>2, <1>3, <1>4, <1>5, <1>6

(* Every step of process c is of one of these kinds *)
LEMMA RestKinds ==
    ASSUME NInv, NEW c \in Clients, Rested(c), ClientAction(c)
    PROVE  Undisturbed(c) \/ Disturbed(c) \/ NewInterval(c) \/ Synchronises(c) \/ Ends(c)
<1>0. ClientTypeOK /\ Idle(c) /\ Channels(c)
  BY DEF NInv
<1>1. CASE Start(c) \/ GpuDone(c)
  BY <1>1 DEF Start, GpuDone, Undisturbed
<1>2. CASE Crash(c) \/ LoseScheduler(c)
  BY <1>0, <1>2 DEF Crash, LoseScheduler, Gone, Ends, ClientTypeOK
<1>3. CASE InitialStatus(c)
  <2>1. PICK m \in {"SCHED_ON", "SCHED_OFF"} :
          /\ status_on' = [status_on EXCEPT ![c] = (m = "SCHED_ON")]
          /\ own_lock' = [own_lock EXCEPT ![c] = (m = "SCHED_OFF")]
    BY <1>3 DEF InitialStatus
  <2>2. releaser[c] = "starting" /\ releaser'[c] = "starting"
    BY <1>0, <1>3 DEF InitialStatus, Idle
  <2>3. ~own_lock'[c] \/ ~status_on'[c]
    BY <1>0, <2>1 DEF ClientTypeOK
  <2>4. QED
    BY <2>2, <2>3 DEF Disturbed
<1>4. CASE OnLockOk(c)
  <2>1. releaser[c] # "sync" /\ did_work'[c]
    BY <1>0, <1>4 DEF OnLockOk, Receive, MutexFreeIn, ClientTypeOK
  <2>2. releaser' = [releaser EXCEPT ![c] = IF @ = "waiting" THEN "signaled" ELSE @]
    BY <1>4 DEF OnLockOk, WakeReleaser
  <2>3. releaser'[c] = IF releaser[c] = "waiting" THEN "signaled" ELSE releaser[c]
    BY <1>0, <2>2 DEF ClientTypeOK
  <2>4. QED
    BY <2>1, <2>3 DEF Disturbed
<1>5. CASE OnDropLock(c)
  BY <1>0, <1>5 DEF OnDropLock, Receive, MutexFreeIn, ClientTypeOK, Disturbed
<1>6. CASE DropDone(c)
  BY <1>6 DEF DropDone, Undisturbed
<1>7. CASE OnSchedOn(c)
  <2>1. /\ releaser[c] # "sync" /\ releaser' = releaser /\ did_work' = did_work /\ app' = app
        /\ status_on' = [status_on EXCEPT ![c] = TRUE]
        /\ own_lock' = [own_lock EXCEPT ![c] = @ /\ status_on[c]]
    BY <1>7 DEF OnSchedOn, Receive, MutexFreeIn
  <2>2. CASE status_on[c]
    <3>1. status_on'[c] = status_on[c] /\ own_lock'[c] = own_lock[c]
      BY <1>0, <2>1, <2>2 DEF ClientTypeOK
    <3>2. QED
      BY <2>1, <3>1 DEF Undisturbed
  <2>3. CASE ~status_on[c]
    <3>1. ~own_lock'[c]
      BY <1>0, <2>1, <2>3 DEF ClientTypeOK
    <3>2. QED
      BY <2>1, <3>1 DEF Disturbed
  <2>4. QED
    BY <2>2, <2>3
<1>8. CASE OnSchedOff(c)
  BY <1>0, <1>8 DEF OnSchedOff, Receive, MutexFreeIn, ClientTypeOK, Disturbed
<1>9. ASSUME NEW t \in Threads, InLockGate(c), PassOrWait(c, t)
      PROVE  Undisturbed(c) \/ Disturbed(c)
  <2>1. releaser[c] # "sync" /\ UNCHANGED <<status_on, own_lock>>
    BY <1>9 DEF InLockGate, MutexFreeIn
  <2>2. CASE own_lock[c]
    <3>1. /\ did_work' = [did_work EXCEPT ![c] = TRUE]
          /\ releaser' = [releaser EXCEPT ![c] = IF @ = "waiting" THEN "signaled" ELSE @]
      BY <1>9, <2>2 DEF PassOrWait, WakeReleaser
    <3>2. did_work'[c] /\ releaser'[c] = IF releaser[c] = "waiting" THEN "signaled" ELSE releaser[c]
      BY <1>0, <3>1 DEF ClientTypeOK
    <3>3. QED
      BY <2>1, <3>2 DEF Disturbed
  <2>3. CASE ~own_lock[c]
    <3>1. UNCHANGED <<did_work, releaser>> /\ app' = [app EXCEPT ![c][t] = "waiting"]
      BY <1>9, <2>3 DEF PassOrWait
    <3>2. \A u \in Threads : app'[c][u] = "cleared" => app[c][u] = "cleared"
      BY <1>0, <3>1 DEF ClientTypeOK
    <3>3. QED
      BY <2>1, <3>1, <3>2 DEF Undisturbed
  <2>4. QED
    BY <2>2, <2>3
<1>10. CASE AppNext(c)
  <2>1. PICK t \in Threads :
           continue_with_lock(c, t) \/ WakeUp(c, t) \/ SpuriousWake(c, t) \/ Submit(c, t)
    BY <1>10 DEF AppNext
  <2>2. CASE continue_with_lock(c, t) \/ WakeUp(c, t)
    BY <1>9, <2>2 DEF continue_with_lock, WakeUp
  <2>3. CASE SpuriousWake(c, t) \/ Submit(c, t)
    <3>1. /\ UNCHANGED <<status_on, own_lock, did_work, releaser>>
          /\ \E v \in {"woken", "out"} : app' = [app EXCEPT ![c][t] = v]
      BY <2>3 DEF SpuriousWake, Submit
    <3>2. \A u \in Threads : app'[c][u] = "cleared" => app[c][u] = "cleared"
      BY <1>0, <3>1 DEF ClientTypeOK
    <3>3. QED
      BY <3>1, <3>2 DEF Undisturbed
  <2>4. QED
    BY <2>1, <2>2, <2>3
<1>11. CASE ReleaserNext(c)
  <2>1. UNCHANGED <<status_on, app>>
    BY <1>11 DEF ReleaserNext, ReleaserStart, ReleaserDeadline, ReleaserSignaled, ReleaserNotIdle,
         ReleaserNvml, ReleaserFallback, ReleaserSynced, ReleaserStep
  <2>2. ASSUME releaser' = [releaser EXCEPT ![c] = "waiting"] PROVE releaser'[c] = "waiting"
    BY <1>0, <2>2 DEF ClientTypeOK
  <2>3. ASSUME ReleaseEarly(c) PROVE releaser'[c] = "waiting" /\ ~own_lock'[c]
    BY <1>0, <2>2, <2>3 DEF ReleaseEarly, ReleaserWaits, ClientTypeOK
  <2>4. CASE ReleaserStart(c) \/ ReleaserSignaled(c) \/ ReleaserNotIdle(c)
    BY <2>1, <2>2, <2>4 DEF ReleaserStart, ReleaserSignaled, ReleaserNotIdle, ReleaserWaits,
                            ReleaserStep, NewInterval
  <2>5. CASE ReleaserDeadline(c)
    <3>1. releaser'[c] = "timedout" /\ releaser[c] = "waiting"
      BY <1>0, <2>5 DEF ReleaserDeadline, ReleaserStep, ClientTypeOK
    <3>2. QED
      BY <2>1, <2>5, <3>1 DEF ReleaserDeadline, Undisturbed
  <2>6. CASE ReleaserNvml(c)
    <3>1. releaser[c] = "timedout" /\ status_on[c] /\ own_lock[c] /\ ~did_work[c]
      BY <2>6 DEF ReleaserNvml, ReleaserStep, NotIdle
    <3>2. (ReleaserWaits(c) /\ own_lock' = own_lock) \/ ReleaseEarly(c)
      BY <2>6 DEF ReleaserNvml
    <3>3. QED
      BY <2>1, <2>2, <2>3, <3>1, <3>2 DEF ReleaserWaits, NewInterval
  <2>7. CASE ReleaserFallback(c)
    <3>1. releaser'[c] = "sync" /\ releaser[c] = "timedout"
      BY <1>0, <2>7 DEF ReleaserFallback, ReleaserStep, ClientTypeOK
    <3>2. QED
      BY <2>1, <2>7, <3>1 DEF ReleaserFallback, NotIdle, Synchronises
  <2>8. CASE ReleaserSynced(c)
    <3>1. releaser[c] = "sync" /\ status_on[c] /\ own_lock[c] /\ ~did_work[c]
      BY <2>8 DEF ReleaserSynced, ReleaserStep, Rested
    <3>2. (ReleaserWaits(c) /\ own_lock' = own_lock) \/ ReleaseEarly(c)
      BY <2>8 DEF ReleaserSynced
    <3>3. QED
      BY <2>1, <2>2, <2>3, <3>1, <3>2 DEF ReleaserWaits, NewInterval
  <2>9. QED
    BY <1>11, <2>4, <2>5, <2>6, <2>7, <2>8 DEF ReleaserNext
<1>12. QED
  BY <1>1, <1>2, <1>3, <1>4, <1>5, <1>6, <1>7, <1>8, <1>10, <1>11 DEF ClientAction, HandlerNext

(* and the other processes, and the scheduler and nvsharectl, leave c alone *)
LEMMA RestOthers ==
    ASSUME NInv, NEW c \in Clients, Next, ~ClientAction(c)
    PROVE  Undisturbed(c)
<1>1. CASE UNCHANGED clientVars
  BY <1>1 DEF clientVars, Undisturbed
<1>2. ASSUME NEW d \in Clients, ClientAction(d), d # c PROVE Undisturbed(c)
  <2>1. Others(d)
    BY <1>2, ClientKinds
  <2>2. did_work'[c] = did_work[c]
    <3>1. did_work' = did_work \/ \E w : did_work' = [did_work EXCEPT ![d] = w]
      BY <1>2 DEF ClientAction, Start, HandlerNext, InitialStatus, OnLockOk, OnDropLock, DropDone,
           OnSchedOn, OnSchedOff, LoseScheduler, Gone, Crash, AppNext, continue_with_lock, WakeUp,
           PassOrWait, SpuriousWake, Submit, GpuDone, ReleaserNext, ReleaserStart,
           ReleaserDeadline, ReleaserSignaled, ReleaserNotIdle, ReleaserNvml, ReleaserFallback,
           ReleaserSynced, ReleaserWaits, ReleaseEarly
    <3>2. QED
      BY <1>2, <3>1 DEF NInv, ClientTypeOK
  <2>3. QED
    BY <1>2, <2>1, <2>2 DEF Others, Undisturbed
<1>3. QED
  BY <1>1, <1>2 DEF Next, nvsharectl

LEMMA NextRInv ==
    ASSUME RInv, [HNext]_hvars
    PROVE  RInv' /\ [\A c \in Clients : EarlyRelease(c) => rested[c]]_hvars
<1>1. NInv'
  BY NextNInv DEF RInv, HNext, hvars
<1>2. CASE HNext
  <2>1. ASSUME NEW c \in Clients PROVE Rested(c)' /\ (EarlyRelease(c) => rested[c])
    BY <1>2, RestKinds, RestOthers, RestedKept DEF RInv, HNext
  <2>2. QED
    BY <1>1, <2>1 DEF RInv
<1>3. CASE UNCHANGED hvars
  <2>1. ASSUME NEW c \in Clients PROVE Rested(c)'
    BY <1>3 DEF RInv, Rested, hvars, vars, clientVars
  <2>2. QED
    BY <1>1, <1>3, <2>1 DEF RInv
<1>4. QED
  BY <1>2, <1>3

(* The lock is released early only after an interval without activity: in    *)
(* release_early_fn() no grant, no CUDA call and no change of status that    *)
(* races the time-out, the NVML query or the fallback's cuda_sync_context()  *)
(* is mistaken for idleness, whatever nvsharectl and the other applications  *)
(* do.                                                                       *)
THEOREM ReleasesAreIdle == HSpec => IdleBeforeRelease
<1>1. HInit => RInv
  <2> SUFFICES ASSUME HInit PROVE RInv
    OBVIOUS
  <2>1. NInv
    BY InitNInv DEF HInit
  <2>2. \A c \in Clients : ~own_lock[c] /\ releaser[c] = "starting"
    BY DEF HInit, Init, ClientInit
  <2>3. QED
    BY <2>1, <2>2 DEF RInv, Rested
<1>2. RInv /\ [HNext]_hvars => RInv' /\ [\A c \in Clients : EarlyRelease(c) => rested[c]]_hvars
  BY NextRInv
<1>3. QED
  BY <1>1, <1>2, PTL DEF HSpec, IdleBeforeRelease

-----------------------------------------------------------------------------
(* No application is given up *)

(* Between two DROP_LOCKs there is a LOCK_OK *)
Alternates(q) ==
    /\ q \in Seq({"LOCK_OK", "DROP_LOCK"})
    /\ \A i, j \in 1..Len(q) : j = i + 1 => ~(q[i] = "DROP_LOCK" /\ q[j] = "DROP_LOCK")

LastDrop(q) == q # <<>> /\ q[Len(q)] = "DROP_LOCK"

(* What a client has not read, while it holds the lock at most once *)
LEMMA AlternatesShort ==
    ASSUME NEW q, Alternates(q)
    PROVE  /\ ~In(q, "LOCK_OK") => Len(q) <= 1
           /\ Once(q, "LOCK_OK") /\ ~LastDrop(q) => Len(q) <= 2
<1>1. Len(q) \in Nat /\ \A i \in 1..Len(q) : q[i] = "LOCK_OK" \/ q[i] = "DROP_LOCK"
  BY ElementOfSeq, LenProperties DEF Alternates
<1>2. ASSUME ~In(q, "LOCK_OK"), Len(q) > 1 PROVE FALSE
  <2>1. 1 \in 1..Len(q) /\ 2 \in 1..Len(q) /\ 2 = 1 + 1
    BY <1>1, <1>2
  <2>2. q[1] = "DROP_LOCK" /\ q[2] = "DROP_LOCK"
    BY <1>1, <1>2, <2>1 DEF In
  <2>3. QED
    BY <2>1, <2>2 DEF Alternates
<1>3. ASSUME Once(q, "LOCK_OK"), ~LastDrop(q), Len(q) > 2 PROVE FALSE
  <2> DEFINE n == Len(q)
             a == n - 1
             b == n - 2
  <2>1. n \in 1..n /\ a \in 1..n /\ b \in 1..n /\ a = b + 1 /\ a # n /\ b # n
    BY <1>1, <1>3
  <2>2. q # <<>>
    BY <1>3
  <2>3. q[n] = "LOCK_OK"
    BY <1>1, <1>3, <2>1, <2>2 DEF LastDrop
  <2> HIDE DEF n, a, b
  <2>4. q[a] # "LOCK_OK" /\ q[b] # "LOCK_OK"
    BY <1>3, <2>1, <2>3 DEF Once, n
  <2>5. q[a] = "DROP_LOCK" /\ q[b] = "DROP_LOCK"
    BY <1>1, <2>1, <2>4 DEF n
  <2>6. QED
    BY <2>1, <2>5 DEF Alternates, n
<1>4. QED
  BY <1>1, <1>2, <1>3

LEMMA AlternatesGrows ==
    ASSUME NEW q, Alternates(q)
    PROVE  /\ Alternates(Append(q, "LOCK_OK"))
           /\ ~LastDrop(q) => Alternates(Append(q, "DROP_LOCK"))
<1> DEFINE S == {"LOCK_OK", "DROP_LOCK"}
<1>1. q \in Seq(S) /\ Len(q) \in Nat
  BY LenProperties DEF Alternates
<1>2. ASSUME NEW x \in S, x = "LOCK_OK" \/ ~LastDrop(q) PROVE Alternates(Append(q, x))
  <2> DEFINE r == Append(q, x)
             n == Len(q)
  <2>1. /\ r \in Seq(S) /\ Len(r) = n + 1 /\ r[n + 1] = x
        /\ \A i \in 1..n : r[i] = q[i]
    BY <1>1, AppendProperties
  <2> HIDE DEF r
  <2>2. ASSUME NEW i \in 1..Len(r), NEW j \in 1..Len(r), j = i + 1
        PROVE  ~(r[i] = "DROP_LOCK" /\ r[j] = "DROP_LOCK")
    <3>1. CASE j = n + 1
      <4>1. i = n /\ i \in 1..n /\ r[i] = q[i] /\ r[j] = x
        BY <1>1, <2>1, <2>2, <3>1
      <4>2. q # <<>>
        BY <4>1
      <4>3. QED
        BY <1>2, <4>1, <4>2 DEF LastDrop
    <3>2. CASE j # n + 1
      <4>1. i \in 1..n /\ j \in 1..n
        BY <1>1, <2>1, <2>2, <3>2
      <4>2. QED
        BY <2>1, <2>2, <4>1 DEF Alternates
    <3>3. QED
      BY <3>1, <3>2
  <2>3. QED
    BY <2>1, <2>2 DEF Alternates, r
<1>3. QED
  BY <1>2

LEMMA AlternatesShrinks ==
    ASSUME NEW q, Alternates(q), q # <<>>
    PROVE  Alternates(Tail(q)) /\ (LastDrop(Tail(q)) => LastDrop(q))
<1> DEFINE S == {"LOCK_OK", "DROP_LOCK"}
           r == Tail(q)
           n == Len(r)
<1>1. /\ q \in Seq(S) /\ r \in Seq(S) /\ Len(q) = n + 1 /\ n \in Nat
      /\ \A i \in 1..n : r[i] = q[i + 1]
  <2>1. q \in Seq(S) /\ Len(q) \in Nat /\ Len(q) # 0
    BY EmptyIffNoLength, LenProperties DEF Alternates
  <2>2. QED
    BY <2>1, HeadTailProperties
<1> HIDE DEF r
<1>2. ASSUME NEW i \in 1..n, NEW j \in 1..n, j = i + 1
      PROVE  ~(r[i] = "DROP_LOCK" /\ r[j] = "DROP_LOCK")
  <2>1. i + 1 \in 1..Len(q) /\ j + 1 \in 1..Len(q) /\ j + 1 = (i + 1) + 1
    BY <1>1, <1>2
  <2>2. QED
    BY <1>1, <2>1 DEF Alternates
<1>3. ASSUME LastDrop(r) PROVE LastDrop(q)
  <2>1. n # 0
    BY <1>1, <1>3, EmptyIffNoLength DEF LastDrop
  <2>2. n \in 1..n /\ r[n] = q[n + 1]
    BY <1>1, <2>1
  <2>3. QED
    BY <1>1, <1>3, <2>2 DEF LastDrop
<1>4. QED
  BY <1>1, <1>2, <1>3 DEF Alternates, r

(* The last message *)
LEMMA LastWritten ==
    ASSUME NEW q \in Seq(Messages), NEW x \in Messages
    PROVE  LastDrop(Append(q, x)) <=> x = "DROP_LOCK"
<1>1. Len(Append(q, x)) = Len(q) + 1 /\ Append(q, x)[Len(q) + 1] = x
  BY AppendProperties
<1>2. Append(q, x) # <<>>
  BY WriteChannel
<1>3. QED
  BY <1>1, <1>2 DEF LastDrop

LEMMA NothingAlternates == Alternates(<<>>) /\ ~LastDrop(<<>>) /\ ~LastDrop(<<"SCHED_ON">>)
<1>1. Len(<<>>) = 0 /\ \A i : i \in 1..0 => FALSE
  OBVIOUS
<1>2. <<>> \in Seq({"LOCK_OK", "DROP_LOCK"})
  BY EmptySeq
<1>3. QED
  BY <1>1, <1>2 DEF Alternates, LastDrop

(* What application c has not read yet, and the connection it has *)
Heard(c) ==
    /\ proc[c] = "up" => Alternates(toClient[c])
    /\ proc[c] = "boot" => toClient[c] \in {<<>>, <<"SCHED_ON">>}
    /\ lock_held /\ requests[1] = c /\ LastDrop(toClient[c]) => drop_lock_sent /\ ~round_changed
    /\ c \notin registered => proc[c] # "up" /\ (proc[c] = "boot" => toClient[c] = <<>>)
    /\ c \in (clients \cup backlog) \ registered => toSched[c] = <<"REGISTER">>
    /\ ~EpollAddMayFail /\ proc[c] # "down" => c \in clients \cup backlog

(* An event of the batch waits for its client, and no other does *)
Batch ==
    \A c \in Conns :
        /\ In(events, c) => c \in clients /\ (toSched[c] # <<>> \/ ~peer[c])
        /\ Once(events, c)

(* While the scheduler runs *)
Healthy ==
    /\ \A c \in Clients : Heard(c)
    /\ must_reset_timer => round_changed
    /\ registered \subseteq Clients
    /\ Batch

CInv ==
    /\ LInv
    /\ commands \in Seq({"SCHED_ON"})
    /\ \A c \in Ctls : toSched[c] \in Seq({"SCHED_ON"}) /\ ~peer[c]
    /\ exited # "fatal"
    /\ exited = "no" => Healthy

(* write() may raise SIGPIPE, but there is room for what it writes *)
Roomy == SigpipeFatal /\ SockBuf >= 3

LEMMA Room ==
    ASSUME Roomy, CInv, exited = "no", NEW d \in clients, ~(lock_held /\ requests[1] = d)
    PROVE  send_result(State, d) # "fail"
<1>0. /\ IInv /\ d \in Conns /\ peer \in [Conns -> BOOLEAN] /\ Healthy /\ SockBuf \in Nat
      /\ State.toClient = toClient
  BY SchedFacts, SockBufAssumption DEF CInv, LInv, NInv, State
<1>1. SUFFICES ASSUME peer[d] PROVE Len(toClient[d]) <= 1
  <2>1. CASE ~peer[d]
    BY <2>1 DEF send_result, Roomy
  <2>2. CASE peer[d]
    <3>1. Len(toClient[d]) <= 1 /\ Len(toClient[d]) \in Nat
      <4>1. toClient[d] \in Seq(Messages)
        BY <1>0, SchedFacts
      <4>2. QED
        BY <1>1, <2>2, <4>1, LenProperties
    <3>2. ~(Len(toClient[d]) >= SockBuf)
      BY <1>0, <3>1 DEF Roomy
    <3>3. QED
      BY <1>0, <2>2, <3>2 DEF send_result
  <2>3. QED
    BY <2>1, <2>2
<1>2. d \in Clients
  BY <1>0, <1>1, CtlsAssumption DEF CInv
<1>3. proc[d] \in {"boot", "up"} /\ Heard(d) /\ Places(d)
  BY <1>0, <1>1, <1>2 DEF Healthy, CInv, LInv, NInv, Channels, ClientTypeOK
<1>4. CASE proc[d] = "boot"
  <2>1. toClient[d] = <<>> \/ toClient[d] = <<"SCHED_ON">>
    BY <1>3, <1>4 DEF Heard
  <2>2. Len(<<>>) <= 1 /\ Len(<<"SCHED_ON">>) <= 1
    OBVIOUS
  <2>3. QED
    BY <2>1, <2>2, Zenon
<1>5. CASE proc[d] = "up"
  <2>1. ~In(toClient[d], "LOCK_OK") /\ Alternates(toClient[d])
    BY <1>3, <1>5 DEF Places, HasLock, Granted, Heard
  <2>2. QED
    BY <2>1, AlternatesShort
<1>6. QED
  BY <1>3, <1>4, <1>5

(* There is room for DROP_LOCK in the channel to the holder *)
LEMMA HolderRoom ==
    ASSUME Roomy, CInv, exited = "no", lock_held, ~drop_lock_sent
    PROVE  send_result(State, requests[1]) # "fail"
<1> DEFINE h == requests[1]
<1>0. /\ IInv /\ In(requests, h) /\ h \in registered /\ Healthy /\ SockBuf \in Nat
      /\ State.toClient = toClient /\ peer \in [Conns -> BOOLEAN]
  BY SchedFacts, SockBufAssumption DEF CInv, LInv, NInv, State
<1>1. h \in Clients /\ h \in Conns /\ Heard(h) /\ Places(h)
  BY <1>0, ClientsAssumption DEF Healthy, CInv, LInv
<1> HIDE DEF h
<1>2. CASE ~peer[h]
  BY <1>2 DEF send_result, Roomy, h
<1>3. CASE peer[h]
  <2>1. proc[h] = "up"
    BY <1>0, <1>1, <1>3 DEF CInv, LInv, NInv, Channels, Idle, Context, Pending
  <2>2. ~LastDrop(toClient[h]) /\ Alternates(toClient[h]) /\ Once(toClient[h], "LOCK_OK")
    BY <1>0, <1>1, <2>1 DEF Heard, Places, h
  <2>3. Len(toClient[h]) <= 2 /\ Len(toClient[h]) \in Nat
    <3>1. toClient[h] \in Seq(Messages)
      BY <1>0, <1>1, SchedFacts
    <3>2. QED
      BY <2>2, <3>1, AlternatesShort, LenProperties
  <2>4. ~(Len(toClient[h]) >= SockBuf)
    BY <1>0, <2>3 DEF Roomy
  <2>5. QED
    BY <1>0, <1>3, <2>4 DEF send_result, h
<1>4. QED
  BY <1>2, <1>3

(* A client that registers is registered, or the scheduler dies of it *)
LEMMA RegisterJoins ==
    ASSUME NEW s \in Records, NEW c \in Conns, c \notin s.registered, send_result(s, c) # "fail"
    PROVE  LET t == register_client(s, c)
           IN  c \in t.registered \/ t.exited = "sigpipe"
<1> DEFINE st == IF s.on THEN "SCHED_ON" ELSE "SCHED_OFF"
           out == [s.toClient EXCEPT ![c] = Append(s.toClient[c], st)]
           t == [s EXCEPT !.toClient = out, !.registered = @ \cup {c}]
           e == [s EXCEPT !.exited = "sigpipe"]
           u == register_client(s, c)
<1>1. u = e \/ u = [Sent(s, c, st) EXCEPT !.registered = @ \cup {c}]
  BY DEF register_client
<1>2. [Sent(s, c, st) EXCEPT !.registered = @ \cup {c}] = t
  BY DEF Sent, Records
<1> HIDE DEF u, out, st
<1>3. c \in t.registered /\ e.exited = "sigpipe"
  BY DEF Records
<1> HIDE DEF t, e
<1>4. c \in u.registered \/ u.exited = "sigpipe"
  BY <1>1, <1>2, <1>3
<1>5. QED
  BY <1>4 DEF u

(* What the handling of an event has to respect *)
Spares(c, m) ==
    /\ \A d \in clients \ clients' : ~peer[d]
    /\ m \in {"SCHED_ON", "SCHED_OFF"} => UNCHANGED toClient
    /\ m = "REGISTER" => c \in registered'
    /\ \A d \in Clients :
          /\ toClient'[d] = Append(toClient[d], "DROP_LOCK") => ~LastDrop(toClient[d])
          /\ lock_held' /\ requests'[1] = d /\ LastDrop(toClient'[d]) =>
                drop_lock_sent' /\ ~round_changed'

LEMMA HandleHeard ==
    ASSUME CInv, LInv', exited = "no", NEW c \in Conns \cup {Lsock},
           NEW m \in Messages \cup {"none"}, HandleStep(c, m), Spares(c, m)
    PROVE  /\ \A d \in Clients : Heard(d)'
           /\ registered' \subseteq Clients
<1>0. /\ IInv /\ IInv' /\ NInv /\ NInv' /\ Healthy /\ Clients \subseteq Conns
      /\ UNCHANGED <<peer, backlog, clientVars, commands>>
      /\ registered \subseteq clients /\ registered' \subseteq Conns
  BY ClientsAssumption, SchedFacts DEF CInv, LInv, NInv, HandleStep, IInv, Sound, Records, State
<1>1. /\ scheduler_on'
      /\ {"LOCK_OK", "DROP_LOCK", "SCHED_ON", "SCHED_OFF"} \subseteq Messages
  BY DEF LInv, AlwaysOn, Messages
<1>2. ASSUME NEW d \in Conns
      PROVE  Reads(c, m, d) /\ Writes(c, m, d) /\ (m # "none" /\ c = d => In(toSched[d], m))
  BY <1>0, HandleChannels DEF HandleStep
<1>3. ASSUME NEW d \in Conns, m = "REGISTER", c = d PROVE d \in Clients /\ d \notin registered
  <2>1. In(toSched[d], "REGISTER")
    BY <1>2, <1>3
  <2>2. d \notin Ctls
    <3>1. SUFFICES ASSUME d \in Ctls PROVE FALSE
      OBVIOUS
    <3>2. toSched[d] \in Seq({"SCHED_ON"})
      BY <3>1 DEF CInv
    <3>3. QED
      BY <2>1, <3>2, ElementOfSeq DEF In
  <2>3. d \in Clients
    BY <2>2, CtlsAssumption
  <2>4. QED
    BY <1>0, <2>1, <2>3 DEF NInv, Channels
<1>4. registered' \subseteq Clients
  BY <1>0, <1>2, <1>3 DEF Reads, Healthy
<1>5. ASSUME NEW d \in Clients PROVE Heard(d)'
  <2>0. /\ Reads(c, m, d) /\ Writes(c, m, d) /\ d \in Conns /\ Heard(d)
        /\ Channels(d) /\ Idle(d) /\ Context(d) /\ Context(d)'
        /\ toClient[d] \in Seq(Messages) /\ proc'[d] = proc[d] /\ cuda_ctx_ok'[d] = cuda_ctx_ok[d]
    BY <1>0, <1>2, SchedFacts DEF NInv, Healthy, clientVars
  <2>1. \/ toClient'[d] = toClient[d]
        \/ toClient'[d] = Append(toClient[d], "LOCK_OK") /\ In(requests', d)
        \/ toClient'[d] = Append(toClient[d], "DROP_LOCK") /\ In(requests, d)
        \/ /\ toClient'[d] = Append(toClient[d], "SCHED_ON") /\ d \in registered'
           /\ m = "REGISTER" /\ c = d
    BY <1>1, <2>0 DEF Writes, Spares
  <2>2. ASSUME proc[d] = "up" PROVE Alternates(toClient'[d])
    <3>1. Alternates(toClient[d]) /\ d \in registered
      BY <2>0, <2>2 DEF Heard
    <3>2. ~(m = "REGISTER" /\ c = d)
      BY <1>3, <2>0, <3>1
    <3>3. toClient'[d] = Append(toClient[d], "DROP_LOCK") => ~LastDrop(toClient[d])
      BY DEF Spares
    <3>4. QED
      BY <2>1, <3>1, <3>2, <3>3, AlternatesGrows
  <2>3. ASSUME proc[d] = "boot" PROVE toClient'[d] \in {<<>>, <<"SCHED_ON">>}
    <3>1. ~In(requests, d) /\ ~In(requests', d)
      BY <2>0, <2>3 DEF Idle, Context, Pending
    <3>2. CASE toClient'[d] = toClient[d]
      BY <2>0, <2>3, <3>2 DEF Heard
    <3>3. CASE toClient'[d] = Append(toClient[d], "SCHED_ON") /\ m = "REGISTER" /\ c = d
      <4>1. toClient[d] = <<>>
        BY <1>3, <2>0, <2>3, <3>3 DEF Heard
      <4>2. Append(<<>>, "SCHED_ON") = <<"SCHED_ON">>
        OBVIOUS
      <4>3. QED
        BY <3>3, <4>1, <4>2
    <3>4. QED
      BY <2>1, <3>1, <3>2, <3>3
  <2>4. ASSUME d \notin registered'
        PROVE  proc[d] # "up" /\ (proc[d] = "boot" => toClient'[d] = <<>>)
    <3>1. CASE d \in registered
      <4>1. d \in clients \ clients'
        BY <1>0, <2>0, <2>4, <3>1 DEF Reads
      <4>2. ~peer[d]
        BY <4>1 DEF Spares
      <4>3. QED
        BY <2>0, <4>2 DEF Channels
    <3>2. CASE d \notin registered
      <4>1. proc[d] # "up" /\ (proc[d] = "boot" => toClient[d] = <<>>)
        BY <2>0, <3>2 DEF Heard
      <4>2. proc[d] = "boot" => ~In(requests, d) /\ ~In(requests', d)
        BY <2>0 DEF Idle, Context, Pending
      <4>3. QED
        BY <2>1, <2>4, <4>1, <4>2
    <3>3. QED
      BY <3>1, <3>2
  <2>5. ASSUME d \in (clients' \cup backlog') \ registered' PROVE toSched'[d] = <<"REGISTER">>
    <3>1. d \in backlog => d \notin clients /\ d \notin registered
      BY <1>0, <2>0 DEF Channels
    <3>2. d \notin registered /\ d \in clients \cup backlog /\ d \notin clients \ clients'
      BY <1>0, <2>0, <2>5, <3>1 DEF Reads
    <3>3. toSched[d] = <<"REGISTER">>
      BY <2>0, <3>2 DEF Heard
    <3>4. ~(m # "none" /\ c = d)
      <4>1. SUFFICES ASSUME m # "none", c = d PROVE FALSE
        OBVIOUS
      <4>2. m = "REGISTER"
        BY <2>0, <3>3, <4>1 DEF Reads
      <4>3. QED
        BY <2>5, <4>1, <4>2 DEF Spares
    <3>5. QED
      BY <2>0, <3>2, <3>3, <3>4 DEF Reads
  <2>6. ASSUME ~EpollAddMayFail, proc[d] # "down" PROVE d \in clients' \cup backlog'
    <3>1. d \in clients \cup backlog /\ peer[d]
      BY <2>0, <2>6 DEF Heard, Channels
    <3>2. QED
      BY <1>0, <3>1 DEF Spares
  <2>7. QED
    BY <2>0, <2>2, <2>3, <2>4, <2>5, <2>6 DEF Heard, Spares
<1>6. QED
  BY <1>4, <1>5

(* The main thread writes no DROP_LOCK, and who gets the lock reads LOCK_OK  *)
(* after all that was written before.                                        *)
LEMMA TimingSpares ==
    ASSUME CInv, exited = "no", NEW c, NEW m, HandleStep(c, m), Timing(State, State'),
           UNCHANGED drop_lock_sent
    PROVE  /\ \A d \in Clients :
                 /\ toClient'[d] # Append(toClient[d], "DROP_LOCK")
                 /\ lock_held' /\ requests'[1] = d /\ LastDrop(toClient'[d]) =>
                       drop_lock_sent' /\ ~round_changed'
           /\ must_reset_timer' => round_changed'
<1>0. /\ IInv /\ Healthy /\ Clients \subseteq Conns
      /\ {"LOCK_OK", "DROP_LOCK", "SCHED_ON", "SCHED_OFF"} \subseteq Messages
  BY ClientsAssumption DEF CInv, LInv, NInv, Messages
<1>1. /\ \A d \in Conns : toClient'[d] # Append(toClient[d], "DROP_LOCK")
      /\ \/ /\ round_changed' = round_changed /\ must_reset_timer' = must_reset_timer
            /\ lock_held' => lock_held /\ requests'[1] = requests[1]
            /\ \A d \in Conns : toClient'[d] # Append(toClient[d], "LOCK_OK")
         \/ /\ round_changed' /\ must_reset_timer' /\ lock_held'
            /\ \E d \in Conns : toClient'[d] = Append(toClient[d], "LOCK_OK")
  BY DEF Timing, State
<1>2. must_reset_timer' => round_changed'
  <2>1. must_reset_timer => round_changed
    BY <1>0 DEF Healthy
  <2>2. \/ round_changed' = round_changed /\ must_reset_timer' = must_reset_timer
        \/ round_changed'
    BY <1>1
  <2>3. QED
    BY <2>1, <2>2, Zenon
<1>3. ASSUME NEW d \in Clients, lock_held', requests'[1] = d, LastDrop(toClient'[d])
      PROVE  drop_lock_sent' /\ ~round_changed'
  <2>0. d \in Conns /\ toClient[d] \in Seq(Messages) /\ Writes(c, m, d) /\ Heard(d)
    BY <1>0, SchedFacts DEF HandleStep, Healthy
  <2>1. \A x \in {"LOCK_OK", "SCHED_ON", "SCHED_OFF"} : toClient'[d] # Append(toClient[d], x)
    BY <1>0, <1>3, <2>0, LastWritten
  <2>2. toClient'[d] = toClient[d]
    BY <1>1, <2>0, <2>1 DEF Writes
  <2>3. ASSUME NEW e \in Conns, toClient'[e] = Append(toClient[e], "LOCK_OK") PROVE FALSE
    <3>1. Writes(c, m, e) /\ toClient[e] \in Seq(Messages)
      BY <1>0, SchedFacts DEF HandleStep
    <3>2. /\ toClient[e] # Append(toClient[e], "LOCK_OK")
          /\ \A x \in {"DROP_LOCK", "SCHED_ON", "SCHED_OFF"} :
                Append(toClient[e], "LOCK_OK") # Append(toClient[e], x)
      BY <1>0, <3>1, DifferentMessages
    <3>3. requests'[1] = e
      BY <2>3, <3>1, <3>2 DEF Writes
    <3>4. QED
      BY <1>3, <2>1, <2>3, <3>3
  <2>4. /\ round_changed' = round_changed /\ lock_held /\ requests[1] = d
    BY <1>1, <1>3, <2>3
  <2>5. QED
    BY <1>3, <2>0, <2>2, <2>4 DEF Heard
<1>4. QED
  BY <1>0, <1>1, <1>2, <1>3

(* Nobody else's event is touched by the handling of c's *)
LEMMA BatchShrinks ==
    ASSUME IInv, Batch, NEW e, NextEvent(e),
           \A d \in Conns : In(events, d) /\ d # e =>
               d \in clients' /\ (toSched'[d] # <<>> \/ ~peer'[d])
    PROVE  Batch'
<1>1. events # <<>> /\ events \in Seq(Conns \cup {Lsock})
  BY DEF IInv, RestOK, NextEvent
<1>2. /\ \A d : In(events, d) <=> In(Tail(events), d) \/ d = Head(events)
      /\ \A d : Once(events, d) =>
            Once(Tail(events), d) /\ ~(Head(events) = d /\ In(Tail(events), d))
  BY <1>1, ReadChannel
<1>3. e = Head(events) /\ events' = Tail(events)
  BY DEF NextEvent
<1>4. ASSUME NEW d \in Conns
      PROVE  /\ In(events', d) => d \in clients' /\ (toSched'[d] # <<>> \/ ~peer'[d])
             /\ Once(events', d)
  BY <1>2, <1>3 DEF Batch
<1>5. QED
  BY <1>4 DEF Batch

(* The event that is handled is of the batch *)
LEMMA EventIsMine ==
    ASSUME IInv, Batch, NEW c \in Conns, NextEvent(c)
    PROVE  In(events, c) /\ c \in clients /\ (toSched[c] # <<>> \/ ~peer[c])
<1>1. events # <<>> /\ events \in Seq(Conns \cup {Lsock}) /\ c = Head(events)
  BY DEF IInv, RestOK, NextEvent
<1>2. In(events, c)
  BY <1>1, ReadChannel
<1>3. QED
  BY <1>2 DEF Batch

(* After the handling of the message m of c, or of its end *)
LEMMA EventHealthy ==
    ASSUME CInv, LInv', exited = "no", NEW c \in Conns, NEW m \in Messages \cup {"none"},
           HandleStep(c, m), NextEvent(c), Timing(State, State'),
           \A d \in clients \ clients' : ~peer[d] /\ d = c,
           m \in {"SCHED_ON", "SCHED_OFF"} => UNCHANGED toClient,
           m = "REGISTER" => c \in registered'
    PROVE  Healthy'
<1>0. IInv /\ Healthy /\ Batch /\ UNCHANGED drop_lock_sent /\ UNCHANGED peer
  BY DEF CInv, LInv, NInv, Healthy, NextEvent, HandleStep
<1>1. /\ \A d \in Clients :
            /\ toClient'[d] # Append(toClient[d], "DROP_LOCK")
            /\ lock_held' /\ requests'[1] = d /\ LastDrop(toClient'[d]) =>
                  drop_lock_sent' /\ ~round_changed'
      /\ must_reset_timer' => round_changed'
  BY <1>0, TimingSpares
<1>2. Spares(c, m)
  BY <1>1 DEF Spares
<1>3. (\A d \in Clients : Heard(d)') /\ registered' \subseteq Clients
  BY <1>2, HandleHeard
<1>4. ASSUME NEW d \in Conns, In(events, d), d # c
      PROVE  d \in clients' /\ (toSched'[d] # <<>> \/ ~peer'[d])
  <2>1. Reads(c, m, d) /\ d \in clients /\ (toSched[d] # <<>> \/ ~peer[d])
    BY <1>0, <1>4 DEF HandleStep, Batch
  <2>2. d \in clients'
    BY <1>4, <2>1
  <2>3. QED
    BY <1>0, <1>4, <2>1, <2>2 DEF Reads
<1>5. Batch'
  BY <1>0, <1>4, BatchShrinks
<1>6. QED
  BY <1>1, <1>3, <1>5 DEF Healthy

(* A message is handled without a failing write *)
LEMMA ReceiveSpares ==
    ASSUME Roomy, CInv, exited = "no", NEW c \in Conns, ReceiveMsg(c)
    PROVE  /\ clients' = clients /\ exited' \in {"no", "sigpipe"}
           /\ Head(toSched[c]) # "SET_TQ"
           /\ Head(toSched[c]) \in {"SCHED_ON", "SCHED_OFF"} => UNCHANGED toClient
           /\ Head(toSched[c]) = "REGISTER" /\ exited' = "no" => c \in registered'
<1> DEFINE in == [toSched EXCEPT ![c] = Tail(toSched[c])]
           s == Popped(c)
           m == Head(toSched[c])
           u == process_msg(s, c, m)
<1>0. /\ IInv /\ Healthy /\ NInv /\ Sound(State) /\ State \in Records
      /\ toSched \in [Conns -> Seq(Messages)]
      /\ c \in clients /\ toSched[c] # <<>> /\ scheduler_on /\ clients \subseteq Conns
  BY SchedFacts DEF CInv, LInv, NInv, AlwaysOn, IInv, Sound, ReceiveMsg
<1>1. Become(u)
  BY DEF ReceiveMsg, Popped, State
<1>2. m \in Messages /\ Tail(toSched[c]) \in Seq(Messages) /\ In(toSched[c], m)
  BY <1>0, ReadChannel
<1>3. in \in [Conns -> Seq(Messages)] /\ s = [State EXCEPT !.toSched = in]
  BY <1>0, <1>2 DEF Popped
<1> HIDE DEF in, s
<1>4. /\ Sound(s) /\ s \in Records /\ s.on /\ s.clients = clients /\ s.registered = registered
      /\ s.requests = requests /\ s.held = lock_held /\ s.toClient = toClient /\ s.exited = "no"
  BY <1>0, <1>3 DEF Sound, Records, State
<1>5. c \in Ctls => m = "SCHED_ON"
  <2>1. SUFFICES ASSUME c \in Ctls PROVE m = "SCHED_ON"
    OBVIOUS
  <2>2. toSched[c] \in Seq({"SCHED_ON"})
    BY <2>1 DEF CInv
  <2>3. QED
    BY <1>2, <2>2, ElementOfSeq DEF In
<1>6. c \in Clients => m \in ClientMessages
  <2>1. SUFFICES ASSUME c \in Clients PROVE m \in ClientMessages
    OBVIOUS
  <2>2. toSched[c] \in Seq(ClientMessages)
    BY <1>0, <2>1 DEF NInv, Channels
  <2>3. QED
    BY <1>2, <2>2, ElementOfSeq DEF In
<1>7. c \in Clients \/ c \in Ctls
  BY CtlsAssumption
<1> HIDE DEF m
<1>8. m # "SET_TQ" /\ m # "SCHED_OFF"
  BY <1>5, <1>6, <1>7 DEF ClientMessages
<1>9. \A d \in clients : (lock_held /\ requests[1] = d) \/ send_result(s, d) # "fail"
  <2>1. \A d : send_result(s, d) = send_result(State, d)
    BY <1>4, SameResult DEF State
  <2>2. QED
    BY <2>1, Room
<1>10. Answerable(s, c)
  <2>1. \A d \in Conns : In(requests, d) => d \in clients
    BY <1>0, SchedFacts
  <2>2. QED
    BY <1>0, <1>4, <1>9, <2>1 DEF Answerable
<1>11. ASSUME m = "REGISTER" PROVE c \notin registered /\ send_result(s, c) # "fail"
  <2>1. c \in Clients
    BY <1>5, <1>7, <1>11
  <2>2. c \notin registered
    BY <1>0, <1>2, <1>11, <2>1 DEF NInv, Channels
  <2>3. ~(lock_held /\ requests[1] = c)
    BY <1>0, <2>2, SchedFacts
  <2>4. QED
    BY <1>0, <1>9, <2>2, <2>3
<1>12. ASSUME m \in {"REQ_LOCK", "LOCK_RELEASED"} PROVE c \in registered
  <2>1. c \in Clients
    BY <1>5, <1>7, <1>12
  <2>2. SUFFICES ASSUME c \notin registered PROVE FALSE
    OBVIOUS
  <2>3. toSched[c] = <<"REGISTER">>
    BY <1>0, <2>1, <2>2 DEF Healthy, Heard
  <2>4. m = "REGISTER"
    BY <2>3 DEF m
  <2>5. QED
    BY <1>12, <2>4
<1>13. Closes(s, u, {})
  BY <1>2, <1>4, <1>8, <1>10, <1>11, <1>12, ProcessMsgCloses
<1>14. m = "SCHED_ON" => u = s
  BY <1>4 DEF process_msg
<1>15. m = "REGISTER" => c \in u.registered \/ u.exited = "sigpipe"
  <2>1. SUFFICES ASSUME m = "REGISTER" PROVE c \in u.registered \/ u.exited = "sigpipe"
    OBVIOUS
  <2>2. u = register_client(s, c)
    BY <2>1 DEF process_msg
  <2>3. QED
    BY <1>4, <1>11, <2>1, <2>2, RegisterJoins
<1> HIDE DEF u
<1>16. /\ clients' = u.clients /\ exited' = u.exited /\ registered' = u.registered
       /\ toClient' = u.toClient
  BY <1>1 DEF Become
<1>17. clients' = clients /\ exited' \in {"no", "sigpipe"}
  BY <1>4, <1>13, <1>16 DEF Closes
<1>18. m \in {"SCHED_ON", "SCHED_OFF"} => toClient' = toClient
  BY <1>4, <1>8, <1>14, <1>16
<1>19. m = "REGISTER" /\ exited' = "no" => c \in registered'
  BY <1>15, <1>16
<1>20. QED
  BY <1>8, <1>17, <1>18, <1>19 DEF m

(* The end of a connection closes that connection *)
LEMMA HangupSpares ==
    ASSUME Roomy, CInv, exited = "no", NEW c \in Conns, Hangup(c)
    PROVE  clients' = clients \ {c} /\ exited' \in {"no", "sigpipe"} /\ ~peer[c]
<1> DEFINE u == after_hangup(delete_client(State, c))
<1>0. /\ IInv /\ Healthy /\ Sound(State) /\ c \in clients /\ clients \subseteq Conns
      /\ State.clients = clients /\ State.exited = exited /\ State.requests = requests
      /\ State.held = lock_held
  BY SchedFacts DEF CInv, LInv, NInv, IInv, Hangup, State
<1>1. ~peer[c]
  BY <1>0, EventIsMine DEF Healthy, Hangup
<1>2. \A d \in Conns : In(requests, d) => d \in clients
  BY <1>0, SchedFacts
<1>3. Answerable(State, c)
  BY <1>0, <1>2, Room DEF Answerable
<1>4. Closes(State, u, {c})
  BY <1>0, <1>3, HangupCloses
<1>5. Become(u)
  BY DEF Hangup
<1> HIDE DEF u
<1>6. clients' = u.clients /\ exited' = u.exited
  BY <1>5 DEF Become
<1>7. QED
  BY <1>0, <1>1, <1>4, <1>6 DEF Closes

(* The timer thread asks the holder once, and has room to *)
LEMMA TimerSpares ==
    ASSUME Roomy, CInv, LInv', exited = "no", TimerNext, UNCHANGED <<clientVars, commands>>
    PROVE  exited' # "fatal" /\ (exited' = "no" => Healthy')
<1>0. /\ IInv /\ Healthy /\ HandleStep(Lsock, "none") /\ Sound(State) /\ State \in Records
      /\ toClient \in [Conns -> Seq(Messages)] /\ Clients \subseteq Conns
      /\ "DROP_LOCK" \in Messages
  BY TimerHandles, SchedFacts, ClientsAssumption DEF CInv, LInv, NInv, IInv, Sound, Messages
<1>1. UNCHANGED <<peer, events>>
  BY DEF TimerNext, TimerStart, TimerDeadline, TimerSpurious, TimerSignaled, TimerIdle,
         TimerOldRound, TimerDrop, TimerStep
<1>2. ASSUME UNCHANGED <<clients, toSched, requests, lock_held>>,
             must_reset_timer' => round_changed',
             \A d \in Clients :
                 /\ toClient'[d] = Append(toClient[d], "DROP_LOCK") => ~LastDrop(toClient[d])
                 /\ lock_held /\ requests[1] = d /\ LastDrop(toClient'[d]) =>
                       drop_lock_sent' /\ ~round_changed'
      PROVE  Healthy'
  <2>1. Spares(Lsock, "none")
    BY <1>2 DEF Spares
  <2>2. (\A d \in Clients : Heard(d)') /\ registered' \subseteq Clients
    BY <1>0, <2>1, HandleHeard
  <2>3. Batch'
    BY <1>0, <1>1, <1>2 DEF Healthy, Batch
  <2>4. QED
    BY <1>2, <2>2, <2>3 DEF Healthy
<1>3. ASSUME UNCHANGED <<clients, toSched, requests, lock_held, toClient, exited>>,
             \/ UNCHANGED <<round_changed, must_reset_timer, drop_lock_sent>>
             \/ ~must_reset_timer' /\ ~round_changed' /\ (round_changed \/ UNCHANGED drop_lock_sent)
      PROVE  exited' = "no" /\ Healthy'
  <2>1. must_reset_timer' => round_changed'
    <3>1. must_reset_timer => round_changed
      BY <1>0 DEF Healthy
    <3>2. \/ round_changed' = round_changed /\ must_reset_timer' = must_reset_timer
          \/ ~must_reset_timer'
      BY <1>3
    <3>3. QED
      BY <3>1, <3>2, Zenon
  <2>2. ASSUME NEW d \in Clients
        PROVE  /\ toClient'[d] # Append(toClient[d], "DROP_LOCK")
               /\ lock_held /\ requests[1] = d /\ LastDrop(toClient'[d]) =>
                     drop_lock_sent' /\ ~round_changed'
    <3>1. toClient'[d] # Append(toClient[d], "DROP_LOCK")
      BY <1>0, <1>3, NotAppended
    <3>2. Heard(d)
      BY <1>0 DEF Healthy
    <3>3. QED
      BY <1>3, <3>1, <3>2 DEF Heard
  <2>3. QED
    BY <1>2, <1>3, <2>1, <2>2
<1>4. ASSUME Become(Arm(State)), round_changed \/ UNCHANGED drop_lock_sent
      PROVE  exited' = "no" /\ Healthy'
  <2>1. /\ UNCHANGED <<clients, toSched, requests, lock_held, toClient, exited>>
        /\ ~must_reset_timer' /\ ~round_changed'
    BY <1>4 DEF Become, Arm, State
  <2>2. QED
    BY <1>3, <1>4, <2>1
<1>5. ASSUME NEW w, Become([State EXCEPT !.timer = w]), UNCHANGED drop_lock_sent
      PROVE  exited' = "no" /\ Healthy'
  <2>1. UNCHANGED <<clients, toSched, requests, lock_held, toClient, exited, round_changed,
                    must_reset_timer>>
    BY <1>5 DEF Become, State
  <2>2. QED
    BY <1>3, <1>5, <2>1
<1>6. CASE TimerStart \/ TimerIdle \/ TimerOldRound
  BY <1>4, <1>6 DEF TimerStart, TimerIdle, TimerOldRound
<1>7. CASE TimerDeadline \/ TimerSpurious
  BY <1>5, <1>7 DEF TimerDeadline, TimerSpurious
<1>8. CASE TimerSignaled
  <2>1. must_reset_timer => round_changed
    BY <1>0 DEF Healthy
  <2>2. QED
    BY <1>4, <1>5, <1>8, <2>1 DEF TimerSignaled
<1>9. CASE TimerDrop
  <2> DEFINE holder == requests[1]
             out == [toClient EXCEPT ![holder] = Append(toClient[holder], "DROP_LOCK")]
             x == [State EXCEPT !.toClient = out]
             e == [State EXCEPT !.exited = "sigpipe"]
  <2>1. lock_held /\ ~drop_lock_sent /\ ~round_changed
    BY <1>9 DEF TimerDrop, TimerNothingToDo
  <2>2. send_result(State, holder) # "fail"
    BY <2>1, HolderRoom
  <2>3. \/ Become(Arm(Sent(State, holder, "DROP_LOCK"))) /\ drop_lock_sent' = TRUE
        \/ Become(e)
    BY <1>9, <2>2 DEF TimerDrop
  <2>4. CASE Become(e)
    <3>1. exited' = "sigpipe"
      BY <2>4 DEF Become, State
    <3>2. QED
      BY <3>1
  <2>5. CASE Become(Arm(Sent(State, holder, "DROP_LOCK"))) /\ drop_lock_sent' = TRUE
    <3>1. Sent(State, holder, "DROP_LOCK") = x
      BY DEF Sent, State
    <3> HIDE DEF holder, out
    <3>2. /\ ~must_reset_timer' /\ ~round_changed' /\ toClient' = out
          /\ UNCHANGED <<clients, toSched, requests, lock_held, exited>>
      BY <2>5, <3>1 DEF Become, Arm, State
    <3>3. ASSUME NEW d \in Clients, toClient'[d] = Append(toClient[d], "DROP_LOCK")
          PROVE  ~LastDrop(toClient[d])
      <4>1. toClient'[d] # toClient[d]
        BY <1>0, <3>3, NotAppended
      <4>2. d = holder
        BY <1>0, <3>2, <4>1 DEF out
      <4>3. Heard(d)
        BY <1>0 DEF Healthy
      <4>4. QED
        BY <2>1, <4>2, <4>3 DEF Heard, holder
    <3>4. Healthy'
      BY <1>2, <2>5, <3>2, <3>3
    <3>5. QED
      BY <3>2, <3>4
  <2>6. QED
    BY <2>3, <2>4, <2>5
<1>10. QED
  BY <1>6, <1>7, <1>8, <1>9 DEF TimerNext

(* A connection is accepted or refused *)
LEMMA AcceptSpares ==
    ASSUME CInv, exited = "no", NEW c \in Conns, Accept(c) \/ AcceptFails(c),
           UNCHANGED <<clientVars, commands>>
    PROVE  exited' = "no" /\ Healthy'
<1>0. /\ IInv /\ NInv /\ Healthy /\ Clients \subseteq Conns /\ toSched \in [Conns -> Seq(Messages)]
  BY SchedFacts, ClientsAssumption DEF CInv, LInv, NInv
<1>1. /\ UNCHANGED <<toClient, peer, exited, lock_held, must_reset_timer, registered, requests,
                     round_changed, drop_lock_sent>>
      /\ NextEvent(Lsock) /\ c \in backlog /\ backlog' = backlog \ {c}
      /\ \/ clients' = clients \cup {c} /\ UNCHANGED toSched
         \/ EpollAddMayFail /\ clients' = clients /\ toSched' = [toSched EXCEPT ![c] = <<>>]
  BY DEF Accept, AcceptFails, NextEvent
<1>2. ASSUME NEW d \in Conns, d # c
      PROVE  /\ toSched'[d] = toSched[d] /\ (d \in clients' <=> d \in clients)
             /\ d \in backlog' <=> d \in backlog
  BY <1>0, <1>1, <1>2
<1>3. ASSUME NEW d \in Clients PROVE Heard(d)'
  <2>1. Heard(d) /\ Channels(d) /\ d \in Conns /\ proc'[d] = proc[d]
    BY <1>0 DEF NInv, Healthy, clientVars
  <2>2. CASE d # c
    BY <1>1, <1>2, <2>1, <2>2 DEF Heard
  <2>3. CASE d = c
    <3>1. d \notin clients /\ d \in backlog /\ d \notin backlog'
      BY <1>1, <2>1, <2>3 DEF Channels
    <3>2. d \in clients' \cup backlog' => toSched'[d] = toSched[d]
      BY <1>1, <3>1
    <3>3. ~EpollAddMayFail => d \in clients'
      BY <1>1, <2>3
    <3>4. QED
      BY <1>1, <2>1, <3>1, <3>2, <3>3 DEF Heard
  <2>4. QED
    BY <2>2, <2>3
<1>4. ASSUME NEW d \in Conns, In(events, d), d # Lsock
      PROVE  d \in clients' /\ (toSched'[d] # <<>> \/ ~peer'[d])
  <2>1. d \in clients /\ (toSched[d] # <<>> \/ ~peer[d])
    BY <1>0, <1>4 DEF Healthy, Batch
  <2>2. CASE d # c
    BY <1>1, <1>2, <2>1, <2>2
  <2>3. CASE d = c
    <3>1. d \notin Clients
      BY <1>0, <1>1, <2>1, <2>3 DEF NInv, Channels
    <3>2. d \in Ctls
      BY <3>1, CtlsAssumption
    <3>3. ~peer[d]
      BY <3>2 DEF CInv
    <3>4. QED
      BY <1>1, <2>1, <3>3
  <2>4. QED
    BY <2>2, <2>3
<1>5. Batch'
  BY <1>0, <1>1, <1>4, BatchShrinks DEF Healthy
<1>6. QED
  BY <1>0, <1>1, <1>3, <1>5 DEF Healthy

(* epoll_wait() reports every ready connection once *)
LEMMA EpollSpares ==
    ASSUME CInv, exited = "no", EpollWait, UNCHANGED <<clientVars, commands>>
    PROVE  exited' = "no" /\ Healthy'
<1>0. Healthy /\ Lsock \notin Conns
  BY LsockAssumption DEF CInv
<1>1. PICK n \in 1..MaxEvents : \E e \in Injection(1..n, Ready) : events' = e
  BY DEF EpollWait
<1>2. n \in Nat /\ events' \in [1..n -> Ready]
      /\ \A i, j \in 1..n : events'[i] = events'[j] => i = j
  BY <1>1, MaxEventsAssumption DEF Injection, IsInjective
<1>3. Len(events') = n
  <2>1. DOMAIN events' = 1..n
    BY <1>2
  <2>2. events' \in Seq(Ready)
    BY <1>2, SeqDef
  <2>3. QED
    BY <1>2, <2>1, <2>2, LenProperties
<1>4. UNCHANGED <<toSched, toClient, peer, backlog, clients, exited, lock_held, must_reset_timer,
                  registered, requests, round_changed, drop_lock_sent>>
  BY DEF EpollWait, commVars
<1>5. ASSUME NEW c \in Conns
      PROVE  /\ In(events', c) => c \in clients /\ (toSched[c] # <<>> \/ ~peer[c])
             /\ Once(events', c)
  <2>1. In(events', c) => c \in Ready
    BY <1>2, <1>3 DEF In
  <2>2. c \in Ready => c \in clients /\ (toSched[c] # <<>> \/ ~peer[c])
    BY <1>0 DEF Ready
  <2>3. Once(events', c)
    BY <1>2, <1>3 DEF Once
  <2>4. QED
    BY <2>1, <2>2, <2>3
<1>6. Batch'
  BY <1>4, <1>5 DEF Batch
<1>7. \A d \in Clients : Heard(d)'
  BY <1>0, <1>4 DEF Healthy, Heard, clientVars
<1>8. QED
  BY <1>0, <1>4, <1>6, <1>7 DEF Healthy

LEMMA SchedSpares ==
    ASSUME Roomy, CInv, LInv', SchedNext, UNCHANGED <<clientVars, commands>>
    PROVE  exited' # "fatal" /\ (exited' = "no" => Healthy')
<1>0. exited = "no" /\ IInv /\ Healthy
  BY SchedSteps DEF CInv, LInv, NInv
<1>1. CASE TimerNext
  BY <1>0, <1>1, TimerSpares
<1>2. CASE EpollWait
  BY <1>0, <1>2, EpollSpares
<1>3. ASSUME NEW c \in Conns, Accept(c) \/ AcceptFails(c) PROVE exited' = "no" /\ Healthy'
  BY <1>0, <1>3, AcceptSpares
<1>4. ASSUME NEW c \in Conns, StaleEvent(c) PROVE FALSE
  BY <1>0, <1>4, EventIsMine DEF StaleEvent, Healthy
<1>5. ASSUME NEW c \in Conns, ReceiveMsg(c), MainNext
      PROVE  exited' # "fatal" /\ (exited' = "no" => Healthy')
  <2> DEFINE m == Head(toSched[c])
  <2>1. HandleStep(c, m) /\ m \in Messages
    BY <1>0, <1>5, ReceiveHandles
  <2>2. /\ clients' = clients /\ exited' \in {"no", "sigpipe"}
        /\ m \in {"SCHED_ON", "SCHED_OFF"} => UNCHANGED toClient
        /\ m = "REGISTER" /\ exited' = "no" => c \in registered'
    BY <1>0, <1>5, ReceiveSpares
  <2>3. Timing(State, State')
    <3>1. \A d \in Conns : ReceiveMsg(d) => Head(toSched[d]) # "SET_TQ"
      BY <1>0, ReceiveSpares
    <3>2. QED
      BY <1>0, <1>5, <3>1, MainTiming
  <2>4. NextEvent(c)
    BY <1>5 DEF ReceiveMsg
  <2> HIDE DEF m
  <2>5. ASSUME exited' = "no" PROVE Healthy'
    BY <1>0, <2>1, <2>2, <2>3, <2>4, <2>5, EventHealthy
  <2>6. QED
    BY <2>2, <2>5
<1>6. ASSUME NEW c \in Conns, Hangup(c), MainNext
      PROVE  exited' # "fatal" /\ (exited' = "no" => Healthy')
  <2>1. HandleStep(c, "none")
    BY <1>0, <1>6, HangupHandles
  <2>2. clients' = clients \ {c} /\ exited' \in {"no", "sigpipe"} /\ ~peer[c]
    BY <1>0, <1>6, HangupSpares
  <2>3. Timing(State, State')
    <3>1. \A d \in Conns : ReceiveMsg(d) => Head(toSched[d]) # "SET_TQ"
      BY <1>0, ReceiveSpares
    <3>2. QED
      BY <1>0, <1>6, <3>1, MainTiming
  <2>4. NextEvent(c)
    BY <1>6 DEF Hangup
  <2>5. Healthy'
    BY <1>0, <2>1, <2>2, <2>3, <2>4, EventHealthy
  <2>6. QED
    BY <2>2, <2>5
<1>7. QED
  BY <1>1, <1>2, <1>3, <1>4, <1>5, <1>6 DEF SchedNext, MainNext

(* One step of process c *)
LEMMA OwnHeard ==
    ASSUME NInv, NEW c \in Clients, Wires(c), KindOf(c), Heard(c), Batch
    PROVE  Heard(c)' /\ (In(events, c) => toSched'[c] # <<>> \/ ~peer'[c])
<1>0. /\ IInv /\ c \in Conns /\ Channels(c) /\ ClientTypeOK
      /\ toClient[c] \in Seq(Messages) /\ toSched[c] \in Seq(Messages)
  BY ClientsAssumption, SchedFacts DEF NInv
<1>1. UNCHANGED <<clients, registered, requests, lock_held, round_changed, drop_lock_sent,
                  schedVars>>
  BY DEF Wires, schedVars
<1>2. In(events, c) => c \in clients /\ (toSched[c] # <<>> \/ ~peer[c])
  BY <1>0 DEF Batch
<1>3. CASE Quiet(c)
  BY <1>1, <1>2, <1>3 DEF Quiet, SameWire, Heard
<1>4. CASE Ask(c) \/ Release(c)
  <2>1. /\ toClient'[c] = toClient[c] /\ proc[c] = "up" /\ proc'[c] = "up"
        /\ c \in backlog' <=> c \in backlog
        /\ \E x \in Messages : toSched'[c] = Append(toSched[c], x)
    BY <1>4 DEF Ask, Release, Messages
  <2>2. toSched'[c] # <<>>
    BY <1>0, <2>1, WriteChannel
  <2>3. c \in registered
    BY <2>1 DEF Heard
  <2>4. QED
    BY <1>1, <2>1, <2>2, <2>3 DEF Heard
<1>5. CASE Start(c)
  <2>1. Connect(c, <<"REGISTER">>, TRUE) /\ proc'[c] = "boot"
    BY <1>0, <1>5 DEF Start, ClientTypeOK
  <2>2. <<"REGISTER">> \in Seq(Messages)
    BY NewChannel DEF Messages
  <2>3. toSched'[c] = <<"REGISTER">> /\ toClient'[c] = <<>> /\ c \notin clients /\ c \in backlog'
    BY <1>0, <1>1, <2>1, <2>2, ConnectWires DEF Connect
  <2>4. QED
    BY <1>1, <1>2, <2>1, <2>3, NothingAlternates DEF Heard
<1>6. CASE proc[c] # "down" /\ Gone(c)
  <2>1. proc'[c] = "down" /\ Close(c)
    BY <1>0, <1>6 DEF Gone, ClientTypeOK
  <2>2. /\ toSched'[c] = toSched[c] /\ toClient'[c] = <<>> /\ peer'[c] = FALSE
        /\ c \in backlog' <=> c \in backlog
    BY <1>0, <1>1, <2>1, CloseWires
  <2>3. QED
    BY <1>1, <2>1, <2>2, NothingAlternates DEF Heard
<1>7. CASE InitialStatus(c)
  <2>1. PICK m : Read(c, m)
    BY <1>7 DEF InitialStatus
  <2>2. /\ proc[c] = "boot" /\ proc'[c] = "up"
        /\ UNCHANGED <<toSched, peer, backlog, clients, exited>>
    BY <1>0, <1>7 DEF InitialStatus, ClientTypeOK
  <2>3. toClient[c] # <<>> /\ toClient'[c] = Tail(toClient[c])
    BY <1>0, <1>1, <2>1, <2>2, ReadWires
  <2>4. toClient[c] = <<"SCHED_ON">> /\ c \in registered
    BY <2>2, <2>3 DEF Heard
  <2>5. toClient'[c] = <<>>
    BY <2>3, <2>4
  <2>6. QED
    BY <1>1, <1>2, <2>2, <2>4, <2>5, NothingAlternates DEF Heard
<1>8. CASE OnLockOk(c) \/ OnDropLock(c) \/ OnSchedOn(c) \/ OnSchedOff(c)
  <2>1. PICK m : Receive(c, m)
    BY <1>8 DEF OnLockOk, OnDropLock, OnSchedOn, OnSchedOff
  <2>2. /\ proc[c] = "up" /\ proc'[c] = "up" /\ Read(c, m)
        /\ UNCHANGED <<toSched, peer, backlog, clients, exited>>
    BY <2>1 DEF Receive
  <2>3. toClient[c] # <<>> /\ toClient'[c] = Tail(toClient[c])
    BY <1>0, <1>1, <2>2, ReadWires
  <2>4. c \in registered /\ Alternates(toClient[c])
    BY <2>2 DEF Heard
  <2>5. Alternates(toClient'[c]) /\ (LastDrop(toClient'[c]) => LastDrop(toClient[c]))
    BY <2>3, <2>4, AlternatesShrinks
  <2>6. QED
    BY <1>1, <1>2, <2>2, <2>4, <2>5 DEF Heard
<1>9. QED
  BY <1>3, <1>4, <1>5, <1>6, <1>7, <1>8 DEF KindOf

LEMMA OthersHeard ==
    ASSUME NEW c \in Conns, Wires(c), Others(c), NEW d \in Clients, d # c, Heard(d)
    PROVE  Heard(d)'
<1>1. /\ toSched'[d] = toSched[d] /\ toClient'[d] = toClient[d]
      /\ d \in backlog' <=> d \in backlog
      /\ UNCHANGED <<clients, registered, requests, lock_held, round_changed, drop_lock_sent>>
  BY ClientsAssumption DEF Wires, schedVars
<1>2. proc'[d] = proc[d]
  BY DEF Others
<1>3. QED
  BY <1>1, <1>2 DEF Heard

LEMMA NextCInv ==
    ASSUME Roomy, CInv, [Next]_vars
    PROVE  CInv'
<1>0. LInv /\ LInv' /\ NInv /\ IInv /\ Clients \subseteq Conns
  BY NextLInv, ClientsAssumption DEF CInv, LInv, NInv
<1>1. CASE SchedNext /\ UNCHANGED <<clientVars, commands>>
  <2>1. exited' # "fatal" /\ (exited' = "no" => Healthy')
    BY <1>0, <1>1, SchedSpares
  <2>2. ASSUME NEW d \in Ctls PROVE toSched'[d] \in Seq({"SCHED_ON"}) /\ ~peer'[d]
    <3>0. d \in Conns /\ toSched[d] \in Seq({"SCHED_ON"}) /\ ~peer[d]
      BY CtlsAssumption DEF CInv
    <3>1. ASSUME NEW c, NEW m, HandleStep(c, m) PROVE toSched'[d] \in Seq({"SCHED_ON"}) /\ ~peer'[d]
      <4>1. IInv'
        BY <1>0 DEF LInv, NInv
      <4>2. toSched'[d] \in Seq({"SCHED_ON"})
        BY <1>0, <3>0, <3>1, <4>1, HandleChannels
      <4>3. QED
        BY <3>0, <3>1, <4>2 DEF HandleStep
    <3>2. ASSUME NEW c \in Conns, AcceptStep(c) PROVE toSched'[d] \in Seq({"SCHED_ON"}) /\ ~peer'[d]
      <4>1. toSched' = toSched \/ toSched' = [toSched EXCEPT ![c] = <<>>]
        BY <3>2 DEF AcceptStep
      <4>2. toSched'[d] = toSched[d] \/ toSched'[d] = <<>>
        BY <1>0, <3>0, <4>1, SchedFacts
      <4>3. <<>> \in Seq({"SCHED_ON"})
        BY EmptySeq
      <4>4. QED
        BY <3>0, <3>2, <4>2, <4>3 DEF AcceptStep
    <3>3. CASE NoStep
      BY <3>0, <3>3 DEF NoStep
    <3>4. QED
      BY <1>0, <1>1, <3>1, <3>2, <3>3, SchedSteps
  <2>3. QED
    BY <1>0, <1>1, <2>1, <2>2 DEF CInv
<1>2. ASSUME NEW c \in Clients, ClientAction(c) PROVE CInv'
  <2>1. Wires(c) /\ Others(c) /\ KindOf(c) /\ commands' = commands /\ c \in Conns
    BY <1>0, <1>2, ClientKinds
  <2>2. UNCHANGED <<clients, exited, registered, must_reset_timer, round_changed, events>>
    BY <2>1 DEF Wires, schedVars
  <2>3. \A d \in Ctls : toSched'[d] \in Seq({"SCHED_ON"}) /\ ~peer'[d]
    BY <2>1, CtlsAssumption DEF CInv, Wires
  <2>4. ASSUME exited = "no" PROVE Healthy'
    <3>0. Healthy /\ Batch
      BY <2>4 DEF CInv, Healthy
    <3>1. Heard(c)' /\ (In(events, c) => toSched'[c] # <<>> \/ ~peer'[c])
      BY <1>0, <2>1, <3>0, OwnHeard DEF Healthy
    <3>2. \A d \in Clients : Heard(d)'
      BY <2>1, <3>0, <3>1, OthersHeard DEF Healthy
    <3>3. Batch'
      BY <2>1, <2>2, <3>0, <3>1 DEF Batch, Wires
    <3>4. QED
      BY <2>2, <3>0, <3>2, <3>3 DEF Healthy
  <2>5. QED
    BY <1>0, <2>1, <2>2, <2>3, <2>4 DEF CInv
<1>3. ASSUME NEW c \in Ctls, nvsharectl(c) PROVE CInv'
  <2>1. /\ c \in Conns /\ Wires(c) /\ clientVars' = clientVars
        /\ commands # <<>> /\ commands' = Tail(commands)
        /\ toSched'[c] = <<Head(commands)>> /\ peer'[c] = FALSE /\ c \notin clients
    BY <1>0, <1>3, CtlStep
  <2>2. UNCHANGED <<clients, exited, registered, must_reset_timer, round_changed, events>>
    BY <2>1 DEF Wires, schedVars
  <2>3. commands' \in Seq({"SCHED_ON"}) /\ Head(commands) \in {"SCHED_ON"}
    BY <2>1, ReadChannel DEF CInv
  <2>4. <<Head(commands)>> \in Seq({"SCHED_ON"})
    BY <2>3, NewChannel
  <2>5. \A d \in Ctls : toSched'[d] \in Seq({"SCHED_ON"}) /\ ~peer'[d]
    BY <2>1, <2>4, CtlsAssumption DEF CInv, Wires
  <2>6. Others(c)
    BY <2>1 DEF clientVars, Others
  <2>7. ASSUME exited = "no" PROVE Healthy'
    <3>0. Healthy /\ Batch
      BY <2>7 DEF CInv, Healthy
    <3>1. \A d \in Clients : Heard(d)'
      BY <2>1, <2>6, <3>0, CtlsAssumption, OthersHeard DEF Healthy
    <3>2. Batch'
      BY <2>1, <2>2, <3>0 DEF Batch, Wires
    <3>3. QED
      BY <2>2, <3>0, <3>1, <3>2 DEF Healthy
  <2>8. QED
    BY <1>0, <2>2, <2>3, <2>5, <2>7 DEF CInv
<1>4. CASE UNCHANGED vars
  <2>1. Healthy => Healthy'
    BY <1>4 DEF vars, commVars, schedVars, clientVars, Healthy, Heard, Batch
  <2>2. QED
    BY <1>0, <1>4, <2>1 DEF vars, commVars, CInv
<1>5. QED
  BY <1>1, <1>2, <1>3, <1>4 DEF Next

LEMMA InitCInv ==
    ASSUME CtlScript \in Seq({"SCHED_ON"}), Init
    PROVE  CInv
<1>1. CtlScript \in Seq({"SCHED_ON", "SET_TQ"})
  <2>1. \A i \in 1..Len(CtlScript) : CtlScript[i] \in {"SCHED_ON", "SET_TQ"}
    BY ElementOfSeq
  <2>2. QED
    BY <2>1, SeqDef, LenProperties
<1>2. LInv
  BY <1>1, InitLInv
<1>3. \A m : ~In(<<>>, m) /\ Once(<<>>, m)
  BY NewChannel
<1>4. ASSUME NEW c \in Conns PROVE toSched[c] = <<>> /\ toClient[c] = <<>> /\ peer[c] = FALSE
  BY <1>4 DEF Init, CommInit
<1>5. /\ backlog = {} /\ clients = {} /\ registered = {} /\ ~lock_held /\ events = <<>>
      /\ must_reset_timer = FALSE /\ exited = "no" /\ commands = CtlScript
  BY DEF Init, CommInit, SchedInit
<1>6. Healthy
  <2>1. \A c \in Clients : proc[c] = "down"
    BY DEF Init, ClientInit
  <2>2. \A c \in Clients : Heard(c)
    BY <1>5, <2>1 DEF Heard
  <2>3. QED
    BY <1>3, <1>5, <2>2 DEF Healthy, Batch
<1>7. \A c \in Ctls : toSched[c] \in Seq({"SCHED_ON"}) /\ ~peer[c]
  BY <1>4, CtlsAssumption, EmptySeq
<1>8. QED
  BY <1>2, <1>5, <1>6, <1>7 DEF CInv

(* CInv is an invariant of a scheduler that is never turned off or given a   *)
(* new quantum, with a buffer for three messages per client.                 *)
THEOREM HealthInvariance ==
    ASSUME SigpipeFatal, SockBuf >= 3, CtlScript \in Seq({"SCHED_ON"})
    PROVE  Spec => []CInv
<1>1. Init => CInv
  BY InitCInv
<1>2. CInv /\ [Next]_vars => CInv'
  BY NextCInv DEF Roomy
<1>3. QED
  BY <1>1, <1>2, PTL DEF Spec

(* The main loop never meets an event whose client was freed earlier in the  *)
(* batch: among genuine clients, however they start, crash and race with the *)
(* timer thread, only an event's own handler deletes its client.             *)
THEOREM EventsAreNotStale ==
    ASSUME SigpipeFatal, SockBuf >= 3, CtlScript \in Seq({"SCHED_ON"})
    PROVE  Spec => []NoStaleEvent
<1>1. CInv => NoStaleEvent
  BY DEF CInv, NoStaleEvent
<1>2. QED
  BY HealthInvariance, <1>1, PTL

(* No write to an application that is alive meets a full buffer, so that     *)
(* try_schedule(), register_client() and timer_thr_fn() delete none: three   *)
(* messages are all the scheduler ever leaves unread.                        *)
THEOREM ClientsAreNotDropped ==
    ASSUME SigpipeFatal, SockBuf >= 3, CtlScript \in Seq({"SCHED_ON"}), ~EpollAddMayFail
    PROVE  Spec => []NoLiveClientDropped
<1>1. CInv => NoLiveClientDropped
  BY DEF CInv, Healthy, Heard, NoLiveClientDropped
<1>2. QED
  BY HealthInvariance, <1>1, PTL

-----------------------------------------------------------------------------
(* Changes of status *)

(* The last message of channel q is SCHED_OFF; SCHED_ON comes after it *)
EndsOff(q) == q # <<>> /\ q[Len(q)] = "SCHED_OFF"

OnAfterOff(q) ==
    \A i, j \in 1..Len(q) : j = i + 1 /\ q[i] = "SCHED_OFF" => q[j] = "SCHED_ON"

(* There is an a in q with no b after it *)
Latest(q, a, b) ==
    \E i \in 1..Len(q) : q[i] = a /\ \A j \in 1..Len(q) : i < j => q[j] # b

(* Writing and reading, for the order of the messages *)
LEMMA WriteOrder ==
    ASSUME NEW S, NEW q \in Seq(S), NEW x \in S
    PROVE  /\ EndsOff(Append(q, x)) <=> x = "SCHED_OFF"
           /\ OnAfterOff(q) /\ (~EndsOff(q) \/ x = "SCHED_ON") => OnAfterOff(Append(q, x))
           /\ \A a, b : Before(Append(q, x), a, b) <=> Before(q, a, b) \/ (In(q, a) /\ x = b)
           /\ \A a, b : Latest(Append(q, x), a, b) <=> x = a \/ (Latest(q, a, b) /\ x # b)
<1> DEFINE r == Append(q, x)
           n == Len(q)
<1>1. /\ r \in Seq(S) /\ Len(r) = n + 1 /\ n \in Nat /\ r # <<>>
      /\ \A i \in 1..n : r[i] = q[i]
      /\ r[n + 1] = x
  BY AppendProperties, LenProperties, WriteChannel
<1> HIDE DEF r
<1>2. ASSUME NEW i \in 1..Len(r) PROVE (i \in 1..n /\ r[i] = q[i]) \/ (i = n + 1 /\ r[i] = x)
  BY <1>1
<1>3. ASSUME NEW i \in 1..n PROVE i \in 1..Len(r) /\ r[i] = q[i] /\ i < n + 1
  BY <1>1
<1>4. n + 1 \in 1..Len(r) /\ r[n + 1] = x
  BY <1>1
<1>5. EndsOff(r) <=> x = "SCHED_OFF"
  BY <1>1 DEF EndsOff
<1>6. ASSUME OnAfterOff(q), ~EndsOff(q) \/ x = "SCHED_ON" PROVE OnAfterOff(r)
  <2>1. SUFFICES ASSUME NEW i \in 1..Len(r), NEW j \in 1..Len(r), j = i + 1, r[i] = "SCHED_OFF"
                 PROVE  r[j] = "SCHED_ON"
    BY DEF OnAfterOff
  <2>2. CASE j = n + 1
    <3>1. i = n /\ i \in 1..n /\ r[i] = q[i] /\ r[j] = x
      BY <1>1, <2>1, <2>2
    <3>2. q # <<>>
      BY <3>1
    <3>3. QED
      BY <1>6, <2>1, <3>1, <3>2 DEF EndsOff
  <2>3. CASE j # n + 1
    <3>1. i \in 1..n /\ j \in 1..n
      BY <1>1, <2>1, <2>3
    <3>2. QED
      BY <1>1, <1>6, <2>1, <3>1 DEF OnAfterOff
  <2>4. QED
    BY <2>2, <2>3
<1>7. ASSUME NEW a, NEW b PROVE Before(r, a, b) <=> Before(q, a, b) \/ (In(q, a) /\ x = b)
  <2>1. ASSUME NEW i \in 1..Len(r), NEW j \in 1..Len(r), i < j, r[i] = a, r[j] = b
        PROVE  Before(q, a, b) \/ (In(q, a) /\ x = b)
    <3>1. i \in 1..n /\ q[i] = a
      BY <1>1, <2>1
    <3>2. (j \in 1..n /\ q[j] = b) \/ x = b
      BY <1>2, <2>1
    <3>3. QED
      BY <2>1, <3>1, <3>2 DEF Before, In
  <2>2. Before(q, a, b) => Before(r, a, b)
    BY <1>3 DEF Before
  <2>3. In(q, a) /\ x = b => Before(r, a, b)
    BY <1>3, <1>4 DEF Before, In
  <2>4. Before(r, a, b) => Before(q, a, b) \/ (In(q, a) /\ x = b)
    BY <2>1 DEF Before
  <2>5. QED
    BY <2>2, <2>3, <2>4
<1>8. ASSUME NEW a, NEW b PROVE Latest(r, a, b) <=> x = a \/ (Latest(q, a, b) /\ x # b)
  <2>1. ASSUME Latest(r, a, b), x # a PROVE Latest(q, a, b) /\ x # b
    <3>1. PICK i \in 1..Len(r) : r[i] = a /\ \A j \in 1..Len(r) : i < j => r[j] # b
      BY <2>1 DEF Latest
    <3>2. i \in 1..n /\ q[i] = a
      BY <1>2, <2>1, <3>1
    <3>3. \A j \in 1..n : i < j => q[j] # b
      BY <1>3, <3>1
    <3>4. x # b
      BY <1>3, <1>4, <3>1, <3>2
    <3>5. QED
      BY <3>2, <3>3, <3>4 DEF Latest
  <2>2. ASSUME x = a PROVE Latest(r, a, b)
    <3>1. \A j \in 1..Len(r) : ~(n + 1 < j)
      BY <1>1
    <3>2. QED
      BY <1>4, <2>2, <3>1 DEF Latest
  <2>3. ASSUME Latest(q, a, b), x # b PROVE Latest(r, a, b)
    <3>1. PICK i \in 1..n : q[i] = a /\ \A j \in 1..n : i < j => q[j] # b
      BY <2>3 DEF Latest
    <3>2. \A j \in 1..Len(r) : i < j => r[j] # b
      BY <1>2, <2>3, <3>1
    <3>3. QED
      BY <1>3, <3>1, <3>2 DEF Latest
  <2>4. QED
    BY <2>1, <2>2, <2>3
<1>9. QED
  BY <1>5, <1>6, <1>7, <1>8 DEF r

LEMMA ReadOrder ==
    ASSUME NEW S, NEW q \in Seq(S), q # <<>>
    PROVE  /\ EndsOff(q) <=> EndsOff(Tail(q)) \/ (Tail(q) = <<>> /\ Head(q) = "SCHED_OFF")
           /\ OnAfterOff(q) =>
                 /\ OnAfterOff(Tail(q))
                 /\ Head(q) = "SCHED_OFF" /\ Tail(q) # <<>> => Head(Tail(q)) = "SCHED_ON"
           /\ \A a, b : Before(q, a, b) <=> Before(Tail(q), a, b) \/ (Head(q) = a /\ In(Tail(q), b))
           /\ \A a, b : Latest(q, a, b) <=> Latest(Tail(q), a, b) \/ (Head(q) = a /\ ~In(Tail(q), b))
<1> DEFINE r == Tail(q)
           n == Len(r)
<1>1. /\ r \in Seq(S) /\ Len(q) = n + 1 /\ n \in Nat
      /\ Head(q) = q[1] /\ \A i \in 1..n : r[i] = q[i + 1]
      /\ r = <<>> <=> n = 0
  <2>1. Len(q) \in Nat /\ Len(q) # 0
    BY EmptyIffNoLength, LenProperties
  <2>2. r \in Seq(S)
    BY <2>1, HeadTailProperties
  <2>3. r = <<>> <=> n = 0
    BY <2>2, EmptyIffNoLength
  <2>4. QED
    BY <2>1, <2>2, <2>3, HeadTailProperties
<1>2. r # <<>> => Head(r) = r[1]
  BY <1>1, HeadTailProperties
<1> HIDE DEF r
<1>3. ASSUME NEW i \in 1..n
      PROVE  i + 1 \in 1..Len(q) /\ r[i] = q[i + 1] /\ i + 1 # 1 /\ i \in Nat /\ 1 < i + 1
  BY <1>1
<1>4. ASSUME NEW i \in 1..Len(q) PROVE i = 1 \/ (i - 1 \in 1..n /\ r[i - 1] = q[i])
  BY <1>1
<1>5. 1 \in 1..Len(q) /\ q[1] = Head(q)
  BY <1>1
<1>6. EndsOff(q) <=> EndsOff(r) \/ (r = <<>> /\ Head(q) = "SCHED_OFF")
  <2>1. CASE r = <<>>
    BY <1>1, <2>1 DEF EndsOff
  <2>2. CASE r # <<>>
    <3>1. n \in 1..n
      BY <1>1, <2>2
    <3>2. r[n] = q[Len(q)]
      BY <1>1, <3>1
    <3>3. QED
      BY <2>2, <3>2 DEF EndsOff
  <2>3. QED
    BY <2>1, <2>2
<1>7. ASSUME OnAfterOff(q)
      PROVE  OnAfterOff(r) /\ (Head(q) = "SCHED_OFF" /\ r # <<>> => Head(r) = "SCHED_ON")
  <2>1. ASSUME NEW i \in 1..n, NEW j \in 1..n, j = i + 1, r[i] = "SCHED_OFF"
        PROVE  r[j] = "SCHED_ON"
    <3>1. i + 1 \in 1..Len(q) /\ j + 1 \in 1..Len(q) /\ j + 1 = (i + 1) + 1
      BY <1>1, <2>1
    <3>2. QED
      BY <1>3, <1>7, <2>1, <3>1 DEF OnAfterOff
  <2>2. ASSUME Head(q) = "SCHED_OFF", r # <<>> PROVE Head(r) = "SCHED_ON"
    <3>1. 1 \in 1..n /\ 2 \in 1..Len(q) /\ 2 = 1 + 1 /\ r[1] = q[2]
      BY <1>1, <2>2
    <3>2. QED
      BY <1>2, <1>5, <1>7, <2>2, <3>1 DEF OnAfterOff
  <2>3. QED
    BY <2>1, <2>2 DEF OnAfterOff
<1>8. ASSUME NEW a, NEW b
      PROVE  Before(q, a, b) <=> Before(r, a, b) \/ (Head(q) = a /\ In(r, b))
  <2>1. ASSUME NEW i \in 1..Len(q), NEW j \in 1..Len(q), i < j, q[i] = a, q[j] = b
        PROVE  Before(r, a, b) \/ (Head(q) = a /\ In(r, b))
    <3>1. j - 1 \in 1..n /\ r[j - 1] = b
      BY <1>1, <2>1
    <3>2. CASE i = 1
      BY <1>5, <2>1, <3>1, <3>2 DEF In
    <3>3. CASE i # 1
      <4>1. i - 1 \in 1..n /\ r[i - 1] = a /\ i - 1 < j - 1
        BY <1>1, <2>1, <3>3
      <4>2. QED
        BY <3>1, <4>1 DEF Before
    <3>4. QED
      BY <3>2, <3>3
  <2>2. Before(q, a, b) => Before(r, a, b) \/ (Head(q) = a /\ In(r, b))
    BY <2>1 DEF Before
  <2>3. ASSUME NEW i \in 1..n, NEW j \in 1..n, i < j, r[i] = a, r[j] = b PROVE Before(q, a, b)
    <3>1. i + 1 < j + 1
      BY <2>3
    <3>2. QED
      BY <1>3, <2>3, <3>1 DEF Before
  <2>4. Before(r, a, b) => Before(q, a, b)
    BY <2>3 DEF Before
  <2>5. Head(q) = a /\ In(r, b) => Before(q, a, b)
    BY <1>3, <1>5 DEF Before, In
  <2>6. QED
    BY <2>2, <2>4, <2>5
<1>9. ASSUME NEW a, NEW b
      PROVE  Latest(q, a, b) <=> Latest(r, a, b) \/ (Head(q) = a /\ ~In(r, b))
  <2>1. ASSUME NEW i \in 1..Len(q), q[i] = a, \A j \in 1..Len(q) : i < j => q[j] # b
        PROVE  Latest(r, a, b) \/ (Head(q) = a /\ ~In(r, b))
    <3>1. CASE i = 1
      BY <1>3, <1>5, <2>1, <3>1 DEF In
    <3>2. CASE i # 1
      <4>1. i - 1 \in 1..n /\ r[i - 1] = a
        BY <1>4, <2>1, <3>2
      <4>2. ASSUME NEW j \in 1..n, i - 1 < j PROVE r[j] # b
        <5>1. i < j + 1
          BY <4>2
        <5>2. QED
          BY <1>3, <2>1, <5>1
      <4>3. QED
        BY <4>1, <4>2 DEF Latest
    <3>3. QED
      BY <3>1, <3>2
  <2>2. Latest(q, a, b) => Latest(r, a, b) \/ (Head(q) = a /\ ~In(r, b))
    BY <2>1 DEF Latest
  <2>3. ASSUME NEW i \in 1..n, r[i] = a, \A j \in 1..n : i < j => r[j] # b
        PROVE  Latest(q, a, b)
    <3>1. ASSUME NEW j \in 1..Len(q), i + 1 < j PROVE q[j] # b
      <4>1. j - 1 \in 1..n /\ r[j - 1] = q[j] /\ i < j - 1
        BY <1>1, <3>1
      <4>2. QED
        BY <2>3, <4>1
    <3>2. QED
      BY <1>3, <2>3, <3>1 DEF Latest
  <2>4. Latest(r, a, b) => Latest(q, a, b)
    BY <2>3 DEF Latest
  <2>5. ASSUME Head(q) = a, ~In(r, b) PROVE Latest(q, a, b)
    <3>1. ASSUME NEW j \in 1..Len(q), 1 < j PROVE q[j] # b
      <4>1. j - 1 \in 1..n /\ r[j - 1] = q[j]
        BY <1>1, <3>1
      <4>2. QED
        BY <2>5, <4>1 DEF In
    <3>2. QED
      BY <1>5, <2>5, <3>1 DEF Latest
  <2>6. QED
    BY <2>2, <2>4, <2>5
<1>10. QED
  BY <1>6, <1>7, <1>8, <1>9 DEF r

(* A channel nothing was written to, or the registration only *)
LEMMA NewOrder ==
    /\ ~EndsOff(<<>>) /\ OnAfterOff(<<>>)
    /\ \A a, b : ~Before(<<>>, a, b) /\ ~Latest(<<>>, a, b)
    /\ \A x, a, b : ~Before(<<x>>, a, b)
<1>1. Len(<<>>) = 0 /\ \A i : i \in 1..0 => FALSE
  OBVIOUS
<1>2. ASSUME NEW x PROVE Len(<<x>>) = 1 /\ \A i, j \in 1..1 : ~(i < j)
  OBVIOUS
<1>3. \A x, a, b : ~Before(<<x>>, a, b)
  BY <1>2 DEF Before
<1>4. QED
  BY <1>1, <1>3 DEF EndsOff, OnAfterOff, Before, Latest

(* Application c follows the scheduler's last SCHED_OFF: it owns the lock    *)
(* like everybody and asks for nothing.                                      *)
Unscheduled(c) == proc[c] = "up" /\ ~status_on[c]

(* The last the scheduler wrote to c, read or not, is SCHED_OFF *)
ToldOff(c) == EndsOff(toClient[c]) \/ (toClient[c] = <<>> /\ Unscheduled(c))

(* Every registered client hears of every change, and of nothing else while  *)
(* the scheduler is off.                                                     *)
Announced(c) ==
    /\ proc[c] = "up" => c \in registered
    /\ c \in registered => (ToldOff(c) <=> ~scheduler_on)
    /\ OnAfterOff(toClient[c])
    /\ Unscheduled(c) /\ toClient[c] # <<>> => Head(toClient[c]) = "SCHED_ON"

(* The mutex of the client: its thread and the releaser exclude each other *)
Mutexed(c) ==
    /\ handler[c] = "drop" => ~own_lock[c] /\ releaser[c] # "sync"
    /\ releaser[c] = "sync" => own_lock[c]

OffMode(c) ==
    Unscheduled(c) =>
        /\ own_lock[c] /\ handler[c] = "recv" /\ releaser[c] # "sync"
        /\ \A t \in Threads : app[c][t] # "waiting"

(* No change to SCHED_OFF is on its way to c *)
Scheduled(c) == proc[c] = "up" /\ status_on[c] /\ ~In(toClient[c], "SCHED_OFF")

(* As Asked, for a client that no SCHED_OFF is on its way to *)
StillAsked(c) ==
    /\ own_lock[c] \/ handler[c] = "drop" => ~need_lock[c]
    /\ \A t \in Threads : app[c][t] = "waiting" => need_lock[c]
    /\ Scheduled(c) /\ need_lock[c] =>
          Asks(toSched[c]) \/ (In(requests, c) /\ ~Returned(c)) \/ Granted(c)

Alive(c) == Served(c) /\ proc[c] # "down"

SInv ==
    /\ NInv
    /\ \A c \in Clients :
          Mutexed(c) /\ (Alive(c) => Announced(c) /\ OffMode(c) /\ StillAsked(c))

(* Tells in terms of the variables *)
TellStep(c, m) ==
    /\ m \in {"SCHED_ON", "SCHED_OFF"} /\ scheduler_on' = scheduler_on => toClient' = toClient
    /\ m \in {"SCHED_ON", "SCHED_OFF"} /\ scheduler_on' # scheduler_on /\ exited' = "no" =>
          \A d \in registered' :
              toClient'[d] = Append(toClient[d], IF scheduler_on' THEN "SCHED_ON" ELSE "SCHED_OFF")
    /\ m = "REGISTER" /\ c \notin registered /\ c \in clients' /\ exited' = "no" =>
          /\ c \in registered'
          /\ toClient'[c] = Append(toClient[c], IF scheduler_on' THEN "SCHED_ON" ELSE "SCHED_OFF")
    /\ m = "LOCK_RELEASED" => ~In(requests', c)

LEMMA SchedTells ==
    ASSUME IInv, SchedNext, UNCHANGED <<clientVars, commands>>
    PROVE  \/ \E c \in Conns \cup {Lsock}, m \in Messages \cup {"none"} :
                 HandleStep(c, m) /\ TellStep(c, m)
           \/ \E c \in Conns : AcceptStep(c)
           \/ NoStep
<1>1. CASE TimerNext
  <2>1. HandleStep(Lsock, "none") /\ TellStep(Lsock, "none")
    BY <1>1, TimerHandles DEF TellStep
  <2>2. QED
    BY <2>1
<1>2. CASE EpollWait
  BY <1>2 DEF EpollWait, NoStep, commVars, Running
<1>3. ASSUME NEW c \in Conns, Accept(c) \/ AcceptFails(c) PROVE AcceptStep(c)
  BY <1>3 DEF Accept, AcceptFails, AcceptStep, NextEvent, Running
<1>4. ASSUME NEW c \in Conns, StaleEvent(c) PROVE NoStep
  BY <1>4 DEF StaleEvent, NoStep, NextEvent, Running
<1>5. ASSUME NEW c \in Conns, ReceiveMsg(c)
      PROVE  \E m \in Messages : HandleStep(c, m) /\ TellStep(c, m)
  <2> DEFINE m == Head(toSched[c])
  <2>1. HandleStep(c, m) /\ m \in Messages
    BY <1>5, ReceiveHandles
  <2>2. Tells(State, State', c, m)
    BY <1>5, ReceiveTells
  <2> HIDE DEF m
  <2>3. TellStep(c, m)
    BY <2>2 DEF Tells, TellStep, State
  <2>4. QED
    BY <2>1, <2>3
<1>6. ASSUME NEW c \in Conns, Hangup(c) PROVE HandleStep(c, "none") /\ TellStep(c, "none")
  BY <1>6, HangupHandles DEF TellStep
<1>7. QED
  BY <1>1, <1>2, <1>3, <1>4, <1>5, <1>6 DEF SchedNext, MainNext

(* What client d hears of a step of the scheduler *)
Hears(d) ==
    \/ /\ toClient'[d] = toClient[d]
       /\ d \in registered' <=> d \in registered
       /\ d \in registered => scheduler_on' = scheduler_on
    \/ /\ \E x \in {"LOCK_OK", "DROP_LOCK"} :
             /\ toClient'[d] = Append(toClient[d], x)
             /\ x = "LOCK_OK" => /\ lock_held' /\ requests'[1] = d /\ In(requests', d)
                                 /\ ~(lock_held /\ requests[1] = d)
       /\ d \in registered /\ d \in registered' /\ scheduler_on /\ scheduler_on'
    \/ /\ toClient'[d] = Append(toClient[d], IF scheduler_on' THEN "SCHED_ON" ELSE "SCHED_OFF")
       /\ d \in registered'
       /\ \/ d \in registered /\ scheduler_on' # scheduler_on
          \/ d \notin registered /\ toClient[d] = <<>> /\ scheduler_on' = scheduler_on

(* Nobody is in the list while the scheduler is off *)
LEMMA OnIfListed ==
    ASSUME IInv, NEW d, In(requests, d)
    PROVE  scheduler_on /\ d \in registered
<1>1. ~scheduler_on => requests = <<>>
  BY DEF IInv, Sound, State
<1>2. ~In(<<>>, d)
  BY NewChannel
<1>3. QED
  BY <1>1, <1>2, SchedFacts

LEMMA OnIfListedNext ==
    ASSUME IInv', NEW d, In(requests', d)
    PROVE  scheduler_on' /\ d \in registered'
<1>1. Sound(State') /\ State'.requests = requests' /\ State'.on = scheduler_on'
      /\ State'.registered = registered'
  BY DEF IInv, State
<1> DEFINE t == State'
<1> HIDE DEF t
<1>2. Sound(t) /\ t.requests = requests' /\ t.on = scheduler_on' /\ t.registered = registered'
  BY <1>1 DEF t
<1>3. ~t.on => t.requests = <<>>
  BY <1>2 DEF Sound
<1>4. ~In(<<>>, d)
  BY NewChannel
<1>5. In(t.requests, d) => d \in t.registered
  BY <1>2 DEF Sound, Listed, In
<1>6. QED
  BY <1>2, <1>3, <1>4, <1>5

LEMMA HandleHears ==
    ASSUME NInv, IInv', exited' = "no", NEW c \in Conns \cup {Lsock},
           NEW m \in Messages \cup {"none"}, HandleStep(c, m), TellStep(c, m),
           NEW d \in Clients, d \in clients', proc[d] # "down", proc[d] = "up" => d \in registered
    PROVE  Hears(d)
<1>0. /\ IInv /\ d \in Conns /\ Writes(c, m, d) /\ Queues(c, m, d) /\ Reads(c, m, d)
      /\ Channels(d) /\ Greeted(d) /\ proc[d] \in {"boot", "up"}
      /\ scheduler_on' = IF m \in {"SCHED_ON", "SCHED_OFF"} THEN m = "SCHED_ON" ELSE scheduler_on
      /\ scheduler_on \in BOOLEAN
  BY ClientsAssumption, SchedFacts DEF HandleStep, NInv, ClientTypeOK
<1>1. d \in registered => d \in registered'
  BY <1>0 DEF Reads
<1>2. /\ In(requests, d) => scheduler_on /\ d \in registered
      /\ In(requests', d) => scheduler_on' /\ d \in registered'
  BY <1>0, OnIfListed, OnIfListedNext
<1>3. CASE m \in {"SCHED_ON", "SCHED_OFF"} /\ scheduler_on' = scheduler_on
  <2>1. toClient' = toClient
    BY <1>3 DEF TellStep
  <2>2. d \in registered' <=> d \in registered
    BY <1>0, <1>1, <1>3 DEF Reads
  <2>3. QED
    BY <1>3, <2>1, <2>2 DEF Hears
<1>4. CASE m \in {"SCHED_ON", "SCHED_OFF"} /\ scheduler_on' # scheduler_on
  <2>1. CASE d \in registered
    BY <1>1, <1>4, <2>1 DEF TellStep, Hears
  <2>2. CASE d \notin registered
    <3>1. d \notin registered'
      BY <1>0, <1>4, <2>2 DEF Reads
    <3>2. toClient'[d] = toClient[d]
      BY <1>0, <1>2, <2>2, <3>1 DEF Writes
    <3>3. QED
      BY <2>2, <3>1, <3>2 DEF Hears
  <2>3. QED
    BY <2>1, <2>2
<1>5. CASE m = "REGISTER" /\ c = d
  <2>1. In(toSched[d], "REGISTER") /\ scheduler_on' = scheduler_on
    BY <1>0, <1>5, HandleChannels
  <2>2. d \notin registered
    BY <1>0, <2>1 DEF Channels
  <2>3. toClient[d] = <<>>
    BY <1>0, <2>2 DEF Greeted, Reads
  <2>4. QED
    BY <1>5, <2>1, <2>2, <2>3 DEF TellStep, Hears
<1>6. CASE m \notin {"SCHED_ON", "SCHED_OFF"} /\ ~(m = "REGISTER" /\ c = d)
  <2>1. scheduler_on' = scheduler_on /\ (d \in registered' <=> d \in registered)
    BY <1>0, <1>1, <1>6 DEF Reads
  <2>2. CASE toClient'[d] = toClient[d]
    BY <2>1, <2>2 DEF Hears
  <2>3. CASE toClient'[d] # toClient[d]
    <3>1. \E x \in {"LOCK_OK", "DROP_LOCK"} :
             /\ toClient'[d] = Append(toClient[d], x)
             /\ x = "LOCK_OK" => /\ lock_held' /\ requests'[1] = d /\ In(requests', d)
                                 /\ ~(lock_held /\ requests[1] = d)
             /\ In(requests, d) \/ In(requests', d)
      BY <1>0, <1>6, <2>3 DEF Writes
    <3>2. scheduler_on /\ d \in registered /\ scheduler_on' /\ d \in registered'
      BY <1>2, <2>1, <3>1
    <3>3. QED
      BY <3>1, <3>2 DEF Hears
  <2>4. QED
    BY <2>2, <2>3
<1>7. QED
  BY <1>3, <1>4, <1>5, <1>6

(* What d has heard is what the scheduler is *)
LEMMA HandleAnnounced ==
    ASSUME NInv, NEW d \in Clients, Hears(d), Announced(d), d \in clients',
           proc'[d] = proc[d], status_on'[d] = status_on[d], scheduler_on' \in BOOLEAN
    PROVE  Announced(d)' /\ (In(toClient[d], "SCHED_OFF") => In(toClient'[d], "SCHED_OFF"))
<1>0. /\ toClient[d] \in Seq(Messages) /\ scheduler_on \in BOOLEAN
      /\ {"LOCK_OK", "DROP_LOCK", "SCHED_ON", "SCHED_OFF"} \subseteq Messages
  BY ClientsAssumption, SchedFacts DEF NInv, Messages
<1>1. Unscheduled(d)' <=> Unscheduled(d)
  BY DEF Unscheduled
<1>2. CASE toClient'[d] = toClient[d] /\ (d \in registered' <=> d \in registered)
           /\ (d \in registered => scheduler_on' = scheduler_on)
  BY <1>1, <1>2 DEF Announced, ToldOff
<1>3. ASSUME NEW x \in {"LOCK_OK", "DROP_LOCK", "SCHED_ON", "SCHED_OFF"},
             toClient'[d] = Append(toClient[d], x), d \in registered',
             x = "SCHED_OFF" <=> ~scheduler_on',
             ~EndsOff(toClient[d]) \/ x = "SCHED_ON",
             Unscheduled(d) /\ toClient[d] = <<>> => x = "SCHED_ON"
      PROVE  Announced(d)' /\ (In(toClient[d], "SCHED_OFF") => In(toClient'[d], "SCHED_OFF"))
  <2>1. x \in Messages
    BY <1>0
  <2>2. /\ EndsOff(toClient'[d]) <=> x = "SCHED_OFF"
        /\ OnAfterOff(toClient'[d])
    BY <1>0, <1>3, <2>1, WriteOrder DEF Announced
  <2>3. /\ toClient'[d] # <<>>
        /\ In(toClient[d], "SCHED_OFF") => In(toClient'[d], "SCHED_OFF")
        /\ Head(toClient'[d]) = IF toClient[d] = <<>> THEN x ELSE Head(toClient[d])
    BY <1>0, <1>3, <2>1, WriteChannel
  <2>4. Unscheduled(d) => Head(toClient'[d]) = "SCHED_ON"
    BY <1>3, <2>3 DEF Announced
  <2>5. QED
    BY <1>1, <1>3, <2>2, <2>3, <2>4 DEF Announced, ToldOff
<1>4. ASSUME NEW x \in {"LOCK_OK", "DROP_LOCK"}, toClient'[d] = Append(toClient[d], x),
             d \in registered, d \in registered', scheduler_on, scheduler_on'
      PROVE  Announced(d)' /\ (In(toClient[d], "SCHED_OFF") => In(toClient'[d], "SCHED_OFF"))
  <2>1. ~EndsOff(toClient[d]) /\ ~(Unscheduled(d) /\ toClient[d] = <<>>)
    BY <1>4 DEF Announced, ToldOff
  <2>2. QED
    BY <1>3, <1>4, <2>1
<1>5. ASSUME toClient'[d] = Append(toClient[d], IF scheduler_on' THEN "SCHED_ON" ELSE "SCHED_OFF"),
             d \in registered',
             \/ d \in registered /\ scheduler_on' # scheduler_on
             \/ d \notin registered /\ toClient[d] = <<>> /\ scheduler_on' = scheduler_on
      PROVE  Announced(d)' /\ (In(toClient[d], "SCHED_OFF") => In(toClient'[d], "SCHED_OFF"))
  <2> DEFINE x == IF scheduler_on' THEN "SCHED_ON" ELSE "SCHED_OFF"
  <2>1. ~EndsOff(toClient[d]) \/ x = "SCHED_ON"
    BY <1>0, <1>5, NewOrder DEF Announced, ToldOff
  <2>2. Unscheduled(d) /\ toClient[d] = <<>> => x = "SCHED_ON"
    BY <1>0, <1>5 DEF Announced, ToldOff, Unscheduled
  <2>3. x = "SCHED_OFF" <=> ~scheduler_on'
    OBVIOUS
  <2>4. x \in {"LOCK_OK", "DROP_LOCK", "SCHED_ON", "SCHED_OFF"}
    OBVIOUS
  <2>5. toClient'[d] = Append(toClient[d], x)
    BY <1>5
  <2> HIDE DEF x
  <2>6. QED
    BY <1>3, <1>5, <2>1, <2>2, <2>3, <2>4, <2>5
<1>6. QED
  BY <1>2, <1>4, <1>5 DEF Hears

LEMMA HandleSInv ==
    ASSUME SInv, NInv', NEW c \in Conns \cup {Lsock}, NEW m \in Messages \cup {"none"},
           HandleStep(c, m), TellStep(c, m), exited' = "no" => exited = "no"
    PROVE  \A d \in Clients :
               (Mutexed(d) /\ (Alive(d) => Announced(d) /\ OffMode(d) /\ StillAsked(d)))'
<1>0. NInv /\ IInv /\ IInv' /\ Clients \subseteq Conns /\ scheduler_on' \in BOOLEAN
  BY ClientsAssumption, SchedFacts DEF SInv, NInv, IInv, Sound, Records, State
<1>1. SUFFICES ASSUME NEW d \in Clients
               PROVE  (Mutexed(d) /\ (Alive(d) => Announced(d) /\ OffMode(d) /\ StillAsked(d)))'
  OBVIOUS
<1>2. /\ own_lock'[d] = own_lock[d] /\ handler'[d] = handler[d] /\ releaser'[d] = releaser[d]
      /\ need_lock'[d] = need_lock[d] /\ app'[d] = app[d] /\ proc'[d] = proc[d]
      /\ status_on'[d] = status_on[d]
  BY DEF HandleStep, clientVars
<1>3. Mutexed(d)'
  BY <1>2 DEF SInv, Mutexed
<1>4. ASSUME Alive(d)' PROVE (Announced(d) /\ OffMode(d) /\ StillAsked(d))'
  <2>1. /\ Reads(c, m, d) /\ Queues(c, m, d) /\ d \in Conns
        /\ toSched[d] \in Seq(Messages) /\ scheduler_on \in BOOLEAN
    BY <1>0, SchedFacts DEF HandleStep
  <2>2. exited' = "no" /\ d \in clients' /\ d \in clients /\ proc[d] # "down"
    BY <1>2, <1>4, <2>1 DEF Alive, Served, Reads
  <2>3. Announced(d) /\ OffMode(d) /\ StillAsked(d)
    BY <2>2 DEF SInv, Alive, Served
  <2>4. Hears(d)
    BY <1>0, <2>2, <2>3, HandleHears DEF Announced
  <2>5. Announced(d)' /\ (In(toClient[d], "SCHED_OFF") => In(toClient'[d], "SCHED_OFF"))
    BY <1>0, <1>2, <2>2, <2>3, <2>4, HandleAnnounced
  <2>6. OffMode(d)'
    BY <1>2, <2>3 DEF OffMode, Unscheduled
  <2>7. ASSUME Scheduled(d)', need_lock[d]
        PROVE  Asks(toSched'[d]) \/ (In(requests', d) /\ ~Returned(d)') \/ Granted(d)'
    <3>1. Scheduled(d)
      BY <1>2, <2>5, <2>7 DEF Scheduled
    <3>2. scheduler_on'
      <4>1. ~EndsOff(toClient'[d])
        <5>1. toClient'[d] \in Seq(Messages)
          BY <1>0, <2>1 DEF IInv, Sound, Records, State
        <5>2. toClient'[d] # <<>> => Len(toClient'[d]) \in 1..Len(toClient'[d])
          BY <5>1, EmptyIffNoLength, LenProperties
        <5>3. QED
          BY <2>7, <5>2 DEF Scheduled, EndsOff, In
      <4>2. d \in registered' /\ ~Unscheduled(d)'
        BY <2>5, <2>7 DEF Announced, Scheduled, Unscheduled
      <4>3. QED
        BY <2>5, <4>1, <4>2 DEF Announced, ToldOff
    <3>3. m # "SCHED_OFF" /\ (m = "REQ_LOCK" => scheduler_on)
      BY <3>2 DEF HandleStep
    <3>4. Granted(d) => Granted(d)'
      <4>1. toClient[d] \in Seq(Messages)
        BY <1>0, <2>1, SchedFacts
      <4>2. \A x \in Messages : Granted(d) => In(Append(toClient[d], x), "LOCK_OK")
        BY <4>1, WriteChannel DEF Granted
      <4>3. \/ toClient'[d] = toClient[d]
            \/ \E x \in Messages : toClient'[d] = Append(toClient[d], x)
        BY <2>4 DEF Hears, Messages
      <4>4. QED
        BY <4>2, <4>3 DEF Granted
    <3>5. Returned(d)' => Returned(d)
      BY <1>0, <2>1, HandleChannels DEF Returned
    <3>6. CASE Asks(toSched[d])
      <4>1. CASE ~(m # "none" /\ c = d)
        <5>1. toSched'[d] = toSched[d]
          BY <2>1, <2>2, <4>1 DEF Reads
        <5>2. QED
          BY <3>6, <5>1
      <4>2. CASE m # "none" /\ c = d
        <5>1. toSched[d] # <<>> /\ Head(toSched[d]) = m /\ toSched'[d] = Tail(toSched[d])
          BY <2>1, <2>2, <4>2 DEF Reads
        <5>2. \/ Asks(toSched'[d])
              \/ m = "REQ_LOCK" /\ ~In(toSched'[d], "LOCK_RELEASED")
          BY <2>1, <3>6, <5>1, ReadChannel
        <5>3. m = "REQ_LOCK" => In(requests', d)
          BY <2>1, <2>2, <3>3, <4>2 DEF Queues
        <5>4. QED
          BY <5>2, <5>3 DEF Returned
      <4>3. QED
        BY <4>1, <4>2
    <3>7. CASE In(requests, d) /\ ~Returned(d)
      <4>1. m = "LOCK_RELEASED" /\ c = d => Returned(d)
        BY <1>0, <2>1, HandleChannels DEF Returned
      <4>2. QED
        BY <2>1, <2>2, <3>3, <3>5, <3>7, <4>1 DEF Queues
    <3>8. QED
      BY <2>3, <2>7, <3>1, <3>4, <3>6, <3>7 DEF StillAsked
  <2>8. StillAsked(d)'
    BY <1>2, <2>3, <2>7 DEF StillAsked
  <2>9. QED
    BY <2>5, <2>6, <2>8
<1>5. QED
  BY <1>3, <1>4

(* A new connection has heard nothing and asked for nothing *)
LEMMA AcceptSInv ==
    ASSUME SInv, NEW c \in Conns, AcceptStep(c)
    PROVE  \A d \in Clients :
               (Mutexed(d) /\ (Alive(d) => Announced(d) /\ OffMode(d) /\ StillAsked(d)))'
<1>0. NInv /\ IInv /\ Clients \subseteq Conns /\ toSched \in [Conns -> Seq(Messages)]
  BY ClientsAssumption, SchedFacts DEF SInv, NInv
<1>1. SUFFICES ASSUME NEW d \in Clients
               PROVE  (Mutexed(d) /\ (Alive(d) => Announced(d) /\ OffMode(d) /\ StillAsked(d)))'
  OBVIOUS
<1>2. UNCHANGED <<clientVars, requests, registered, scheduler_on, exited, toClient>>
  BY DEF AcceptStep
<1>3. Mutexed(d)'
  BY <1>2 DEF SInv, Mutexed, clientVars
<1>4. CASE d # c
  <2>1. toSched'[d] = toSched[d] /\ (d \in clients' => d \in clients)
    BY <1>0, <1>4 DEF AcceptStep
  <2>2. ASSUME Alive(d)' PROVE (Announced(d) /\ OffMode(d) /\ StillAsked(d))'
    <3>1. Announced(d) /\ OffMode(d) /\ StillAsked(d)
      BY <1>2, <2>1, <2>2 DEF SInv, Alive, Served, clientVars
    <3>2. QED
      BY <1>2, <2>1, <3>1 DEF Announced, ToldOff, Unscheduled, OffMode, StillAsked, Scheduled,
                              Granted, Returned, clientVars
  <2>3. QED
    BY <1>3, <2>2
<1>5. CASE d = c
  <2>1. /\ toClient[d] = <<>> /\ proc[d] # "up" /\ d \notin clients /\ d \notin registered
        /\ ~own_lock[d] /\ ~need_lock[d] /\ handler[d] = "recv"
        /\ \A t \in Threads : app[d][t] = "out"
    BY <1>0, <1>5, SchedFacts DEF AcceptStep, NInv, Channels, Idle
  <2>2. Announced(d)'
    BY <1>2, <2>1, NewOrder DEF Announced, Unscheduled, clientVars
  <2>3. OffMode(d)' /\ StillAsked(d)'
    BY <1>2, <2>1 DEF OffMode, Unscheduled, StillAsked, clientVars
  <2>4. QED
    BY <1>3, <2>2, <2>3
<1>6. QED
  BY <1>4, <1>5

LEMMA NoStepSInv ==
    ASSUME SInv, NoStep
    PROVE  \A d \in Clients :
               (Mutexed(d) /\ (Alive(d) => Announced(d) /\ OffMode(d) /\ StillAsked(d)))'
<1>1. ASSUME NEW d \in Clients, Alive(d)' PROVE Alive(d)
  BY <1>1 DEF Alive, Served, NoStep, clientVars
<1>2. QED
  BY <1>1 DEF SInv, NoStep, Mutexed, Announced, ToldOff, Unscheduled, OffMode, StillAsked,
              Scheduled, Granted, Returned, clientVars

LEMMA SchedSInv ==
    ASSUME SInv, SchedNext, UNCHANGED <<clientVars, commands>>
    PROVE  SInv'
<1>1. NInv' /\ IInv
  BY SchedNInv DEF SInv, NInv
<1>2. exited = "no"
  BY <1>1, SchedSteps
<1>3. \/ \E c \in Conns \cup {Lsock}, m \in Messages \cup {"none"} :
            HandleStep(c, m) /\ TellStep(c, m)
      \/ \E c \in Conns : AcceptStep(c)
      \/ NoStep
  BY <1>1, SchedTells
<1>4. \A d \in Clients :
          (Mutexed(d) /\ (Alive(d) => Announced(d) /\ OffMode(d) /\ StillAsked(d)))'
  BY <1>1, <1>2, <1>3, HandleSInv, AcceptSInv, NoStepSInv
<1>5. QED
  BY <1>1, <1>4 DEF SInv

(* Reading message m leaves what the scheduler has told c as it was, once c  *)
(* follows a status it reads.                                                *)
LEMMA ReadAnnounced ==
    ASSUME SInv, NEW c \in Clients, Alive(c), Wires(c), NEW m, Read(c, m),
           UNCHANGED <<toSched, peer, backlog, clients, exited>>, proc'[c] = "up",
           \/ m = "SCHED_ON" /\ status_on'[c]
           \/ m = "SCHED_OFF" /\ ~status_on'[c]
           \/ /\ m \notin {"SCHED_ON", "SCHED_OFF"} /\ proc[c] = "up"
              /\ status_on'[c] = status_on[c]
    PROVE  /\ Announced(c)'
           /\ \A x : In(toClient[c], x) <=> In(toClient'[c], x) \/ x = m
           /\ Unscheduled(c) => m = "SCHED_ON"
<1>0. /\ NInv /\ IInv /\ c \in Conns /\ Announced(c) /\ Greeted(c) /\ c \in clients
      /\ toClient[c] \in Seq(Messages) /\ proc[c] \in {"boot", "up"}
  BY ClientsAssumption, SchedFacts DEF SInv, NInv, Alive, Served, ClientTypeOK
<1>1. UNCHANGED <<clients, registered, scheduler_on, schedVars>>
  BY DEF Wires, schedVars
<1>2. /\ toClient[c] # <<>> /\ m = Head(toClient[c]) /\ toClient'[c] = Tail(toClient[c])
  BY <1>0, <1>1, ReadWires
<1>3. c \in registered
  BY <1>0, <1>2 DEF Announced, Greeted
<1>4. /\ EndsOff(toClient[c]) <=> EndsOff(toClient'[c]) \/ (toClient'[c] = <<>> /\ m = "SCHED_OFF")
      /\ OnAfterOff(toClient'[c])
      /\ m = "SCHED_OFF" /\ toClient'[c] # <<>> => Head(toClient'[c]) = "SCHED_ON"
  BY <1>0, <1>2, ReadOrder DEF Announced
<1>5. \A x : In(toClient[c], x) <=> In(toClient'[c], x) \/ x = m
  <2>1. \A x : In(toClient[c], x) <=> In(Tail(toClient[c]), x) \/ x = Head(toClient[c])
    BY <1>0, <1>2, ReadChannel
  <2>2. QED
    BY <1>2, <2>1
<1>6. Unscheduled(c) => m = "SCHED_ON"
  BY <1>0, <1>2 DEF Announced
<1>7. Unscheduled(c)' => m = "SCHED_OFF"
  <2>1. CASE m \in {"SCHED_ON", "SCHED_OFF"}
    BY <2>1 DEF Unscheduled
  <2>2. CASE m \notin {"SCHED_ON", "SCHED_OFF"}
    BY <1>6, <2>2 DEF Unscheduled
  <2>3. QED
    BY <2>1, <2>2
<1>8. m = "SCHED_OFF" => Unscheduled(c)'
  BY DEF Unscheduled
<1>9. ToldOff(c)' <=> ToldOff(c)
  BY <1>2, <1>4, <1>7, <1>8 DEF ToldOff
<1>10. Announced(c)'
  BY <1>0, <1>1, <1>3, <1>4, <1>7, <1>9 DEF Announced
<1>11. QED
  BY <1>5, <1>6, <1>10

(* One step of process c *)
LEMMA OwnSInv ==
    ASSUME SInv, NEW c \in Clients, Wires(c), KindOf(c)
    PROVE  (Mutexed(c) /\ (Alive(c) => Announced(c) /\ OffMode(c) /\ StillAsked(c)))'
<1>0. /\ NInv /\ IInv /\ c \in Conns /\ ClientTypeOK /\ Channels(c) /\ Idle(c) /\ Mutexed(c)
      /\ Alive(c) => Announced(c) /\ OffMode(c) /\ StillAsked(c)
      /\ toSched[c] \in Seq(Messages) /\ toClient[c] \in Seq(Messages)
  BY ClientsAssumption, SchedFacts DEF SInv, NInv
<1>1. UNCHANGED <<clients, registered, requests, scheduler_on, exited, schedVars>>
  BY DEF Wires, schedVars
<1>2. handler[c] \in {"recv", "drop"} /\ own_lock[c] \in BOOLEAN /\ status_on[c] \in BOOLEAN
  BY <1>0 DEF ClientTypeOK
<1>3. Served(c)' <=> Served(c)
  BY <1>1 DEF Served
<1>4. CASE Quiet(c)
  <2>1. /\ toSched'[c] = toSched[c] /\ toClient'[c] = toClient[c]
        /\ proc'[c] = proc[c] /\ status_on'[c] = status_on[c] /\ own_lock'[c] = own_lock[c]
        /\ need_lock'[c] = need_lock[c] /\ handler'[c] = handler[c]
    BY <1>4 DEF Quiet, SameWire
  <2>2. releaser'[c] = "sync" =>
          releaser[c] = "sync" \/ (own_lock[c] /\ status_on[c] /\ handler[c] = "recv")
    BY <1>4 DEF Quiet
  <2>3. Mutexed(c)'
    BY <1>0, <2>1, <2>2 DEF Mutexed
  <2>4. ASSUME Alive(c)' PROVE (Announced(c) /\ OffMode(c) /\ StillAsked(c))'
    <3>1. Announced(c) /\ OffMode(c) /\ StillAsked(c)
      BY <1>0, <1>3, <2>1, <2>4 DEF Alive
    <3>2. \A t \in Threads : app'[c][t] = "waiting" => app[c][t] = "waiting" \/ need_lock[c]
      BY <1>4 DEF Quiet
    <3>3. \A t \in Threads : app'[c][t] = "waiting" => need_lock[c]
      BY <3>1, <3>2 DEF StillAsked
    <3>4. Announced(c)'
      BY <1>1, <2>1, <3>1 DEF Announced, ToldOff, Unscheduled
    <3>5. OffMode(c)'
      BY <2>1, <2>2, <3>1, <3>3 DEF OffMode, Unscheduled, StillAsked
    <3>6. StillAsked(c)'
      BY <1>1, <2>1, <3>1, <3>3 DEF StillAsked, Scheduled, Granted, Returned
    <3>7. QED
      BY <3>4, <3>5, <3>6
  <2>5. QED
    BY <2>3, <2>4
<1>5. CASE Ask(c)
  <2>1. /\ toClient'[c] = toClient[c] /\ proc[c] = "up" /\ proc'[c] = "up"
        /\ status_on'[c] = status_on[c] /\ ~own_lock[c] /\ ~own_lock'[c] /\ need_lock'[c]
        /\ handler[c] = "recv" /\ handler'[c] = "recv" /\ releaser'[c] = releaser[c]
        /\ toSched'[c] = Append(toSched[c], "REQ_LOCK")
    BY <1>5 DEF Ask
  <2>2. Asks(toSched'[c])
    <3>1. "REQ_LOCK" \in Messages
      BY DEF Messages
    <3>2. QED
      BY <1>0, <2>1, <3>1, WriteChannel
  <2>3. Mutexed(c)'
    BY <1>0, <2>1 DEF Mutexed
  <2>4. ASSUME Alive(c)' PROVE (Announced(c) /\ OffMode(c) /\ StillAsked(c))'
    <3>1. Announced(c) /\ OffMode(c)
      BY <1>0, <1>3, <2>1, <2>4 DEF Alive
    <3>2. Announced(c)'
      BY <1>1, <2>1, <3>1 DEF Announced, ToldOff, Unscheduled
    <3>3. OffMode(c)'
      BY <2>1, <3>1 DEF OffMode, Unscheduled
    <3>4. StillAsked(c)'
      BY <2>1, <2>2 DEF StillAsked
    <3>5. QED
      BY <3>2, <3>3, <3>4
  <2>5. QED
    BY <2>3, <2>4
<1>6. CASE Release(c)
  <2>1. /\ toClient'[c] = toClient[c] /\ proc[c] = "up" /\ proc'[c] = "up"
        /\ status_on'[c] = status_on[c] /\ need_lock'[c] = need_lock[c] /\ app'[c] = app[c]
    BY <1>6 DEF Release
  <2>2. /\ own_lock[c] \/ handler[c] = "drop"
        /\ ~own_lock'[c] /\ handler'[c] = "recv" /\ releaser'[c] # "sync"
        /\ status_on[c] \/ releaser[c] = "sync" \/ handler[c] = "drop"
    BY <1>0, <1>2, <1>6 DEF Release, Mutexed
  <2>3. Mutexed(c)'
    BY <2>2 DEF Mutexed
  <2>4. ASSUME Alive(c)' PROVE (Announced(c) /\ OffMode(c) /\ StillAsked(c))'
    <3>1. Announced(c) /\ OffMode(c) /\ StillAsked(c)
      BY <1>0, <1>3, <2>1, <2>4 DEF Alive
    <3>2. Announced(c)'
      BY <1>1, <2>1, <3>1 DEF Announced, ToldOff, Unscheduled
    <3>3. status_on[c]
      BY <1>2, <2>1, <2>2, <3>1 DEF OffMode, Unscheduled
    <3>4. ~need_lock[c] /\ \A t \in Threads : app[c][t] # "waiting"
      BY <2>2, <3>1 DEF StillAsked
    <3>5. OffMode(c)' /\ StillAsked(c)'
      BY <2>1, <2>2, <3>3, <3>4 DEF OffMode, Unscheduled, StillAsked
    <3>6. QED
      BY <3>2, <3>5
  <2>5. QED
    BY <2>3, <2>4
<1>7. CASE Start(c)
  <2>1. <<"REGISTER">> \in Seq(Messages)
    BY NewChannel DEF Messages
  <2>2. c \notin clients
    BY <1>0, <1>1, <1>7, <2>1, ConnectWires DEF Start
  <2>3. Mutexed(c)'
    BY <1>0, <1>7 DEF Start, Mutexed
  <2>4. QED
    BY <1>1, <2>2, <2>3 DEF Alive, Served
<1>8. CASE proc[c] # "down" /\ Gone(c)
  <2>1. proc'[c] = "down" /\ handler'[c] = "recv" /\ releaser'[c] = "starting"
    BY <1>0, <1>8 DEF Gone, ClientTypeOK
  <2>2. QED
    BY <2>1 DEF Mutexed, Alive
<1>9. CASE InitialStatus(c)
  <2>1. PICK m \in {"SCHED_ON", "SCHED_OFF"} :
          /\ Read(c, m)
          /\ status_on' = [status_on EXCEPT ![c] = (m = "SCHED_ON")]
          /\ own_lock' = [own_lock EXCEPT ![c] = (m = "SCHED_OFF")]
    BY <1>9 DEF InitialStatus
  <2>2. /\ UNCHANGED <<toSched, peer, backlog, clients, exited, handler, releaser, app>>
        /\ proc[c] = "boot" /\ proc'[c] = "up" /\ ~need_lock'[c]
        /\ status_on'[c] = (m = "SCHED_ON") /\ own_lock'[c] = (m = "SCHED_OFF")
    BY <1>0, <1>9, <2>1 DEF InitialStatus, ClientTypeOK
  <2>3. /\ handler[c] = "recv" /\ releaser[c] = "starting"
        /\ \A t \in Threads : app[c][t] = "out"
    BY <1>0, <2>2 DEF Idle
  <2>4. Mutexed(c)'
    BY <2>2, <2>3 DEF Mutexed
  <2>5. ASSUME Alive(c)' PROVE (Announced(c) /\ OffMode(c) /\ StillAsked(c))'
    <3>1. Alive(c)
      BY <1>3, <2>2, <2>5 DEF Alive
    <3>2. Announced(c)'
      BY <2>1, <2>2, <3>1, ReadAnnounced
    <3>3. OffMode(c)' /\ StillAsked(c)'
      BY <2>1, <2>2, <2>3 DEF OffMode, Unscheduled, StillAsked
    <3>4. QED
      BY <3>2, <3>3
  <2>6. QED
    BY <2>4, <2>5
<1>10. ASSUME NEW m, Receive(c, m), Alive(c)',
              \/ m = "SCHED_ON" /\ status_on'[c]
              \/ m = "SCHED_OFF" /\ ~status_on'[c]
              \/ m \notin {"SCHED_ON", "SCHED_OFF"} /\ status_on'[c] = status_on[c]
       PROVE  /\ Announced(c)' /\ Announced(c) /\ OffMode(c) /\ StillAsked(c)
              /\ \A x : In(toClient[c], x) <=> In(toClient'[c], x) \/ x = m
              /\ Unscheduled(c) => m = "SCHED_ON"
              /\ toSched'[c] = toSched[c]
  <2>1. /\ Read(c, m) /\ UNCHANGED <<toSched, peer, backlog, clients, exited>>
        /\ proc[c] = "up" /\ proc'[c] = "up"
    BY <1>10 DEF Receive
  <2>2. Alive(c)
    BY <1>3, <1>10, <2>1 DEF Alive
  <2>3. QED
    BY <1>0, <1>10, <2>1, <2>2, ReadAnnounced
<1>11. ASSUME NEW m, Receive(c, m)
       PROVE  /\ proc[c] = "up" /\ proc'[c] = "up" /\ handler[c] = "recv" /\ releaser[c] # "sync"
  BY <1>11 DEF Receive, MutexFreeIn
<1>12. CASE OnLockOk(c)
  <2>1. /\ own_lock'[c] /\ ~need_lock'[c] /\ UNCHANGED <<status_on, handler>>
        /\ \A t \in Threads : app'[c][t] # "waiting"
        /\ Receive(c, "LOCK_OK")
        /\ releaser'[c] # "sync"
    <3>1. releaser[c] # "sync"
      BY <1>11, <1>12 DEF OnLockOk
    <3>2. QED
      BY <1>0, <1>12, <3>1 DEF OnLockOk, WakeApp, WakeReleaser, ClientTypeOK
  <2>2. Mutexed(c)'
    BY <1>11, <2>1 DEF Mutexed
  <2>3. ASSUME Alive(c)' PROVE (Announced(c) /\ OffMode(c) /\ StillAsked(c))'
    <3>1. Announced(c)'
      BY <1>10, <2>1, <2>3
    <3>2. OffMode(c)' /\ StillAsked(c)'
      BY <1>11, <2>1 DEF OffMode, StillAsked
    <3>3. QED
      BY <3>1, <3>2
  <2>4. QED
    BY <2>2, <2>3
<1>13. CASE OnDropLock(c)
  <2>1. /\ ~own_lock'[c] /\ UNCHANGED <<status_on, need_lock, releaser, app>>
        /\ handler'[c] = IF own_lock[c] THEN "drop" ELSE "recv"
        /\ Receive(c, "DROP_LOCK")
    BY <1>0, <1>13 DEF OnDropLock, ClientTypeOK
  <2>2. Mutexed(c)'
    BY <1>11, <2>1 DEF Mutexed
  <2>3. ASSUME Alive(c)' PROVE (Announced(c) /\ OffMode(c) /\ StillAsked(c))'
    <3>1. /\ Announced(c)' /\ ~Unscheduled(c) /\ StillAsked(c) /\ toSched'[c] = toSched[c]
          /\ \A x : x # "DROP_LOCK" => (In(toClient'[c], x) <=> In(toClient[c], x))
      BY <1>10, <2>1, <2>3
    <3>2. OffMode(c)'
      BY <1>11, <2>1, <3>1 DEF OffMode, Unscheduled
    <3>3. StillAsked(c)'
      BY <1>1, <1>11, <2>1, <3>1 DEF StillAsked, Scheduled, Granted, Returned
    <3>4. QED
      BY <3>1, <3>2, <3>3
  <2>4. QED
    BY <2>2, <2>3
<1>14. CASE OnSchedOn(c)
  <2>1. /\ status_on'[c] /\ Receive(c, "SCHED_ON") /\ UNCHANGED <<handler, releaser, app>>
        /\ own_lock'[c] = (own_lock[c] /\ status_on[c])
        /\ need_lock'[c] = (need_lock[c] /\ status_on[c])
    BY <1>0, <1>14 DEF OnSchedOn, ClientTypeOK
  <2>2. Mutexed(c)'
    BY <1>11, <2>1 DEF Mutexed
  <2>3. ASSUME Alive(c)' PROVE (Announced(c) /\ OffMode(c) /\ StillAsked(c))'
    <3>0. /\ Announced(c)' /\ OffMode(c) /\ StillAsked(c) /\ toSched'[c] = toSched[c]
          /\ \A x : In(toClient[c], x) <=> In(toClient'[c], x) \/ x = "SCHED_ON"
      <4>1. Receive(c, "SCHED_ON") /\ status_on'[c]
        BY <2>1
      <4>2. QED
        BY <1>10, <2>3, <4>1, Zenon
    <3>1. /\ Announced(c)' /\ OffMode(c) /\ StillAsked(c) /\ toSched'[c] = toSched[c]
          /\ \A x : x # "SCHED_ON" => (In(toClient'[c], x) <=> In(toClient[c], x))
      BY <3>0
    <3>2. OffMode(c)'
      BY <2>1 DEF OffMode, Unscheduled
    <3>3. \A t \in Threads : app'[c][t] = "waiting" => need_lock'[c]
      <4>1. CASE status_on[c]
        BY <2>1, <3>1, <4>1 DEF StillAsked
      <4>2. CASE ~status_on[c]
        BY <1>11, <2>1, <3>1, <4>2 DEF OffMode, Unscheduled
      <4>3. QED
        BY <4>1, <4>2
    <3>4. StillAsked(c)'
      BY <1>1, <1>11, <2>1, <3>1, <3>3 DEF StillAsked, Scheduled, Granted, Returned
    <3>5. QED
      BY <3>1, <3>2, <3>4
  <2>4. QED
    BY <2>2, <2>3
<1>15. CASE OnSchedOff(c)
  <2>1. /\ ~status_on'[c] /\ Receive(c, "SCHED_OFF") /\ UNCHANGED <<handler, releaser>>
        /\ status_on[c] => /\ own_lock'[c] /\ ~need_lock'[c]
                           /\ \A t \in Threads : app'[c][t] # "waiting"
    <3>1. ~status_on'[c] /\ Receive(c, "SCHED_OFF") /\ UNCHANGED <<handler, releaser>>
      BY <1>0, <1>15 DEF OnSchedOff, ClientTypeOK
    <3>2. ASSUME status_on[c]
          PROVE  /\ own_lock'[c] /\ ~need_lock'[c]
                 /\ \A t \in Threads : app'[c][t] # "waiting"
      <4>1. own_lock'[c] /\ ~need_lock'[c]
        BY <1>0, <1>15, <3>2 DEF OnSchedOff, ClientTypeOK
      <4>2. WakeApp(c)
        BY <1>15, <3>2 DEF OnSchedOff
      <4>3. \A t \in Threads : app'[c][t] # "waiting"
        BY <1>0, <4>2 DEF WakeApp, ClientTypeOK
      <4>4. QED
        BY <4>1, <4>3
    <3>3. QED
      BY <3>1, <3>2
  <2>2. Mutexed(c)'
    BY <1>11, <2>1 DEF Mutexed
  <2>3. ASSUME Alive(c)' PROVE (Announced(c) /\ OffMode(c) /\ StillAsked(c))'
    <3>1. Announced(c)' /\ ~Unscheduled(c)
      BY <1>10, <2>1, <2>3
    <3>2. status_on[c]
      BY <1>11, <2>1, <3>1 DEF Unscheduled
    <3>3. OffMode(c)' /\ StillAsked(c)'
      BY <1>11, <2>1, <3>2 DEF OffMode, StillAsked, Scheduled
    <3>4. QED
      BY <3>1, <3>3
  <2>4. QED
    BY <2>2, <2>3
<1>16. QED
  BY <1>4, <1>5, <1>6, <1>7, <1>8, <1>9, <1>12, <1>13, <1>14, <1>15 DEF KindOf

LEMMA OthersSInv ==
    ASSUME SInv, NEW c \in Conns, Wires(c), Others(c), NEW d \in Clients, d # c
    PROVE  (Mutexed(d) /\ (Alive(d) => Announced(d) /\ OffMode(d) /\ StillAsked(d)))'
<1>1. /\ toSched'[d] = toSched[d] /\ toClient'[d] = toClient[d]
      /\ UNCHANGED <<clients, registered, requests, scheduler_on, exited>>
  BY ClientsAssumption DEF Wires, schedVars
<1>2. /\ proc'[d] = proc[d] /\ status_on'[d] = status_on[d] /\ own_lock'[d] = own_lock[d]
      /\ need_lock'[d] = need_lock[d]
      /\ handler'[d] = handler[d] /\ releaser'[d] = releaser[d] /\ app'[d] = app[d]
  BY DEF Others
<1>3. Mutexed(d)'
  BY <1>2 DEF SInv, Mutexed
<1>4. ASSUME Alive(d)' PROVE (Announced(d) /\ OffMode(d) /\ StillAsked(d))'
  <2>1. Announced(d) /\ OffMode(d) /\ StillAsked(d)
    BY <1>1, <1>2, <1>4 DEF SInv, Alive, Served
  <2>2. QED
    BY <1>1, <1>2, <2>1 DEF Announced, ToldOff, Unscheduled, OffMode, StillAsked, Scheduled,
                            Granted, Returned
<1>5. QED
  BY <1>3, <1>4

LEMMA NextSInv ==
    ASSUME SInv, [Next]_vars
    PROVE  SInv'
<1>0. NInv /\ NInv' /\ Clients \subseteq Conns
  BY NextNInv, ClientsAssumption DEF SInv
<1>1. CASE SchedNext /\ UNCHANGED <<clientVars, commands>>
  BY <1>1, SchedSInv
<1>2. ASSUME NEW c \in Clients, ClientAction(c) PROVE SInv'
  <2>1. Wires(c) /\ Others(c) /\ KindOf(c)
    BY <1>0, <1>2, ClientKinds
  <2>2. \A d \in Clients :
            (Mutexed(d) /\ (Alive(d) => Announced(d) /\ OffMode(d) /\ StillAsked(d)))'
    BY <1>0, <2>1, OwnSInv, OthersSInv
  <2>3. QED
    BY <1>0, <2>2 DEF SInv
<1>3. ASSUME NEW c \in Ctls, nvsharectl(c) PROVE SInv'
  <2>1. c \in Conns /\ Wires(c) /\ clientVars' = clientVars
    BY <1>0, <1>3, CtlStep
  <2>2. Others(c)
    BY <2>1 DEF clientVars, Others
  <2>3. \A d \in Clients :
            (Mutexed(d) /\ (Alive(d) => Announced(d) /\ OffMode(d) /\ StillAsked(d)))'
    BY <2>1, <2>2, OthersSInv, CtlsAssumption
  <2>4. QED
    BY <1>0, <2>3 DEF SInv
<1>4. CASE UNCHANGED vars
  <2>1. NoStep
    BY <1>4 DEF vars, commVars, schedVars, NoStep
  <2>2. QED
    BY <1>0, <2>1, NoStepSInv DEF SInv
<1>5. QED
  BY <1>1, <1>2, <1>3, <1>4 DEF Next

(* SInv is an invariant of the system, whatever nvsharectl is told to do *)
THEOREM StatusInvariance == Spec => []SInv
<1>1. Init => SInv
  <2>1. SUFFICES ASSUME Init PROVE SInv
    OBVIOUS
  <2>2. NInv
    BY <2>1, InitNInv
  <2>3. \A c \in Clients : handler[c] = "recv" /\ releaser[c] = "starting" /\ c \notin clients
    BY <2>1 DEF Init, CommInit, ClientInit
  <2>4. QED
    BY <2>2, <2>3 DEF SInv, Mutexed, Alive, Served
<1>2. SInv /\ [Next]_vars => SInv'
  BY NextSInv
<1>3. QED
  BY <1>1, <1>2, PTL DEF Spec

(* A thread that waits in continue_with_lock() waits for something, however  *)
(* often nvsharectl turns the scheduler on and off meanwhile: its process's  *)
(* request is on its way or in the list, or the grant is on its way, or the  *)
(* SCHED_OFF that wakes it up.                                               *)
THEOREM RequestsAreNotLost == Spec => []NoLostRequest
<1>1. ASSUME SInv PROVE NoLostRequest
  <2>1. SUFFICES ASSUME NEW c \in Clients, NEW t \in Threads, app[c][t] = "waiting", Served(c)
                 PROVE  \/ "REQ_LOCK" \in Range(toSched[c])
                        \/ c \in Range(requests)
                        \/ {"LOCK_OK", "SCHED_OFF"} \cap Range(toClient[c]) # {}
    BY DEF NoLostRequest
  <2>2. /\ toClient[c] \in Seq(Messages) /\ toSched[c] \in Seq(Messages)
        /\ requests \in Seq(Conns)
    BY <1>1, SchedFacts, ClientsAssumption DEF SInv, NInv
  <2>3. proc[c] = "up"
    BY <1>1, <2>1 DEF SInv, NInv, Idle
  <2>4. OffMode(c) /\ StillAsked(c)
    BY <1>1, <2>1, <2>3 DEF SInv, Alive
  <2>5. \/ Asks(toSched[c]) \/ In(requests, c)
        \/ In(toClient[c], "LOCK_OK") \/ In(toClient[c], "SCHED_OFF")
    BY <2>1, <2>3, <2>4 DEF OffMode, Unscheduled, StillAsked, Scheduled, Granted
  <2>6. ASSUME NEW S, NEW q \in Seq(S), NEW x, In(q, x) PROVE x \in Range(q)
    <3>1. DOMAIN q = 1..Len(q)
      BY <2>6, LenProperties
    <3>2. QED
      BY <2>6, <3>1 DEF In, Range
  <2>7. Asks(toSched[c]) => In(toSched[c], "REQ_LOCK")
    BY DEF Asks, In
  <2>8. QED
    BY <2>2, <2>5, <2>6, <2>7
<1>2. QED
  BY StatusInvariance, <1>1, PTL

-----------------------------------------------------------------------------
(* Turning the scheduler off and on again *)

Holder(c) == lock_held /\ requests[1] = c

(* The SCHED_OFF of nvsharectl is still to come *)
OffAhead == In(commands, "SCHED_OFF") \/ \E c \in Ctls : In(toSched[c], "SCHED_OFF")

(* It comes once *)
OneOff ==
    /\ Once(commands, "SCHED_OFF")
    /\ In(commands, "SCHED_OFF") => \A c \in Ctls : ~In(toSched[c], "SCHED_OFF")
    /\ \A c, d \in Ctls : In(toSched[c], "SCHED_OFF") /\ In(toSched[d], "SCHED_OFF") => c = d
    /\ \A c \in Ctls : Once(toSched[c], "SCHED_OFF")

(* A grant in channel q that SCHED_OFF takes back, and one that stands *)
Stale(q) == Before(q, "LOCK_OK", "SCHED_OFF")
Valid(q) == Latest(q, "LOCK_OK", "SCHED_OFF")

Owns(c) == own_lock[c] \/ handler[c] = "drop"

(* Nothing comes twice *)
Single(c) ==
    /\ Once(toClient[c], "LOCK_OK") /\ Once(toClient[c], "SCHED_OFF")
    /\ Once(toSched[c], "LOCK_RELEASED")
    /\ Unscheduled(c) => ~In(toClient[c], "SCHED_OFF")

(* A client with the lock of before a SCHED_OFF it has not read asks for     *)
(* nothing and is given nothing.                                             *)
Outdated(c) ==
    /\ Stale(toClient[c]) => need_lock[c]
    /\ In(toClient[c], "SCHED_OFF") /\ (Owns(c) \/ Stale(toClient[c])) =>
          /\ ~In(toSched[c], "REQ_LOCK") /\ ~Returned(c)
          /\ ~In(requests, c) /\ ~Valid(toClient[c])

(* A grant that stands, and the lock of a client that no SCHED_OFF is on its *)
(* way to, are the holder's.                                                 *)
UpToDate(c) ==
    /\ Valid(toClient[c]) => Holder(c) /\ ~Returned(c)
    /\ Scheduled(c) /\ Owns(c) => Holder(c) /\ ~Returned(c) /\ ~Valid(toClient[c])

(* A lock on its way back is the holder's, or came too late to matter *)
GivenBack(c) ==
    Returned(c) =>
        \/ Holder(c)
        \/ ~In(requests, c) /\ ~Before(toSched[c], "REQ_LOCK", "LOCK_RELEASED")

(* Before the SCHED_OFF, a client asks once and only when it needs to *)
AsksOnce(c) ==
    /\ ~In(toClient[c], "SCHED_OFF") /\ (proc[c] = "up" => status_on[c])
    /\ ~need_lock[c] =>
          ~In(toSched[c], "REQ_LOCK") /\ (In(requests, c) => Returned(c) \/ Owns(c))
    /\ Once(toSched[c], "REQ_LOCK")
    /\ In(requests, c) /\ In(toSched[c], "REQ_LOCK") => Returned(c)
    /\ Granted(c) => need_lock[c] /\ ~In(toSched[c], "REQ_LOCK")
    /\ ~Before(toSched[c], "REQ_LOCK", "LOCK_RELEASED")

LockOf(c) == Single(c) /\ Outdated(c) /\ UpToDate(c) /\ GivenBack(c)

OInv ==
    /\ SInv
    /\ OneOff
    /\ \A c \in Clients : Alive(c) => LockOf(c)
    /\ exited = "no" /\ OffAhead =>
          scheduler_on /\ \A c \in Clients : Alive(c) => AsksOnce(c)

(* A message is followed by another or not *)
LEMMA LatestOrBefore ==
    ASSUME NEW q, NEW a, NEW b
    PROVE  /\ In(q, a) => Latest(q, a, b) \/ Before(q, a, b)
           /\ Latest(q, a, b) => In(q, a)
           /\ Before(q, a, b) => In(q, a) /\ In(q, b)
BY DEF In, Latest, Before

(* What writing x (or nothing) to d means for its grants *)
Gets(d, x) ==
    /\ x \in {"none", "LOCK_OK", "DROP_LOCK", "SCHED_ON", "SCHED_OFF"}
    /\ In(toClient'[d], "SCHED_OFF") <=> In(toClient[d], "SCHED_OFF") \/ x = "SCHED_OFF"
    /\ Granted(d)' <=> Granted(d) \/ x = "LOCK_OK"
    /\ Stale(toClient'[d]) <=> Stale(toClient[d]) \/ (Granted(d) /\ x = "SCHED_OFF")
    /\ Valid(toClient'[d]) <=> x = "LOCK_OK" \/ (Valid(toClient[d]) /\ x # "SCHED_OFF")
    /\ Once(toClient[d], "LOCK_OK") /\ (x # "LOCK_OK" \/ ~Granted(d)) =>
          Once(toClient'[d], "LOCK_OK")
    /\ Once(toClient[d], "SCHED_OFF") /\ (x # "SCHED_OFF" \/ ~In(toClient[d], "SCHED_OFF")) =>
          Once(toClient'[d], "SCHED_OFF")
    /\ x = "LOCK_OK" => Holder(d)' /\ In(requests', d) /\ ~Holder(d)
    /\ x = "SCHED_OFF" => \/ d \in registered /\ scheduler_on /\ ~scheduler_on'
                          \/ d \notin registered /\ toClient[d] = <<>> /\ ~scheduler_on
    /\ x # "SCHED_OFF" /\ d \in registered /\ scheduler_on => scheduler_on'

LEMMA HearsGets ==
    ASSUME NInv, IInv', NEW d \in Clients, Hears(d)
    PROVE  \E x : Gets(d, x)
<1>0. /\ toClient[d] \in Seq(Messages) /\ scheduler_on \in BOOLEAN
      /\ {"LOCK_OK", "DROP_LOCK", "SCHED_ON", "SCHED_OFF"} \subseteq Messages
  BY ClientsAssumption, SchedFacts DEF NInv, Messages
<1>1. CASE toClient'[d] = toClient[d] /\ (d \in registered => scheduler_on' = scheduler_on)
  <2>1. Gets(d, "none")
    BY <1>1 DEF Gets, Granted
  <2>2. QED
    BY <2>1
<1>2. ASSUME NEW x \in {"LOCK_OK", "DROP_LOCK", "SCHED_ON", "SCHED_OFF"},
             toClient'[d] = Append(toClient[d], x),
             x = "LOCK_OK" => Holder(d)' /\ In(requests', d) /\ ~Holder(d),
             x = "SCHED_OFF" => \/ d \in registered /\ scheduler_on /\ ~scheduler_on'
                                \/ d \notin registered /\ toClient[d] = <<>> /\ ~scheduler_on,
             x # "SCHED_OFF" /\ d \in registered /\ scheduler_on => scheduler_on'
      PROVE  Gets(d, x)
  <2>1. x \in Messages
    BY <1>0
  <2>2. /\ \A y : In(Append(toClient[d], x), y) <=> In(toClient[d], y) \/ y = x
        /\ \A y : Once(toClient[d], y) /\ (x # y \/ ~In(toClient[d], y)) =>
                     Once(Append(toClient[d], x), y)
    BY <1>0, <2>1, WriteChannel
  <2>3. /\ \A a, b : Before(Append(toClient[d], x), a, b) <=>
                        Before(toClient[d], a, b) \/ (In(toClient[d], a) /\ x = b)
        /\ \A a, b : Latest(Append(toClient[d], x), a, b) <=>
                        x = a \/ (Latest(toClient[d], a, b) /\ x # b)
    BY <1>0, <2>1, WriteOrder
  <2>4. /\ In(toClient'[d], "SCHED_OFF") <=> In(toClient[d], "SCHED_OFF") \/ x = "SCHED_OFF"
        /\ Granted(d)' <=> Granted(d) \/ x = "LOCK_OK"
    BY <1>2, <2>2 DEF Granted
  <2>5. Stale(toClient'[d]) <=> Stale(toClient[d]) \/ (Granted(d) /\ x = "SCHED_OFF")
    BY <1>2, <2>3 DEF Stale, Granted
  <2>6. Valid(toClient'[d]) <=> x = "LOCK_OK" \/ (Valid(toClient[d]) /\ x # "SCHED_OFF")
    BY <1>2, <2>3 DEF Valid
  <2>7. /\ Once(toClient[d], "LOCK_OK") /\ (x # "LOCK_OK" \/ ~Granted(d)) =>
              Once(toClient'[d], "LOCK_OK")
        /\ Once(toClient[d], "SCHED_OFF") /\ (x # "SCHED_OFF" \/ ~In(toClient[d], "SCHED_OFF")) =>
              Once(toClient'[d], "SCHED_OFF")
    BY <1>2, <2>2 DEF Granted
  <2>8. QED
    BY <1>2, <2>4, <2>5, <2>6, <2>7 DEF Gets
<1>3. ASSUME NEW x \in {"LOCK_OK", "DROP_LOCK"},
             toClient'[d] = Append(toClient[d], x), scheduler_on',
             x = "LOCK_OK" => /\ lock_held' /\ requests'[1] = d /\ In(requests', d)
                              /\ ~(lock_held /\ requests[1] = d)
      PROVE  Gets(d, x)
  <2>1. x = "LOCK_OK" => Holder(d)' /\ In(requests', d) /\ ~Holder(d)
    BY <1>3 DEF Holder
  <2>2. QED
    BY <1>2, <1>3, <2>1
<1>4. ASSUME toClient'[d] = Append(toClient[d], IF scheduler_on' THEN "SCHED_ON" ELSE "SCHED_OFF"),
             \/ d \in registered /\ scheduler_on' # scheduler_on
             \/ d \notin registered /\ toClient[d] = <<>> /\ scheduler_on' = scheduler_on
      PROVE  \E x : Gets(d, x)
  <2>0. scheduler_on' \in BOOLEAN
    BY DEF IInv, Sound, Records, State
  <2>1. CASE scheduler_on'
    <3>1. Gets(d, "SCHED_ON")
      BY <1>2, <1>4, <2>1
    <3>2. QED
      BY <3>1
  <2>2. CASE ~scheduler_on'
    <3>1. toClient'[d] = Append(toClient[d], "SCHED_OFF")
      BY <1>4, <2>2
    <3>2. \/ d \in registered /\ scheduler_on /\ ~scheduler_on'
          \/ d \notin registered /\ toClient[d] = <<>> /\ ~scheduler_on
      BY <1>0, <1>4, <2>0, <2>2
    <3>3. Gets(d, "SCHED_OFF")
      BY <1>2, <3>1, <3>2
    <3>4. QED
      BY <3>3
  <2>3. QED
    BY <2>1, <2>2
<1>5. QED
  BY <1>1, <1>3, <1>4 DEF Hears

(* What handling a message of c means for the requests and releases of d *)
Attends(c, m, d) ==
    /\ \A x : In(toSched'[d], x) => In(toSched[d], x)
    /\ \A x : Once(toSched[d], x) => Once(toSched'[d], x)
    /\ Before(toSched'[d], "REQ_LOCK", "LOCK_RELEASED") =>
          Before(toSched[d], "REQ_LOCK", "LOCK_RELEASED")
    /\ m = "LOCK_RELEASED" /\ c = d => Returned(d) /\ ~Returned(d)' /\ ~In(requests', d)
    /\ ~(m = "LOCK_RELEASED" /\ c = d) /\ Returned(d) => Returned(d)'
    /\ m = "REQ_LOCK" /\ c = d =>
          /\ In(toSched[d], "REQ_LOCK")
          /\ Once(toSched[d], "REQ_LOCK") => ~In(toSched'[d], "REQ_LOCK")
          /\ Returned(d) => Before(toSched[d], "REQ_LOCK", "LOCK_RELEASED")
    /\ In(requests', d) =>
          m # "SCHED_OFF" /\ (In(requests, d) \/ (m = "REQ_LOCK" /\ c = d))
    /\ Holder(d) => Holder(d)' \/ m = "SCHED_OFF" \/ (m = "LOCK_RELEASED" /\ c = d)

LEMMA HandleQueue ==
    ASSUME NInv, IInv', NEW c \in Conns \cup {Lsock}, NEW m \in Messages \cup {"none"},
           HandleStep(c, m), TellStep(c, m), NEW d \in Clients, d \in clients',
           Once(toSched[d], "LOCK_RELEASED")
    PROVE  Attends(c, m, d)
<1>0. /\ IInv /\ d \in Conns /\ Reads(c, m, d) /\ Queues(c, m, d) /\ toSched[d] \in Seq(Messages)
      /\ scheduler_on' = IF m \in {"SCHED_ON", "SCHED_OFF"} THEN m = "SCHED_ON" ELSE scheduler_on
  BY ClientsAssumption, SchedFacts DEF HandleStep, NInv
<1>1. /\ \A x : In(toSched'[d], x) => In(toSched[d], x)
      /\ \A x : Once(toSched[d], x) => Once(toSched'[d], x)
      /\ m # "none" /\ c = d => In(toSched[d], m)
  BY <1>0, HandleChannels
<1>2. In(requests', d) => m # "SCHED_OFF" /\ (In(requests, d) \/ (m = "REQ_LOCK" /\ c = d))
  <2>1. In(requests', d) => scheduler_on'
    BY OnIfListedNext
  <2>2. QED
    BY <1>0, <2>1 DEF Queues
<1>3. Holder(d) => Holder(d)' \/ m = "SCHED_OFF" \/ (m = "LOCK_RELEASED" /\ c = d)
  BY <1>0 DEF Holder, Queues
<1>4. CASE ~(m # "none" /\ c = d)
  <2>1. toSched'[d] = toSched[d]
    BY <1>0, <1>4 DEF Reads
  <2>2. m # "none" \/ (m # "LOCK_RELEASED" /\ m # "REQ_LOCK")
    OBVIOUS
  <2>3. QED
    BY <1>1, <1>2, <1>3, <1>4, <2>1, <2>2 DEF Returned, Attends
<1>5. CASE m # "none" /\ c = d
  <2>1. toSched[d] # <<>> /\ Head(toSched[d]) = m /\ toSched'[d] = Tail(toSched[d])
    BY <1>0, <1>5 DEF Reads
  <2>2. /\ \A x : In(toSched[d], x) <=> In(toSched'[d], x) \/ x = m
        /\ \A x : Once(toSched[d], x) => ~(m = x /\ In(toSched'[d], x))
    <3>1. /\ \A x : In(toSched[d], x) <=> In(Tail(toSched[d]), x) \/ x = Head(toSched[d])
          /\ \A x : Once(toSched[d], x) => ~(Head(toSched[d]) = x /\ In(Tail(toSched[d]), x))
      BY <1>0, <2>1, ReadChannel
    <3>2. QED
      BY <2>1, <3>1
  <2>3. Before(toSched[d], "REQ_LOCK", "LOCK_RELEASED") <=>
          \/ Before(toSched'[d], "REQ_LOCK", "LOCK_RELEASED")
          \/ m = "REQ_LOCK" /\ In(toSched'[d], "LOCK_RELEASED")
    BY <1>0, <2>1, ReadOrder
  <2>4. m = "LOCK_RELEASED" => Returned(d) /\ ~Returned(d)' /\ ~In(requests', d)
    BY <1>5, <2>2 DEF Returned, TellStep
  <2>5. m # "LOCK_RELEASED" /\ Returned(d) => Returned(d)'
    BY <2>2 DEF Returned
  <2>6. m = "REQ_LOCK" =>
          /\ In(toSched[d], "REQ_LOCK")
          /\ Once(toSched[d], "REQ_LOCK") => ~In(toSched'[d], "REQ_LOCK")
          /\ Returned(d) => Before(toSched[d], "REQ_LOCK", "LOCK_RELEASED")
    BY <2>2, <2>3 DEF Returned
  <2>7. QED
    BY <1>1, <1>2, <1>3, <1>5, <2>3, <2>4, <2>5, <2>6 DEF Attends
<1>6. QED
  BY <1>4, <1>5

(* What the steps of the scheduler need to know of client d *)
Handled(c, m, d, x) ==
    /\ Gets(d, x) /\ Attends(c, m, d) /\ LockOf(d)
    /\ proc'[d] = proc[d] /\ status_on'[d] = status_on[d] /\ own_lock'[d] = own_lock[d]
    /\ need_lock'[d] = need_lock[d] /\ handler'[d] = handler[d]
    /\ Owns(d) => proc[d] = "up" /\ ~need_lock[d]
    /\ Holder(d) => d \in registered
    /\ proc[d] = "up" => d \in registered
    /\ m = "SCHED_OFF" => AsksOnce(d) /\ (d \in registered => x = "SCHED_OFF")
    /\ x = "SCHED_OFF" =>
          \/ m = "SCHED_OFF" /\ d \in registered
          \/ d \notin registered /\ ~Granted(d) /\ ~In(toClient[d], "SCHED_OFF")

(* A second grant answers no request, and SCHED_OFF comes once *)
LEMMA HandledOnce ==
    ASSUME NEW c, NEW m, NEW d, NEW x, Handled(c, m, d, x)
    PROVE  /\ x = "LOCK_OK" => ~Granted(d)
           /\ x = "SCHED_OFF" => ~In(toClient[d], "SCHED_OFF") /\ ~Stale(toClient[d])
           /\ x # "SCHED_OFF" /\ Holder(d) /\ ~Returned(d) => Holder(d)'
<1>1. ASSUME x = "LOCK_OK" PROVE ~Granted(d)
  <2>1. ~Holder(d) /\ In(requests', d)
    BY <1>1 DEF Handled, Gets
  <2>2. ~Valid(toClient[d])
    BY <2>1 DEF Handled, LockOf, UpToDate
  <2>3. Granted(d) => Stale(toClient[d]) /\ In(toClient[d], "SCHED_OFF")
    BY <2>2, LatestOrBefore DEF Granted, Valid, Stale
  <2>4. In(requests, d) \/ In(toSched[d], "REQ_LOCK")
    BY <2>1 DEF Handled, Attends
  <2>5. QED
    BY <2>3, <2>4 DEF Handled, LockOf, Outdated
<1>2. ASSUME x = "SCHED_OFF" PROVE ~In(toClient[d], "SCHED_OFF")
  BY <1>2 DEF Handled, AsksOnce
<1>3. Stale(toClient[d]) => In(toClient[d], "SCHED_OFF")
  BY LatestOrBefore DEF Stale
<1>4. ASSUME x # "SCHED_OFF", Holder(d), ~Returned(d) PROVE Holder(d)'
  BY <1>4 DEF Handled, Attends
<1>5. QED
  BY <1>1, <1>2, <1>3, <1>4

LEMMA HandledSingle ==
    ASSUME NEW c, NEW m, NEW d, NEW x, Handled(c, m, d, x)
    PROVE  Single(d)'
<1>1. Once(toClient'[d], "LOCK_OK") /\ Once(toClient'[d], "SCHED_OFF")
  BY HandledOnce DEF Handled, LockOf, Single, Gets
<1>2. Once(toSched'[d], "LOCK_RELEASED")
  BY DEF Handled, LockOf, Single, Attends
<1>3. Unscheduled(d)' => Unscheduled(d)
  BY DEF Handled, Unscheduled
<1>4. ASSUME Unscheduled(d) PROVE x # "SCHED_OFF"
  BY <1>4 DEF Handled, AsksOnce, Unscheduled
<1>5. Unscheduled(d)' => ~In(toClient'[d], "SCHED_OFF")
  BY <1>3, <1>4 DEF Handled, LockOf, Single, Gets
<1>6. QED
  BY <1>1, <1>2, <1>5 DEF Single

LEMMA HandledOutdated ==
    ASSUME NEW c, NEW m, NEW d, NEW x, Handled(c, m, d, x)
    PROVE  Outdated(d)'
<1>0. Gets(d, x) /\ Attends(c, m, d) /\ LockOf(d) /\ need_lock'[d] = need_lock[d]
      /\ (Owns(d)' <=> Owns(d))
  BY DEF Handled, Owns
<1>1. ASSUME Stale(toClient'[d]) PROVE need_lock'[d]
  <2>1. Stale(toClient[d]) \/ (Granted(d) /\ x = "SCHED_OFF")
    BY <1>0, <1>1 DEF Gets
  <2>2. Stale(toClient[d]) => need_lock[d]
    BY <1>0 DEF LockOf, Outdated
  <2>3. Granted(d) /\ x = "SCHED_OFF" => need_lock[d]
    BY DEF Handled, AsksOnce
  <2>4. QED
    BY <1>0, <2>1, <2>2, <2>3
<1>2. ASSUME x # "SCHED_OFF", In(toClient[d], "SCHED_OFF"), Owns(d) \/ Stale(toClient[d])
      PROVE  /\ ~In(toSched'[d], "REQ_LOCK") /\ ~Returned(d)'
             /\ ~In(requests', d) /\ ~Valid(toClient'[d])
  <2>1. /\ ~In(toSched[d], "REQ_LOCK") /\ ~Returned(d)
        /\ ~In(requests, d) /\ ~Valid(toClient[d])
    BY <1>0, <1>2 DEF LockOf, Outdated
  <2>2. ~In(requests', d) /\ ~In(toSched'[d], "REQ_LOCK") /\ ~Returned(d)'
    BY <1>0, <2>1 DEF Attends, Returned
  <2>3. ~Valid(toClient'[d])
    BY <1>0, <2>1, <2>2 DEF Gets
  <2>4. QED
    BY <2>2, <2>3
<1>3. ASSUME x = "SCHED_OFF", Owns(d) \/ Stale(toClient'[d])
      PROVE  /\ ~In(toSched'[d], "REQ_LOCK") /\ ~Returned(d)'
             /\ ~In(requests', d) /\ ~Valid(toClient'[d])
  <2>1. ~In(toClient[d], "SCHED_OFF") /\ ~Stale(toClient[d])
    BY <1>3, HandledOnce
  <2>2. Owns(d) \/ Granted(d)
    BY <1>0, <1>3, <2>1 DEF Gets
  <2>3. m = "SCHED_OFF" /\ AsksOnce(d)
    BY <1>3, <2>2 DEF Handled
  <2>4. ~Valid(toClient'[d]) /\ ~In(requests', d)
    BY <1>0, <1>3, <2>3 DEF Gets, Attends
  <2>5. ASSUME Owns(d) PROVE ~In(toSched[d], "REQ_LOCK") /\ ~Returned(d)
    <3>1. proc[d] = "up" /\ ~need_lock[d]
      BY <2>5 DEF Handled
    <3>2. Scheduled(d)
      BY <2>1, <2>3, <3>1 DEF AsksOnce, Scheduled
    <3>3. ~Returned(d)
      BY <1>0, <2>5, <3>2 DEF LockOf, UpToDate
    <3>4. QED
      BY <2>3, <3>1, <3>3 DEF AsksOnce
  <2>6. ASSUME Granted(d) PROVE ~In(toSched[d], "REQ_LOCK") /\ ~Returned(d)
    <3>1. Valid(toClient[d])
      BY <2>1, <2>6, LatestOrBefore DEF Granted, Valid, Stale
    <3>2. ~Returned(d)
      BY <1>0, <3>1 DEF LockOf, UpToDate
    <3>3. QED
      BY <2>3, <2>6, <3>2 DEF AsksOnce
  <2>7. ~In(toSched'[d], "REQ_LOCK") /\ ~Returned(d)'
    BY <1>0, <2>2, <2>5, <2>6 DEF Attends, Returned
  <2>8. QED
    BY <2>4, <2>7
<1>4. ASSUME In(toClient'[d], "SCHED_OFF"), Owns(d)' \/ Stale(toClient'[d])
      PROVE  /\ ~In(toSched'[d], "REQ_LOCK") /\ ~Returned(d)'
             /\ ~In(requests', d) /\ ~Valid(toClient'[d])
  <2>1. CASE x = "SCHED_OFF"
    BY <1>0, <1>3, <1>4, <2>1
  <2>2. CASE x # "SCHED_OFF"
    <3>1. In(toClient[d], "SCHED_OFF") /\ (Owns(d) \/ Stale(toClient[d]))
      BY <1>0, <1>4, <2>2 DEF Gets
    <3>2. QED
      BY <1>2, <2>2, <3>1
  <2>3. QED
    BY <2>1, <2>2
<1>5. QED
  BY <1>1, <1>4 DEF Outdated

LEMMA HandledUpToDate ==
    ASSUME NEW c, NEW m, NEW d, NEW x, Handled(c, m, d, x)
    PROVE  UpToDate(d)' /\ GivenBack(d)'
<1>0. /\ Gets(d, x) /\ Attends(c, m, d) /\ LockOf(d) /\ (Owns(d)' <=> Owns(d))
      /\ Returned(d)' => Returned(d)
  BY DEF Handled, Owns, Attends, Returned
<1>1. ASSUME Valid(toClient'[d]) PROVE Holder(d)' /\ ~Returned(d)'
  <2>1. CASE x = "LOCK_OK"
    <3>1. Holder(d)' /\ In(requests', d) /\ ~Holder(d)
      BY <1>0, <2>1 DEF Gets
    <3>2. ASSUME Returned(d)' PROVE FALSE
      <4>1. ~In(requests, d) /\ ~Before(toSched[d], "REQ_LOCK", "LOCK_RELEASED") /\ Returned(d)
        BY <1>0, <3>1, <3>2 DEF LockOf, GivenBack
      <4>2. QED
        BY <1>0, <3>1, <4>1 DEF Attends
    <3>3. QED
      BY <3>1, <3>2
  <2>2. CASE x # "LOCK_OK"
    <3>1. Valid(toClient[d]) /\ x # "SCHED_OFF"
      BY <1>0, <1>1, <2>2 DEF Gets
    <3>2. Holder(d) /\ ~Returned(d)
      BY <1>0, <3>1 DEF LockOf, UpToDate
    <3>3. QED
      BY <1>0, <3>1, <3>2, HandledOnce
  <2>3. QED
    BY <2>1, <2>2
<1>2. ASSUME Scheduled(d)', Owns(d)' PROVE Holder(d)' /\ ~Returned(d)' /\ ~Valid(toClient'[d])
  <2>1. Scheduled(d) /\ x # "SCHED_OFF" /\ Owns(d)
    <3>1. ~In(toClient'[d], "SCHED_OFF")
      BY <1>2 DEF Scheduled
    <3>2. proc[d] = "up" /\ status_on[d]
      BY <1>2 DEF Scheduled, Handled
    <3>3. QED
      BY <1>0, <1>2, <3>1, <3>2 DEF Gets, Scheduled
  <2>2. Holder(d) /\ ~Returned(d) /\ ~Valid(toClient[d])
    BY <1>0, <2>1 DEF LockOf, UpToDate
  <2>3. ~Valid(toClient'[d])
    BY <1>0, <2>2 DEF Gets
  <2>4. QED
    BY <1>0, <2>1, <2>2, <2>3, HandledOnce
<1>3. ASSUME Returned(d)'
      PROVE  \/ Holder(d)'
             \/ ~In(requests', d) /\ ~Before(toSched'[d], "REQ_LOCK", "LOCK_RELEASED")
  <2>1. Returned(d) /\ ~(m = "LOCK_RELEASED" /\ c = d)
    BY <1>0, <1>3 DEF Attends
  <2>2. CASE Holder(d)
    <3>1. Holder(d)' \/ m = "SCHED_OFF"
      BY <1>0, <2>1, <2>2 DEF Attends
    <3>2. ASSUME m = "SCHED_OFF"
          PROVE  ~In(requests', d) /\ ~Before(toSched'[d], "REQ_LOCK", "LOCK_RELEASED")
      BY <1>0, <3>2 DEF Handled, AsksOnce, Attends
    <3>3. QED
      BY <3>1, <3>2
  <2>3. CASE ~Holder(d)
    <3>1. ~In(requests, d) /\ ~Before(toSched[d], "REQ_LOCK", "LOCK_RELEASED")
      BY <1>0, <2>1, <2>3 DEF LockOf, GivenBack
    <3>2. QED
      BY <1>0, <2>1, <3>1 DEF Attends
  <2>4. QED
    BY <2>2, <2>3
<1>4. QED
  BY <1>1, <1>2, <1>3 DEF UpToDate, GivenBack

(* A client is granted the lock it needs, once it has asked *)
LEMMA HandledAsksOnce ==
    ASSUME NEW c, NEW m, NEW d, NEW x, Handled(c, m, d, x), AsksOnce(d), x # "SCHED_OFF"
    PROVE  AsksOnce(d)'
<1>0. /\ Gets(d, x) /\ Attends(c, m, d) /\ LockOf(d) /\ (Owns(d)' <=> Owns(d))
      /\ Returned(d)' => Returned(d)
      /\ need_lock'[d] = need_lock[d] /\ proc'[d] = proc[d] /\ status_on'[d] = status_on[d]
  BY DEF Handled, Owns, Attends, Returned
<1>1. ~In(toClient'[d], "SCHED_OFF") /\ (proc'[d] = "up" => status_on'[d])
  BY <1>0 DEF AsksOnce, Gets
<1>2. ASSUME ~need_lock[d]
      PROVE  /\ ~In(toSched'[d], "REQ_LOCK")
             /\ In(requests', d) => Returned(d)' \/ Owns(d)
             /\ In(requests', d) => In(requests, d)
  BY <1>0, <1>2 DEF AsksOnce, Attends
<1>3. Once(toSched'[d], "REQ_LOCK") /\ ~Before(toSched'[d], "REQ_LOCK", "LOCK_RELEASED")
  BY <1>0 DEF AsksOnce, Attends
<1>4. ASSUME In(requests', d), In(toSched'[d], "REQ_LOCK")
      PROVE  Returned(d)' /\ Returned(d) /\ In(requests, d)
  BY <1>0, <1>4 DEF AsksOnce, Attends
<1>5. ASSUME x = "LOCK_OK" PROVE need_lock[d] /\ ~In(toSched'[d], "REQ_LOCK")
  <2>1. In(requests', d) /\ ~Holder(d)
    BY <1>0, <1>5 DEF Gets
  <2>2. In(requests, d) => ~Returned(d)
    BY <1>0, <2>1 DEF LockOf, GivenBack
  <2>3. ~Owns(d)
    <3>1. Owns(d) => Scheduled(d)
      BY DEF Handled, AsksOnce, Scheduled
    <3>2. QED
      BY <1>0, <2>1, <3>1 DEF LockOf, UpToDate
  <2>4. QED
    BY <1>0, <1>2, <1>4, <2>1, <2>2, <2>3
<1>6. Granted(d)' => need_lock[d] /\ ~In(toSched'[d], "REQ_LOCK")
  BY <1>0, <1>5 DEF AsksOnce, Gets, Attends
<1>7. QED
  BY <1>0, <1>1, <1>2, <1>3, <1>4, <1>6 DEF AsksOnce

(* A command that the scheduler reads is not ahead any more *)
LEMMA HandleOff ==
    ASSUME NInv, IInv', OneOff, NEW c \in Conns \cup {Lsock}, NEW m \in Messages \cup {"none"},
           HandleStep(c, m)
    PROVE  /\ OneOff'
           /\ OffAhead' => OffAhead /\ m # "SCHED_OFF"
           /\ m = "SCHED_OFF" => OffAhead
<1>0. /\ IInv /\ commands' = commands /\ Conns = Clients \cup Ctls /\ Clients \cap Ctls = {}
      /\ \A d \in Conns : toSched[d] \in Seq(Messages) /\ Reads(c, m, d)
  BY CtlsAssumption, SchedFacts DEF NInv, HandleStep
<1>1. ASSUME NEW d \in Conns
      PROVE  /\ In(toSched'[d], "SCHED_OFF") => In(toSched[d], "SCHED_OFF")
             /\ Once(toSched[d], "SCHED_OFF") => Once(toSched'[d], "SCHED_OFF")
             /\ m # "none" /\ c = d => In(toSched[d], m)
  BY <1>0, <1>1, HandleChannels
<1>2. ASSUME m = "SCHED_OFF"
      PROVE  c \in Ctls /\ In(toSched[c], "SCHED_OFF") /\ ~In(toSched'[c], "SCHED_OFF")
  <2>1. c \in Conns /\ c \in clients /\ toSched[c] # <<>> /\ m = Head(toSched[c])
    <3>1. c \in clients
      BY <1>2 DEF HandleStep
    <3>2. c \in Conns
      BY <1>0, <3>1, SchedFacts
    <3>3. QED
      BY <1>0, <1>2, <3>1, <3>2 DEF Reads
  <2>2. In(toSched[c], "SCHED_OFF")
    BY <1>1, <1>2, <2>1
  <2>3. c \notin Clients
    <3>1. ASSUME c \in Clients PROVE FALSE
      <4>1. toSched[c] \in Seq(ClientMessages)
        BY <3>1 DEF NInv, Channels
      <4>2. Head(toSched[c]) \in ClientMessages
        BY <2>1, <4>1, ReadChannel
      <4>3. QED
        BY <1>2, <2>1, <4>2 DEF ClientMessages
    <3>2. QED
      BY <3>1
  <2>4. c \in Ctls /\ Once(toSched[c], "SCHED_OFF")
    BY <1>0, <2>1, <2>3 DEF OneOff
  <2>5. ~In(toSched'[c], "SCHED_OFF")
    <3>1. toSched'[c] = <<>> \/ toSched'[c] = Tail(toSched[c])
      BY <1>0, <1>2, <2>1 DEF Reads
    <3>2. ~In(<<>>, "SCHED_OFF")
      BY NewChannel
    <3>3. ~In(Tail(toSched[c]), "SCHED_OFF")
      BY <1>0, <1>2, <2>1, <2>4, ReadChannel
    <3>4. QED
      BY <3>1, <3>2, <3>3
  <2>6. QED
    BY <2>2, <2>4, <2>5
<1>3. OneOff'
  BY <1>0, <1>1 DEF OneOff
<1>4. OffAhead' => OffAhead
  BY <1>0, <1>1 DEF OffAhead
<1>5. ASSUME m = "SCHED_OFF" PROVE ~OffAhead'
  <2>1. ~In(commands, "SCHED_OFF")
    BY <1>2, <1>5 DEF OneOff
  <2>2. ASSUME NEW d \in Ctls PROVE ~In(toSched'[d], "SCHED_OFF")
    BY <1>0, <1>1, <1>2, <1>5 DEF OneOff
  <2>3. QED
    BY <1>0, <2>1, <2>2 DEF OffAhead
<1>6. m = "SCHED_OFF" => OffAhead
  BY <1>2 DEF OffAhead
<1>7. QED
  BY <1>3, <1>4, <1>5, <1>6

(* Client d after the scheduler handled an event *)
LEMMA HandleHandled ==
    ASSUME OInv, SInv', NEW c \in Conns \cup {Lsock}, NEW m \in Messages \cup {"none"},
           HandleStep(c, m), TellStep(c, m), exited' = "no" => exited = "no",
           NEW d \in Clients, Alive(d)'
    PROVE  /\ \E x : Handled(c, m, d, x) /\ (m # "SCHED_OFF" /\ scheduler_on => x # "SCHED_OFF")
           /\ Alive(d)
<1>0. /\ SInv /\ NInv /\ NInv' /\ IInv /\ IInv' /\ OneOff
      /\ d \in Conns /\ Reads(c, m, d) /\ toClient[d] \in Seq(Messages)
      /\ scheduler_on' = IF m \in {"SCHED_ON", "SCHED_OFF"} THEN m = "SCHED_ON" ELSE scheduler_on
      /\ scheduler_on \in BOOLEAN
  BY ClientsAssumption, SchedFacts DEF OInv, SInv, NInv, HandleStep
<1>1. /\ proc'[d] = proc[d] /\ status_on'[d] = status_on[d] /\ own_lock'[d] = own_lock[d]
      /\ need_lock'[d] = need_lock[d] /\ handler'[d] = handler[d]
  BY DEF HandleStep, clientVars
<1>2. /\ Alive(d) /\ exited = "no" /\ d \in clients' /\ exited' = "no" /\ proc[d] # "down"
  BY <1>0, <1>1 DEF Alive, Served, Reads
<1>3. LockOf(d) /\ Announced(d) /\ StillAsked(d) /\ Idle(d)
  BY <1>0, <1>2 DEF OInv, SInv, NInv
<1>4. Hears(d)
  BY <1>0, <1>2, <1>3, HandleHears DEF Announced
<1>5. PICK x : Gets(d, x)
  BY <1>0, <1>4, HearsGets
<1>6. Attends(c, m, d)
  BY <1>0, <1>2, <1>3, HandleQueue DEF LockOf, Single
<1>7. Owns(d) => proc[d] = "up" /\ ~need_lock[d]
  BY <1>3 DEF Owns, Idle, StillAsked
<1>8. Holder(d) => d \in registered
  BY <1>0, SchedFacts DEF Holder
<1>9. m = "SCHED_OFF" => AsksOnce(d) /\ scheduler_on
  BY <1>0, <1>2, HandleOff DEF OInv
<1>10. m = "SCHED_OFF" /\ d \in registered => x = "SCHED_OFF"
  BY <1>0, <1>5, <1>9 DEF Gets
<1>11. x = "SCHED_OFF" =>
          \/ m = "SCHED_OFF" /\ d \in registered
          \/ d \notin registered /\ toClient[d] = <<>> /\ ~scheduler_on
  BY <1>0, <1>5 DEF Gets
<1>12. toClient[d] = <<>> => ~Granted(d) /\ ~In(toClient[d], "SCHED_OFF")
  BY NewChannel DEF Granted
<1>13. Handled(c, m, d, x)
  BY <1>1, <1>3, <1>5, <1>6, <1>7, <1>8, <1>9, <1>10, <1>11, <1>12 DEF Handled, Announced
<1>14. QED
  BY <1>2, <1>11, <1>13

LEMMA HandleOInv ==
    ASSUME OInv, SInv', NEW c \in Conns \cup {Lsock}, NEW m \in Messages \cup {"none"},
           HandleStep(c, m), TellStep(c, m), exited' = "no" => exited = "no"
    PROVE  OInv'
<1>0. NInv /\ IInv' /\ OneOff
  BY DEF OInv, SInv, NInv
<1>1. ASSUME NEW d \in Clients, Alive(d)' PROVE LockOf(d)'
  <2>1. PICK x : Handled(c, m, d, x)
    BY <1>1, HandleHandled
  <2>2. Single(d)' /\ Outdated(d)' /\ UpToDate(d)' /\ GivenBack(d)'
    BY <2>1, HandledSingle, HandledOutdated, HandledUpToDate
  <2>3. QED
    BY <2>2 DEF LockOf
<1>2. OneOff' /\ (OffAhead' => OffAhead /\ m # "SCHED_OFF")
  BY <1>0, HandleOff
<1>3. ASSUME exited' = "no", OffAhead'
      PROVE  scheduler_on' /\ \A d \in Clients : Alive(d)' => AsksOnce(d)'
  <2>1. m # "SCHED_OFF" /\ scheduler_on
    BY <1>2, <1>3 DEF OInv
  <2>2. scheduler_on'
    BY <2>1 DEF HandleStep
  <2>3. ASSUME NEW d \in Clients, Alive(d)' PROVE AsksOnce(d)'
    <3>1. PICK x : Handled(c, m, d, x) /\ x # "SCHED_OFF"
      BY <2>1, <2>3, HandleHandled
    <3>2. AsksOnce(d)
      BY <1>2, <1>3, <2>3, HandleHandled DEF OInv
    <3>3. QED
      BY <3>1, <3>2, HandledAsksOnce
  <2>4. QED
    BY <2>2, <2>3
<1>4. QED
  BY <1>1, <1>2, <1>3 DEF OInv

(* A new connection has been given nothing and gives nothing back *)
LEMMA AcceptOInv ==
    ASSUME OInv, SInv', NEW c \in Conns, AcceptStep(c)
    PROVE  OInv'
<1>0. /\ SInv /\ NInv /\ IInv /\ Conns = Clients \cup Ctls /\ Clients \cap Ctls = {}
      /\ toSched \in [Conns -> Seq(Messages)]
  BY CtlsAssumption, SchedFacts DEF OInv, SInv, NInv
<1>1. /\ UNCHANGED <<toClient, requests, lock_held, registered, scheduler_on, exited, commands>>
      /\ UNCHANGED <<proc, status_on, own_lock, need_lock, handler>>
  BY DEF AcceptStep, clientVars
<1>2. \A d \in Conns : toSched'[d] = toSched[d] \/ (d = c /\ toSched'[d] = <<>>)
  BY <1>0 DEF AcceptStep
<1>3. \A x : ~In(<<>>, x) /\ Once(<<>>, x)
  BY NewChannel
<1>4. \A d \in Conns :
          /\ In(toSched'[d], "SCHED_OFF") => In(toSched[d], "SCHED_OFF")
          /\ Once(toSched[d], "SCHED_OFF") => Once(toSched'[d], "SCHED_OFF")
  BY <1>2, <1>3
<1>5. OneOff' /\ (OffAhead' => OffAhead)
  BY <1>0, <1>1, <1>4 DEF OInv, OneOff, OffAhead
<1>6. ASSUME NEW d \in Clients, Alive(d)'
      PROVE  LockOf(d)' /\ ((Alive(d) => AsksOnce(d)) => AsksOnce(d)')
  <2>1. CASE d # c
    <3>1. toSched'[d] = toSched[d] /\ d \in clients
      BY <1>0, <1>2, <1>6, <2>1 DEF AcceptStep, Alive, Served
    <3>2. Alive(d) /\ LockOf(d)
      BY <1>1, <1>6, <3>1 DEF OInv, Alive, Served
    <3>3. LockOf(d)'
      BY <1>1, <3>1, <3>2 DEF LockOf, Single, Unscheduled, Outdated, UpToDate, GivenBack,
                              Owns, Holder, Returned, Scheduled
    <3>4. AsksOnce(d) => AsksOnce(d)'
      BY <1>1, <3>1 DEF AsksOnce, Owns, Returned, Granted
    <3>5. QED
      BY <3>2, <3>3, <3>4
  <2>2. CASE d = c
    <3>1. /\ toSched[d] = <<"REGISTER">> /\ toClient[d] = <<>> /\ proc[d] # "up"
          /\ d \notin clients /\ ~own_lock[d] /\ handler[d] = "recv"
      BY <1>0, <2>2 DEF AcceptStep, NInv, Channels, Idle
    <3>2. ~In(requests, d)
      BY <1>0, <3>1, SchedFacts
    <3>3. toSched'[d] = <<"REGISTER">> \/ toSched'[d] = <<>>
      BY <1>0, <1>2, <3>1
    <3>4. /\ \A x : In(<<"REGISTER">>, x) <=> "REGISTER" = x
          /\ \A x : Once(<<"REGISTER">>, x)
      BY NewChannel
    <3>5. /\ ~Before(<<"REGISTER">>, "REQ_LOCK", "LOCK_RELEASED")
          /\ ~Before(<<>>, "REQ_LOCK", "LOCK_RELEASED") /\ ~Before(<<>>, "LOCK_OK", "SCHED_OFF")
          /\ ~Latest(<<>>, "LOCK_OK", "SCHED_OFF")
      BY NewOrder
    <3>6. /\ ~In(toSched'[d], "REQ_LOCK") /\ ~In(toSched'[d], "LOCK_RELEASED")
          /\ Once(toSched'[d], "REQ_LOCK") /\ Once(toSched'[d], "LOCK_RELEASED")
          /\ ~Before(toSched'[d], "REQ_LOCK", "LOCK_RELEASED")
      BY <1>3, <3>3, <3>4, <3>5
    <3>7. /\ ~In(toClient'[d], "SCHED_OFF") /\ ~In(toClient'[d], "LOCK_OK")
          /\ Once(toClient'[d], "SCHED_OFF") /\ Once(toClient'[d], "LOCK_OK")
          /\ ~Stale(toClient'[d]) /\ ~Valid(toClient'[d])
      BY <1>1, <1>3, <3>1, <3>5 DEF Stale, Valid
    <3>8. ~Owns(d)' /\ ~Returned(d)' /\ ~Granted(d)' /\ ~In(requests', d) /\ proc'[d] # "up"
      BY <1>1, <3>1, <3>2, <3>6, <3>7 DEF Owns, Returned, Granted
    <3>9. LockOf(d)'
      BY <3>6, <3>7, <3>8 DEF LockOf, Single, Outdated, UpToDate, GivenBack
    <3>10. AsksOnce(d)'
      BY <3>6, <3>7, <3>8 DEF AsksOnce
    <3>11. QED
      BY <3>9, <3>10
  <2>3. QED
    BY <2>1, <2>2
<1>7. QED
  BY <1>1, <1>5, <1>6 DEF OInv

LEMMA NoStepOInv ==
    ASSUME OInv, SInv', NoStep
    PROVE  OInv'
<1>1. /\ UNCHANGED <<toSched, toClient, clients, requests, lock_held, registered, scheduler_on,
                     commands>>
      /\ UNCHANGED <<proc, status_on, own_lock, need_lock, handler>>
      /\ exited' = "no" => exited = "no"
  BY DEF NoStep, clientVars
<1>2. OneOff' /\ (OffAhead' <=> OffAhead)
  BY <1>1 DEF OInv, OneOff, OffAhead
<1>3. ASSUME NEW d \in Clients, Alive(d)' PROVE Alive(d)
  BY <1>1, <1>3 DEF Alive, Served
<1>4. ASSUME NEW d \in Clients, LockOf(d) PROVE LockOf(d)'
  BY <1>1, <1>4 DEF LockOf, Single, Unscheduled, Outdated, UpToDate, GivenBack, Owns, Holder,
                    Returned, Scheduled
<1>5. ASSUME NEW d \in Clients, AsksOnce(d) PROVE AsksOnce(d)'
  BY <1>1, <1>5 DEF AsksOnce, Owns, Returned, Granted
<1>6. QED
  BY <1>1, <1>2, <1>3, <1>4, <1>5 DEF OInv

LEMMA SchedOInv ==
    ASSUME OInv, SchedNext, UNCHANGED <<clientVars, commands>>
    PROVE  OInv'
<1>1. SInv' /\ IInv
  BY SchedSInv DEF OInv, SInv, NInv
<1>2. exited = "no"
  BY <1>1, SchedSteps
<1>3. \/ \E c \in Conns \cup {Lsock}, m \in Messages \cup {"none"} :
            HandleStep(c, m) /\ TellStep(c, m)
      \/ \E c \in Conns : AcceptStep(c)
      \/ NoStep
  BY <1>1, SchedTells
<1>4. QED
  BY <1>1, <1>2, <1>3, HandleOInv, AcceptOInv, NoStepOInv

(* What reading m means for the grants on their way to c *)
Took(c, m) ==
    /\ toSched'[c] = toSched[c]
    /\ \A x : x # m => (In(toClient'[c], x) <=> In(toClient[c], x))
    /\ In(toClient[c], m) /\ (m \in {"LOCK_OK", "SCHED_OFF"} => ~In(toClient'[c], m))
    /\ Once(toClient'[c], "LOCK_OK") /\ Once(toClient'[c], "SCHED_OFF")
    /\ Stale(toClient[c]) <=> Stale(toClient'[c]) \/ (m = "LOCK_OK" /\ In(toClient'[c], "SCHED_OFF"))
    /\ Valid(toClient[c]) <=> Valid(toClient'[c]) \/ (m = "LOCK_OK" /\ ~In(toClient'[c], "SCHED_OFF"))
    /\ Stale(toClient'[c]) => In(toClient'[c], "SCHED_OFF") /\ Granted(c)'
    /\ Valid(toClient'[c]) => Granted(c)'

LEMMA ReadTakes ==
    ASSUME IInv, NEW c \in Clients, Single(c), Wires(c), NEW m, Read(c, m),
           UNCHANGED <<toSched, peer, backlog, clients, exited>>
    PROVE  Took(c, m)
<1>0. c \in Conns /\ toClient[c] \in Seq(Messages)
      /\ Once(toClient[c], "LOCK_OK") /\ Once(toClient[c], "SCHED_OFF")
  BY ClientsAssumption, SchedFacts DEF Single
<1>1. UNCHANGED schedVars
  BY DEF Wires
<1>2. toClient[c] # <<>> /\ m = Head(toClient[c]) /\ toClient'[c] = Tail(toClient[c])
      /\ toSched'[c] = toSched[c]
  BY <1>0, <1>1, ReadWires
<1>3. /\ \A x : In(toClient[c], x) <=> In(toClient'[c], x) \/ x = m
      /\ \A x : Once(toClient[c], x) => Once(toClient'[c], x) /\ ~(m = x /\ In(toClient'[c], x))
  <2>1. /\ \A x : In(toClient[c], x) <=> In(Tail(toClient[c]), x) \/ x = Head(toClient[c])
        /\ \A x : Once(toClient[c], x) =>
                    Once(Tail(toClient[c]), x) /\ ~(Head(toClient[c]) = x /\ In(Tail(toClient[c]), x))
    BY <1>0, <1>2, ReadChannel
  <2>2. QED
    BY <1>2, <2>1
<1>4. /\ Stale(toClient[c]) <=>
            Stale(toClient'[c]) \/ (m = "LOCK_OK" /\ In(toClient'[c], "SCHED_OFF"))
      /\ Valid(toClient[c]) <=>
            Valid(toClient'[c]) \/ (m = "LOCK_OK" /\ ~In(toClient'[c], "SCHED_OFF"))
  BY <1>0, <1>2, ReadOrder DEF Stale, Valid
<1>5. /\ Stale(toClient'[c]) => In(toClient'[c], "SCHED_OFF") /\ Granted(c)'
      /\ Valid(toClient'[c]) => Granted(c)'
  BY LatestOrBefore DEF Stale, Valid, Granted
<1>6. QED
  BY <1>0, <1>2, <1>3, <1>4, <1>5 DEF Took

(* What the steps of process c need to know *)
Sits(c) ==
    /\ LockOf(c) /\ OffMode(c) /\ StillAsked(c) /\ Idle(c) /\ Mutexed(c)
    /\ Alive(c)
    /\ own_lock[c] \in BOOLEAN /\ need_lock[c] \in BOOLEAN /\ status_on[c] \in BOOLEAN
    /\ handler[c] \in {"recv", "drop"}
    /\ UNCHANGED <<requests, lock_held>>

LEMMA QuietOInv ==
    ASSUME NEW c, Sits(c), Quiet(c)
    PROVE  LockOf(c)' /\ (AsksOnce(c) => AsksOnce(c)')
<1>1. /\ toSched'[c] = toSched[c] /\ toClient'[c] = toClient[c]
      /\ proc'[c] = proc[c] /\ status_on'[c] = status_on[c] /\ own_lock'[c] = own_lock[c]
      /\ need_lock'[c] = need_lock[c] /\ handler'[c] = handler[c]
      /\ UNCHANGED <<requests, lock_held>> /\ LockOf(c)
  BY DEF Quiet, SameWire, Sits
<1>2. LockOf(c)'
  BY <1>1 DEF LockOf, Single, Unscheduled, Outdated, UpToDate, GivenBack, Owns, Holder,
              Returned, Scheduled
<1>3. AsksOnce(c) => AsksOnce(c)'
  BY <1>1 DEF AsksOnce, Owns, Returned, Granted
<1>4. QED
  BY <1>2, <1>3

LEMMA AskOInv ==
    ASSUME NEW c, toSched[c] \in Seq(Messages), Sits(c), Ask(c)
    PROVE  LockOf(c)' /\ (AsksOnce(c) => AsksOnce(c)')
<1>0. /\ toClient'[c] = toClient[c] /\ proc[c] = "up" /\ proc'[c] = "up"
      /\ status_on'[c] = status_on[c] /\ ~need_lock[c] /\ need_lock'[c]
      /\ toSched'[c] = Append(toSched[c], "REQ_LOCK")
      /\ UNCHANGED <<requests, lock_held>> /\ LockOf(c)
  BY DEF Ask, Sits
<1>1. ~Owns(c) /\ ~Owns(c)'
  BY DEF Ask, Owns
<1>2. /\ \A x : In(toSched'[c], x) <=> In(toSched[c], x) \/ x = "REQ_LOCK"
      /\ \A x : Once(toSched[c], x) /\ ("REQ_LOCK" # x \/ ~In(toSched[c], x)) => Once(toSched'[c], x)
      /\ Before(toSched'[c], "REQ_LOCK", "LOCK_RELEASED") =>
            Before(toSched[c], "REQ_LOCK", "LOCK_RELEASED")
  <2> DEFINE q == toSched[c]
  <2>1. q \in Seq(Messages) /\ "REQ_LOCK" \in Messages /\ toSched'[c] = Append(q, "REQ_LOCK")
    BY <1>0 DEF Messages
  <2> HIDE DEF q
  <2>2. /\ \A x : In(Append(q, "REQ_LOCK"), x) <=> In(q, x) \/ x = "REQ_LOCK"
        /\ \A x : Once(q, x) /\ ("REQ_LOCK" # x \/ ~In(q, x)) => Once(Append(q, "REQ_LOCK"), x)
    BY <2>1, WriteChannel
  <2>3. Before(Append(q, "REQ_LOCK"), "REQ_LOCK", "LOCK_RELEASED") =>
          Before(q, "REQ_LOCK", "LOCK_RELEASED")
    BY <2>1, WriteOrder
  <2>4. QED
    BY <2>1, <2>2, <2>3 DEF q
<1>3. (Returned(c)' <=> Returned(c)) /\ (Holder(c)' <=> Holder(c)) /\ (Granted(c)' <=> Granted(c))
  BY <1>0, <1>2 DEF Returned, Holder, Granted
<1>4. ~Stale(toClient[c])
  BY <1>0 DEF LockOf, Outdated
<1>5. Single(c)'
  BY <1>0, <1>2 DEF LockOf, Single, Unscheduled
<1>6. Outdated(c)' /\ UpToDate(c)'
  BY <1>0, <1>1, <1>3, <1>4 DEF LockOf, Outdated, UpToDate
<1>7. GivenBack(c)'
  BY <1>0, <1>2, <1>3 DEF LockOf, GivenBack
<1>8. AsksOnce(c) => AsksOnce(c)'
  BY <1>0, <1>1, <1>2, <1>3 DEF AsksOnce
<1>9. QED
  BY <1>5, <1>6, <1>7, <1>8 DEF LockOf

LEMMA ReleaseOInv ==
    ASSUME NEW c, toSched[c] \in Seq(Messages), Sits(c), Release(c)
    PROVE  LockOf(c)' /\ (AsksOnce(c) => AsksOnce(c)')
<1>0. /\ toClient'[c] = toClient[c] /\ proc[c] = "up" /\ proc'[c] = "up"
      /\ status_on'[c] = status_on[c] /\ need_lock'[c] = need_lock[c]
      /\ toSched'[c] = Append(toSched[c], "LOCK_RELEASED")
      /\ UNCHANGED <<requests, lock_held>> /\ LockOf(c)
  BY DEF Release, Sits
<1>1. Owns(c) /\ ~Owns(c)' /\ status_on[c] /\ ~need_lock[c]
  <2>1. Owns(c) /\ ~Owns(c)'
    BY DEF Release, Sits, Mutexed, Owns
  <2>2. status_on[c]
    BY <1>0 DEF Release, Sits, OffMode, Unscheduled
  <2>3. ~need_lock[c]
    BY <2>1 DEF Owns, Sits, StillAsked
  <2>4. QED
    BY <2>1, <2>2, <2>3
<1>2. /\ \A x : In(toSched'[c], x) <=> In(toSched[c], x) \/ x = "LOCK_RELEASED"
      /\ \A x : Once(toSched[c], x) /\ ("LOCK_RELEASED" # x \/ ~In(toSched[c], x)) =>
                  Once(toSched'[c], x)
      /\ Before(toSched'[c], "REQ_LOCK", "LOCK_RELEASED") => In(toSched[c], "REQ_LOCK")
  <2> DEFINE q == toSched[c]
             x == "LOCK_RELEASED"
  <2>1. q \in Seq(Messages) /\ x \in Messages /\ toSched'[c] = Append(q, x)
    BY <1>0 DEF Messages
  <2>2. Before(q, "REQ_LOCK", x) => In(q, "REQ_LOCK")
    BY LatestOrBefore
  <2> HIDE DEF q
  <2>3. /\ \A y : In(Append(q, x), y) <=> In(q, y) \/ y = x
        /\ \A y : Once(q, y) /\ (x # y \/ ~In(q, y)) => Once(Append(q, x), y)
    BY <2>1, WriteChannel
  <2>4. Before(Append(q, x), "REQ_LOCK", x) => Before(q, "REQ_LOCK", x) \/ In(q, "REQ_LOCK")
    BY <2>1, WriteOrder
  <2>5. QED
    BY <2>1, <2>2, <2>3, <2>4 DEF q
<1>3. Returned(c)' /\ (Holder(c)' <=> Holder(c)) /\ (Granted(c)' <=> Granted(c))
  BY <1>0, <1>2 DEF Returned, Holder, Granted
<1>4. ~Stale(toClient[c])
  BY <1>0, <1>1 DEF LockOf, Outdated
<1>5. /\ ~Returned(c) /\ ~Valid(toClient[c])
      /\ Holder(c) \/ (~In(requests, c) /\ ~In(toSched[c], "REQ_LOCK"))
  <2>1. CASE In(toClient[c], "SCHED_OFF")
    BY <1>0, <1>1, <2>1 DEF LockOf, Outdated
  <2>2. CASE ~In(toClient[c], "SCHED_OFF")
    BY <1>0, <1>1, <2>2 DEF LockOf, UpToDate, Scheduled
  <2>3. QED
    BY <2>1, <2>2
<1>6. Single(c)'
  BY <1>0, <1>2, <1>5 DEF LockOf, Single, Unscheduled, Returned
<1>7. Outdated(c)' /\ UpToDate(c)'
  BY <1>0, <1>1, <1>4, <1>5 DEF Outdated, UpToDate
<1>8. GivenBack(c)'
  BY <1>0, <1>2, <1>3, <1>5 DEF GivenBack
<1>9. AsksOnce(c) => AsksOnce(c)'
  BY <1>0, <1>1, <1>2, <1>3 DEF AsksOnce
<1>10. QED
  BY <1>6, <1>7, <1>8, <1>9 DEF LockOf

LEMMA InitialOInv ==
    ASSUME OInv, NEW c \in Clients, Wires(c), Sits(c), InitialStatus(c)
    PROVE  LockOf(c)' /\ (AsksOnce(c) => AsksOnce(c)')
<1>0. /\ NInv /\ IInv /\ ClientTypeOK /\ LockOf(c) /\ UNCHANGED <<requests, lock_held>>
  BY DEF OInv, SInv, NInv, Sits
<1>1. PICK m \in {"SCHED_ON", "SCHED_OFF"} :
        /\ Read(c, m)
        /\ status_on' = [status_on EXCEPT ![c] = (m = "SCHED_ON")]
        /\ own_lock' = [own_lock EXCEPT ![c] = (m = "SCHED_OFF")]
  BY DEF InitialStatus
<1>2. /\ UNCHANGED <<toSched, peer, backlog, clients, exited, handler>>
      /\ proc[c] = "boot" /\ proc'[c] = "up" /\ ~need_lock'[c]
      /\ status_on'[c] = (m = "SCHED_ON") /\ own_lock'[c] = (m = "SCHED_OFF")
  BY <1>0, <1>1 DEF InitialStatus, ClientTypeOK
<1>3. Took(c, m)
  BY <1>0, <1>1, <1>2, ReadTakes DEF LockOf
<1>4. ~In(toSched[c], "REQ_LOCK") /\ ~In(requests, c) /\ ~Granted(c) /\ handler[c] = "recv"
  BY <1>0, <1>2 DEF NInv, Idle, Context, Pending, Granted
<1>5. /\ ~In(toSched'[c], "REQ_LOCK") /\ ~In(requests', c) /\ ~Granted(c)'
      /\ ~Stale(toClient'[c]) /\ ~Valid(toClient'[c])
      /\ (Returned(c)' <=> Returned(c)) /\ (Holder(c)' <=> Holder(c))
  BY <1>0, <1>3, <1>4 DEF Took, Granted, Returned, Holder
<1>6. Owns(c)' => m = "SCHED_OFF" /\ ~In(toClient'[c], "SCHED_OFF") /\ ~status_on'[c]
  BY <1>2, <1>3, <1>4 DEF Took, Owns
<1>7. ~status_on'[c] => ~In(toClient'[c], "SCHED_OFF")
  BY <1>1, <1>2, <1>3 DEF Took
<1>8. Single(c)'
  BY <1>0, <1>2, <1>3, <1>7 DEF Took, LockOf, Single, Unscheduled
<1>9. Outdated(c)' /\ UpToDate(c)'
  BY <1>5, <1>6 DEF Outdated, UpToDate, Scheduled
<1>10. GivenBack(c)'
  BY <1>0, <1>2, <1>5 DEF LockOf, GivenBack
<1>11. ASSUME AsksOnce(c) PROVE AsksOnce(c)'
  <2>1. m # "SCHED_OFF" /\ ~In(toClient'[c], "SCHED_OFF")
    BY <1>1, <1>3, <1>11 DEF AsksOnce, Took
  <2>2. status_on'[c]
    BY <1>1, <1>2, <2>1
  <2>3. /\ Once(toSched'[c], "REQ_LOCK")
        /\ ~Before(toSched'[c], "REQ_LOCK", "LOCK_RELEASED")
    BY <1>2, <1>11 DEF AsksOnce
  <2>4. QED
    BY <1>5, <2>1, <2>2, <2>3 DEF AsksOnce
<1>12. QED
  BY <1>8, <1>9, <1>10, <1>11 DEF LockOf

(* The four messages a running client takes *)
LEMMA TakeOInv ==
    ASSUME OInv, SInv', NEW c \in Clients, Wires(c), Sits(c), NEW m, Receive(c, m),
           m \in {"LOCK_OK", "DROP_LOCK", "SCHED_OFF"} => ~Unscheduled(c)
    PROVE  /\ OnLockOk(c) /\ m = "LOCK_OK" => LockOf(c)' /\ (AsksOnce(c) => AsksOnce(c)')
           /\ OnDropLock(c) /\ m = "DROP_LOCK" => LockOf(c)' /\ (AsksOnce(c) => AsksOnce(c)')
           /\ OnSchedOn(c) /\ m = "SCHED_ON" => LockOf(c)' /\ (AsksOnce(c) => AsksOnce(c)')
           /\ OnSchedOff(c) /\ m = "SCHED_OFF" => LockOf(c)' /\ (AsksOnce(c) => AsksOnce(c)')
<1>0. /\ IInv /\ ClientTypeOK /\ LockOf(c) /\ UNCHANGED <<requests, lock_held>>
      /\ UNCHANGED <<toSched, peer, backlog, clients, exited>> /\ Read(c, m)
      /\ proc[c] = "up" /\ proc'[c] = "up" /\ handler[c] = "recv"
  BY DEF OInv, SInv, NInv, Sits, Receive, MutexFreeIn
<1>1. Took(c, m)
  BY <1>0, ReadTakes DEF LockOf
<1>2. /\ Returned(c)' <=> Returned(c)
      /\ Holder(c)' <=> Holder(c)
      /\ GivenBack(c)'
      /\ Once(toSched'[c], "LOCK_RELEASED")
  BY <1>0 DEF Returned, Holder, LockOf, GivenBack, Single
<1>3. ASSUME OnLockOk(c), m = "LOCK_OK" PROVE LockOf(c)' /\ (AsksOnce(c) => AsksOnce(c)')
  <2>1. Owns(c)' /\ ~need_lock'[c] /\ status_on[c] /\ status_on'[c] = status_on[c]
    <3>1. own_lock'[c] /\ ~need_lock'[c] /\ status_on'[c] = status_on[c]
      BY <1>0, <1>3 DEF OnLockOk, ClientTypeOK
    <3>2. QED
      BY <1>0, <1>3, <3>1 DEF Owns, Unscheduled
  <2>2. /\ ~Granted(c)' /\ Granted(c) /\ ~Stale(toClient'[c]) /\ ~Valid(toClient'[c])
        /\ In(toClient'[c], "SCHED_OFF") <=> In(toClient[c], "SCHED_OFF")
    BY <1>1, <1>3 DEF Took, Granted
  <2>3. Single(c)'
    BY <1>1, <1>2, <2>1 DEF Took, Single, Unscheduled
  <2>4. In(toClient'[c], "SCHED_OFF") => Stale(toClient[c])
    BY <1>1, <1>3 DEF Took
  <2>5. ~In(toClient'[c], "SCHED_OFF") => Valid(toClient[c])
    BY <1>1, <1>3 DEF Took
  <2>6. Outdated(c)'
    BY <1>0, <1>2, <2>2, <2>4 DEF LockOf, Outdated
  <2>7. UpToDate(c)'
    BY <1>0, <1>2, <2>2, <2>5 DEF LockOf, UpToDate, Scheduled
  <2>8. AsksOnce(c) => AsksOnce(c)'
    BY <1>0, <1>2, <2>1, <2>2 DEF AsksOnce
  <2>9. QED
    BY <1>2, <2>3, <2>6, <2>7, <2>8 DEF LockOf
<1>4. ASSUME m # "LOCK_OK"
      PROVE  /\ Granted(c)' <=> Granted(c)
             /\ Stale(toClient'[c]) <=> Stale(toClient[c])
             /\ Valid(toClient'[c]) <=> Valid(toClient[c])
  BY <1>1, <1>4 DEF Took, Granted
<1>5. ASSUME m # "LOCK_OK", m # "SCHED_OFF", need_lock'[c] <=> need_lock[c], Owns(c)' <=> Owns(c),
             status_on'[c] <=> status_on[c]
      PROVE  LockOf(c)' /\ (AsksOnce(c) => AsksOnce(c)')
  <2>1. In(toClient'[c], "SCHED_OFF") <=> In(toClient[c], "SCHED_OFF")
    BY <1>1, <1>5 DEF Took
  <2>2. (Unscheduled(c)' <=> Unscheduled(c)) /\ (Scheduled(c)' <=> Scheduled(c))
    BY <1>0, <1>5, <2>1 DEF Unscheduled, Scheduled
  <2>3. Single(c)'
    BY <1>0, <1>1, <1>2, <2>1, <2>2 DEF Took, LockOf, Single
  <2>4. Outdated(c)'
    BY <1>0, <1>2, <1>4, <1>5, <2>1 DEF LockOf, Outdated
  <2>5. UpToDate(c)'
    BY <1>0, <1>2, <1>4, <1>5, <2>2 DEF LockOf, UpToDate
  <2>6. AsksOnce(c) => AsksOnce(c)'
    BY <1>0, <1>2, <1>4, <1>5, <2>1 DEF AsksOnce
  <2>7. QED
    BY <1>2, <2>3, <2>4, <2>5, <2>6 DEF LockOf
<1>6. ASSUME OnDropLock(c), m = "DROP_LOCK" PROVE LockOf(c)' /\ (AsksOnce(c) => AsksOnce(c)')
  <2>1. /\ own_lock'[c] = FALSE /\ need_lock'[c] = need_lock[c] /\ status_on'[c] = status_on[c]
        /\ handler'[c] = IF own_lock[c] THEN "drop" ELSE "recv"
    BY <1>0, <1>6 DEF OnDropLock, ClientTypeOK
  <2>2. Owns(c)' <=> Owns(c)
    BY <1>0, <2>1 DEF Owns
  <2>3. QED
    BY <1>5, <1>6, <2>1, <2>2
<1>7. ASSUME OnSchedOn(c), m = "SCHED_ON" PROVE LockOf(c)' /\ (AsksOnce(c) => AsksOnce(c)')
  <2>1. /\ status_on'[c] /\ handler'[c] = handler[c]
        /\ own_lock'[c] = (own_lock[c] /\ status_on[c])
        /\ need_lock'[c] = (need_lock[c] /\ status_on[c])
    BY <1>0, <1>7 DEF OnSchedOn, ClientTypeOK
  <2>2. CASE status_on[c]
    <3>1. (Owns(c)' <=> Owns(c)) /\ (need_lock'[c] <=> need_lock[c])
      BY <2>1, <2>2 DEF Owns
    <3>2. QED
      BY <1>5, <1>7, <2>1, <2>2, <3>1
  <2>3. CASE ~status_on[c]
    <3>1. ~Owns(c)' /\ Unscheduled(c) /\ ~Unscheduled(c)'
      BY <1>0, <2>1, <2>3 DEF Owns, Unscheduled
    <3>2. ~In(toClient'[c], "SCHED_OFF")
      BY <1>0, <1>1, <1>7, <3>1 DEF Took, LockOf, Single
    <3>3. ~Stale(toClient'[c])
      BY <1>1, <3>2 DEF Took
    <3>4. Single(c)'
      BY <1>1, <1>2, <3>1 DEF Took, Single
    <3>5. Outdated(c)' /\ UpToDate(c)'
      BY <1>0, <1>2, <1>4, <1>7, <3>1, <3>2, <3>3 DEF LockOf, Outdated, UpToDate
    <3>6. ~AsksOnce(c)
      BY <1>0, <2>3 DEF AsksOnce
    <3>7. QED
      BY <1>2, <3>4, <3>5, <3>6 DEF LockOf
  <2>4. QED
    BY <2>2, <2>3
<1>8. ASSUME OnSchedOff(c), m = "SCHED_OFF" PROVE LockOf(c)' /\ (AsksOnce(c) => AsksOnce(c)')
  <2>1. ~status_on'[c]
    BY <1>0, <1>8 DEF OnSchedOff, ClientTypeOK
  <2>2. ~In(toClient'[c], "SCHED_OFF") /\ ~Stale(toClient'[c]) /\ In(toClient[c], "SCHED_OFF")
    BY <1>1, <1>8 DEF Took
  <2>3. Single(c)'
    BY <1>1, <1>2, <2>2 DEF Took, Single
  <2>4. Outdated(c)' /\ UpToDate(c)'
    BY <1>0, <1>2, <1>4, <1>8, <2>1, <2>2 DEF LockOf, Outdated, UpToDate, Scheduled
  <2>5. ~AsksOnce(c)
    BY <2>2 DEF AsksOnce
  <2>6. QED
    BY <1>2, <2>3, <2>4, <2>5 DEF LockOf
<1>9. QED
  BY <1>3, <1>6, <1>7, <1>8

(* One step of process c *)
LEMMA OwnOInv ==
    ASSUME OInv, SInv', NEW c \in Clients, Wires(c), KindOf(c), Alive(c)'
    PROVE  Alive(c) /\ LockOf(c)' /\ (AsksOnce(c) => AsksOnce(c)')
<1>0. /\ NInv /\ IInv /\ c \in Conns /\ ClientTypeOK /\ Idle(c) /\ Mutexed(c)
      /\ toSched[c] \in Seq(Messages) /\ toClient[c] \in Seq(Messages)
      /\ UNCHANGED <<clients, exited, requests, lock_held, schedVars>>
  BY ClientsAssumption, SchedFacts DEF OInv, SInv, NInv, Wires, schedVars
<1>1. Served(c) /\ proc'[c] # "down"
  BY <1>0 DEF Alive, Served
<1>2. ~Start(c)
  <2>1. <<"REGISTER">> \in Seq(Messages)
    BY NewChannel DEF Messages
  <2>2. Start(c) => c \notin clients
    BY <1>0, <2>1, ConnectWires DEF Start
  <2>3. QED
    BY <1>1, <2>2 DEF Served
<1>3. ~Gone(c)
  BY <1>0, <1>1 DEF Gone, ClientTypeOK
<1>4. Alive(c)
  <2>1. proc[c] # "down"
    BY <1>0, <1>1, <1>2, <1>3 DEF KindOf, Quiet, Ask, Release, InitialStatus, OnLockOk,
                                  OnDropLock, OnSchedOn, OnSchedOff, Receive
  <2>2. QED
    BY <1>1, <2>1 DEF Alive
<1>5. Announced(c) /\ Sits(c)
  BY <1>0, <1>4 DEF OInv, SInv, Sits, ClientTypeOK
<1>6. ASSUME NEW m, Receive(c, m) PROVE Unscheduled(c) => m = "SCHED_ON"
  BY <1>5, <1>6 DEF Receive, Read, Announced
<1>7. CASE OnLockOk(c)
  <2>1. Receive(c, "LOCK_OK")
    BY <1>7 DEF OnLockOk
  <2>2. ~Unscheduled(c)
    BY <1>6, <2>1
  <2>3. QED
    BY <1>4, <1>5, <1>7, <2>1, <2>2, TakeOInv
<1>8. CASE OnDropLock(c)
  <2>1. Receive(c, "DROP_LOCK")
    BY <1>8 DEF OnDropLock
  <2>2. ~Unscheduled(c)
    BY <1>6, <2>1
  <2>3. QED
    BY <1>4, <1>5, <1>8, <2>1, <2>2, TakeOInv
<1>9. CASE OnSchedOn(c)
  <2>1. Receive(c, "SCHED_ON")
    BY <1>9 DEF OnSchedOn
  <2>2. QED
    BY <1>4, <1>5, <1>9, <2>1, TakeOInv
<1>10. CASE OnSchedOff(c)
  <2>1. Receive(c, "SCHED_OFF")
    BY <1>10 DEF OnSchedOff
  <2>2. ~Unscheduled(c)
    BY <1>6, <2>1
  <2>3. QED
    BY <1>4, <1>5, <1>10, <2>1, <2>2, TakeOInv
<1>11. CASE Quiet(c) \/ Ask(c) \/ Release(c) \/ InitialStatus(c)
  BY <1>0, <1>4, <1>5, <1>11, QuietOInv, AskOInv, ReleaseOInv, InitialOInv
<1>12. QED
  BY <1>2, <1>3, <1>7, <1>8, <1>9, <1>10, <1>11 DEF KindOf

LEMMA OthersOInv ==
    ASSUME OInv, NEW c \in Conns, Wires(c), Others(c), NEW d \in Clients, d # c, Alive(d)'
    PROVE  Alive(d) /\ LockOf(d)' /\ (AsksOnce(d) => AsksOnce(d)')
<1>1. /\ toSched'[d] = toSched[d] /\ toClient'[d] = toClient[d]
      /\ UNCHANGED <<clients, requests, lock_held, exited>>
  BY ClientsAssumption DEF Wires, schedVars
<1>2. /\ proc'[d] = proc[d] /\ status_on'[d] = status_on[d] /\ own_lock'[d] = own_lock[d]
      /\ need_lock'[d] = need_lock[d] /\ handler'[d] = handler[d]
  BY DEF Others
<1>3. Alive(d) /\ LockOf(d)
  BY <1>1, <1>2 DEF OInv, Alive, Served
<1>4. LockOf(d)'
  BY <1>1, <1>2, <1>3 DEF LockOf, Single, Unscheduled, Outdated, UpToDate, GivenBack, Owns,
                          Holder, Returned, Scheduled
<1>5. AsksOnce(d) => AsksOnce(d)'
  BY <1>1, <1>2 DEF AsksOnce, Owns, Returned, Granted
<1>6. QED
  BY <1>3, <1>4, <1>5

(* nvsharectl moves a command to its connection *)
LEMMA CtlOff ==
    ASSUME NInv, OneOff, NEW c \in Ctls, nvsharectl(c)
    PROVE  OneOff' /\ (OffAhead' => OffAhead)
<1>0. /\ commands \in Seq(CtlMessages) /\ commands # <<>> /\ commands' = Tail(commands)
      /\ c \in Conns /\ toSched'[c] = <<Head(commands)>>
      /\ \A d \in Ctls : d # c => toSched'[d] = toSched[d]
  BY CtlStep, CtlsAssumption DEF NInv, Wires
<1> DEFINE h == Head(commands)
<1>1. /\ In(commands, "SCHED_OFF") <=> In(commands', "SCHED_OFF") \/ h = "SCHED_OFF"
      /\ Once(commands', "SCHED_OFF") /\ ~(h = "SCHED_OFF" /\ In(commands', "SCHED_OFF"))
  <2>1. /\ \A x : In(commands, x) <=> In(Tail(commands), x) \/ x = Head(commands)
        /\ \A x : Once(commands, x) =>
                    Once(Tail(commands), x) /\ ~(Head(commands) = x /\ In(Tail(commands), x))
    BY <1>0, ReadChannel
  <2>2. QED
    BY <1>0, <2>1 DEF OneOff
<1> HIDE DEF h
<1>2. (In(<<h>>, "SCHED_OFF") <=> h = "SCHED_OFF") /\ Once(<<h>>, "SCHED_OFF")
  BY NewChannel
<1>3. (In(toSched'[c], "SCHED_OFF") <=> h = "SCHED_OFF") /\ Once(toSched'[c], "SCHED_OFF")
  BY <1>0, <1>2 DEF h
<1>4. \A d \in Ctls : Once(toSched'[d], "SCHED_OFF")
  BY <1>0, <1>3 DEF OneOff
<1>5. \A d, e \in Ctls : In(toSched'[d], "SCHED_OFF") /\ In(toSched'[e], "SCHED_OFF") => d = e
  BY <1>0, <1>1, <1>3 DEF OneOff
<1>6. In(commands', "SCHED_OFF") => \A d \in Ctls : ~In(toSched'[d], "SCHED_OFF")
  BY <1>0, <1>1, <1>3 DEF OneOff
<1>7. OneOff'
  BY <1>1, <1>4, <1>5, <1>6 DEF OneOff
<1>8. OffAhead' => OffAhead
  BY <1>0, <1>1, <1>3 DEF OffAhead
<1>9. QED
  BY <1>7, <1>8

LEMMA NextOInv ==
    ASSUME OInv, [Next]_vars
    PROVE  OInv'
<1>0. /\ SInv /\ NInv /\ SInv' /\ Clients \subseteq Conns
      /\ Conns = Clients \cup Ctls /\ Clients \cap Ctls = {}
  BY NextSInv, CtlsAssumption DEF OInv, SInv
<1>1. CASE SchedNext /\ UNCHANGED <<clientVars, commands>>
  BY <1>1, SchedOInv
<1>2. ASSUME OneOff', OffAhead' => OffAhead, UNCHANGED <<scheduler_on, exited>>,
             \A d \in Clients : Alive(d)' =>
                 Alive(d) /\ LockOf(d)' /\ (AsksOnce(d) => AsksOnce(d)')
      PROVE  OInv'
  BY <1>0, <1>2 DEF OInv
<1>3. ASSUME NEW c \in Clients, ClientAction(c) PROVE OInv'
  <2>1. Wires(c) /\ Others(c) /\ KindOf(c) /\ commands' = commands
    BY <1>0, <1>3, ClientKinds
  <2>2. \A d \in Ctls : toSched'[d] = toSched[d]
    BY <1>0, <2>1 DEF Wires
  <2>3. OneOff' /\ (OffAhead' => OffAhead)
    BY <2>1, <2>2 DEF OInv, OneOff, OffAhead
  <2>4. UNCHANGED <<scheduler_on, exited>>
    BY <2>1 DEF Wires, schedVars
  <2>5. ASSUME NEW d \in Clients, Alive(d)'
        PROVE  Alive(d) /\ LockOf(d)' /\ (AsksOnce(d) => AsksOnce(d)')
    BY <1>0, <2>1, <2>5, OwnOInv, OthersOInv
  <2>6. QED
    BY <1>2, <2>3, <2>4, <2>5
<1>4. ASSUME NEW c \in Ctls, nvsharectl(c) PROVE OInv'
  <2>1. c \in Conns /\ Wires(c) /\ clientVars' = clientVars
    BY <1>0, <1>4, CtlStep
  <2>2. Others(c)
    BY <2>1 DEF clientVars, Others
  <2>3. OneOff' /\ (OffAhead' => OffAhead)
    BY <1>0, <1>4, CtlOff DEF OInv
  <2>4. UNCHANGED <<scheduler_on, exited>>
    BY <2>1 DEF Wires, schedVars
  <2>5. ASSUME NEW d \in Clients, Alive(d)'
        PROVE  Alive(d) /\ LockOf(d)' /\ (AsksOnce(d) => AsksOnce(d)')
    BY <1>0, <1>4, <2>1, <2>2, <2>5, OthersOInv
  <2>6. QED
    BY <1>2, <2>3, <2>4, <2>5
<1>5. CASE UNCHANGED vars
  <2>1. NoStep
    BY <1>5 DEF vars, commVars, schedVars, NoStep
  <2>2. QED
    BY <1>0, <2>1, NoStepOInv
<1>6. QED
  BY <1>1, <1>3, <1>4, <1>5 DEF Next

(* OInv is an invariant of the system if nvsharectl turns the scheduler off  *)
(* at most once.                                                             *)
THEOREM ToggleInvariance ==
    ASSUME Once(CtlScript, "SCHED_OFF")
    PROVE  Spec => []OInv
<1>1. Init => OInv
  <2>1. SUFFICES ASSUME Init PROVE OInv
    OBVIOUS
  <2>2. SInv
    <3>1. NInv
      BY <2>1, InitNInv
    <3>2. \A c \in Clients : handler[c] = "recv" /\ releaser[c] = "starting" /\ c \notin clients
      BY <2>1 DEF Init, CommInit, ClientInit
    <3>3. QED
      BY <3>1, <3>2 DEF SInv, Mutexed, Alive, Served
  <2>3. clients = {} /\ commands = CtlScript /\ scheduler_on /\ toSched = [c \in Conns |-> <<>>]
    BY <2>1 DEF Init, CommInit, SchedInit
  <2>4. \A c \in Ctls : ~In(toSched[c], "SCHED_OFF") /\ Once(toSched[c], "SCHED_OFF")
    BY <2>3, CtlsAssumption, NewChannel
  <2>5. OneOff
    BY <2>3, <2>4 DEF OneOff
  <2>6. \A c \in Clients : ~Alive(c)
    BY <2>3 DEF Alive, Served
  <2>7. QED
    BY <2>2, <2>3, <2>5, <2>6 DEF OInv
<1>2. OInv /\ [Next]_vars => OInv'
  BY NextOInv
<1>3. QED
  BY <1>1, <1>2, PTL DEF Spec

(* When the scheduler is on and every client has read so, at most one client *)
(* owns the lock, although everybody owned it while the scheduler was off:   *)
(* LOCK_OKs of before the SCHED_OFF, and LOCK_RELEASEDs and REQ_LOCKs that   *)
(* were on their way when it was turned on again, do no harm.  For any       *)
(* number of SCHED_ONs and one SCHED_OFF, whatever else happens.             *)
THEOREM OneOwnerAgain ==
    ASSUME Once(CtlScript, "SCHED_OFF")
    PROVE  Spec => []OneOwnerWhenSettled
<1>1. ASSUME OInv PROVE OneOwnerWhenSettled
  <2>1. SUFFICES ASSUME StatusSettled, NEW c \in Clients, NEW d \in Clients,
                        Served(c), Served(d), own_lock[c], own_lock[d]
                 PROVE  c = d
    BY DEF OneOwnerWhenSettled
  <2>2. ASSUME NEW e \in Clients, Served(e), own_lock[e] PROVE requests[1] = e
    <3>1. /\ toClient[e] \in Seq(Messages) /\ proc[e] = "up" /\ status_on[e] \in BOOLEAN
      BY <1>1, <2>2, ClientsAssumption, SchedFacts DEF OInv, SInv, NInv, Idle, ClientTypeOK
    <3>2. Alive(e) /\ Announced(e) /\ UpToDate(e)
      BY <1>1, <2>2, <3>1 DEF OInv, SInv, Alive, LockOf
    <3>3. scheduler_on /\ {"SCHED_ON", "SCHED_OFF"} \cap Range(toClient[e]) = {}
      BY <2>1, <2>2 DEF StatusSettled
    <3>4. \A x : In(toClient[e], x) => x \in Range(toClient[e])
      <4>1. DOMAIN toClient[e] = 1..Len(toClient[e])
        BY <3>1, LenProperties
      <4>2. QED
        BY <4>1 DEF In, Range
    <3>5. ~In(toClient[e], "SCHED_OFF") /\ ~In(toClient[e], "SCHED_ON")
      BY <3>3, <3>4
    <3>6. status_on[e]
      <4>1. SUFFICES ASSUME ~status_on[e] PROVE FALSE
        BY <3>1
      <4>2. Unscheduled(e)
        BY <3>1, <4>1 DEF Unscheduled
      <4>3. toClient[e] # <<>>
        BY <3>1, <3>2, <3>3, <4>2 DEF Announced, ToldOff
      <4>4. In(toClient[e], Head(toClient[e]))
        BY <3>1, <4>3, ReadChannel
      <4>5. QED
        BY <3>2, <3>5, <4>2, <4>3, <4>4 DEF Announced
    <3>7. Scheduled(e) /\ Owns(e)
      BY <2>2, <3>1, <3>5, <3>6 DEF Scheduled, Owns
    <3>8. QED
      BY <3>2, <3>7 DEF UpToDate, Holder
  <2>3. QED
    BY <2>1, <2>2
<1>2. QED
  BY ToggleInvariance, <1>1, PTL
=============================================================================
