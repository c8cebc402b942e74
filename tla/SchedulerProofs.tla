-------------------------- MODULE SchedulerProofs ---------------------------
(***************************************************************************)
(* Proofs about nvshare-scheduler among arbitrary peers, for any number of *)
(* connections, any socket buffer and any batch size: its types, its       *)
(* requests list, that it implements GpuLock, and when it may tell the     *)
(* holder to give the lock back.  The work is done in SchedulerLemmas and  *)
(* SchedulerEffects; peers only add and take messages.                     *)
(***************************************************************************)
EXTENDS MCSchedulerPeers, SchedulerEffects

(* IInv is the type invariant and the soundness of the queue *)
LEMMA IInvImplies ==
    ASSUME IInv
    PROVE  SchedTypeOK /\ QueueSound
<1>1. State \in Records /\ Sound(State)
  BY DEF IInv, Sound
<1>2. /\ scheduler_on \in BOOLEAN /\ lock_held \in BOOLEAN /\ must_reset_timer \in BOOLEAN
      /\ clients \in SUBSET Conns /\ registered \in SUBSET Conns /\ requests \in Seq(Conns)
      /\ toSched \in [Conns -> Seq(Messages)] /\ toClient \in [Conns -> Seq(Messages)]
      /\ round_changed \in BOOLEAN /\ timer \in {"starting", "waiting", "signaled", "timedout"}
      /\ exited \in {"no", "sigpipe", "fatal"}
  BY <1>1 DEF State, Records
<1>3. SchedTypeOK
  BY <1>2 DEF IInv, RestOK, SchedTypeOK, CommTypeOK
<1>4. /\ lock_held => requests # <<>>
      /\ registered \subseteq clients
      /\ Listed(requests, registered)
      /\ ~scheduler_on => requests = <<>>
  BY <1>1 DEF Sound, State
<1>5. QueueSound
  <2>1. DOMAIN requests = 1..Len(requests)
    BY <1>2, LenProperties
  <2>2. Range(requests) \subseteq registered
    BY <1>4, <2>1 DEF Listed, Range
  <2>3. IsInjective(requests)
    BY <1>4, <2>1 DEF Listed, IsInjective
  <2>4. QED
    BY <1>4, <2>2, <2>3 DEF QueueSound, HolderIsHead, RequestsAreClients, NoDuplicateRequest,
                            OffIsEmpty
<1>6. QED
  BY <1>3, <1>5

(* What a peer does changes the channels only *)
LEMMA PeerIInv ==
    ASSUME IInv, PeerNext
    PROVE  IInv'
<1> USE DEF IInv
<1>0. /\ State \in Records /\ toSched \in [Conns -> Seq(Messages)]
      /\ toClient \in [Conns -> Seq(Messages)]
  BY DEF Sound, Records, State
<1>1. ASSUME NEW in \in [Conns -> Seq(Messages)], NEW out \in [Conns -> Seq(Messages)],
             toSched' = in, toClient' = out, UNCHANGED <<clients, exited, schedVars>>
      PROVE  Sound(State')
  <2> DEFINE t == [State EXCEPT !.toSched = in, !.toClient = out]
  <2>1. Sound(t)
    BY <1>0 DEF Sound, Records, State
  <2>2. Become(t)
    BY <1>1 DEF Become, State, schedVars
  <2> HIDE DEF t
  <2>3. QED
    BY <2>1, <2>2, BecomeSound
<1>2. \A c \in Conns : [toClient EXCEPT ![c] = <<>>] \in [Conns -> Seq(Messages)]
  BY <1>0, EmptySeq
<1>3. ASSUME NEW c \in Conns, PeerConnect(c) PROVE IInv'
  <2>1. [toSched EXCEPT ![c] = <<>>] \in [Conns -> Seq(Messages)]
    BY <1>0, EmptySeq
  <2>2. Sound(State')
    BY <1>1, <1>2, <1>3, <2>1 DEF PeerConnect, Connect
  <2>3. QED
    BY <1>3, <2>2 DEF PeerConnect, Connect, RestOK, schedVars
<1>4. ASSUME NEW c \in Conns, NEW m \in PeerMessages, PeerWrite(c, m) PROVE IInv'
  <2> DEFINE l == Append(toSched[c], m)
             in == [toSched EXCEPT ![c] = l]
  <2>1. l \in Seq(Messages)
    BY <1>0, PeerMessagesAssumption, AppendProperties
  <2>2. toSched' = in
    BY <1>4 DEF PeerWrite, Write
  <2> HIDE DEF l
  <2>3. in \in [Conns -> Seq(Messages)]
    BY <1>0, <2>1
  <2> HIDE DEF in
  <2>4. Sound(State')
    BY <1>0, <1>1, <1>4, <2>2, <2>3 DEF PeerWrite
  <2>5. QED
    BY <1>4, <2>4 DEF PeerWrite, RestOK, schedVars
<1>5. ASSUME NEW c \in Conns, PeerRead(c) PROVE IInv'
  <2> DEFINE l == Tail(toClient[c])
             out == [toClient EXCEPT ![c] = l]
  <2>1. toClient[c] \in Seq(Messages) /\ toClient[c] # <<>> /\ toClient' = out
    BY <1>0, <1>5 DEF PeerRead, Read
  <2>2. l \in Seq(Messages)
    BY <2>1, HeadTailProperties
  <2> HIDE DEF l
  <2>3. out \in [Conns -> Seq(Messages)]
    BY <1>0, <2>2
  <2> HIDE DEF out
  <2>4. Sound(State')
    BY <1>0, <1>1, <1>5, <2>1, <2>3 DEF PeerRead
  <2>5. QED
    BY <1>5, <2>4 DEF PeerRead, RestOK, schedVars
<1>6. ASSUME NEW c \in Conns, PeerClose(c) PROVE IInv'
  <2>1. Sound(State')
    BY <1>0, <1>1, <1>2, <1>6 DEF PeerClose, Close
  <2>2. QED
    BY <1>6, <2>1 DEF PeerClose, Close, RestOK, schedVars
<1>7. QED
  BY <1>3, <1>4, <1>5, <1>6 DEF PeerNext

(* IInv holds in every reachable state of the scheduler and its peers *)
THEOREM Invariance == Spec => []IInv
<1>1. Init => IInv
  BY InitIInv DEF Init
<1>2. IInv /\ [Next]_vars => IInv'
  <2> SUFFICES ASSUME IInv, [Next]_vars PROVE IInv'
    OBVIOUS
  <2>1. CASE SchedNext
    BY <2>1, MainIInv, TimerIInv DEF SchedNext
  <2>2. CASE PeerNext
    BY <2>2, PeerIInv
  <2>3. CASE UNCHANGED vars
    <3>1. State' = State
      BY <2>3 DEF vars, commVars, schedVars, State
    <3>2. RestOK'
      BY <2>3 DEF vars, commVars, schedVars, IInv, RestOK
    <3>3. QED
      BY <3>1, <3>2 DEF IInv
  <2>4. QED
    BY <2>1, <2>2, <2>3 DEF Next
<1>3. QED
  BY <1>1, <1>2, PTL DEF Spec

(* Every variable keeps its type, whatever peers connect, write and close:    *)
(* the message loop of main() and timer_thr_fn() never leave their states.   *)
THEOREM TypeCorrect == Spec => []SchedTypeOK
<1>1. IInv => SchedTypeOK
  BY IInvImplies
<1>2. QED
  BY <1>1, Invariance, PTL

(* For any number of connections, any socket buffer and any batch of events:  *)
(* lock_held implies a request at the head, every request belongs to a live   *)
(* registered client and appears once, and a scheduler that is off has none.  *)
(* So timer_thr_fn() may follow requests->client, and delete_client() leaves  *)
(* no request that points to the struct it frees.                            *)
THEOREM QueueIsSound == Spec => []QueueSound
<1>1. IInv => QueueSound
  BY IInvImplies
<1>2. QED
  BY <1>1, Invariance, PTL

-----------------------------------------------------------------------------
(* What peers do is no step of the lock *)
LEMMA PeerLockStep ==
    ASSUME IInv, PeerNext
    PROVE  LockStep(State, State')
<1>1. toClient \in [Conns -> Seq(Messages)]
  BY DEF IInv, Sound, Records, State
<1>2. requests' = requests /\ lock_held' = lock_held
  BY DEF PeerNext, PeerConnect, PeerWrite, PeerRead, PeerClose, schedVars
<1>3. PICK c \in Conns :
        \/ toClient' = toClient
        \/ toClient' = [toClient EXCEPT ![c] = <<>>]
        \/ toClient' = [toClient EXCEPT ![c] = Tail(toClient[c])] /\ toClient[c] # <<>>
  BY DEF PeerNext, PeerConnect, PeerWrite, PeerRead, PeerClose, Connect, Read, Close
<1>4. ASSUME NEW d \in Conns PROVE toClient'[d] # Append(toClient[d], "LOCK_OK")
  <2>0. toClient[d] \in Seq(Messages) /\ Len(toClient[d]) \in Nat
    BY <1>1, LenProperties
  <2>1. CASE toClient'[d] = toClient[d]
    BY <2>0, <2>1, NotAppended DEF Messages
  <2>2. CASE toClient'[d] = <<>>
    BY <2>0, <2>2, EmptySeq, NotAppended DEF Messages
  <2>3. CASE toClient'[d] = Tail(toClient[d]) /\ toClient[d] # <<>>
    <3>1. Tail(toClient[d]) \in Seq(Messages) /\ Len(Tail(toClient[d])) = Len(toClient[d]) - 1
      BY <2>0, <2>3, HeadTailProperties
    <3>2. Len(toClient[d]) - 1 # Len(toClient[d]) + 1
      BY <2>0
    <3>3. QED
      BY <2>0, <2>3, <3>1, <3>2, NotAppended DEF Messages
  <2>4. \/ toClient'[d] = toClient[d]
        \/ toClient'[d] = <<>>
        \/ toClient'[d] = Tail(toClient[d]) /\ toClient[d] # <<>>
    BY <1>1, <1>3
  <2>5. QED
    BY <2>1, <2>2, <2>3, <2>4
<1>5. QED
  BY <1>2, <1>4, UnchangedStep

-----------------------------------------------------------------------------
(* The theorems *)

(* The refinement mapping of a list, in terms of In and Before *)
Ahead(q) == {p \in Conns \X Conns : \E i, j \in DOMAIN q : i < j /\ p = <<q[i], q[j]>>}

LEMMA Mapping ==
    ASSUME NEW q \in Seq(Conns)
    PROVE  /\ Range(q) \subseteq Conns
           /\ \A a \in Conns : a \in Range(q) <=> In(q, a)
           /\ Ahead(q) \subseteq Conns \X Conns
           /\ \A a, b \in Conns : <<a, b>> \in Ahead(q) <=> Before(q, a, b)
<1>1. DOMAIN q = 1..Len(q) /\ \A i \in 1..Len(q) : q[i] \in Conns
  BY LenProperties, ElementOfSeq
<1>2. Range(q) \subseteq Conns /\ \A a \in Conns : a \in Range(q) <=> In(q, a)
  BY <1>1 DEF Range, In
<1>3. \A a, b \in Conns : <<a, b>> \in Ahead(q) <=> Before(q, a, b)
  BY <1>1 DEF Before, Ahead
<1>4. Ahead(q) \subseteq Conns \X Conns
  BY DEF Ahead
<1>5. QED
  BY <1>2, <1>3, <1>4

(* In a list without duplicates nobody is before the first *)
LEMMA FirstIsFirst ==
    ASSUME NEW q \in Seq(Conns), Listed(q, Conns), NEW a
    PROVE  ~Before(q, a, q[1])
<1>1. SUFFICES ASSUME NEW i \in 1..Len(q), NEW j \in 1..Len(q), i < j, q[j] = q[1] PROVE FALSE
  BY DEF Before
<1>2. 1 \in 1..Len(q) /\ j # 1
  BY <1>1, LenProperties
<1>3. QED
  BY <1>1, <1>2 DEF Listed

(* A LockStep is a step of GpuLock *)
LEMMA LockStepImplements ==
    ASSUME IInv, IInv', LockStep(State, State')
    PROVE  Lock!Next
<1> DEFINE W == Range(requests)
           A == {p \in Conns \X Conns :
                    \E i, j \in DOMAIN requests : i < j /\ p = <<requests[i], requests[j]>>}
           H == IF lock_held THEN {requests[1]} ELSE {}
           q == requests
           r == requests'
<1>1. /\ q \in Seq(Conns) /\ r \in Seq(Conns) /\ Listed(r, Conns)
      /\ lock_held => In(q, q[1]) /\ q[1] \in Conns
      /\ lock_held' => In(r, r[1]) /\ r[1] \in Conns
  <2>1. Sound(State) /\ Sound(State')
    BY DEF IInv
  <2>2. /\ State.requests = q /\ State'.requests = r
        /\ State.held = lock_held /\ State'.held = lock_held'
    BY DEF State
  <2>3. /\ q \in Seq(Conns) /\ r \in Seq(Conns) /\ Listed(r, Conns)
        /\ lock_held => 1 \in 1..Len(q) /\ In(q, q[1])
        /\ lock_held' => 1 \in 1..Len(r) /\ In(r, r[1])
    BY <2>1, <2>2, SoundList
  <2>4. QED
    BY <2>3, ElementOfSeq
<1>2. PICK g \in SUBSET Conns :
        /\ Changes(q, r, g)
        /\ \/ lock_held /\ lock_held' /\ q[1] \notin g /\ r[1] = q[1]
           \/ lock_held => q[1] \in g
  BY DEF LockStep, State
<1>3. /\ W \subseteq Conns /\ A \subseteq Conns \X Conns
      /\ \A a \in Conns : a \in W <=> In(q, a)
      /\ \A a, b \in Conns : <<a, b>> \in A <=> Before(q, a, b)
  <2>1. W = Range(q) /\ A = Ahead(q)
    BY DEF Ahead
  <2> HIDE DEF W, A, q
  <2>2. QED
    BY <1>1, <2>1, Mapping
<1>4. /\ W' \subseteq Conns /\ A' \subseteq Conns \X Conns
      /\ \A a \in Conns : a \in W' <=> In(r, a)
      /\ \A a, b \in Conns : <<a, b>> \in A' <=> Before(r, a, b)
  <2>1. W' = Range(r) /\ A' = Ahead(r)
    BY DEF Ahead
  <2> HIDE DEF W, A, r
  <2>2. QED
    BY <1>1, <2>1, Mapping
<1> DEFINE gone == W \cap g
           Line(new) ==
               /\ W' = (W \ gone) \cup new
               /\ A' = {p \in A : {p[1], p[2]} \cap gone = {}} \cup ((W \ gone) \X new)
<1>5. Line({}) \/ \E c \in Conns \ W : Line({c})
  <2> HIDE DEF W, A, q, r
  <2>0. \A a, b \in Conns : Before(q, a, b) => In(q, a) /\ In(q, b)
    BY DEF Before, In
  <2>1. CASE Leaves(q, r, g)
    <3>1. W' = (W \ gone) \cup {}
      BY <1>3, <1>4, <2>1 DEF Leaves
    <3>2. \A a, b \in Conns : <<a, b>> \in A' <=> <<a, b>> \in A /\ a \notin gone /\ b \notin gone
      BY <1>3, <1>4, <2>0, <2>1 DEF Leaves
    <3>3. A' = {p \in A : {p[1], p[2]} \cap gone = {}} \cup ((W \ gone) \X {})
      BY <1>3, <1>4, <3>2
    <3>4. QED
      BY <3>1, <3>3
  <2>2. ASSUME NEW c \in Conns, Joins(q, r, g, c) PROVE c \in Conns \ W /\ Line({c})
    <3>1. c \notin W /\ W' = (W \ gone) \cup {c}
      BY <1>3, <1>4, <2>2 DEF Joins
    <3>2. \A a, b \in Conns :
            <<a, b>> \in A' <=> \/ <<a, b>> \in A /\ a \notin gone /\ b \notin gone
                                \/ a \in W \ gone /\ b = c
      BY <1>3, <1>4, <2>0, <2>2 DEF Joins
    <3>3. A' = {p \in A : {p[1], p[2]} \cap gone = {}} \cup ((W \ gone) \X {c})
      BY <1>3, <1>4, <3>2
    <3>4. QED
      BY <3>1, <3>3
  <2>3. QED
    BY <1>2, <2>1, <2>2 DEF Changes
<1>6. \/ H # {} /\ H \cap gone = {} /\ H' = H
      \/ H \subseteq gone /\ H' = {}
      \/ H \subseteq gone /\ \E c \in W' : H' = {c} /\ \A d \in W' : <<d, c>> \notin A'
  <2>1. CASE lock_held /\ lock_held' /\ q[1] \notin g /\ r[1] = q[1]
    BY <2>1
  <2>2. CASE (lock_held => q[1] \in g) /\ ~lock_held'
    BY <1>1, <1>3, <2>2
  <2>3. CASE (lock_held => q[1] \in g) /\ lock_held'
    <3>1. H \subseteq gone
      BY <1>1, <1>3, <2>3
    <3>2. r[1] \in W' /\ H' = {r[1]}
      BY <1>1, <1>4, <2>3
    <3>3. \A d \in W' : <<d, r[1]>> \notin A'
      BY <1>1, <1>4, <2>3, FirstIsFirst
    <3>4. QED
      BY <3>1, <3>2, <3>3
  <2>4. QED
    BY <1>2, <2>1, <2>2, <2>3
<1>7. gone \in SUBSET W
  OBVIOUS
<1>8. QED
  BY <1>5, <1>6, <1>7 DEF Lock!Next, Lock!Line, Lock!Keep, Lock!Free, Lock!Grant

(* Every step of the scheduler and its peers is a LockStep *)
LEMMA NextIsLockStep ==
    ASSUME IInv, Next
    PROVE  LockStep(State, State')
BY MainLockStep, TimerLockStep, PeerLockStep DEF Next, SchedNext

(* The scheduler implements GpuLock, whatever peers connect, write and close *)
(* and whichever of its writes fail: those in line keep their order, the     *)
(* lock stays with its holder until that leaves the line, and then goes to   *)
(* nobody but the first.                                                     *)
THEOREM LockIsImplemented == Spec => ImplementsLock
<1>1. Init => Lock!Init
  BY DEF Init, SchedInit, Lock!Init, Range
<1>2. IInv /\ IInv' /\ [Next]_vars => [Lock!Next]_(Lock!lockVars)
  <2> SUFFICES ASSUME IInv, IInv', [Next]_vars PROVE [Lock!Next]_(Lock!lockVars)
    OBVIOUS
  <2>1. CASE Next
    BY <2>1, NextIsLockStep, LockStepImplements
  <2>2. CASE UNCHANGED vars
    BY <2>2 DEF vars, schedVars, Lock!lockVars
  <2>3. QED
    BY <2>1, <2>2
<1>3. QED
  BY <1>1, <1>2, Invariance, PTL DEF Spec, ImplementsLock, Lock!Spec

(* LOCK_OK is written to nobody but the new head of the list, who then holds *)
(* the lock, and never while an earlier holder is still in the list.         *)
THEOREM GrantsAreExclusive == Spec => OneGrantAtATime
<1>1. IInv /\ IInv' /\ [Next]_vars => [GrantStep]_vars
  <2> SUFFICES ASSUME IInv, IInv', Next PROVE GrantStep
    OBVIOUS
  <2>1. LockStep(State, State')
    BY NextIsLockStep
  <2> SUFFICES ASSUME NEW c \in Conns, SentTo(c, "LOCK_OK")
               PROVE  /\ lock_held' /\ requests'[1] = c
                      /\ lock_held => requests[1] \notin Range(requests')
    BY DEF GrantStep
  <2>2. PICK g \in SUBSET Conns :
          /\ Changes(requests, requests', g)
          /\ lock_held' /\ requests'[1] = c
          /\ lock_held => requests[1] \in g
    BY <2>1 DEF LockStep, State, SentTo
  <2>3. ASSUME lock_held PROVE requests[1] \notin Range(requests')
    <3>1. /\ requests \in Seq(Conns) /\ requests' \in Seq(Conns)
          /\ In(requests, requests[1]) /\ requests[1] \in Conns
      <4>1. Sound(State) /\ Sound(State')
        BY DEF IInv
      <4>2. /\ State.requests = requests /\ State'.requests = requests'
            /\ State.held = lock_held
        BY DEF State
      <4>3. /\ requests \in Seq(Conns) /\ requests' \in Seq(Conns)
            /\ 1 \in 1..Len(requests) /\ In(requests, requests[1])
        BY <2>3, <4>1, <4>2, SoundList
      <4>4. QED
        BY <4>3, ElementOfSeq
    <3>2. ~In(requests', requests[1])
      BY <2>2, <2>3, <3>1 DEF Changes, Leaves, Joins
    <3>3. QED
      BY <3>1, <3>2, Mapping
  <2>4. QED
    BY <2>2, <2>3
<1>2. QED
  BY <1>1, Invariance, PTL DEF Spec, OneGrantAtATime

-----------------------------------------------------------------------------
(* The timer thread and the binding of the lock *)

(* A binding that the timer thread has not seen is a new round, and one it   *)
(* has spoken about is not.  Without SET_TQ the timer starts over for a new  *)
(* round only.                                                               *)
Bound ==
    /\ binding \in {"none", "granted", "timed", "dropped"}
    /\ lock_held <=> binding # "none"
    /\ binding = "granted" => round_changed
    /\ must_reset_timer => round_changed
    /\ binding = "dropped" => drop_lock_sent /\ ~round_changed

BInv ==
    /\ IInv
    /\ toSched \in [Conns -> Seq(Messages \ {"SET_TQ"})]
    /\ Bound

DropStep == \A c \in Conns : SentTo(c, "DROP_LOCK") => binding = "timed" /\ requests[1] = c

(* Nothing is written to anybody *)
LEMMA NothingSent ==
    ASSUME IInv, UNCHANGED toClient
    PROVE  \A c \in Conns : ~SentTo(c, "LOCK_OK") /\ ~SentTo(c, "DROP_LOCK")
<1>1. toClient \in [Conns -> Seq(Messages)] /\ {"LOCK_OK", "DROP_LOCK"} \subseteq Messages
  BY IInvImplies DEF SchedTypeOK, CommTypeOK, Messages
<1>2. QED
  BY <1>1, NotAppended DEF SentTo

(* The main thread *)
LEMMA MainBound ==
    ASSUME BInv, Follow, Timing(State, State'), UNCHANGED drop_lock_sent
    PROVE  Bound' /\ DropStep
<1>1. ~Armed
  BY DEF Timing, State, Armed
<1>2. \A c \in Conns : ~SentTo(c, "DROP_LOCK")
  BY DEF Timing, State, SentTo
<1>3. CASE \E c \in Conns : SentTo(c, "LOCK_OK")
  <2>1. lock_held' /\ round_changed' /\ must_reset_timer'
    BY <1>3 DEF Timing, State, SentTo
  <2>2. binding' = "granted"
    BY <1>1, <1>2, <1>3, <2>1 DEF Follow
  <2>3. QED
    BY <1>2, <2>1, <2>2 DEF Bound, DropStep
<1>4. CASE ~ \E c \in Conns : SentTo(c, "LOCK_OK")
  <2>1. binding' = IF lock_held' THEN binding ELSE "none"
    BY <1>1, <1>2, <1>4 DEF Follow
  <2>2. /\ round_changed' = round_changed /\ must_reset_timer' = must_reset_timer
        /\ lock_held' => lock_held
    BY <1>4 DEF Timing, State, SentTo
  <2>3. QED
    BY <1>2, <2>1, <2>2 DEF BInv, Bound, DropStep
<1>5. QED
  BY <1>3, <1>4

(* A peer *)
LEMMA PeerBound ==
    ASSUME BInv, Follow, PeerNext
    PROVE  Bound' /\ DropStep
<1>1. toClient \in [Conns -> Seq(Messages)] /\ {"LOCK_OK", "DROP_LOCK"} \subseteq Messages
  BY IInvImplies DEF BInv, SchedTypeOK, CommTypeOK, Messages
<1>2. UNCHANGED schedVars
  BY DEF PeerNext, PeerConnect, PeerWrite, PeerRead, PeerClose
<1>3. ASSUME NEW c \in Conns, NEW m \in {"LOCK_OK", "DROP_LOCK"} PROVE ~SentTo(c, m)
  <2>1. PICK d \in Conns :
          \/ toClient' = toClient
          \/ toClient' = [toClient EXCEPT ![d] = <<>>]
          \/ toClient[d] # <<>> /\ toClient' = [toClient EXCEPT ![d] = Tail(@)]
    BY DEF PeerNext, PeerConnect, Connect, PeerWrite, PeerRead, Read, PeerClose, Close
  <2>2. \/ toClient'[c] = toClient[c] \/ toClient'[c] = <<>>
        \/ toClient[c] # <<>> /\ toClient'[c] = Tail(toClient[c])
    BY <1>1, <2>1
  <2> DEFINE q == toClient[c]
             r == toClient'[c]
  <2>3. q \in Seq(Messages) /\ Len(q) \in Nat /\ Append(q, m) # q /\ Append(q, m) # <<>>
    BY <1>1, NotAppended, LenProperties, AppendProperties
  <2>4. q # <<>> => Tail(q) # Append(q, m)
    <3>1. q # <<>> => Len(Tail(q)) = Len(q) - 1
      BY <2>3, HeadTailProperties
    <3>2. Len(Append(q, m)) = Len(q) + 1
      BY <1>1, <2>3, AppendProperties
    <3>3. QED
      BY <2>3, <3>1, <3>2
  <2>5. QED
    BY <2>2, <2>3, <2>4 DEF SentTo
<1>4. ~Armed
  BY <1>2 DEF Armed, schedVars
<1>5. binding' = IF lock_held' THEN binding ELSE "none"
  BY <1>3, <1>4 DEF Follow
<1>6. QED
  BY <1>2, <1>3, <1>5 DEF BInv, Bound, DropStep, schedVars

(* The timer thread *)
LEMMA TimerBound ==
    ASSUME BInv, Follow, TimerNext
    PROVE  Bound' /\ DropStep
<1>0. /\ IInv /\ Sound(State) /\ State \in Records /\ Bound
      /\ lock_held \in BOOLEAN
      /\ toClient \in [Conns -> Seq(Messages)]
  BY IInvImplies DEF BInv, IInv, Sound, SchedTypeOK, CommTypeOK
<1>1. ASSUME Become(Arm(State)), timer \in {"starting", "timedout", "signaled"},
             timer = "signaled" => must_reset_timer,
             \/ UNCHANGED drop_lock_sent
             \/ round_changed
      PROVE  Bound' /\ DropStep
  <2>1. /\ ~must_reset_timer' /\ ~round_changed' /\ timer' = "waiting"
        /\ UNCHANGED <<toClient, lock_held>>
    BY <1>1 DEF Become, Arm, State
  <2>2. Armed
    BY <1>1, <2>1 DEF Armed
  <2>3. \A c \in Conns : ~SentTo(c, "LOCK_OK") /\ ~SentTo(c, "DROP_LOCK")
    BY <1>0, <2>1, NothingSent
  <2>4. binding' = IF ~lock_held' THEN "none" ELSE IF binding = "granted" THEN "timed" ELSE binding
    BY <2>2, <2>3 DEF Follow
  <2>5. QED
    BY <1>0, <1>1, <2>1, <2>3, <2>4 DEF Bound, DropStep
<1>2. ASSUME ~Armed, UNCHANGED <<toClient, lock_held, round_changed, must_reset_timer, drop_lock_sent>>
      PROVE  Bound' /\ DropStep
  <2>1. \A c \in Conns : ~SentTo(c, "LOCK_OK") /\ ~SentTo(c, "DROP_LOCK")
    BY <1>0, <1>2, NothingSent
  <2>2. binding' = IF lock_held' THEN binding ELSE "none"
    BY <1>2, <2>1 DEF Follow
  <2>3. QED
    BY <1>0, <1>2, <2>1, <2>2 DEF Bound, DropStep
<1>3. CASE TimerStart \/ TimerIdle \/ TimerOldRound
  BY <1>1, <1>3 DEF TimerStart, TimerIdle, TimerOldRound, TimerStep
<1>4. CASE TimerDeadline \/ TimerSpurious
  <2>1. Become([State EXCEPT !.timer = "timedout"]) \/ Become([State EXCEPT !.timer = "signaled"])
    BY <1>4 DEF TimerDeadline, TimerSpurious
  <2>2. /\ UNCHANGED <<toClient, lock_held, round_changed, must_reset_timer>>
        /\ timer' \in {"timedout", "signaled"}
    BY <2>1 DEF Become, State
  <2>3. ~Armed
    BY <2>2 DEF Armed
  <2>4. QED
    BY <1>2, <1>4, <2>2, <2>3 DEF TimerDeadline, TimerSpurious
<1>5. CASE TimerSignaled
  <2>1. CASE must_reset_timer
    <3>1. round_changed
      BY <1>0, <2>1 DEF Bound
    <3>2. QED
      BY <1>1, <1>5, <2>1, <3>1 DEF TimerSignaled, TimerStep
  <2>2. CASE ~must_reset_timer
    <3>1. Become([State EXCEPT !.timer = "waiting"]) /\ UNCHANGED drop_lock_sent /\ timer = "signaled"
      BY <1>5, <2>2 DEF TimerSignaled, TimerStep
    <3>2. UNCHANGED <<toClient, lock_held, round_changed, must_reset_timer>>
      BY <3>1 DEF Become, State
    <3>3. ~Armed
      BY <2>2, <3>1 DEF Armed
    <3>4. QED
      BY <1>2, <3>1, <3>2, <3>3
  <2>3. QED
    BY <2>1, <2>2
<1>6. CASE TimerDrop
  <2> DEFINE holder == requests[1]
             out == [toClient EXCEPT ![holder] = Append(toClient[holder], "DROP_LOCK")]
             x == [State EXCEPT !.toClient = out]
             d == delete_client(State, holder)
             e == [State EXCEPT !.exited = "sigpipe"]
  <2>1. lock_held /\ ~drop_lock_sent /\ ~round_changed /\ timer = "timedout"
    BY <1>6 DEF TimerDrop, TimerNothingToDo, TimerStep
  <2>2. binding = "timed"
    BY <1>0, <2>1 DEF Bound
  <2>3. State.held /\ State.requests[1] = holder /\ In(State.requests, holder)
    BY <1>0, <2>1, SoundList DEF State
  <2>4. holder \in State.clients /\ holder \in Conns
    BY <1>0, <2>3 DEF Sound, Listed, In, Records
  <2>5. \/ Become(Arm(Sent(State, holder, "DROP_LOCK"))) /\ drop_lock_sent' = TRUE
        \/ Become(Arm(try_schedule(d))) /\ drop_lock_sent' = FALSE
        \/ Become(e) /\ UNCHANGED drop_lock_sent
    BY <1>6 DEF TimerDrop
  <2>6. CASE Become(Arm(Sent(State, holder, "DROP_LOCK"))) /\ drop_lock_sent' = TRUE
    <3>1. Sent(State, holder, "DROP_LOCK") = x
      BY DEF Sent, State
    <3>2. /\ ~must_reset_timer' /\ ~round_changed' /\ timer' = "waiting"
          /\ toClient' = out /\ UNCHANGED lock_held
      <4> HIDE DEF out, holder
      <4>1. QED
        BY <2>6, <3>1 DEF Become, Arm, State
    <3>3. \A c \in Conns : toClient'[c] = IF c = holder THEN Append(toClient[c], "DROP_LOCK")
                                          ELSE toClient[c]
      BY <1>0, <3>2
    <3> HIDE DEF holder, out, x
    <3>4. {"LOCK_OK", "DROP_LOCK"} \subseteq Messages
      BY DEF Messages
    <3>5. ASSUME NEW c \in Conns PROVE ~SentTo(c, "LOCK_OK")
      <4>1. /\ Append(toClient[c], "DROP_LOCK") # Append(toClient[c], "LOCK_OK")
            /\ toClient[c] # Append(toClient[c], "LOCK_OK")
        BY <1>0, <3>4, DifferentMessages
      <4>2. QED
        BY <3>3, <4>1 DEF SentTo
    <3>6. \A c \in Conns : SentTo(c, "DROP_LOCK") <=> c = holder
      BY <1>0, <3>3, <3>4, NotAppended DEF SentTo
    <3>7. binding' = "dropped"
      BY <2>1, <2>2, <2>4, <3>2, <3>5, <3>6 DEF Follow
    <3>8. Bound'
      BY <2>1, <2>6, <3>2, <3>7 DEF Bound
    <3>9. QED
      BY <2>2, <3>6, <3>8 DEF DropStep, holder
  <2>7. CASE Become(Arm(try_schedule(d))) /\ drop_lock_sent' = FALSE
    <3> DEFINE u == try_schedule(d)
    <3>1. Sound(d) /\ Edit(State, d, {holder})
      BY <1>0, <2>4, DeleteClientSound, DeleteClientEdit
    <3>2. ~d.held /\ d.toClient = toClient
      BY <2>3, <3>1 DEF Edit, State
    <3>3. Calm(d, d)
      BY DEF Calm
    <3>4. Timing(d, u) /\ u \in Records
      BY <3>1, <3>2, <3>3, ServeTiming, TryScheduleSound DEF Sound
    <3> HIDE DEF d, u, holder
    <3>5. Become(Arm(u))
      BY <2>7 DEF u
    <3>6. /\ ~must_reset_timer' /\ ~round_changed' /\ timer' = "waiting"
          /\ toClient' = u.toClient /\ lock_held' = u.held
      BY <3>4, <3>5 DEF Become, Arm, Records
    <3>7. Armed
      BY <2>1, <3>6 DEF Armed
    <3>8. \A c \in Conns : ~SentTo(c, "DROP_LOCK")
      BY <3>2, <3>4, <3>6 DEF Timing, SentTo
    <3>9. (\E c \in Conns : SentTo(c, "LOCK_OK")) <=> lock_held'
      BY <3>2, <3>4, <3>6 DEF Timing, SentTo
    <3>10. binding' = IF lock_held' THEN "timed" ELSE "none"
      BY <3>7, <3>8, <3>9 DEF Follow
    <3>11. QED
      BY <3>6, <3>8, <3>10 DEF Bound, DropStep
  <2>8. CASE Become(e) /\ UNCHANGED drop_lock_sent
    <3>1. UNCHANGED <<toClient, lock_held, round_changed, must_reset_timer, timer>>
      BY <2>8 DEF Become, State
    <3>2. ~Armed
      BY <2>1, <3>1 DEF Armed
    <3>3. QED
      BY <1>2, <2>8, <3>1, <3>2
  <2>9. QED
    BY <2>5, <2>6, <2>7, <2>8
<1>7. QED
  BY <1>3, <1>4, <1>5, <1>6 DEF TimerNext

(* Nobody is given a SET_TQ to read *)
LEMMA SchedNoSetTq ==
    ASSUME BInv, SchedNext
    PROVE  toSched' \in [Conns -> Seq(Messages \ {"SET_TQ"})]
<1> DEFINE M == Messages \ {"SET_TQ"}
<1> HIDE DEF M
<1>0. IInv /\ toSched \in [Conns -> Seq(M)] /\ <<>> \in Seq(M)
  BY EmptySeq DEF BInv, M
<1>1. ASSUME NEW s, s.toSched \in [Conns -> Seq(M)], NEW c, NEW m, Effect(s, State', c, m)
      PROVE  \A d \in Conns : toSched'[d] \in Seq(M)
  <2>1. ASSUME NEW d \in Conns PROVE toSched'[d] = <<>> \/ toSched'[d] = s.toSched[d]
    BY <1>1 DEF Effect, Stays, State
  <2>2. QED
    BY <1>0, <1>1, <2>1
<1>2. IInv'
  BY <1>0, MainIInv, TimerIInv DEF SchedNext
<1>3. toSched' \in [Conns -> Seq(Messages)]
  BY <1>2 DEF IInv, Sound, Records, State
<1>4. State.toSched = toSched
  BY DEF State
<1>5. ASSUME NEW c \in Conns, ReceiveMsg(c) PROVE \A d \in Conns : toSched'[d] \in Seq(M)
  <2> DEFINE in == [toSched EXCEPT ![c] = Tail(toSched[c])]
  <2>1. toSched[c] \in Seq(M) /\ toSched[c] # <<>>
    BY <1>0, <1>5 DEF ReceiveMsg
  <2>2. Tail(toSched[c]) \in Seq(M)
    BY <2>1, HeadTailProperties
  <2>3. Popped(c).toSched = in /\ in \in [Conns -> Seq(M)]
    BY <1>0, <2>2 DEF Popped, State
  <2>4. Effect(Popped(c), State', c, Head(toSched[c]))
    BY <1>0, <1>5, ReceiveEffect
  <2> HIDE DEF in
  <2>5. QED
    BY <1>1, <2>3, <2>4
<1>6. ASSUME NEW c \in Conns, Hangup(c) PROVE \A d \in Conns : toSched'[d] \in Seq(M)
  BY <1>0, <1>1, <1>4, <1>6, HangupEffect
<1>7. ASSUME TimerNext PROVE \A d \in Conns : toSched'[d] \in Seq(M)
  BY <1>0, <1>1, <1>4, <1>7, TimerEffect
<1>8. ASSUME EpollWait PROVE \A d \in Conns : toSched'[d] \in Seq(M)
  BY <1>0, <1>8 DEF EpollWait, commVars
<1>9. ASSUME NEW c \in Conns, Accept(c) \/ AcceptFails(c) \/ StaleEvent(c)
      PROVE  \A d \in Conns : toSched'[d] \in Seq(M)
  <2>1. toSched' = toSched \/ toSched' = [toSched EXCEPT ![c] = <<>>]
    BY <1>9 DEF Accept, AcceptFails, StaleEvent
  <2>2. QED
    BY <1>0, <2>1
<1>10. \A d \in Conns : toSched'[d] \in Seq(M)
  BY <1>5, <1>6, <1>7, <1>8, <1>9 DEF SchedNext, MainNext
<1>11. QED
  BY <1>3, <1>10 DEF M

LEMMA NextBInv ==
    ASSUME "SET_TQ" \notin PeerMessages, BInv, [Next /\ Follow]_hvars
    PROVE  BInv' /\ [DropStep]_hvars
<1>0. IInv /\ Bound /\ toSched \in [Conns -> Seq(Messages \ {"SET_TQ"})]
  BY DEF BInv
<1>1. CASE SchedNext /\ Follow
  <2>1. IInv'
    BY <1>0, <1>1, MainIInv, TimerIInv DEF SchedNext
  <2>2. Bound' /\ DropStep
    <3>1. CASE TimerNext
      BY <1>1, <3>1, TimerBound
    <3>2. CASE MainNext
      <4>1. ASSUME NEW c \in Conns, ReceiveMsg(c) PROVE Head(toSched[c]) # "SET_TQ"
        <5>1. toSched[c] \in Seq(Messages \ {"SET_TQ"}) /\ toSched[c] # <<>>
          BY <1>0, <4>1 DEF ReceiveMsg
        <5>2. Head(toSched[c]) \in Messages \ {"SET_TQ"}
          BY <5>1, HeadTailProperties
        <5>3. QED
          BY <5>2
      <4>2. Timing(State, State')
        BY <1>0, <3>2, <4>1, MainTiming
      <4>3. UNCHANGED drop_lock_sent
        BY <3>2 DEF MainNext, EpollWait, Accept, AcceptFails, ReceiveMsg, Hangup, StaleEvent,
                    NextEvent
      <4>4. QED
        BY <1>1, <4>2, <4>3, MainBound
    <3>3. QED
      BY <1>1, <3>1, <3>2 DEF SchedNext
  <2>3. QED
    BY <1>1, <2>1, <2>2, SchedNoSetTq DEF BInv
<1>2. CASE PeerNext /\ Follow
  <2> DEFINE M == Messages \ {"SET_TQ"}
  <2>1. IInv'
    BY <1>0, <1>2, PeerIInv
  <2>2. Bound' /\ DropStep
    BY <1>2, PeerBound
  <2>3. PICK c \in Conns : \/ toSched' = toSched \/ toSched' = [toSched EXCEPT ![c] = <<>>]
                           \/ \E m \in PeerMessages :
                                 toSched' = [toSched EXCEPT ![c] = Append(@, m)]
    BY <1>2 DEF PeerNext, PeerConnect, Connect, PeerWrite, Write, PeerRead, PeerClose, Close
  <2>4. \A m \in PeerMessages : m \in M
    BY PeerMessagesAssumption
  <2> HIDE DEF M
  <2>5. toSched \in [Conns -> Seq(M)] /\ <<>> \in Seq(M)
    BY <1>0, EmptySeq DEF M
  <2>6. \A m \in PeerMessages : Append(toSched[c], m) \in Seq(M)
    BY <2>4, <2>5, AppendProperties
  <2>7. toSched' \in [Conns -> Seq(M)]
    BY <2>3, <2>5, <2>6
  <2>8. QED
    BY <2>1, <2>2, <2>7 DEF BInv, M
<1>3. CASE UNCHANGED hvars
  <2>1. State' = State /\ RestOK'
    BY <1>0, <1>3 DEF hvars, vars, commVars, schedVars, State, IInv, RestOK
  <2>2. Bound' /\ toSched' = toSched
    BY <1>0, <1>3 DEF hvars, vars, commVars, schedVars, Bound
  <2>3. QED
    BY <1>0, <1>3, <2>1, <2>2 DEF BInv, IInv
<1>4. QED
  BY <1>1, <1>2, <1>3 DEF Next

LEMMA InitBInv ==
    ASSUME HInit \/ SteadyInit
    PROVE  BInv
<1> DEFINE M == Messages \ {"SET_TQ"}
<1>1. [c \in Conns |-> <<>>] \in [Conns -> Seq(M)]
  BY EmptySeq
<1>2. Bound /\ toSched = [c \in Conns |-> <<>>]
  BY DEF HInit, Init, CommInit, SchedInit, SteadyInit, Bound
<1>3. CASE HInit
  <2>1. IInv
    BY <1>3, InitIInv DEF HInit, Init
  <2>2. QED
    BY <1>1, <1>2, <2>1 DEF BInv
<1>4. CASE SteadyInit
  <2> DEFINE none == [c \in Conns |-> <<>>]
             q == <<>>
  <2>1. none \in [Conns -> Seq(Messages)] /\ q \in Seq(Conns) /\ Listed(q, Conns)
    BY EmptySeq DEF Listed
  <2>2. State = [on |-> TRUE, held |-> FALSE, reset |-> FALSE, clients |-> Conns,
                 registered |-> Conns, requests |-> q, toSched |-> none, toClient |-> none,
                 round |-> FALSE, timer |-> "waiting", exited |-> "no"]
    BY <1>4 DEF SteadyInit, State
  <2> HIDE DEF none, q
  <2>3. Sound(State)
    BY <2>1, <2>2 DEF Sound, Records
  <2>4. RestOK
    BY <1>4, EmptySeq DEF SteadyInit, RestOK
  <2>5. QED
    BY <1>1, <1>2, <2>3, <2>4 DEF BInv, IInv
<1>5. QED
  BY <1>3, <1>4

(* DROP_LOCK is written once per binding and for a deadline of that binding, *)
(* whatever peers do and however the timer thread and the main thread of the *)
(* scheduler race for global_mutex: the round numbers and drop_lock_sent of  *)
(* timer_thr_fn() see to it, as long as nobody sends SET_TQ.                 *)
THEOREM DropsAreTimed ==
    ASSUME "SET_TQ" \notin PeerMessages
    PROVE  HSpec \/ SteadySpec => DropOncePerQuantum
<1>1. HInit => BInv
  BY InitBInv
<1>2. SteadyInit => BInv
  BY InitBInv
<1>3. BInv /\ [Next /\ Follow]_hvars => BInv' /\ [DropStep]_hvars
  BY NextBInv
<1>4. [HNext]_hvars => [Next /\ Follow]_hvars
  BY DEF HNext
<1>5. [SteadyNext]_hvars => [Next /\ Follow]_hvars
  BY DEF SteadyNext, Steady
<1>6. [DropStep]_hvars =>
        [\A c \in Conns : SentTo(c, "DROP_LOCK") => binding = "timed" /\ requests[1] = c]_hvars
  BY DEF DropStep
<1>7. QED
  BY <1>1, <1>2, <1>3, <1>4, <1>5, <1>6, PTL DEF HSpec, SteadySpec, DropOncePerQuantum
=============================================================================
