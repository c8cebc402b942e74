-------------------------- MODULE SchedulerLemmas ---------------------------
(***************************************************************************)
(* What nvshare-scheduler does, whoever its peers are, for any number of   *)
(* connections, any socket buffer and any batch size.                      *)
(*                                                                         *)
(* Soundness: Sound(s) says that a state record is well typed and that its *)
(* requests list is sound, and one lemma per function of scheduler.c shows *)
(* that the function keeps it.                                             *)
(*                                                                         *)
(* Order: Leaves(q, r, g) says that r is q without the members of g, the   *)
(* others in their order, and Joins(q, r, g, c) that c also joins behind   *)
(* everybody.  One lemma per function says which of these it does to the   *)
(* list, what it does to lock_held and what it writes; LockStep is what    *)
(* every step of the scheduler amounts to.                                 *)
(***************************************************************************)
EXTENDS Scheduler, SequenceTheorems, WellFoundedInduction, TLAPS

Records ==
    [on : BOOLEAN, held : BOOLEAN, reset : BOOLEAN,
     clients : SUBSET Conns, registered : SUBSET Conns, requests : Seq(Conns),
     toSched : [Conns -> Seq(Messages)], toClient : [Conns -> Seq(Messages)],
     round : BOOLEAN, timer : {"starting", "waiting", "signaled", "timedout"},
     exited : {"no", "sigpipe", "fatal"}]

(* The requests list q holds registered clients r, each once *)
Listed(q, r) ==
    /\ \A i \in 1..Len(q) : q[i] \in r
    /\ \A i, j \in 1..Len(q) : q[i] = q[j] => i = j

Sound(s) ==
    /\ s \in Records
    /\ s.held => s.requests # <<>>
    /\ s.registered \subseteq s.clients
    /\ Listed(s.requests, s.registered)
    /\ ~s.on => s.requests = <<>>

-----------------------------------------------------------------------------
(* Sequences *)

(* The empty sequence is the sequence of length 0 *)
LEMMA EmptyIffNoLength ==
    ASSUME NEW S, NEW q \in Seq(S)
    PROVE  q = <<>> <=> Len(q) = 0
BY EmptySeq

(* RemoveAt() takes out one entry and shifts the later ones *)
LEMMA RemoveAtEntries ==
    ASSUME NEW S, NEW q \in Seq(S), NEW i \in 1..Len(q)
    PROVE  /\ RemoveAt(q, i) \in Seq(S)
           /\ Len(RemoveAt(q, i)) = Len(q) - 1
           /\ \A j \in 1..(Len(q) - 1) : RemoveAt(q, i)[j] = IF j < i THEN q[j] ELSE q[j + 1]
<1> DEFINE a == SubSeq(q, 1, i - 1)
           b == SubSeq(q, i + 1, Len(q))
<1>1. a \in Seq(S) /\ Len(a) = i - 1 /\ \A j \in 1..(i - 1) : a[j] = q[j]
  BY SubSeqProperties
<1>2. b \in Seq(S) /\ Len(b) = Len(q) - i /\ \A j \in 1..(Len(q) - i) : b[j] = q[i + j]
  BY SubSeqProperties
<1> HIDE DEF a, b
<1>3. /\ a \o b \in Seq(S)
      /\ Len(a \o b) = Len(a) + Len(b)
      /\ \A j \in 1..(Len(a) + Len(b)) :
            (a \o b)[j] = IF j <= Len(a) THEN a[j] ELSE b[j - Len(a)]
  BY <1>1, <1>2, ConcatProperties
<1>4. RemoveAt(q, i) = a \o b
  BY DEF RemoveAt, a, b
<1>5. Len(q) \in Nat
  BY LenProperties
<1>6. ASSUME NEW j \in 1..(Len(q) - 1)
      PROVE  (a \o b)[j] = IF j < i THEN q[j] ELSE q[j + 1]
  <2>1. CASE j < i
    BY <2>1, <1>1, <1>2, <1>3, <1>5
  <2>2. CASE ~(j < i)
    <3>1. j - (i - 1) \in 1..(Len(q) - i) /\ i + (j - (i - 1)) = j + 1
      BY <2>2, <1>5
    <3>2. (a \o b)[j] = b[j - (i - 1)]
      BY <2>2, <1>1, <1>2, <1>3, <1>5
    <3>3. QED
      BY <2>2, <3>1, <3>2, <1>2
  <2>3. QED
    BY <2>1, <2>2
<1>7. \A j \in 1..(Len(q) - 1) : (a \o b)[j] = IF j < i THEN q[j] ELSE q[j + 1]
  BY <1>6
<1>8. Len(a \o b) = Len(q) - 1
  BY <1>1, <1>2, <1>3, <1>5
<1>9. QED
  BY <1>3, <1>4, <1>7, <1>8

(* A list without one of its entries lists the others *)
LEMMA ListedRemove ==
    ASSUME NEW r \in SUBSET Conns, NEW q \in Seq(Conns), Listed(q, r), NEW i \in 1..Len(q)
    PROVE  /\ RemoveAt(q, i) \in Seq(Conns)
           /\ Len(RemoveAt(q, i)) = Len(q) - 1
           /\ Listed(RemoveAt(q, i), r \ {q[i]})
<1>1. /\ RemoveAt(q, i) \in Seq(Conns)
      /\ Len(RemoveAt(q, i)) = Len(q) - 1
      /\ \A j \in 1..(Len(q) - 1) : RemoveAt(q, i)[j] = IF j < i THEN q[j] ELSE q[j + 1]
  BY RemoveAtEntries
<1>2. QED
  BY <1>1 DEF Listed

(* A nonempty set of naturals has a least member *)
LEMMA LeastMember ==
    ASSUME NEW T \in SUBSET Nat, T # {}
    PROVE  \E x \in T : \A y \in T : x <= y
<1>1. \E x \in T : \A y \in T : ~(<<y, x>> \in OpToRel(<, Nat))
  BY NatLessThanWellFounded, WFMin
<1>2. ASSUME NEW x \in T, \A y \in T : ~(<<y, x>> \in OpToRel(<, Nat)), NEW y \in T
      PROVE  x <= y
  <2>1. <<y, x>> \in Nat \X Nat /\ ~(<<y, x>> \in OpToRel(<, Nat))
    BY <1>2
  <2>2. ~(y < x)
    BY <2>1 DEF OpToRel
  <2>3. QED
    BY <2>2
<1>3. QED
  BY <1>1, <1>2

-----------------------------------------------------------------------------
(* The functions of scheduler.c *)

(* remove_req() keeps the lists sound, and leaves no request of its client *)
LEMMA RemoveReqSound ==
    ASSUME NEW s, Sound(s), NEW c \in Conns
    PROVE  /\ Sound(remove_req(s, c))
           /\ Listed(remove_req(s, c).requests, s.registered \ {c})
           /\ remove_req(s, c).registered = s.registered
           /\ remove_req(s, c).clients = s.clients
           /\ remove_req(s, c).toSched = s.toSched
           /\ remove_req(s, c).on = s.on
<1> DEFINE q == s.requests
<1>0. q \in Seq(Conns) /\ DOMAIN q = 1..Len(q) /\ s \in Records /\ s.registered \in SUBSET Conns
  BY DEF Sound, Records
<1>1. CASE \E i \in DOMAIN q : q[i] = c
  <2> DEFINE k == CHOOSE i \in DOMAIN q : q[i] = c
             r == RemoveAt(q, k)
  <2>1. k \in 1..Len(q) /\ q[k] = c
    BY <1>0, <1>1
  <2>2. r \in Seq(Conns) /\ Len(r) = Len(q) - 1 /\ Listed(r, s.registered \ {c})
    BY <2>1, <1>0, ListedRemove DEF Sound
  <2>3. remove_req(s, c) = [s EXCEPT !.held = @ /\ q[1] # c, !.requests = r]
    BY <1>1 DEF remove_req
  <2>4. (s.held /\ q[1] # c) => r # <<>>
    <3> SUFFICES ASSUME q[1] # c PROVE r # <<>>
      OBVIOUS
    <3>1. k # 1
      BY <2>1
    <3>2. QED
      BY <3>1, <2>1, <2>2, <1>0
  <2>5. ~s.on => r = <<>>
    BY <2>1, <1>0 DEF Sound
  <2>6. Listed(r, s.registered)
    BY <2>2 DEF Listed
  <2> HIDE DEF r, k
  <2>7. QED
    BY <1>0, <2>2, <2>3, <2>4, <2>5, <2>6 DEF Sound, Records
<1>2. CASE ~ \E i \in DOMAIN q : q[i] = c
  <2>1. remove_req(s, c) = s
    BY <1>2 DEF remove_req
  <2>2. QED
    BY <1>0, <1>2, <2>1 DEF Sound, Listed
<1>3. QED
  BY <1>1, <1>2

(* delete_client() leaves no request of the struct it frees *)
LEMMA DeleteClientSound ==
    ASSUME NEW s, Sound(s), NEW c \in Conns
    PROVE  /\ Sound(delete_client(s, c))
           /\ delete_client(s, c).on = s.on
<1> DEFINE t == remove_req(s, c)
<1>1. /\ Sound(t)
      /\ Listed(t.requests, t.registered \ {c})
      /\ t.on = s.on
  BY RemoveReqSound
<1>2. delete_client(s, c) = [t EXCEPT !.clients = @ \ {c}, !.registered = @ \ {c}, !.toSched = [@ EXCEPT ![c] = <<>>]]
  BY DEF delete_client
<1> DEFINE u == [t EXCEPT !.clients = @ \ {c}, !.registered = @ \ {c}, !.toSched = [@ EXCEPT ![c] = <<>>]]
<1> HIDE DEF t
<1>3. t \in Records /\ t.toSched \in [Conns -> Seq(Messages)]
  BY <1>1 DEF Sound, Records
<1>4. u \in Records
  <2>1. [t.toSched EXCEPT ![c] = <<>>] \in [Conns -> Seq(Messages)]
    BY <1>3, EmptySeq
  <2>2. QED
    BY <1>3, <2>1 DEF Records
<1>5. /\ u.held = t.held /\ u.requests = t.requests /\ u.on = t.on
      /\ u.clients = t.clients \ {c} /\ u.registered = t.registered \ {c}
  BY <1>3 DEF Records
<1> HIDE DEF u
<1>6. Sound(u) /\ u.on = s.on
  BY <1>1, <1>4, <1>5 DEF Sound
<1>7. QED
  BY <1>2, <1>6 DEF u

(* insert_req() queues a registered client at most once *)
LEMMA InsertReqSound ==
    ASSUME NEW s, Sound(s), s.on, NEW c \in s.registered
    PROVE  Sound(insert_req(s, c))
<1> DEFINE q == s.requests
           r == Append(q, c)
<1>0. q \in Seq(Conns) /\ DOMAIN q = 1..Len(q) /\ Len(q) \in Nat /\ c \in Conns /\ s \in Records
  BY DEF Sound, Records
<1>1. CASE \E i \in DOMAIN q : q[i] = c
  BY <1>1 DEF insert_req
<1>2. CASE ~ \E i \in DOMAIN q : q[i] = c
  <2>1. insert_req(s, c) = [s EXCEPT !.requests = r]
    BY <1>2 DEF insert_req
  <2>2. /\ r \in Seq(Conns)
        /\ Len(r) = Len(q) + 1
        /\ \A i \in 1..Len(q) : r[i] = q[i]
        /\ r[Len(q) + 1] = c
    BY <1>0, AppendProperties
  <2>3. Listed(r, s.registered)
    BY <1>0, <1>2, <2>2 DEF Sound, Listed
  <2> HIDE DEF r
  <2>4. r # <<>>
    BY <1>0, <2>2, EmptyIffNoLength
  <2>5. QED
    BY <1>0, <2>1, <2>2, <2>3, <2>4 DEF Sound, Records
<1>3. QED
  BY <1>1, <1>2

(* Deleting the first n requesters, as try_schedule() does on failed writes,  *)
(* leaves the others queued.                                                 *)
LEMMA DeleteFirstSound ==
    ASSUME NEW s, Sound(s), NEW n \in 0..Len(s.requests)
    PROVE  /\ Sound(DeleteFirst(s, n))
           /\ Len(DeleteFirst(s, n).requests) = Len(s.requests) - n
<1> DEFINE q == s.requests
           gone == {q[i] : i \in 1..n}
           r == SubSeq(q, n + 1, Len(q))
           in == [c \in Conns |-> IF c \in gone THEN <<>> ELSE s.toSched[c]]
           t == DeleteFirst(s, n)
<1>0. q \in Seq(Conns) /\ Len(q) \in Nat /\ s \in Records /\ s.toSched \in [Conns -> Seq(Messages)]
  BY DEF Sound, Records
<1>1. /\ r \in Seq(Conns)
      /\ Len(r) = Len(q) - n
      /\ \A i \in 1..(Len(q) - n) : r[i] = q[n + i]
  BY <1>0, SubSeqProperties
<1>2. in \in [Conns -> Seq(Messages)]
  BY <1>0, EmptySeq
<1>3. t = [s EXCEPT !.held = @ /\ n = 0, !.requests = r, !.clients = @ \ gone,
                    !.registered = @ \ gone, !.toSched = in]
  BY DEF DeleteFirst
<1>4. Listed(r, s.registered \ gone)
  <2>1. ASSUME NEW i \in 1..Len(r) PROVE r[i] \in s.registered \ gone
    <3>1. n + i \in 1..Len(q) /\ r[i] = q[n + i]
      BY <1>0, <1>1
    <3>2. \A j \in 1..n : q[j] # q[n + i]
      BY <3>1, <1>0 DEF Sound, Listed
    <3>3. QED
      BY <3>1, <3>2 DEF Sound, Listed
  <2>2. ASSUME NEW i \in 1..Len(r), NEW j \in 1..Len(r), r[i] = r[j] PROVE i = j
    BY <2>2, <1>0, <1>1 DEF Sound, Listed
  <2>3. QED
    BY <2>1, <2>2 DEF Listed
<1>5. (s.held /\ n = 0) => r # <<>>
  <2>1. s.held => Len(q) # 0
    BY <1>0, EmptyIffNoLength DEF Sound
  <2> HIDE DEF r
  <2>2. QED
    BY <2>1, <1>0, <1>1, EmptyIffNoLength
<1>6. ~s.on => r = <<>>
  <2> SUFFICES ASSUME ~s.on PROVE r = <<>>
    OBVIOUS
  <2>1. q = <<>>
    BY DEF Sound
  <2>2. Len(q) = 0
    BY <2>1, <1>0, EmptyIffNoLength
  <2> HIDE DEF r
  <2>3. QED
    BY <2>2, <1>0, <1>1, EmptyIffNoLength
<1> HIDE DEF r, in, gone
<1>7. t \in Records
  <2> DEFINE h == s.held /\ n = 0
             cl == s.clients \ gone
             rg == s.registered \ gone
  <2>1. h \in BOOLEAN /\ cl \in SUBSET Conns /\ rg \in SUBSET Conns
    BY <1>0 DEF Records
  <2>2. t = [s EXCEPT !.held = h, !.requests = r, !.clients = cl, !.registered = rg, !.toSched = in]
    BY <1>3
  <2> HIDE DEF h, cl, rg, t
  <2>3. r \in Seq(Conns)
    BY <1>1
  <2>4. QED
    BY <1>0, <1>2, <2>1, <2>2, <2>3 DEF Records
<1>8. /\ t.held = (s.held /\ n = 0) /\ t.requests = r /\ t.on = s.on
      /\ t.clients = s.clients \ gone /\ t.registered = s.registered \ gone
  BY <1>0, <1>3 DEF Records
<1>9. QED
  BY <1>1, <1>4, <1>5, <1>6, <1>7, <1>8 DEF Sound

(* Writing a message does not touch the lists *)
LEMMA SentSound ==
    ASSUME NEW s, Sound(s), NEW c \in Conns, NEW m \in Messages
    PROVE  /\ Sound(Sent(s, c, m))
           /\ Sent(s, c, m).requests = s.requests
           /\ Sent(s, c, m).registered = s.registered
           /\ Sent(s, c, m).clients = s.clients
           /\ Sent(s, c, m).on = s.on
<1> DEFINE out == [s.toClient EXCEPT ![c] = Append(s.toClient[c], m)]
<1>1. s \in Records /\ s.toClient \in [Conns -> Seq(Messages)]
  BY DEF Sound, Records
<1> DEFINE l == Append(s.toClient[c], m)
<1>2. l \in Seq(Messages)
  BY <1>1, AppendProperties
<1>3. out = [s.toClient EXCEPT ![c] = l]
  OBVIOUS
<1>4. Sent(s, c, m) = [s EXCEPT !.toClient = out]
  BY DEF Sent
<1> HIDE DEF l
<1>5. out \in [Conns -> Seq(Messages)]
  BY <1>1, <1>2, <1>3
<1> HIDE DEF out
<1>6. QED
  BY <1>1, <1>4, <1>5 DEF Sound, Records

(* Waking the timer does not touch the lists *)
LEMMA BroadcastSound ==
    ASSUME NEW s, Sound(s)
    PROVE  Sound(Broadcast(s)) /\ Sound(Broadcast([s EXCEPT !.reset = TRUE]))
BY DEF Sound, Records, Broadcast

(* A grant to the head of a nonempty list leaves a holder at the head *)
LEMMA GrantSound ==
    ASSUME NEW s, Sound(s), s.requests # <<>>
    PROVE  Sound(Grant(s))
<1> DEFINE c == s.requests[1]
           t == Sent(s, c, "LOCK_OK")
           u == [t EXCEPT !.round = TRUE, !.held = TRUE, !.reset = TRUE]
<1>1. s.requests \in Seq(Conns)
  BY DEF Sound, Records
<1>2. c \in Conns
  BY <1>1, EmptySeq, ElementOfSeq
<1>3. Sound(t) /\ t.requests = s.requests
  BY <1>2, SentSound DEF Messages
<1>4. Sound(u)
  <2> HIDE DEF t
  <2>1. QED
    BY <1>3 DEF Sound, Records
<1>5. Grant(s) = Broadcast(u)
  BY DEF Grant
<1>6. QED
  BY <1>4, <1>5, BroadcastSound

(* Leaving the program does not disturb the lists *)
LEMMA ExitSound ==
    ASSUME NEW s, Sound(s)
    PROVE  Sound([s EXCEPT !.exited = "sigpipe"])
BY DEF Sound, Records

(* try_schedule() ends with an empty list and a free lock, or with a holder   *)
(* at the head of the list.                                                  *)
LEMMA TryScheduleSound ==
    ASSUME NEW s, Sound(s)
    PROVE  Sound(try_schedule(s))
<1> DEFINE q == s.requests
           served == {i \in DOMAIN q : send_result(s, q[i]) # "fail"}
           first == CHOOSE i \in served : \A j \in served : i <= j
           t == DeleteFirst(s, first - 1)
<1>0. q \in Seq(Conns) /\ DOMAIN q = 1..Len(q) /\ Len(q) \in Nat
  BY DEF Sound, Records
<1>1. try_schedule(s) =
        IF served = {} THEN DeleteFirst(s, Len(q))
        ELSE IF send_result(s, q[first]) = "die" THEN [t EXCEPT !.exited = "sigpipe"]
        ELSE Grant(t)
  BY DEF try_schedule
<1>2. CASE served = {}
  BY <1>0, <1>1, <1>2, DeleteFirstSound
<1>3. CASE served # {}
  <2>1. served \in SUBSET Nat
    BY <1>0
  <2>2. \E i \in served : \A j \in served : i <= j
    BY <1>3, <2>1, LeastMember
  <2>3. first \in served
    BY <2>2
  <2>4. first \in 1..Len(q)
    BY <2>3, <1>0
  <2>5. first - 1 \in 0..Len(q) /\ Len(q) - (first - 1) # 0
    BY <2>4, <1>0
  <2> HIDE DEF first, served
  <2>6. Sound(t) /\ Len(t.requests) # 0
    BY <2>5, DeleteFirstSound
  <2>7. t.requests \in Seq(Conns)
    BY <2>6 DEF Sound, Records
  <2>8. t.requests # <<>>
    BY <2>6, <2>7, EmptyIffNoLength
  <2> HIDE DEF t
  <2>9. QED
    BY <1>1, <1>3, <2>6, <2>8, GrantSound, ExitSound
<1>4. QED
  BY <1>2, <1>3

(* So do its callers *)
LEMMA RescheduleSound ==
    ASSUME NEW s, Sound(s)
    PROVE  Sound(Reschedule(s)) /\ Sound(after_hangup(s))
BY TryScheduleSound DEF Reschedule, after_hangup

(* bcast_status() keeps an empty list sound (SCHED_ON), and so does the       *)
(* clearing of the list that follows it (SCHED_OFF).                         *)
LEMMA BcastStatusSound ==
    ASSUME NEW s \in Records, s.registered \subseteq s.clients
    PROVE  /\ Sound([bcast_status(s) EXCEPT !.requests = <<>>, !.held = FALSE])
           /\ s.requests = <<>> => Sound(bcast_status(s))
<1> DEFINE Result(c) == send_result(s, c)
           status == IF s.on THEN "SCHED_ON" ELSE "SCHED_OFF"
           gone == {c \in Audience(s) : Result(c) = "fail"}
           Stays(c) == c \notin gone
           ex == IF \E c \in Audience(s) : Result(c) = "die" THEN "sigpipe" ELSE s.exited
           cl == s.clients \ gone
           rg == s.registered \ gone
           rq == IF s.requests = <<>> THEN s.requests ELSE SelectSeq(s.requests, Stays)
           hd == s.held /\ s.requests # <<>> /\ s.requests[1] \notin gone
           in == [c \in Conns |-> IF c \in gone THEN <<>> ELSE s.toSched[c]]
           out == [c \in Conns |-> IF c \in Audience(s) /\ Result(c) = "ok"
                                   THEN Append(s.toClient[c], status) ELSE s.toClient[c]]
           t == [s EXCEPT !.exited = ex, !.clients = cl, !.registered = rg, !.requests = rq,
                          !.held = hd, !.toSched = in, !.toClient = out]
           u == [t EXCEPT !.requests = <<>>, !.held = FALSE]
<1>1. bcast_status(s) = t
  BY DEF bcast_status
<1>2. /\ s.toSched \in [Conns -> Seq(Messages)] /\ s.toClient \in [Conns -> Seq(Messages)]
      /\ s.clients \in SUBSET Conns /\ s.registered \in SUBSET Conns
      /\ s.exited \in {"no", "sigpipe", "fatal"} /\ s.held \in BOOLEAN
  BY DEF Records
<1>3. in \in [Conns -> Seq(Messages)]
  BY <1>2, EmptySeq
<1>4. out \in [Conns -> Seq(Messages)]
  <2>1. status \in Messages
    BY DEF Messages
  <2> HIDE DEF status
  <2>2. \A c \in Conns : Append(s.toClient[c], status) \in Seq(Messages)
    BY <2>1, <1>2, AppendProperties
  <2>3. QED
    BY <2>2, <1>2
<1>5. /\ ex \in {"no", "sigpipe", "fatal"} /\ cl \in SUBSET Conns /\ rg \in SUBSET Conns
      /\ rg \subseteq cl
  BY <1>2
<1>6. s.requests = <<>> => rq = <<>> /\ hd = FALSE
  OBVIOUS
<1> HIDE DEF in, out, ex, cl, rg, rq, hd
<1>7. \A g \in SUBSET Conns : Listed(<<>>, g)
  BY DEF Listed
<1>8. <<>> \in Seq(Conns)
  BY EmptySeq
<1>9. /\ u.held = FALSE /\ u.requests = <<>> /\ u.clients = cl /\ u.registered = rg
  BY DEF Records
<1>10. u \in Records
  BY <1>3, <1>4, <1>5, <1>8 DEF Records
<1>11. Sound(u)
  <2> HIDE DEF u
  <2>1. QED
    BY <1>5, <1>7, <1>9, <1>10 DEF Sound
<1>12. ASSUME s.requests = <<>> PROVE Sound(t)
  <2>1. rq = <<>> /\ hd = FALSE
    BY <1>6, <1>12
  <2>2. /\ t.held = FALSE /\ t.requests = <<>> /\ t.clients = cl /\ t.registered = rg
    BY <2>1 DEF Records
  <2>3. t \in Records
    BY <1>3, <1>4, <1>5, <1>8, <2>1 DEF Records
  <2> HIDE DEF t
  <2>4. QED
    BY <1>5, <1>7, <2>2, <2>3 DEF Sound
<1>13. QED
  BY <1>1, <1>11, <1>12

(* register_client() admits a connection of the clients list once *)
LEMMA RegisterClientSound ==
    ASSUME NEW s, Sound(s), NEW c \in s.clients
    PROVE  Sound(register_client(s, c))
<1>1. c \in Conns
  BY DEF Sound, Records
<1> DEFINE m == IF s.on THEN "SCHED_ON" ELSE "SCHED_OFF"
           t == Sent(s, c, m)
           u == [t EXCEPT !.registered = @ \cup {c}]
<1>2. m \in Messages
  BY DEF Messages
<1> HIDE DEF m
<1>3. /\ Sound(t) /\ t.clients = s.clients /\ t.registered = s.registered
  BY <1>1, <1>2, SentSound
<1>4. Sound(u)
  <2> HIDE DEF t
  <2>1. t \in Records /\ t.registered \cup {c} \in SUBSET Conns
    BY <1>1, <1>3 DEF Sound, Records
  <2>2. u \in Records
    BY <2>1 DEF Records
  <2>3. /\ u.registered = t.registered \cup {c} /\ u.clients = t.clients /\ u.on = t.on
        /\ u.held = t.held /\ u.requests = t.requests
    BY <2>1 DEF Records
  <2> HIDE DEF u
  <2>4. QED
    BY <1>3, <2>2, <2>3 DEF Sound, Listed
<1>5. \/ register_client(s, c) = delete_client(s, c)
      \/ register_client(s, c) = [s EXCEPT !.exited = "sigpipe"]
      \/ register_client(s, c) = u
  BY DEF register_client, m
<1>6. QED
  BY <1>1, <1>4, <1>5, DeleteClientSound, ExitSound

(* The list stays sound whatever message a connected peer sends *)
LEMMA ProcessMsgSound ==
    ASSUME NEW s, Sound(s), NEW c \in s.clients, NEW m \in Messages
    PROVE  Sound(process_msg(s, c, m))
<1>0. c \in Conns /\ s \in Records
  BY DEF Sound, Records
<1>1. CASE m = "REGISTER"
  BY <1>1, RegisterClientSound DEF process_msg
<1>2. CASE m = "SCHED_ON"
  <2>1. CASE s.on
    BY <1>2, <2>1 DEF process_msg
  <2>2. CASE ~s.on
    <3> DEFINE t == [s EXCEPT !.on = TRUE]
    <3>1. process_msg(s, c, m) = bcast_status(t)
      BY <1>2, <2>2 DEF process_msg
    <3>2. t \in Records /\ t.registered \subseteq t.clients /\ t.requests = <<>>
      BY <2>2 DEF Sound, Records
    <3> HIDE DEF t
    <3>3. QED
      BY <3>1, <3>2, BcastStatusSound
  <2>3. QED
    BY <2>1, <2>2
<1>3. CASE m = "SCHED_OFF"
  <2>1. CASE ~s.on
    BY <1>3, <2>1 DEF process_msg
  <2>2. CASE s.on
    <3> DEFINE t == [s EXCEPT !.on = FALSE]
    <3>1. process_msg(s, c, m) = [bcast_status(t) EXCEPT !.requests = <<>>, !.held = FALSE]
      BY <1>3, <2>2 DEF process_msg
    <3>2. t \in Records /\ t.registered \subseteq t.clients
      BY DEF Sound, Records
    <3> HIDE DEF t
    <3>3. QED
      BY <3>1, <3>2, BcastStatusSound
  <2>3. QED
    BY <2>1, <2>2
<1>4. CASE m = "SET_TQ"
  BY <1>4, BroadcastSound DEF process_msg
<1>5. CASE m = "REQ_LOCK"
  <2>1. CASE c \notin s.registered
    BY <1>0, <1>5, <2>1, DeleteClientSound DEF process_msg
  <2>2. CASE c \in s.registered /\ s.on
    <3>1. Sound(insert_req(s, c))
      BY <2>2, InsertReqSound
    <3>2. process_msg(s, c, m) = Reschedule(insert_req(s, c))
      BY <1>5, <2>2 DEF process_msg
    <3>3. QED
      BY <3>1, <3>2, RescheduleSound
  <2>3. CASE c \in s.registered /\ ~s.on
    BY <1>5, <2>3 DEF process_msg
  <2>4. QED
    BY <2>1, <2>2, <2>3
<1>6. CASE m = "LOCK_RELEASED"
  <2>1. CASE c \notin s.registered
    BY <1>0, <1>6, <2>1, DeleteClientSound DEF process_msg
  <2>2. CASE c \in s.registered /\ s.on
    <3>1. Sound(remove_req(s, c))
      BY <1>0, RemoveReqSound
    <3>2. process_msg(s, c, m) = Reschedule(remove_req(s, c))
      BY <1>6, <2>2 DEF process_msg
    <3>3. QED
      BY <3>1, <3>2, RescheduleSound
  <2>3. CASE c \in s.registered /\ ~s.on
    BY <1>6, <2>3 DEF process_msg
  <2>4. QED
    BY <2>1, <2>2, <2>3
<1>7. CASE m \in {"LOCK_OK", "DROP_LOCK", "OTHER"}
  BY <1>7 DEF process_msg
<1>8. QED
  BY <1>1, <1>2, <1>3, <1>4, <1>5, <1>6, <1>7 DEF Messages

(* The head of timer_thr_fn()'s loop does not touch the lists *)
LEMMA ArmSound ==
    ASSUME NEW s, Sound(s)
    PROVE  Sound(Arm(s))
BY DEF Sound, Records, Arm

(* A step that becomes a sound record ends in a sound state *)
LEMMA BecomeSound ==
    ASSUME NEW s, Sound(s), Become(s)
    PROVE  Sound(State')
BY DEF Sound, Records, State, Become

-----------------------------------------------------------------------------
(* The inductive invariant of the scheduler *)

(* The variables outside the state record are well typed, and the batch of   *)
(* events does not run out while main() still walks through it.              *)
RestOK ==
    /\ peer \in [Conns -> BOOLEAN]
    /\ backlog \in SUBSET Conns
    /\ drop_lock_sent \in BOOLEAN
    /\ events \in Seq(Conns \cup {Lsock})
    /\ main \in {"epoll", "woken", "locked"}
    /\ main # "epoll" => events # <<>>

IInv == Sound(State) /\ RestOK

(* The scheduler starts with empty lists *)
LEMMA InitIInv == CommInit /\ SchedInit => IInv
<1> SUFFICES ASSUME CommInit, SchedInit PROVE IInv
  OBVIOUS
<1>1. /\ <<>> \in Seq(Conns) /\ <<>> \in Seq(Messages) /\ <<>> \in Seq(Conns \cup {Lsock})
  BY EmptySeq
<1>2. [c \in Conns |-> <<>>] \in [Conns -> Seq(Messages)]
  BY <1>1
<1> DEFINE none == [c \in Conns |-> <<>>]
           q == <<>>
<1>3. State = [on |-> TRUE, held |-> FALSE, reset |-> FALSE, clients |-> {}, registered |-> {},
               requests |-> q, toSched |-> none, toClient |-> none, round |-> FALSE,
               timer |-> "starting", exited |-> "no"]
  BY DEF CommInit, SchedInit, State
<1>4. Listed(q, {})
  BY DEF Listed
<1>5. none \in [Conns -> Seq(Messages)] /\ q \in Seq(Conns)
  BY <1>1, <1>2
<1> HIDE DEF none, q
<1>6. State \in Records
  BY <1>3, <1>5 DEF Records
<1>7. Sound(State)
  BY <1>3, <1>4, <1>6 DEF Sound
<1>8. RestOK
  BY <1>1 DEF CommInit, SchedInit, RestOK
<1>9. QED
  BY <1>7, <1>8 DEF IInv

(* Taking an event off the batch *)
LEMMA NextEventRest ==
    ASSUME RestOK, NEW e, NextEvent(e), peer' = peer, backlog' \in SUBSET Conns
    PROVE  RestOK'
<1>1. events # <<>>
  BY DEF RestOK, NextEvent
<1>2. Tail(events) \in Seq(Conns \cup {Lsock})
  BY <1>1, HeadTailProperties DEF RestOK
<1>3. QED
  BY <1>2 DEF RestOK, NextEvent

(* epoll_wait() returns at least one event, of the sources it watches *)
LEMMA EpollWaitIInv ==
    ASSUME IInv, EpollWait
    PROVE  IInv'
<1>1. State' = State
  BY DEF EpollWait, State, commVars
<1>2. Ready \subseteq Conns \cup {Lsock}
  BY DEF Ready, IInv, Sound, Records, State
<1>3. PICK n \in 1..MaxEvents : \E e \in Injection(1..n, Ready) : events' = e
  BY DEF EpollWait
<1>4. n \in Nat /\ n >= 1
  BY MaxEventsAssumption
<1>5. events' \in [1..n -> Conns \cup {Lsock}]
  BY <1>2, <1>3 DEF Injection
<1>6. events' \in Seq(Conns \cup {Lsock}) /\ Len(events') = n
  BY <1>4, <1>5
<1>7. events' # <<>>
  BY <1>4, <1>6
<1>8. RestOK'
  BY <1>6, <1>7 DEF EpollWait, IInv, RestOK, commVars
<1>9. QED
  BY <1>1, <1>8 DEF IInv

(* The events of the main thread: a connection, a message, a hangup, or a     *)
(* struct that is gone.                                                      *)
LEMMA MainIInv ==
    ASSUME IInv, MainNext
    PROVE  IInv'
<1> USE DEF IInv
<1>0. State \in Records /\ clients \in SUBSET Conns /\ toSched \in [Conns -> Seq(Messages)]
  BY DEF Sound, Records, State
<1>1. CASE EpollWait
  BY <1>1, EpollWaitIInv
<1>2. ASSUME NEW c \in Conns, Accept(c) PROVE IInv'
  <2>1. RestOK'
    BY <1>2, NextEventRest DEF Accept, RestOK
  <2> DEFINE cl == clients \cup {c}
             t == [State EXCEPT !.clients = cl]
  <2>2. cl \in SUBSET Conns /\ registered \subseteq clients
    BY <1>0 DEF Sound, State
  <2>3. Sound(t)
    BY <1>0, <2>2 DEF Sound, Records, State
  <2>4. Become(t)
    BY <1>2 DEF Accept, Become, State
  <2> HIDE DEF t
  <2>5. QED
    BY <2>1, <2>3, <2>4, BecomeSound
<1>3. ASSUME NEW c \in Conns, AcceptFails(c) PROVE IInv'
  <2>1. RestOK'
    BY <1>3, NextEventRest DEF AcceptFails, RestOK
  <2> DEFINE in == [toSched EXCEPT ![c] = <<>>]
             t == [State EXCEPT !.toSched = in]
  <2>2. in \in [Conns -> Seq(Messages)]
    BY <1>0, EmptySeq
  <2>3. Become(t)
    BY <1>3 DEF AcceptFails, Become, State
  <2> HIDE DEF in
  <2>4. Sound(t)
    BY <1>0, <2>2 DEF Sound, Records, State
  <2> HIDE DEF t
  <2>5. QED
    BY <2>1, <2>3, <2>4, BecomeSound
<1>4. ASSUME NEW c \in Conns, ReceiveMsg(c) PROVE IInv'
  <2>1. RestOK'
    BY <1>4, NextEventRest DEF ReceiveMsg, RestOK
  <2> DEFINE in == [toSched EXCEPT ![c] = Tail(toSched[c])]
             t == [State EXCEPT !.toSched = in]
             m == Head(toSched[c])
  <2>2. toSched[c] \in Seq(Messages) /\ toSched[c] # <<>>
    BY <1>0, <1>4 DEF ReceiveMsg
  <2>3. m \in Messages /\ Tail(toSched[c]) \in Seq(Messages)
    BY <2>2, HeadTailProperties
  <2>4. in \in [Conns -> Seq(Messages)]
    BY <1>0, <2>3
  <2>5. Become(process_msg(t, c, m))
    BY <1>4 DEF ReceiveMsg, State
  <2> HIDE DEF in, m
  <2>6. Sound(t) /\ c \in t.clients
    BY <1>0, <1>4, <2>4 DEF Sound, Records, State, ReceiveMsg
  <2> HIDE DEF t
  <2>7. Sound(process_msg(t, c, m))
    BY <2>3, <2>6, ProcessMsgSound
  <2>8. QED
    BY <2>1, <2>5, <2>7, BecomeSound
<1>5. ASSUME NEW c \in Conns, Hangup(c) PROVE IInv'
  <2>1. RestOK'
    BY <1>5, NextEventRest DEF Hangup, RestOK
  <2>2. Sound(delete_client(State, c))
    BY DeleteClientSound
  <2>3. Sound(after_hangup(delete_client(State, c)))
    BY <2>2, RescheduleSound
  <2>4. QED
    BY <1>5, <2>1, <2>3, BecomeSound DEF Hangup
<1>6. ASSUME NEW c \in Conns, StaleEvent(c) PROVE IInv'
  <2>1. RestOK'
    BY <1>6, NextEventRest DEF StaleEvent, RestOK
  <2> DEFINE t == [State EXCEPT !.exited = "fatal"]
  <2>2. Sound(t)
    BY <1>0 DEF Sound, Records, State
  <2>3. Become(t)
    BY <1>6 DEF StaleEvent, Become, State
  <2> HIDE DEF t
  <2>4. QED
    BY <2>1, <2>2, <2>3, BecomeSound
<1>7. QED
  BY <1>1, <1>2, <1>3, <1>4, <1>5, <1>6 DEF MainNext

(* One iteration of timer_thr_fn() *)
LEMMA TimerIInv ==
    ASSUME IInv, TimerNext
    PROVE  IInv'
<1> USE DEF IInv
<1>0. State \in Records /\ Sound(Arm(State))
  BY ArmSound DEF Sound
<1>1. ASSUME NEW from, TimerStep(from), drop_lock_sent' \in BOOLEAN PROVE RestOK'
  BY <1>1 DEF TimerStep, RestOK
<1>2. ASSUME NEW to \in {"waiting", "signaled", "timedout"} PROVE Sound([State EXCEPT !.timer = to])
  BY <1>0 DEF Sound, Records
<1>3. CASE TimerStart
  BY <1>0, <1>1, <1>3, BecomeSound DEF TimerStart, RestOK
<1>4. CASE TimerDeadline
  BY <1>1, <1>2, <1>4, BecomeSound DEF TimerDeadline, RestOK
<1>5. CASE TimerSpurious
  BY <1>1, <1>2, <1>5, BecomeSound DEF TimerSpurious, RestOK
<1>6. CASE TimerSignaled
  <2>1. RestOK'
    BY <1>1, <1>6 DEF TimerSignaled, RestOK
  <2>2. Become(Arm(State)) \/ Become([State EXCEPT !.timer = "waiting"])
    BY <1>6 DEF TimerSignaled
  <2>3. QED
    BY <1>0, <1>2, <2>1, <2>2, BecomeSound
<1>7. CASE TimerIdle
  BY <1>0, <1>1, <1>7, BecomeSound DEF TimerIdle, RestOK
<1>8. CASE TimerOldRound
  BY <1>0, <1>1, <1>8, BecomeSound DEF TimerOldRound, RestOK
<1>9. CASE TimerDrop
  <2> DEFINE holder == requests[1]
  <2>1. RestOK'
    BY <1>1, <1>9 DEF TimerDrop, RestOK
  <2>2. requests \in Seq(Conns) /\ requests # <<>>
    BY <1>0, <1>9 DEF TimerDrop, TimerNothingToDo, Sound, Records, State
  <2>3. holder \in Conns
    BY <2>2, EmptySeq, ElementOfSeq
  <2>4. \/ Become(Arm(Sent(State, holder, "DROP_LOCK")))
        \/ Become(Arm(try_schedule(delete_client(State, holder))))
        \/ Become([State EXCEPT !.exited = "sigpipe"])
    BY <1>9 DEF TimerDrop
  <2> HIDE DEF holder
  <2>5. Sound(Arm(Sent(State, holder, "DROP_LOCK")))
    BY <2>3, SentSound, ArmSound DEF Messages
  <2>6. Sound(Arm(try_schedule(delete_client(State, holder))))
    BY <2>3, DeleteClientSound, TryScheduleSound, ArmSound
  <2>7. Sound([State EXCEPT !.exited = "sigpipe"])
    BY ExitSound
  <2>8. QED
    BY <2>1, <2>4, <2>5, <2>6, <2>7, BecomeSound
<1>10. QED
  BY <1>3, <1>4, <1>5, <1>6, <1>7, <1>8, <1>9 DEF TimerNext

-----------------------------------------------------------------------------
(* The order of the list *)

In(q, a) == \E i \in 1..Len(q) : q[i] = a

Before(q, a, b) == \E i, j \in 1..Len(q) : i < j /\ q[i] = a /\ q[j] = b

Leaves(q, r, g) ==
    /\ \A a \in Conns : In(r, a) <=> In(q, a) /\ a \notin g
    /\ \A a, b \in Conns : Before(r, a, b) <=> Before(q, a, b) /\ a \notin g /\ b \notin g

(* The members of g leave, and c joins *)
Joins(q, r, g, c) ==
    /\ ~In(q, c)
    /\ \A a \in Conns : In(r, a) <=> (In(q, a) /\ a \notin g) \/ a = c
    /\ \A a, b \in Conns :
          Before(r, a, b) <=> \/ Before(q, a, b) /\ a \notin g /\ b \notin g
                              \/ In(q, a) /\ a \notin g /\ b = c

Changes(q, r, g) == Leaves(q, r, g) \/ \E c \in Conns : Joins(q, r, g, c)

-----------------------------------------------------------------------------
(* Lists *)

(* A list r whose entries are those of q at increasing positions f, where q  *)
(* has members of g at every other position, is q without g.                 *)
LEMMA Embedded ==
    ASSUME NEW q \in Seq(Conns), NEW r \in Seq(Conns), NEW g,
           NEW f \in [1..Len(r) -> 1..Len(q)],
           \A j \in 1..Len(r) : r[j] = q[f[j]] /\ q[f[j]] \notin g,
           \A j, k \in 1..Len(r) : j < k <=> f[j] < f[k],
           \A i \in 1..Len(q) : q[i] \in g \/ \E j \in 1..Len(r) : f[j] = i
    PROVE  Leaves(q, r, g)
<1>1. ASSUME NEW a \in Conns, In(r, a) PROVE In(q, a) /\ a \notin g
  BY <1>1 DEF In
<1>2. ASSUME NEW a \in Conns, In(q, a), a \notin g PROVE In(r, a)
  BY <1>2 DEF In
<1>3. ASSUME NEW a \in Conns, NEW b \in Conns, Before(r, a, b)
      PROVE  Before(q, a, b) /\ a \notin g /\ b \notin g
  <2>1. PICK j \in 1..Len(r), k \in 1..Len(r) : j < k /\ r[j] = a /\ r[k] = b
    BY <1>3 DEF Before
  <2>2. f[j] \in 1..Len(q) /\ f[k] \in 1..Len(q) /\ f[j] < f[k]
    BY <2>1
  <2>3. q[f[j]] = a /\ q[f[k]] = b /\ a \notin g /\ b \notin g
    BY <2>1
  <2>4. QED
    BY <2>2, <2>3 DEF Before
<1>4. ASSUME NEW a \in Conns, NEW b \in Conns, Before(q, a, b), a \notin g, b \notin g
      PROVE  Before(r, a, b)
  <2>1. PICK i \in 1..Len(q), l \in 1..Len(q) : i < l /\ q[i] = a /\ q[l] = b
    BY <1>4 DEF Before
  <2>2. PICK j \in 1..Len(r) : f[j] = i
    BY <1>4, <2>1
  <2>3. PICK k \in 1..Len(r) : f[k] = l
    BY <1>4, <2>1
  <2>4. j < k /\ r[j] = a /\ r[k] = b
    BY <2>1, <2>2, <2>3
  <2>5. QED
    BY <2>4 DEF Before
<1>5. QED
  BY <1>1, <1>2, <1>3, <1>4 DEF Leaves

(* Taking out the entry of one client *)
LEMMA RemoveAtLeaves ==
    ASSUME NEW q \in Seq(Conns), Listed(q, Conns), NEW i \in 1..Len(q)
    PROVE  Leaves(q, RemoveAt(q, i), {q[i]})
<1> DEFINE r == RemoveAt(q, i)
           f == [j \in 1..Len(r) |-> IF j < i THEN j ELSE j + 1]
           g == {q[i]}
<1>1. /\ r \in Seq(Conns)
      /\ Len(r) = Len(q) - 1
      /\ \A j \in 1..(Len(q) - 1) : r[j] = IF j < i THEN q[j] ELSE q[j + 1]
      /\ Len(q) \in Nat
  BY RemoveAtEntries, LenProperties
<1> HIDE DEF r
<1>2. f \in [1..Len(r) -> 1..Len(q)]
  BY <1>1
<1>3. \A j, k \in 1..Len(r) : j < k <=> f[j] < f[k]
  BY <1>1
<1>4. \A j \in 1..Len(r) : f[j] # i /\ r[j] = q[f[j]]
  BY <1>1
<1>5. \A j \in 1..Len(r) : q[f[j]] \notin g
  <2> TAKE j \in 1..Len(r)
  <2>1. f[j] \in 1..Len(q) /\ f[j] # i
    BY <1>2, <1>4
  <2> HIDE DEF f
  <2>2. QED
    BY <2>1 DEF Listed
<1>6. ASSUME NEW k \in 1..Len(q) PROVE q[k] \in g \/ \E j \in 1..Len(r) : f[j] = k
  <2>1. CASE k < i
    <3>1. k \in 1..Len(r) /\ f[k] = k
      BY <1>1, <2>1
    <3>2. QED
      BY <3>1
  <2>2. CASE k > i
    <3>1. k - 1 \in 1..Len(r) /\ f[k - 1] = k
      BY <1>1, <2>2
    <3>2. QED
      BY <3>1
  <2>3. CASE k = i
    BY <2>3
  <2>4. QED
    BY <2>1, <2>2, <2>3, <1>1
<1> HIDE DEF f, g
<1>7. Leaves(q, r, g)
  <2>1. \A j \in 1..Len(r) : r[j] = q[f[j]] /\ q[f[j]] \notin g
    BY <1>4, <1>5
  <2>2. \A k \in 1..Len(q) : q[k] \in g \/ \E j \in 1..Len(r) : f[j] = k
    BY <1>6
  <2>3. r \in Seq(Conns)
    BY <1>1
  <2>4. QED
    BY <1>2, <1>3, <2>1, <2>2, <2>3, Embedded
<1>8. QED
  BY <1>7 DEF r, g

(* Taking out the first n clients *)
LEMMA SubSeqLeaves ==
    ASSUME NEW q \in Seq(Conns), Listed(q, Conns), NEW n \in 0..Len(q)
    PROVE  Leaves(q, SubSeq(q, n + 1, Len(q)), {q[i] : i \in 1..n})
<1> DEFINE r == SubSeq(q, n + 1, Len(q))
           f == [j \in 1..Len(r) |-> n + j]
           g == {q[i] : i \in 1..n}
<1>1. /\ r \in Seq(Conns)
      /\ Len(r) = Len(q) - n
      /\ \A j \in 1..(Len(q) - n) : r[j] = q[n + j]
      /\ Len(q) \in Nat
  BY SubSeqProperties, LenProperties
<1> HIDE DEF r
<1>2. f \in [1..Len(r) -> 1..Len(q)]
  BY <1>1
<1>3. \A j, k \in 1..Len(r) : j < k <=> f[j] < f[k]
  BY <1>1
<1>4. \A j \in 1..Len(r) : f[j] > n /\ r[j] = q[f[j]]
  BY <1>1
<1>5. \A j \in 1..Len(r) : q[f[j]] \notin g
  <2> SUFFICES ASSUME NEW j \in 1..Len(r), NEW i \in 1..n PROVE q[f[j]] # q[i]
    OBVIOUS
  <2>1. f[j] \in 1..Len(q) /\ f[j] # i /\ i \in 1..Len(q)
    BY <1>1, <1>2, <1>4
  <2> HIDE DEF f
  <2>2. QED
    BY <2>1 DEF Listed
<1>6. ASSUME NEW k \in 1..Len(q) PROVE q[k] \in g \/ \E j \in 1..Len(r) : f[j] = k
  <2>1. CASE k <= n
    <3>1. k \in 1..n
      BY <2>1
    <3>2. QED
      BY <3>1
  <2>2. CASE k > n
    <3>1. k - n \in 1..Len(r) /\ f[k - n] = k
      BY <1>1, <2>2
    <3>2. QED
      BY <3>1
  <2>3. QED
    BY <2>1, <2>2, <1>1
<1> HIDE DEF f, g
<1>7. Leaves(q, r, g)
  <2>1. \A j \in 1..Len(r) : r[j] = q[f[j]] /\ q[f[j]] \notin g
    BY <1>4, <1>5
  <2>2. \A k \in 1..Len(q) : q[k] \in g \/ \E j \in 1..Len(r) : f[j] = k
    BY <1>6
  <2>3. r \in Seq(Conns)
    BY <1>1
  <2>4. QED
    BY <1>2, <1>3, <2>1, <2>2, <2>3, Embedded
<1>8. QED
  BY <1>7 DEF r, g

(* LL_APPEND *)
LEMMA AppendJoins ==
    ASSUME NEW q \in Seq(Conns), NEW c \in Conns, ~In(q, c)
    PROVE  Joins(q, Append(q, c), {}, c)
<1> DEFINE r == Append(q, c)
           n == Len(q)
<1>1. /\ r \in Seq(Conns) /\ Len(r) = n + 1 /\ n \in Nat
      /\ \A i \in 1..n : r[i] = q[i]
      /\ r[n + 1] = c
  BY AppendProperties, LenProperties
<1> HIDE DEF r
<1>2. ASSUME NEW a \in Conns PROVE In(r, a) <=> In(q, a) \/ a = c
  <2>1. ASSUME NEW i \in 1..Len(r) PROVE i \in 1..n \/ i = n + 1
    BY <1>1
  <2>2. 1..n \subseteq 1..Len(r) /\ n + 1 \in 1..Len(r)
    BY <1>1
  <2>3. QED
    BY <1>1, <2>1, <2>2 DEF In
<1>3. ASSUME NEW a \in Conns, NEW b \in Conns
      PROVE  Before(r, a, b) <=> Before(q, a, b) \/ (In(q, a) /\ b = c)
  <2>1. ASSUME NEW i \in 1..Len(r), NEW j \in 1..Len(r), i < j, r[i] = a, r[j] = b
        PROVE  Before(q, a, b) \/ (In(q, a) /\ b = c)
    <3>1. i \in 1..n
      BY <1>1, <2>1
    <3>2. j \in 1..n \/ j = n + 1
      BY <1>1, <2>1
    <3>3. QED
      BY <1>1, <2>1, <3>1, <3>2 DEF In, Before
  <2>2. ASSUME NEW i \in 1..n, NEW j \in 1..n, i < j, q[i] = a, q[j] = b PROVE Before(r, a, b)
    <3>1. i \in 1..Len(r) /\ j \in 1..Len(r) /\ r[i] = a /\ r[j] = b
      BY <1>1, <2>2
    <3>2. QED
      BY <2>2, <3>1 DEF Before
  <2>3. ASSUME NEW i \in 1..n, q[i] = a, b = c PROVE Before(r, a, b)
    <3>1. i \in 1..Len(r) /\ n + 1 \in 1..Len(r) /\ i < n + 1 /\ r[i] = a /\ r[n + 1] = b
      BY <1>1, <2>3
    <3>2. QED
      BY <3>1 DEF Before
  <2>4. QED
    BY <2>1, <2>2, <2>3 DEF In, Before
<1>4. QED
  BY <1>2, <1>3 DEF Joins, r

(* Leaving twice is leaving; a client that joins and leaves again has not    *)
(* joined.                                                                   *)
LEMMA ChangesThenLeaves ==
    ASSUME NEW q, NEW r, NEW u, NEW g, NEW h, Changes(q, r, g), Leaves(r, u, h)
    PROVE  Changes(q, u, g \cup h)
<1>1. CASE Leaves(q, r, g)
  <2>1. Leaves(q, u, g \cup h)
    BY <1>1 DEF Leaves
  <2>2. QED
    BY <2>1 DEF Changes
<1>2. ASSUME NEW c \in Conns, Joins(q, r, g, c), c \notin h PROVE Changes(q, u, g \cup h)
  <2>1. Joins(q, u, g \cup h, c)
    BY <1>2 DEF Leaves, Joins
  <2>2. QED
    BY <2>1 DEF Changes
<1>3. ASSUME NEW c \in Conns, Joins(q, r, g, c), c \in h PROVE Changes(q, u, g \cup h)
  <2>1. Leaves(q, u, g \cup h)
    BY <1>3 DEF Leaves, Joins, In, Before
  <2>2. QED
    BY <2>1 DEF Changes
<1>4. QED
  BY <1>1, <1>2, <1>3 DEF Changes

-----------------------------------------------------------------------------
(* The functions of scheduler.c *)

(* From s to t the list changes, the lock stays with a holder that does not  *)
(* leave, and nothing is written.                                            *)
Edit(s, t, g) ==
    /\ Changes(s.requests, t.requests, g)
    /\ t.held = (s.held /\ s.requests[1] \notin g)
    /\ t.held => t.requests[1] = s.requests[1]
    /\ t.toClient = s.toClient

(* From s to t the connections of g are closed, and the others kept *)
Keeps(s, t, g) ==
    /\ g \subseteq s.clients
    /\ t.on = s.on
    /\ t.clients = s.clients \ g
    /\ t.registered = s.registered \ g
    /\ \A d \in Conns : t.toSched[d] = IF d \in g THEN <<>> ELSE s.toSched[d]

(* From s to t clients leave, and nothing is written but one LOCK_OK to the  *)
(* head of the list, whose lock it then is.                                  *)
Serves(s, t, g) ==
    /\ Leaves(s.requests, t.requests, g)
    /\ Keeps(s, t, g)
    /\ t.exited = "no" /\ t.requests # <<>> => t.held
    /\ \/ t.toClient = s.toClient
       \/ \E c \in Conns : /\ t.held /\ t.requests[1] = c
                           /\ t.toClient = [s.toClient EXCEPT ![c] = Append(s.toClient[c], "LOCK_OK")]

(* What every step of the scheduler amounts to.  In the first case the       *)
(* holder keeps the lock; in the second, whoever held it has left.           *)
LockStep(s, t) ==
    \E g \in SUBSET Conns :
        /\ Changes(s.requests, t.requests, g)
        /\ \/ s.held /\ t.held /\ s.requests[1] \notin g /\ t.requests[1] = s.requests[1]
           \/ s.held => s.requests[1] \in g
        /\ \A c \in Conns :
              t.toClient[c] = Append(s.toClient[c], "LOCK_OK") =>
                  /\ t.held /\ t.requests[1] = c
                  /\ s.held => s.requests[1] \in g

(* A list of a sound record, and the position of its first entry *)
LEMMA SoundList ==
    ASSUME NEW s, Sound(s)
    PROVE  /\ s \in Records
           /\ s.requests \in Seq(Conns) /\ Len(s.requests) \in Nat
           /\ DOMAIN s.requests = 1..Len(s.requests)
           /\ Listed(s.requests, Conns)
           /\ s.held => 1 \in 1..Len(s.requests) /\ In(s.requests, s.requests[1])
           /\ s.toClient \in [Conns -> Seq(Messages)]
           /\ s.held \in BOOLEAN
<1>1. /\ s \in Records /\ s.requests \in Seq(Conns) /\ s.registered \in SUBSET Conns
      /\ s.toClient \in [Conns -> Seq(Messages)] /\ s.held \in BOOLEAN
  BY DEF Sound, Records
<1>2. Len(s.requests) \in Nat /\ DOMAIN s.requests = 1..Len(s.requests)
  BY <1>1, LenProperties
<1>3. Listed(s.requests, Conns)
  BY <1>1 DEF Sound, Listed
<1>4. ASSUME s.held PROVE 1 \in 1..Len(s.requests) /\ In(s.requests, s.requests[1])
  <2>1. Len(s.requests) # 0
    BY <1>1, <1>4, EmptyIffNoLength DEF Sound
  <2>2. 1 \in 1..Len(s.requests)
    BY <1>2, <2>1
  <2>3. QED
    BY <2>2 DEF In
<1>5. QED
  BY <1>1, <1>2, <1>3, <1>4

(* Nobody leaves an unchanged list *)
LEMMA NobodyLeaves ==
    ASSUME NEW q, NEW c, ~In(q, c)
    PROVE  Leaves(q, q, {c}) /\ Leaves(q, q, {})
BY DEF Leaves, In, Before

(* remove_req() takes its client out of the list; the lock is free if that   *)
(* was the head.                                                             *)
LEMMA RemoveReqEdit ==
    ASSUME NEW s, Sound(s), NEW c \in Conns
    PROVE  /\ Edit(s, remove_req(s, c), {c})
           /\ Leaves(s.requests, remove_req(s, c).requests, {c})
           /\ ~In(s.requests, c) => remove_req(s, c) = s
<1> DEFINE q == s.requests
<1>0. /\ s \in Records /\ q \in Seq(Conns) /\ Len(q) \in Nat /\ DOMAIN q = 1..Len(q)
      /\ Listed(q, Conns) /\ s.held \in BOOLEAN
      /\ s.held => 1 \in 1..Len(q)
  BY SoundList
<1>1. CASE \E i \in DOMAIN q : q[i] = c
  <2> DEFINE k == CHOOSE i \in DOMAIN q : q[i] = c
             r == RemoveAt(q, k)
             h == s.held /\ q[1] # c
  <2>1. k \in 1..Len(q) /\ q[k] = c
    BY <1>0, <1>1
  <2>2. remove_req(s, c) = [s EXCEPT !.held = h, !.requests = r]
    BY <1>1 DEF remove_req
  <2> HIDE DEF k
  <2>3. Leaves(q, r, {c})
    BY <1>0, <2>1, RemoveAtLeaves
  <2>4. /\ Len(r) = Len(q) - 1
        /\ \A j \in 1..(Len(q) - 1) : r[j] = IF j < k THEN q[j] ELSE q[j + 1]
    BY <1>0, <2>1, RemoveAtEntries
  <2> HIDE DEF r
  <2>5. ASSUME h PROVE r[1] = q[1]
    <3>1. k # 1
      BY <2>1, <2>5
    <3>2. 1 \in 1..(Len(q) - 1) /\ 1 < k
      BY <1>0, <2>1, <3>1
    <3>3. QED
      BY <2>4, <3>2
  <2>6. h = (s.held /\ q[1] \notin {c})
    OBVIOUS
  <2> HIDE DEF h
  <2> DEFINE t == remove_req(s, c)
  <2>7. t.held = h /\ t.requests = r /\ t.toClient = s.toClient
    BY <1>0, <2>2 DEF Records
  <2> HIDE DEF t
  <2>8. Edit(s, t, {c}) /\ Leaves(s.requests, t.requests, {c})
    BY <2>3, <2>5, <2>6, <2>7 DEF Edit, Changes
  <2>9. In(q, c)
    BY <1>0, <1>1 DEF In
  <2>10. QED
    BY <2>8, <2>9 DEF t
<1>2. CASE ~ \E i \in DOMAIN q : q[i] = c
  <2>1. remove_req(s, c) = s
    BY <1>2 DEF remove_req
  <2>2. ~In(q, c)
    BY <1>0, <1>2 DEF In
  <2>3. Leaves(q, q, {c})
    BY <2>2, NobodyLeaves
  <2>4. s.held => q[1] # c
    BY <1>0, <1>2
  <2>5. s.held = (s.held /\ q[1] \notin {c})
    BY <1>0, <2>4
  <2>6. QED
    BY <2>1, <2>3, <2>5 DEF Edit, Changes
<1>3. QED
  BY <1>1, <1>2

(* So does delete_client() *)
LEMMA DeleteClientEdit ==
    ASSUME NEW s, Sound(s), NEW c \in Conns
    PROVE  /\ Edit(s, delete_client(s, c), {c})
           /\ Leaves(s.requests, delete_client(s, c).requests, {c})
           /\ c \in s.clients => Keeps(s, delete_client(s, c), {c})
           /\ ~In(s.requests, c) => /\ delete_client(s, c).requests = s.requests
                                    /\ delete_client(s, c).held = s.held
<1> DEFINE t == remove_req(s, c)
           u == delete_client(s, c)
<1>1. /\ Edit(s, t, {c}) /\ Leaves(s.requests, t.requests, {c}) /\ t \in Records
      /\ ~In(s.requests, c) => t = s
      /\ t.clients = s.clients /\ t.registered = s.registered /\ t.on = s.on
      /\ t.toSched = s.toSched /\ t.toSched \in [Conns -> Seq(Messages)]
  <2>1. Sound(t)
    BY RemoveReqSound
  <2>2. t \in Records /\ t.toSched \in [Conns -> Seq(Messages)]
    BY <2>1 DEF Sound, Records
  <2>3. QED
    BY <2>2, RemoveReqEdit, RemoveReqSound
<1>2. u = [t EXCEPT !.clients = @ \ {c}, !.registered = @ \ {c}, !.toSched = [@ EXCEPT ![c] = <<>>]]
  BY DEF delete_client
<1> HIDE DEF t
<1>3. /\ u.held = t.held /\ u.requests = t.requests /\ u.toClient = t.toClient /\ u.on = t.on
      /\ u.clients = t.clients \ {c} /\ u.registered = t.registered \ {c}
      /\ u.toSched = [t.toSched EXCEPT ![c] = <<>>]
  BY <1>1, <1>2 DEF Records
<1> HIDE DEF u
<1>4. Edit(s, u, {c}) /\ Leaves(s.requests, u.requests, {c})
  BY <1>1, <1>3 DEF Edit
<1>5. c \in s.clients => Keeps(s, u, {c})
  BY <1>1, <1>3 DEF Keeps
<1>6. QED
  BY <1>1, <1>3, <1>4, <1>5 DEF u

(* insert_req() puts its client behind everybody, if it is not in the list *)
LEMMA InsertReqEdit ==
    ASSUME NEW s, Sound(s), NEW c \in Conns
    PROVE  /\ Edit(s, insert_req(s, c), {})
           /\ \A d \in Conns : In(insert_req(s, c).requests, d) <=> In(s.requests, d) \/ d = c
           /\ insert_req(s, c).clients = s.clients /\ insert_req(s, c).toSched = s.toSched
           /\ insert_req(s, c).registered = s.registered /\ insert_req(s, c).on = s.on
<1> DEFINE q == s.requests
           r == Append(q, c)
           t == insert_req(s, c)
<1>0. /\ s \in Records /\ q \in Seq(Conns) /\ Len(q) \in Nat /\ DOMAIN q = 1..Len(q)
      /\ s.held \in BOOLEAN
      /\ s.held => 1 \in 1..Len(q)
  BY SoundList
<1>1. s.held = (s.held /\ q[1] \notin {})
  BY <1>0
<1>2. CASE \E i \in DOMAIN q : q[i] = c
  <2>1. t = s
    BY <1>2 DEF insert_req
  <2>2. Leaves(q, q, {})
    BY DEF Leaves
  <2>3. In(q, c)
    BY <1>0, <1>2 DEF In
  <2>4. QED
    BY <1>1, <2>1, <2>2, <2>3 DEF Edit, Changes
<1>3. CASE ~ \E i \in DOMAIN q : q[i] = c
  <2>1. t = [s EXCEPT !.requests = r]
    BY <1>3 DEF insert_req
  <2>2. ~In(q, c)
    BY <1>0, <1>3 DEF In
  <2>3. Joins(q, r, {}, c)
    BY <1>0, <2>2, AppendJoins
  <2>4. s.held => r[1] = q[1]
    BY <1>0, AppendProperties
  <2> HIDE DEF r
  <2>5. /\ t.held = s.held /\ t.requests = r /\ t.toClient = s.toClient
        /\ t.clients = s.clients /\ t.toSched = s.toSched
        /\ t.registered = s.registered /\ t.on = s.on
    BY <1>0, <2>1 DEF Records
  <2> HIDE DEF t
  <2>6. Edit(s, t, {})
    BY <1>1, <2>3, <2>4, <2>5 DEF Edit, Changes
  <2>7. \A d \in Conns : In(t.requests, d) <=> In(s.requests, d) \/ d = c
    BY <2>3, <2>5 DEF Joins
  <2>8. QED
    BY <2>5, <2>6, <2>7 DEF t
<1>4. QED
  BY <1>2, <1>3

(* Deleting the first n requesters *)
LEMMA DeleteFirstLeaves ==
    ASSUME NEW s, Sound(s), NEW n \in 0..Len(s.requests)
    PROVE  /\ Leaves(s.requests, DeleteFirst(s, n).requests, {s.requests[i] : i \in 1..n})
           /\ DeleteFirst(s, n).toClient = s.toClient
           /\ DeleteFirst(s, n).held = (s.held /\ n = 0)
           /\ Keeps(s, DeleteFirst(s, n), {s.requests[i] : i \in 1..n})
<1> DEFINE q == s.requests
           gone == {q[i] : i \in 1..n}
           r == SubSeq(q, n + 1, Len(q))
           in == [c \in Conns |-> IF c \in gone THEN <<>> ELSE s.toSched[c]]
           h == s.held /\ n = 0
           t == DeleteFirst(s, n)
<1>1. s \in Records /\ q \in Seq(Conns) /\ Listed(q, Conns)
  BY SoundList
<1>2. Leaves(q, r, gone) /\ gone \subseteq s.clients
  <2>1. \A i \in 1..n : i \in 1..Len(q)
    BY <1>1
  <2>2. QED
    BY <1>1, <2>1, SubSeqLeaves DEF Sound, Listed
<1>3. t = [s EXCEPT !.held = h, !.requests = r, !.clients = @ \ gone,
                    !.registered = @ \ gone, !.toSched = in]
  BY DEF DeleteFirst
<1> HIDE DEF r, in, gone, h
<1>4. /\ t.requests = r /\ t.toClient = s.toClient /\ t.held = h /\ t.on = s.on
      /\ t.clients = s.clients \ gone /\ t.registered = s.registered \ gone /\ t.toSched = in
  BY <1>1, <1>3 DEF Records
<1> HIDE DEF t
<1>5. Keeps(s, t, gone)
  BY <1>2, <1>4 DEF Keeps, in
<1>6. QED
  BY <1>2, <1>4, <1>5 DEF t, gone, h

(* LOCK_OK goes to the head *)
LEMMA GrantServes ==
    ASSUME NEW s, Sound(s), s.requests # <<>>
    PROVE  /\ Grant(s).requests = s.requests
           /\ Grant(s).held
           /\ s.requests[1] \in Conns
           /\ Grant(s).toClient = [s.toClient EXCEPT ![s.requests[1]] =
                                       Append(s.toClient[s.requests[1]], "LOCK_OK")]
           /\ Grant(s).on = s.on /\ Grant(s).clients = s.clients
           /\ Grant(s).registered = s.registered /\ Grant(s).toSched = s.toSched
<1> DEFINE c == s.requests[1]
           out == [s.toClient EXCEPT ![c] = Append(s.toClient[c], "LOCK_OK")]
           t == [Sent(s, c, "LOCK_OK") EXCEPT !.round = TRUE, !.held = TRUE, !.reset = TRUE]
<1>1. s \in Records /\ s.requests \in Seq(Conns)
  BY SoundList
<1>2. c \in Conns
  BY <1>1, EmptySeq, ElementOfSeq
<1>3. Sent(s, c, "LOCK_OK") = [s EXCEPT !.toClient = out]
  BY DEF Sent
<1>4. Grant(s) = [t EXCEPT !.timer = IF @ = "waiting" THEN "signaled" ELSE @]
  BY DEF Grant, Broadcast
<1> HIDE DEF c, out
<1>5. /\ t.requests = s.requests /\ t.held = TRUE /\ t.toClient = out /\ DOMAIN t = DOMAIN s
      /\ t.on = s.on /\ t.clients = s.clients /\ t.registered = s.registered
      /\ t.toSched = s.toSched
  BY <1>1, <1>3 DEF Records
<1>6. DOMAIN s = {"on", "held", "reset", "clients", "registered", "requests", "toSched",
                  "toClient", "round", "timer", "exited"}
  BY <1>1 DEF Records
<1> HIDE DEF t
<1>7. /\ Grant(s).requests = s.requests /\ Grant(s).held = TRUE /\ Grant(s).toClient = out
      /\ Grant(s).on = s.on /\ Grant(s).clients = s.clients
      /\ Grant(s).registered = s.registered /\ Grant(s).toSched = s.toSched
  BY <1>4, <1>5, <1>6
<1>8. QED
  BY <1>2, <1>7 DEF c, out

(* try_schedule() deletes those before the first it can serve *)
LEMMA TryScheduleServes ==
    ASSUME NEW s, Sound(s), ~s.held
    PROVE  \E g \in SUBSET Conns : Serves(s, try_schedule(s), g)
<1> DEFINE q == s.requests
           Served == {i \in DOMAIN q : send_result(s, q[i]) # "fail"}
           first == CHOOSE i \in Served : \A j \in Served : i <= j
           n == first - 1
           t == DeleteFirst(s, n)
           Gone(k) == {q[i] : i \in 1..k}
<1>0. /\ q \in Seq(Conns) /\ Len(q) \in Nat /\ DOMAIN q = 1..Len(q) /\ s.held = FALSE
      /\ s.toClient \in [Conns -> Seq(Messages)]
  BY SoundList
<1>1. try_schedule(s) =
        IF Served = {} THEN DeleteFirst(s, Len(q))
        ELSE IF send_result(s, q[first]) = "die" THEN [t EXCEPT !.exited = "sigpipe"]
        ELSE Grant(t)
  BY DEF try_schedule
<1>2. \A k \in 0..Len(q) : Gone(k) \in SUBSET Conns
  BY <1>0
<1>3. CASE Served = {}
  <2>1. Len(q) \in 0..Len(q)
    BY <1>0
  <2> DEFINE e == DeleteFirst(s, Len(q))
             all == Gone(Len(q))
  <2>2. Leaves(q, e.requests, all) /\ Keeps(s, e, all) /\ e.toClient = s.toClient
    BY <2>1, DeleteFirstLeaves
  <2>3. Sound(e) /\ Len(e.requests) = Len(q) - Len(q)
    BY <2>1, DeleteFirstSound
  <2>4. all \in SUBSET Conns
    BY <1>2, <2>1
  <2> HIDE DEF e, all
  <2>5. e.requests = <<>>
    BY <1>0, <2>3, SoundList, EmptyIffNoLength
  <2>6. Serves(s, e, all)
    BY <2>2, <2>5 DEF Serves
  <2>7. QED
    BY <1>1, <1>3, <2>4, <2>6 DEF e
<1>4. CASE Served # {}
  <2>1. Served \in SUBSET Nat
    BY <1>0
  <2>2. \E i \in Served : \A j \in Served : i <= j
    BY <1>4, <2>1, LeastMember
  <2>3. first \in Served
    BY <2>2
  <2>4. first \in 1..Len(q)
    BY <2>3, <1>0
  <2>5. n \in 0..Len(q) /\ Len(q) - n # 0
    BY <2>4, <1>0
  <2> HIDE DEF first, Served, n
  <2>6. Sound(t) /\ Len(t.requests) # 0
    BY <2>5, DeleteFirstSound
  <2>7. t \in Records /\ t.requests \in Seq(Conns)
    BY <2>6, SoundList
  <2>8. t.requests # <<>>
    BY <2>6, <2>7, EmptyIffNoLength
  <2>9. Leaves(q, t.requests, Gone(n)) /\ t.toClient = s.toClient /\ Keeps(s, t, Gone(n))
    BY <2>5, DeleteFirstLeaves
  <2>10. Gone(n) \in SUBSET Conns
    BY <1>2, <2>5
  <2> DEFINE g == Gone(n)
  <2> HIDE DEF t, g
  <2>11. Serves(s, [t EXCEPT !.exited = "sigpipe"], g)
    <3> DEFINE u == [t EXCEPT !.exited = "sigpipe"]
    <3>1. /\ u.requests = t.requests /\ u.toClient = t.toClient /\ u.exited = "sigpipe"
          /\ u.on = t.on /\ u.clients = t.clients /\ u.registered = t.registered
          /\ u.toSched = t.toSched
      BY <2>7 DEF Records
    <3> HIDE DEF u
    <3>2. Keeps(s, u, g)
      BY <2>9, <3>1 DEF Keeps, g
    <3>3. Serves(s, u, g)
      BY <2>9, <3>1, <3>2 DEF Serves, g
    <3>4. QED
      BY <3>3 DEF u
  <2>12. Serves(s, Grant(t), g)
    <3> DEFINE c == t.requests[1]
               u == Grant(t)
    <3>1. /\ u.requests = t.requests /\ u.held /\ c \in Conns
          /\ u.toClient = [t.toClient EXCEPT ![c] = Append(t.toClient[c], "LOCK_OK")]
          /\ u.on = t.on /\ u.clients = t.clients /\ u.registered = t.registered
          /\ u.toSched = t.toSched
      BY <2>6, <2>8, GrantServes
    <3> HIDE DEF u
    <3>2. u.requests[1] = c /\ Leaves(q, u.requests, g)
      BY <2>9, <3>1 DEF g
    <3>3. u.toClient = [s.toClient EXCEPT ![c] = Append(s.toClient[c], "LOCK_OK")]
      BY <2>9, <3>1
    <3> HIDE DEF c
    <3>4. Keeps(s, u, g)
      BY <2>9, <3>1 DEF Keeps, g
    <3>5. Serves(s, u, g)
      BY <3>1, <3>2, <3>3, <3>4 DEF Serves
    <3>6. QED
      BY <3>5 DEF u
  <2>13. g \in SUBSET Conns
    BY <2>10 DEF g
  <2>14. QED
    BY <1>1, <1>4, <2>11, <2>12, <2>13 DEF t, n
<1>5. QED
  BY <1>3, <1>4

-----------------------------------------------------------------------------
(* Steps *)

(* Nothing is its own extension *)
LEMMA NotAppended ==
    ASSUME NEW x \in Seq(Messages), NEW y \in Seq(Messages), NEW m \in Messages,
           y = Append(x, m)
    PROVE  Len(y) = Len(x) + 1 /\ y[Len(y)] = m /\ y # x /\ y # <<>>
<1>1. Len(y) = Len(x) + 1 /\ y[Len(x) + 1] = m /\ Len(x) \in Nat
  BY AppendProperties, LenProperties
<1>2. QED
  BY <1>1, EmptySeq

(* A step that only edits the list is a LockStep *)
LEMMA EditStep ==
    ASSUME NEW s, NEW t, NEW g \in SUBSET Conns, Sound(s), Edit(s, t, g)
    PROVE  LockStep(s, t)
<1>1. s.toClient \in [Conns -> Seq(Messages)] /\ s.held \in BOOLEAN
  BY SoundList
<1>2. \A c \in Conns : t.toClient[c] # Append(s.toClient[c], "LOCK_OK")
  BY <1>1, NotAppended DEF Edit, Messages
<1>3. \/ s.held /\ t.held /\ s.requests[1] \notin g /\ t.requests[1] = s.requests[1]
      \/ s.held => s.requests[1] \in g
  BY DEF Edit
<1>4. QED
  BY <1>2, <1>3 DEF LockStep, Edit

(* So is one that edits the list and, if that leaves the lock free, serves   *)
(* the next.                                                                 *)
LEMMA EditServeStep ==
    ASSUME NEW s, NEW t, NEW u, NEW g \in SUBSET Conns, Sound(s), Sound(t),
           Edit(s, t, g), ~t.held, u = try_schedule(t)
    PROVE  LockStep(s, u)
<1>1. /\ s.toClient \in [Conns -> Seq(Messages)] /\ s.held \in BOOLEAN
      /\ t.toClient = s.toClient
  BY SoundList DEF Edit
<1>2. PICK h \in SUBSET Conns : Serves(t, u, h)
  BY TryScheduleServes
<1>3. g \cup h \in SUBSET Conns /\ Changes(s.requests, u.requests, g \cup h)
  BY <1>2, ChangesThenLeaves DEF Edit, Serves
<1>4. s.held => s.requests[1] \in g \cup h
  BY DEF Edit
<1>5. ASSUME NEW c \in Conns, u.toClient[c] = Append(s.toClient[c], "LOCK_OK")
      PROVE  u.held /\ u.requests[1] = c
  <2>1. u.toClient # s.toClient
    BY <1>1, <1>5, NotAppended DEF Messages
  <2>2. PICK d \in Conns :
          /\ u.held /\ u.requests[1] = d
          /\ u.toClient = [s.toClient EXCEPT ![d] = Append(s.toClient[d], "LOCK_OK")]
    BY <1>1, <1>2, <2>1 DEF Serves
  <2>3. CASE c # d
    <3>1. u.toClient[c] = s.toClient[c]
      BY <1>1, <2>2, <2>3
    <3>2. QED
      BY <1>1, <1>5, <3>1, NotAppended DEF Messages
  <2>4. QED
    BY <2>2, <2>3
<1>6. QED
  BY <1>3, <1>4, <1>5 DEF LockStep

(* A step that leaves the list and the lock alone and writes no LOCK_OK *)
LEMMA QuietStep ==
    ASSUME NEW s, NEW t, t.requests = s.requests, t.held = s.held, s.held \in BOOLEAN,
           \A c \in Conns : t.toClient[c] # Append(s.toClient[c], "LOCK_OK")
    PROVE  LockStep(s, t)
<1>1. Changes(s.requests, t.requests, {})
  BY DEF Changes, Leaves
<1>2. {} \in SUBSET Conns
  OBVIOUS
<1>3. \/ s.held /\ t.held /\ s.requests[1] \notin {} /\ t.requests[1] = s.requests[1]
      \/ s.held => s.requests[1] \in {}
  OBVIOUS
<1>4. QED
  BY <1>1, <1>2, <1>3 DEF LockStep

(* Writing anything but LOCK_OK *)
LEMMA OtherMessage ==
    ASSUME NEW x \in Seq(Messages), NEW m \in Messages, m # "LOCK_OK"
    PROVE  Append(x, m) # Append(x, "LOCK_OK") /\ x # Append(x, "LOCK_OK")
<1>1. "LOCK_OK" \in Messages /\ Append(x, m) \in Seq(Messages)
  BY AppendProperties DEF Messages
<1>2. x # Append(x, "LOCK_OK")
  BY <1>1, NotAppended
<1>3. Append(x, m)[Len(x) + 1] = m /\ Append(x, "LOCK_OK")[Len(x) + 1] = "LOCK_OK"
  BY <1>1, AppendProperties
<1>4. QED
  BY <1>2, <1>3

(* A record that differs in other fields *)
LEMMA SameStep ==
    ASSUME NEW s, Sound(s), NEW t, t.requests = s.requests, t.held = s.held,
           t.toClient = s.toClient
    PROVE  LockStep(s, t)
<1>1. s.toClient \in [Conns -> Seq(Messages)] /\ s.held \in BOOLEAN
  BY SoundList
<1>2. \A c \in Conns : t.toClient[c] # Append(s.toClient[c], "LOCK_OK")
  BY <1>1, NotAppended DEF Messages
<1>3. QED
  BY <1>1, <1>2, QuietStep

(* send_message() of anything but LOCK_OK *)
LEMMA SentStep ==
    ASSUME NEW s, Sound(s), NEW c \in Conns, NEW m \in Messages, m # "LOCK_OK", NEW t,
           t.requests = s.requests, t.held = s.held, t.toClient = Sent(s, c, m).toClient
    PROVE  LockStep(s, t)
<1> DEFINE out == [s.toClient EXCEPT ![c] = Append(s.toClient[c], m)]
<1>1. s \in Records /\ s.toClient \in [Conns -> Seq(Messages)] /\ s.held \in BOOLEAN
  BY SoundList
<1>2. Sent(s, c, m) = [s EXCEPT !.toClient = out]
  BY DEF Sent
<1>3. t.toClient = out
  BY <1>1, <1>2 DEF Records
<1>4. ASSUME NEW d \in Conns PROVE out[d] # Append(s.toClient[d], "LOCK_OK")
  <2>1. out[d] = IF d = c THEN Append(s.toClient[d], m) ELSE s.toClient[d]
    BY <1>1
  <2>2. s.toClient[d] \in Seq(Messages)
    BY <1>1
  <2> HIDE DEF out
  <2>3. QED
    BY <2>1, <2>2, OtherMessage
<1> HIDE DEF out
<1>5. QED
  BY <1>1, <1>3, <1>4, QuietStep

(* bcast_status() writes no LOCK_OK; the list is empty before it (SCHED_ON)  *)
(* or cleared after it (SCHED_OFF), and then nobody holds the lock.          *)
LEMMA BcastStatusStep ==
    ASSUME NEW s \in Records, s.held => s.requests # <<>>, NEW t,
           \/ t = [bcast_status(s) EXCEPT !.requests = <<>>, !.held = FALSE]
           \/ t = bcast_status(s) /\ s.requests = <<>>
    PROVE  LockStep(s, t)
<1> DEFINE Result(c) == send_result(s, c)
           status == IF s.on THEN "SCHED_ON" ELSE "SCHED_OFF"
           gone == {c \in Audience(s) : Result(c) = "fail"}
           Stays(c) == c \notin gone
           ex == IF \E c \in Audience(s) : Result(c) = "die" THEN "sigpipe" ELSE s.exited
           cl == s.clients \ gone
           rg == s.registered \ gone
           rq == IF s.requests = <<>> THEN s.requests ELSE SelectSeq(s.requests, Stays)
           hd == s.held /\ s.requests # <<>> /\ s.requests[1] \notin gone
           in == [c \in Conns |-> IF c \in gone THEN <<>> ELSE s.toSched[c]]
           out == [c \in Conns |-> IF c \in Audience(s) /\ Result(c) = "ok"
                                   THEN Append(s.toClient[c], status) ELSE s.toClient[c]]
           b == [s EXCEPT !.exited = ex, !.clients = cl, !.registered = rg, !.requests = rq,
                          !.held = hd, !.toSched = in, !.toClient = out]
<1>1. bcast_status(s) = b
  BY DEF bcast_status
<1>2. /\ s.toClient \in [Conns -> Seq(Messages)] /\ s.requests \in Seq(Conns)
  BY DEF Records
<1>3. \A c \in Conns : out[c] # Append(s.toClient[c], "LOCK_OK")
  <2>1. status \in Messages /\ status # "LOCK_OK"
    BY DEF Messages
  <2>2. \A c \in Conns : out[c] \in {s.toClient[c], Append(s.toClient[c], status)}
    OBVIOUS
  <2> HIDE DEF status, out
  <2>3. QED
    BY <1>2, <2>1, <2>2, OtherMessage
<1>4. s.requests = <<>> => rq = <<>> /\ hd = FALSE
  OBVIOUS
<1> HIDE DEF in, out, ex, cl, rg, rq, hd
<1>5. b.requests = rq /\ b.held = hd /\ b.toClient = out
  BY DEF Records
<1>6. DOMAIN b = {"on", "held", "reset", "clients", "registered", "requests", "toSched",
                  "toClient", "round", "timer", "exited"}
  BY DEF Records
<1> HIDE DEF b
<1>7. t.requests = <<>> /\ t.held = FALSE /\ t.toClient = out
  BY <1>1, <1>4, <1>5, <1>6
<1>8. Leaves(s.requests, t.requests, Conns)
  <2>1. Len(t.requests) = 0
    BY <1>7
  <2>2. \A a : ~In(t.requests, a)
    BY <2>1 DEF In
  <2>3. \A a, c : ~Before(t.requests, a, c)
    BY <2>1 DEF Before
  <2>4. QED
    BY <2>2, <2>3 DEF Leaves
<1>9. s.held => s.requests[1] \in Conns
  BY <1>2, EmptySeq, ElementOfSeq
<1>10. QED
  <2>1. Changes(s.requests, t.requests, Conns)
    BY <1>8 DEF Changes
  <2>2. \A c \in Conns : t.toClient[c] # Append(s.toClient[c], "LOCK_OK")
    BY <1>3, <1>7
  <2>3. QED
    BY <1>9, <2>1, <2>2 DEF LockStep

(* process_msg() does a LockStep whatever the message *)
LEMMA ProcessMsgStep ==
    ASSUME NEW s, Sound(s), NEW c \in s.clients, NEW m \in Messages
    PROVE  LockStep(s, process_msg(s, c, m))
<1> DEFINE u == process_msg(s, c, m)
<1>0. /\ c \in Conns /\ s \in Records
  BY DEF Sound, Records
<1>1. LockStep(s, s)
  BY SameStep
<1>2. LockStep(s, delete_client(s, c))
  <2>1. {c} \in SUBSET Conns
    BY <1>0
  <2>2. QED
    BY <1>0, <2>1, DeleteClientEdit, EditStep
<1>3. CASE m = "REGISTER"
  <2> DEFINE st == IF s.on THEN "SCHED_ON" ELSE "SCHED_OFF"
             x == Sent(s, c, st)
             t == [x EXCEPT !.registered = @ \cup {c}]
             e == [s EXCEPT !.exited = "sigpipe"]
  <2>1. u = register_client(s, c)
    BY <1>3 DEF process_msg
  <2>2. u = delete_client(s, c) \/ u = e \/ u = t
    BY <2>1 DEF register_client
  <2> HIDE DEF u
  <2>3. LockStep(s, e)
    <3>1. e.requests = s.requests /\ e.held = s.held /\ e.toClient = s.toClient
      BY <1>0 DEF Records
    <3> HIDE DEF e
    <3>2. QED
      BY <3>1, SameStep
  <2>4. LockStep(s, t)
    <3>1. st \in Messages /\ st # "LOCK_OK"
      BY DEF Messages
    <3> HIDE DEF st
    <3>2. x \in Records /\ x.requests = s.requests
      BY <1>0, <3>1, SentSound DEF Sound
    <3>3. x.held = s.held
      BY <1>0 DEF Sent, Records
    <3> HIDE DEF x
    <3>4. t.requests = s.requests /\ t.held = s.held /\ t.toClient = x.toClient
      BY <3>2, <3>3 DEF Records
    <3> HIDE DEF t
    <3>5. QED
      BY <1>0, <3>1, <3>4, SentStep DEF x
  <2>5. QED
    BY <1>2, <2>2, <2>3, <2>4 DEF u
<1>4. CASE m = "SCHED_ON"
  <2>1. CASE s.on
    BY <1>1, <1>4, <2>1 DEF process_msg
  <2>2. CASE ~s.on
    <3> DEFINE t == [s EXCEPT !.on = TRUE]
    <3>1. u = bcast_status(t)
      BY <1>4, <2>2 DEF process_msg
    <3>2. t \in Records /\ t.requests = <<>> /\ t.held = s.held /\ ~s.held
      BY <1>0, <2>2 DEF Sound, Records
    <3>3. t.requests = s.requests /\ t.toClient = s.toClient
      BY <1>0 DEF Records
    <3> HIDE DEF t, u
    <3>4. LockStep(t, u)
      BY <3>1, <3>2, BcastStatusStep
    <3>5. QED
      BY <3>2, <3>3, <3>4 DEF LockStep, u
  <2>3. QED
    BY <2>1, <2>2
<1>5. CASE m = "SCHED_OFF"
  <2>1. CASE ~s.on
    BY <1>1, <1>5, <2>1 DEF process_msg
  <2>2. CASE s.on
    <3> DEFINE t == [s EXCEPT !.on = FALSE]
    <3>1. u = [bcast_status(t) EXCEPT !.requests = <<>>, !.held = FALSE]
      BY <1>5, <2>2 DEF process_msg
    <3>2. /\ t \in Records /\ t.requests = s.requests /\ t.held = s.held
          /\ t.toClient = s.toClient
      BY <1>0 DEF Records
    <3>3. t.held => t.requests # <<>>
      BY <3>2 DEF Sound
    <3> HIDE DEF t, u
    <3>4. LockStep(t, u)
      BY <3>1, <3>2, <3>3, BcastStatusStep
    <3>5. QED
      BY <3>2, <3>4 DEF LockStep, u
  <2>3. QED
    BY <2>1, <2>2
<1>6. CASE m = "SET_TQ"
  <2>1. u = [[s EXCEPT !.reset = TRUE] EXCEPT !.timer = IF @ = "waiting" THEN "signaled" ELSE @]
    BY <1>6 DEF process_msg, Broadcast
  <2>2. u.requests = s.requests /\ u.held = s.held /\ u.toClient = s.toClient
    BY <1>0, <2>1 DEF Records
  <2> HIDE DEF u
  <2>3. LockStep(s, u)
    BY <2>2, SameStep
  <2>4. QED
    BY <2>3 DEF u
<1>7. CASE m \in {"REQ_LOCK", "LOCK_RELEASED"}
  <2>1. CASE c \notin s.registered
    BY <1>2, <1>7, <2>1 DEF process_msg
  <2>2. CASE c \in s.registered /\ ~s.on
    <3>1. u = s
      BY <1>7, <2>2 DEF process_msg
    <3>2. QED
      BY <1>1, <3>1
  <2>3. CASE c \in s.registered /\ s.on
    <3>1. ASSUME NEW t, NEW g \in SUBSET Conns, Sound(t), Edit(s, t, g)
          PROVE  LockStep(s, Reschedule(t))
      BY <3>1, EditStep, EditServeStep DEF Reschedule
    <3>2. CASE m = "REQ_LOCK"
      <4>1. u = Reschedule(insert_req(s, c)) /\ {} \in SUBSET Conns
        BY <2>3, <3>2 DEF process_msg
      <4>2. Sound(insert_req(s, c)) /\ Edit(s, insert_req(s, c), {})
        BY <1>0, <2>3, InsertReqSound, InsertReqEdit
      <4>3. LockStep(s, Reschedule(insert_req(s, c)))
        BY <3>1, <4>1, <4>2
      <4>4. QED
        BY <4>1, <4>3
    <3>3. CASE m = "LOCK_RELEASED"
      <4>1. u = Reschedule(remove_req(s, c)) /\ {c} \in SUBSET Conns
        BY <1>0, <2>3, <3>3 DEF process_msg
      <4>2. Sound(remove_req(s, c)) /\ Edit(s, remove_req(s, c), {c})
        BY <1>0, RemoveReqSound, RemoveReqEdit
      <4>3. LockStep(s, Reschedule(remove_req(s, c)))
        BY <3>1, <4>1, <4>2
      <4>4. QED
        BY <4>1, <4>3
    <3>4. QED
      BY <1>7, <3>2, <3>3
  <2>4. QED
    BY <2>1, <2>2, <2>3
<1>8. CASE m \in {"LOCK_OK", "DROP_LOCK", "OTHER"}
  <2>1. u = s
    BY <1>8 DEF process_msg
  <2>2. QED
    BY <1>1, <2>1
<1>9. QED
  BY <1>3, <1>4, <1>5, <1>6, <1>7, <1>8 DEF Messages

-----------------------------------------------------------------------------
(* The actions *)

(* A step that becomes the record t *)
LEMMA BecomeStep ==
    ASSUME NEW t, LockStep(State, t), Become(t)
    PROVE  LockStep(State, State')
BY DEF LockStep, Become, State

(* A step that leaves the list and the lock alone, and appends no LOCK_OK *)
LEMMA UnchangedStep ==
    ASSUME IInv, requests' = requests, lock_held' = lock_held,
           \A c \in Conns : toClient'[c] # Append(toClient[c], "LOCK_OK")
    PROVE  LockStep(State, State')
<1>1. State.held \in BOOLEAN
  BY SoundList DEF IInv
<1>2. /\ State'.requests = State.requests /\ State'.held = State.held
      /\ \A c \in Conns : State'.toClient[c] # Append(State.toClient[c], "LOCK_OK")
  BY DEF State
<1>3. QED
  BY <1>1, <1>2, QuietStep

(* A connection accepted or refused, an event of a struct that is gone *)
LEMMA SameChannelsStep ==
    ASSUME IInv, requests' = requests, lock_held' = lock_held, toClient' = toClient
    PROVE  LockStep(State, State')
<1>1. toClient \in [Conns -> Seq(Messages)]
  BY DEF IInv, Sound, Records, State
<1>2. \A c \in Conns : toClient'[c] # Append(toClient[c], "LOCK_OK")
  BY <1>1, NotAppended DEF Messages
<1>3. QED
  BY <1>2, UnchangedStep

(* The events of the main thread *)
LEMMA MainLockStep ==
    ASSUME IInv, MainNext
    PROVE  LockStep(State, State')
<1> USE DEF IInv
<1>0. State \in Records /\ clients \in SUBSET Conns /\ toSched \in [Conns -> Seq(Messages)]
  BY DEF Sound, Records, State
<1>1. CASE EpollWait
  BY <1>1, SameChannelsStep DEF EpollWait, commVars
<1>2. ASSUME NEW c \in Conns, Accept(c) \/ AcceptFails(c) \/ StaleEvent(c)
      PROVE  LockStep(State, State')
  BY <1>2, SameChannelsStep DEF Accept, AcceptFails, StaleEvent
<1>3. ASSUME NEW c \in Conns, ReceiveMsg(c) PROVE LockStep(State, State')
  <2> DEFINE in == [toSched EXCEPT ![c] = Tail(toSched[c])]
             t == [State EXCEPT !.toSched = in]
             m == Head(toSched[c])
  <2>1. toSched[c] \in Seq(Messages) /\ toSched[c] # <<>>
    BY <1>0, <1>3 DEF ReceiveMsg
  <2>2. m \in Messages /\ Tail(toSched[c]) \in Seq(Messages)
    BY <2>1, HeadTailProperties
  <2>3. in \in [Conns -> Seq(Messages)]
    BY <1>0, <2>2
  <2>4. Become(process_msg(t, c, m))
    BY <1>3 DEF ReceiveMsg, State
  <2> HIDE DEF in, m
  <2>5. Sound(t) /\ c \in t.clients
    BY <1>0, <1>3, <2>3 DEF Sound, Records, State, ReceiveMsg
  <2>6. t.requests = State.requests /\ t.held = State.held /\ t.toClient = State.toClient
    BY <1>0 DEF Records
  <2> HIDE DEF t
  <2>7. LockStep(t, process_msg(t, c, m))
    BY <2>2, <2>5, ProcessMsgStep
  <2>8. LockStep(State, process_msg(t, c, m))
    BY <2>6, <2>7 DEF LockStep
  <2>9. QED
    BY <2>4, <2>8, BecomeStep
<1>4. ASSUME NEW c \in Conns, Hangup(c) PROVE LockStep(State, State')
  <2> DEFINE t == delete_client(State, c)
  <2>1. Sound(t) /\ Edit(State, t, {c}) /\ {c} \in SUBSET Conns
    BY DeleteClientSound, DeleteClientEdit
  <2> HIDE DEF t
  <2>2. LockStep(State, after_hangup(t))
    BY <2>1, EditStep, EditServeStep DEF after_hangup
  <2>3. QED
    BY <1>4, <2>2, BecomeStep DEF Hangup, t
<1>5. QED
  BY <1>1, <1>2, <1>3, <1>4 DEF MainNext

(* One iteration of timer_thr_fn() *)
LEMMA TimerLockStep ==
    ASSUME IInv, TimerNext
    PROVE  LockStep(State, State')
<1> USE DEF IInv
<1>0. State \in Records
  BY DEF Sound
<1>1. ASSUME NEW t \in Records, LockStep(State, t) PROVE LockStep(State, Arm(t))
  <2>1. Arm(t).requests = t.requests /\ Arm(t).held = t.held /\ Arm(t).toClient = t.toClient
    BY <1>1 DEF Arm, Records
  <2>2. QED
    BY <1>1, <2>1 DEF LockStep
<1>2. LockStep(State, State)
  BY SameStep
<1>3. ASSUME NEW to \in {"waiting", "signaled", "timedout"}
      PROVE  LockStep(State, [State EXCEPT !.timer = to])
  <2> DEFINE t == [State EXCEPT !.timer = to]
  <2>1. t.requests = State.requests /\ t.held = State.held /\ t.toClient = State.toClient
    BY <1>0 DEF Records
  <2> HIDE DEF t
  <2>2. LockStep(State, t)
    BY <2>1, SameStep
  <2>3. QED
    BY <2>2 DEF t
<1>4. CASE TimerStart \/ TimerIdle \/ TimerOldRound
  BY <1>0, <1>1, <1>2, <1>4, BecomeStep DEF TimerStart, TimerIdle, TimerOldRound
<1>5. CASE TimerDeadline \/ TimerSpurious
  BY <1>3, <1>5, BecomeStep DEF TimerDeadline, TimerSpurious
<1>6. CASE TimerSignaled
  BY <1>0, <1>1, <1>2, <1>3, <1>6, BecomeStep DEF TimerSignaled
<1>7. CASE TimerDrop
  <2> DEFINE holder == requests[1]
             x == Sent(State, holder, "DROP_LOCK")
             d == delete_client(State, holder)
             e == [State EXCEPT !.exited = "sigpipe"]
  <2>1. requests \in Seq(Conns) /\ requests # <<>> /\ lock_held
    BY <1>0, <1>7 DEF TimerDrop, TimerNothingToDo, Sound, Records, State
  <2>2. holder \in Conns
    BY <2>1, EmptySeq, ElementOfSeq
  <2>3. Become(Arm(x)) \/ Become(Arm(try_schedule(d))) \/ Become(e)
    BY <1>7 DEF TimerDrop
  <2>4. State.held /\ State.requests[1] = holder
    BY <2>1 DEF State
  <2> HIDE DEF holder
  <2>5. LockStep(State, Arm(x))
    <3>1. x \in Records /\ x.requests = State.requests
      BY <2>2, SentSound DEF Sound, Messages
    <3>2. x.held = State.held
      BY <1>0 DEF Sent, Records
    <3>3. LockStep(State, x)
      BY <2>2, <3>1, <3>2, SentStep DEF Messages
    <3>4. QED
      BY <1>1, <3>1, <3>3
  <2>6. LockStep(State, Arm(try_schedule(d)))
    <3>1. Sound(d) /\ Edit(State, d, {holder}) /\ {holder} \in SUBSET Conns
      BY <2>2, DeleteClientSound, DeleteClientEdit
    <3> HIDE DEF d
    <3>2. ~d.held
      BY <2>4, <3>1 DEF Edit
    <3>3. LockStep(State, try_schedule(d)) /\ try_schedule(d) \in Records
      BY <3>1, <3>2, EditServeStep, TryScheduleSound DEF Sound
    <3>4. QED
      BY <1>1, <3>3
  <2>7. LockStep(State, e)
    <3>1. e.requests = State.requests /\ e.held = State.held /\ e.toClient = State.toClient
      BY <1>0 DEF Records
    <3> HIDE DEF e
    <3>2. QED
      BY <3>1, SameStep
  <2> HIDE DEF x, d, e
  <2>8. QED
    BY <2>3, <2>5, <2>6, <2>7, BecomeStep
<1>8. QED
  BY <1>4, <1>5, <1>6, <1>7 DEF TimerNext
=============================================================================
