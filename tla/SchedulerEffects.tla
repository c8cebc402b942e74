-------------------------- MODULE SchedulerEffects --------------------------
(***************************************************************************)
(* What a step of nvshare-scheduler does to each of its connections,       *)
(* whoever is at the other end: Effect(s, t, c, m) relates the records     *)
(* before and after the scheduler handled message m of connection c ("none"*)
(* for an end of file or a step of the timer thread).  The proofs about    *)
(* the composed system use nothing else of the scheduler.                  *)
(***************************************************************************)
EXTENDS SchedulerLemmas

(* What the scheduler writes to d: the lock to a head that did not have it,  *)
(* the wish to have it back to the holder, the status to a registered client.*)
Told(s, t, c, m, d) ==
    \/ t.toClient[d] = s.toClient[d]
    \/ /\ t.toClient[d] = Append(s.toClient[d], "LOCK_OK")
       /\ t.held /\ t.requests[1] = d /\ In(t.requests, d)
       /\ ~(s.held /\ s.requests[1] = d)
    \/ /\ t.toClient[d] = Append(s.toClient[d], "DROP_LOCK")
       /\ m = "none" /\ s.held /\ s.requests[1] = d /\ In(s.requests, d)
    \/ /\ t.toClient[d] = Append(s.toClient[d], IF t.on THEN "SCHED_ON" ELSE "SCHED_OFF")
       /\ d \in t.registered
       /\ m \in {"SCHED_ON", "SCHED_OFF"} \/ (m = "REGISTER" /\ c = d)

(* d joins the list by asking, and leaves it by releasing *)
Queued(s, t, c, m, d) ==
    /\ In(t.requests, d) => In(s.requests, d) \/ (m = "REQ_LOCK" /\ c = d)
    /\ d \in t.clients =>
          /\ In(s.requests, d) \/ (m = "REQ_LOCK" /\ c = d /\ s.on) =>
                In(t.requests, d) \/ m = "SCHED_OFF" \/ (m = "LOCK_RELEASED" /\ c = d)
          /\ s.held /\ s.requests[1] = d =>
                \/ t.held /\ t.requests[1] = d
                \/ m = "SCHED_OFF" \/ (m = "LOCK_RELEASED" /\ c = d)

(* What d wrote is lost only with the connection *)
Stays(s, t, c, m, d) ==
    /\ d \in t.clients => d \in s.clients
    /\ t.toSched[d] = IF d \in s.clients \ t.clients THEN <<>> ELSE s.toSched[d]
    /\ d \in t.registered => d \in s.registered \/ (m = "REGISTER" /\ c = d)
    /\ d \in s.registered /\ d \in t.clients => d \in t.registered

(* Somebody has asked for the lock and nobody has it *)
Stranded(s) == s.exited = "no" /\ s.requests # <<>> /\ ~s.held

Effect(s, t, c, m) ==
    /\ \A d \in Conns : Told(s, t, c, m, d) /\ Queued(s, t, c, m, d) /\ Stays(s, t, c, m, d)
    /\ t.on = IF m \in {"SCHED_ON", "SCHED_OFF"} THEN m = "SCHED_ON" ELSE s.on
    /\ Stranded(t) => Stranded(s) \/ (m = "REGISTER" /\ c \in s.registered)

-----------------------------------------------------------------------------
(* The functions of scheduler.c *)

(* From s to t the connections of g are closed, c may join or leave the      *)
(* list, and nothing is written.                                             *)
Edits(s, t, g, c, m) ==
    /\ Keeps(s, t, g)
    /\ t.toClient = s.toClient
    /\ \A d \in Conns :
          /\ In(t.requests, d) => In(s.requests, d) \/ (m = "REQ_LOCK" /\ c = d)
          /\ In(s.requests, d) \/ (m = "REQ_LOCK" /\ c = d) =>
                In(t.requests, d) \/ d \in g \/ (m = "LOCK_RELEASED" /\ c = d)
    /\ s.held =>
          \/ t.held /\ t.requests[1] = s.requests[1]
          \/ /\ ~t.held /\ ~In(t.requests, s.requests[1])
             /\ s.requests[1] \in g \/ (m = "LOCK_RELEASED" /\ c = s.requests[1])

(* An edit is an effect *)
LEMMA EditEffect ==
    ASSUME NEW s, NEW t, NEW g, NEW c, NEW m, Edits(s, t, g, c, m),
           m \notin {"SCHED_ON", "SCHED_OFF"},
           Stranded(t) => Stranded(s) \/ (m = "REGISTER" /\ c \in s.registered)
    PROVE  Effect(s, t, c, m)
<1>1. ASSUME NEW d \in Conns PROVE Told(s, t, c, m, d)
  BY DEF Edits, Told
<1>2. ASSUME NEW d \in Conns PROVE Queued(s, t, c, m, d)
  BY DEF Edits, Keeps, Queued
<1>3. ASSUME NEW d \in Conns PROVE Stays(s, t, c, m, d)
  BY DEF Edits, Keeps, Stays
<1>4. t.on = s.on
  BY DEF Edits, Keeps
<1>5. QED
  BY <1>1, <1>2, <1>3, <1>4 DEF Effect

(* So is an edit that frees the lock, and try_schedule() after it *)
LEMMA EditServeEffect ==
    ASSUME NEW s, NEW t, NEW g, NEW c, NEW m, Sound(t), Edits(s, t, g, c, m),
           m \notin {"SCHED_ON", "SCHED_OFF"}, ~t.held
    PROVE  Effect(s, try_schedule(t), c, m)
<1> DEFINE u == try_schedule(t)
<1>1. PICK h \in SUBSET Conns : Serves(t, u, h)
  BY TryScheduleServes
<1>2. Sound(u)
  BY TryScheduleSound
<1> HIDE DEF u
<1>3. u.held => In(u.requests, u.requests[1])
  BY <1>2, SoundList
<1>4. ASSUME NEW d \in Conns PROVE Told(s, u, c, m, d)
  <2>1. CASE u.toClient = t.toClient
    BY <2>1 DEF Edits, Told
  <2>2. CASE u.toClient # t.toClient
    <3>1. PICK e \in Conns :
            /\ u.held /\ u.requests[1] = e
            /\ u.toClient = [t.toClient EXCEPT ![e] = Append(t.toClient[e], "LOCK_OK")]
      BY <1>1, <2>2 DEF Serves
    <3>2. t.toClient \in [Conns -> Seq(Messages)] /\ t.toClient = s.toClient
      BY SoundList DEF Edits
    <3>3. CASE d # e
      BY <3>1, <3>2, <3>3 DEF Told
    <3>4. CASE d = e
      <4>1. In(u.requests, d) /\ In(t.requests, d)
        BY <1>1, <1>3, <3>1, <3>4 DEF Serves, Leaves
      <4>2. ~(s.held /\ s.requests[1] = d)
        BY <4>1 DEF Edits
      <4>3. u.toClient[d] = Append(s.toClient[d], "LOCK_OK")
        BY <3>1, <3>2, <3>4
      <4>4. QED
        BY <3>1, <3>4, <4>1, <4>2, <4>3 DEF Told
    <3>5. QED
      BY <3>3, <3>4
  <2>3. QED
    BY <2>1, <2>2
<1>5. ASSUME NEW d \in Conns PROVE Queued(s, u, c, m, d)
  BY <1>1 DEF Edits, Keeps, Serves, Leaves, Queued
<1>6. ASSUME NEW d \in Conns PROVE Stays(s, u, c, m, d)
  BY <1>1 DEF Edits, Keeps, Serves, Stays
<1>7. u.on = s.on /\ ~Stranded(u)
  BY <1>1 DEF Edits, Keeps, Serves, Stranded
<1>8. Effect(s, u, c, m)
  BY <1>4, <1>5, <1>6, <1>7 DEF Effect
<1>9. QED
  BY <1>8 DEF u

(* remove_req() for a LOCK_RELEASED *)
LEMMA RemoveReqEdits ==
    ASSUME NEW s, Sound(s), NEW c \in Conns
    PROVE  Edits(s, remove_req(s, c), {}, c, "LOCK_RELEASED")
<1> DEFINE t == remove_req(s, c)
<1>1. Edit(s, t, {c}) /\ Leaves(s.requests, t.requests, {c})
  BY RemoveReqEdit
<1>2. /\ t.registered = s.registered /\ t.clients = s.clients
      /\ t.toSched = s.toSched /\ t.on = s.on
  BY RemoveReqSound
<1> HIDE DEF t
<1>3. Keeps(s, t, {})
  BY <1>2 DEF Keeps
<1>4. Edits(s, t, {}, c, "LOCK_RELEASED")
  BY <1>1, <1>3 DEF Edits, Edit, Leaves
<1>5. QED
  BY <1>4 DEF t

(* delete_client(), whatever it is called for *)
LEMMA DeleteClientEdits ==
    ASSUME NEW s, Sound(s), NEW c \in s.clients, NEW m
    PROVE  Edits(s, delete_client(s, c), {c}, c, m)
<1> DEFINE t == delete_client(s, c)
<1>1. c \in Conns
  BY DEF Sound, Records
<1>2. Edit(s, t, {c}) /\ Leaves(s.requests, t.requests, {c}) /\ Keeps(s, t, {c})
  BY <1>1, DeleteClientEdit
<1> HIDE DEF t
<1>3. Edits(s, t, {c}, c, m)
  BY <1>1, <1>2 DEF Edits, Edit, Leaves
<1>4. QED
  BY <1>3 DEF t

(* insert_req() for a REQ_LOCK *)
LEMMA InsertReqEdits ==
    ASSUME NEW s, Sound(s), NEW c \in Conns
    PROVE  Edits(s, insert_req(s, c), {}, c, "REQ_LOCK")
<1> DEFINE t == insert_req(s, c)
<1>1. /\ Edit(s, t, {})
      /\ \A d \in Conns : In(t.requests, d) <=> In(s.requests, d) \/ d = c
      /\ t.clients = s.clients /\ t.toSched = s.toSched
      /\ t.registered = s.registered /\ t.on = s.on
  BY InsertReqEdit
<1> HIDE DEF t
<1>2. Keeps(s, t, {})
  BY <1>1 DEF Keeps
<1>3. Edits(s, t, {}, c, "REQ_LOCK")
  BY <1>1, <1>2 DEF Edits, Edit
<1>4. QED
  BY <1>3 DEF t

(* The fields that Effect is about, but for what is written to the clients *)
Same(s, t) ==
    /\ t.on = s.on /\ t.held = s.held /\ t.requests = s.requests /\ t.clients = s.clients
    /\ t.toSched = s.toSched

(* A step that changes nothing here *)
LEMMA SameEffect ==
    ASSUME NEW s, NEW t, NEW c, NEW m, Same(s, t), t.registered = s.registered,
           t.toClient = s.toClient, s.exited = "no", s.on \in BOOLEAN,
           m \in {"SCHED_ON", "SCHED_OFF"} => s.on = (m = "SCHED_ON"),
           m = "REQ_LOCK" => ~s.on
    PROVE  Effect(s, t, c, m)
<1>1. ASSUME NEW d \in Conns PROVE Told(s, t, c, m, d)
  BY DEF Same, Told
<1>2. ASSUME NEW d \in Conns PROVE Queued(s, t, c, m, d)
  BY DEF Same, Queued
<1>3. ASSUME NEW d \in Conns PROVE Stays(s, t, c, m, d)
  BY DEF Same, Stays
<1>4. t.on = IF m \in {"SCHED_ON", "SCHED_OFF"} THEN m = "SCHED_ON" ELSE s.on
  BY DEF Same
<1>5. Stranded(t) => Stranded(s)
  BY DEF Same, Stranded
<1>6. QED
  BY <1>1, <1>2, <1>3, <1>4, <1>5 DEF Effect

(* send_message() to c, of the status it registers for or, by the timer      *)
(* thread, of DROP_LOCK to the holder.                                       *)
LEMMA SentEffect ==
    ASSUME NEW s, NEW t, NEW c \in Conns, NEW m, Same(s, t), s.exited = "no",
           s.toClient \in [Conns -> Seq(Messages)],
           NEW x, t.toClient = [s.toClient EXCEPT ![c] = Append(s.toClient[c], x)],
           \/ /\ m = "REGISTER" /\ t.registered = s.registered \cup {c}
              /\ x = IF t.on THEN "SCHED_ON" ELSE "SCHED_OFF"
              /\ c \in s.clients
           \/ /\ m = "none" /\ t.registered = s.registered /\ x = "DROP_LOCK"
              /\ s.held /\ s.requests[1] = c /\ In(s.requests, c)
    PROVE  Effect(s, t, c, m)
<1>1. ASSUME NEW d \in Conns PROVE Told(s, t, c, m, d)
  <2>1. CASE d # c
    BY <2>1 DEF Told
  <2>2. CASE d = c
    <3>1. t.toClient[d] = Append(s.toClient[d], x)
      BY <2>2
    <3>2. QED
      BY <2>2, <3>1 DEF Told
  <2>3. QED
    BY <2>1, <2>2
<1>2. ASSUME NEW d \in Conns PROVE Queued(s, t, c, m, d)
  BY DEF Same, Queued
<1>3. ASSUME NEW d \in Conns PROVE Stays(s, t, c, m, d)
  BY DEF Same, Stays
<1>4. t.on = s.on /\ (Stranded(t) => Stranded(s))
  BY DEF Same, Stranded
<1>5. QED
  BY <1>1, <1>2, <1>3, <1>4 DEF Effect

(* A change of status is told to every registered client, and clears the     *)
(* list.                                                                     *)
LEMMA BcastStatusEffect ==
    ASSUME NEW s, Sound(s), NEW c, NEW m \in {"SCHED_ON", "SCHED_OFF"}, NEW r, NEW t,
           r = [s EXCEPT !.on = (m = "SCHED_ON")],
           \/ /\ m = "SCHED_OFF"
              /\ t = [bcast_status(r) EXCEPT !.requests = <<>>, !.held = FALSE]
           \/ m = "SCHED_ON" /\ ~s.on /\ t = bcast_status(r)
    PROVE  Effect(s, t, c, m)
<1> DEFINE Result(d) == send_result(r, d)
           status == IF r.on THEN "SCHED_ON" ELSE "SCHED_OFF"
           gone == {d \in Audience(r) : Result(d) = "fail"}
           Keep(d) == d \notin gone
           ex == IF \E d \in Audience(r) : Result(d) = "die" THEN "sigpipe" ELSE r.exited
           cl == r.clients \ gone
           rg == r.registered \ gone
           rq == IF r.requests = <<>> THEN r.requests ELSE SelectSeq(r.requests, Keep)
           hd == r.held /\ r.requests # <<>> /\ r.requests[1] \notin gone
           in == [d \in Conns |-> IF d \in gone THEN <<>> ELSE r.toSched[d]]
           out == [d \in Conns |-> IF d \in Audience(r) /\ Result(d) = "ok"
                                   THEN Append(r.toClient[d], status) ELSE r.toClient[d]]
           b == [r EXCEPT !.exited = ex, !.clients = cl, !.registered = rg, !.requests = rq,
                          !.held = hd, !.toSched = in, !.toClient = out]
<1>1. bcast_status(r) = b
  BY DEF bcast_status
<1>2. /\ s \in Records /\ s.registered \subseteq s.clients /\ (~s.on => s.requests = <<>>)
      /\ s.registered \in SUBSET Conns
  BY DEF Sound, Records
<1>3. /\ r \in Records /\ r.on = (m = "SCHED_ON") /\ r.clients = s.clients
      /\ r.registered = s.registered /\ r.requests = s.requests
      /\ r.toSched = s.toSched /\ r.toClient = s.toClient
  BY <1>2 DEF Records
<1>4. s.requests = <<>> => rq = <<>> /\ hd = FALSE
  BY <1>3
<1>5. gone \subseteq s.registered /\ Audience(r) = s.registered
  BY <1>3 DEF Audience
<1>6. \A d \in Conns : in[d] = IF d \in gone THEN <<>> ELSE s.toSched[d]
  BY <1>3
<1>7. \A d \in Conns :
          \/ out[d] = s.toClient[d]
          \/ out[d] = Append(s.toClient[d], status) /\ d \in s.registered \ gone
  <2>1. ASSUME NEW d \in Conns
        PROVE  out[d] = IF d \in s.registered /\ Result(d) = "ok"
                        THEN Append(s.toClient[d], status) ELSE s.toClient[d]
    BY <1>3, <1>5
  <2>2. \A d : Result(d) = "ok" => d \notin gone
    OBVIOUS
  <2> HIDE DEF out, gone, Result
  <2>3. QED
    BY <2>1, <2>2
<1> HIDE DEF in, out, ex, rq, hd, gone
<1>8. /\ b.requests = rq /\ b.held = hd /\ b.toClient = out /\ b.on = r.on
      /\ b.clients = cl /\ b.registered = rg /\ b.toSched = in
  BY <1>3 DEF Records
<1>9. DOMAIN b = {"on", "held", "reset", "clients", "registered", "requests", "toSched",
                  "toClient", "round", "timer", "exited"}
  BY <1>3 DEF Records
<1> HIDE DEF b
<1>10. /\ t.requests = <<>> /\ t.held = FALSE /\ t.toClient = out /\ t.on = (m = "SCHED_ON")
       /\ t.clients = cl /\ t.registered = rg /\ t.toSched = in
  <2>1. CASE m = "SCHED_ON"
    BY <2>1, <1>1, <1>2, <1>3, <1>4, <1>8
  <2>2. CASE m = "SCHED_OFF"
    <3>1. t = [b EXCEPT !.requests = <<>>, !.held = FALSE]
      BY <1>1, <2>2
    <3>2. QED
      BY <1>3, <1>8, <1>9, <3>1
  <2>3. QED
    BY <2>1, <2>2
<1>11. \A d : ~In(t.requests, d)
  <2>1. Len(t.requests) = 0
    BY <1>10
  <2>2. QED
    BY <2>1 DEF In
<1>12. m = "SCHED_ON" => s.requests = <<>> /\ ~s.held
  BY <1>2 DEF Sound
<1>13. ASSUME NEW d \in Conns PROVE Told(s, t, c, m, d)
  BY <1>3, <1>7, <1>10 DEF Told
<1>14. ASSUME NEW d \in Conns PROVE Queued(s, t, c, m, d)
  <2>1. m = "SCHED_ON" => ~In(s.requests, d)
    BY <1>10, <1>11, <1>12
  <2>2. QED
    BY <1>11, <1>12, <2>1 DEF Queued
<1>15. ASSUME NEW d \in Conns PROVE Stays(s, t, c, m, d)
  BY <1>2, <1>3, <1>5, <1>6, <1>10 DEF Stays
<1>16. ~Stranded(t)
  BY <1>10 DEF Stranded
<1>17. QED
  BY <1>10, <1>13, <1>14, <1>15, <1>16 DEF Effect

(* process_msg() *)
LEMMA ProcessMsgEffect ==
    ASSUME NEW s, Sound(s), s.exited = "no", NEW c \in s.clients, NEW m \in Messages
    PROVE  Effect(s, process_msg(s, c, m), c, m)
<1> DEFINE u == process_msg(s, c, m)
           d == delete_client(s, c)
<1>0. /\ c \in Conns /\ s \in Records /\ s.on \in BOOLEAN
      /\ s.toClient \in [Conns -> Seq(Messages)]
  BY DEF Sound, Records
<1>1. ASSUME m \notin {"SCHED_ON", "SCHED_OFF"}, c \notin s.registered \/ m = "REGISTER"
      PROVE  Effect(s, d, c, m)
  <2>1. Edits(s, d, {c}, c, m)
    BY DeleteClientEdits
  <2>2. c \notin s.registered => ~In(s.requests, c)
    BY DEF Sound, Listed, In
  <2>3. c \notin s.registered => d.requests = s.requests /\ d.held = s.held
    BY <1>0, <2>2, DeleteClientEdit
  <2> HIDE DEF d
  <2>4. Stranded(d) => Stranded(s) \/ (m = "REGISTER" /\ c \in s.registered)
    BY <1>1, <2>3 DEF Stranded
  <2>5. QED
    BY <1>1, <2>1, <2>4, EditEffect
<1>2. ASSUME u = s, m \in {"SCHED_ON", "SCHED_OFF"} => s.on = (m = "SCHED_ON"),
             m = "REQ_LOCK" => ~s.on
      PROVE  Effect(s, s, c, m)
  <2>1. Same(s, s)
    BY DEF Same
  <2>2. QED
    BY <1>0, <1>2, <2>1, SameEffect
<1>3. CASE m = "REGISTER"
  <2> DEFINE st == IF s.on THEN "SCHED_ON" ELSE "SCHED_OFF"
             out == [s.toClient EXCEPT ![c] = Append(s.toClient[c], st)]
             t == [s EXCEPT !.toClient = out, !.registered = @ \cup {c}]
             e == [s EXCEPT !.exited = "sigpipe"]
  <2>1. u = register_client(s, c)
    BY <1>3 DEF process_msg
  <2>2. u = d \/ u = e \/ u = [Sent(s, c, st) EXCEPT !.registered = @ \cup {c}]
    BY <2>1 DEF register_client
  <2>3. [Sent(s, c, st) EXCEPT !.registered = @ \cup {c}] = t
    BY <1>0 DEF Sent, Records
  <2> HIDE DEF u
  <2>4. Effect(s, e, c, m)
    <3>1. Same(s, e) /\ e.registered = s.registered /\ e.toClient = s.toClient
      BY <1>0 DEF Records, Same
    <3> HIDE DEF e
    <3>2. QED
      BY <1>0, <1>3, <3>1, SameEffect
  <2>5. Effect(s, t, c, m)
    <3> HIDE DEF out, st
    <3>1. Same(s, t) /\ t.registered = s.registered \cup {c} /\ t.toClient = out
      BY <1>0 DEF Records, Same
    <3> HIDE DEF t
    <3>2. t.toClient = [s.toClient EXCEPT ![c] = Append(s.toClient[c], st)]
      BY <3>1 DEF out
    <3>3. st = IF t.on THEN "SCHED_ON" ELSE "SCHED_OFF"
      BY <3>1 DEF st, Same
    <3>4. QED
      BY <1>0, <1>3, <3>1, <3>2, <3>3, SentEffect
  <2>6. QED
    BY <1>1, <1>3, <2>2, <2>3, <2>4, <2>5 DEF u
<1>4. CASE m \in {"SCHED_ON", "SCHED_OFF"}
  <2> DEFINE r == [s EXCEPT !.on = (m = "SCHED_ON")]
  <2>1. CASE s.on = (m = "SCHED_ON")
    <3>1. u = s
      BY <1>4, <2>1 DEF process_msg
    <3>2. QED
      BY <1>2, <1>4, <2>1, <3>1
  <2>2. CASE s.on # (m = "SCHED_ON") /\ m = "SCHED_ON"
    <3>1. [s EXCEPT !.on = TRUE] = r /\ ~s.on
      BY <2>2, <1>0
    <3>2. u = bcast_status([s EXCEPT !.on = TRUE])
      BY <2>2, <3>1 DEF process_msg
    <3> HIDE DEF u
    <3>3. u = bcast_status(r) /\ r = [s EXCEPT !.on = (m = "SCHED_ON")]
      BY <3>1, <3>2
    <3> HIDE DEF r
    <3>4. Effect(s, u, c, m)
      BY <1>4, <2>2, <3>1, <3>3, BcastStatusEffect
    <3>5. QED
      BY <3>4 DEF u
  <2>3. CASE s.on # (m = "SCHED_ON") /\ m = "SCHED_OFF"
    <3>1. [s EXCEPT !.on = FALSE] = r /\ s.on
      BY <2>3, <1>0
    <3>2. u = [bcast_status([s EXCEPT !.on = FALSE]) EXCEPT !.requests = <<>>, !.held = FALSE]
      BY <2>3, <3>1 DEF process_msg
    <3> HIDE DEF u
    <3>3. /\ u = [bcast_status(r) EXCEPT !.requests = <<>>, !.held = FALSE]
          /\ r = [s EXCEPT !.on = (m = "SCHED_ON")]
      BY <3>1, <3>2
    <3> HIDE DEF r
    <3>4. Effect(s, u, c, m)
      BY <1>4, <2>3, <3>1, <3>3, BcastStatusEffect
    <3>5. QED
      BY <3>4 DEF u
  <2>4. QED
    BY <1>4, <2>1, <2>2, <2>3
<1>5. CASE m = "SET_TQ"
  <2>1. u = [[s EXCEPT !.reset = TRUE] EXCEPT !.timer = IF @ = "waiting" THEN "signaled" ELSE @]
    BY <1>5 DEF process_msg, Broadcast
  <2>2. Same(s, u) /\ u.registered = s.registered /\ u.toClient = s.toClient
    BY <1>0, <2>1 DEF Records, Same
  <2> HIDE DEF u
  <2>3. Effect(s, u, c, m)
    BY <1>0, <1>5, <2>2, SameEffect
  <2>4. QED
    BY <2>3 DEF u
<1>6. CASE m \in {"REQ_LOCK", "LOCK_RELEASED"}
  <2>1. CASE c \notin s.registered
    <3>1. u = d
      BY <1>6, <2>1 DEF process_msg
    <3>2. QED
      BY <1>1, <1>6, <2>1, <3>1
  <2>2. CASE c \in s.registered /\ ~s.on
    <3>1. u = s
      BY <1>6, <2>2 DEF process_msg
    <3>2. QED
      BY <1>2, <1>6, <2>2, <3>1
  <2>3. CASE c \in s.registered /\ s.on
    <3>1. ASSUME NEW t, Sound(t), Edits(s, t, {}, c, m)
          PROVE  Effect(s, Reschedule(t), c, m)
      <4>1. CASE t.held
        <5>1. ~Stranded(t) /\ Reschedule(t) = t
          BY <4>1 DEF Stranded, Reschedule
        <5>2. QED
          BY <1>6, <3>1, <5>1, EditEffect
      <4>2. CASE ~t.held
        BY <1>6, <3>1, <4>2, EditServeEffect DEF Reschedule
      <4>3. QED
        BY <4>1, <4>2
    <3>2. CASE m = "REQ_LOCK"
      <4>1. u = Reschedule(insert_req(s, c))
        BY <2>3, <3>2 DEF process_msg
      <4>2. Sound(insert_req(s, c)) /\ Edits(s, insert_req(s, c), {}, c, m)
        BY <1>0, <2>3, <3>2, InsertReqSound, InsertReqEdits
      <4>3. QED
        BY <3>1, <4>1, <4>2
    <3>3. CASE m = "LOCK_RELEASED"
      <4>1. u = Reschedule(remove_req(s, c))
        BY <2>3, <3>3 DEF process_msg
      <4>2. Sound(remove_req(s, c)) /\ Edits(s, remove_req(s, c), {}, c, m)
        BY <1>0, <3>3, RemoveReqSound, RemoveReqEdits
      <4>3. QED
        BY <3>1, <4>1, <4>2
    <3>4. QED
      BY <1>6, <3>2, <3>3
  <2>4. QED
    BY <2>1, <2>2, <2>3
<1>7. CASE m \in {"LOCK_OK", "DROP_LOCK", "OTHER"}
  <2>1. u = s
    BY <1>7 DEF process_msg
  <2>2. QED
    BY <1>2, <1>7, <2>1
<1>8. QED
  BY <1>3, <1>4, <1>5, <1>6, <1>7 DEF Messages

-----------------------------------------------------------------------------
(* The actions *)

(* A step that becomes the record t *)
LEMMA BecomeEffect ==
    ASSUME NEW s, NEW t, NEW c, NEW m, Effect(s, t, c, m), Become(t)
    PROVE  Effect(s, State', c, m)
<1> DEFINE u == State'
<1>1. /\ u.on = t.on /\ u.held = t.held /\ u.clients = t.clients
      /\ u.registered = t.registered /\ u.requests = t.requests
      /\ u.toSched = t.toSched /\ u.toClient = t.toClient /\ u.exited = t.exited
  BY DEF State, Become
<1> HIDE DEF u
<1>2. Effect(s, u, c, m)
  BY <1>1 DEF Effect, Told, Queued, Stays, Stranded
<1>3. QED
  BY <1>2 DEF u

(* Without a message it does not matter whose event it was *)
LEMMA NoMessageEffect ==
    ASSUME NEW s, NEW t, NEW c, Effect(s, t, c, "none")
    PROVE  \A d : Effect(s, t, d, "none")
<1> SUFFICES ASSUME NEW d PROVE Effect(s, t, d, "none")
  OBVIOUS
<1>1. ASSUME NEW e \in Conns
      PROVE  Told(s, t, d, "none", e) /\ Queued(s, t, d, "none", e) /\ Stays(s, t, d, "none", e)
  <2>1. Told(s, t, c, "none", e) /\ Queued(s, t, c, "none", e) /\ Stays(s, t, c, "none", e)
    BY DEF Effect
  <2>2. Told(s, t, d, "none", e)
    BY <2>1 DEF Told
  <2>3. Queued(s, t, d, "none", e)
    BY <2>1 DEF Queued
  <2>4. Stays(s, t, d, "none", e)
    BY <2>1 DEF Stays
  <2>5. QED
    BY <2>2, <2>3, <2>4
<1>2. /\ t.on = IF "none" \in {"SCHED_ON", "SCHED_OFF"} THEN "none" = "SCHED_ON" ELSE s.on
      /\ Stranded(t) => Stranded(s)
  BY DEF Effect
<1>3. QED
  BY <1>1, <1>2 DEF Effect

(* The state when c's message has been read and not handled yet *)
Popped(c) == [State EXCEPT !.toSched = [toSched EXCEPT ![c] = Tail(toSched[c])]]

LEMMA ReceiveEffect ==
    ASSUME IInv, NEW c \in Conns, ReceiveMsg(c)
    PROVE  Effect(Popped(c), State', c, Head(toSched[c]))
<1> DEFINE in == [toSched EXCEPT ![c] = Tail(toSched[c])]
           t == Popped(c)
           m == Head(toSched[c])
<1>1. State \in Records /\ Sound(State) /\ toSched \in [Conns -> Seq(Messages)]
  BY DEF IInv, Sound, Records, State
<1>2. toSched[c] \in Seq(Messages) /\ toSched[c] # <<>>
  BY <1>1 DEF ReceiveMsg
<1>3. m \in Messages /\ Tail(toSched[c]) \in Seq(Messages)
  BY <1>2, HeadTailProperties
<1>4. in \in [Conns -> Seq(Messages)]
  BY <1>1, <1>3
<1>5. Become(process_msg(t, c, m))
  BY DEF ReceiveMsg, State, Popped
<1>6. t = [State EXCEPT !.toSched = in]
  BY DEF Popped
<1> HIDE DEF in, m, t
<1>7. Sound(t) /\ c \in t.clients /\ t.exited = "no"
  BY <1>1, <1>4, <1>6 DEF Sound, Records, State, ReceiveMsg, NextEvent, Running
<1>8. Effect(t, process_msg(t, c, m), c, m)
  BY <1>3, <1>7, ProcessMsgEffect
<1>9. Effect(t, State', c, m)
  BY <1>5, <1>8, BecomeEffect
<1>10. QED
  BY <1>9 DEF t, m

LEMMA HangupEffect ==
    ASSUME IInv, NEW c \in Conns, Hangup(c)
    PROVE  Effect(State, State', c, "none") /\ c \notin clients'
<1> DEFINE t == delete_client(State, c)
           u == after_hangup(t)
<1>1. Sound(State) /\ State.exited = "no" /\ c \in State.clients /\ State \in Records
  BY DEF IInv, Sound, State, Hangup, NextEvent, Running
<1>2. Sound(t) /\ Edits(State, t, {c}, c, "none")
  BY <1>1, DeleteClientSound, DeleteClientEdits
<1>3. Become(u)
  BY DEF Hangup
<1> HIDE DEF t
<1>4. Effect(State, u, c, "none")
  <2>1. CASE ~t.held /\ t.on
    <3>1. u = try_schedule(t)
      BY <2>1 DEF after_hangup
    <3>2. QED
      BY <1>2, <2>1, <3>1, EditServeEffect
  <2>2. CASE ~(~t.held /\ t.on)
    <3>1. u = t
      BY <2>2 DEF after_hangup
    <3>2. ~Stranded(t)
      BY <1>2, <2>2 DEF Sound, Stranded
    <3>3. QED
      BY <1>2, <3>1, <3>2, EditEffect
  <2>3. QED
    BY <2>1, <2>2
<1>5. c \notin u.clients
  <2>1. c \notin t.clients
    BY <1>2 DEF Edits, Keeps
  <2>2. CASE ~t.held /\ t.on
    <3>1. PICK h \in SUBSET Conns : Serves(t, try_schedule(t), h)
      BY <1>2, <2>2, TryScheduleServes
    <3>2. QED
      BY <2>1, <2>2, <3>1 DEF after_hangup, Serves, Keeps
  <2>3. CASE ~(~t.held /\ t.on)
    BY <2>1, <2>3 DEF after_hangup
  <2>4. QED
    BY <2>2, <2>3
<1> HIDE DEF u
<1>6. clients' = u.clients
  BY <1>3 DEF Become
<1>7. QED
  BY <1>3, <1>4, <1>5, <1>6, BecomeEffect

(* One iteration of timer_thr_fn() *)
LEMMA TimerEffect ==
    ASSUME IInv, TimerNext
    PROVE  \A c : Effect(State, State', c, "none")
<1>0. /\ Sound(State) /\ State \in Records /\ State.exited = "no" /\ State.on \in BOOLEAN
      /\ State.toClient \in [Conns -> Seq(Messages)]
  <2>1. exited = "no"
    BY DEF TimerNext, TimerStart, TimerDeadline, TimerSpurious, TimerSignaled, TimerIdle,
           TimerOldRound, TimerDrop, TimerStep, Running
  <2>2. QED
    BY <2>1 DEF IInv, Sound, Records, State
<1>1. ASSUME NEW s \in Records, NEW t \in Records, NEW c, Effect(s, t, c, "none")
      PROVE  Effect(s, Arm(t), c, "none")
  <2> DEFINE u == Arm(t)
  <2>1. /\ u.on = t.on /\ u.held = t.held /\ u.clients = t.clients
        /\ u.registered = t.registered /\ u.requests = t.requests
        /\ u.toSched = t.toSched /\ u.toClient = t.toClient /\ u.exited = t.exited
    BY DEF Arm, Records
  <2> HIDE DEF u
  <2>2. Effect(s, u, c, "none")
    BY <1>1, <2>1 DEF Effect, Told, Queued, Stays, Stranded
  <2>3. QED
    BY <2>2 DEF u
<1>2. ASSUME NEW t, Same(State, t), t.registered = State.registered,
             t.toClient = State.toClient
      PROVE  Effect(State, t, Lsock, "none")
  BY <1>0, <1>2, SameEffect
<1>3. Effect(State, State, Lsock, "none")
  BY <1>2 DEF Same
<1>4. Effect(State, Arm(State), Lsock, "none")
  BY <1>0, <1>1, <1>3
<1>5. ASSUME NEW to \in {"waiting", "signaled", "timedout"}
      PROVE  Effect(State, [State EXCEPT !.timer = to], Lsock, "none")
  <2> DEFINE t == [State EXCEPT !.timer = to]
  <2>1. Same(State, t) /\ t.registered = State.registered /\ t.toClient = State.toClient
    BY <1>0 DEF Records, Same
  <2> HIDE DEF t
  <2>2. Effect(State, t, Lsock, "none")
    BY <1>2, <2>1
  <2>3. QED
    BY <2>2 DEF t
<1>6. CASE TimerStart \/ TimerIdle \/ TimerOldRound
  <2>1. Become(Arm(State))
    BY <1>6 DEF TimerStart, TimerIdle, TimerOldRound
  <2>2. QED
    BY <1>4, <2>1, BecomeEffect, NoMessageEffect
<1>7. CASE TimerDeadline \/ TimerSpurious \/ TimerSignaled
  <2>1. \/ Become([State EXCEPT !.timer = "timedout"])
        \/ Become([State EXCEPT !.timer = "signaled"])
        \/ Become([State EXCEPT !.timer = "waiting"])
        \/ Become(Arm(State))
    BY <1>7 DEF TimerDeadline, TimerSpurious, TimerSignaled
  <2>2. Effect(State, State', Lsock, "none")
    BY <1>4, <1>5, <2>1, BecomeEffect
  <2>3. QED
    BY <2>2, NoMessageEffect
<1>8. CASE TimerDrop
  <2> DEFINE holder == requests[1]
             out == [toClient EXCEPT ![holder] = Append(toClient[holder], "DROP_LOCK")]
             x == [State EXCEPT !.toClient = out]
             d == delete_client(State, holder)
             e == [State EXCEPT !.exited = "sigpipe"]
  <2>1. lock_held
    BY <1>8 DEF TimerDrop, TimerNothingToDo
  <2>2. State.held /\ State.requests[1] = holder /\ In(State.requests, holder)
    BY <1>0, <2>1, SoundList DEF State
  <2>3. holder \in State.registered /\ holder \in State.clients /\ holder \in Conns
    BY <1>0, <2>2 DEF Sound, Listed, In, Records
  <2>4. Become(Arm(Sent(State, holder, "DROP_LOCK"))) \/ Become(Arm(try_schedule(d))) \/ Become(e)
    BY <1>8 DEF TimerDrop
  <2>5. Sent(State, holder, "DROP_LOCK") = x
    BY DEF Sent, State
  <2> HIDE DEF holder
  <2>6. Effect(State, Arm(x), holder, "none")
    <3>1. out = [State.toClient EXCEPT ![holder] = Append(State.toClient[holder], "DROP_LOCK")]
      BY DEF State
    <3>2. out \in [Conns -> Seq(Messages)]
      <4>1. Append(State.toClient[holder], "DROP_LOCK") \in Seq(Messages)
        BY <1>0, <2>3, AppendProperties DEF Messages
      <4>2. QED
        BY <1>0, <2>3, <3>1, <4>1
    <3> HIDE DEF out
    <3>3. /\ x \in Records /\ Same(State, x) /\ x.registered = State.registered
          /\ x.toClient = out
      BY <1>0, <3>2 DEF Records, Same
    <3> HIDE DEF x
    <3>4. Effect(State, x, holder, "none")
      BY <1>0, <2>2, <2>3, <3>1, <3>3, SentEffect
    <3>5. QED
      BY <1>0, <1>1, <3>3, <3>4
  <2>7. Effect(State, Arm(try_schedule(d)), holder, "none")
    <3>1. /\ Sound(d) /\ Edits(State, d, {holder}, holder, "none")
          /\ Edit(State, d, {holder})
      BY <1>0, <2>3, DeleteClientSound, DeleteClientEdits, DeleteClientEdit
    <3> HIDE DEF d
    <3>2. ~d.held
      BY <2>2, <3>1 DEF Edit
    <3>3. Effect(State, try_schedule(d), holder, "none") /\ try_schedule(d) \in Records
      BY <3>1, <3>2, EditServeEffect, TryScheduleSound DEF Sound
    <3>4. QED
      BY <1>0, <1>1, <3>3
  <2>8. Effect(State, e, Lsock, "none")
    <3>1. Same(State, e) /\ e.registered = State.registered /\ e.toClient = State.toClient
      BY <1>0 DEF Records, Same
    <3> HIDE DEF e
    <3>2. QED
      BY <1>2, <3>1
  <2> HIDE DEF x, d, e
  <2>9. \E c : Effect(State, State', c, "none")
    BY <2>4, <2>5, <2>6, <2>7, <2>8, BecomeEffect
  <2>10. QED
    BY <2>9, NoMessageEffect
<1>9. QED
  BY <1>6, <1>7, <1>8 DEF TimerNext

-----------------------------------------------------------------------------
(* The round of the timer thread *)

(* From s to t nobody is told anything and nobody gets the lock *)
Calm(s, t) ==
    /\ t.round = s.round /\ t.reset = s.reset /\ t.timer = s.timer
    /\ t.toClient = s.toClient
    /\ t.held => s.held /\ t.requests[1] = s.requests[1]

(* What a step of the main thread other than SET_TQ does to the state of     *)
(* the timer thread: a new round, to be timed anew, begins with LOCK_OK and  *)
(* with nothing else.                                                        *)
Timing(s, t) ==
    /\ t.timer = s.timer \/ (s.timer = "waiting" /\ t.timer = "signaled")
    /\ \A d \in Conns : t.toClient[d] # Append(s.toClient[d], "DROP_LOCK")
    /\ \/ /\ t.round = s.round /\ t.reset = s.reset
          /\ t.held => s.held /\ t.requests[1] = s.requests[1]
          /\ \A d \in Conns : t.toClient[d] # Append(s.toClient[d], "LOCK_OK")
       \/ /\ t.round /\ t.reset /\ t.held
          /\ \E d \in Conns : t.toClient[d] = Append(s.toClient[d], "LOCK_OK")

LEMMA DifferentMessages ==
    ASSUME NEW q \in Seq(Messages), NEW x \in Messages, NEW y \in Messages, x # y
    PROVE  Append(q, x) # Append(q, y) /\ q # Append(q, x)
<1>1. Append(q, x)[Len(q) + 1] = x /\ Append(q, y)[Len(q) + 1] = y
  BY AppendProperties
<1>2. q # Append(q, x)
  BY NotAppended
<1>3. QED
  BY <1>1, <1>2

LEMMA CalmTiming ==
    ASSUME NEW s, Sound(s), NEW t, Calm(s, t)
    PROVE  Timing(s, t)
<1>1. s.toClient \in [Conns -> Seq(Messages)] /\ {"LOCK_OK", "DROP_LOCK"} \subseteq Messages
  BY SoundList DEF Messages
<1>2. \A d \in Conns : /\ s.toClient[d] # Append(s.toClient[d], "LOCK_OK")
                       /\ s.toClient[d] # Append(s.toClient[d], "DROP_LOCK")
  BY <1>1, NotAppended
<1>3. QED
  BY <1>2 DEF Calm, Timing

LEMMA RemoveReqCalm ==
    ASSUME NEW s, Sound(s), NEW c \in Conns
    PROVE  Calm(s, remove_req(s, c)) /\ Calm(s, delete_client(s, c))
<1> DEFINE t == remove_req(s, c)
           u == delete_client(s, c)
<1>1. Edit(s, t, {c}) /\ Edit(s, u, {c})
  BY RemoveReqEdit, DeleteClientEdit
<1>2. t.round = s.round /\ t.reset = s.reset /\ t.timer = s.timer
  <2>1. \E h, r : t = [s EXCEPT !.held = h, !.requests = r] \/ t = s
    BY DEF remove_req
  <2>2. s \in Records
    BY SoundList
  <2> HIDE DEF t
  <2>3. QED
    BY <2>1, <2>2 DEF Records
<1>3. t \in Records
  BY RemoveReqSound DEF Sound
<1>4. u = [t EXCEPT !.clients = @ \ {c}, !.registered = @ \ {c}, !.toSched = [@ EXCEPT ![c] = <<>>]]
  BY DEF delete_client
<1> HIDE DEF t
<1>5. u.round = t.round /\ u.reset = t.reset /\ u.timer = t.timer
  BY <1>3, <1>4 DEF Records
<1> HIDE DEF u
<1>6. Calm(s, t) /\ Calm(s, u)
  BY <1>1, <1>2, <1>5 DEF Edit, Calm
<1>7. QED
  BY <1>6 DEF t, u

LEMMA InsertReqCalm ==
    ASSUME NEW s, Sound(s), NEW c \in Conns
    PROVE  Calm(s, insert_req(s, c))
<1> DEFINE t == insert_req(s, c)
<1>1. \E r : t = [s EXCEPT !.requests = r] \/ t = s
  BY DEF insert_req
<1>2. s \in Records /\ Edit(s, t, {})
  BY SoundList, InsertReqEdit
<1> HIDE DEF t
<1>3. Calm(s, t)
  BY <1>1, <1>2 DEF Records, Calm, Edit
<1>4. QED
  BY <1>3 DEF t

LEMMA DeleteFirstCalm ==
    ASSUME NEW s, Sound(s), ~s.held, NEW n
    PROVE  Calm(s, DeleteFirst(s, n))
<1> DEFINE t == DeleteFirst(s, n)
<1>1. \E r, in, cl, rg : t = [s EXCEPT !.held = s.held /\ n = 0, !.requests = r, !.clients = cl,
                                        !.registered = rg, !.toSched = in]
  BY DEF DeleteFirst
<1>2. s \in Records
  BY SoundList
<1> HIDE DEF t
<1>3. Calm(s, t)
  BY <1>1, <1>2 DEF Records, Calm
<1>4. QED
  BY <1>3 DEF t

(* A grant begins a round *)
LEMMA GrantTiming ==
    ASSUME NEW s, Sound(s), s.requests # <<>>
    PROVE  Timing(s, Grant(s))
<1> DEFINE c == s.requests[1]
           out == [s.toClient EXCEPT ![c] = Append(s.toClient[c], "LOCK_OK")]
           t == [Sent(s, c, "LOCK_OK") EXCEPT !.round = TRUE, !.held = TRUE, !.reset = TRUE]
           u == Grant(s)
<1>1. s \in Records /\ c \in Conns /\ s.toClient \in [Conns -> Seq(Messages)]
  BY SoundList, GrantServes
<1>2. Sent(s, c, "LOCK_OK") = [s EXCEPT !.toClient = out]
  BY DEF Sent
<1>3. u = [t EXCEPT !.timer = IF @ = "waiting" THEN "signaled" ELSE @]
  BY DEF Grant, Broadcast
<1>4. /\ out[c] = Append(s.toClient[c], "LOCK_OK")
      /\ \A d \in Conns : d # c => out[d] = s.toClient[d]
  BY <1>1
<1> HIDE DEF c, out
<1>5. /\ t.held = TRUE /\ t.round = TRUE /\ t.reset = TRUE /\ t.toClient = out
      /\ DOMAIN t = DOMAIN s /\ t.timer = s.timer
  BY <1>1, <1>2 DEF Records
<1>6. DOMAIN s = {"on", "held", "reset", "clients", "registered", "requests", "toSched",
                  "toClient", "round", "timer", "exited"}
  BY <1>1 DEF Records
<1> HIDE DEF t
<1>7. /\ u.held = TRUE /\ u.round = TRUE /\ u.reset = TRUE /\ u.toClient = out
      /\ u.timer = IF s.timer = "waiting" THEN "signaled" ELSE s.timer
  BY <1>3, <1>5, <1>6
<1> HIDE DEF u
<1>8. \A d \in Conns : u.toClient[d] # Append(s.toClient[d], "DROP_LOCK")
  <2>1. {"LOCK_OK", "DROP_LOCK"} \subseteq Messages
    BY DEF Messages
  <2>2. QED
    <3> SUFFICES ASSUME NEW d \in Conns
                 PROVE  out[d] # Append(s.toClient[d], "DROP_LOCK")
      BY <1>7
    <3>1. s.toClient[d] \in Seq(Messages)
      BY <1>1
    <3>2. /\ Append(s.toClient[d], "LOCK_OK") # Append(s.toClient[d], "DROP_LOCK")
          /\ s.toClient[d] # Append(s.toClient[d], "DROP_LOCK")
      BY <2>1, <3>1, DifferentMessages
    <3>3. QED
      BY <1>4, <3>2
<1>9. Timing(s, u)
  BY <1>1, <1>4, <1>7, <1>8 DEF Timing
<1>10. QED
  BY <1>9 DEF u

(* try_schedule() after an edit that left the lock free *)
LEMMA ServeTiming ==
    ASSUME NEW s, Sound(s), NEW t, Sound(t), Calm(s, t), ~t.held
    PROVE  Timing(s, try_schedule(t))
<1> DEFINE q == t.requests
           Served == {i \in DOMAIN q : send_result(t, q[i]) # "fail"}
           first == CHOOSE i \in Served : \A j \in Served : i <= j
           n == first - 1
           e == DeleteFirst(t, n)
           x == [e EXCEPT !.exited = "sigpipe"]
           u == try_schedule(t)
<1>1. u = DeleteFirst(t, Len(q)) \/ (Served # {} /\ (u = x \/ u = Grant(e)))
  BY DEF try_schedule
<1>2. Calm(t, DeleteFirst(t, Len(q))) /\ Calm(t, e)
  BY DeleteFirstCalm
<1>3. ASSUME NEW r, Calm(t, r) PROVE Timing(s, r)
  BY <1>3, CalmTiming DEF Calm
<1>4. ASSUME Served # {} PROVE Timing(s, x) /\ Timing(s, Grant(e))
  <2>0. q \in Seq(Conns) /\ Len(q) \in Nat /\ DOMAIN q = 1..Len(q)
    BY SoundList
  <2>1. Served \in SUBSET Nat
    BY <2>0
  <2>2. \E i \in Served : \A j \in Served : i <= j
    BY <1>4, <2>1, LeastMember
  <2>3. first \in Served
    BY <2>2
  <2>4. n \in 0..Len(q) /\ Len(q) - n # 0
    BY <2>0, <2>3
  <2> HIDE DEF first, Served, n
  <2>5. Sound(e) /\ Len(e.requests) # 0
    BY <2>4, DeleteFirstSound
  <2>6. e \in Records /\ e.requests # <<>>
    BY <2>5, SoundList, EmptyIffNoLength
  <2> HIDE DEF e
  <2>7. Timing(e, Grant(e))
    BY <2>5, <2>6, GrantTiming
  <2>8. Calm(e, x)
    BY <2>6 DEF Records, Calm
  <2>9. Calm(s, e)
    BY <1>2 DEF Calm
  <2>10. Timing(s, x)
    <3> HIDE DEF x
    <3>1. Calm(s, x)
      BY <2>8, <2>9 DEF Calm
    <3>2. QED
      BY <3>1, CalmTiming
  <2>11. Timing(s, Grant(e))
    <3> DEFINE g == Grant(e)
    <3> HIDE DEF g
    <3>1. Timing(e, g)
      BY <2>7 DEF g
    <3>2. Timing(s, g)
      BY <2>9, <3>1 DEF Timing, Calm
    <3>3. QED
      BY <3>2 DEF g
  <2>12. QED
    BY <2>10, <2>11
<1>5. QED
  BY <1>1, <1>2, <1>3, <1>4

(* Messages of another kind *)
LEMMA OtherTiming ==
    ASSUME NEW s, Sound(s), NEW t, t.round = s.round, t.reset = s.reset, t.timer = s.timer,
           t.held => s.held /\ t.requests[1] = s.requests[1],
           \A d \in Conns : \/ t.toClient[d] = s.toClient[d]
                            \/ \E m \in {"SCHED_ON", "SCHED_OFF"} :
                                  t.toClient[d] = Append(s.toClient[d], m)
    PROVE  Timing(s, t)
<1>1. /\ s.toClient \in [Conns -> Seq(Messages)]
      /\ {"LOCK_OK", "DROP_LOCK", "SCHED_ON", "SCHED_OFF"} \subseteq Messages
  BY SoundList DEF Messages
<1>2. ASSUME NEW d \in Conns, NEW x \in {"LOCK_OK", "DROP_LOCK"}
      PROVE  t.toClient[d] # Append(s.toClient[d], x)
  <2>1. s.toClient[d] # Append(s.toClient[d], x)
    BY <1>1, NotAppended
  <2>2. \A m \in {"SCHED_ON", "SCHED_OFF"} : Append(s.toClient[d], m) # Append(s.toClient[d], x)
    BY <1>1, DifferentMessages
  <2>3. QED
    BY <2>1, <2>2
<1>3. QED
  BY <1>2 DEF Timing

LEMMA BcastStatusTiming ==
    ASSUME NEW s, Sound(s), NEW o \in BOOLEAN, NEW t,
           \/ t = bcast_status([s EXCEPT !.on = o]) /\ s.requests = <<>>
           \/ t = [bcast_status([s EXCEPT !.on = o]) EXCEPT !.requests = <<>>, !.held = FALSE]
    PROVE  Timing(s, t)
<1> DEFINE r == [s EXCEPT !.on = o]
           status == IF r.on THEN "SCHED_ON" ELSE "SCHED_OFF"
           b == bcast_status(r)
<1>1. /\ s \in Records /\ s.toClient \in [Conns -> Seq(Messages)]
  BY SoundList
<1>2. /\ r \in Records /\ r.round = s.round /\ r.reset = s.reset /\ r.timer = s.timer
      /\ r.held = s.held /\ r.toClient = s.toClient /\ r.requests = s.requests
  BY <1>1 DEF Records
<1> DEFINE Result(d) == send_result(r, d)
           gone == {d \in Audience(r) : Result(d) = "fail"}
           Keep(d) == d \notin gone
           ex == IF \E d \in Audience(r) : Result(d) = "die" THEN "sigpipe" ELSE r.exited
           cl == r.clients \ gone
           rg == r.registered \ gone
           rq == IF r.requests = <<>> THEN r.requests ELSE SelectSeq(r.requests, Keep)
           hd == r.held /\ r.requests # <<>> /\ r.requests[1] \notin gone
           in == [d \in Conns |-> IF d \in gone THEN <<>> ELSE r.toSched[d]]
           out == [d \in Conns |-> IF d \in Audience(r) /\ Result(d) = "ok"
                                   THEN Append(r.toClient[d], status) ELSE r.toClient[d]]
<1>3. b = [r EXCEPT !.exited = ex, !.clients = cl, !.registered = rg, !.requests = rq,
                    !.held = hd, !.toSched = in, !.toClient = out]
  BY DEF bcast_status
<1>4. /\ hd => r.requests # <<>>
      /\ \A d \in Conns : out[d] = r.toClient[d] \/ out[d] = Append(r.toClient[d], status)
  OBVIOUS
<1> HIDE DEF r, ex, cl, rg, rq, hd, in, out
<1> HIDE DEF b, status
<1>5. /\ b.round = s.round /\ b.reset = s.reset /\ b.timer = s.timer /\ b.toClient = out
      /\ b.held => s.requests # <<>>
      /\ DOMAIN b = {"on", "held", "reset", "clients", "registered", "requests", "toSched",
                     "toClient", "round", "timer", "exited"}
  BY <1>2, <1>3, <1>4 DEF Records
<1>6. (t = b /\ s.requests = <<>>) \/ t = [b EXCEPT !.requests = <<>>, !.held = FALSE]
  BY DEF b, r
<1>7. /\ t.round = s.round /\ t.reset = s.reset /\ t.timer = s.timer /\ t.toClient = out
      /\ ~t.held
  BY <1>5, <1>6
<1>8. status \in {"SCHED_ON", "SCHED_OFF"}
  BY DEF status
<1>9. QED
  BY <1>2, <1>4, <1>7, <1>8, OtherTiming

LEMMA RegisterTiming ==
    ASSUME NEW s, Sound(s), NEW c \in Conns
    PROVE  Timing(s, register_client(s, c))
<1> DEFINE st == IF s.on THEN "SCHED_ON" ELSE "SCHED_OFF"
           out == [s.toClient EXCEPT ![c] = Append(s.toClient[c], st)]
           t == [s EXCEPT !.toClient = out, !.registered = @ \cup {c}]
           e == [s EXCEPT !.exited = "sigpipe"]
           u == register_client(s, c)
<1>1. s \in Records /\ s.toClient \in [Conns -> Seq(Messages)]
  BY SoundList
<1>2. u = delete_client(s, c) \/ u = e \/ u = [Sent(s, c, st) EXCEPT !.registered = @ \cup {c}]
  BY DEF register_client
<1>3. [Sent(s, c, st) EXCEPT !.registered = @ \cup {c}] = t
  BY <1>1 DEF Sent, Records
<1> HIDE DEF u
<1>4. Timing(s, delete_client(s, c))
  BY RemoveReqCalm, CalmTiming
<1>5. Timing(s, e)
  <2>1. Calm(s, e)
    BY <1>1 DEF Records, Calm
  <2> HIDE DEF e
  <2>2. QED
    BY <2>1, CalmTiming
<1>6. Timing(s, t)
  <2>1. \A d \in Conns : out[d] = IF d = c THEN Append(s.toClient[d], st) ELSE s.toClient[d]
    BY <1>1
  <2>2. st \in {"SCHED_ON", "SCHED_OFF"}
    OBVIOUS
  <2> HIDE DEF out, st
  <2>3. /\ t.round = s.round /\ t.reset = s.reset /\ t.timer = s.timer /\ t.held = s.held
        /\ t.requests = s.requests /\ t.toClient = out
    BY <1>1 DEF Records
  <2> HIDE DEF t
  <2>4. \A d \in Conns : \/ t.toClient[d] = s.toClient[d]
                         \/ \E m \in {"SCHED_ON", "SCHED_OFF"} :
                               t.toClient[d] = Append(s.toClient[d], m)
    BY <2>1, <2>2, <2>3
  <2>5. t.held => s.held /\ t.requests[1] = s.requests[1]
    BY <2>3
  <2>6. QED
    BY <2>3, <2>4, <2>5, OtherTiming
<1>7. QED
  BY <1>2, <1>3, <1>4, <1>5, <1>6 DEF u

LEMMA ProcessMsgTiming ==
    ASSUME NEW s, Sound(s), NEW c \in Conns, NEW m \in Messages, m # "SET_TQ"
    PROVE  Timing(s, process_msg(s, c, m))
<1> DEFINE u == process_msg(s, c, m)
<1>0. Calm(s, s) /\ s.on \in BOOLEAN
  BY SoundList DEF Calm, Sound, Records
<1>1. CASE m = "REGISTER"
  BY <1>1, RegisterTiming DEF process_msg
<1>2. CASE m = "SCHED_ON"
  <2>1. u = s \/ (u = bcast_status([s EXCEPT !.on = TRUE]) /\ s.requests = <<>>)
    BY <1>2 DEF process_msg, Sound
  <2>2. QED
    BY <1>0, <2>1, CalmTiming, BcastStatusTiming
<1>3. CASE m = "SCHED_OFF"
  <2>1. \/ u = s
        \/ u = [bcast_status([s EXCEPT !.on = FALSE]) EXCEPT !.requests = <<>>, !.held = FALSE]
    BY <1>3 DEF process_msg
  <2>2. QED
    BY <1>0, <2>1, CalmTiming, BcastStatusTiming
<1>4. ASSUME NEW t, Sound(t), Calm(s, t) PROVE Timing(s, Reschedule(t))
  BY <1>4, CalmTiming, ServeTiming DEF Reschedule
<1>5. CASE m \in {"REQ_LOCK", "LOCK_RELEASED"}
  <2>1. CASE c \notin s.registered
    <3>1. u = delete_client(s, c)
      BY <1>5, <2>1 DEF process_msg
    <3>2. QED
      BY <3>1, RemoveReqCalm, CalmTiming
  <2>2. CASE c \in s.registered /\ ~s.on
    <3>1. u = s
      BY <1>5, <2>2 DEF process_msg
    <3>2. QED
      BY <1>0, <3>1, CalmTiming
  <2>3. CASE c \in s.registered /\ s.on
    <3>1. u = Reschedule(insert_req(s, c)) \/ u = Reschedule(remove_req(s, c))
      BY <1>5, <2>3 DEF process_msg
    <3>2. Sound(insert_req(s, c)) /\ Calm(s, insert_req(s, c))
      BY <2>3, InsertReqSound, InsertReqCalm
    <3>3. Sound(remove_req(s, c)) /\ Calm(s, remove_req(s, c))
      BY RemoveReqSound, RemoveReqCalm
    <3>4. QED
      BY <1>4, <3>1, <3>2, <3>3
  <2>4. QED
    BY <2>1, <2>2, <2>3
<1>6. CASE m \in {"LOCK_OK", "DROP_LOCK", "OTHER"}
  <2>1. u = s
    BY <1>6 DEF process_msg
  <2>2. QED
    BY <1>0, <2>1, CalmTiming
<1>7. QED
  BY <1>1, <1>2, <1>3, <1>5, <1>6 DEF Messages

(* The events of the main thread *)
LEMMA MainTiming ==
    ASSUME IInv, MainNext,
           \A c \in Conns : ReceiveMsg(c) => Head(toSched[c]) # "SET_TQ"
    PROVE  Timing(State, State')
<1>1. Sound(State) /\ State \in Records
  BY DEF IInv, Sound
<1>2. ASSUME NEW t, Timing(State, t), Become(t) PROVE Timing(State, State')
  <2> DEFINE u == State'
  <2>1. /\ u.held = t.held /\ u.toClient = t.toClient /\ u.round = t.round
        /\ u.requests = t.requests /\ u.reset = t.reset /\ u.timer = t.timer
    BY <1>2 DEF State, Become
  <2> HIDE DEF u
  <2>2. Timing(State, u)
    BY <1>2, <2>1 DEF Timing
  <2>3. QED
    BY <2>2 DEF u
<1>3. ASSUME UNCHANGED <<toClient, lock_held, requests, must_reset_timer, round_changed, timer>>
      PROVE  Timing(State, State')
  <2>1. Calm(State, State')
    BY <1>3 DEF Calm, State
  <2>2. QED
    BY <1>1, <2>1, CalmTiming
<1>4. ASSUME NEW c \in Conns, ReceiveMsg(c) PROVE Timing(State, State')
  <2> DEFINE in == [toSched EXCEPT ![c] = Tail(toSched[c])]
             t == Popped(c)
             m == Head(toSched[c])
  <2>1. toSched \in [Conns -> Seq(Messages)]
    BY <1>1 DEF Records, State
  <2>2. toSched[c] \in Seq(Messages) /\ toSched[c] # <<>>
    BY <1>4, <2>1 DEF ReceiveMsg
  <2>3. m \in Messages /\ Tail(toSched[c]) \in Seq(Messages)
    BY <2>2, HeadTailProperties
  <2>4. in \in [Conns -> Seq(Messages)]
    BY <2>1, <2>3
  <2>5. Become(process_msg(t, c, m)) /\ m # "SET_TQ"
    BY <1>4 DEF ReceiveMsg, State, Popped
  <2>6. t = [State EXCEPT !.toSched = in]
    BY DEF Popped
  <2> HIDE DEF in, m, t
  <2>7. Sound(t) /\ Calm(State, t) /\ Calm(t, State)
    BY <1>1, <2>4, <2>6 DEF Sound, Records, State, Calm
  <2>8. Timing(t, process_msg(t, c, m))
    BY <2>3, <2>5, <2>7, ProcessMsgTiming
  <2> DEFINE u == process_msg(t, c, m)
  <2> HIDE DEF u
  <2>9. Timing(t, u)
    BY <2>8 DEF u
  <2>10. Timing(State, u)
    BY <2>7, <2>9 DEF Timing, Calm
  <2>11. QED
    BY <1>2, <2>5, <2>10 DEF u
<1>5. ASSUME NEW c \in Conns, Hangup(c) PROVE Timing(State, State')
  <2> DEFINE t == delete_client(State, c)
             u == after_hangup(t)
  <2>1. Become(u) /\ c \in State.clients
    BY <1>5 DEF Hangup, State
  <2>2. Sound(t) /\ Calm(State, t)
    BY <1>1, <2>1, DeleteClientSound, RemoveReqCalm
  <2> HIDE DEF t
  <2>3. Timing(State, u)
    BY <1>1, <2>2, CalmTiming, ServeTiming DEF after_hangup
  <2>4. QED
    BY <1>2, <2>1, <2>3
<1>6. CASE EpollWait
  BY <1>3, <1>6 DEF EpollWait, commVars
<1>7. ASSUME NEW c \in Conns, Accept(c) \/ AcceptFails(c) \/ StaleEvent(c)
      PROVE  Timing(State, State')
  BY <1>3, <1>7 DEF Accept, AcceptFails, StaleEvent
<1>8. QED
  BY <1>4, <1>5, <1>6, <1>7 DEF MainNext

-----------------------------------------------------------------------------
(* Writes that do not fail *)

(* Whoever is to be told something by try_schedule() has room for it *)
Fits(s) == \A d \in Conns : In(s.requests, d) => send_result(s, d) # "fail"

(* The scheduler closes the connections of g and no other *)
Closes(s, t, g) == t.clients = s.clients \ g /\ t.exited \in {s.exited, "sigpipe"}

LEMMA DeleteNobody ==
    ASSUME NEW s, Sound(s)
    PROVE  Closes(s, DeleteFirst(s, 0), {})
<1> DEFINE gone == {s.requests[i] : i \in 1..0}
           t == DeleteFirst(s, 0)
<1>1. gone = {}
  OBVIOUS
<1>2. 0 \in 0..Len(s.requests)
  BY SoundList
<1>3. Keeps(s, t, gone)
  BY <1>2, DeleteFirstLeaves
<1>4. t.exited = s.exited
  <2>1. \E h, r, in, cl, rg : t = [s EXCEPT !.held = h, !.requests = r, !.clients = cl,
                                          !.registered = rg, !.toSched = in]
    BY DEF DeleteFirst
  <2>2. s \in Records
    BY SoundList
  <2> HIDE DEF t
  <2>3. QED
    BY <2>1, <2>2 DEF Records
<1> HIDE DEF t, gone
<1>5. Closes(s, t, {})
  BY <1>1, <1>3, <1>4 DEF Keeps, Closes
<1>6. QED
  BY <1>5 DEF t

(* try_schedule() deletes nobody who has room *)
LEMMA ServeCloses ==
    ASSUME NEW s, Sound(s), Fits(s)
    PROVE  Closes(s, try_schedule(s), {})
<1> DEFINE q == s.requests
           Served == {i \in DOMAIN q : send_result(s, q[i]) # "fail"}
           first == CHOOSE i \in Served : \A j \in Served : i <= j
           n == first - 1
           t == DeleteFirst(s, n)
           x == [t EXCEPT !.exited = "sigpipe"]
           u == try_schedule(s)
<1>0. q \in Seq(Conns) /\ Len(q) \in Nat /\ DOMAIN q = 1..Len(q) /\ s \in Records
  BY SoundList
<1>1. u = IF Served = {} THEN DeleteFirst(s, Len(q))
          ELSE IF send_result(s, q[first]) = "die" THEN x ELSE Grant(t)
  BY DEF try_schedule
<1>2. Served = 1..Len(q)
  BY <1>0 DEF Fits, In
<1>3. CASE Len(q) = 0
  <2>1. Served = {}
    BY <1>2, <1>3
  <2>2. u = DeleteFirst(s, 0)
    BY <1>1, <1>3, <2>1
  <2>3. QED
    BY <2>2, DeleteNobody
<1>4. CASE Len(q) # 0
  <2>1. 1 \in Served /\ \A j \in Served : 1 <= j
    BY <1>0, <1>2, <1>4
  <2>2. first \in Served /\ \A j \in Served : first <= j
    BY <2>1
  <2>3. first = 1 /\ Served # {}
    BY <1>0, <1>2, <2>1, <2>2
  <2>4. n = 0
    BY <2>3
  <2> HIDE DEF first, Served, n
  <2>5. t = DeleteFirst(s, 0) /\ 0 \in 0..Len(q)
    BY <1>0, <2>4
  <2>6. Sound(t) /\ Len(t.requests) = Len(q) - 0 /\ Closes(s, t, {})
    BY <2>5, DeleteFirstSound, DeleteNobody
  <2> HIDE DEF t
  <2>7. t.requests # <<>> /\ t \in Records
    BY <1>0, <1>4, <2>6, SoundList, EmptyIffNoLength
  <2>8. Closes(s, x, {})
    BY <2>6, <2>7 DEF Closes, Records
  <2>9. Grant(t).clients = t.clients
    BY <2>6, <2>7, GrantServes
  <2>10. Grant(t).exited = t.exited
    <3> DEFINE out == [t.toClient EXCEPT ![t.requests[1]] = Append(t.toClient[t.requests[1]], "LOCK_OK")]
               y == [t EXCEPT !.toClient = out, !.round = TRUE, !.held = TRUE, !.reset = TRUE]
    <3>1. Sent(t, t.requests[1], "LOCK_OK") = [t EXCEPT !.toClient = out]
      BY DEF Sent
    <3> HIDE DEF out
    <3>2. y = [[t EXCEPT !.toClient = out] EXCEPT !.round = TRUE, !.held = TRUE, !.reset = TRUE]
      BY <2>7 DEF Records
    <3>3. /\ y.exited = t.exited
          /\ DOMAIN y = {"on", "held", "reset", "clients", "registered", "requests", "toSched",
                         "toClient", "round", "timer", "exited"}
      BY <2>7 DEF Records
    <3> HIDE DEF y
    <3>4. Grant(t) = [y EXCEPT !.timer = IF @ = "waiting" THEN "signaled" ELSE @]
      BY <3>1, <3>2 DEF Grant, Broadcast
    <3>5. QED
      BY <3>3, <3>4
  <2>11. Closes(s, Grant(t), {})
    BY <2>6, <2>9, <2>10 DEF Closes
  <2>12. u = x \/ u = Grant(t)
    BY <1>1, <2>3
  <2>13. QED
    BY <2>8, <2>11, <2>12
<1>5. QED
  BY <1>3, <1>4

(* send_result() of a record with the same channels *)
LEMMA SameResult ==
    ASSUME NEW s, NEW t, t.toClient = s.toClient
    PROVE  \A d : send_result(t, d) = send_result(s, d)
BY DEF send_result

(* What the message m of c, or its end, asks to be written *)
Answerable(s, c) ==
    \A d \in Conns : In(s.requests, d) \/ d = c =>
        (s.held /\ s.requests[1] = d) \/ send_result(s, d) # "fail"

LEMMA EditFits ==
    ASSUME NEW s, Sound(s), NEW c \in Conns, Answerable(s, c), NEW t, Sound(t), ~t.held,
           \/ t = insert_req(s, c)
           \/ t = remove_req(s, c)
           \/ t = delete_client(s, c)
    PROVE  Fits(t)
<1>1. CASE t = insert_req(s, c)
  <2>1. /\ Edit(s, t, {})
        /\ \A d \in Conns : In(t.requests, d) <=> In(s.requests, d) \/ d = c
    BY <1>1, InsertReqEdit
  <2>2. ~s.held /\ t.toClient = s.toClient
    BY <2>1 DEF Edit
  <2>3. QED
    BY <2>1, <2>2, SameResult DEF Fits, Answerable
<1>2. CASE t = remove_req(s, c) \/ t = delete_client(s, c)
  <2>1. Edit(s, t, {c}) /\ Leaves(s.requests, t.requests, {c})
    BY <1>2, RemoveReqEdit, DeleteClientEdit
  <2>2. t.toClient = s.toClient /\ (s.held => s.requests[1] = c)
    BY <2>1 DEF Edit
  <2>3. \A d \in Conns : In(t.requests, d) => In(s.requests, d) /\ d # c
    BY <2>1 DEF Leaves
  <2>4. QED
    BY <2>2, <2>3, SameResult DEF Fits, Answerable
<1>3. QED
  BY <1>1, <1>2

(* process_msg() with the scheduler on closes nobody's connection, unless    *)
(* the client registers twice or asks before it registered.                  *)
LEMMA ProcessMsgCloses ==
    ASSUME NEW s, Sound(s), s.on, NEW c \in Conns, NEW m \in Messages, m # "SCHED_OFF",
           Answerable(s, c),
           m = "REGISTER" => c \notin s.registered /\ send_result(s, c) # "fail",
           m \in {"REQ_LOCK", "LOCK_RELEASED"} => c \in s.registered
    PROVE  Closes(s, process_msg(s, c, m), {})
<1> DEFINE u == process_msg(s, c, m)
<1>0. s \in Records /\ Closes(s, s, {})
  BY SoundList DEF Closes
<1>1. CASE m = "REGISTER"
  <2> DEFINE st == IF s.on THEN "SCHED_ON" ELSE "SCHED_OFF"
             out == [s.toClient EXCEPT ![c] = Append(s.toClient[c], st)]
             t == [s EXCEPT !.toClient = out, !.registered = @ \cup {c}]
             e == [s EXCEPT !.exited = "sigpipe"]
  <2>1. u = register_client(s, c)
    BY <1>1 DEF process_msg
  <2>2. u = e \/ u = [Sent(s, c, st) EXCEPT !.registered = @ \cup {c}]
    BY <1>1, <2>1 DEF register_client
  <2>3. [Sent(s, c, st) EXCEPT !.registered = @ \cup {c}] = t
    BY <1>0 DEF Sent, Records
  <2> HIDE DEF u, out, st
  <2>4. Closes(s, e, {}) /\ Closes(s, t, {})
    BY <1>0 DEF Records, Closes
  <2>5. QED
    BY <2>2, <2>3, <2>4 DEF u
<1>2. CASE m = "SET_TQ"
  <2>1. u = [[s EXCEPT !.reset = TRUE] EXCEPT !.timer = IF @ = "waiting" THEN "signaled" ELSE @]
    BY <1>2 DEF process_msg, Broadcast
  <2> HIDE DEF u
  <2>2. Closes(s, u, {})
    BY <1>0, <2>1 DEF Records, Closes
  <2>3. QED
    BY <2>2 DEF u
<1>3. CASE m \in {"SCHED_ON", "LOCK_OK", "DROP_LOCK", "OTHER"}
  <2>1. u = s
    BY <1>3 DEF process_msg
  <2>2. QED
    BY <1>0, <2>1
<1>4. ASSUME NEW t, Sound(t), t.clients = s.clients, t.exited = s.exited, ~t.held => Fits(t)
      PROVE  Closes(s, Reschedule(t), {})
  <2>1. CASE t.held
    BY <1>4, <2>1 DEF Reschedule, Closes
  <2>2. CASE ~t.held
    <3>1. Closes(t, try_schedule(t), {})
      BY <1>4, <2>2, ServeCloses
    <3>2. QED
      BY <1>4, <2>2, <3>1 DEF Reschedule, Closes
  <2>3. QED
    BY <2>1, <2>2
<1>5. CASE m = "REQ_LOCK"
  <2> DEFINE t == insert_req(s, c)
  <2>1. u = Reschedule(t) /\ c \in s.registered
    BY <1>5 DEF process_msg
  <2>2. Sound(t)
    BY <2>1, InsertReqSound
  <2>3. ~t.held => Fits(t)
    BY <2>2, EditFits
  <2>4. t.clients = s.clients /\ t.exited = s.exited
    <3>1. \E r : t = [s EXCEPT !.requests = r] \/ t = s
      BY DEF insert_req
    <3> HIDE DEF t
    <3>2. QED
      BY <1>0, <3>1 DEF Records
  <2> HIDE DEF t
  <2>5. QED
    BY <1>4, <2>1, <2>2, <2>3, <2>4
<1>6. CASE m = "LOCK_RELEASED"
  <2> DEFINE t == remove_req(s, c)
  <2>1. u = Reschedule(t)
    BY <1>6 DEF process_msg
  <2>2. Sound(t)
    BY RemoveReqSound
  <2>3. ~t.held => Fits(t)
    BY <2>2, EditFits
  <2>4. t.clients = s.clients /\ t.exited = s.exited
    <3>1. \E h, r : t = [s EXCEPT !.held = h, !.requests = r] \/ t = s
      BY DEF remove_req
    <3> HIDE DEF t
    <3>2. QED
      BY <1>0, <3>1 DEF Records
  <2> HIDE DEF t
  <2>5. QED
    BY <1>4, <2>1, <2>2, <2>3, <2>4
<1>7. QED
  BY <1>1, <1>2, <1>3, <1>5, <1>6 DEF Messages

(* A connection that ends is closed, and no other *)
LEMMA HangupCloses ==
    ASSUME NEW s, Sound(s), NEW c \in s.clients, Answerable(s, c)
    PROVE  Closes(s, after_hangup(delete_client(s, c)), {c})
<1> DEFINE r == remove_req(s, c)
           t == delete_client(s, c)
<1>1. c \in Conns /\ s \in Records
  BY SoundList DEF Sound, Records
<1>2. Sound(t) /\ t.clients = s.clients \ {c}
  BY <1>1, DeleteClientSound, DeleteClientEdit DEF Keeps
<1>3. ~t.held => Fits(t)
  BY <1>1, <1>2, EditFits
<1>4. t.exited = s.exited
  <2>1. \E h, q : r = [s EXCEPT !.held = h, !.requests = q] \/ r = s
    BY DEF remove_req
  <2>2. t = [r EXCEPT !.clients = @ \ {c}, !.registered = @ \ {c}, !.toSched = [@ EXCEPT ![c] = <<>>]]
    BY DEF delete_client
  <2>3. r \in Records
    BY <1>1, RemoveReqSound DEF Sound
  <2> HIDE DEF r, t
  <2>4. r.exited = s.exited
    BY <1>1, <2>1 DEF Records
  <2>5. t.exited = r.exited
    BY <2>2, <2>3 DEF Records
  <2>6. QED
    BY <2>4, <2>5
<1> HIDE DEF t
<1>5. CASE ~t.held /\ t.on
  <2>1. Closes(t, try_schedule(t), {})
    BY <1>2, <1>3, <1>5, ServeCloses
  <2>2. QED
    BY <1>2, <1>4, <1>5, <2>1 DEF after_hangup, Closes, t
<1>6. CASE ~(~t.held /\ t.on)
  BY <1>2, <1>4, <1>6 DEF after_hangup, Closes, t
<1>7. QED
  BY <1>5, <1>6

-----------------------------------------------------------------------------
(* What everybody is told *)

(* As long as the scheduler lives: a change of status reaches every client   *)
(* that stays registered and a repeated command nobody, a new client is      *)
(* registered or closed, and who releases the lock leaves the list.          *)
Tells(s, t, c, m) ==
    /\ m \in {"SCHED_ON", "SCHED_OFF"} /\ t.on = s.on => t.toClient = s.toClient
    /\ m \in {"SCHED_ON", "SCHED_OFF"} /\ t.on # s.on /\ t.exited = "no" =>
          \A d \in t.registered :
              t.toClient[d] = Append(s.toClient[d], IF t.on THEN "SCHED_ON" ELSE "SCHED_OFF")
    /\ m = "REGISTER" /\ c \notin s.registered /\ c \in t.clients /\ t.exited = "no" =>
          /\ c \in t.registered
          /\ t.toClient[c] = Append(s.toClient[c], IF t.on THEN "SCHED_ON" ELSE "SCHED_OFF")
    /\ m = "LOCK_RELEASED" => ~In(t.requests, c)

(* The status becomes o, and everybody is told *)
Switch(s, o, t) ==
    \/ t = bcast_status([s EXCEPT !.on = o])
    \/ t = [bcast_status([s EXCEPT !.on = o]) EXCEPT !.requests = <<>>, !.held = FALSE]

ToldAll(s, o, t) ==
    /\ t.on = o
    /\ t.exited = "no" =>
          \A d \in t.registered :
              t.toClient[d] = Append(s.toClient[d], IF o THEN "SCHED_ON" ELSE "SCHED_OFF")

LEMMA BcastStatusTells ==
    ASSUME NEW s, Sound(s), NEW o \in BOOLEAN, NEW t, Switch(s, o, t)
    PROVE  ToldAll(s, o, t)
<1> DEFINE r == [s EXCEPT !.on = o]
           status == IF r.on THEN "SCHED_ON" ELSE "SCHED_OFF"
           b == bcast_status(r)
           Result(d) == send_result(r, d)
           gone == {d \in Audience(r) : Result(d) = "fail"}
           Keep(d) == d \notin gone
           ex == IF \E d \in Audience(r) : Result(d) = "die" THEN "sigpipe" ELSE r.exited
           cl == r.clients \ gone
           rg == r.registered \ gone
           rq == IF r.requests = <<>> THEN r.requests ELSE SelectSeq(r.requests, Keep)
           hd == r.held /\ r.requests # <<>> /\ r.requests[1] \notin gone
           in == [d \in Conns |-> IF d \in gone THEN <<>> ELSE r.toSched[d]]
           out == [d \in Conns |-> IF d \in Audience(r) /\ Result(d) = "ok"
                                   THEN Append(r.toClient[d], status) ELSE r.toClient[d]]
<1>1. s \in Records /\ s.registered \in SUBSET Conns
  BY DEF Sound, Records
<1>2. /\ r \in Records /\ r.on = o /\ r.toClient = s.toClient /\ r.registered = s.registered
  BY <1>1 DEF Records
<1>3. b = [r EXCEPT !.exited = ex, !.clients = cl, !.registered = rg, !.requests = rq,
                    !.held = hd, !.toSched = in, !.toClient = out]
  BY DEF bcast_status
<1>4. ASSUME ex = "no", NEW d \in rg PROVE out[d] = Append(s.toClient[d], status)
  <2>1. d \in Audience(r) /\ d \in Conns /\ Result(d) # "fail"
    BY <1>1, <1>2, <1>4 DEF Audience
  <2>2. Result(d) # "die"
    BY <1>4, <2>1
  <2>3. Result(d) \in {"ok", "fail", "die"}
    BY DEF send_result
  <2>4. QED
    BY <1>2, <2>1, <2>2, <2>3
<1> HIDE DEF ex, cl, rg, rq, hd, in, out
<1>5. /\ b.on = r.on /\ b.exited = ex /\ b.registered = rg /\ b.toClient = out
      /\ DOMAIN b = {"on", "held", "reset", "clients", "registered", "requests", "toSched",
                     "toClient", "round", "timer", "exited"}
  BY <1>2, <1>3 DEF Records
<1>6. t = b \/ t = [b EXCEPT !.requests = <<>>, !.held = FALSE]
  BY DEF Switch, b, r
<1> HIDE DEF b, r
<1>7. t.on = o /\ t.exited = ex /\ t.registered = rg /\ t.toClient = out
  BY <1>2, <1>5, <1>6
<1>8. QED
  BY <1>2, <1>4, <1>7 DEF ToldAll

LEMMA ProcessMsgTells ==
    ASSUME NEW s, Sound(s), NEW c \in s.clients, NEW m \in Messages
    PROVE  Tells(s, process_msg(s, c, m), c, m)
<1> DEFINE u == process_msg(s, c, m)
<1>0. /\ c \in Conns /\ s \in Records /\ s.on \in BOOLEAN /\ s.toClient \in [Conns -> Seq(Messages)]
      /\ "SCHED_ON" # "SCHED_OFF" /\ "SCHED_ON" # "REGISTER" /\ "SCHED_OFF" # "REGISTER"
  BY DEF Sound, Records
<1>1. CASE m = "REGISTER"
  <2> DEFINE st == IF s.on THEN "SCHED_ON" ELSE "SCHED_OFF"
             out == [s.toClient EXCEPT ![c] = Append(s.toClient[c], st)]
             t == [s EXCEPT !.toClient = out, !.registered = @ \cup {c}]
             e == [s EXCEPT !.exited = "sigpipe"]
  <2>1. u = register_client(s, c)
    BY <1>1 DEF process_msg
  <2>2. u = delete_client(s, c) \/ u = e \/ u = [Sent(s, c, st) EXCEPT !.registered = @ \cup {c}]
    BY <2>1 DEF register_client
  <2>3. [Sent(s, c, st) EXCEPT !.registered = @ \cup {c}] = t
    BY <1>0 DEF Sent, Records
  <2>4. e.exited # "no"
    BY <1>0 DEF Records
  <2>5. c \in t.registered /\ t.toClient[c] = Append(s.toClient[c], st) /\ t.on = s.on
    BY <1>0 DEF Records
  <2>6. c \notin delete_client(s, c).clients
    BY DeleteClientEdits DEF Edits, Keeps
  <2> HIDE DEF u, t, e
  <2>7. c \in u.clients /\ u.exited = "no" =>
          /\ c \in u.registered /\ u.toClient[c] = Append(s.toClient[c], st) /\ u.on = s.on
    BY <2>2, <2>3, <2>4, <2>5, <2>6
  <2>8. Tells(s, u, c, m)
    BY <1>1, <2>7 DEF Tells
  <2>9. QED
    BY <2>8 DEF u
<1>2. CASE m \in {"SCHED_ON", "SCHED_OFF"} /\ s.on = (m = "SCHED_ON")
  <2>1. u = s
    BY <1>2 DEF process_msg
  <2>2. QED
    BY <1>2, <2>1 DEF Tells
<1>3. CASE m \in {"SCHED_ON", "SCHED_OFF"} /\ s.on # (m = "SCHED_ON")
  <2> DEFINE o == (m = "SCHED_ON")
  <2>1. Switch(s, o, u)
    <3>1. CASE m = "SCHED_ON"
      <4>1. ~s.on /\ u = bcast_status([s EXCEPT !.on = TRUE])
        BY <1>0, <1>3, <3>1 DEF process_msg
      <4>2. QED
        BY <3>1, <4>1 DEF Switch
    <3>2. CASE m = "SCHED_OFF"
      <4>1. s.on /\ u = [bcast_status([s EXCEPT !.on = FALSE]) EXCEPT !.requests = <<>>, !.held = FALSE]
        BY <1>0, <1>3, <3>2 DEF process_msg
      <4>2. o = FALSE
        BY <3>2
      <4>3. QED
        BY <4>1, <4>2 DEF Switch
    <3>3. QED
      BY <1>3, <3>1, <3>2
  <2>2. o \in BOOLEAN
    OBVIOUS
  <2> HIDE DEF u, o
  <2>3. ToldAll(s, o, u)
    BY <2>1, <2>2, BcastStatusTells
  <2>4. Tells(s, u, c, m)
    BY <1>3, <2>3 DEF Tells, ToldAll, o
  <2>5. QED
    BY <2>4 DEF u
<1>4. CASE m = "LOCK_RELEASED"
  <2>1. c \notin s.registered => ~In(s.requests, c)
    BY DEF Sound, Listed, In
  <2>2. CASE c \notin s.registered
    <3>1. u = delete_client(s, c)
      BY <1>4, <2>2 DEF process_msg
    <3>2. ~In(u.requests, c)
      BY <1>0, <2>1, <2>2, <3>1, DeleteClientEdit DEF Leaves
    <3>3. QED
      BY <1>4, <3>2 DEF Tells
  <2>3. CASE c \in s.registered /\ ~s.on
    <3>1. u = s /\ s.requests = <<>>
      BY <1>4, <2>3 DEF process_msg, Sound
    <3>2. ~In(u.requests, c)
      BY <3>1 DEF In
    <3>3. QED
      BY <1>4, <3>2 DEF Tells
  <2>4. CASE c \in s.registered /\ s.on
    <3> DEFINE r == remove_req(s, c)
    <3>1. u = Reschedule(r)
      BY <1>4, <2>4 DEF process_msg
    <3>2. Sound(r) /\ ~In(r.requests, c)
      BY <1>0, RemoveReqSound, RemoveReqEdit DEF Leaves
    <3> HIDE DEF r, u
    <3>3. CASE r.held
      BY <1>4, <3>1, <3>2, <3>3 DEF Tells, Reschedule, u
    <3>4. CASE ~r.held
      <4>1. PICK g \in SUBSET Conns : Serves(r, try_schedule(r), g)
        BY <3>2, <3>4, TryScheduleServes
      <4>2. ~In(try_schedule(r).requests, c)
        BY <1>0, <3>2, <4>1 DEF Serves, Leaves
      <4>3. QED
        BY <1>4, <3>1, <3>4, <4>2 DEF Tells, Reschedule, u
    <3>5. QED
      BY <3>3, <3>4
  <2>5. QED
    BY <2>2, <2>3, <2>4
<1>5. CASE m \notin {"REGISTER", "SCHED_ON", "SCHED_OFF", "LOCK_RELEASED"}
  BY <1>5 DEF Tells
<1>6. QED
  BY <1>1, <1>2, <1>3, <1>4, <1>5

(* The main thread receives a message *)
LEMMA ReceiveTells ==
    ASSUME IInv, NEW c \in Conns, ReceiveMsg(c)
    PROVE  Tells(State, State', c, Head(toSched[c]))
<1> DEFINE in == [toSched EXCEPT ![c] = Tail(toSched[c])]
           t == Popped(c)
           m == Head(toSched[c])
<1>0. c \in clients
  BY DEF ReceiveMsg, NextEvent
<1>1. Sound(State) /\ State \in Records /\ toSched \in [Conns -> Seq(Messages)]
  BY DEF IInv, Sound, Records, State
<1>2. toSched[c] \in Seq(Messages) /\ toSched[c] # <<>>
  BY <1>1 DEF ReceiveMsg
<1>3. m \in Messages /\ Tail(toSched[c]) \in Seq(Messages)
  BY <1>2, HeadTailProperties
<1>4. in \in [Conns -> Seq(Messages)]
  BY <1>1, <1>3
<1>5. Become(process_msg(t, c, m))
  BY DEF ReceiveMsg, State, Popped
<1>6. t = [State EXCEPT !.toSched = in]
  BY DEF Popped
<1> HIDE DEF in, m, t
<1>7. /\ Sound(t) /\ c \in t.clients /\ t.on = State.on /\ t.toClient = State.toClient
      /\ t.registered = State.registered
  BY <1>0, <1>1, <1>4, <1>6 DEF Sound, Records, State
<1> DEFINE u == process_msg(t, c, m)
           v == State'
<1>8. Tells(t, u, c, m)
  BY <1>3, <1>7, ProcessMsgTells
<1> HIDE DEF u
<1>9. /\ v.on = u.on /\ v.toClient = u.toClient /\ v.registered = u.registered
      /\ v.clients = u.clients /\ v.exited = u.exited /\ v.requests = u.requests
  BY <1>5 DEF Become, State, u
<1> HIDE DEF v
<1>10. Tells(State, v, c, m)
  BY <1>7, <1>8, <1>9 DEF Tells
<1>11. QED
  BY <1>10 DEF v, m
=============================================================================
