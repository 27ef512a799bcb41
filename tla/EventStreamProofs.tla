------------------------- MODULE EventStreamProofs -------------------------
(* What holds of EventStream for all pages, contents and bounds, when the  *)
(* backend resumes its world (Resume).                                     *)
EXTENDS EventStream, SequenceTheorems, TLAPS

-----------------------------------------------------------------------------
(* The inductive invariant.                                                *)

Kinds == {"closed", "open", "closing"}

\* The types the argument needs; what a page charts and lists plays no part in it.
Types ==
  /\ disk \in [rows : SUBSET Worlds, latest : Worlds]
  /\ server \in [up : BOOLEAN, world : Worlds \cup {NoWorld}]
  /\ session \in [Clients -> [state : Kinds, queue : Seq(Messages)]]
  /\ http \in [Clients -> [asked : Nat, answers : SUBSET Worlds]]
  /\ DOMAIN store = Clients

\* The snapshots table is one line of worlds, and the backend runs its newest.
OneLine ==
  /\ disk.latest \in disk.rows
  /\ \A w \in disk.rows : w.version <= disk.latest.version
  /\ \A v, w \in disk.rows : v.version = w.version => v = w
  /\ server.world = IF server.up THEN disk.latest ELSE NoWorld

\* What is on its way to a page, or on its screen, has been persisted.
KnownAt(c, rows) ==
  /\ \A i \in 1 .. Len(session[c].queue) :
       session[c].queue[i].kind = "state_update" => session[c].queue[i].body \in rows
  /\ http[c].answers \subseteq rows
  /\ store[c].world \in rows \cup {NoWorld}

Known == \A c \in Clients : KnownAt(c, disk.rows)

Inv == Types /\ OneLine /\ Known

LEMMA InvInit == Init => Inv
<1> SUFFICES ASSUME Init PROVE Inv
  OBVIOUS
<1>1. Initial \in Worlds
  BY ConstantsAssumption DEF Initial, Worlds
<1>2. Types
  BY <1>1 DEF Init, Types, Running, NoSession, Kinds
<1>3. OneLine
  BY <1>1 DEF Init, OneLine, Running, Worlds
<1>4. ASSUME NEW c \in Clients PROVE KnownAt(c, disk.rows)
  BY DEF Init, KnownAt, NoSession, EmptyStore
<1> QED
  BY <1>2, <1>3, <1>4 DEF Inv, Known

-----------------------------------------------------------------------------
(* What the parts of a step leave true.                                    *)

LEMMA UpdateIsMessage == \A w \in Worlds : Update(w) \in Messages
BY DEF Update, Messages

\* What is published goes to the end of the queue of every open session.
LEMMA PublishedTypes ==
  ASSUME Types, NEW ms \in Seq(Messages)
  PROVE  Published(ms) \in [Clients -> [state : Kinds, queue : Seq(Messages)]]
BY ConcatProperties DEF Published, Types

LEMMA PublishedQueues ==
  ASSUME Types, NEW ms \in Seq(Messages), NEW c \in Clients,
         NEW i \in 1 .. Len(Published(ms)[c].queue)
  PROVE  \/ /\ i \in 1 .. Len(session[c].queue)
            /\ Published(ms)[c].queue[i] = session[c].queue[i]
         \/ \E j \in 1 .. Len(ms) : Published(ms)[c].queue[i] = ms[j]
<1> DEFINE q == session[c].queue
<1>1. q \in Seq(Messages) /\ session[c] \in [state : Kinds, queue : Seq(Messages)]
  BY DEF Types
<1>2. CASE session[c].state = "open"
  <2>1. Published(ms)[c].queue = q \o ms
    BY <1>1, <1>2 DEF Published
  <2>2. /\ Len(q \o ms) = Len(q) + Len(ms)
        /\ \A k \in 1 .. Len(q) + Len(ms) :
             (q \o ms)[k] = IF k <= Len(q) THEN q[k] ELSE ms[k - Len(q)]
    BY <1>1, ConcatProperties
  <2>3. Len(q) \in Nat /\ Len(ms) \in Nat
    BY <1>1, LenProperties
  <2>4. CASE i <= Len(q)
    BY <2>1, <2>2, <2>3, <2>4
  <2>5. CASE i > Len(q)
    <3>1. i - Len(q) \in 1 .. Len(ms)
      BY <2>1, <2>2, <2>3, <2>5
    <3> QED
      BY <2>1, <2>2, <2>3, <2>5, <3>1
  <2>6. i <= Len(q) \/ i > Len(q)
    BY <2>1, <2>2, <2>3
  <2> QED
    BY <2>4, <2>5, <2>6
<1>3. CASE session[c].state # "open"
  BY <1>3 DEF Published
<1> QED
  BY <1>2, <1>3

LEMMA SeveredQueues ==
  ASSUME Types
  PROVE  /\ Severed \in [Clients -> [state : Kinds, queue : Seq(Messages)]]
         /\ \A c \in Clients : Severed[c].queue = session[c].queue /\ Severed[c].state # "open"
         /\ Unanswered \in [Clients -> [asked : Nat, answers : SUBSET Worlds]]
         /\ \A c \in Clients : Unanswered[c].answers = http[c].answers
BY DEF Severed, Unanswered, Types, Kinds

\* A page that is given a persisted world shows a persisted world.
LEMMA AppliedWorld ==
  ASSUME NEW s, NEW w
  PROVE  Applied(s, w).world = IF Outdated(s, w) THEN s.world ELSE w
BY DEF Applied

LEMMA AcceptedWorld ==
  ASSUME NEW s, NEW m
  PROVE  Accepted(s, m).world =
           IF m.kind = "state_update" /\ ~Outdated(s, m.body) THEN m.body ELSE s.world
BY AppliedWorld DEF Accepted, Noted

\* A new row, next in line, keeps the line.
LEMMA SavedLine ==
  ASSUME Types, OneLine, NEW w \in Worlds, w.version = disk.latest.version + 1
  PROVE  /\ Saved(w) \in [rows : SUBSET Worlds, latest : Worlds]
         /\ Saved(w).latest \in Saved(w).rows
         /\ \A x \in Saved(w).rows : x.version <= Saved(w).latest.version
         /\ \A x, y \in Saved(w).rows : x.version = y.version => x = y
<1>1. \A x \in disk.rows : x.version \in Nat /\ x.version < w.version
  BY DEF Types, OneLine, Worlds
<1>2. w.version \in Nat
  BY DEF Worlds
<1>3. /\ Saved(w).rows = disk.rows \cup {w} /\ Saved(w).latest = w
      /\ disk.rows \subseteq Worlds
  BY DEF Saved, Types
<1>4. Saved(w) \in [rows : SUBSET Worlds, latest : Worlds]
  BY <1>3 DEF Saved
<1>5. \A x, y \in disk.rows : x.version = y.version => x = y
  BY DEF OneLine
<1> QED
  BY <1>1, <1>2, <1>3, <1>4, <1>5

\* Nothing that was persisted is lost.
LEMMA KnownGrows ==
  ASSUME NEW c \in Clients, NEW rows, NEW more, rows \subseteq more, KnownAt(c, rows)
  PROVE  KnownAt(c, more)
BY DEF KnownAt

-----------------------------------------------------------------------------
(* Commits.                                                                *)

\* One step of the line: nothing, or the world that comes next.
LineStep == disk' = disk \/ \E w \in Worlds : server.up /\ disk' = Saved(w)

LEMMA CommitKeeps ==
  ASSUME Inv, NEW w \in Worlds, NEW notes \in Seq(Notes), NEW callers,
         w.version = server.world.version + 1, Commit(w, notes, callers)
  PROVE  Inv'
<1>1. /\ server.up /\ server.world = disk.latest /\ store' = store
      /\ w.version = disk.latest.version + 1
  BY DEF Inv, OneLine, Commit
<1>2. Notes \subseteq Messages /\ \A n \in Notes : n.kind # "state_update"
  BY DEF Notes
<1>3. notes \in Seq(Messages) /\ Append(notes, Update(w)) \in Seq(Messages)
  BY <1>2, UpdateIsMessage, SeqMonotonic, AppendProperties
<1>4. CASE Refused(w) /\ UNCHANGED <<session, http>>
  BY <1>1, <1>4 DEF Refused, Inv, Types, OneLine, Known, KnownAt
<1>5. CASE /\ disk' = Saved(w) /\ server' = Down
           /\ session' = Severed /\ http' = Unanswered
  <2>1. Types' /\ OneLine'
    BY <1>1, <1>5, SavedLine, SeveredQueues DEF Inv, Types, OneLine, Down
  <2>2. ASSUME NEW c \in Clients PROVE KnownAt(c, disk.rows)'
    BY <1>1, <1>5, SeveredQueues DEF Inv, Known, KnownAt, Saved
  <2> QED
    BY <2>1, <2>2 DEF Inv, Known
<1>6. ASSUME NEW ms \in Seq(Messages),
             \A i \in 1 .. Len(ms) : ms[i].kind = "state_update" => ms[i].body = w,
             disk' = Saved(w), server' = Running(w), session' = Published(ms),
             http' = Answered(callers, w) \/ http' = http
      PROVE  Inv'
  <2>1. /\ http' \in [Clients -> [asked : Nat, answers : SUBSET Worlds]]
        /\ \A c \in Clients : http'[c].answers \subseteq http[c].answers \cup {w}
    <3>1. http \in [Clients -> [asked : Nat, answers : SUBSET Worlds]]
      BY DEF Inv, Types
    <3>2. CASE http' = http
      BY <3>1, <3>2
    <3>3. CASE http' = Answered(callers, w)
      BY <3>1, <3>3 DEF Answered
    <3> QED
      BY <1>6, <3>2, <3>3
  <2>2. Types' /\ OneLine'
    BY <1>1, <1>6, <2>1, SavedLine, PublishedTypes
    DEF Inv, Types, OneLine, Running, Saved
  <2>3. ASSUME NEW c \in Clients PROVE KnownAt(c, disk.rows)'
    <3>1. disk'.rows = disk.rows \cup {w}
      BY <1>6 DEF Saved
    <3>2. http'[c].answers \subseteq disk'.rows
      BY <2>1, <3>1 DEF Inv, Known, KnownAt
    <3>3. store'[c].world \in disk'.rows \cup {NoWorld}
      BY <1>1, <3>1 DEF Inv, Known, KnownAt
    <3>4. ASSUME NEW i \in 1 .. Len(session'[c].queue),
                 session'[c].queue[i].kind = "state_update"
          PROVE  session'[c].queue[i].body \in disk'.rows
      <4>1. \/ /\ i \in 1 .. Len(session[c].queue)
               /\ session'[c].queue[i] = session[c].queue[i]
            \/ \E j \in 1 .. Len(ms) : session'[c].queue[i] = ms[j]
        BY <1>6, <3>4, PublishedQueues DEF Inv
      <4> QED
        BY <1>6, <3>1, <3>4, <4>1 DEF Inv, Known, KnownAt
    <3> QED
      BY <3>2, <3>3, <3>4 DEF KnownAt
  <2> QED
    BY <2>2, <2>3 DEF Inv, Known
<1>7. \A i \in 1 .. Len(notes) : notes[i].kind # "state_update"
  BY <1>2, ElementOfSeq
<1>8. CASE /\ disk' = Saved(w) /\ server' = Running(w)
           /\ session' = Published(Append(notes, Update(w)))
           /\ http' = Answered(callers, w)
  <2>1. ASSUME NEW i \in 1 .. Len(Append(notes, Update(w)))
        PROVE  \/ Append(notes, Update(w))[i] = Update(w)
               \/ Append(notes, Update(w))[i].kind # "state_update"
    BY <1>3, <1>7, UpdateIsMessage, AppendProperties, LenProperties
  <2> DEFINE ms == Append(notes, Update(w))
  <2>2. ms \in Seq(Messages) /\ session' = Published(ms)
    BY <1>3, <1>8
  <2>3. \A i \in 1 .. Len(ms) : ms[i].kind = "state_update" => ms[i].body = w
    BY <2>1 DEF Update
  <2> HIDE DEF ms
  <2> QED
    BY <1>6, <1>8, <2>2, <2>3
<1>9. ASSUME NEW told \in 0 .. Len(notes),
             disk' = Saved(w), server' = Running(w),
             session' = Published(SubSeq(notes, 1, told)), http' = http
      PROVE  Inv'
  <2>1. /\ SubSeq(notes, 1, told) \in Seq(Messages)
        /\ \A i \in 1 .. Len(SubSeq(notes, 1, told)) :
             SubSeq(notes, 1, told)[i].kind # "state_update"
    BY <1>3, <1>7, <1>9, LenProperties
  <2> QED
    BY <1>6, <1>9, <2>1
<1> QED
  BY <1>4, <1>5, <1>8, <1>9 DEF Commit

\* The world that may come after the running one: time has moved by a tick, not at
\* all, or back to the start.
Succeeds(w) ==
  \E m \in Marks : \E t \in {0, server.world.tick, server.world.tick + 1} :
    w = [version |-> server.world.version + 1, tick |-> t, mark |-> m]

\* The messages that may go with it: an event, and the plan of the running world if
\* it is a settlement.
NotesFor(w, m, bound) ==
  {EventOf(w)} \cup (IF w.tick = server.world.tick + 1
                     THEN {PlanOf(server.world, m, bound)} ELSE {})

Tells(w, notes) ==
  \E m \in Marks, bound \in BOOLEAN : \A i \in 1 .. Len(notes) :
    notes[i] \in NotesFor(w, m, bound)

\* Every command and every settlement commits a world that may come next.
LEMMA CommitsSucceed ==
  ASSUME Inv, Settle \/ Edit \/ Control \/ Reset
  PROVE  \E w \in Worlds, notes \in Seq(Notes), callers \in SUBSET Clients :
           Succeeds(w) /\ Tells(w, notes) /\ Commit(w, notes, callers)
<1> DEFINE old == server.world
<1>1. old \in Worlds
  BY DEF Inv, Types, OneLine, Settle, Edit, Control, Reset, Commit
<1>2. old.version + 1 \in Nat /\ old.tick \in Nat
  BY <1>1 DEF Worlds
<1>3. /\ \A w \in Worlds : EventOf(w) \in Notes
      /\ \A w \in Worlds, m \in Marks, bound \in BOOLEAN : PlanOf(w, m, bound) \in Notes
  BY DEF PlanOf, EventOf, Notes, Messages, Worlds
<1>4. ASSUME NEW m \in Marks, NEW t \in {0, old.tick, old.tick + 1}
      PROVE  /\ [version |-> old.version + 1, tick |-> t, mark |-> m] \in Worlds
             /\ Succeeds([version |-> old.version + 1, tick |-> t, mark |-> m])
  BY <1>2, <1>4 DEF Worlds, Succeeds
<1> HIDE DEF old
<1>5. \A callers \in Callers : callers \in SUBSET Clients
  BY DEF Callers
<1>6. \A m \in Marks : /\ Settled(old, m) \in Worlds /\ Succeeds(Settled(old, m))
                       /\ Revised(old, m) \in Worlds /\ Succeeds(Revised(old, m))
  BY <1>4 DEF Settled, Revised
<1>7. CASE Settle
  <2>1. PICK m \in Marks, bound \in BOOLEAN :
          Commit(Settled(old, m), <<PlanOf(old, m, bound), EventOf(Settled(old, m))>>, {})
    BY <1>7 DEF Settle, old
  <2>2. <<PlanOf(old, m, bound), EventOf(Settled(old, m))>> \in Seq(Notes)
    BY <1>1, <1>3, <1>6
  <2>3. Settled(old, m).tick = old.tick + 1
    BY DEF Settled
  <2>4. Tells(Settled(old, m), <<PlanOf(old, m, bound), EventOf(Settled(old, m))>>)
    BY <2>3 DEF Tells, NotesFor, old
  <2> QED
    BY <1>5, <1>6, <2>1, <2>2, <2>4
<1>8. CASE Edit
  <2>1. PICK m \in Marks, callers \in Callers :
          Commit(Revised(old, m), <<EventOf(Revised(old, m))>>, callers)
    BY <1>8 DEF Edit, old
  <2>2. <<EventOf(Revised(old, m))>> \in Seq(Notes)
    BY <1>3, <1>6
  <2>3. Tells(Revised(old, m), <<EventOf(Revised(old, m))>>)
    <3>1. \A w, i : i \in 1 .. Len(<<EventOf(w)>>) =>
                     <<EventOf(w)>>[i] \in NotesFor(w, m, TRUE)
      BY DEF NotesFor
    <3> QED
      BY <3>1 DEF Tells
  <2> QED
    BY <1>5, <1>6, <2>1, <2>2, <2>3
<1>9. <<>> \in Seq(Notes) /\ \A w : Tells(w, <<>>)
  BY ConstantsAssumption DEF Tells
<1>10. CASE Control
  <2>1. PICK m \in Marks, callers \in Callers : Commit(Revised(old, m), <<>>, callers)
    BY <1>10 DEF Control, old
  <2> QED
    BY <1>5, <1>6, <1>9, <2>1
<1>11. CASE Reset
  <2>1. PICK callers \in Callers :
          Commit([Initial EXCEPT !.version = old.version + 1], <<>>, callers)
    BY <1>11 DEF Reset, old
  <2>2. [Initial EXCEPT !.version = old.version + 1]
          = [version |-> old.version + 1, tick |-> 0, mark |-> FreshMark]
    BY DEF Initial
  <2> QED
    BY <1>4, <1>5, <1>9, <2>1, <2>2, ConstantsAssumption
<1> QED
  BY <1>7, <1>8, <1>10, <1>11

-----------------------------------------------------------------------------
(* Every step keeps the invariant.                                         *)

LEMMA RestartKeeps == Resume /\ Inv /\ Restart => Inv'
<1> SUFFICES ASSUME Resume, Inv, Restart PROVE Inv'
  OBVIOUS
<1>1. StartWorld = disk.latest /\ disk.latest \in disk.rows /\ disk.latest \in Worlds
  BY DEF StartWorld, Inv, OneLine, Types
<1>2. disk' = disk
  BY <1>1 DEF Restart, Saved, Inv, Types
<1>3. Types' /\ OneLine'
  BY <1>1, <1>2 DEF Restart, Running, Inv, Types, OneLine
<1>4. Known'
  BY <1>2 DEF Restart, Inv, Known, KnownAt
<1> QED
  BY <1>3, <1>4 DEF Inv

LEMMA CrashKeeps == Inv /\ Crash => Inv'
<1> SUFFICES ASSUME Inv, Crash PROVE Inv'
  OBVIOUS
<1>1. Types' /\ OneLine'
  BY SeveredQueues DEF Crash, Down, Inv, Types, OneLine
<1>2. ASSUME NEW c \in Clients PROVE KnownAt(c, disk.rows)'
  BY SeveredQueues DEF Crash, Inv, Known, KnownAt
<1> QED
  BY <1>1, <1>2 DEF Inv, Known

LEMMA PageKeeps ==
  ASSUME Inv, NEW c \in Clients, Page(c)
  PROVE  Inv'
<1>1. UNCHANGED <<disk, server>>
  BY DEF Page, Open, Deliver, HangUp, Drop, Answer, Receive, Reload
<1>2. OneLine'
  BY <1>1 DEF Inv, OneLine
<1>3. disk.rows \subseteq Worlds /\ (server.up => server.world \in disk.rows)
  BY DEF Inv, Types, OneLine
<1>4. /\ session[c] \in [state : Kinds, queue : Seq(Messages)]
      /\ http[c] \in [asked : Nat, answers : SUBSET Worlds]
  BY DEF Inv, Types
<1>5. SUFFICES Types' /\ KnownAt(c, disk.rows)'
               /\ \A d \in Clients \ {c} :
                    session'[d] = session[d] /\ http'[d] = http[d] /\ store'[d] = store[d]
  BY <1>1, <1>2 DEF Inv, Known, KnownAt
<1>6. CASE Open(c)
  <2>1. /\ Opened \in [state : Kinds, queue : Seq(Messages)]
        /\ Len(Opened.queue) = 1 /\ Opened.queue[1] = Update(server.world)
    BY <1>3, <1>6, UpdateIsMessage DEF Open, Opened, Kinds
  <2>2. Types'
    <3>1. http'[c] = [asked |-> http[c].asked + 1, answers |-> http[c].answers]
      BY <1>4, <1>6 DEF Open, Inv, Types
    <3>2. http'[c] \in [asked : Nat, answers : SUBSET Worlds]
      BY <1>4, <3>1
    <3>3. http' \in [Clients -> [asked : Nat, answers : SUBSET Worlds]]
      BY <1>6, <3>2 DEF Open, Inv, Types
    <3>4. session' \in [Clients -> [state : Kinds, queue : Seq(Messages)]]
      BY <1>6, <2>1 DEF Open, Inv, Types
    <3> QED
      BY <1>1, <1>6, <3>3, <3>4 DEF Open, Inv, Types
  <2>3. session'[c] = Opened /\ http'[c].answers = http[c].answers /\ store' = store
    BY <1>6 DEF Open, Inv, Types
  <2>4. KnownAt(c, disk.rows)'
    BY <1>1, <1>3, <1>6, <2>1, <2>3 DEF Open, Update, Inv, Known, KnownAt
  <2> QED
    BY <1>6, <2>2, <2>4 DEF Open, Inv, Types
<1>7. CASE Deliver(c)
  <2> DEFINE q == session[c].queue
  <2>1. /\ q \in Seq(Messages) /\ q # <<>>
        /\ Tail(q) \in Seq(Messages) /\ Len(Tail(q)) = Len(q) - 1
        /\ \A i \in 1 .. Len(Tail(q)) : Tail(q)[i] = q[i + 1]
    BY <1>4, <1>7, HeadTailProperties DEF Deliver
  <2>2. Head(q) = q[1] /\ 1 \in 1 .. Len(q) /\ Len(q) \in Nat
    BY <2>1
  <2>3. Types'
    BY <1>1, <1>4, <1>7, <2>1 DEF Deliver, Inv, Types
  <2>4. /\ session'[c].queue = Tail(q) /\ http' = http
        /\ store'[c] = Accepted(store[c], Head(q))
    BY <1>4, <1>7 DEF Deliver, Inv, Types
  <2>5. store'[c].world \in disk.rows \cup {NoWorld}
    BY <2>2, <2>4, AcceptedWorld DEF Inv, Known, KnownAt
  <2>6. \A i \in 1 .. Len(Tail(q)) :
          Tail(q)[i].kind = "state_update" => Tail(q)[i].body \in disk.rows
    <3>1. \A i \in 1 .. Len(Tail(q)) : i + 1 \in 1 .. Len(q)
      BY <2>1, <2>2
    <3> QED
      BY <2>1, <3>1 DEF Inv, Known, KnownAt
  <2>7. KnownAt(c, disk.rows)'
    BY <1>1, <2>4, <2>5, <2>6 DEF Inv, Known, KnownAt
  <2> QED
    BY <1>7, <2>3, <2>7 DEF Deliver, Inv, Types
<1>8. CASE HangUp(c) \/ Drop(c)
  <2>1. NoSession \in [state : Kinds, queue : Seq(Messages)] /\ NoSession.queue = <<>>
    BY DEF NoSession, Kinds
  <2>2. session'[c] = NoSession
    BY <1>8 DEF HangUp, Drop, Inv, Types
  <2>3. KnownAt(c, disk.rows)'
    BY <1>1, <1>8, <2>1, <2>2 DEF HangUp, Drop, Inv, Known, KnownAt
  <2> QED
    BY <1>1, <1>8, <2>1, <2>3 DEF HangUp, Drop, Inv, Types
<1>9. CASE Answer(c)
  <2>1. http'[c] = [asked |-> http[c].asked - 1,
                     answers |-> http[c].answers \cup {server.world}]
    BY <1>4, <1>9 DEF Answer, Inv, Types
  <2>2. http'[c] \in [asked : Nat, answers : SUBSET Worlds]
    <3>1. http[c].asked \in Nat /\ http[c].answers \in SUBSET Worlds
      BY <1>4
    <3>2. http[c].asked - 1 \in Nat /\ server.world \in Worlds
      BY <1>3, <1>9, <3>1 DEF Answer
    <3> QED
      BY <2>1, <3>1, <3>2
  <2>3. KnownAt(c, disk.rows)'
    BY <1>1, <1>3, <1>9, <2>1 DEF Answer, Inv, Known, KnownAt
  <2>4. \A d \in Clients \ {c} : http'[d] = http[d]
    BY <1>9 DEF Answer, Inv, Types
  <2>5. Types'
    BY <1>1, <1>9, <2>2, <2>4 DEF Answer, Inv, Types
  <2> QED
    BY <1>9, <2>3, <2>4, <2>5 DEF Answer
<1>10. CASE Receive(c)
  <2>1. PICK w \in http[c].answers :
          /\ store' = [store EXCEPT ![c] = Applied(@, w)]
          /\ http' = [http EXCEPT ![c].answers = @ \ {w}]
    BY <1>10 DEF Receive
  <2>2. store'[c] = Applied(store[c], w) /\ http'[c].answers = http[c].answers \ {w}
    BY <1>4, <2>1 DEF Inv, Types
  <2>3. KnownAt(c, disk.rows)'
    BY <1>1, <1>10, <2>2, AppliedWorld DEF Receive, Inv, Known, KnownAt
  <2> QED
    BY <1>1, <1>4, <1>10, <2>1, <2>3 DEF Receive, Inv, Types
<1>11. CASE Reload(c)
  <2>1. /\ session'[c] = NoSession /\ store'[c] = EmptyStore
        /\ http'[c] = [asked |-> 0, answers |-> {}]
    BY <1>11 DEF Reload, Inv, Types
  <2>2. KnownAt(c, disk.rows)'
    BY <1>1, <2>1 DEF KnownAt, NoSession, EmptyStore
  <2>3. NoSession \in [state : Kinds, queue : Seq(Messages)]
    BY DEF NoSession, Kinds
  <2> QED
    BY <1>1, <1>11, <2>2, <2>3 DEF Reload, Inv, Types
<1> QED
  BY <1>6, <1>7, <1>8, <1>9, <1>10, <1>11 DEF Page

LEMMA InvStep == Resume /\ Inv /\ [Next]_vars => Inv'
<1> SUFFICES ASSUME Resume, Inv, [Next]_vars PROVE Inv'
  OBVIOUS
<1>1. CASE Settle \/ Edit \/ Control \/ Reset
  <2>1. PICK w \in Worlds, notes \in Seq(Notes), callers \in SUBSET Clients :
          Succeeds(w) /\ Commit(w, notes, callers)
    BY <1>1, CommitsSucceed
  <2> QED
    BY <2>1, CommitKeeps DEF Succeeds
<1>2. CASE UNCHANGED vars
  BY <1>2 DEF vars, Inv, Types, OneLine, Known, KnownAt
<1> QED
  BY <1>1, <1>2, RestartKeeps, CrashKeeps, PageKeeps DEF Next

\* With RESUME_WORLD the inductive invariant holds: the table holds one line of
\* versions, the backend runs its newest row, and all that is under way is in it.
THEOREM Invariance == Resume => (Spec => []Inv)
<1> SUFFICES ASSUME Resume PROVE Spec => []Inv
  OBVIOUS
<1>1. Inv /\ [Next]_vars => Inv'
  BY InvStep
<1> QED
  BY <1>1, InvInit, PTL DEF Spec

-----------------------------------------------------------------------------
(* What follows.                                                           *)

\* With RESUME_WORLD, every world the backend runs, sends or has sent is in the
\* table, whatever storage refuses and wherever the process dies, and one version
\* is one world for ever.
THEOREM WorldsAreDurable == Resume => (Spec => []Durable)
<1> SUFFICES ASSUME Resume PROVE Spec => []Durable
  OBVIOUS
<1>1. Inv => Durable
  <2> SUFFICES ASSUME Inv PROVE Durable
    OBVIOUS
  <2>1. ASSUME NEW c \in Clients PROVE WorldsAt(c) \subseteq disk.rows
    BY DEF WorldsAt, InQueue, Inv, Known, KnownAt
  <2>2. {server.world} \ {NoWorld} \subseteq disk.rows
    BY DEF Inv, OneLine
  <2>3. (UNION {WorldsAt(c) : c \in Clients}) \cup ({server.world} \ {NoWorld})
          \subseteq disk.rows
    BY <2>1, <2>2
  <2>4. OneLine
    BY DEF Inv
  <2> QED
    BY <2>3, <2>4 DEF Durable, OneLine
<1> QED
  BY <1>1, Invariance, PTL

\* A step of the pipeline, of a page or of the process as the feed sees it.
Shown == [c \in Clients |-> store[c].world]

LEMMA CommitFeeds ==
  ASSUME Inv, NEW w \in Worlds, NEW notes \in Seq(Notes), NEW callers,
         Succeeds(w), Commit(w, notes, callers)
  PROVE  Feed!Extend \/ UNCHANGED <<disk.rows, Shown>>
<1>1. store' = store
  BY DEF Commit
<1>2. server.world = disk.latest /\ disk.latest \in disk.rows
  BY DEF Inv, OneLine, Commit
<1>3. Shown' = Shown
  BY <1>1 DEF Shown
<1>4. disk' = disk \/ disk'.rows = disk.rows \cup {w}
  BY DEF Commit, Refused, Saved
<1>5. CASE disk'.rows = disk.rows \cup {w}
  <2>1. PICK m \in Marks, t \in {0, disk.latest.tick, disk.latest.tick + 1} :
          w = [version |-> disk.latest.version + 1, tick |-> t, mark |-> m]
    BY <1>2 DEF Succeeds
  <2>2. Feed!Newest(disk.latest)
    BY DEF Feed!Newest, Inv, OneLine
  <2> QED
    BY <1>2, <1>3, <1>5, <2>1, <2>2 DEF Feed!Extend, Shown
<1> QED
  BY <1>3, <1>4, <1>5

LEMMA PageFeeds ==
  ASSUME Inv, NEW c \in Clients, Page(c)
  PROVE  Feed!MoveOn(c) \/ Feed!Forget(c) \/ UNCHANGED <<disk.rows, Shown>>
<1>1. disk' = disk
  BY DEF Page, Open, Deliver, HangUp, Drop, Answer, Receive, Reload
<1>2. CASE store' = store
  BY <1>1, <1>2 DEF Shown
<1>3. ASSUME NEW new, store' = [store EXCEPT ![c] = new]
      PROVE  Shown' = [Shown EXCEPT ![c] = new.world]
  BY <1>3 DEF Shown, Inv, Types
<1>4. ASSUME NEW new, store' = [store EXCEPT ![c] = new], new.world = store[c].world
      PROVE  Shown' = Shown
  BY <1>3, <1>4 DEF Shown
<1>5. ASSUME NEW new, store' = [store EXCEPT ![c] = new],
             new.world \in disk.rows, ~Outdated(store[c], new.world)
      PROVE  Feed!MoveOn(c)
  <2>1. store[c].world # NoWorld => new.world.version > store[c].world.version
    BY <1>5 DEF Outdated, Inv, Types, Worlds, Known, KnownAt
  <2>2. Shown' = [Shown EXCEPT ![c] = new.world] /\ Shown[c] = store[c].world
    BY <1>3, <1>5 DEF Shown
  <2> QED
    BY <1>1, <1>5, <2>1, <2>2 DEF Feed!MoveOn, Shown
<1>6. CASE Deliver(c)
  <2> DEFINE m == Head(session[c].queue)
  <2>1. session[c].queue \in Seq(Messages) /\ session[c].queue # <<>>
    BY <1>6 DEF Inv, Types, Deliver
  <2>2. m = session[c].queue[1] /\ 1 \in 1 .. Len(session[c].queue)
    BY <2>1
  <2>3. store' = [store EXCEPT ![c] = Accepted(store[c], m)]
    BY <1>6 DEF Deliver
  <2>4. m.kind = "state_update" => m.body \in disk.rows
    BY <2>2 DEF Inv, Known, KnownAt
  <2>5. CASE m.kind = "state_update" /\ ~Outdated(store[c], m.body)
    <3>1. Accepted(store[c], m).world = m.body
      BY <2>5, AcceptedWorld
    <3> QED
      BY <1>5, <2>3, <2>4, <2>5, <3>1
  <2>6. CASE ~(m.kind = "state_update" /\ ~Outdated(store[c], m.body))
    <3>1. Accepted(store[c], m).world = store[c].world
      BY <2>6, AcceptedWorld
    <3> QED
      BY <1>1, <1>4, <2>3, <3>1
  <2> QED
    BY <2>5, <2>6
<1>7. CASE Receive(c)
  <2>1. PICK w \in http[c].answers : store' = [store EXCEPT ![c] = Applied(store[c], w)]
    BY <1>7 DEF Receive
  <2>2. w \in disk.rows
    BY <2>1 DEF Inv, Known, KnownAt
  <2>3. Applied(store[c], w).world = IF Outdated(store[c], w) THEN store[c].world ELSE w
    BY AppliedWorld
  <2> QED
    BY <1>1, <1>4, <1>5, <2>1, <2>2, <2>3
<1>8. CASE Reload(c)
  <2>1. store' = [store EXCEPT ![c] = EmptyStore] /\ EmptyStore.world = NoWorld
    BY <1>8 DEF Reload, EmptyStore
  <2> QED
    BY <1>1, <1>3, <2>1 DEF Feed!Forget, Shown
<1> QED
  BY <1>2, <1>6, <1>7, <1>8 DEF Page, Open, HangUp, Drop, Answer

\* With RESUME_WORLD, table, sockets, HTTP answers and stores together implement the
\* feed: no page ever goes back, or shows a world that was not.
THEOREM Follows == Resume => (Spec => FollowsFeed)
<1> SUFFICES ASSUME Resume PROVE Spec => FollowsFeed
  OBVIOUS
<1>1. Init => Feed!Init
  BY DEF Init, Feed!Init, EmptyStore
<1>2. ASSUME Inv, [Next]_vars
      PROVE  Feed!Next \/ UNCHANGED <<disk.rows, Shown>>
  <2>1. CASE Settle \/ Edit \/ Control \/ Reset
    <3>1. PICK w \in Worlds, notes \in Seq(Notes), callers \in SUBSET Clients :
            Succeeds(w) /\ Commit(w, notes, callers)
      BY <1>2, <2>1, CommitsSucceed
    <3> QED
      BY <1>2, <3>1, CommitFeeds DEF Feed!Next
  <2>2. CASE Crash
    BY <2>2 DEF Crash, Shown
  <2>3. CASE Restart
    <3>1. disk'.rows = disk.rows /\ store' = store
      BY <1>2, <2>3 DEF Restart, StartWorld, Saved, Inv, OneLine
    <3> QED
      BY <3>1 DEF Shown
  <2>4. ASSUME NEW c \in Clients, Page(c)
        PROVE  Feed!Next \/ UNCHANGED <<disk.rows, Shown>>
    BY <1>2, <2>4, PageFeeds DEF Feed!Next
  <2>5. CASE UNCHANGED vars
    BY <2>5 DEF vars, Shown
  <2> QED
    BY <1>2, <2>1, <2>2, <2>3, <2>4, <2>5 DEF Next
<1>3. Inv /\ [Next]_vars => [Feed!Next]_<<disk.rows, [c \in Clients |-> store[c].world]>>
  BY <1>2 DEF Shown
<1> QED
  BY <1>1, <1>3, Invariance, PTL DEF Spec, FollowsFeed, Feed!Spec

-----------------------------------------------------------------------------
(* Sessions.                                                               *)

\* What NothingMissed says of one page; an open session has a running backend.
SyncAt(c) ==
  LET q == session[c].queue
  IN session[c].state = "open" =>
       /\ server.up
       /\ q = <<>> => store[c].world = server.world
       /\ q # <<>> => q[Len(q)] = Update(server.world)

Sync == \A c \in Clients : SyncAt(c)

\* A refusal is noted and not forgotten.
LEMMA SpendNotes ==
  ASSUME NEW kind, Spend(kind), ~budget'.refused
  PROVE  ~budget.refused /\ kind # "faults"
<1>1. budget'.refused = (budget.refused \/ kind = "faults")
  BY DEF Spend
<1> QED
  BY <1>1, Zenon

LEMMA RefusalStays ==
  ASSUME Inv, [Next]_vars, ~budget'.refused
  PROVE  ~budget.refused
<1>1. CASE Settle \/ Edit \/ Control \/ Reset
  <2>1. PICK w \in Worlds, notes \in Seq(Notes), callers \in SUBSET Clients :
          Commit(w, notes, callers)
    BY <1>1, CommitsSucceed
  <2> QED
    BY <2>1, SpendNotes DEF Commit
<1>2. CASE Crash \/ Restart \/ UNCHANGED vars
  BY <1>2, SpendNotes DEF Crash, Restart, vars
<1>3. ASSUME NEW c \in Clients, Page(c) PROVE ~budget.refused
  BY <1>3, SpendNotes DEF Page, Open, Deliver, HangUp, Drop, Answer, Receive, Reload
<1> QED
  BY <1>1, <1>2, <1>3 DEF Next

\* A page that applies the newest world shows the newest world, even if it ignores it.
LEMMA NewestIsShown ==
  ASSUME Inv, NEW c \in Clients, server.up
  PROVE  Applied(store[c], server.world).world = server.world
<1>1. server.world = disk.latest /\ disk.latest \in disk.rows /\ disk.rows \subseteq Worlds
  BY DEF Inv, Types, OneLine
<1>2. CASE Outdated(store[c], server.world)
  <2>1. store[c].world \in disk.rows /\ server.world.version <= store[c].world.version
    BY <1>2 DEF Outdated, Inv, Known, KnownAt
  <2>2. store[c].world.version = disk.latest.version
    BY <1>1, <2>1 DEF Inv, OneLine, Worlds
  <2>3. store[c].world = disk.latest
    BY <1>1, <2>1, <2>2 DEF Inv, OneLine
  <2> QED
    BY <1>1, <1>2, <2>3, AppliedWorld
<1> QED
  BY <1>2, AppliedWorld

\* A page that shows the newest world shows it whatever arrives late.
LEMMA NewestStays ==
  ASSUME Inv, NEW c \in Clients, server.up, store[c].world = server.world,
         NEW w \in disk.rows
  PROVE  Applied(store[c], w).world = server.world
<1>1. server.world = disk.latest /\ disk.latest \in Worlds /\ w \in Worlds
  BY DEF Inv, Types, OneLine
<1>2. w.version <= disk.latest.version /\ disk.latest # NoWorld
  BY <1>1, NullAssumption DEF Inv, OneLine
<1> QED
  BY <1>1, <1>2, AppliedWorld DEF Outdated

LEMMA LastOfConcat ==
  ASSUME NEW S, NEW q \in Seq(S), NEW ms \in Seq(S), ms # <<>>
  PROVE  q \o ms # <<>> /\ (q \o ms)[Len(q \o ms)] = ms[Len(ms)]
<1>1. ASSUME NEW k \in Nat, NEW n \in Nat \ {0}
      PROVE  k + n \in 1 .. k + n /\ ~(k + n <= k) /\ (k + n) - k = n /\ k + n # 0
  OBVIOUS
<1>2. Len(q) \in Nat /\ Len(ms) \in Nat \ {0}
  BY LenProperties, EmptySeq
<1>3. /\ Len(q) + Len(ms) \in 1 .. Len(q) + Len(ms) /\ ~(Len(q) + Len(ms) <= Len(q))
      /\ (Len(q) + Len(ms)) - Len(q) = Len(ms) /\ Len(q) + Len(ms) # 0
  BY <1>1, <1>2
<1>4. q \o ms \in Seq(S) /\ Len(q \o ms) = Len(q) + Len(ms)
  BY ConcatProperties
<1>5. (q \o ms)[Len(q) + Len(ms)] = ms[Len(ms)]
  BY <1>3, ConcatProperties
<1> QED
  BY <1>3, <1>4, <1>5, EmptySeq

LEMMA LastOfTail ==
  ASSUME NEW S, NEW q \in Seq(S), q # <<>>
  PROVE  \/ Tail(q) = <<>> /\ q[Len(q)] = Head(q)
         \/ Tail(q) # <<>> /\ Tail(q)[Len(Tail(q))] = q[Len(q)]
<1>1. Len(q) \in Nat \ {0} /\ Head(q) = q[1]
  BY LenProperties, EmptySeq
<1>2. /\ Tail(q) \in Seq(S) /\ Len(Tail(q)) = Len(q) - 1
      /\ \A i \in 1 .. Len(Tail(q)) : Tail(q)[i] = q[i + 1]
  BY HeadTailProperties
<1>3. ASSUME NEW n \in Nat \ {0}
      PROVE  n # 1 => n - 1 # 0 /\ n - 1 \in 1 .. n - 1 /\ (n - 1) + 1 = n
  OBVIOUS
<1>4. CASE Len(q) = 1
  <2>1. Len(Tail(q)) = 0
    BY <1>2, <1>4
  <2>2. Tail(q) = <<>>
    BY <1>2, <2>1, EmptySeq
  <2> QED
    BY <1>1, <1>4, <2>2
<1>5. CASE Len(q) # 1
  <2>1. Len(Tail(q)) # 0 /\ Len(Tail(q)) \in 1 .. Len(Tail(q)) /\ Len(Tail(q)) + 1 = Len(q)
    BY <1>1, <1>2, <1>3, <1>5
  <2>2. Tail(q)[Len(Tail(q))] = q[Len(q)]
    BY <1>2, <2>1
  <2>3. Tail(q) # <<>>
    BY <1>2, <2>1, EmptySeq
  <2> QED
    BY <2>2, <2>3
<1> QED
  BY <1>4, <1>5

LEMMA SyncCommit ==
  ASSUME Inv, ~budget'.refused, NEW w \in Worlds, NEW notes \in Seq(Notes), NEW callers,
         Commit(w, notes, callers)
  PROVE  Sync'
<1>1. CASE session' = Severed
  BY <1>1, SeveredQueues DEF Sync, SyncAt, Inv
<1>2. CASE server' = Running(w) /\ session' = Published(Append(notes, Update(w)))
  <2> DEFINE ms == Append(notes, Update(w))
  <2>1. /\ ms \in Seq(Messages) /\ Len(ms) = Len(notes) + 1 /\ Len(notes) \in Nat
        /\ ms[Len(ms)] = Update(w)
    <3>1. notes \in Seq(Messages)
      BY SeqMonotonic DEF Notes
    <3> QED
      BY <3>1, UpdateIsMessage, AppendProperties, LenProperties
  <2> HIDE DEF ms
  <2>2. ASSUME NEW c \in Clients, session'[c].state = "open" PROVE SyncAt(c)'
    <3> DEFINE q == session[c].queue
    <3>1. session[c] \in [state : Kinds, queue : Seq(Messages)] /\ q \in Seq(Messages)
      BY DEF Inv, Types
    <3>2. session'[c].queue = q \o ms
      BY <1>2, <2>2, <3>1 DEF Published, ms
    <3>3. ms # <<>>
      BY <2>1, EmptySeq
    <3>4. q \o ms # <<>> /\ (q \o ms)[Len(q \o ms)] = Update(w)
      BY <2>1, <3>1, <3>3, LastOfConcat
    <3> QED
      BY <1>2, <3>2, <3>4 DEF SyncAt, Running
  <2> QED
    BY <2>2 DEF Sync, SyncAt
<1> QED
  BY <1>1, <1>2, SpendNotes DEF Commit

LEMMA SyncPage ==
  ASSUME Inv, Sync, NEW c \in Clients, Page(c)
  PROVE  Sync'
<1>1. server' = server
  BY DEF Page, Open, Deliver, HangUp, Drop, Answer, Receive, Reload
<1>2. \A d \in Clients \ {c} : session'[d] = session[d] /\ store'[d] = store[d]
  BY DEF Page, Open, Deliver, HangUp, Drop, Answer, Receive, Reload, Inv, Types
<1>3. SUFFICES SyncAt(c)'
  BY <1>1, <1>2 DEF Sync, SyncAt
<1>4. SyncAt(c)
  BY DEF Sync
<1>5. CASE Open(c)
  <2>1. session'[c] = Opened /\ server.up
    BY <1>5 DEF Open, Inv, Types
  <2>2. /\ Opened.queue # <<>>
        /\ Opened.queue[Len(Opened.queue)] = Update(server.world)
    BY DEF Opened
  <2> QED
    BY <1>1, <2>1, <2>2 DEF SyncAt, Update
<1>6. CASE Deliver(c)
  <2> DEFINE q == session[c].queue
  <2>1. q \in Seq(Messages) /\ q # <<>>
    BY <1>6 DEF Deliver, Inv, Types
  <2>2. /\ session'[c].queue = Tail(q) /\ session'[c].state = session[c].state
        /\ store'[c] = Accepted(store[c], Head(q))
    BY <1>6 DEF Deliver, Inv, Types
  <2>3. SUFFICES ASSUME session[c].state = "open" PROVE SyncAt(c)'
    BY <2>2 DEF SyncAt
  <2>4. server.up /\ q[Len(q)] = Update(server.world)
    BY <1>4, <2>1, <2>3 DEF SyncAt
  <2>5. CASE Tail(q) = <<>> /\ q[Len(q)] = Head(q)
    <3>1. Accepted(store[c], Head(q)).world = server.world
      BY <2>4, <2>5, NewestIsShown DEF Accepted, Update
    <3> QED
      BY <1>1, <2>2, <2>4, <2>5, <3>1 DEF SyncAt
  <2>6. CASE Tail(q) # <<>> /\ Tail(q)[Len(Tail(q))] = q[Len(q)]
    BY <1>1, <2>2, <2>4, <2>6 DEF SyncAt, Update
  <2> QED
    BY <2>1, <2>5, <2>6, LastOfTail
<1>7. CASE HangUp(c) \/ Drop(c) \/ Reload(c)
  <2>1. session'[c] = NoSession
    BY <1>7 DEF HangUp, Drop, Reload, Inv, Types
  <2> QED
    BY <2>1 DEF SyncAt, NoSession
<1>8. CASE Answer(c)
  BY <1>4, <1>8 DEF Answer, SyncAt, Update
<1>9. CASE Receive(c)
  <2>1. PICK w \in http[c].answers : store' = [store EXCEPT ![c] = Applied(@, w)]
    BY <1>9 DEF Receive
  <2>2. w \in disk.rows /\ store'[c] = Applied(store[c], w) /\ session' = session
    BY <1>9, <2>1 DEF Receive, Inv, Types, Known, KnownAt
  <2>3. server.up /\ store[c].world = server.world => store'[c].world = server.world
    BY <2>2, NewestStays
  <2> QED
    BY <1>1, <1>4, <2>2, <2>3 DEF SyncAt, Update
<1> QED
  BY <1>5, <1>6, <1>7, <1>8, <1>9 DEF Page

LEMMA SyncStep == Inv /\ (budget.refused \/ Sync) /\ [Next]_vars => (budget.refused \/ Sync)'
<1> SUFFICES ASSUME Inv, Sync, [Next]_vars, ~budget'.refused PROVE Sync'
  BY RefusalStays
<1>1. CASE Settle \/ Edit \/ Control \/ Reset
  <2>1. PICK w \in Worlds, notes \in Seq(Notes), callers \in SUBSET Clients :
          Commit(w, notes, callers)
    BY <1>1, CommitsSucceed
  <2> QED
    BY <2>1, SyncCommit
<1>2. CASE Crash
  BY <1>2, SeveredQueues DEF Crash, Sync, SyncAt, Inv
<1>3. CASE Restart
  BY <1>3 DEF Restart, Sync, SyncAt
<1>4. CASE UNCHANGED vars
  BY <1>4 DEF vars, Sync, SyncAt, Update
<1> QED
  BY <1>1, <1>2, <1>3, <1>4, SyncPage DEF Next

\* With RESUME_WORLD, as long as storage has refused no write, a page whose session is
\* open has missed nothing, for any number of pages, crashes and lost connections, and
\* whatever HTTP answers come late.
THEOREM SessionsMissNothing == Resume => (Spec => []NothingMissed)
<1> SUFFICES ASSUME Resume PROVE Spec => []NothingMissed
  OBVIOUS
<1>1. Init => budget.refused \/ Sync
  BY DEF Init, Sync, SyncAt, NoSession
<1>2. budget.refused \/ Sync => NothingMissed
  BY DEF Sync, SyncAt, NothingMissed
<1> QED
  BY <1>1, <1>2, SyncStep, Invariance, PTL DEF Spec

-----------------------------------------------------------------------------
(* Plans and events have keys of their own.                                *)

\* The plans and events that a page lists or will be sent.
NotesOf(c) == (InQueue(c) \cap Notes) \cup store[c].notes

\* They are about worlds of the table: a plan was made for one and led to its successor,
\* an event led to the world it carries.
Sound(n, rows) ==
  /\ n \in Notes
  /\ n.kind = "world_event" => n.bound /\ n.body \in rows
  /\ n.kind = "tick_plan" =>
       /\ \E w \in rows : w.version = n.body.version /\ w.tick = n.body.tick
       /\ \E w \in rows : w.version = n.body.version + 1 /\ w.tick = n.body.tick + 1

\* One world has had one plan.
SamePlan(a, b) ==
  a.kind = "tick_plan" /\ b.kind = "tick_plan" /\ a.body.version = b.body.version => a = b

NotesFit ==
  \A c \in Clients : \A n \in NotesOf(c) :
    /\ Sound(n, disk.rows)
    /\ \A d \in Clients : \A o \in NotesOf(d) : SamePlan(n, o)

\* Time only goes back by a reset.
Rises(rows) ==
  \A v, w \in rows : v.version < w.version /\ w.tick < v.tick =>
    \E r \in rows : r.tick = 0 /\ v.version < r.version /\ r.version <= w.version

Chronicle == Rises(disk.rows) /\ NotesFit

\* The messages of a commit.
LEMMA CommitSends ==
  ASSUME Inv, NEW w \in Worlds, NEW notes \in Seq(Notes), NEW callers,
         Commit(w, notes, callers)
  PROVE  \/ UNCHANGED <<disk, session, store>>
         \/ disk' = Saved(w) /\ session' = Severed /\ store' = store
         \/ /\ disk' = Saved(w) /\ store' = store
            /\ \E ms \in Seq(Messages) :
                 /\ session' = Published(ms)
                 /\ \A j \in 1 .. Len(ms) :
                      ms[j] = Update(w) \/ \E i \in 1 .. Len(notes) : ms[j] = notes[i]
<1>1. Notes \subseteq Messages
  BY DEF Notes
<1>2. notes \in Seq(Messages) /\ Append(notes, Update(w)) \in Seq(Messages)
  BY <1>1, UpdateIsMessage, SeqMonotonic, AppendProperties
<1>3. \A j \in 1 .. Len(Append(notes, Update(w))) :
        \/ Append(notes, Update(w))[j] = Update(w)
        \/ \E i \in 1 .. Len(notes) : Append(notes, Update(w))[j] = notes[i]
  BY <1>2, UpdateIsMessage, AppendProperties, LenProperties
<1>4. ASSUME NEW told \in 0 .. Len(notes)
      PROVE  /\ SubSeq(notes, 1, told) \in Seq(Messages)
             /\ \A j \in 1 .. Len(SubSeq(notes, 1, told)) :
                  \E i \in 1 .. Len(notes) : SubSeq(notes, 1, told)[j] = notes[i]
  BY <1>2, <1>4, LenProperties
<1>5. store' = store
  BY DEF Commit
<1>6. CASE Refused(w) /\ UNCHANGED <<session, http>>
  BY <1>5, <1>6 DEF Refused
<1>7. CASE disk' = Saved(w) /\ session' = Severed
  BY <1>5, <1>7
<1>8. CASE disk' = Saved(w) /\ session' = Published(Append(notes, Update(w)))
  BY <1>2, <1>3, <1>5, <1>8
<1>9. ASSUME NEW told \in 0 .. Len(notes), disk' = Saved(w),
             session' = Published(SubSeq(notes, 1, told))
      PROVE  /\ disk' = Saved(w) /\ store' = store
             /\ \E ms \in Seq(Messages) :
                 /\ session' = Published(ms)
                 /\ \A j \in 1 .. Len(ms) :
                      ms[j] = Update(w) \/ \E i \in 1 .. Len(notes) : ms[j] = notes[i]
  BY <1>4, <1>5, <1>9
<1> QED
  BY <1>6, <1>7, <1>8, <1>9 DEF Commit

\* A commit adds to the notes of a page at most the plan of the running world and the
\* event of the next one.
LEMMA CommitNotes ==
  ASSUME Inv, NEW w \in Worlds, NEW notes \in Seq(Notes), NEW callers,
         Tells(w, notes), Commit(w, notes, callers)
  PROVE  \/ UNCHANGED <<disk, session, store>>
         \/ /\ disk' = Saved(w)
            /\ \E m \in Marks, bound \in BOOLEAN : \A c \in Clients :
                 NotesOf(c)' \subseteq NotesOf(c) \cup NotesFor(w, m, bound)
<1>1. PICK m \in Marks, bound \in BOOLEAN :
        \A i \in 1 .. Len(notes) : notes[i] \in NotesFor(w, m, bound)
  BY DEF Tells
<1>2. CASE disk' = Saved(w) /\ session' = Severed /\ store' = store
  <2>1. \A c \in Clients : session'[c].queue = session[c].queue
    BY <1>2, SeveredQueues DEF Inv
  <2>2. \A c \in Clients : NotesOf(c)' = NotesOf(c)
    BY <1>2, <2>1 DEF NotesOf, InQueue
  <2> QED
    BY <1>1, <1>2, <2>2
<1>3. ASSUME NEW ms \in Seq(Messages), session' = Published(ms), store' = store,
             disk' = Saved(w),
             \A j \in 1 .. Len(ms) :
               ms[j] = Update(w) \/ \E i \in 1 .. Len(notes) : ms[j] = notes[i],
             NEW c \in Clients, NEW n \in NotesOf(c)'
      PROVE  n \in NotesOf(c) \cup NotesFor(w, m, bound)
  <2>1. CASE n \in store'[c].notes
    BY <1>3, <2>1 DEF NotesOf
  <2>2. ASSUME NEW i \in 1 .. Len(session'[c].queue), n = session'[c].queue[i], n \in Notes
        PROVE  n \in NotesOf(c) \cup NotesFor(w, m, bound)
    <3>1. CASE i \in 1 .. Len(session[c].queue) /\ session'[c].queue[i] = session[c].queue[i]
      BY <2>2, <3>1 DEF NotesOf, InQueue
    <3>2. ASSUME NEW j \in 1 .. Len(ms), session'[c].queue[i] = ms[j]
          PROVE  n \in NotesFor(w, m, bound)
      <4>1. n # Update(w)
        BY <2>2 DEF Notes, Update
      <4> QED
        BY <1>1, <1>3, <2>2, <3>2, <4>1
    <3> QED
      BY <1>3, <2>2, <3>1, <3>2, PublishedQueues DEF Inv
  <2> QED
    BY <1>3, <2>1, <2>2 DEF NotesOf, InQueue
<1> QED
  BY <1>2, <1>3, CommitSends

\* A step of a page, and the end or the start of the process, adds nothing.
LEMMA PageNotes ==
  ASSUME Inv, NEW c \in Clients, Page(c), NEW d \in Clients, NEW n \in NotesOf(d)'
  PROVE  n \in NotesOf(d)
<1>1. CASE d # c
  <2>1. session'[d] = session[d] /\ store'[d] = store[d]
    BY <1>1 DEF Page, Open, Deliver, HangUp, Drop, Answer, Receive, Reload, Inv, Types
  <2> QED
    BY <2>1 DEF NotesOf, InQueue
<1>2. CASE d = c
  <2>1. session[c] \in [state : Kinds, queue : Seq(Messages)] /\ store'[c] = store'[d]
    BY <1>2 DEF Inv, Types
  <2>2. CASE Open(c)
    <3>1. session'[c] = Opened /\ store' = store
      BY <2>2 DEF Open, Inv, Types
    <3>2. n \notin InQueue(c)' \/ n = Update(server.world)
      BY <3>1 DEF InQueue, Opened
    <3>3. Update(server.world) \notin Notes
      BY DEF Update, Notes
    <3> QED
      BY <1>2, <3>1, <3>2, <3>3 DEF NotesOf
  <2>3. CASE Deliver(c)
    <3> DEFINE q == session[c].queue
    <3>1. /\ q \in Seq(Messages) /\ q # <<>>
          /\ Len(Tail(q)) = Len(q) - 1
          /\ \A i \in 1 .. Len(Tail(q)) : Tail(q)[i] = q[i + 1]
      BY <2>1, <2>3, HeadTailProperties DEF Deliver
    <3>2. Head(q) = q[1] /\ 1 \in 1 .. Len(q) /\ Len(q) \in Nat /\ q[1] \in Messages
      BY <3>1
    <3>3. /\ session'[c].queue = Tail(q)
          /\ store'[c] = Accepted(store[c], Head(q))
      BY <2>1, <2>3 DEF Deliver, Inv, Types
    <3>4. InQueue(c)' \subseteq InQueue(c)
      <4>1. ASSUME NEW i \in 1 .. Len(Tail(q))
            PROVE  Tail(q)[i] \in InQueue(c)
        <5>1. i + 1 \in 1 .. Len(q)
          BY <3>1, <3>2
        <5> QED
          BY <3>1, <5>1 DEF InQueue
      <4> QED
        BY <3>3, <4>1 DEF InQueue
    <3>5. /\ store'[c].notes \subseteq store[c].notes \cup {Head(q)}
          /\ Head(q).kind = "state_update" => store'[c].notes \subseteq store[c].notes
      BY <3>3 DEF Accepted, Applied, Noted
    <3>6. Head(q).kind # "state_update" => Head(q) \in InQueue(c) \cap Notes
      BY <3>2 DEF InQueue, Notes
    <3> QED
      BY <1>2, <3>4, <3>5, <3>6 DEF NotesOf
  <2>4. CASE HangUp(c) \/ Drop(c)
    <3>1. session'[c] = NoSession /\ store' = store
      BY <2>4 DEF HangUp, Drop, Inv, Types
    <3> QED
      BY <1>2, <3>1 DEF NotesOf, InQueue, NoSession
  <2>5. CASE Answer(c)
    BY <1>2, <2>5 DEF Answer, NotesOf, InQueue
  <2>6. CASE Receive(c)
    <3>1. session' = session /\ \E w : store'[c] = Applied(store[c], w)
      BY <2>6 DEF Receive, Inv, Types
    <3>2. store'[c].notes \subseteq store[c].notes
      BY <3>1 DEF Applied
    <3> QED
      BY <1>2, <3>1, <3>2 DEF NotesOf, InQueue
  <2>7. CASE Reload(c)
    <3>1. session'[c] = NoSession /\ store'[c] = EmptyStore
      BY <2>7 DEF Reload, Inv, Types
    <3> QED
      BY <1>2, <3>1 DEF NotesOf, InQueue, NoSession, EmptyStore
  <2> QED
    BY <2>2, <2>3, <2>4, <2>5, <2>6, <2>7 DEF Page
<1> QED
  BY <1>1, <1>2

\* A note stays sound as the table grows.
LEMMA SoundGrows ==
  ASSUME NEW n, NEW w, Sound(n, disk.rows)
  PROVE  Sound(n, Saved(w).rows)
BY DEF Sound, Saved

\* A world that may come next keeps time from going back otherwise.
LEMMA RisesOn ==
  ASSUME Inv, server.up, Rises(disk.rows), NEW w \in Worlds, Succeeds(w)
  PROVE  Rises(Saved(w).rows)
<1>1. /\ server.world = disk.latest /\ disk.latest \in disk.rows /\ disk.rows \subseteq Worlds
      /\ Saved(w).rows = disk.rows \cup {w}
  BY DEF Inv, OneLine, Types, Saved
<1>2. /\ w.version = disk.latest.version + 1
      /\ w.tick \in {0, disk.latest.tick, disk.latest.tick + 1}
  BY <1>1 DEF Succeeds
<1>3. /\ \A v \in disk.rows : /\ v.version \in Nat /\ v.tick \in Nat
                              /\ v.version <= disk.latest.version
      /\ \A v \in disk.rows : v.version = disk.latest.version => v = disk.latest
  BY <1>1 DEF Inv, OneLine, Worlds
<1> SUFFICES ASSUME NEW u \in disk.rows \cup {w}, NEW v \in disk.rows \cup {w},
                    u.version < v.version, v.tick < u.tick
             PROVE  \E r \in disk.rows \cup {w} :
                      r.tick = 0 /\ u.version < r.version /\ r.version <= v.version
  BY <1>1 DEF Rises
<1>4. u \in disk.rows
  BY <1>1, <1>2, <1>3
<1>5. CASE v \in disk.rows
  BY <1>4, <1>5 DEF Rises
<1>6. CASE v = w /\ w.tick = 0
  BY <1>1, <1>2, <1>3, <1>4, <1>6
<1>7. CASE v = w /\ w.tick # 0
  <2>1. disk.latest.tick <= w.tick
    BY <1>1, <1>2, <1>3, <1>7
  <2>2. disk.latest.tick < u.tick /\ u.version < disk.latest.version
    BY <1>1, <1>2, <1>3, <1>4, <1>7, <2>1
  <2>3. PICK r \in disk.rows : /\ r.tick = 0 /\ u.version < r.version
                              /\ r.version <= disk.latest.version
    BY <1>1, <1>4, <2>2 DEF Rises
  <2> QED
    BY <1>1, <1>2, <1>3, <1>7, <2>3
<1> QED
  BY <1>5, <1>6, <1>7

LEMMA ChronicleStep == Resume /\ Inv /\ Chronicle /\ [Next]_vars => Chronicle'
<1> SUFFICES ASSUME Resume, Inv, Rises(disk.rows), NotesFit, [Next]_vars PROVE Chronicle'
  BY DEF Chronicle
<1>1. ASSUME disk' = disk, \A c \in Clients : NotesOf(c)' \subseteq NotesOf(c)
      PROVE  Chronicle'
  BY <1>1 DEF Chronicle, NotesFit, Sound, SamePlan, Rises
<1>2. CASE Settle \/ Edit \/ Control \/ Reset
  <2>1. PICK w \in Worlds, notes \in Seq(Notes), callers \in SUBSET Clients :
          Succeeds(w) /\ Tells(w, notes) /\ Commit(w, notes, callers)
    BY <1>2, CommitsSucceed
  <2>2. CASE UNCHANGED <<disk, session, store>>
    BY <1>1, <2>2 DEF NotesOf, InQueue
  <2>3. ASSUME NEW m \in Marks, NEW bound \in BOOLEAN, disk' = Saved(w),
               \A c \in Clients : NotesOf(c)' \subseteq NotesOf(c) \cup NotesFor(w, m, bound)
        PROVE  Chronicle'
    <3> DEFINE plan == PlanOf(server.world, m, bound)
               rows == Saved(w).rows
    <3>1. /\ server.world = disk.latest /\ disk.latest \in Worlds /\ disk.latest \in disk.rows
          /\ w.version = disk.latest.version + 1 /\ server.up
          /\ rows = disk.rows \cup {w} /\ disk'.rows = rows
      BY <2>1, <2>3 DEF Inv, OneLine, Types, Commit, Succeeds, Saved
    <3>2. /\ plan \in Notes /\ plan.kind = "tick_plan"
          /\ plan.body.version = disk.latest.version /\ plan.body.tick = disk.latest.tick
      BY <3>1 DEF PlanOf, Notes, Messages, Worlds
    <3>3. /\ EventOf(w) \in Notes /\ EventOf(w).kind = "world_event"
          /\ EventOf(w).body = w /\ EventOf(w).bound
      BY DEF EventOf, Notes, Messages
    <3>4. Rises(rows)
      BY <2>1, <3>1, RisesOn
    <3> HIDE DEF plan, rows
    <3>5. ASSUME NEW n \in NotesFor(w, m, bound)
          PROVE  \/ n = EventOf(w) /\ Sound(n, rows)
                 \/ n = plan /\ Sound(n, rows)
      <4>1. CASE n = EventOf(w)
        BY <3>1, <3>3, <4>1 DEF Sound
      <4>2. CASE n = plan /\ w.tick = server.world.tick + 1
        BY <3>1, <3>2, <4>2 DEF Sound
      <4> QED
        BY <3>5, <4>1, <4>2 DEF NotesFor, plan
    <3>6. ASSUME NEW c \in Clients, NEW n \in NotesOf(c)
          PROVE  Sound(n, rows) /\ SamePlan(n, plan) /\ SamePlan(plan, n)
      <4>1. Sound(n, disk.rows)
        BY <3>6 DEF NotesFit
      <4>2. n.kind = "tick_plan" => n.body.version # disk.latest.version
        <5>1. /\ \A v \in disk.rows : v.version \in Nat /\ v.version <= disk.latest.version
              /\ n \in Notes => n.body.version \in Nat
          BY DEF Inv, Types, OneLine, Worlds, Notes, Messages
        <5> QED
          BY <4>1, <5>1 DEF Sound
      <4> QED
        BY <3>2, <4>1, <4>2, SoundGrows DEF SamePlan, rows
    <3>7. \A n : /\ SamePlan(n, EventOf(w)) /\ SamePlan(EventOf(w), n)
                /\ SamePlan(plan, plan)
      BY <3>3 DEF SamePlan
    <3>8. ASSUME NEW c \in Clients, NEW n \in NotesOf(c)'
          PROVE  Sound(n, rows) /\ (n \in NotesOf(c) \/ n = EventOf(w) \/ n = plan)
      BY <2>3, <3>5, <3>6, <3>8
    <3>9. ASSUME NEW c \in Clients, NEW n \in NotesOf(c)', NEW d \in Clients,
                 NEW o \in NotesOf(d)'
          PROVE  SamePlan(n, o)
      <4>1. n \in NotesOf(c) /\ o \in NotesOf(d) => SamePlan(n, o)
        BY DEF NotesFit
      <4> QED
        BY <3>6, <3>7, <3>8, <3>9, <4>1
    <3>10. Rises(disk.rows)'
      BY <3>1, <3>4 DEF Rises
    <3>11. NotesFit'
      BY <3>1, <3>8, <3>9 DEF NotesFit, Sound, SamePlan
    <3> QED
      BY <3>10, <3>11 DEF Chronicle
  <2> QED
    BY <2>1, <2>2, <2>3, CommitNotes
<1>3. CASE Crash
  <2>1. \A c \in Clients : session'[c].queue = session[c].queue
    BY <1>3, SeveredQueues DEF Crash, Inv
  <2> QED
    BY <1>1, <1>3, <2>1 DEF Crash, NotesOf, InQueue
<1>4. CASE Restart
  <2>1. disk' = disk
    BY <1>4 DEF Restart, StartWorld, Saved, Inv, OneLine, Types
  <2> QED
    BY <1>1, <1>4, <2>1 DEF Restart, NotesOf, InQueue
<1>5. ASSUME NEW c \in Clients, Page(c) PROVE Chronicle'
  <2>1. disk' = disk
    BY <1>5 DEF Page, Open, Deliver, HangUp, Drop, Answer, Receive, Reload
  <2> QED
    BY <1>1, <1>5, <2>1, PageNotes
<1>6. CASE UNCHANGED vars
  BY <1>1, <1>6 DEF vars, NotesOf, InQueue
<1> QED
  BY <1>2, <1>3, <1>4, <1>5, <1>6 DEF Next

\* Two plans of one tick, made for different worlds, have a reset between them.
LEMMA ResetSeparates ==
  ASSUME Inv, Rises(disk.rows), NEW a, NEW b, Sound(a, disk.rows), Sound(b, disk.rows),
         a.kind = "tick_plan", b.kind = "tick_plan", a.body.tick = b.body.tick,
         a.body.version < b.body.version
  PROVE  ResetBetween(a.body, b.body)
<1>1. PICK v \in disk.rows : v.version = a.body.version + 1 /\ v.tick = a.body.tick + 1
  BY DEF Sound
<1>2. PICK w \in disk.rows : w.version = b.body.version /\ w.tick = b.body.tick
  BY DEF Sound
<1>3. /\ a.body.version \in Nat /\ b.body.version \in Nat /\ a.body.tick \in Nat
      /\ \A r \in disk.rows : r.version \in Nat
  BY DEF Sound, Notes, Messages, Worlds, Inv, Types
<1>4. v.version # w.version
  <2>1. v.version = w.version => v = w
    BY DEF Inv, OneLine
  <2> QED
    BY <1>1, <1>2, <1>3, <2>1
<1>5. v.version < w.version /\ w.tick < v.tick
  BY <1>1, <1>2, <1>3, <1>4
<1>6. PICK r \in disk.rows : r.tick = 0 /\ v.version < r.version /\ r.version <= w.version
  BY <1>5 DEF Rises
<1> QED
  BY <1>1, <1>2, <1>3, <1>6 DEF ResetBetween

\* With RESUME_WORLD the key under which a page keeps an event, or a plan with a
\* state_version, belongs to that one alone, whatever breaks; and plans without a
\* state_version share their key only across a reset.
THEOREM KeysAreUnique == Resume => (Spec => []KeysIdentify)
<1> SUFFICES ASSUME Resume PROVE Spec => []KeysIdentify
  OBVIOUS
<1>1. Init => Chronicle
  BY DEF Init, Chronicle, Rises, NotesFit, NotesOf, InQueue, NoSession, EmptyStore, Initial
<1>2. Inv /\ Chronicle => KeysIdentify
  <2> SUFFICES ASSUME Inv, Rises(disk.rows), NotesFit,
                      NEW c \in Clients, NEW a \in NotesOf(c),
                      NEW d \in Clients, NEW b \in NotesOf(d), Key(a) = Key(b)
               PROVE  \/ a = b
                      \/ /\ ~a.bound
                         /\ ResetBetween(a.body, b.body) \/ ResetBetween(b.body, a.body)
    BY DEF Chronicle, KeysIdentify, NotesOf
  <2>1. Sound(a, disk.rows) /\ Sound(b, disk.rows) /\ SamePlan(a, b)
    BY DEF NotesFit
  <2>2. /\ a.kind \in {"tick_plan", "world_event"} /\ a \in Messages /\ b \in Messages
        /\ a.body.version \in Nat /\ b.body.version \in Nat
    BY <2>1 DEF Sound, Notes, Messages, Worlds
  <2>3. /\ a.kind = b.kind /\ a.body.tick = b.body.tick
        /\ StateVersion(a) = StateVersion(b)
    BY DEF Key
  <2>4. a.bound = b.bound /\ (a.bound => a.body.version = b.body.version)
    <3>1. \A v, w : <<v>> # <<>> /\ (<<v>> = <<w>> => v = w)
      OBVIOUS
    <3>2. a.bound \in BOOLEAN /\ b.bound \in BOOLEAN
      BY <2>2 DEF Messages
    <3> QED
      BY <2>3, <3>1, <3>2 DEF StateVersion
  <2>5. CASE a.kind = "world_event"
    <3>1. a.bound /\ a.body \in disk.rows /\ b.body \in disk.rows
      BY <2>1, <2>3, <2>5 DEF Sound
    <3>2. a.body = b.body
      BY <2>4, <3>1 DEF Inv, OneLine
    <3> QED
      BY <2>2, <2>3, <2>4, <3>2 DEF Messages
  <2>6. CASE a.kind = "tick_plan" /\ a.body.version = b.body.version
    BY <2>1, <2>3, <2>6 DEF SamePlan
  <2>7. CASE a.kind = "tick_plan" /\ a.body.version # b.body.version
    <3>1. ~a.bound
      BY <2>4, <2>7
    <3>2. a.body.version < b.body.version \/ b.body.version < a.body.version
      BY <2>2, <2>7
    <3> QED
      BY <2>1, <2>3, <2>7, <3>1, <3>2, ResetSeparates
  <2> QED
    BY <2>2, <2>5, <2>6, <2>7
<1>3. Inv /\ Chronicle /\ [Next]_vars => Chronicle'
  BY ChronicleStep
<1> QED
  BY <1>1, <1>2, <1>3, Invariance, PTL DEF Spec

=============================================================================
