---------------------------- MODULE EventStream ----------------------------
(***************************************************************************)
(* How a committed world reaches the screens: the snapshots table          *)
(* (backend/persistence), StateRepository.set and EventBus.publish         *)
(* (backend/domain/state.py, orchestration/event_bus.py), the WebSocket    *)
(* session (api/ws.py), GET /world and the answers to commands             *)
(* (api/rest.py), and in the browser the connection (frontend net/ws.ts,   *)
(* net/rest.ts) and the store (store/gameStore.ts); with a backend that    *)
(* crashes and restarts (main.py) and networks that fail.                  *)
(*                                                                         *)
(* The backend never suspends inside a commit, so a commit and the command *)
(* around it are one step.  A commit is interrupted all the same: by       *)
(* storage that raises, before the world is replaced or while one of its   *)
(* messages is recorded, and by the end of the process once the snapshot   *)
(* is on disk.  What is concurrent are the sessions, the HTTP answers,     *)
(* which no order ties to the session of the same page, and the crashes.   *)
(*                                                                         *)
(* All of a world but its version and tick is one mark.                    *)
(***************************************************************************)
EXTENDS Naturals, Sequences

CONSTANTS
  Clients,      \* browser pages
  Marks,        \* contents of a world, a plan or an event
  FreshMark,    \* the content create_initial_state gives a world
  NoWorld,      \* null
  Resume,       \* RESUME_WORLD of the environment
  HistoryLimit, \* snapshots a page keeps for its charts (24)
  Budgets       \* bounds: how many versions a run has, and what may break in it

ASSUME ConstantsAssumption ==
  /\ FreshMark \in Marks
  /\ Resume \in BOOLEAN
  /\ HistoryLimit \in Nat \ {0}
  /\ Budgets \subseteq [versions : Nat,  \* no commit from this version on
                         crashes : Nat,   \* of the backend
                         drops : Nat,     \* connections lost while both ends live
                         faults : Nat,    \* writes that storage refuses
                         reloads : Nat]   \* pages loaded again

VARIABLES
  disk,     \* the snapshots table: its rows, and the row with the highest id
  server,   \* the backend process, and StateRepository._state
  session,  \* per page: the connection, and what is on its way through it
  http,     \* per page: GET /world requests under way, and answers under way
  store,    \* per page: world, history, and plans and events of useGameStore
  budget    \* what may still go wrong, and (history) whether storage refused a write

vars == <<disk, server, session, http, store, budget>>

-----------------------------------------------------------------------------
Worlds == [version : Nat, tick : Nat, mark : Marks]

ASSUME NullAssumption == NoWorld \notin Worlds

\* bound: whether a plan names its state_version; the version in its body is history
\* if it does not.  Everything else has its version.
Messages == [kind : {"state_update", "tick_plan", "world_event"}, body : Worlds,
             bound : BOOLEAN]

Notes == {m \in Messages : m.kind # "state_update"}

\* create_initial_state.
Initial == [version |-> 0, tick |-> 0, mark |-> FreshMark]

\* The next worlds: after a settlement, and after a change in which no time passes.
Settled(w, m) == [version |-> w.version + 1, tick |-> w.tick + 1, mark |-> m]
Revised(w, m) == [version |-> w.version + 1, tick |-> w.tick, mark |-> m]

Update(w) == [kind |-> "state_update", body |-> w, bound |-> TRUE]

\* The plan of a settlement, told as it was submitted: it names the tick it was made
\* for, and the version or none.  An event names the world it led to.
PlanOf(w, m, bound) ==
  [kind |-> "tick_plan", body |-> [w EXCEPT !.mark = m], bound |-> bound]

EventOf(w) == [kind |-> "world_event", body |-> w, bound |-> TRUE]

\* The state_version a note names, if any, and the key by which the store compares
\* notes: the id of an event, the tick and state_version of a plan.
StateVersion(n) == IF n.bound THEN <<n.body.version>> ELSE <<>>
Key(n) == <<n.kind, StateVersion(n), n.body.tick>>

EmptyStore == [world |-> NoWorld, history |-> <<>>, notes |-> {}]

NoSession == [state |-> "closed", queue |-> <<>>]

Down == [up |-> FALSE, world |-> NoWorld]
Running(w) == [up |-> TRUE, world |-> w]

Init ==
  /\ disk = [rows |-> {Initial}, latest |-> Initial]
  /\ server = Running(Initial)
  /\ session = [c \in Clients |-> NoSession]
  /\ http = [c \in Clients |-> [asked |-> 0, answers |-> {}]]
  /\ store = [c \in Clients |-> EmptyStore]
  /\ budget \in [left : Budgets, refused : {FALSE}]

Spend(kind) ==
  /\ budget.left[kind] > 0
  /\ budget' = [left |-> [budget.left EXCEPT ![kind] = @ - 1],
                refused |-> budget.refused \/ kind = "faults"]

-----------------------------------------------------------------------------
(* The commit pipeline.                                                    *)

\* WorldHistory.save; WorldHistory.latest reads the row with the highest id.
Saved(w) == [rows |-> disk.rows \cup {w}, latest |-> w]

\* EventBus.publish: every subscriber gets its own copy at the end of its queue.
Published(messages) ==
  [c \in Clients |->
     IF session[c].state = "open"
     THEN [session[c] EXCEPT !.queue = @ \o messages]
     ELSE session[c]]

\* The process ends: what it sent may still arrive, the rest never does.
Severed ==
  [c \in Clients |->
     IF session[c].state = "open" THEN [session[c] EXCEPT !.state = "closing"]
     ELSE session[c]]

\* The requests a dead process had not answered.
Unanswered == [c \in Clients |-> [http[c] EXCEPT !.asked = 0]]

\* The response to the page that sent the command, if it came from one by HTTP.
Answered(callers, w) ==
  [c \in Clients |->
     IF c \in callers THEN [http[c] EXCEPT !.answers = @ \cup {w}] ELSE http[c]]

\* Bug: the world is replaced before it is persisted.
RefusedLate(w) == disk' = disk /\ server' = Running(w)

\* Persisting raised: the transaction is rolled back, the old world stays.
Refused(w) == UNCHANGED <<disk, server>>

\* StateRepository.set and Ingest.commit, with the notes in their order.
Commit(w, notes, callers) ==
  /\ server.up
  /\ server.world.version < budget.left.versions
  /\ \/ /\ disk' = Saved(w)
        /\ server' = Running(w)
        /\ session' = Published(Append(notes, Update(w)))
        /\ http' = Answered(callers, w)
        /\ UNCHANGED budget
     \/ /\ Refused(w)
        /\ Spend("faults")
        /\ UNCHANGED <<session, http>>
     \/ \E told \in 0 .. Len(notes) :  \* recording the next message raised
        /\ disk' = Saved(w)
        /\ server' = Running(w)
        /\ session' = Published(SubSeq(notes, 1, told))
        /\ Spend("faults")
        /\ UNCHANGED http
     \/ /\ disk' = Saved(w)
        /\ server' = Down
        /\ session' = Severed
        /\ http' = Unanswered
        /\ Spend("crashes")
  /\ UNCHANGED store

\* A command comes from a page, or by the WebSocket or another program.
Callers == {{c} : c \in Clients} \cup {{}}

\* WorldLoop.tick: the runner settles a plan.
Settle ==
  \E m \in Marks, bound \in BOOLEAN :
    LET next == Settled(server.world, m)
    IN Commit(next, <<PlanOf(server.world, m, bound), EventOf(next)>>, {})

\* WorldLoop.edit_resources; the runner's pause after an error tells an event like it.
Edit ==
  \E m \in Marks, callers \in Callers :
    LET next == Revised(server.world, m)
    IN Commit(next, <<EventOf(next)>>, callers)

\* WorldLoop.control: pause, resume and speed.
Control ==
  \E m \in Marks, callers \in Callers :
    Commit(Revised(server.world, m), <<>>, callers)

\* WorldLoop.reset.
Reset ==
  \E callers \in Callers :
    Commit([Initial EXCEPT !.version = server.world.version + 1], <<>>, callers)

-----------------------------------------------------------------------------
(* The process.                                                            *)

Crash ==
  /\ server.up
  /\ server' = Down
  /\ session' = Severed
  /\ http' = Unanswered
  /\ Spend("crashes")
  /\ UNCHANGED <<disk, store>>

\* Bug: the environment is not looked at.
StartFresh == Initial

\* The world the lifespan of main.py starts with.
StartWorld == IF Resume THEN disk.latest ELSE Initial

Restart ==
  /\ ~server.up
  /\ server' = Running(StartWorld)
  /\ disk' = Saved(StartWorld)
  /\ UNCHANGED <<session, http, store, budget>>

-----------------------------------------------------------------------------
(* The store of a page.                                                    *)

\* Since the world already shown, time went backwards: another game has begun.
Rewound(s, w) == s.world # NoWorld /\ w.tick < s.world.tick

\* The charted snapshots that stay beside a new one.
Kept(s, w) ==
  IF Rewound(s, w) THEN <<>>
  ELSE LET OtherTick(x) == x.tick # w.tick IN SelectSeq(s.history, OtherTick)

LastFew(h) ==
  IF Len(h) <= HistoryLimit THEN h
  ELSE SubSeq(h, Len(h) - HistoryLimit + 1, Len(h))

\* Bug: snapshots are compared by their ticks.
OutdatedByTick(s, w) == s.world # NoWorld /\ w.tick < s.world.tick

Outdated(s, w) == s.world # NoWorld /\ w.version <= s.world.version

\* apply_state_update.
Applied(s, w) ==
  IF Outdated(s, w) THEN s
  ELSE [world |-> w,
        history |-> LastFew(Append(Kept(s, w), w)),
        notes |-> IF Rewound(s, w) THEN {} ELSE s.notes]

\* append_plan and append_event.
Noted(s, n) ==
  IF \E old \in s.notes : Key(old) = Key(n) THEN s
  ELSE [world |-> s.world, history |-> s.history, notes |-> s.notes \cup {n}]

\* accept of net/ws.ts.
Accepted(s, m) ==
  IF m.kind = "state_update" THEN Applied(s, m.body) ELSE Noted(s, m)

-----------------------------------------------------------------------------
(* The connection of a page.                                               *)

\* Bug: a new subscriber only gets what is published from now on.
OpenedBare == [state |-> "open", queue |-> <<>>]

\* websocket_endpoint subscribes and reads its snapshot without a pause between.
Opened == [state |-> "open", queue |-> <<Update(server.world)>>]

\* Bug: a page that was connected does not connect again.
OpenOnce(c) ==
  /\ server.up
  /\ session[c].state = "closed" /\ store[c].world = NoWorld
  /\ session' = [session EXCEPT ![c] = Opened]
  /\ http' = [http EXCEPT ![c].asked = @ + 1]
  /\ UNCHANGED <<disk, server, store, budget>>

\* The page connects, after 1500 ms if it was disconnected, and asks for GET /world.
Open(c) ==
  /\ server.up
  /\ session[c].state = "closed"
  /\ session' = [session EXCEPT ![c] = Opened]
  /\ http' = [http EXCEPT ![c].asked = @ + 1]
  /\ UNCHANGED <<disk, server, store, budget>>

Deliver(c) ==
  /\ session[c].queue # <<>>
  /\ store' = [store EXCEPT ![c] = Accepted(@, Head(session[c].queue))]
  /\ session' = [session EXCEPT ![c].queue = Tail(@)]
  /\ UNCHANGED <<disk, server, http, budget>>

\* The page notices that the backend closed the connection.
HangUp(c) ==
  /\ session[c].state = "closing"
  /\ session' = [session EXCEPT ![c] = NoSession]
  /\ UNCHANGED <<disk, server, http, store, budget>>

\* The network loses the connection and all that was on its way.
Drop(c) ==
  /\ session[c].state = "open"
  /\ session' = [session EXCEPT ![c] = NoSession]
  /\ Spend("drops")
  /\ UNCHANGED <<disk, server, http, store>>

\* GET /world is handled.
Answer(c) ==
  /\ server.up
  /\ http[c].asked > 0
  /\ http' = [http EXCEPT ![c].asked = @ - 1, ![c].answers = @ \cup {server.world}]
  /\ UNCHANGED <<disk, server, session, store, budget>>

\* An answer arrives, whatever the page has shown since; one that never arrives is lost.
Receive(c) ==
  /\ \E w \in http[c].answers :
       /\ store' = [store EXCEPT ![c] = Applied(@, w)]
       /\ http' = [http EXCEPT ![c].answers = @ \ {w}]
  /\ UNCHANGED <<disk, server, session, budget>>

\* The page is loaded again: connect_world of a new page, with clear_session.
Reload(c) ==
  /\ store' = [store EXCEPT ![c] = EmptyStore]
  /\ session' = [session EXCEPT ![c] = NoSession]
  /\ http' = [http EXCEPT ![c] = [asked |-> 0, answers |-> {}]]
  /\ Spend("reloads")
  /\ UNCHANGED <<disk, server>>

-----------------------------------------------------------------------------
Page(c) ==
  Open(c) \/ Deliver(c) \/ HangUp(c) \/ Drop(c) \/ Answer(c) \/ Receive(c) \/ Reload(c)

Next ==
  \/ Settle \/ Edit \/ Control \/ Reset
  \/ Crash \/ Restart
  \/ \E c \in Clients : Page(c)

Spec == Init /\ [][Next]_vars

\* A backend that ended is started again; a page retries, reads its socket and
\* notices its end.  An answer by HTTP may stay away for ever.
Fairness ==
  /\ WF_vars(Restart)
  /\ \A c \in Clients :
       WF_vars(Open(c)) /\ WF_vars(Deliver(c)) /\ WF_vars(HangUp(c))

FairSpec == Spec /\ Fairness

-----------------------------------------------------------------------------
(* Properties.                                                             *)

\* The worlds a page shows or may still be shown.
InQueue(c) == {session[c].queue[i] : i \in 1 .. Len(session[c].queue)}

WorldsAt(c) ==
  {m.body : m \in {n \in InQueue(c) : n.kind = "state_update"}}
    \cup http[c].answers
    \cup ({store[c].world} \ {NoWorld})

\* What anyone was told survives: every world that is running, on its way or on
\* a screen is a row of the snapshots table, no later than the row a restart
\* takes up, and the table has one world for a version.  Storage that refuses a
\* write, a crash in the middle of a commit and restarts do not break this.
Durable ==
  LET known == (UNION {WorldsAt(c) : c \in Clients}) \cup ({server.world} \ {NoWorld})
  IN /\ known \subseteq disk.rows
     /\ \A w \in disk.rows : w.version <= disk.latest.version
     /\ \A v, w \in disk.rows : v.version = w.version => v = w

\* Between two worlds that each had a plan the game began anew.  (The plan took the
\* first to a later tick, so a world of tick 0 after it comes from a reset.)
ResetBetween(v, w) ==
  \E r \in disk.rows : r.tick = 0 /\ v.version < r.version /\ r.version <= w.version

\* An event's id, and the tick and state_version of a plan, name one event and one
\* plan, so that the store, which ignores a key it has, swallows none.  Only plans
\* without a state_version share a key, and only when a reset lies between them.
KeysIdentify ==
  LET notes == UNION {(InQueue(c) \cap Notes) \cup store[c].notes : c \in Clients}
  IN \A a, b \in notes : Key(a) = Key(b) =>
       \/ a = b
       \/ ~a.bound /\ (ResetBetween(a.body, b.body) \/ ResetBetween(b.body, a.body))

\* While its session is open a page misses nothing: once its queue is read it
\* shows the world of the backend, neither an older one nor one of before a
\* crash.  (Unless a message could not be recorded: then it is behind until
\* the next commit.)
NothingMissed ==
  ~budget.refused => \A c \in Clients :
    LET q == session[c].queue
    IN session[c].state = "open" =>
         IF q = <<>> THEN store[c].world = server.world
         ELSE q[Len(q)] = Update(server.world)

\* Whatever breaks, a page that moves moves to a later world that exists.
Feed == INSTANCE WorldFeed WITH
  line <- disk.rows,
  shown <- [c \in Clients |-> store[c].world]

FollowsFeed == Feed!Spec

\* Every page that is not loaded again and again shows, in the end, the world of
\* the backend, over lost connections and restarts.  (Unless a message could not be
\* recorded: if it is the last one, the page learns of its world when it reconnects.)
CatchesUp ==
  \A c \in Clients :
    []<>(budget.refused \/ (server.up /\ store[c].world = server.world))

\* A page that connects takes the backend's snapshot for the world.
SnapshotIsTaken ==
  [][\A c \in Clients :
       /\ session[c].state = "open"
       /\ session[c].queue # <<>>
       /\ Head(session[c].queue) = Update(server.world)
       /\ session'[c].queue = Tail(session[c].queue)
       => store'[c].world = server.world]_vars

=============================================================================
