------------------------------- MODULE Bridge -------------------------------
(***************************************************************************)
(* AgentBridge (agent_runner/runner.py): the process that asks the Core    *)
(* for a plan whenever the backend awaits one, submits it, and confirms    *)
(* its settlement.  It sees the backend over two channels whose order is   *)
(* not fixed: HTTP answers, and the WebSocket stream of the commits.       *)
(*                                                                         *)
(* A step is what one task does between two awaits.  An HTTP call is two   *)
(* steps: the backend handles it, and the worker goes on with the answer;  *)
(* the stream and the backend move in between.                             *)
(*                                                                         *)
(* The backend is what WorldLoop and ManagedExternalPlanSource look like   *)
(* through their API (module WorldLoop has the detail): one request per    *)
(* snapshot and attempt, taken, judged and settled.  A plan is reduced to  *)
(* the request it was made for and to who would refuse it.                 *)
(***************************************************************************)
EXTENDS Naturals, Sequences

CONSTANTS
  MaxAttempts,  \* plans the loop judges in one tick (3)
  SubmitTries,  \* times a submission is sent (2)
  SchemaLimit,  \* 422 answers before the bridge gives the request up (3)
  MaxTicks,     \* --max-ticks
  MaxVersion,   \* bound: from this version on the world does not change
  None

ASSUME ConstantsAssumption ==
  /\ MaxAttempts \in Nat \ {0}
  /\ SubmitTries \in Nat \ {0}
  /\ SchemaLimit \in Nat \ {0}
  /\ MaxTicks \in Nat
  /\ MaxVersion \in Nat

VARIABLES
  world,     \* the authoritative world
  ask,       \* ManagedExternalPlanSource.request, with the plan queued for it
  stream,    \* WebSocket messages on their way to the bridge
  known,     \* AgentBridge.state: version and tick of the newest state_update
  changed,   \* AgentBridge.changed
  tracker,   \* AgentBridge.tracker; pending is set and cleared with it
  worker,    \* AgentBridge._work and _cycle: where they are and their locals
  schema,    \* schema_attempts of the request that was answered 422 last
  core,      \* CorePort.current_plan: the plan whose settlement was confirmed last
  completed, \* AgentBridge.completed
  ghost      \* history for the properties; no guard of the code reads it

backendVars == <<world, ask>>
vars == <<world, ask, stream, known, changed, tracker, worker, schema,
          core, completed, ghost>>

-----------------------------------------------------------------------------
\* The plan a tick executes: that of its request number n, or the empty one the
\* loop puts in after the last refusal.
Empty == MaxAttempts
PlanNumbers == 0 .. MaxAttempts

Worlds == [version : Nat, tick : Nat, paused : BOOLEAN,
           reason : {"none", "player", "error"}, failed : BOOLEAN]

Qualities == {"good", "infeasible", "malformed"}

Asks == [version : Nat, tick : Nat, n : 0 .. MaxAttempts - 1,
         status : {"awaiting", "queued", "failed"}, quality : Qualities]

Events == [version : Nat, type : {"plan_failed", "player_edit", "other"}]

Messages ==
  [kind : {"tick_plan"}, version : Nat, tick : Nat, plan : PlanNumbers]
    \cup [kind : {"world_event"}, event : Events]
    \cup [kind : {"state_update"}, world : Worlds]

Trackers == [version : Nat, tick : Nat, n : 0 .. MaxAttempts - 1,
             observed : PlanNumbers \cup {None}, events : SUBSET Events,
             state : Worlds \cup {None}, stale : BOOLEAN]

Requests == [version : Nat, tick : Nat, n : 0 .. MaxAttempts - 1]
Ids == [version : Nat, n : 0 .. MaxAttempts - 1]

Workers == [pc : {"poll", "offered", "fetched", "planning", "recheck", "rechecked",
                  "submitting", "answered", "watching", "compared", "failing",
                  "refusing", "ended"},
            held : Requests \cup {None}, spent : BOOLEAN, quality : Qualities,
            tries : 0 .. SubmitTries, taken : BOOLEAN,
            answer : {"none", "accepted", "conflict", "invalid"}]

\* History: what each version executed, what was confirmed to the Core, and the
\* request whose plan the backend took last.
Settlements == [version : Nat, tick : Nat, plan : PlanNumbers, events : SUBSET Events]

ASSUME NoneAssumption ==
  None \notin PlanNumbers \cup Worlds \cup Asks \cup Requests \cup Ids \cup Trackers

Id(r) == [version |-> r.version, n |-> r.n]

Running(w) == ~w.paused /\ w.reason = "none" /\ ~w.failed

InBounds == world.version < MaxVersion

-----------------------------------------------------------------------------
(* The backend.                                                            *)

PlanMessage(v, t, n) == [kind |-> "tick_plan", version |-> v, tick |-> t, plan |-> n]
EventMessage(e) == [kind |-> "world_event", event |-> e]
StateMessage(w) == [kind |-> "state_update", world |-> w]

FreshWorld(v) ==
  [version |-> v, tick |-> 0, paused |-> FALSE, reason |-> "none", failed |-> FALSE]

\* Ingest.commit tells every subscriber the plan, the events and the state at once.
Commit(w, news) ==
  /\ world' = w
  /\ stream' = IF worker.pc = "ended" THEN stream
               ELSE stream \o news \o <<StateMessage(w)>>

ErrorPause ==
  Commit([world EXCEPT !.version = @ + 1, !.paused = TRUE, !.reason = "error"],
         <<EventMessage([version |-> world.version + 1, type |-> "plan_failed"])>>)

bridgeVars == <<known, changed, tracker, worker, schema, core, completed>>

Control(reason) ==
  /\ InBounds
  /\ reason = "none" => ~world.failed
  /\ Commit([world EXCEPT !.version = @ + 1, !.paused = reason # "none", !.reason = reason],
            <<>>)
  /\ UNCHANGED <<ask, bridgeVars, ghost>>

Edit ==
  /\ InBounds
  /\ \E kills \in BOOLEAN :
       Commit([world EXCEPT !.version = @ + 1, !.failed = @ \/ kills],
              <<EventMessage([version |-> world.version + 1, type |-> "player_edit"])>>)
  /\ UNCHANGED <<ask, bridgeVars, ghost>>

Reset ==
  /\ InBounds
  /\ Commit(FreshWorld(world.version + 1), <<>>)
  /\ UNCHANGED <<ask, bridgeVars, ghost>>

Request(n) ==
  [version |-> world.version, tick |-> world.tick, n |-> n, status |-> "awaiting",
   quality |-> "good"]

OpenRequest ==
  /\ ask = None
  /\ Running(world)
  /\ ask' = Request(0)
  /\ UNCHANGED <<world, stream, bridgeVars, ghost>>

\* The loop notices that the world has moved on, drops whatever was answered and
\* starts the tick again.
Supersede ==
  /\ ask # None
  /\ ask.version # world.version
  /\ ask' = None
  /\ UNCHANGED <<world, stream, bridgeVars, ghost>>

\* The plan n is executed, perhaps with events; the empty one tells plan_failed.
Settle(n) ==
  \E mission \in BOOLEAN, eventful \in BOOLEAN :
    LET now == world.version + 1
        event == [version |-> now, type |-> IF n = Empty THEN "plan_failed" ELSE "other"]
    IN /\ n = Empty => eventful
       /\ Commit([world EXCEPT !.version = now, !.tick = @ + 1, !.failed = mission],
                 <<PlanMessage(world.version, world.tick, n)>>
                   \o IF eventful THEN <<EventMessage(event)>> ELSE <<>>)
       /\ ask' = None
       /\ ghost' = [ghost EXCEPT !.executed =
                      @ \cup {[version |-> world.version, tick |-> world.tick, plan |-> n,
                               events |-> IF eventful THEN {event} ELSE {}]}]
       /\ UNCHANGED bridgeVars

\* The plan is taken; when it is refused, the next request of the tick opens.
Judge ==
  /\ InBounds
  /\ ask # None
  /\ ask.status = "queued"
  /\ ask.version = world.version
  /\ IF ask.quality = "good" THEN Settle(ask.n)
     ELSE IF ask.n + 1 = MaxAttempts THEN Settle(Empty)
     ELSE /\ ask' = Request(ask.n + 1)
          /\ UNCHANGED <<world, stream, bridgeVars, ghost>>

\* The request was given up by the bridge, or not answered before its deadline.
GiveUp(status) ==
  /\ InBounds
  /\ ask # None
  /\ ask.status = status
  /\ ask.version = world.version
  /\ ErrorPause
  /\ ask' = None
  /\ UNCHANGED <<bridgeVars, ghost>>

\* GET /decision, _check, and POST /ingest/decision-failure.
Offered == IF ask # None /\ ask.version = world.version /\ Running(world) THEN ask ELSE None

Awaited(id) == Offered # None /\ Id(ask) = id /\ ask.status = "awaiting"

-----------------------------------------------------------------------------
(* SettlementTracker.                                                      *)

Track(r) ==
  [version |-> r.version, tick |-> r.tick, n |-> r.n, observed |-> None,
   events |-> {}, state |-> None, stale |-> FALSE]

AcceptPlan(t, m) ==
  [t EXCEPT !.observed = IF m.tick = t.tick /\ m.version = t.version THEN m.plan ELSE None,
            !.events = {}]

AcceptEvent(t, m) ==
  IF t.observed # None THEN [t EXCEPT !.events = @ \cup {m.event}] ELSE t

\* Bug: what was observed is forgotten with every state_update.
AcceptStateForgetting(t, m) ==
  LET w == m.world
      confirms == t.observed # None /\ w.tick = t.tick + 1 /\ w.version = t.version + 1
  IN [t EXCEPT !.state = IF confirms THEN w ELSE @,
               !.stale = @ \/ (~confirms /\ w.version > t.version),
               !.observed = None]

\* A world that follows the observed plan by one tick and one version confirms it
\* (a settled world has the summary of its tick); any other later world means that
\* the plan was overtaken.
AcceptState(t, m) ==
  LET w == m.world
      confirms == t.observed # None /\ w.tick = t.tick + 1 /\ w.version = t.version + 1
  IN [t EXCEPT !.state = IF confirms THEN w ELSE @,
               !.stale = @ \/ (~confirms /\ w.version > t.version),
               !.observed = IF confirms \/ t.state # None THEN @ ELSE None]

Accept(t, m) ==
  CASE m.kind = "tick_plan" -> AcceptPlan(t, m)
    [] m.kind = "world_event" -> AcceptEvent(t, m)
    [] m.kind = "state_update" -> AcceptState(t, m)

\* AgentBridge._read: every message goes to the tracker; a newer world becomes the
\* known one, and one whose tick is smaller makes the Core forget.
Hear ==
  /\ worker.pc # "ended"
  /\ stream # <<>>
  /\ LET m == Head(stream)
         newer == m.kind = "state_update" /\ (known = None \/ m.world.version > known.version)
         back == newer /\ known # None /\ m.world.tick < known.tick
     IN /\ tracker' = IF tracker = None THEN None ELSE Accept(tracker, m)
        /\ known' = IF newer THEN [version |-> m.world.version, tick |-> m.world.tick]
                    ELSE known
        /\ changed' = (changed \/ newer)
        /\ core' = IF back THEN None ELSE core
  /\ stream' = Tail(stream)
  /\ UNCHANGED <<backendVars, worker, schema, completed, ghost>>

-----------------------------------------------------------------------------
(* AgentBridge._work, _cycle, _decide and _submit.                         *)

quietVars == <<backendVars, stream, known, core, completed, ghost>>

Matches(w, r) == w.version = r.version /\ w.tick = r.tick

Idle(pc) ==
  [pc |-> pc, held |-> None, spent |-> FALSE, quality |-> "good", tries |-> 0,
   taken |-> FALSE, answer |-> "none"]

\* run: health check, connection, and the snapshot that opens every stream.
Start ==
  /\ worker.pc = "ended"
  /\ worker' = Idle("poll")
  /\ stream' = <<StateMessage(world)>>
  /\ UNCHANGED <<backendVars, known, changed, tracker, schema, core, completed, ghost>>

\* The process ends with what it holds: a plan whose settlement was not confirmed is
\* reported as unconfirmed.
End ==
  /\ worker' = Idle("ended")
  /\ tracker' = None
  /\ stream' = <<>>
  /\ known' = None
  /\ changed' = FALSE
  /\ schema' = None
  /\ core' = None
  /\ completed' = 0
  /\ UNCHANGED <<backendVars, ghost>>

\* The stream closes or an HTTP call fails.
Break == worker.pc # "ended" /\ End

\* The limit is reached.
Finish == worker.pc = "poll" /\ completed = MaxTicks /\ End

\* Bug: the limit is not looked at, and a queued request is taken up as well.
PollBlindly ==
  /\ worker.pc = "poll"
  /\ worker' = [Idle("offered") EXCEPT
                  !.held = IF Offered # None THEN [version |-> ask.version, tick |-> ask.tick,
                                                   n |-> ask.n] ELSE None]
  /\ UNCHANGED <<quietVars, changed, tracker, schema>>

Poll ==
  /\ worker.pc = "poll"
  /\ completed < MaxTicks
  /\ worker' = [Idle("offered") EXCEPT
                  !.held = IF Offered # None /\ ask.status = "awaiting"
                           THEN [version |-> ask.version, tick |-> ask.tick, n |-> ask.n]
                           ELSE None]
  /\ UNCHANGED <<quietVars, changed, tracker, schema>>

Fetch ==
  /\ worker.pc = "offered"
  /\ worker' = IF worker.held # None /\ known # None
               THEN [worker EXCEPT !.pc = "fetched",
                                   !.answer = IF Matches(world, worker.held) /\ Running(world)
                                              THEN "accepted" ELSE "conflict"]
               ELSE Idle("poll")
  /\ UNCHANGED <<quietVars, changed, tracker, schema>>

Begin ==
  /\ worker.pc = "fetched"
  /\ IF worker.answer = "accepted"
     THEN worker' = [worker EXCEPT !.pc = "planning", !.answer = "none"] /\ changed' = FALSE
     ELSE worker' = Idle("poll") /\ UNCHANGED changed
  /\ UNCHANGED <<quietVars, tracker, schema>>

Overtaken == known.version # worker.held.version

\* A cycle that returns no schema errors forgets those of its request.
Forgiven == IF schema # None /\ schema.id = Id(worker.held) THEN None ELSE schema

Return ==
  /\ worker' = Idle("poll")
  /\ schema' = Forgiven

\* _decide is waiting when the stream brings a world.  Another version ends the
\* planning; the one the bridge plans for ends the watch for further ones.
Notice ==
  /\ worker.pc = "planning"
  /\ changed
  /\ ~worker.spent
  /\ IF Overtaken THEN Return
     ELSE worker' = [worker EXCEPT !.spent = TRUE] /\ UNCHANGED schema
  /\ UNCHANGED <<quietVars, changed, tracker>>

\* The relay of a public message finds that the known world is another one.  After
\* the watch has ended this is seen only when the Core has finished (PlanReady).
RelayStale ==
  /\ worker.pc = "planning"
  /\ ~worker.spent
  /\ Overtaken
  /\ Return
  /\ UNCHANGED <<quietVars, changed, tracker>>

\* The Core has a plan and its messages are relayed; a world noticed meanwhile
\* makes it stale.
PlanReady ==
  /\ worker.pc = "planning"
  /\ IF changed /\ Overtaken THEN Return
     ELSE /\ \E q \in Qualities :
               worker' = [worker EXCEPT !.pc = "recheck", !.quality = q]
          /\ UNCHANGED schema
  /\ UNCHANGED <<quietVars, changed, tracker>>

\* Specialist, model, contract or relay failed.
PlanFails ==
  /\ worker.pc = "planning"
  /\ worker' = [worker EXCEPT !.pc = "failing"]
  /\ UNCHANGED <<quietVars, changed, tracker, schema>>

\* POST /ingest/decision-failure: fail_bound, 202, or 409 when it is too late.
TellFailure ==
  /\ worker.pc \in {"failing", "refusing"}
  /\ ask' = IF Awaited(Id(worker.held)) THEN [ask EXCEPT !.status = "failed"] ELSE ask
  /\ schema' = IF worker.pc = "failing" THEN Forgiven ELSE schema
  /\ worker' = Idle("poll")
  /\ UNCHANGED <<world, stream, known, changed, tracker, core, completed, ghost>>

Recheck ==
  /\ worker.pc = "recheck"
  /\ worker' = [worker EXCEPT !.pc = "rechecked",
                              !.answer = IF world.version = worker.held.version /\ Running(world)
                                         THEN "accepted" ELSE "conflict"]
  /\ UNCHANGED <<quietVars, changed, tracker, schema>>

Rechecked ==
  /\ worker.pc = "rechecked"
  /\ IF worker.answer = "conflict" THEN Return /\ UNCHANGED tracker
     ELSE /\ worker' = [worker EXCEPT !.pc = "submitting", !.answer = "none"]
          /\ tracker' = Track(worker.held)
          /\ UNCHANGED schema
  /\ UNCHANGED <<quietVars, changed>>

\* Bug: a submission without an answer is sent for ever.
SubmitForever ==
  /\ worker.pc = "submitting"
  /\ worker' = [worker EXCEPT !.tries = @ + 1]
  /\ UNCHANGED <<quietVars, changed, tracker, schema>>

\* POST /ingest/decision-plan with one submission_id.  A plan the schema refuses is
\* a 422; a submission taken before is answered from its receipt; then submit_bound.
\* The request or its response may be lost.
Submit ==
  LET id == Id(worker.held)
      takes == worker.quality # "malformed" /\ ~worker.taken /\ Awaited(id)
      reply == IF worker.quality = "malformed" THEN "invalid"
               ELSE IF worker.taken \/ takes THEN "accepted" ELSE "conflict"
  IN /\ worker.pc = "submitting"
     /\ \E handled \in BOOLEAN, heard \in BOOLEAN :
          /\ heard => handled
          /\ ask' = IF handled /\ takes
                    THEN [ask EXCEPT !.status = "queued", !.quality = worker.quality] ELSE ask
          /\ ghost' = IF handled /\ takes
                      THEN [ghost EXCEPT !.taken = id] ELSE ghost
          /\ worker' = [worker EXCEPT
               !.tries = @ + 1,
               !.taken = @ \/ (handled /\ takes),
               !.answer = IF heard THEN reply ELSE "none",
               !.pc = IF heard \/ worker.tries + 1 = SubmitTries THEN "answered" ELSE @]
     /\ UNCHANGED <<world, stream, known, changed, tracker, schema, core, completed>>

Answered ==
  /\ worker.pc = "answered"
  /\ CASE worker.answer = "conflict" -> Return /\ tracker' = None
       [] worker.answer = "invalid" ->
            LET id == Id(worker.held)
                count == IF schema # None /\ schema.id = id THEN schema.count + 1 ELSE 1
            IN /\ schema' = [id |-> id, count |-> count]
               /\ tracker' = None
               /\ worker' = IF count >= SchemaLimit THEN [worker EXCEPT !.pc = "refusing"]
                            ELSE Idle("poll")
       [] OTHER -> /\ worker' = [Idle("watching") EXCEPT !.held = worker.held]
                   /\ UNCHANGED <<schema, tracker>>
  /\ UNCHANGED <<quietVars, changed>>

-----------------------------------------------------------------------------
(* The wait for evidence that ends _cycle.                                 *)

Evidence == [version |-> tracker.version, tick |-> tracker.tick,
             plan |-> tracker.observed, events |-> tracker.events]

\* Bug: the settlement stays where it was found.
ReportTwice ==
  /\ worker.pc = "watching"
  /\ tracker.state # None
  /\ core' = Id(tracker)
  /\ completed' = completed + 1
  /\ ghost' = [ghost EXCEPT !.reports = Append(@, Evidence)]
  /\ worker' = IF completed + 1 < MaxTicks THEN worker ELSE Idle("poll")
  /\ UNCHANGED <<backendVars, stream, known, changed, schema, tracker>>

\* Bug: the tracker outlives the report.
ReportKeeping ==
  /\ worker.pc = "watching"
  /\ tracker.state # None
  /\ core' = Id(tracker)
  /\ completed' = completed + 1
  /\ ghost' = [ghost EXCEPT !.reports = Append(@, Evidence)]
  /\ Return
  /\ UNCHANGED <<backendVars, stream, known, changed, tracker>>

\* CorePort.accept_result, the notice, and the count of completed ticks.
Report ==
  /\ worker.pc = "watching"
  /\ tracker.state # None
  /\ core' = IF \E e \in tracker.events : e.type = "plan_failed" THEN None ELSE Id(tracker)
  /\ completed' = completed + 1
  /\ ghost' = [ghost EXCEPT !.reports = Append(@, Evidence)]
  /\ tracker' = None
  /\ Return
  /\ UNCHANGED <<backendVars, stream, known, changed>>

DropStale ==
  /\ worker.pc = "watching"
  /\ tracker.state = None
  /\ tracker.stale
  /\ tracker' = None
  /\ Return
  /\ UNCHANGED <<quietVars, changed>>

\* GET /decision; its answer takes the place of the request that was worked on only
\* to be compared with it.
Compare ==
  /\ worker.pc = "watching"
  /\ tracker.state = None
  /\ ~tracker.stale
  /\ worker' = [worker EXCEPT !.pc = "compared",
                              !.answer = IF Offered # None /\ Id(ask) # Id(worker.held)
                                         THEN "conflict" ELSE "none"]
  /\ UNCHANGED <<quietVars, changed, tracker, schema>>

\* Another request is open, so this plan was refused: unless the stream has brought
\* its settlement during the call.
Compared ==
  /\ worker.pc = "compared"
  /\ IF worker.answer = "conflict" /\ tracker.state = None THEN Return /\ tracker' = None
     ELSE /\ worker' = [worker EXCEPT !.pc = "watching", !.answer = "none"]
          /\ UNCHANGED <<schema, tracker>>
  /\ UNCHANGED <<quietVars, changed>>

-----------------------------------------------------------------------------
Init ==
  /\ world = FreshWorld(0)
  /\ ask = None
  /\ stream = <<>>
  /\ known = None
  /\ changed = FALSE
  /\ tracker = None
  /\ worker = Idle("ended")
  /\ schema = None
  /\ core = None
  /\ completed = 0
  /\ ghost = [executed |-> {}, reports |-> <<>>, taken |-> None]

Player == Edit \/ Reset \/ \E reason \in {"none", "player"} : Control(reason)

Backend == OpenRequest \/ Supersede \/ Judge \/ GiveUp("failed") \/ GiveUp("awaiting")

Planning == PlanReady \/ PlanFails \/ RelayStale

\* What the worker does by itself once its HTTP calls are handled.
Worker ==
  \/ Poll \/ Finish \/ Fetch \/ Begin \/ Notice \/ TellFailure \/ Recheck \/ Rechecked
  \/ Submit \/ Answered \/ Report \/ DropStale \/ Compare \/ Compared

Next == Player \/ Backend \/ Hear \/ Start \/ Break \/ Planning \/ Worker

Spec == Init /\ [][Next]_vars

\* The event loops run, calls are answered or fail, the deadline of a request passes
\* and the stream delivers.  Nothing is assumed of the Core, of the player, or of
\* anybody starting the bridge.
FairSpec == Spec /\ WF_vars(Backend) /\ WF_vars(Hear) /\ WF_vars(Worker)

-----------------------------------------------------------------------------
(* Properties.                                                             *)

\* The types of the backend, of the stream and of the bridge's own state; a submission
\* is tried at most SubmitTries times.
TypeOK ==
  /\ world \in Worlds
  /\ ask \in Asks \cup {None}
  /\ stream \in Seq(Messages)
  /\ known \in [version : Nat, tick : Nat] \cup {None}
  /\ changed \in BOOLEAN
  /\ tracker \in Trackers \cup {None}
  /\ worker \in Workers
  /\ schema \in [id : Ids, count : 1 .. SchemaLimit] \cup {None}
  /\ core \in Ids \cup {None}
  /\ completed \in 0 .. MaxTicks
  /\ ghost \in [executed : SUBSET Settlements, reports : Seq(Settlements),
                taken : Ids \cup {None}]

\* The report e is backed by a commit: that very tick of that very version executed
\* the plan it names, which need not be the one submitted, and every event of the
\* settlement is in it.
Backed(e) ==
  \E s \in ghost.executed :
    /\ s.version = e.version
    /\ s.tick = e.tick
    /\ s.plan = e.plan
    /\ s.events \subseteq e.events

\* A settlement is taken as confirmed only if it happened, and whatever the stream
\* brings before the worker looks, the plan that was executed is still known.
EvidenceIsReal ==
  tracker # None /\ tracker.state # None => Backed(Evidence)

\* The Core is told of each settlement at most once, over lost responses, repeated
\* submissions, refusals and restarts of the bridge.
ReportedOnce ==
  \A i, j \in DOMAIN ghost.reports :
    ghost.reports[i].version = ghost.reports[j].version => i = j

\* The bridge never plans again for a request whose plan the backend has taken, also
\* when it was never told so.
PlansOnce ==
  [][worker'.pc = "planning" /\ worker.pc # "planning"
       => Id(worker'.held) # ghost.taken]_vars

\* A submitted plan is confirmed or given up, whatever was lost, as long as the
\* world is not stopped for good.
PendingIsResolved ==
  (tracker # None /\ tracker.version < MaxVersion) ~> (tracker = None \/ []~Running(world))

=============================================================================
