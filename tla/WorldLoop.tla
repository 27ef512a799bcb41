----------------------------- MODULE WorldLoop -----------------------------
(***************************************************************************)
(* The authoritative world of "We Keep the Dawn" and the tasks that change *)
(* it: WorldLoop (backend/orchestration/world_loop.py), its plan source    *)
(* (backend/integration/decisions.py over integration/sources.py), the     *)
(* commit pipeline (orchestration/ingest.py, domain/state.py) and the      *)
(* HTTP/WS commands (api/rest.py, main.py).                                *)
(*                                                                         *)
(* Everything runs on one asyncio event loop, so a step is what one task   *)
(* does between two points where it really suspends.  No section under     *)
(* WorldLoop._lock suspends (repository.set is synchronous, publishing     *)
(* only does put_nowait), so each command is one step, and so is the way   *)
(* from the version check of a proposed plan to the commit of its          *)
(* settlement.  The interleavings are at the awaits of _request_plan, of   *)
(* ManagedExternalPlanSource.plan and of the delay in run.                 *)
(*                                                                         *)
(* What the engine computes is abstracted to what the loop sees of it: a   *)
(* settlement gives the next tick, some events, and perhaps a failed       *)
(* mission.  A plan is abstracted to the snapshot it is bound to and       *)
(* whether it is feasible there.                                           *)
(***************************************************************************)
EXTENDS Naturals, Sequences

CONSTANTS
  DecisionInterval, \* ticks between two scheduled decisions (1 in main.py)
  MaxAttempts,      \* validation attempts of one tick (3)
  Submissions,      \* submission_id values
  MaxReceipts,      \* receipts kept before the oldest is evicted (256)
  LegacyQueue,      \* bound: plans POST /ingest/plan may leave in the queue (0: endpoint unused)
  MaxVersion,       \* bound: from this version on no command comes and the loop idles
  MaxFaults,        \* bound: failures injected into storage and the engine
  NoVersion, NoPlan, NoRequest

ASSUME ConstantsAssumption ==
  /\ DecisionInterval \in Nat \ {0}
  /\ MaxAttempts \in Nat \ {0}
  /\ MaxReceipts \in Nat
  /\ LegacyQueue \in Nat
  /\ MaxVersion \in Nat
  /\ MaxFaults \in Nat
  /\ NoVersion \notin Nat

VARIABLES
  world,    \* StateRepository._state: what the loop reads of WorldState
  loop,     \* WorldLoop: _events, _force_decision, _state_changed, _wake_event
  tick,     \* the runner: where it is, and the locals of WorldLoop.tick
  task,     \* the task of ManagedExternalPlanSource.plan
  request,  \* ManagedExternalPlanSource.request
  plans,    \* ExternalPlanSource._plans
  receipts, \* ManagedExternalPlanSource._receipts, oldest first
  faults,   \* failures still to be injected
  ghost     \* history for the properties; no guard of the code reads it

vars == <<world, loop, tick, task, request, plans, receipts, faults, ghost>>
sourceVars == <<task, request, plans, receipts>>

-----------------------------------------------------------------------------
Snapshots == [version : Nat, tick : Nat]

Plans == [tick : Nat, version : Nat \cup {NoVersion}, feasible : BOOLEAN,
          era : Nat]       \* era: history, the resets before it was queued

Events == [kind : {"edit", "world"}, version : Nat]

Worlds == [version : Nat, tick : Nat, paused : BOOLEAN,
           reason : {"none", "player", "error"}, failed : BOOLEAN]

Loops == [events : SUBSET Events, force : BOOLEAN, changed : BOOLEAN, wake : BOOLEAN]

Ticks == [pc : {"top", "asking", "answered", "delay", "dead"}, seen : Snapshots,
          told : SUBSET Events, rejected : Nat, outcome : {"none", "plan", "error"},
          plan : Plans \cup {NoPlan}]

Tasks == [stage : {"created", "open", "closing", "done"}, cancelled : BOOLEAN,
          failure : BOOLEAN, expired : BOOLEAN, popped : Plans \cup {NoPlan},
          outcome : {"none", "plan", "error"}]

Requests == [at : Snapshots, status : {"awaiting", "queued", "failed"}]

ASSUME NullsAssumption == NoPlan \notin Plans /\ NoRequest \notin Requests

\* History: a command the runner has not looked at yet, the edits since the last
\* settlement, the answers of the open request, the resets, and whether the
\* player wants the world paused.
Ghosts == [unheard : BOOLEAN, edits : SUBSET Nat, answers : Nat, era : Nat,
           pausing : BOOLEAN]

\* The next world after a pause (or, with no reason, a resume), after a new speed,
\* after a settlement and after an edit.
HaltedFor(w, reason) ==
  [version |-> w.version + 1, tick |-> w.tick, paused |-> reason # "none",
   reason |-> reason, failed |-> w.failed]

Respeeded(w) ==
  [version |-> w.version + 1, tick |-> w.tick, paused |-> w.paused,
   reason |-> w.reason, failed |-> w.failed]

Settled(w, mission) ==
  [version |-> w.version + 1, tick |-> w.tick + 1, paused |-> w.paused,
   reason |-> w.reason, failed |-> mission]

Edited(w, kills) ==
  [version |-> w.version + 1, tick |-> w.tick, paused |-> w.paused,
   reason |-> w.reason, failed |-> w.failed \/ kills]

FreshWorld(v) ==
  [version |-> v, tick |-> 0, paused |-> FALSE, reason |-> "none", failed |-> FALSE]

Snapshot(w) == [version |-> w.version, tick |-> w.tick]

Halted == world.paused \/ world.reason # "none" \/ world.failed

InBounds == world.version < MaxVersion

\* PlanValidator.check against the snapshot the tick observed.
Valid(p) ==
  /\ p.tick = tick.seen.tick
  /\ p.version \in {NoVersion, tick.seen.version}
  /\ p.feasible

\* Bug: only the halt flags are looked at again, not the version.
SupersededIfHalted == world.paused \/ world.failed

Superseded ==
  world.version # tick.seen.version \/ world.paused \/ world.failed

-----------------------------------------------------------------------------
(***************************************************************************)
(* Ingest.commit and StateRepository.set.  The snapshot is persisted, then *)
(* replaced in memory, then recorded and published; storage may refuse it  *)
(* (nothing changes) or fail while its messages are recorded (the world    *)
(* has changed).  Either failure raises out of commit.  left: the failures *)
(* that may still be injected.                                             *)
(***************************************************************************)
Commits(w, left) == world' = w /\ faults' = left

Raises(w, left) ==
  /\ left > 0
  /\ faults' = left - 1
  /\ world' \in {world, w}

\* The runner between two ticks, and the source task at a stage it reaches untouched.
Idle(pc) ==
  [pc |-> pc, seen |-> Snapshot(FreshWorld(0)), told |-> {}, rejected |-> 0,
   outcome |-> "none", plan |-> NoPlan]

Task(stage) ==
  [stage |-> stage, cancelled |-> FALSE, failure |-> FALSE, expired |-> FALSE,
   popped |-> NoPlan, outcome |-> "none"]

\* History: a command has changed the world and the runner has not seen it yet.
Commanded(edits, pausing) ==
  [unheard |-> ghost.unheard \/ world' # world, edits |-> edits,
   answers |-> ghost.answers, era |-> ghost.era, pausing |-> pausing]

Restarted == [unheard |-> TRUE, edits |-> {}, answers |-> ghost.answers,
              era |-> ghost.era + 1, pausing |-> FALSE]

-----------------------------------------------------------------------------
Init ==
  /\ world = FreshWorld(0)
  /\ loop = [events |-> {}, force |-> TRUE, changed |-> FALSE, wake |-> FALSE]
  /\ tick = Idle("top")
  /\ task = Task("done")
  /\ request = NoRequest
  /\ plans = <<>>
  /\ receipts = <<>>
  /\ faults = MaxFaults
  /\ ghost = [unheard |-> FALSE, edits |-> {}, answers |-> 0, era |-> 0,
              pausing |-> FALSE]

-----------------------------------------------------------------------------
(* Player commands: WorldLoop.control, edit_resources and reset.           *)

\* Bug: a command does not wake the delay.
AnnouncedQuietly(evs, forced) ==
  [events |-> evs, force |-> forced, changed |-> TRUE, wake |-> loop.wake]

Announced(evs, forced) ==
  [events |-> evs, force |-> forced, changed |-> TRUE, wake |-> TRUE]

\* main.start_loop: a runner that has ended is started again.
Started == IF tick.pc = "dead" THEN Idle("top") ELSE tick

Pause ==
  LET paused == HaltedFor(world, "player")
  IN /\ InBounds
     /\ Commits(paused, faults) \/ Raises(paused, faults)
     /\ loop' = Announced(loop.events, loop.force)
     /\ ghost' = Commanded(ghost.edits, ghost.pausing \/ world' # world)
     /\ UNCHANGED <<tick, sourceVars>>

\* A failed world is not resumed, but the request still restarts the runner,
\* which then ends again.
ResumeFailed ==
  /\ world.failed
  /\ tick' = Started
  /\ UNCHANGED <<world, loop, sourceVars, faults, ghost>>

Resume ==
  LET resumed == HaltedFor(world, "none")
  IN /\ InBounds
     /\ ~world.failed
     /\ \/ Commits(resumed, faults) /\ tick' = Started
        \/ Raises(resumed, faults) /\ UNCHANGED tick
     /\ loop' = Announced(loop.events, TRUE)
     /\ ghost' = Commanded(ghost.edits, ghost.pausing /\ world' = world)
     /\ UNCHANGED sourceVars

Speed ==
  /\ InBounds
  /\ Commits(Respeeded(world), faults) \/ Raises(Respeeded(world), faults)
  /\ loop' = Announced(loop.events, loop.force)
  /\ ghost' = Commanded(ghost.edits, ghost.pausing)
  /\ UNCHANGED <<tick, sourceVars>>

\* The edit is told to the planner as a player_edit event; emptying the oxygen
\* kills the crew at once.
Edit ==
  \E kills \in BOOLEAN :
    LET edited == Edited(world, kills)
        event == [kind |-> "edit", version |-> edited.version]
    IN /\ InBounds
       /\ Commits(edited, faults) \/ Raises(edited, faults)
       /\ loop' = Announced(loop.events \cup {event}, TRUE)
       /\ ghost' = Commanded(ghost.edits \cup (IF world' = world THEN {} ELSE {edited.version}),
                             ghost.pausing)
       /\ UNCHANGED <<tick, sourceVars>>

\* Bug: a reset that leaves the waiting plans in the queue.
ResetKeepingPlans ==
  LET fresh == FreshWorld(world.version + 1)
  IN /\ InBounds
     /\ Commits(fresh, faults) /\ tick' = Started
     /\ loop' = Announced({}, TRUE)
     /\ ghost' = Restarted
     /\ UNCHANGED <<sourceVars>>

\* Bug: a reset that starts counting versions again.
ResetFromZero ==
  /\ InBounds
  /\ Commits(FreshWorld(0), faults) /\ plans' = <<>> /\ tick' = Started
  /\ loop' = Announced({}, TRUE)
  /\ ghost' = Restarted
  /\ UNCHANGED <<task, request, receipts>>

\* The version goes on counting, and the plans that wait are forgotten.
Reset ==
  LET fresh == FreshWorld(world.version + 1)
  IN /\ InBounds
     /\ \/ Commits(fresh, faults) /\ plans' = <<>> /\ tick' = Started
        \/ Raises(fresh, faults) /\ UNCHANGED <<plans, tick>>
     /\ loop' = Announced({}, TRUE)
     /\ ghost' = IF world' = world THEN ghost ELSE Restarted
     /\ UNCHANGED <<task, request, receipts>>

-----------------------------------------------------------------------------
(* The Core's answers: api/rest.py to the plan source.                     *)

\* Bug: an answered request still accepts an answer.
StillAwaiting ==
  /\ request # NoRequest
  /\ request.at = Snapshot(world)
  /\ ~Halted
  /\ ~task.expired

\* ManagedExternalPlanSource._check
Awaiting ==
  /\ request # NoRequest
  /\ request.status = "awaiting"
  /\ request.at = Snapshot(world)
  /\ ~Halted
  /\ ~task.expired

Remember(s) ==
  LET kept == Append(receipts, s)
  IN IF Len(kept) > MaxReceipts THEN Tail(kept) ELSE kept

\* submit_bound.  A submission_id with a receipt is answered from the receipt (or
\* refused when its content differs): neither changes anything.
SubmitDecision(s) ==
  /\ s \notin {receipts[i] : i \in DOMAIN receipts}
  /\ Awaiting
  /\ \E ok \in BOOLEAN :
       plans' = Append(plans, [tick |-> world.tick, version |-> world.version,
                               feasible |-> ok, era |-> ghost.era])
  /\ request' = [request EXCEPT !.status = "queued"]
  /\ receipts' = Remember(s)
  /\ ghost' = [ghost EXCEPT !.answers = @ + 1]
  /\ UNCHANGED <<world, loop, tick, task, faults>>

\* fail_bound
FailDecision ==
  /\ Awaiting
  /\ request' = [request EXCEPT !.status = "failed"]
  /\ task' = [task EXCEPT !.failure = TRUE]
  /\ ghost' = [ghost EXCEPT !.answers = @ + 1]
  /\ UNCHANGED <<world, loop, tick, plans, receipts, faults>>

\* Bound: the ticks and versions an unchecked plan names.  From MaxVersion on nothing
\* is settled, so larger numbers are like those that no longer fit.
Named == 0 .. MaxVersion - 1

\* POST /ingest/plan and the WS message submit_plan: queued without any check, with
\* whatever tick and state_version it names, also those of worlds still to come.
SubmitLegacy ==
  /\ Len(plans) < LegacyQueue
  /\ \E t \in Named, v \in Named \cup {NoVersion}, ok \in BOOLEAN :
       plans' = Append(plans, [tick |-> t, version |-> v, feasible |-> ok,
                               era |-> ghost.era])
  /\ UNCHANGED <<world, loop, tick, task, request, receipts, faults, ghost>>

-----------------------------------------------------------------------------
(***************************************************************************)
(* ManagedExternalPlanSource.plan, run as a task of _request_plan, with    *)
(* the inner task of ExternalPlanSource.plan that takes one queued plan.   *)
(* asyncio runs ready tasks first come, first served: a queued plan is     *)
(* taken (Ready) before a timer or a change seen later is acted upon.      *)
(***************************************************************************)
Ready == task.stage = "open" /\ task.popped = NoPlan /\ plans # <<>>

OpenRequest ==
  /\ task.stage = "created"
  /\ task' = Task("open")
  /\ request' = [at |-> tick.seen, status |-> "awaiting"]
  /\ UNCHANGED <<world, loop, tick, plans, receipts, faults, ghost>>

TakePlan ==
  /\ Ready
  /\ task' = [task EXCEPT !.popped = Head(plans)]
  /\ plans' = Tail(plans)
  /\ UNCHANGED <<world, loop, tick, request, receipts, faults, ghost>>

\* Wall clock and timer of the request reach timeout_seconds.
Expire ==
  /\ task.stage = "open"
  /\ ~task.expired
  /\ task' = [task EXCEPT !.expired = TRUE]
  /\ UNCHANGED <<world, loop, tick, request, plans, receipts, faults, ghost>>

\* Bug: a wait without a timeout.
CloseAnswered ==
  /\ task.stage = "open"
  /\ task.cancelled \/ task.failure \/ task.popped # NoPlan
  /\ task' = [task EXCEPT !.stage = "closing",
                          !.outcome = IF task.failure \/ task.popped = NoPlan
                                      THEN "error" ELSE "plan"]
  /\ request' = NoRequest
  /\ ghost' = [ghost EXCEPT !.answers = 0]
  /\ UNCHANGED <<world, loop, tick, plans, receipts, faults>>

\* The wait in plan() is over.  A cancellation beats everything, a failure beats
\* a plan (which is then lost), and a plan beats the timeout.
CloseRequest ==
  /\ task.stage = "open"
  /\ \/ task.cancelled
     \/ task.failure
     \/ task.popped # NoPlan
     \/ task.expired /\ ~Ready
  /\ task' = [task EXCEPT !.stage = "closing",
                          !.outcome = IF task.failure \/ task.popped = NoPlan
                                      THEN "error" ELSE "plan"]
  /\ request' = NoRequest
  /\ ghost' = [ghost EXCEPT !.answers = 0]
  /\ UNCHANGED <<world, loop, tick, plans, receipts, faults>>

FinishRequest ==
  /\ task.stage = "closing"
  /\ task' = IF task.cancelled THEN Task("done") ELSE [task EXCEPT !.stage = "done"]
  /\ UNCHANGED <<world, loop, tick, request, plans, receipts, faults, ghost>>

-----------------------------------------------------------------------------
(* WorldLoop._request_plan wakes up.                                       *)

\* Bug: whatever plan has arrived goes back to the queue.
WakeReturning ==
  /\ tick.pc = "asking"
  /\ loop.changed
  /\ task.stage # "created"
  /\ ~Ready
  /\ plans' = IF task.stage = "done" /\ task.outcome = "plan"
              THEN <<task.popped>> \o plans ELSE plans
  /\ task' = IF task.stage = "done" THEN Task("done") ELSE [task EXCEPT !.cancelled = TRUE]
  /\ tick' = [tick EXCEPT !.pc = "answered", !.outcome = "none", !.plan = NoPlan]
  /\ UNCHANGED <<world, loop, request, receipts, faults, ghost>>

\* The world was changed while the plan was awaited: the answer is none, whatever
\* arrived, but a plan already bound to the new snapshot goes back to the queue.
WakeChanged ==
  /\ tick.pc = "asking"
  /\ loop.changed
  /\ task.stage # "created"
  /\ ~Ready
  /\ LET unused == task.popped
     IN plans' = IF /\ task.stage = "done"
                    /\ task.outcome = "plan"
                    /\ unused.version = world.version
                    /\ unused.tick = world.tick
                 THEN <<unused>> \o plans
                 ELSE plans
  /\ task' = IF task.stage = "done" THEN Task("done") ELSE [task EXCEPT !.cancelled = TRUE]
  /\ tick' = [tick EXCEPT !.pc = "answered", !.outcome = "none", !.plan = NoPlan]
  /\ UNCHANGED <<world, loop, request, receipts, faults, ghost>>

WakeAnswered ==
  /\ tick.pc = "asking"
  /\ ~loop.changed
  /\ task.stage = "done"
  /\ tick' = [tick EXCEPT !.pc = "answered", !.outcome = task.outcome,
                          !.plan = IF task.outcome = "plan" THEN task.popped ELSE NoPlan]
  /\ task' = Task("done")
  /\ UNCHANGED <<world, loop, request, plans, receipts, faults, ghost>>

-----------------------------------------------------------------------------
(* WorldLoop.tick and run.                                                 *)

\* History of a step of the runner.
Seen(unheard, edits) ==
  [unheard |-> unheard, edits |-> edits, answers |-> ghost.answers,
   era |-> ghost.era, pausing |-> ghost.pausing]

\* The loop as a tick begins: whatever comes from now on will be noticed.
Cleared ==
  [events |-> loop.events, force |-> loop.force, changed |-> FALSE, wake |-> FALSE]

\* tick() returns to run(), which ends when the mission has failed.
Returned(w) == Idle(IF w.failed THEN "dead" ELSE "delay")

\* An exception out of tick() ends run().
Crashed == Idle("dead")

RunnerCommits(w, left) ==
  \/ Commits(w, left) /\ tick' = Returned(w)
  \/ Raises(w, left) /\ tick' = Crashed

\* The last section of tick(): the events and the flag change before the commit.
Settle(l, unheard, exhausted) ==
  \E mission \in BOOLEAN, noisy \in BOOLEAN :
    LET settled == Settled(world, mission)
        event == [kind |-> "world", version |-> settled.version]
    IN /\ mission \/ exhausted => noisy
       /\ RunnerCommits(settled, faults)
       /\ loop' = [events |-> IF noisy THEN {event} ELSE {}, force |-> FALSE,
                   changed |-> l.changed, wake |-> l.wake]
       /\ ghost' = Seen(unheard, IF world' = world THEN ghost.edits ELSE {})

\* An exception of the source or the engine pauses the world it was working on.
PauseOnError(l, unheard, left) ==
  /\ RunnerCommits(HaltedFor(world, "error"), left)
  /\ loop' = [events |-> l.events, force |-> TRUE, changed |-> l.changed, wake |-> l.wake]
  /\ ghost' = Seen(unheard, ghost.edits)

\* The engine raises while it settles, or storage while a rejection is recorded.
RaisesInside(l, unheard) == faults > 0 /\ PauseOnError(l, unheard, faults - 1)

Ask(seen, told, rejected) ==
  /\ tick' = [pc |-> "asking", seen |-> seen, told |-> told, rejected |-> rejected,
              outcome |-> "none", plan |-> NoPlan]
  /\ task' = Task("created")
  /\ UNCHANGED <<request, plans, receipts>>

\* Bug: only the interval decides.
DecidesOnSchedule == world.tick % DecisionInterval = 0

Decides ==
  loop.force \/ loop.events # {} \/ world.tick % DecisionInterval = 0

TickHalted ==
  /\ tick.pc = "top"
  /\ Halted \/ ~InBounds
  /\ loop' = [loop EXCEPT !.wake = FALSE]
  /\ tick' = Returned(world)
  /\ ghost' = Seen(FALSE, ghost.edits)
  /\ UNCHANGED <<world, sourceVars, faults>>

TickAsks ==
  /\ tick.pc = "top"
  /\ ~Halted /\ InBounds
  /\ Decides
  /\ loop' = Cleared
  /\ Ask(Snapshot(world), loop.events, 0)
  /\ ghost' = Seen(FALSE, ghost.edits)
  /\ UNCHANGED <<world, faults>>

\* Between two decisions the standing settings are settled, without validation.
TickSettings ==
  /\ tick.pc = "top"
  /\ ~Halted /\ InBounds
  /\ ~Decides
  /\ Settle(Cleared, FALSE, FALSE) \/ RaisesInside(Cleared, FALSE)
  /\ UNCHANGED sourceVars

\* The awaited task has ended and the runner goes on.
Answered == tick.pc = "answered" /\ task.stage = "done"

\* No answer, or one to a world that has changed since: the tick is given up.
DropAnswer ==
  /\ Answered
  /\ \/ tick.outcome = "none"
     \/ tick.outcome = "plan" /\ Superseded
     \/ tick.outcome = "error" /\ world.version # tick.seen.version
  /\ loop' = [loop EXCEPT !.force = TRUE]
  /\ tick' = Returned(world)
  /\ UNCHANGED <<world, sourceVars, faults, ghost>>

\* Bug: a late failure pauses whatever world there is now.
SourceFailedLate ==
  /\ Answered
  /\ tick.outcome = "error"
  /\ PauseOnError(loop, ghost.unheard, faults)
  /\ UNCHANGED sourceVars

SourceFailed ==
  /\ Answered
  /\ tick.outcome = "error"
  /\ world.version = tick.seen.version
  /\ PauseOnError(loop, ghost.unheard, faults)
  /\ UNCHANGED sourceVars

\* A plan arrived for the world as it still is.
Proposed == Answered /\ tick.outcome = "plan" /\ ~Superseded

SettlePlan ==
  /\ Proposed
  /\ Valid(tick.plan)
  /\ Settle(loop, ghost.unheard, FALSE) \/ RaisesInside(loop, ghost.unheard)
  /\ UNCHANGED sourceVars

\* The rejected plan is reported, and the source is asked once more.
RejectPlan ==
  /\ Proposed
  /\ ~Valid(tick.plan)
  /\ tick.rejected + 1 < MaxAttempts
  /\ Ask(tick.seen, tick.told, tick.rejected + 1)
  /\ UNCHANGED <<world, loop, faults, ghost>>

RejectionFails ==
  /\ Proposed
  /\ ~Valid(tick.plan)
  /\ RaisesInside(loop, ghost.unheard)
  /\ UNCHANGED sourceVars

\* All attempts are used up: an empty plan is settled, with a plan_failed event.
SettleEmpty ==
  /\ Proposed
  /\ ~Valid(tick.plan)
  /\ tick.rejected + 1 >= MaxAttempts
  /\ Settle(loop, ghost.unheard, TRUE) \/ RaisesInside(loop, ghost.unheard)
  /\ UNCHANGED sourceVars

\* run() between two ticks: a command wakes it, or the delay passes.
WakeUp ==
  /\ tick.pc = "delay"
  /\ loop.wake
  /\ tick' = [tick EXCEPT !.pc = "top"]
  /\ UNCHANGED <<world, loop, sourceVars, faults, ghost>>

DelayPasses ==
  /\ tick.pc = "delay"
  /\ ~loop.wake
  /\ tick' = [tick EXCEPT !.pc = "top"]
  /\ UNCHANGED <<world, loop, sourceVars, faults, ghost>>

-----------------------------------------------------------------------------
Command == Pause \/ Resume \/ ResumeFailed \/ Speed \/ Edit \/ Reset

Core == (\E s \in Submissions : SubmitDecision(s)) \/ FailDecision \/ SubmitLegacy

Source == OpenRequest \/ TakePlan \/ CloseRequest \/ FinishRequest

Runner ==
  \/ WakeChanged \/ WakeAnswered \/ WakeUp
  \/ TickHalted \/ TickAsks \/ TickSettings
  \/ DropAnswer \/ SourceFailed \/ SettlePlan
  \/ RejectPlan \/ RejectionFails \/ SettleEmpty

Next == Command \/ Core \/ Source \/ Expire \/ Runner \/ DelayPasses

Spec == Init /\ [][Next]_vars

(***************************************************************************)
(* Fairness.  The event loop runs every ready task (Source, Runner) and    *)
(* the deadline of a request passes.  Nothing is assumed of the player or  *)
(* of the Core.  The delay between ticks is left unfair here: its length   *)
(* is real_seconds_per_tick / speed, and speed may be any positive number. *)
(***************************************************************************)
Fairness == WF_vars(Source) /\ WF_vars(Expire) /\ WF_vars(Runner)

FairSpec == Spec /\ Fairness

-----------------------------------------------------------------------------
(* Properties                                                              *)

\* The types of the state.
TypeOK ==
  /\ world \in Worlds
  /\ loop \in Loops
  /\ tick \in Ticks
  /\ task \in Tasks
  /\ request \in Requests \cup {NoRequest}
  /\ plans \in Seq(Plans)
  /\ receipts \in Seq(Submissions)
  /\ faults \in Nat
  /\ ghost \in Ghosts

\* The two ways in which the runner, not the player, changes the world.
Settles == world'.tick = world.tick + 1
GivesUp == world'.reason = "error" /\ world.reason # "error"

\* A tick during which the player paused, resumed, changed the speed, edited or
\* reset has no effect at all: it neither settles a plan nor pauses the world for
\* an error, however late its plan, failure or timeout arrives.
DisturbedTickHasNoEffect ==
  [][Settles \/ GivesUp => ~ghost'.unheard]_vars

\* From the player's pause to the player's resume or reset the world stays paused
\* in the player's name; no late error of the source replaces that reason.
PlayerPauseStands ==
  ghost.pausing => world.paused /\ world.reason = "player"

\* No settlement happens before the decision it belongs to was told of every edit
\* the player made since the previous settlement, whatever the decision interval.
EditsAreHeard ==
  [][Settles => \A v \in ghost.edits :
                  [kind |-> "edit", version |-> v] \in tick.told]_vars

\* A plan that names no version and was queued before a reset is never settled after
\* it, though the tick number fits again.  (A plan that names a version yet to come
\* may be: the tick the reset disturbs returns it to the queue.  And the queue is
\* cleared after the commit of the reset: it stays if storage raises there.)
ResetForgetsPlans ==
  [][Settles /\ Answered /\ Valid(tick.plan) /\ faults = MaxFaults
       => tick.plan.version # NoVersion \/ tick.plan.era = ghost.era]_vars

\* A decision request accepts one plan or one failure, never both or a second one,
\* also when the receipt of the first has been evicted.
OneAnswerPerRequest == ghost.answers <= 1

\* As long as nobody uses the unbound /ingest/plan, none of the attempts of a tick
\* is spent on a plan for another snapshot: what submit_bound accepted and the
\* world then outran never comes out of the queue.
NoAttemptWasted ==
  Proposed => tick.plan.version = world.version /\ tick.plan.tick = world.tick

\* The runner looks at the world again after every command, without waiting for the
\* delay between two ticks; only a failed mission has no runner to do so.
CommandIsHeard == ghost.unheard ~> (~ghost.unheard \/ world.failed)

\* The promise of AbstractWorld, kept by this loop: a running world does not stand
\* still once the delay between two ticks passes.
Abstract == INSTANCE AbstractWorld WITH LastVersion <- MaxVersion
KeepsMoving == WF_vars(DelayPasses) => Abstract!Moving
StaysSafe == Abstract!Safe

=============================================================================
