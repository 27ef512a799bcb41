# We Keep the Dawn: formal model

A TLA+ development beside the game *We Keep the Dawn* (a Mars greenhouse whose
crew lives on the decisions of three agents). It models the parts in which
order, lateness, failure and disagreement between programs matter, checks them
with TLC on small instances and proves the central facts with TLAPS for every
instance.

Line numbers are those of the repository's files; `PROJECT.json` maps every
definition to the lines it stands for.

## 1. Inventory

### The parts and how they interact

```
 player (browser)                               AgentBridge (agent_runner)  --plan-->  Core
   | POST /control /resources /world/reset   | GET /decision  POST /ingest/decision-plan | asks, in
   | (or the same over /ws)                  | POST /ingest/decision-failure             | rounds
   v                                         v                                           v
 +------------------------- backend, one asyncio event loop ------------------+   Human, Plant
 |  api/rest.py, api/ws.py                                                    |   services
 |     |  commands (under WorldLoop._lock)         | answers (same lock)      |   (POST /discuss)
 |     v                                           v                          |      |
 |  WorldLoop  -- runner task: run()/tick() -->  ManagedExternalPlanSource    |      v
 |     |   ^        _request_plan: waits for a plan or a change (queue)       |   models, and for
 |     |   +-- WorldEngine.settle, PlanValidator.check (pure)                 |   Human an audit
 |     v                                                                      |   and an index of
 |  Ingest.commit -> StateRepository.set -> (persist)                         |   texts
 |        `-> EventBus.publish -> (record)                                    |
 +----------------|--------------------------|--------------------------------+
                  v                          v
               SQLite                every WebSocket client: frontend store, AgentBridge
```

| Component | State it keeps | Operations | Hard behaviour | What makes it correct |
|---|---|---|---|---|
| `WorldLoop` (`orchestration/world_loop.py`) | `_events`, `_force_decision`, `_state_changed`, `_wake_event`, locks, runner | `tick`, `control`, `edit_resources`, `reset`, `submit_decision`, `fail_decision`, `run`, `stop` | commands while a plan is awaited; late plans, failures and timeouts; lost wake-ups; runner that ends | a disturbed tick has no effect; the player's pause stands; every edit is told; every command is heard |
| Plan source (`integration/decisions.py`, `sources.py`) | `request`, `_failure`, `_receipts`, `_plans` | `plan`, `submit_bound`, `fail_bound`, `submit`, `return_unused_plan`, `on_reset` | retries, evicted receipts, plan and failure for one request, cancellation | one answer per request; no attempt wasted on an outdated plan; reset forgets plans |
| Commit pipeline (`ingest.py`, `domain/state.py`, `event_bus.py`) | the authoritative `WorldState`, subscriber queues | `commit`, `get`, `set`, `publish`, `subscribe` | storage that raises before or after the world changed | what anyone is told is on disk; versions count changes |
| World engine (`engine/*.py`) | none (pure functions on a copy) | `settle`, `edit_resources`, phases | deaths in the middle of a tick, capacity with pending stock, plot lifecycle | stock within capacity; nobody alive unsupplied; droughts counted; every world acceptable to the agents |
| Plan validator (`plan_validator.py`) | none | `check` | a second copy of the rules the Core checks | it refuses a plan of the Core only because of the world |
| Persistence (`persistence/*.py`) | snapshots and messages in SQLite | `save`, `record`, `latest`, `recent` | crash between two writes, `RESUME_WORLD` | a restart resumes a state that was told |
| API (`api/rest.py`, `api/ws.py`) | per-socket queue and tasks | the endpoints | snapshot on connect against queued events | no client misses a change |
| Composition root (`main.py`) | `runner` | `start_loop`, lifespan | restart of an ended runner | one runner, whenever one is needed |
| AgentBridge (`agent_runner/runner.py`) | `state`, `tracker`, `pending`, `completed` | `_read`, `_work`, `_cycle`, `_decide`, `_submit` | HTTP and WS out of order, lost responses, repeated planning, restart | never two plans for one request; a settlement is confirmed if it happened, once |
| Core discussion (`core_agent/orchestrator.py`) | transcript, round, the two calls | `plan`, rounds, decisions | timeouts and cancellation, room in the services, ids checked by three programs | reviews lead to one proposal; a discussion ends; room comes back |
| Core controller (`core_agent/controller.py`) | `_previous`, `_assessment`, `_pending_reason`, `_last_assessment_tick` | `step`, `run`, `_plan_and_apply` | races with pauses, edits, resets; assessments that take many ticks | no low resource is forgotten; advice is about the plan in force |
| Plan and snapshot contracts (`core_agent/contracts.py`, `agent_runner/contracts.py`, the services' schemas) | none | `validate_plan`, `validate_world`, `current_tick_plan`, `core_snapshot` | two to four programs with copies of one rule | they agree |
| Human service (`human_agent/app`) | per request: audits, evidence, retrieval, degraded; per process: slots | `/discuss`, `/analyze`, audit, tools | a model that may write anything; budgets; deadlines | what is published as verified was audited; slips are told |
| Human index (`human_agent/scripts`, `retriever.py`) | sources, chunks, versions, cache, generations, `current.json` | acquire, prepare, build, load | scripts stopped between two files, builds that overlap, changed corpus or model | a service searches whole generations of its own texts |
| Plant service (`plant_agent/src`) | threads at work | `/discuss`, conflict answer | a thread that outlives its request | as the discussion |
| Frontend (`frontend/src/store`, `net`) | `world`, `history`, `plans`, `events`, `thoughts` | `apply_state_update`, reconnect, `GET /world` | snapshots out of order, restart of the backend | the store never goes back, and catches up |
| Not core logic | | | prompts, ranking, drawing, `checks/`, data | |

### Hazards

`PROJECT.json` lists what is hard to test, each at its line, with the properties
that cover it, or the reason why none does.

## 2. Plan

| Order | Modules | Content | Status |
|---|---|---|---|
| 1 | `WorldLoop`, `AbstractWorld`, `WorldLoopProofs` | runner, commands, plan source, commits; abstract spec: one world that counts its changes | done |
| 2 | `WorldEngine`, `WorldEngineProofs` | settlement phases, capacity, deaths, plots, edits | done |
| 3 | `EventStream`, `WorldFeed`, `EventStreamProofs` | SQLite, crash and `RESUME_WORLD`, bus, WebSocket session, HTTP answers, frontend store; abstract spec: screens that follow one line of worlds | done |
| 4 | `Bridge`, `BridgeProofs` | `AgentBridge` with `SettlementTracker` against the backend as its API shows it | done |
| 5 | `Snapshot`, `PlanContract`, `PlanContractProofs` | what one program writes and the next one checks | done |
| 6 | `Council`, `Controller`, `CoreProofs` | the Core's rounds with two services; its control loop | done |
| 7 | `PlanAudit`, its proofs in `WorldEngineProofs` | the Human service's forecast beside the engine (composed with `WorldEngine`) | done |
| 8 | `HumanAdvice`, `HumanIndex`, `HumanAdviceProofs`, `HumanIndexProofs` | one analysis; the files it retrieves from | done |

Not in the plan: what section 7 names. Not proved: what section 6 names.

`Snapshot` and `PlanAudit` extend `WorldEngine`: what they say is said of the
engine's own states. `WorldLoop` and `EventStream` instantiate their abstract
specifications. `Bridge`, `Council` and `Controller` meet at what one hands the
other (a request, a plan, a cancelled call), which each models as what the other
may do. MC modules (`MCEventStream`, `MCWorldEngine`, ...) hold the values TLC needs
that a `.cfg` cannot write; a run without one uses the module itself.

## 3. The modules and the code

### WorldLoop: the authoritative world and the tasks that change it

One asyncio event loop runs everything, so a step is what one task does between
two points where it really suspends. No section under `WorldLoop._lock` suspends:
`StateRepository.set` persists synchronously and `EventBus.publish` only calls
`put_nowait`. Hence every command is one step, and so is the way from the version
check of a proposed plan to the commit of its settlement. What interleaves is the
runner's wait in `_request_plan`, the source's wait in `plan()`, and the delay of
`run()`.

| State | In the code |
|---|---|
| `world` | `StateRepository._state`: version, tick, paused, paused_reason, failed |
| `loop` | `_events`, `_force_decision`, `_state_changed`, `_wake_event` of `WorldLoop` |
| `tick` | where the runner is, and the locals of `tick()`: observed snapshot, events told, attempts, outcome |
| `task` | the task of `ManagedExternalPlanSource.plan`: stage, cancellation, failure future, deadline, plan taken |
| `request`, `plans`, `receipts` | `request` and its status, `ExternalPlanSource._plans`, `_receipts` |
| `faults` | failures of storage or engine still to come (a bound) |
| `ghost` | history for the properties; no guard reads it |

Actions by group: `Pause`, `Resume`, `ResumeFailed`, `Speed`, `Edit`, `Reset` (the
player); `SubmitDecision`, `FailDecision`, `SubmitLegacy` (the Core, bound and
unbound); `OpenRequest`, `TakePlan`, `Expire`, `CloseRequest`, `FinishRequest`
(the source task); `WakeChanged`, `WakeAnswered`, `TickHalted`, `TickAsks`,
`TickSettings`, `DropAnswer`, `SourceFailed`, `SettlePlan`, `RejectPlan`,
`RejectionFails`, `SettleEmpty`, `WakeUp`, `DelayPasses` (the runner).

Modelling decisions a reader should know:

- Ready tasks run first come, first served. A plan that is queued while the source
  waits has woken the task that takes it before a timer or a change noticed later is
  acted upon; `Ready` expresses this order.
- The wall clock of a request and its asyncio timer are one event, `Expire`.
- `commit` persists, replaces, then records and publishes. `Raises` gives both
  places in which storage can fail: before (nothing changed) and after the world was
  replaced.
- A plan is reduced to the snapshot it is bound to and one bit that says whether the
  engine would accept it there. Plans of `/ingest/plan` and the WS message `submit_plan`
  are not checked when they are queued: they name any tick and any version, also of a
  world still to come, or no version (`Named`).
- A decision request is identified by its snapshot. The code's request id is fresh
  for each request; two requests for one snapshot follow each other only after a
  rejected plan, when the earlier one has already been answered.
- A settlement is what the loop sees of it: next tick, perhaps events, perhaps a
  failed mission. `WorldEngine` is the detail.

### AbstractWorld: what the backend promises

One variable, `world`, as everybody sees it on `GET /world`. `Safe`: each change
counts the version, only a running world advances, the player can always stop it, a
failed mission is not resumed and only a reset revives it. `Moving`: a running world
does not stand still. `WorldLoop` instantiates it with its own `world`: `StaysSafe` and
`KeepsMoving` say that all its tasks, requests and queues together implement this one
page.

### WorldEngine: one settlement, phase by phase

`settle` is a synchronous function on a copy, so outside it nobody sees a phase. The
module follows the phases all the same, and inside a phase the loop over crew or
plots, because that is where deaths, limits and reservations meet. What holds while
`phase = "between"` holds of every world the loop commits.

| State | In the code |
|---|---|
| `stock`, `pending` | `resources[r].value`; `pending_oxygen`, `pending_food` |
| `body` | `food_energy` ("food") and `water` of each crew |
| `alive`, `failed` | `crew.alive`, `state.failed` |
| `plots` | crop, progress_ticks, mature, dead, consecutive_unirrigated_ticks |
| `irrigated` | plots with `irrigated_last_tick` |
| `phase`, `due`, `attempted`, `busy` | the position in `_settle`, the rest of the loop of `consume_baseline`, the local `attempted`, the crew the plan has assigned |
| `wet` | history: the tick of the last irrigation or planting |

`Begin` (arrival of what was pending), `Refill`, `RefillsDone`, `Consume`, `Breathe`,
`Generate`, `ProduceWater`, `StartCrops`, `Irrigate`, `Neglect`, `Harvest`, `Plant`,
`Clear`, `Finish` are the phases in their order; `EditResources` is the player's edit.
What a phase does with one request is an operator (`Refilling`, `Generating`, `Producing`,
`Irrigating`), and its arithmetic another (`Caps`, `TotalWork`, `Shared`, `Worked`,
`Litres`), for `PlanAudit` to use with the same request.

- The plan is chosen while it is executed: at each point every request that a
  validated plan could contain there is an alternative. `busy` is
  `CREW_DOUBLE_BOOKED`, `Stations` is `GENERATION_STATION_FULL`, and a plot operation
  is only taken where `validate_plot_op` accepts it, because `PlanValidator` settles
  the plan on trial and rejects it as a whole otherwise.
- `check_deaths` runs at the end of every step that can exhaust a supply, as in the
  code, and a failed mission skips to `Finish`.
- Amounts are natural numbers of a small unit. Where the code divides (the workload
  and the shares of the generators), the model takes the largest whole number within
  the limits and shares it up to one unit. Rounding errors of floats are not seen.
- The summary, the events' contents, `current_task`, `location`, `death_reason` and
  the standing settings are left out: nothing in the engine reads them back, except
  the settings, which are one of the plans the model may choose.

### WorldFeed and EventStream: how a world reaches the screens

`WorldFeed` is what a spectator is promised: one line of worlds, and screens that
show one of them and only move on to later ones. `EventStream` is everything between
the commit and the screen.

| State | In the code |
|---|---|
| `disk` | the table `snapshots`: its rows as a set, and the row with the highest id |
| `server` | whether the process runs, and `StateRepository._state` |
| `session` | per page: the connection, with the subscriber's queue and the socket as one sequence of messages |
| `http` | per page: requests of `GET /world` not yet handled, and answers (also of commands) not yet received |
| `store` | per page: `world`, `history`, `plans` and `events` of `useGameStore` |
| `budget` | commits, crashes, lost connections, refused writes and reloads still to come (bounds); whether a write was refused (history) |

`Settle`, `Edit`, `Control` and `Reset` are the commits; each ends in one of four
ways of `Commit`: it succeeds, storage refuses it, storage fails while a message is
recorded, or the process dies with the snapshot on disk. `Crash` and `Restart` are
the process; `Open`, `Deliver`, `HangUp`, `Drop`, `Answer`, `Receive` and `Reload`
are a page and its networks.

- A world is its version, its tick and one mark for all the rest. What a commit does
  to the world belongs to `WorldLoop` and `WorldEngine`; here a settlement, an edit, a
  control and a reset differ in the tick and the messages they send. The guards of
  `WorldLoop` (paused, failed) are left out, so more orders are possible here.
- A plan is told as it was submitted: with its `state_version`, as the bridge always
  sends it, or without one (`bound`), as `/ingest/plan` permits. The store compares what
  the message names (`Key`); the version of an unbound plan's world is history.
- A settlement sends its plan, one event that stands for all its events, and the
  state; `mission_failed`, which the store ignores, is not sent.
- A message is in the session from `publish` on; the queue of the subscriber and the
  buffers of the socket are one sequence. When the process ends, what it had sent may
  still arrive (`closing`); when the network breaks, nothing does. Both include the
  cases in which only some of it arrives.
- `Opened` is one step because `websocket_endpoint` does not suspend between
  `subscribe` and reading the snapshot it sends first.
- The connection of a page and its `GET /world` are independent: answers come in any
  order, after any delay, and survive the socket, but not the page. A request the
  dead process had not answered fails.
- Commands come by HTTP from a page, which then applies the answer, or (`{}`) by the
  WebSocket or from another program. The pause of the runner after an error is an
  `Edit` without a caller.
- The events and plans of the store are one set of notes: their order and the limits
  of 500 and 100 are display. The charts are a sequence with its limit.
- The database is a file. With `:memory:` a restart is one without `RESUME_WORLD`.

### Snapshot: a world the agents accept

`core_snapshot` (`agent_runner/contracts.py`) shows the Core a world between two
ticks, and the Core, the Human and the Plant service each check it with a model of
their own; a snapshot one of them refuses ends the planning of the tick. The module
states those checks over the variables of `WorldEngine` (`Status` of a plot,
`PlotTaken`, `AmountsTaken`, `HumanTakesPlot`). The Core has the times of maturity
written into its code (`core_agent/contracts.py:118`); they are those of
`shared/crops.json`, so here they are one constant. Rounding is not modelled.

### PlanAudit: the forecast beside the engine

`audit_next_tick` computes in advance what a plan would do, with its own copy of the
rules. The module follows it in step with the engine: each action of `WorldEngine`
that the audit has a counterpart for carries it out on the audit's own amounts
(`BeginAudited`, `RefillAudited`, `GenerateAudited`, ...), so that at the end the
verdict can be compared with what happened. `gaps` is what the snapshot leaves out
(`MCGaps`: nothing, or one thing; personal food and water are always there, without them
the code only says "incomplete" more often), `surprise` records what was pending, which no
snapshot shows, and `warned` holds the warnings of `human_calculator.py`. The formulas
that both programs have are written once, in `WorldEngine`, and applied here to the
audit's amounts (compare `generation.py:8-25` with `generate_stage`, `water_plant.py:8-12`
with `water_stage`). Where the model rounds the shares of the generators, either program
may round its own way, but the same caps and the same sum give the same shares
(`AuditWorks`), as in the code, where both divide. As deployed,
the staged plan of the Core is not in the format this audit reads, so what it audits are
the Human service's own drafts.

### Bridge: planning for a backend seen over two channels

| State | In the code |
|---|---|
| `world`, `ask` | the backend: its world, and the request of `ManagedExternalPlanSource` with the plan queued for it |
| `stream` | WebSocket messages on their way |
| `known`, `changed`, `tracker` | `AgentBridge.state`, `changed`, and `tracker` with `pending` |
| `worker` | `_work` and `_cycle`: where they are, with their locals |
| `schema`, `core`, `completed` | the counter of 422 answers, `CorePort.current_plan`, ticks done |
| `ghost` | what was executed, reported and taken |

`OpenRequest`, `Supersede`, `Judge`, `GiveUp`, `Edit`, `Reset` and `Control` are the
backend and its player; `Hear` is the reader task; `Start`, `Poll`, `Fetch`, `Begin`,
`PlanReady`, `PlanFails`, `RelayStale`, `TellFailure`, `Recheck`, `Submit`, `Report`,
`DropStale`, `Compare`, `Return`, `Notice` and `Finish` the worker; `Break` a transport
failure that ends the bridge, which may be started again.

- An HTTP call is two steps: the backend handles it, the worker goes on with the
  answer. `Submit` may lose the request or the response, and sends it again.
- The backend is `WorldLoop` as its API shows it: a request for each snapshot and
  attempt; deadline and handling are one step, and a rejected plan opens the next
  request in the same step. Foreign submissions are left out: `agent_runner/README.md`
  excludes a second bridge.
- A plan is the request it was made for and who would refuse it (`Qualities`).
- A request id is its version and attempt; the code's is a fresh uuid.

### Council: a discussion and the two services

`talk`, `transcript`, `call` and `reply` are `CoreAgent.plan`; `queued` and `running` the
analyses in the services (`Room`: the slots of Human, the threads of Plant). A message is
reduced to what the programs check of it: ids of proposals, reviews, and whether the
Core's question to Plant has text. `Receive`, `Start`, `Answer`, `Fail` and `Leave` are a
service; `Begin`, `Gather`, `Decide`, `DecideFails`, `CoreTimesOut` and `Cancel` the Core.

- The three programs check ids by three rules, each kept as it is: Core accepts blank ids
  from the experts and any in its own decisions, Human refuses blank or repeated ids in
  the history (`discussion.py:102-107`), Plant refuses an empty question
  (`discussion_schema.py:102`). That is why `RefusalIsCoresOwn` is not
  "no service ever refuses": with a decision of its own whose proposals
  repeat an id the Core ends its own discussion in the next round. Refusals that depend on
  neither history nor question (another version of the rules) are left out.
- A discussion that fails drops its transcript. A Plant thread that has missed its
  deadline goes on holding its room (`Leave`).

### Controller: when to plan

`world` is external: `WorldPort` is a draft without an implementation, modelled from
its docstrings and `tests/test_controller.py`. One resource stands for the amounts.
`Observe`, `ModelAssesses`, `Pause`, `Apply`, `PlanFails`, `Stop` and `Start` are
`CoreController`; the world ticks, is paused, edited or reset in between. Known limits of
the code, kept in the model and visible in the properties: a reason is lost when the plan
failed or came too late (`ghost.dropped`); after a reset there is no assessment until the
tick has caught up; an edit during planning leaves the world paused.

### PlanContract: two copies of the rules for plans

`CoreAccepts` is `validate_plan`, `TickPlan` the translation by `current_tick_plan`,
`Refused` the codes of `PlanValidator.check` for what it translates to. A plan grows piece by
piece from a blank one (`AddAction`, `Irrigate`, `Set`) while the world moves on
(`MoveOn`), so that TLC meets every plan of up to `MaxPieces` pieces, sound or not.
`ContractAssumption` holds of the shared constants (`shared/world_constants.json:87-88`):
no more crew than stations, and the Core's limit on work is not above the backend's. The
version of the rules and the paths of transition conditions are abstracted.

### HumanAdvice: one analysis

A behaviour is one request: `Receive` or `Refuse`, the mandatory retrieval (`Retrieve`),
the ends without a model (`StopAtFailure`, `Script`), the model's turns (`LlmCalls`,
`LlmAnswers`, `LlmFails`, `OutOfCalls`), its tools (`CallRules`, `CallRetrieval`,
`CallAudit`, `CallRefused`, `OutOfTools`) and the `Deadline`. `service` is what the process
was started with (mode, indexes loaded, fallback). The model may write any proposal of
`Proposals`; the checks (`Fits`, `Authorised`, `Acceptable`, `NotesResolve`) are the code's. An
audit is its verdict here; `PlanAudit` has the arithmetic. `slips` and `used` are history.

### HumanIndex: the files a service retrieves from

Three scripts write files, each file is a variable, and between any two writes a script
may be stopped: `acquire_sources` (`Fetch`, one source at a time), `prepare_corpus` (two
files in place: `OpenChunks`/`WriteChunks`, `OpenVersion`/`WriteVersion`) and `build_index`
(`ReadChunks` to `Point`). A service reads them one after the other (`Boot` to `LoadDense`)
at any time, also while they are written. Builds may overlap: they share the cache and its
temporary names, and `handle` follows the file a builder has open when another moves it.

- A source makes one chunk, a text is embedded at a time, a digest is what it is the
  digest of, the cache is read in one step.
- Known limits, kept in the model: a download cut short is never fetched again
  (`acquire_sources.py:28-31`), a corpus cut short leaves services without an index until
  the script has run again (`prepare_corpus.py:68-71`), a second builder may find no file to
  rename (`build_index.py:53-55`), an empty cache file ends every later build (line 38).

## 4. The runs

| Run | Question | Properties | Distinct states |
|---|---|---|---|
| `legacy` | Can a plan that comes late, bound or not, act on a world it was not made for, also when storage fails? Is the loop the abstract world? | `DisturbedTickHasNoEffect`, `ResetForgetsPlans`, `StaysSafe` | 7.3 million |
| `managed` | Does the managed channel keep the player's word and its own books? Is every command noticed, and does the world go on though the Core is silent? | `PlayerPauseStands`, `OneAnswerPerRequest`, `NoAttemptWasted`, `EditsAreHeard`, `CommandIsHeard`, `KeepsMoving` | 1.1 million |
| `greenhouse` | Are plots, droughts and pending amounts in order, and is every world one the agents accept? | `TypeOK`, `SnapshotAccepted`, `DroughtCounted`, `PendingArrives` | 3.3 million |
| `audit` | Does every way of dying fail the mission at once, and does the forecast foretell it? | `LivingAreSupplied`, `NoFalseComfort`, `AlarmIsReal`, `WarningsAreRight`, `PlantsAsForetold` | 3.1 million |
| `stream` | Does a page only show worlds that last, in order, without missing any, and catch up? | `Durable`, `KeysIdentify`, `NothingMissed`, `FollowsFeed`, `CatchesUp` | 1.6 million |
| `forgotten` | Does a reconnecting page take the snapshot when the backend forgot its world? (No.) | `SnapshotIsTaken` | |
| `bridge` | Does the bridge plan once for a request and confirm once what happened? | `TypeOK`, `EvidenceIsReal`, `ReportedOnce`, `PlansOnce`, `PendingIsResolved` | 0.4 million |
| `council` | Does what is reviewed exist, and does neither a discussion nor a service get stuck? | `ReviewsResolve`, `RefusalIsCoresOwn`, `DiscussionEnds`, `RoomReturns` | 0.5 million |
| `controller` | Is a low resource ever forgotten, or advice applied to another plan? | `LowIsPlannedFor`, `AdviceIsCurrent` | 0.3 million |
| `contract` | Does the backend refuse what the Core accepts, other than because of the world? | `OnlyTheWorldRefuses` | 0.5 million |
| `advice` | Is verified advice audited, and does an answer tell how it came about? | `VerifiedWasAudited`, `LiveIsUndegraded`, `RetrievalIsTold` | 0.6 million |
| `index` | Does a service ever search vectors of other texts or of half an index? | `RowsAreOwnText`, `CurrentIsWhole` | 0.7 million |

Every run takes less than two minutes with two workers. For each property
`PROJECT.json` names a plausible bug of the code (a definition marked `Bug:` in its
module) with which the run finds the property violated.

### Bounds of the loop

`MaxVersion` ends the commands and idles the loop; `DelayPasses` and `TickHalted` go on,
so a bound reached is a world at rest. A race needs a snapshot, a change and a late
answer, that is three worlds (`legacy`, with the storm of unbound plans and a fault); five
more (`managed`) leave room for a second tick with the leftovers of the first.
`MaxAttempts` is 3 as in the code. `DecisionInterval` 1 is the code's value, 2 makes ticks
on standing settings happen. `MaxReceipts` 0 or 1 makes eviction happen, which in the
code takes 257 submissions. One plan in the unbound queue (`LegacyQueue`) is enough to be
popped by the wrong tick, together with the plans the bound channel queues; it names any
tick and version below `MaxVersion` (`Named`), so also the world that a reset is about to
make. One fault is
enough to stop the runner at any commit. `legacy` says `CHECK_DEADLOCK FALSE`: after a
storage failure the runner has ended for good, and at the bound no command revives it.

Fairness (`managed`): the event loop runs ready tasks (`Source`, `Runner`) and a deadline
passes (`Expire`). Nothing is assumed of the player or the Core, and nothing of the delay
between two ticks, whose length is divided by a speed that may be any positive number.
`CommandIsHeard` is checked under this fairness, so a command that was only noticed after
the delay would be a violation. `KeepsMoving` adds, as its premise, that the delay passes:
without it a world may wait for ever between two ticks.

### Bounds of the engine

`greenhouse` follows three ticks with two crew and two plots, whose crops ripen in two
ticks and die after two dry ones, so that a death, a recovery just before it and a new
planting are all within the bound; there is room for the oxygen of one plot but not of
two, and for one harvest once somebody has eaten. `SYMMETRY` on the plots is sound
because they start alike and no property or action orders them. The edits only fill up
(9), which keeps the mission alive. `audit` has the poor colony: each supply, the oxygen
included, can run out within two ticks, and work is limited by food, oxygen or room in
turn. Up to two units of work by each of two crew make shares that have to be rounded. From
the second tick on oxygen or food may be pending when the snapshot for the audit is made, and
the third tick begins with what the second one has done with it. Deadlock is checked: after the last tick, and after a failure, an edit is always
possible.

### Bounds of the stream

Pages do not influence each other: no action of one reads another's session or store,
and only the backend is common, so one page (`c1`) is enough; the theorems cover any number.
Two marks tell two worlds of one version apart, which is what `Durable` and
`KeysIdentify` look for. `Budgets` has two games (`MCEventStream`). With two versions there
is a commit before and one after a crash, and one crash, one lost connection, one refused
write and one reload hit every point of it. With three versions and nothing that breaks
there is room for a settlement, a reset and a settlement, so that two unbound plans are
made for tick 0. `CHECK_DEADLOCK FALSE`: a world at the bound with every queue read is at
rest, like a paused world nobody touches.

Fairness (`stream`): a backend that ended is started again (`Restart`), a page retries
after 1500 ms (`Open`), reads its socket (`Deliver`) and is told of its end (`HangUp`).
Nothing is assumed of HTTP: `CatchesUp` holds by the session alone. That crashes and
lost connections are finitely many is the bound, and needed: a page whose connection
breaks at once each time never catches up. `NothingMissed` and `CatchesUp` say nothing after a
refused write (`budget.refused`): when it is the `state_update` that cannot be recorded, the
page stays behind until the next commit, or until it reconnects.

### Bounds of the agents

- `bridge`: two attempts, two sends of a submission, two schema refusals, two ticks and
  versions up to 2. A restart, a reset or an edit can fall between any two steps, and the
  second settlement overlaps the confirmation of the first. Restarts are not counted: an
  ended bridge has no state. `CHECK_DEADLOCK FALSE`: at the bound, with
  the world stopped and the bridge ended, nothing is left to do. Fairness: the backend goes
  on, the stream is read, the worker goes on; nothing is assumed of the Core, of the
  player, or of anyone starting the bridge.
- `council`: two calls of two rounds, one place in each service, one review in a message,
  one name and the two kinds of bad ones. The second call meets what the first has left in
  the services. `CHECK_DEADLOCK FALSE`: after the last call nothing happens. Fairness: the
  Core gathers and decides or times out, and a service is left by those who work for
  nobody; nothing is assumed of the models, nor that a service ever answers.
- `controller`: four levels, all but the highest low, an assessment every second tick and
  five versions: a level can fall, be planned for, recover and fall again.
- `contract`: two pieces show every pair of actions (overlaps, double bookings, two uses of
  one plot) and every single fault; `MCUnsound` has one for each check. One step of the
  world is enough: neither check looks further. `CHECK_DEADLOCK FALSE`: a finished plan on a
  world at the bound has no next step. The theorem covers plans of any length.
- `advice`: two crew, two plots, two model turns of up to two tool calls, three tools: each
  budget is met. The drafts are the Core's plan and what a model may turn it into. No
  fairness; `CHECK_DEADLOCK FALSE`: an answered request is over.
- `index`: two sources, two models, two builders and four scripts: acquire, prepare and two
  builds, or a second corpus between two builds. `SYMMETRY` on models and builders: they start
  alike, and only invariants are checked. Deadlock is checked: a service can always be
  started or shut down.

### Finding: a snapshot that is not taken

`docs/acceptance.md:57` asks that a page that reconnects gets the authoritative
snapshot. `gameStore.ts:31` drops every snapshot whose version is not above that of
the world on the screen, which is what keeps late answers out. A backend restarted
without `RESUME_WORLD` (the default) begins at version 0 (`main.py:36-39`, expected by
`tests/test_lifespan.py:57-61`), so an open page goes on showing the old game until the new
one has passed its version, or the page is loaded again. `forgotten` shows the
shortest case. With `RESUME_WORLD` it cannot happen: `Follows` and
`SessionsMissNothing` of section 5.

### Known limits that contradict no promise

- `/ingest/plan` takes a plan for a world that does not exist yet. If it is taken from the
  queue just before the reset that makes this world, `_request_plan` returns it
  (`world_loop.py:48-53`) to the queue which `on_reset` has just cleared
  (`world_loop.py:217-218`, `sources.py:41-42`), and it is settled after the reset.
  `ResetForgetsPlans` therefore speaks of plans that name no version: those the check of
  the snapshot could not tell from a plan for the new game.
- A plan without `state_version` (`models.py:65`) is told without one (`world_loop.py:150`,
  `ingest.py:29-30`), and `gameStore.ts:39` then compares only its tick. A page that did not
  clear its plans at a reset (its connection was lost before the `state_update`, or the
  reset came at tick 0) drops a new unbound plan of a tick it has one of. `KeysIdentify`
  says that this is the only case: never without a reset between the two worlds, and never
  for an event or a bound plan.
- `edit_resources` (`world_loop.py:200`) and the settlement (`world_loop.py:148`) write
  `_events` before `ingest.commit`, whose persist callback may raise. The world is then
  unchanged, and still the planner will be told of an edit that never was, or not of the
  events the settlement would have replaced. Pauses, late answers and the abstract world
  survive it (`legacy`, and the theorems).
- The bridge reads another open request as the refusal of its plan (`runner.py:222`) while
  the settlement's messages may still be on their way: a plan is executed and never reported.
  `ReportedOnce` says at most once, and `PendingIsResolved` that the bridge does not wait
  for ever; neither says that each execution is reported.
- An event of a player's edit between a settlement and the poll is reported with those of
  the settlement (`runner.py:58`); a settlement confirmed after a reset puts the old plan back
  as the Core's current one (`runner.py:92`). `Backed` therefore says "at least the events".

## 5. What is proved

Eight modules, each beside what it is about (`WorldEngineProofs` is also beside `Snapshot`
and `PlanAudit`, which extend the engine), for every value of the constants
that satisfies the assumptions it names: any number of crew, plots, submissions,
attempts, receipts, versions, pages, crashes, rounds, drafts, sources and builds.

| Proofs | Theorems about a property of a run | Assumptions |
|---|---|---|
| `WorldLoopProofs` | `PauseStands`, `AnswersOnce`, `DisturbedTicks`, `Implements`, `AllEditsHeard`, `AttemptsCount`, `ResetsForget` | `ConstantsAssumption`, `NullsAssumption` |
| `WorldEngineProofs` | `Types`, `LivingSupplied`, `PendingIsDelivered`, `DroughtIsCounted`, `SnapshotsAreAccepted`; `AlarmsAreReal`, `WarningsHold`, `UnitComfort`, `UnitForetold` | `CrewAssumption`, `AmountsAssumption`, `RatesAssumption`, `CropsAssumption` |
| `EventStreamProofs` | `WorldsAreDurable`, `Follows`, `SessionsMissNothing`, `KeysAreUnique` | `ConstantsAssumption`, `NullAssumption`, `Resume` |
| `BridgeProofs` | `Types`, `SettlementsHappened`, `ReportsAreUnique`, `NothingPlannedTwice` | `ConstantsAssumption`, `NoneAssumption` |
| `CoreProofs` | `LowResourcesArePlannedFor`, `AdviceIsAlwaysCurrent`, `BlameIsTheCores`, `EveryReviewResolves` | `ControllerAssumption`, `CouncilAssumption` |
| `PlanContractProofs` | `TheContractsAgree` | `ContractAssumption` |
| `HumanAdviceProofs` | `AdviceWasAudited`, `LiveHadNoSlip`, `RetrievalsAreTold` | `AdviceAssumption` |
| `HumanIndexProofs` | `ServicesSearchOwnText`, `CurrentGenerationsAreWhole` | `IndexAssumption` |

Most assumptions give a constant its type, or keep a placeholder apart from the
values it stands beside. Two of them say something of the program.
`ContractAssumption`: no more crew than generator stations, and the Core's limit on work
is not above the backend's, as in `shared/world_constants.json:87-88`; with a larger crew
`OnlyTheWorldRefuses` is false. `CouncilAssumption`: the ids the programs give
(fresh uuids) are not names a model writes.

**The loop.** `TypeInv` strengthens the types by "a task or tick whose outcome is a
plan holds a plan". `Inv` adds four parts that are needed together:

- `CleanTick`: while a tick is under way and no command is unheard, the world is the
  one the tick has seen and it is running. This makes the version check sufficient.
- `PlayerPauseStands`, inductive once `CleanTick` excludes a settlement or an error
  pause over a player's pause.
- `AnsweredOnce`: the count of answers agrees with the status of the request, which
  is why an evicted receipt does no harm.
- `NoTaskLeft`: no source task outlives the tick that created it.

From it: `PauseStands`, `AnswersOnce`, `DisturbedTicks` and the refinement
`Implements` (each command and each runner step maps to a step of `AbstractWorld` or
leaves `world` alone; a failure after the world was replaced maps as if it had not
failed). `AllEditsHeard` has a second invariant (every edit since the last
settlement is still in `_events` or was told to the tick under way) and needs
`MaxFaults = 0`: a refused settlement has already replaced the events.
`ResetsForget` has the invariant `Eras`: as long as storage has not failed, a plan in the queue
names a version or is of the era since the last reset, while one that a source or tick took
before the reset belongs to a tick whose snapshot is older than the world. Without a version
it is not returned to the queue and not settled; with one it may be (section 4). `AttemptsCount` states `NoAttemptWasted` for
the plan source that main.py builds (`LegacyQueue = 0`) and sound storage (`MaxFaults =
0`): its invariant `Bound` says that the open request asks for the snapshot of the tick,
that a plan is queued only for the request it answers, and that a change made during
a tick shows in the version. A plan of the legacy queue need not be for the snapshot, and
a refused commit has told the source of a change that never came.

**The engine.** `Inv` is the conjunction of `TypeOK`, `StockFits`,
`LivingAreSupplied`, `PlotsSound` and `NothingElsePends`. The last one is the fact
that the code relies on silently: generation and the water plant look at the stock
and not at what is pending, so they stay within the capacity only because nothing is
ever pending for power or water. `StoresFit` and `PlotsAreSound` state two of these parts
as theorems. `PendingIsDelivered`: the `min` with the capacity at the start of a settlement
never cuts anything off. `DroughtIsCounted` has its own invariant `Ages`: between
the start of a tick and the drying of its plots the count of a plot that is not irrigated
yet lags by one. `SnapshotsAreAccepted` needs `Inv` and, for the age at which a dry
plot dies, `Drought`. `RatesAssumption` has no zero among the rates by which the code divides
(`world_constants.json:84-92`).

**The forecast.** `AuditOnlyWatches`: the audit adds nothing to the engine and takes nothing
from it, so `Inv` holds beside it. More invariants relate the two programs
(`AuditInvariance`):

- `AuditTypes` and `Stages`: the audit's own amounts stay within the capacities, and it runs
  only as long as the settlement does.
- `WarnedOf`: whom the analysis has warned of and who is still alive has been refilled, or
  still has a fatal consumption ahead; whom it gave up is short of both supplies and
  can be refilled with one. From it `WarningsHold`.
- `Tracks`: while the audit runs, what it knows of a store or a body is what the engine has,
  less what was pending; while the engine consumes one supply after the other, less what is
  still due. What it does not know is marked as a gap, and then it goes no further than the
  base stage or the irrigation. Exactly equal is what nothing was pending for, and the body
  of who has not been refilled: so food that arrives unseen makes no difference to the work,
  which only crew who do not eat in this tick can do.

`AlarmIsReal` needs besides `AlarmHolds`: a fatal verdict of the base stage, reached at once,
comes true while the engine is still consuming. `NoFalseComfort` and `PlantsAsForetold` follow
from `Tracks`, which has one condition, `Comparable`: no oxygen was pending, or a unit of it
makes a unit of work and of water (`UnitOxygen`). The code divides, so more oxygen than the
audit saw either allows more work and water, and then all of it that the audit saw goes
into them and the verdict is fatal, or it changes nothing. A model in whole units has a
remainder that the audit would count as breath and the engine as part of one more unit;
with a rate of 1 there is none, as in the code. `ComfortIsJustified` and `PlantsForetold` hold
for all rates under `Comparable`; `UnitComfort` and `UnitForetold` are the properties of the run.

**The stream.** All four theorems assume `Resume`, and say so in their statements:
without it the table holds several lines of worlds. `Inv` has three parts. `Types`
are the types of what the argument needs. `OneLine`: the table holds one world for a
version, its latest row is the newest, and a running backend runs it. This is
inductive because a commit writes the successor of the running world, and a crash in
the middle leaves the written row where the restart finds it. `Known`: everything
under way or shown is a row of the table. From it `WorldsAreDurable`; the refinement
`Follows` (a commit extends the line even when its messages are lost, a snapshot that
is not outdated moves a screen on, every other step stutters); and, with `Sync`,
`SessionsMissNothing`, until storage refuses a write: the last message of an open
session is the backend's world, and a page that has read it shows that world. The
delicate case is a late HTTP answer: it is a row of the table, hence no later than the
running world, hence ignored. `KeysAreUnique` needs
`Resume` for the same reason: a note carries the version of its world, which
identifies that world only on one line. Its invariant `Chronicle` has two parts. `NotesFit`:
a plan that is listed or on its way was made for a world that has had a successor, one tick
later, an event led to a row of the table, and of one world there is one plan. `Rises`: from
one row to a later one the tick does not fall, unless there is a row of tick 0 between them.
So between the worlds of two plans of one tick lies a reset (`ResetSeparates`), which is all
that can be said of plans that name no version.

**The bridge.** `Inv` relates the two programs through the channels between them.
`Opened` says of a request that the backend opened it or never will again, `Spent` that it
was answered or overtaken; both are read off the backend's world and last request.
`HeldFits`: the request the bridge holds is opened, the last one it planned for is spent, and
a plan still queued is not for a later version. `SchemaFits`: a request given up for its
schema errors is being refused, or spent. `History`: nothing was executed after the
version the bridge works on, and nothing of that version reported. `StreamFits`: each plan
on its way was executed, its event follows it, and the versions of these plans rise.
`TrackerFits` joins the two sides: a tracker that has observed the plan of its version
hears of no other one, and the event of that plan was heard or is the next message. So a
settlement that is reported happened, with its events (`SettlementsHappened`); none is
reported twice (`ReportsAreUnique`); and since what was planned for is spent, no request is
planned for twice (`NothingPlannedTwice`). The theorems hold for every number of attempts,
submission tries, ticks and versions, and for any loss of connection or restart.

**The controller.** `Inv` adds to the types that a plan under way answers the level
observed last (`AboutTheLast`), that `LowIsPlannedFor` also holds of a controller that
has ended and may be started again (`Remembered`), and that an assessment under way was
started for the plan in force (`AssessesOwnPlan`).

**The discussion.** `Inv` says of the transcript that it is `Good`: what the experts
said has sound ids and a question, and each review leads to one earlier proposal.
Two parts make it inductive. `RepliesFit`: the reviews of an answer the Core has not read
yet are of the history as it stands, which holds because the history does not change while
the Core asks. `HumanAccepts`: a round in which the Human service takes part has a history
without a repeated id, and a round is only gathered when both took part. So a Core
decision that repeats an id is never reviewed: it ends the discussion in the next round.
`Length` (three messages a round) is needed because the new ids are counted.

**The contracts.** `TheContractsAgree` has an invariant that is only the types: its
argument is the plan itself, of any length. What the Core accepts names only crew, plots
and crops that exist, books nobody twice, stays within the limits of work and irrigates
no plot twice. What is left to the backend is the world: its version, a failed mission,
and a plot to irrigate on which nothing grows.

**An analysis.** `Inv` is the three properties with what keeps them: nothing is
published before the answer (`Unpublished`), the audits are of authorised plans
(`AuditsAuthorised`), each slip is in the record the answer is made of (`SlipsShow`), and
the method told of a retrieval is one that was used (`FallbackIsTold`, `Methods`).

**The index.** `RowsAreOwnText` follows from where a vector came from: those of the
cache, of its temporary file (`CacheIsOwn`) and of a builder (`HoldsOwn`) belong to their
key of model and text. A generation keeps what its builder wrote (`HasWritten`) since no
two builders write the same one (`Apart`), and its metadata name the model and corpus of
its rows (`MetasAreOwn`). So the one that `current.json` names is whole, and stays so when
later builds stop.

## 6. Model-checked only

- Liveness under fairness is out of the prover's reach: `CommandIsHeard`, `KeepsMoving`,
  `CatchesUp`, `PendingIsResolved`, `DiscussionEnds`, `RoomReturns`.
- What is proved under a condition is checked without it only where it holds: `EditsAreHeard`
  fails when storage does (section 4), and the stream's theorems without `RESUME_WORLD`.
  `NoAttemptWasted` is checked in the runs that list it and proved where the condition of
  `AttemptsCount` holds. Where oxygen was pending and its rates are not 1, `NoFalseComfort`
  and `PlantsAsForetold` are neither checked nor proved: there the model's rounding would
  decide, which the code does not do.

## 7. Not modelled

- `WorldLoop.stop` and the shutdown of the lifespan; the `MockPlanSource` that replays
  a recording.
- The older `/analyze` route of the Plant service, and `plant_agent_new`, a near copy of it.
- Of the screens: thoughts, selection, the planning poll (`usePlanning.ts`), the mock
  server, and the error and acceptance messages of a session. The table `messages` is a
  write that may fail; `/history`, its only reader, is left out.
- Prompts, ranking, the contents of chunks and texts, settings, transport: no protocol
  state. A model is any answer its checker lets through.
- A second bridge or another program that submits plans beside the bridge: `WorldLoop` has
  any number of submitters, `Bridge` only its own.
- Drawing, layout, the player's status text, `checks/`, fixtures and corpora.
- Rounding of floating-point amounts; the contents of events and summaries.
