------------------------------ MODULE PlanContract ------------------------------
(***************************************************************************)
(* What a plan has to be for the Core, and what a tick plan has to be for  *)
(* the backend.  validate_plan (core_agent/contracts.py) accepts a plan of *)
(* stages; the bridge translates the entry stage (current_tick_plan in     *)
(* agent_runner/contracts.py), and PlanValidator.check looks at the result *)
(* with rules of its own.  Two programs with two copies of the rules.      *)
(*                                                                         *)
(* Amounts are counted in units, and each limit is a constant.  A snapshot *)
(* is its version: neither check reads more of it than the ids.  The tick  *)
(* of a world belongs to its version.                                      *)
(***************************************************************************)
EXTENDS Naturals, Sequences, FiniteSets

CONSTANTS
  Crew, Plots,      \* ids of the snapshot
  Crops,            \* the five crops
  Strange,          \* a string that names none of them
  None,             \* null
  Limit,            \* most of each personal task for the Core: 1000, 0.5, 1
  MaxWater,         \* most litres of a stage for the Core (250)
  MaxWork,          \* max_work_per_crew (1)
  Stations,         \* generation.stations (4)
  Actions,          \* bound: the actions a model writes
  Waters,           \* bound: water settings
  MaxPieces,        \* bound: pieces of a plan that differ from the blank one
  MaxVersion        \* bound: versions of the world

Personal == {"eat", "drink", "generate"}
Field == {"plant", "harvest", "clear"}

Drafts ==
  [id : Nat, crew : Crew \cup {Strange}, kind : Personal \cup Field, offset : Nat,
   repeat : BOOLEAN, plot : Plots \cup {Strange, None}, crop : Crops \cup {Strange, None},
   amount : Nat]

ASSUME ContractAssumption ==
  /\ IsFiniteSet(Crew) /\ Cardinality(Crew) <= Stations /\ Stations \in Nat
  /\ Strange \notin Crew \cup Plots \cup Crops \cup {None}
  /\ None \notin Crew \cup Plots \cup Crops
  /\ Limit \in [Personal -> Nat]
  /\ MaxWater \in Nat /\ MaxWork \in Nat /\ Limit["generate"] <= MaxWork
  /\ Actions \subseteq Drafts
  /\ Waters \subseteq Nat
  /\ MaxPieces \in Nat /\ MaxVersion \in Nat

VARIABLES
  world,     \* version, failed, the living crew and the growing plots
  snapshot,  \* the version the Core was shown
  plan       \* what its model writes, piece by piece

vars == <<world, snapshot, plan>>

StageIds == {"now", "later"}

Worlds ==
  {w \in [version : 0 .. MaxVersion, failed : BOOLEAN, alive : SUBSET Crew,
          growing : SUBSET Plots] : w.alive # Crew => w.failed}

-----------------------------------------------------------------------------
(* validate_plan, after the shapes of PLAN_SCHEMA.                         *)

\* The ticks of its stage an action takes: the last one is not needed for the test.
Last(s, a) == IF a.repeat THEN s.ticks - 1 ELSE a.offset

\* Bug: intervals that touch do not overlap.
OverlapInside(s, a, b) == a.offset < Last(s, b) /\ b.offset < Last(s, a)

Overlap(s, a, b) == a.offset <= Last(s, b) /\ b.offset <= Last(s, a)

ActionIsSound(s, a) ==
  /\ a.crew \in Crew
  /\ a.offset < s.ticks
  /\ a.repeat => a.kind = "generate"
  /\ IF a.kind \in Personal
     THEN 0 < a.amount /\ a.amount <= Limit[a.kind] /\ a.plot = None /\ a.crop = None
     ELSE /\ a.plot \in Plots
          /\ a.amount = 1
          /\ IF a.kind = "plant" THEN a.crop \in Crops ELSE a.crop = None

Repeats(seq) == \E i, j \in DOMAIN seq : i # j /\ seq[i] = seq[j]

StageIsSound(s) ==
  /\ 1 <= s.ticks
  /\ s.water <= MaxWater
  /\ ~Repeats(s.irrigation)
  /\ \A i \in DOMAIN s.irrigation : s.irrigation[i] \in Plots
  /\ \A k \in DOMAIN s.actions : ActionIsSound(s, s.actions[k])
  /\ \A k, l \in DOMAIN s.actions :
       k # l /\ s.actions[k].crew = s.actions[l].crew
         => ~Overlap(s, s.actions[k], s.actions[l])
  /\ s.targets \subseteq StageIds

\* Every action of the plan has an id of its own, in whatever stage it is.
IdsAreDistinct(p) ==
  \A s, t \in StageIds : \A k \in DOMAIN p.stages[s].actions, l \in DOMAIN p.stages[t].actions :
    p.stages[s].actions[k].id = p.stages[t].actions[l].id => s = t /\ k = l

CoreAccepts(p, version) ==
  /\ p.version = version
  /\ p.entry \in StageIds
  /\ IdsAreDistinct(p)
  /\ \A s \in StageIds : StageIsSound(p.stages[s])

-----------------------------------------------------------------------------
(* current_tick_plan: the actions of the entry stage that start at once.   *)

Now(s) == {k \in DOMAIN s.actions : s.actions[k].offset = 0}

Starts(s, kinds) == {k \in Now(s) : s.actions[k].kind \in kinds}

\* generation is a dict: of two requests of one crew the later one stays.
Latest(s) ==
  {k \in Starts(s, {"generate"}) :
     \A l \in Starts(s, {"generate"}) : s.actions[l].crew = s.actions[k].crew => l <= k}

TickPlan(p, version) ==
  LET s == p.stages[p.entry]
      act(k) == s.actions[k]
  IN [version |-> version,
      generation |-> {[crew |-> act(k).crew, amount |-> act(k).amount] : k \in Latest(s)},
      water |-> s.water,
      irrigation |-> s.irrigation,
      refills |-> {[order |-> k, crew |-> act(k).crew,
                    kind |-> IF act(k).kind = "eat" THEN "food" ELSE "water"] :
                   k \in Starts(s, {"eat", "drink"})},
      ops |-> {[order |-> k, crew |-> act(k).crew, plot |-> act(k).plot,
                kind |-> act(k).kind, crop |-> act(k).crop] : k \in Starts(s, Field)}]

-----------------------------------------------------------------------------
(* PlanValidator.check, as far as the engine's dry run.                    *)

Workers(t) == {g \in t.generation : 0 < g.amount /\ g.amount <= MaxWork}

\* assign: who does what in the tick.  The crew of a request outside the range is not
\* taken for occupied.
Assigned(t) ==
  {[order |-> 0, crew |-> g.crew, kind |-> "generate"] : g \in Workers(t)}
    \cup t.refills
    \cup {[order |-> o.order, crew |-> o.crew, kind |-> o.kind] : o \in t.ops}

Refused(t, code) ==
  CASE code = "PLAN_STALE" -> t.version # world.version
    [] code = "WORLD_FAILED" -> world.failed
    [] code = "CREW_UNKNOWN" -> \E g \in Assigned(t) \cup t.generation : g.crew \notin Crew
    [] code = "CREW_DEAD" -> \E g \in Assigned(t) : g.crew \in Crew \ world.alive
    [] code = "GENERATION_OUT_OF_RANGE" -> \E g \in t.generation : g.amount > MaxWork
    [] code = "GENERATION_STATION_FULL" -> Cardinality(Workers(t)) > Stations
    [] code = "PLOT_UNKNOWN" ->
         \/ \E i \in DOMAIN t.irrigation : t.irrigation[i] \notin Plots
         \/ \E o \in t.ops : o.plot \notin Plots
    [] code = "IRRIGATION_PLOT_INVALID" ->
         \E i \in DOMAIN t.irrigation : t.irrigation[i] \in Plots \ world.growing
    [] code = "IRRIGATION_DUPLICATE" -> Repeats(t.irrigation)
    [] code = "CROP_UNKNOWN" ->
         \E o \in t.ops : (o.crop # None \/ o.kind = "plant") /\ o.crop \notin Crops
    [] code = "PLOT_ORDER_DUPLICATE" -> \E o, q \in t.ops : o # q /\ o.order = q.order
    [] code = "CREW_DOUBLE_BOOKED" ->
         \E x, y \in Assigned(t) : x # y /\ x.crew = y.crew

Codes == {"PLAN_STALE", "WORLD_FAILED", "CREW_UNKNOWN", "CREW_DEAD",
          "GENERATION_OUT_OF_RANGE", "GENERATION_STATION_FULL", "PLOT_UNKNOWN",
          "IRRIGATION_PLOT_INVALID", "IRRIGATION_DUPLICATE", "CROP_UNKNOWN",
          "PLOT_ORDER_DUPLICATE", "CREW_DOUBLE_BOOKED"}

BackendAccepts(t) == \A code \in Codes : ~Refused(t, code)

-----------------------------------------------------------------------------
(* A model writes a plan while the world may move on.                      *)

Blank(version) ==
  [version |-> version, entry |-> "now",
   stages |-> [s \in StageIds |-> [ticks |-> 2, water |-> 0, irrigation |-> <<>>,
                                   actions |-> <<>>, targets |-> {}]]]

\* The settings of a plan without its actions.
Settings(p) == [p EXCEPT !.stages = [s \in StageIds |->
                  [@[s] EXCEPT !.actions = <<>>, !.irrigation = <<>>]]]

Pieces(p) ==
  Len(p.stages["now"].actions) + Len(p.stages["later"].actions)
    + Len(p.stages["now"].irrigation)
    + (IF Settings(p) = Blank(snapshot) THEN 0 ELSE 1)

Init ==
  /\ world \in {w \in Worlds : w.version = 0 /\ ~w.failed}
  /\ snapshot = 0
  /\ plan = Blank(0)

Write(p) ==
  /\ Pieces(plan) < MaxPieces
  /\ plan' = p
  /\ UNCHANGED <<world, snapshot>>

AddAction(s, a) == Write([plan EXCEPT !.stages[s].actions = Append(@, a)])

Irrigate(p) == Write([plan EXCEPT !.stages["now"].irrigation = Append(@, p)])

\* A setting of a stage, a stage to start with or to go on to that does not exist, or
\* the version the plan claims.
Set ==
  \/ \E w \in Waters : Write([plan EXCEPT !.stages["now"].water = w])
  \/ \E n \in {0, 1} : Write([plan EXCEPT !.stages["now"].ticks = n])
  \/ \E s \in StageIds \cup {Strange} : Write([plan EXCEPT !.entry = s])
  \/ Write([plan EXCEPT !.stages["now"].targets = {Strange}])
  \/ Write([plan EXCEPT !.version = world.version])

\* A tick, an edit or a reset.
MoveOn ==
  /\ world.version < MaxVersion
  /\ world' \in {w \in Worlds : w.version = world.version + 1}
  /\ UNCHANGED <<snapshot, plan>>

\* The bridge takes up another request.
Observe ==
  /\ snapshot # world.version
  /\ snapshot' = world.version
  /\ plan' = Blank(world.version)
  /\ UNCHANGED world

Next ==
  \/ \E s \in StageIds, a \in Actions : AddAction(s, a)
  \/ \E p \in Plots \cup {Strange} : Irrigate(p)
  \/ Set \/ MoveOn \/ Observe

Spec == Init /\ [][Next]_vars

-----------------------------------------------------------------------------
(* Properties.                                                             *)

\* Of a plan the Core accepts the backend only asks what the Core does not look at: that
\* the world is the one of the snapshot, has not failed, and grows what is irrigated.
\* What the plan itself says is never refused: the two copies of the rules agree, and
\* the translation keeps what the Core has checked.
OnlyTheWorldRefuses ==
  CoreAccepts(plan, snapshot) =>
    LET order == plan.stages[plan.entry].irrigation
    IN BackendAccepts(TickPlan(plan, snapshot)) <=>
         /\ world.version = snapshot
         /\ ~world.failed
         /\ \A i \in DOMAIN order : order[i] \in world.growing

=============================================================================
