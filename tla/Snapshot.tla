------------------------------ MODULE Snapshot ------------------------------
(***************************************************************************)
(* The world as the agents are shown it.  core_snapshot                    *)
(* (agent_runner/contracts.py) maps a world between two ticks, and three   *)
(* programs check what they get with models of their own: the Core         *)
(* (validate_world), the Human service (app/schemas.py) and the Plant      *)
(* service (api/discussion_schema.py).  A snapshot one of them refuses     *)
(* ends the planning of the tick.                                          *)
(***************************************************************************)
EXTENDS WorldEngine

\* The four states of a plot, the first that applies.
Status(plot) ==
  CASE plot.dead -> "dead"
    [] ~plot.dead /\ plot.crop = NoCrop -> "empty"
    [] ~plot.dead /\ plot.crop # NoCrop /\ plot.mature -> "mature"
    [] OTHER -> "growing"

\* What all three say of a plot, and of the amounts: none is above its capacity.  A
\* plot without a crop is an empty one, growth ends with maturity, and a count of dry
\* ticks never exceeds the one that kills.
PlotTaken(plot) ==
  /\ (Status(plot) = "empty") = (plot.crop = NoCrop)
  /\ plot.crop # NoCrop => plot.progress <= Maturity[plot.crop]
  /\ plot.dry <= DeathAfter

AmountsTaken ==
  /\ \A r \in Resources : stock[r] <= Capacity[r]
  /\ \A i \in Crew, k \in Supplies : body[i][k] <= BodyCapacity[k]

\* What only the Human service asks: nothing is counted on an empty plot, a ripe plant
\* is at the end of its growth, and a living one has not missed its last water.
HumanTakesPlot(plot) ==
  /\ Status(plot) = "empty" => plot.progress = 0 /\ plot.dry = 0
  /\ Status(plot) = "mature" => plot.progress = Maturity[plot.crop]
  /\ Status(plot) \in {"growing", "mature"} => plot.dry < DeathAfter

-----------------------------------------------------------------------------
\* No world the engine can leave behind, after whatever plans, edits and deaths, is
\* refused by an agent that is asked about it.
SnapshotAccepted ==
  phase = "between" =>
    /\ AmountsTaken
    /\ \A p \in Plots : PlotTaken(plots[p]) /\ HumanTakesPlot(plots[p])

=============================================================================
