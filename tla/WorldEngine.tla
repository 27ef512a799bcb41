---------------------------- MODULE WorldEngine ----------------------------
(***************************************************************************)
(* WorldEngine.settle and WorldEngine.edit_resources (backend/engine).     *)
(*                                                                         *)
(* A settlement is one synchronous call on a copy of the world; here it is *)
(* followed phase by phase, and loop by loop inside a phase, so that what  *)
(* holds at "between" holds for every world the loop commits.              *)
(*                                                                         *)
(* The plan is chosen while it is executed: each request a validated plan  *)
(* could contain at that point is an alternative.  busy holds the crew the *)
(* plan has used (PlanValidator admits one task each), and a plot          *)
(* operation is taken only where validate_plot_op accepts it, since a plan *)
(* with another one is rejected as a whole before it is settled.           *)
(*                                                                         *)
(* Amounts are natural numbers of a small unit; where the code divides,    *)
(* the model rounds to that unit.                                          *)
(***************************************************************************)
EXTENDS FiniteSets, Functions

CONSTANTS
  Crew,            \* crew numbers; the engine goes through them in order
  Plots, Crops, NoCrop,
  Capacity, Start, \* of each public resource
  BodyCapacity, BodyStart, RefillMax, Need, \* of each personal supply
  Breath,          \* oxygen per living crew and tick
  MaxWork, Stations, EnergyPerWork, OxygenPerWork, PowerPerWork,
  MaxLitres, PowerPerLitre, OxygenPerLitre,
  PlotWater, PlotPower, DeathAfter,
  Maturity, OxygenOf, FoodOf, \* of each crop
  StartCrop,       \* what grows on each plot at first
  EditAmounts,     \* bound: amounts a player enters
  MaxTick          \* bound: settlements followed

Resources == {"water", "oxygen", "food", "power"}
Supplies == {"food", "water"}

ASSUME CrewAssumption == Crew \subseteq Nat /\ IsFiniteSet(Crew) /\ Crew # {}

ASSUME AmountsAssumption ==
  /\ Capacity \in [Resources -> Nat] /\ Start \in [Resources -> Nat]
  /\ \A r \in Resources : Start[r] <= Capacity[r]
  /\ Start["oxygen"] > 0
  /\ BodyCapacity \in [Supplies -> Nat] /\ BodyStart \in [Supplies -> Nat]
  /\ \A k \in Supplies : 0 < BodyStart[k] /\ BodyStart[k] <= BodyCapacity[k]
  /\ RefillMax \in [Supplies -> Nat] /\ Need \in [Supplies -> Nat]
  /\ EditAmounts \subseteq Nat

ASSUME RatesAssumption ==
  /\ {Breath, MaxWork, Stations, EnergyPerWork, OxygenPerWork, PowerPerWork} \subseteq Nat
  /\ {MaxLitres, PowerPerLitre, OxygenPerLitre, PlotWater, PlotPower} \subseteq Nat
  /\ 0 \notin {EnergyPerWork, OxygenPerWork, PowerPerWork, PowerPerLitre, OxygenPerLitre}
  /\ DeathAfter \in Nat \ {0}
  /\ MaxTick \in Nat

ASSUME CropsAssumption ==
  /\ NoCrop \notin Crops
  /\ Maturity \in [Crops -> Nat \ {0}]
  /\ OxygenOf \in [Crops -> Nat] /\ FoodOf \in [Crops -> Nat]
  /\ StartCrop \in [Plots -> Crops \cup {NoCrop}]

VARIABLES
  tick,
  stock,     \* resources[r].value
  pending,   \* pending_oxygen and pending_food (0 for the others)
  body,      \* crew[i].food_energy and crew[i].water
  alive, failed,
  plots,
  phase,     \* "between" two settlements, or where the settlement is
  busy,      \* crew the plan has used
  due,       \* personal consumption still to come
  attempted, \* plots the plan has irrigated, successfully or not
  irrigated, \* plots with irrigated_last_tick
  wet        \* history: when a plot was last irrigated or planted

vars == <<tick, stock, pending, body, alive, failed, plots, phase, busy, due,
          attempted, irrigated, wet>>
fieldVars == <<pending, plots, attempted, irrigated, wet>>

-----------------------------------------------------------------------------
PlotStates == [crop : Crops \cup {NoCrop}, progress : Nat, mature : BOOLEAN,
               dead : BOOLEAN, dry : Nat]

\* A plot as clearing or harvesting (NoCrop) or planting leaves it.
Fresh(crop) == [crop |-> crop, progress |-> 0, mature |-> FALSE, dead |-> FALSE, dry |-> 0]

Grows(p) == plots[p].crop # NoCrop /\ ~plots[p].dead

Smaller(a, b) == IF a < b THEN a ELSE b
Smallest(a, b, c) == Smaller(a, Smaller(b, c))

\* max(0, a - b)
Less(a, b) == IF a > b THEN a - b ELSE 0

\* Bug: an empty oxygen store kills nobody.
CheckSupplies(b, s) ==
  LET dying == {i \in alive : \E k \in Supplies : b[i][k] = 0}
  IN /\ body' = b
     /\ stock' = s
     /\ alive' = alive \ dying
     /\ failed' = (failed \/ dying # {})

(***************************************************************************)
(* check_deaths on the supplies b and the stock s: who has nothing left    *)
(* dies, everybody does without oxygen, and the first death fails the      *)
(* mission.                                                                *)
(***************************************************************************)
CheckDeaths(b, s) ==
  LET dying == {i \in alive : s["oxygen"] = 0 \/ \E k \in Supplies : b[i][k] = 0}
  IN /\ body' = b
     /\ stock' = s
     /\ alive' = alive \ dying
     /\ failed' = (failed \/ dying # {})

\* A failed mission skips the phases that are left.
Proceed(next) == phase' = IF failed' THEN "settled" ELSE next

Init ==
  /\ tick = 0
  /\ stock = Start
  /\ pending = [r \in Resources |-> 0]
  /\ body = [i \in Crew |-> BodyStart]
  /\ alive = Crew
  /\ failed = FALSE
  /\ plots = [p \in Plots |-> Fresh(StartCrop[p])]
  /\ phase = "between"
  /\ busy = {} /\ due = {} /\ attempted = {} /\ irrigated = {}
  /\ wet = [p \in Plots |-> 0]

-----------------------------------------------------------------------------
(* The phases of _settle, in their order.                                  *)

\* What was pending arrives, and the tick begins.
Begin ==
  /\ phase = "between"
  /\ ~failed
  /\ tick < MaxTick
  /\ tick' = tick + 1
  /\ CheckDeaths(body, [r \in Resources |-> Smaller(Capacity[r], stock[r] + pending[r])])
  /\ pending' = [r \in Resources |-> 0]
  /\ Proceed("refill")
  /\ UNCHANGED <<plots, busy, due, attempted, irrigated, wet>>

\* Bug: the body takes whatever it is given.
RefillingUncapped(i, k, request) ==
  LET give == Smaller(request, stock[k])
  IN /\ phase = "refill"
     /\ stock' = [stock EXCEPT ![k] = @ - give]
     /\ body' = [body EXCEPT ![i][k] = @ + give]
     /\ busy' = busy \cup {i}
     /\ UNCHANGED <<tick, alive, failed, phase, due, fieldVars>>

\* One request of plan.refills, reduced to what there is and what the body holds.
Refilling(i, k, request) ==
  LET give == Smallest(request, stock[k], BodyCapacity[k] - body[i][k])
  IN /\ phase = "refill"
     /\ stock' = [stock EXCEPT ![k] = @ - give]
     /\ body' = [body EXCEPT ![i][k] = @ + give]
     /\ busy' = busy \cup {i}
     /\ UNCHANGED <<tick, alive, failed, phase, due, fieldVars>>

Refill ==
  \E i \in alive \ busy, k \in Supplies : \E request \in 0 .. RefillMax[k] :
    Refilling(i, k, request)

RefillsDone ==
  /\ phase = "refill"
  /\ phase' = "baseline"
  /\ due' = alive \X Supplies
  /\ UNCHANGED <<tick, stock, body, alive, failed, busy, fieldVars>>

\* consume_baseline takes the crew in order, food before water, and looks for
\* deaths each time.
Consume ==
  /\ phase = "baseline"
  /\ \E i \in Crew, k \in Supplies :
       /\ <<i, k>> \in due
       /\ \A d \in due : i <= d[1]
       /\ k = "food" \/ <<i, "food">> \notin due
       /\ CheckDeaths([body EXCEPT ![i][k] = Less(@, Need[k])], stock)
       /\ due' = due \ {<<i, k>>}
  /\ Proceed("baseline")
  /\ UNCHANGED <<tick, busy, fieldVars>>

Breathe ==
  /\ phase = "baseline"
  /\ due = {}
  /\ CheckDeaths(body, [stock EXCEPT !["oxygen"] = Less(@, Breath * Cardinality(alive))])
  /\ Proceed("generate")
  /\ UNCHANGED <<tick, busy, due, fieldVars>>

\* caps: what each worker can do with what is left to eat.
Caps(b, requests) ==
  [i \in DOMAIN requests |-> Smaller(requests[i], b[i]["food"] \div EnergyPerWork)]

\* Of the total of the caps, as much as the oxygen and the room for power allow.
TotalWork(s, total) ==
  Smallest(total, s["oxygen"] \div OxygenPerWork,
           (Capacity["power"] - s["power"]) \div PowerPerWork)

\* It is shared in proportion to the caps, up to one unit.
Shared(work, cap, total, actual) ==
  /\ SumFunction(work) = actual
  /\ \A i \in DOMAIN cap :
       /\ work[i] <= cap[i]
       /\ work[i] * total <= actual * cap[i] + total
       /\ actual * cap[i] <= (work[i] + 1) * total

Worked(b, work) ==
  [i \in Crew |-> IF i \in DOMAIN work
                 THEN [b[i] EXCEPT !["food"] = Less(@, work[i] * EnergyPerWork)]
                 ELSE b[i]]

Generating(requests, work, total) ==
  LET cap == Caps(body, requests)
      actual == TotalWork(stock, total)
  IN /\ phase = "generate"
     /\ total = SumFunction(cap)
     /\ Shared(work, cap, total, actual)
     /\ CheckDeaths(Worked(body, work),
                    [stock EXCEPT !["oxygen"] = Less(@, actual * OxygenPerWork),
                                  !["power"] = @ + actual * PowerPerWork])
     /\ busy' = busy \cup DOMAIN requests
     /\ Proceed("water")
     /\ UNCHANGED <<tick, due, fieldVars>>

\* A plan without work: the early return.
NoWork ==
  /\ phase = "generate"
  /\ phase' = "water"
  /\ UNCHANGED <<tick, stock, body, alive, failed, busy, due, fieldVars>>

Workers == {crew \in SUBSET (alive \ busy) : crew # {} /\ Cardinality(crew) <= Stations}

Generate ==
  \/ NoWork
  \/ \E workers \in Workers :
       \E requests \in [workers -> 1 .. MaxWork], work \in [workers -> 0 .. MaxWork],
          total \in 0 .. MaxWork * Stations : Generating(requests, work, total)

\* What can be made of a request on the stock s.
Litres(s, request) ==
  Smallest(Smaller(request, s["power"] \div PowerPerLitre), s["oxygen"] \div OxygenPerLitre,
           Capacity["water"] - s["water"])

Producing(request) ==
  LET made == Litres(stock, request)
  IN /\ phase = "water"
     /\ CheckDeaths(body, [stock EXCEPT !["power"] = @ - made * PowerPerLitre,
                                        !["oxygen"] = Less(@, made * OxygenPerLitre),
                                        !["water"] = @ + made])
     /\ Proceed("crops")
     /\ UNCHANGED <<tick, busy, due, fieldVars>>

ProduceWater == \E request \in 0 .. MaxLitres : Producing(request)

-----------------------------------------------------------------------------
(* update_crops                                                            *)

StartCrops ==
  /\ phase = "crops"
  /\ phase' = "irrigate"
  /\ irrigated' = {} /\ attempted' = {}
  /\ UNCHANGED <<tick, stock, pending, body, alive, failed, plots, busy, due, wet>>

\* What a resource can still take, with what is pending for it.
Room(r) == Less(Capacity[r], stock[r] + pending[r])

\* One plot of plan.irrigation.
Irrigating(p) ==
  LET plot == plots[p]
      progress == Smaller(Maturity[plot.crop], plot.progress + 1)
  IN /\ phase = "irrigate"
     /\ Grows(p)
     /\ attempted' = attempted \cup {p}
     /\ \/ /\ stock["water"] >= PlotWater /\ stock["power"] >= PlotPower
           /\ stock' = [stock EXCEPT !["water"] = @ - PlotWater, !["power"] = @ - PlotPower]
           /\ plots' = [plots EXCEPT ![p] =
                [crop |-> plot.crop, progress |-> progress,
                 mature |-> progress >= Maturity[plot.crop], dead |-> FALSE, dry |-> 0]]
           /\ pending' = [pending EXCEPT
                !["oxygen"] = @ + Smaller(OxygenOf[plot.crop], Room("oxygen"))]
           /\ irrigated' = irrigated \cup {p}
           /\ wet' = [wet EXCEPT ![p] = tick]
        \/ /\ stock["water"] < PlotWater \/ stock["power"] < PlotPower
           /\ UNCHANGED <<stock, plots, pending, irrigated, wet>>
     /\ UNCHANGED <<tick, body, alive, failed, phase, busy, due>>

\* The plots of the plan, in its order.
Irrigate == \E p \in Plots \ attempted : Irrigating(p)

\* A plot after one more tick without water.
Dried(plot) ==
  LET dies == plot.dry + 1 >= DeathAfter
  IN [crop |-> plot.crop, progress |-> plot.progress, mature |-> plot.mature /\ ~dies,
      dead |-> dies, dry |-> plot.dry + 1]

\* Bug: only what the plan has tried to irrigate is looked at.
NeglectAttempted ==
  /\ phase = "irrigate"
  /\ phase' = "plots"
  /\ plots' = [p \in Plots |-> IF Grows(p) /\ p \in attempted \ irrigated
                              THEN Dried(plots[p]) ELSE plots[p]]
  /\ UNCHANGED <<tick, stock, pending, body, alive, failed, busy, due, attempted,
                 irrigated, wet>>

Neglect ==
  /\ phase = "irrigate"
  /\ phase' = "plots"
  /\ plots' = [p \in Plots |-> IF Grows(p) /\ p \notin irrigated
                              THEN Dried(plots[p]) ELSE plots[p]]
  /\ UNCHANGED <<tick, stock, pending, body, alive, failed, busy, due, attempted,
                 irrigated, wet>>

-----------------------------------------------------------------------------
(* execute_plot_ops: any plot operations in the order of the plan.         *)

PlotWork(i) ==
  /\ phase = "plots"
  /\ i \in alive \ busy
  /\ busy' = busy \cup {i}
  /\ UNCHANGED <<tick, stock, body, alive, failed, phase, due, attempted>>

\* A harvest the store has no room for leaves the plot as it is.
Harvest(i, p) ==
  /\ PlotWork(i)
  /\ Grows(p)
  /\ plots[p].mature
  /\ LET food == FoodOf[plots[p].crop]
     IN \/ /\ food <= Room("food")
           /\ pending' = [pending EXCEPT !["food"] = @ + food]
           /\ plots' = [plots EXCEPT ![p] = Fresh(NoCrop)]
           /\ irrigated' = irrigated \ {p}
        \/ food > Room("food") /\ UNCHANGED <<pending, plots, irrigated>>
  /\ UNCHANGED wet

Plant(i, p, crop) ==
  /\ PlotWork(i)
  /\ ~plots[p].dead
  /\ plots[p].crop = NoCrop
  /\ plots' = [plots EXCEPT ![p] = Fresh(crop)]
  /\ irrigated' = irrigated \ {p}
  /\ wet' = [wet EXCEPT ![p] = tick]
  /\ UNCHANGED pending

\* Bug: clearing takes the plant away and leaves the plot dead.
ClearCropOnly(i, p) ==
  /\ PlotWork(i)
  /\ plots' = [plots EXCEPT ![p].crop = NoCrop]
  /\ irrigated' = irrigated \ {p}
  /\ UNCHANGED <<pending, wet>>

\* Whatever is there may be cleared, an empty plot too.
Clear(i, p) ==
  /\ PlotWork(i)
  /\ plots' = [plots EXCEPT ![p] = Fresh(NoCrop)]
  /\ irrigated' = irrigated \ {p}
  /\ UNCHANGED <<pending, wet>>

Finish ==
  /\ phase \in {"plots", "settled"}
  /\ phase' = "between"
  /\ busy' = {} /\ due' = {} /\ attempted' = {}
  /\ UNCHANGED <<tick, stock, pending, body, alive, failed, plots, irrigated, wet>>

-----------------------------------------------------------------------------
\* Bug: an edit leaves the pending amount.
EditStockOnly ==
  /\ phase = "between"
  /\ \E keys \in SUBSET Resources : \E values \in [keys -> EditAmounts] :
       CheckDeaths(body, [r \in Resources |->
         IF r \in keys THEN Smaller(Capacity[r], values[r]) ELSE stock[r]])
  /\ UNCHANGED <<tick, phase, busy, due, fieldVars>>

\* The player sets some resources, within their capacity; what was pending for
\* them is gone.  It is possible after a failure too.
EditResources ==
  /\ phase = "between"
  /\ \E keys \in SUBSET Resources : \E values \in [keys -> EditAmounts] :
       /\ CheckDeaths(body, [r \in Resources |->
            IF r \in keys THEN Smaller(Capacity[r], values[r]) ELSE stock[r]])
       /\ pending' = [r \in Resources |-> IF r \in keys THEN 0 ELSE pending[r]]
  /\ UNCHANGED <<tick, phase, busy, due, plots, attempted, irrigated, wet>>

PlotOps == \E i \in Crew, p \in Plots :
  \/ Harvest(i, p)
  \/ \E crop \in Crops : Plant(i, p, crop)
  \/ Clear(i, p)

Next ==
  \/ Begin \/ Refill \/ RefillsDone \/ Consume \/ Breathe \/ Generate
  \/ ProduceWater \/ StartCrops \/ Irrigate \/ Neglect \/ PlotOps \/ Finish
  \/ EditResources

Spec == Init /\ [][Next]_vars

-----------------------------------------------------------------------------
(* Properties                                                              *)

Phases == {"between", "refill", "baseline", "generate", "water", "crops",
           "irrigate", "plots", "settled"}

\* The types of the state; nobody holds more than a body can.
TypeOK ==
  /\ tick \in Nat
  /\ stock \in [Resources -> Nat]
  /\ pending \in [Resources -> Nat]
  /\ body \in [Crew -> [Supplies -> Nat]]
  /\ \A i \in Crew, k \in Supplies : body[i][k] <= BodyCapacity[k]
  /\ alive \subseteq Crew
  /\ failed \in BOOLEAN
  /\ plots \in [Plots -> PlotStates]
  /\ phase \in Phases
  /\ busy \subseteq Crew
  /\ due \subseteq Crew \X Supplies
  /\ attempted \subseteq Plots
  /\ irrigated \subseteq Plots
  /\ wet \in [Plots -> Nat]

\* A store and what is pending for it never exceed its capacity, whatever mix of
\* production, harvests, irrigation, refills and edits led there.
StockFits == \A r \in Resources : stock[r] + pending[r] <= Capacity[r]

\* What is announced as pending arrives in full with the next settlement: the
\* minimum with the capacity never cuts anything off.
PendingArrives ==
  [][tick' # tick => \A r \in Resources : stock'[r] = stock[r] + pending[r]]_vars

\* The mission has failed exactly when somebody has died; until then everybody
\* lives and has something of every supply, and there is oxygen.  No phase lets an
\* exhausted crew go on unnoticed.
LivingAreSupplied ==
  /\ failed = (alive # Crew)
  /\ ~failed => /\ stock["oxygen"] > 0
                /\ \A i \in Crew, k \in Supplies : body[i][k] > 0

\* The life of a plot: nothing is left of an earlier crop on an empty plot, a dead
\* plant is never ripe, and a living one is ripe exactly at the end of its growth.
PlotsSound ==
  \A p \in Plots :
    LET plot == plots[p]
    IN /\ plot.crop = NoCrop => plot = Fresh(NoCrop)
       /\ plot.crop # NoCrop => plot.progress <= Maturity[plot.crop]
       /\ plot.mature = (Grows(p) /\ plot.progress = Maturity[plot.crop])

\* Between settlements the drought of a living plant is the number of ticks since it
\* was last irrigated or planted, and it is dead once that number is DeathAfter,
\* whether the plan forgot it or water or power ran out.
DroughtCounted ==
  phase = "between" /\ ~failed =>
    \A p \in Plots : plots[p].crop # NoCrop =>
      LET since == tick - wet[p]
      IN IF plots[p].dead THEN since >= DeathAfter
                          ELSE since = plots[p].dry /\ since < DeathAfter

=============================================================================
