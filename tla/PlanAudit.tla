----------------------------- MODULE PlanAudit -----------------------------
(***************************************************************************)
(* The Human agent's arithmetic preflight (human_agent/app/plan_auditor.py *)
(* and the warnings of human_calculator.py) beside the engine it tells     *)
(* the Core about.  They are two programs: the audit sees a snapshot and a *)
(* plan, has its own copy of the rules, and does not know what is pending. *)
(*                                                                         *)
(* The audit is one call on the plan of a tick.  Here it is followed in    *)
(* step with the engine executing that plan, on amounts of its own, so     *)
(* that its verdict can be compared with what happens.  gaps is what the   *)
(* snapshot leaves out.  A formula that both programs have is an operator  *)
(* of the engine, applied to the amounts of the audit.                     *)
(***************************************************************************)
EXTENDS WorldEngine

CONSTANT Gaps  \* bound: sets of what a snapshot does not tell, of Unknowns

Unknowns == Resources \cup {"life", "rules", "availability", "plots"}

ASSUME GapsAssumption == Gaps \subseteq SUBSET Unknowns

VARIABLES
  audit,     \* audit_next_tick: status and its copies of resources and crew
  surprise,  \* history: what was pending when the tick began
  warned     \* history: crew the baseline analysis gives one more tick

auditVars == <<audit, surprise, warned>>

Verdicts == {"none", "running", "fatal_in_scope", "unsafe_in_scope", "feasible_in_scope",
             "incomplete", "not_applicable"}

NoAudit ==
  [status |-> "none", stock |-> Start, body |-> [i \in Crew |-> BodyStart], gaps |-> {},
   blind |-> {}, open |-> FALSE, dry |-> [p \in Plots |-> 0], supplied |-> {}]

\* The audit returns; what it computed so far is not published.
Ended(status) == [NoAudit EXCEPT !.status = status]

-----------------------------------------------------------------------------
(* analyze_baseline                                                        *)

\* Bug: the last tick survived, not the first that is not.
LastTick(s, rate) == (s - 1) \div rate

\* horizon: the first tick an idle crew with this stock does not survive.
FirstFatalTick(s, rate) == (s + rate - 1) \div rate

\* Crew whose supply k does not last the tick, and crew for whom no refill helps
\* because one crew cannot eat and drink in the same tick.
ShortOf(k) == {i \in alive : Need[k] > 0 /\ FirstFatalTick(body[i][k], Need[k]) <= 1}

Warnings == [short |-> ShortOf("food") \cup ShortOf("water"),
             doomed |-> ShortOf("food") \cap ShortOf("water")]

NoWarning == [short |-> {}, doomed |-> {}]

-----------------------------------------------------------------------------
(* audit_next_tick, stage by stage.                                        *)

\* current_failures
AlreadyFailed ==
  failed \/ alive # Crew \/ stock["oxygen"] = 0 \/ \E i \in Crew, k \in Supplies : body[i][k] = 0

Opened(gaps) ==
  IF AlreadyFailed THEN Ended("not_applicable")
  ELSE IF {"life", "rules"} \cap gaps # {} THEN Ended("incomplete")
  ELSE [NoAudit EXCEPT !.status = "running", !.stock = stock, !.body = body, !.gaps = gaps,
                       !.dry = [p \in Plots |-> plots[p].dry]]

\* Bug: the store is debited, the body is not credited.
RefilledStockOnly(a, i, k, request) ==
  [a EXCEPT !.stock[k] = @ - Smallest(request, @, BodyCapacity[k] - a.body[i][k])]

Refilled(a, i, k, request) ==
  LET give == Smallest(request, a.stock[k], BodyCapacity[k] - a.body[i][k])
  IN IF k \in a.gaps \/ <<i, k>> \in a.blind
     THEN [a EXCEPT !.gaps = @ \cup {k}, !.blind = @ \cup {<<i, k>>}, !.open = TRUE]
     ELSE [a EXCEPT !.stock[k] = @ - give, !.body[i][k] = @ + give]

\* Bug: who has just enough for the tick is taken to survive it.
MetabolisedLate(a) ==
  LET known == (Crew \X Supplies) \ a.blind
      breath == Breath * Cardinality(Crew)
  IN IF \/ \E d \in known : a.body[d[1]][d[2]] < Need[d[2]]
        \/ "oxygen" \notin a.gaps /\ a.stock["oxygen"] <= breath
     THEN Ended("fatal_in_scope")
     ELSE IF a.open \/ "oxygen" \in a.gaps THEN Ended("incomplete")
     ELSE [a EXCEPT !.stock["oxygen"] = @ - breath,
                    !.body = [i \in Crew |-> [k \in Supplies |-> a.body[i][k] - Need[k]]]]

\* The stage base: all personal consumption and the breathing of the whole crew.
Metabolised(a) ==
  LET known == (Crew \X Supplies) \ a.blind
      breath == Breath * Cardinality(Crew)
  IN IF \/ \E d \in known : a.body[d[1]][d[2]] <= Need[d[2]]
        \/ "oxygen" \notin a.gaps /\ a.stock["oxygen"] <= breath
     THEN Ended("fatal_in_scope")
     ELSE IF a.open \/ "oxygen" \in a.gaps THEN Ended("incomplete")
     ELSE [a EXCEPT !.stock["oxygen"] = @ - breath,
                    !.body = [i \in Crew |-> [k \in Supplies |-> a.body[i][k] - Need[k]]]]

\* The stage generation, of the work and its sum.
Generated(a, work, total) ==
  LET b == Worked(a.body, work)
      oxygen == Less(a.stock["oxygen"], total * OxygenPerWork)
  IN IF oxygen = 0 \/ \E i \in Crew : b[i]["food"] = 0 THEN Ended("fatal_in_scope")
     ELSE [a EXCEPT !.body = b, !.stock["oxygen"] = oxygen,
                    !.stock["power"] = @ + total * PowerPerWork]

\* The stage water_production.
Watered(a, request) ==
  LET made == Litres(a.stock, request)
      oxygen == Less(a.stock["oxygen"], made * OxygenPerLitre)
  IN IF request = 0 THEN a
     ELSE IF {"availability", "water", "power", "oxygen"} \cap a.gaps # {}
     THEN Ended("incomplete")
     ELSE IF oxygen = 0 THEN Ended("fatal_in_scope")
     ELSE [a EXCEPT !.stock["water"] = @ + made, !.stock["oxygen"] = oxygen,
                    !.stock["power"] = @ - made * PowerPerLitre]

\* One allocation.  A spending that is not known leaves the stores unknown.
Irrigated(a, p, crop) ==
  LET short(r, n) == r \notin a.gaps /\ a.stock[r] < n
  IN IF short("water", PlotWater) \/ short("power", PlotPower) THEN a
     ELSE IF {"water", "power"} \cap a.gaps # {}
     THEN [a EXCEPT !.gaps = @ \cup {"water", "power", "oxygen"}, !.open = TRUE,
                    !.blind = @ \cup {p}]
     ELSE [a EXCEPT !.supplied = @ \cup {p},
                    !.stock["water"] = @ - PlotWater,
                    !.stock["power"] = @ - PlotPower,
                    !.stock["oxygen"] = Smaller(Capacity["oxygen"], @ + OxygenOf[crop])]

\* Bug: the count of dry ticks is that of the snapshot.
WillDieAlready(a, p) == p \notin a.supplied \cup a.blind /\ a.dry[p] >= DeathAfter

\* A living plot without its full supply, once too often.
WillDie(a, p) == p \notin a.supplied \cup a.blind /\ a.dry[p] + 1 >= DeathAfter

Closed(a) ==
  [a EXCEPT !.status = IF \E p \in Plots : Grows(p) /\ WillDie(a, p) THEN "unsafe_in_scope"
                       ELSE IF a.open THEN "incomplete" ELSE "feasible_in_scope"]

-----------------------------------------------------------------------------
(* The audit in step with the engine.                                      *)

Runs == audit.status = "running"

\* A stage of the audit, if it has not returned.
Advance(a) == audit' = IF Runs THEN a ELSE audit

InitAudit == Init /\ audit = NoAudit /\ surprise = {} /\ warned = NoWarning

BeginAudited ==
  /\ Begin
  /\ \E gaps \in Gaps : audit' = Opened(gaps)
  /\ surprise' = {r \in Resources : pending[r] > 0}
  /\ warned' = Warnings

RefillAudited ==
  /\ \E i \in alive \ busy, k \in Supplies : \E request \in 0 .. RefillMax[k] :
       Refilling(i, k, request) /\ Advance(Refilled(audit, i, k, request))
  /\ UNCHANGED <<surprise, warned>>

RefillsDoneAudited ==
  RefillsDone /\ Advance(Metabolised(audit)) /\ UNCHANGED <<surprise, warned>>

\* The audit's work, beside that of the engine: from the same caps and the same sum both
\* compute the same shares.
AuditWorks(a, requests, work, total) ==
  LET cap == Caps(a.body, requests)
      actual(sum) == TotalWork(a.stock, sum)
  IN IF "power" \in a.gaps THEN audit' = Ended("incomplete")
     ELSE \E share \in [DOMAIN requests -> 0 .. MaxWork], sum \in 0 .. MaxWork * Stations :
            /\ sum = SumFunction(cap)
            /\ Shared(share, cap, sum, actual(sum))
            /\ cap = Caps(body, requests) /\ actual(sum) = TotalWork(stock, total)
                 => share = work
            /\ audit' = Generated(a, share, actual(sum))

GenerateAudited ==
  /\ \/ NoWork /\ audit' = audit
     \/ \E workers \in Workers :
          \E requests \in [workers -> 1 .. MaxWork], work \in [workers -> 0 .. MaxWork],
             total \in 0 .. MaxWork * Stations :
            /\ Generating(requests, work, total)
            /\ IF Runs THEN AuditWorks(audit, requests, work, total) ELSE audit' = audit
  /\ UNCHANGED <<surprise, warned>>

ProduceWaterAudited ==
  /\ \E request \in 0 .. MaxLitres :
       Producing(request) /\ Advance(Watered(audit, request))
  /\ UNCHANGED <<surprise, warned>>

StartCropsAudited ==
  /\ StartCrops
  /\ Advance(IF "plots" \in audit.gaps THEN Ended("incomplete") ELSE audit)
  /\ UNCHANGED <<surprise, warned>>

IrrigateAudited ==
  /\ \E p \in Plots \ attempted :
       Irrigating(p) /\ Advance(Irrigated(audit, p, plots[p].crop))
  /\ UNCHANGED <<surprise, warned>>

NeglectAudited == Neglect /\ Advance(Closed(audit)) /\ UNCHANGED <<surprise, warned>>

FinishAudited ==
  Finish /\ audit' = NoAudit /\ surprise' = {} /\ warned' = NoWarning

NextAudit ==
  \/ BeginAudited \/ RefillAudited \/ RefillsDoneAudited \/ GenerateAudited
  \/ ProduceWaterAudited \/ StartCropsAudited \/ IrrigateAudited \/ NeglectAudited
  \/ FinishAudited
  \/ (Consume \/ Breathe \/ PlotOps \/ EditResources) /\ UNCHANGED auditVars

SpecAudit == InitAudit /\ [][NextAudit]_<<vars, auditVars>>

-----------------------------------------------------------------------------
(* Properties.                                                             *)

\* A plan the audit calls feasible, or unsafe for plants only, kills nobody: also when
\* more is in the stores than the audit knew, so that more work is done with it.
NoFalseComfort ==
  failed /\ phase = "settled" =>
    audit.status \in {"fatal_in_scope", "incomplete", "not_applicable"}

\* A plan the audit calls fatal kills, unless the tick began with pending oxygen or
\* food, which the snapshot the audit reads does not count in.
AlarmIsReal == phase = "plots" /\ audit.status = "fatal_in_scope" => surprise # {}

Foretells ==
  phase = "irrigate" /\ phase' = "plots" =>
    LET died == {p \in Plots : plots'[p].dead /\ ~plots[p].dead}
    IN /\ audit'.status = "unsafe_in_scope" => died # {}
       /\ audit'.status = "feasible_in_scope" => died = {}

\* The plants the audit sees dying are those that dry out this tick.
PlantsAsForetold == [][Foretells]_<<vars, auditVars>>

\* Nobody survives the tick the analysis calls the last one for them unless the plan
\* refills them, and whom no refill can help dies whatever the plan does.
WarningsAreRight ==
  phase = "plots" => warned.short \subseteq busy /\ warned.doomed = {}

=============================================================================
