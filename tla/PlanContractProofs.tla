-------------------------- MODULE PlanContractProofs --------------------------
(* The Core's contract and the backend's, for every crew, greenhouse and plan. *)
EXTENDS PlanContract, FiniteSetTheorems, SequenceTheorems, TLAPS

-----------------------------------------------------------------------------
(* Types.                                                                  *)

Stages == [ticks : Nat, water : Nat, irrigation : Seq(Plots \cup {Strange}),
           actions : Seq(Drafts), targets : SUBSET (StageIds \cup {Strange})]

Plans == [version : Nat, entry : StageIds \cup {Strange}, stages : [StageIds -> Stages]]

TypeOK == world \in Worlds /\ snapshot \in 0 .. MaxVersion /\ plan \in Plans

LEMMA BlankType == ASSUME NEW v \in Nat PROVE Blank(v) \in Plans
<1>1. <<>> \in Seq(Plots \cup {Strange}) /\ <<>> \in Seq(Drafts)
  BY EmptySeq
<1>2. [ticks |-> 2, water |-> 0, irrigation |-> <<>>, actions |-> <<>>, targets |-> {}]
        \in Stages
  BY <1>1 DEF Stages
<1> QED
  BY <1>2 DEF Blank, Plans, StageIds

LEMMA TypesInit == Init => TypeOK
BY BlankType, ContractAssumption DEF Init, TypeOK

LEMMA TypesStep == TypeOK /\ [Next]_vars => TypeOK'
<1> SUFFICES ASSUME TypeOK, [Next]_vars PROVE TypeOK'
  OBVIOUS
<1>1. /\ world \in Worlds /\ world.version \in Nat /\ world.version \in 0 .. MaxVersion
      /\ snapshot \in 0 .. MaxVersion /\ plan \in Plans
      /\ Actions \subseteq Drafts /\ Waters \subseteq Nat /\ MaxVersion \in Nat
  BY ContractAssumption DEF TypeOK, Worlds
<1>2. ASSUME NEW p \in Plans, Write(p) PROVE TypeOK'
  BY <1>1, <1>2 DEF Write, TypeOK
<1>3. ASSUME NEW s \in StageIds, NEW a \in Actions, AddAction(s, a) PROVE TypeOK'
  <2> DEFINE new == Append(plan.stages[s].actions, a)
  <2>1. new \in Seq(Drafts)
    BY <1>1, AppendProperties DEF Plans, Stages
  <2>2. [plan EXCEPT !.stages[s].actions = new] \in Plans
    <3> HIDE DEF new
    <3> QED
      BY <1>1, <2>1 DEF Plans, Stages
  <2> QED
    BY <1>2, <1>3, <2>2 DEF AddAction
<1>4. ASSUME NEW p \in Plots \cup {Strange}, Irrigate(p) PROVE TypeOK'
  <2> DEFINE new == Append(plan.stages["now"].irrigation, p)
  <2>1. new \in Seq(Plots \cup {Strange})
    BY <1>1, AppendProperties DEF Plans, Stages, StageIds
  <2>2. [plan EXCEPT !.stages["now"].irrigation = new] \in Plans
    <3> HIDE DEF new
    <3> QED
      BY <1>1, <2>1 DEF Plans, Stages
  <2> QED
    BY <1>2, <1>4, <2>2 DEF Irrigate
<1>5. CASE Set
  <2>1. ASSUME NEW w \in Nat PROVE [plan EXCEPT !.stages["now"].water = w] \in Plans
    BY <1>1 DEF Plans, Stages
  <2>2. ASSUME NEW n \in Nat PROVE [plan EXCEPT !.stages["now"].ticks = n] \in Plans
    BY <1>1 DEF Plans, Stages
  <2>3. ASSUME NEW s \in StageIds \cup {Strange} PROVE [plan EXCEPT !.entry = s] \in Plans
    BY <1>1 DEF Plans
  <2>4. [plan EXCEPT !.stages["now"].targets = {Strange}] \in Plans
    BY <1>1 DEF Plans, Stages
  <2>5. [plan EXCEPT !.version = world.version] \in Plans
    BY <1>1 DEF Plans
  <2> QED
    BY <1>1, <1>2, <1>5, <2>1, <2>2, <2>3, <2>4, <2>5 DEF Set
<1>6. CASE MoveOn
  BY <1>1, <1>6 DEF MoveOn, TypeOK
<1>7. CASE Observe
  BY <1>1, <1>7, BlankType DEF Observe, TypeOK
<1>8. CASE UNCHANGED vars
  BY <1>8 DEF vars, TypeOK
<1> QED
  BY <1>3, <1>4, <1>5, <1>6, <1>7, <1>8 DEF Next

-----------------------------------------------------------------------------
(* The translation of a stage the Core accepts.                            *)

\* Everything that starts at once is sound, and no crew starts two things at once.
LEMMA StartsAreSound ==
  ASSUME NEW s \in Stages, StageIsSound(s)
  PROVE  /\ \A k \in Now(s) : s.actions[k] \in Drafts /\ ActionIsSound(s, s.actions[k])
         /\ \A k, l \in Now(s) : s.actions[k].crew = s.actions[l].crew => k = l
         /\ Now(s) \subseteq Nat \ {0}
<1>1. /\ s.actions \in Seq(Drafts) /\ s.ticks \in Nat /\ 1 <= s.ticks
      /\ Now(s) \subseteq DOMAIN s.actions
  BY DEF Stages, StageIsSound, Now
<1>2. \A k \in DOMAIN s.actions : s.actions[k] \in Drafts /\ k \in Nat \ {0}
  BY <1>1
<1>3. \A k \in Now(s) : s.actions[k] \in Drafts /\ ActionIsSound(s, s.actions[k])
  BY <1>1, <1>2 DEF StageIsSound
<1>4. ASSUME NEW k \in Now(s), NEW l \in Now(s), s.actions[k].crew = s.actions[l].crew, k # l
      PROVE  FALSE
  <2>1. ~Overlap(s, s.actions[k], s.actions[l])
    BY <1>1, <1>4 DEF StageIsSound
  <2>2. s.actions[k].offset = 0 /\ s.actions[l].offset = 0
    BY DEF Now
  <2>3. 0 <= s.ticks - 1
    BY <1>1
  <2>4. 0 <= Last(s, s.actions[k]) /\ 0 <= Last(s, s.actions[l])
    BY <2>2, <2>3 DEF Last
  <2> QED
    BY <2>1, <2>2, <2>4 DEF Overlap
<1> QED
  BY <1>1, <1>2, <1>3, <1>4

\* What the backend sees of the action k as an occupation of its crew.
Shown(s, k) ==
  LET a == s.actions[k]
  IN CASE a.kind = "generate" -> [order |-> 0, crew |-> a.crew, kind |-> "generate"]
       [] a.kind = "eat" -> [order |-> k, crew |-> a.crew, kind |-> "food"]
       [] a.kind = "drink" -> [order |-> k, crew |-> a.crew, kind |-> "water"]
       [] a.kind \in Field -> [order |-> k, crew |-> a.crew, kind |-> a.kind]

LEMMA ShownCrew ==
  ASSUME NEW s \in Stages, NEW k \in Now(s), s.actions[k] \in Drafts
  PROVE  Shown(s, k).crew = s.actions[k].crew
<1>1. s.actions[k].kind \in Personal \cup Field
  BY DEF Drafts
<1> QED
  BY <1>1 DEF Shown, Personal, Field

\* Every request of the tick plan comes from an action that starts at once.
LEMMA Translated ==
  ASSUME NEW p \in Plans, NEW v, p.entry \in StageIds
  PROVE  LET s == p.stages[p.entry]
             t == TickPlan(p, v)
         IN /\ \A g \in t.generation :
                 \E k \in Starts(s, {"generate"}) :
                   g = [crew |-> s.actions[k].crew, amount |-> s.actions[k].amount]
            /\ \A o \in t.ops :
                 \E k \in Starts(s, Field) :
                   o = [order |-> k, crew |-> s.actions[k].crew, plot |-> s.actions[k].plot,
                        kind |-> s.actions[k].kind, crop |-> s.actions[k].crop]
            /\ \A x \in Assigned(t) : \E k \in Now(s) : x = Shown(s, k)
            /\ t.version = v /\ t.irrigation = s.irrigation
<1> DEFINE s == p.stages[p.entry]
           t == TickPlan(p, v)
<1>1. t.generation = {[crew |-> s.actions[k].crew, amount |-> s.actions[k].amount] :
                      k \in Latest(s)}
  BY DEF TickPlan
<1>2. t.refills = {[order |-> k, crew |-> s.actions[k].crew,
                    kind |-> IF s.actions[k].kind = "eat" THEN "food" ELSE "water"] :
                   k \in Starts(s, {"eat", "drink"})}
  BY DEF TickPlan
<1>3. t.ops = {[order |-> k, crew |-> s.actions[k].crew, plot |-> s.actions[k].plot,
                kind |-> s.actions[k].kind, crop |-> s.actions[k].crop] :
               k \in Starts(s, Field)}
  BY DEF TickPlan
<1>4. t.version = v /\ t.irrigation = s.irrigation
  BY DEF TickPlan
<1>5. /\ Latest(s) \subseteq Starts(s, {"generate"})
      /\ \A kinds : Starts(s, kinds) \subseteq Now(s)
  BY DEF Latest, Starts
<1> HIDE DEF s, t
<1>6. ASSUME NEW g \in t.generation
      PROVE  \E k \in Starts(s, {"generate"}) :
               g = [crew |-> s.actions[k].crew, amount |-> s.actions[k].amount]
  BY <1>1, <1>5
<1>7. ASSUME NEW o \in t.ops
      PROVE  \E k \in Starts(s, Field) :
               o = [order |-> k, crew |-> s.actions[k].crew, plot |-> s.actions[k].plot,
                    kind |-> s.actions[k].kind, crop |-> s.actions[k].crop]
  BY <1>3
<1>8. ASSUME NEW x \in Assigned(t) PROVE \E k \in Now(s) : x = Shown(s, k)
  <2>1. CASE x \in {[order |-> 0, crew |-> g.crew, kind |-> "generate"] : g \in Workers(t)}
    <3>1. PICK g \in t.generation : x = [order |-> 0, crew |-> g.crew, kind |-> "generate"]
      BY <2>1 DEF Workers
    <3>2. PICK k \in Starts(s, {"generate"}) :
            g = [crew |-> s.actions[k].crew, amount |-> s.actions[k].amount]
      BY <1>6
    <3>3. s.actions[k].kind = "generate" /\ k \in Now(s)
      BY DEF Starts
    <3>4. x = [order |-> 0, crew |-> s.actions[k].crew, kind |-> "generate"]
      BY <3>1, <3>2
    <3>5. x = Shown(s, k)
      BY <3>3, <3>4 DEF Shown, Field
    <3> QED
      BY <3>3, <3>5
  <2>2. CASE x \in t.refills
    <3>1. PICK k \in Starts(s, {"eat", "drink"}) :
            x = [order |-> k, crew |-> s.actions[k].crew,
                 kind |-> IF s.actions[k].kind = "eat" THEN "food" ELSE "water"]
      BY <1>2, <2>2
    <3>2. s.actions[k].kind \in {"eat", "drink"} /\ k \in Now(s)
      BY DEF Starts
    <3>3. x = Shown(s, k)
      BY <3>1, <3>2 DEF Shown, Field
    <3> QED
      BY <3>2, <3>3
  <2>3. CASE x \in {[order |-> o.order, crew |-> o.crew, kind |-> o.kind] : o \in t.ops}
    <3>1. PICK o \in t.ops : x = [order |-> o.order, crew |-> o.crew, kind |-> o.kind]
      BY <2>3
    <3>2. PICK k \in Starts(s, Field) :
            o = [order |-> k, crew |-> s.actions[k].crew, plot |-> s.actions[k].plot,
                 kind |-> s.actions[k].kind, crop |-> s.actions[k].crop]
      BY <1>7
    <3>3. s.actions[k].kind \in Field /\ k \in Now(s)
      BY DEF Starts
    <3>4. x = [order |-> k, crew |-> s.actions[k].crew, kind |-> s.actions[k].kind]
      BY <3>1, <3>2
    <3>5. x = Shown(s, k)
      BY <3>3, <3>4 DEF Shown, Field
    <3> QED
      BY <3>3, <3>5
  <2> QED
    BY <2>1, <2>2, <2>3 DEF Assigned
<1> QED
  BY <1>4, <1>6, <1>7, <1>8 DEF s, t

-----------------------------------------------------------------------------
(* What the backend makes of it.                                           *)

\* No code that is about the plan itself applies.
LEMMA PlanIsInOrder ==
  ASSUME NEW p \in Plans, NEW v, CoreAccepts(p, v)
  PROVE  LET t == TickPlan(p, v)
         IN /\ \A g \in Assigned(t) \cup t.generation : g.crew \in Crew
            /\ \A g \in t.generation : g.amount \in Nat /\ g.amount <= MaxWork
            /\ ~(Cardinality(Workers(t)) > Stations)
            /\ \A o \in t.ops :
                 /\ o.plot \in Plots
                 /\ o.crop # None \/ o.kind = "plant" => o.crop \in Crops
            /\ \A o, q \in t.ops : o.order = q.order => o = q
            /\ \A x, y \in Assigned(t) : x.crew = y.crew => x = y
            /\ ~Repeats(t.irrigation)
            /\ \A i \in DOMAIN t.irrigation : t.irrigation[i] \in Plots
<1> DEFINE s == p.stages[p.entry]
           t == TickPlan(p, v)
<1>1. s \in Stages /\ StageIsSound(s) /\ p.entry \in StageIds
  BY DEF CoreAccepts, Plans
<1>2. /\ \A k \in Now(s) : s.actions[k] \in Drafts /\ ActionIsSound(s, s.actions[k])
      /\ \A k, l \in Now(s) : s.actions[k].crew = s.actions[l].crew => k = l
  BY <1>1, StartsAreSound
<1>3. /\ \A g \in t.generation :
           \E k \in Starts(s, {"generate"}) :
             g = [crew |-> s.actions[k].crew, amount |-> s.actions[k].amount]
      /\ \A o \in t.ops :
           \E k \in Starts(s, Field) :
             o = [order |-> k, crew |-> s.actions[k].crew, plot |-> s.actions[k].plot,
                  kind |-> s.actions[k].kind, crop |-> s.actions[k].crop]
      /\ \A x \in Assigned(t) : \E k \in Now(s) : x = Shown(s, k)
      /\ t.irrigation = s.irrigation
  BY <1>1, Translated
<1> HIDE DEF s, t
<1>4. ASSUME NEW g \in t.generation
      PROVE  g.crew \in Crew /\ g.amount \in Nat /\ g.amount <= MaxWork
  <2>1. PICK k \in Starts(s, {"generate"}) :
          g = [crew |-> s.actions[k].crew, amount |-> s.actions[k].amount]
    BY <1>3
  <2>2. k \in Now(s) /\ s.actions[k].kind = "generate"
    BY DEF Starts
  <2>3. /\ s.actions[k].crew \in Crew /\ s.actions[k].amount \in Nat
        /\ s.actions[k].amount <= Limit["generate"]
    BY <1>2, <2>2 DEF ActionIsSound, Drafts, Personal
  <2>4. Limit["generate"] \in Nat /\ MaxWork \in Nat /\ Limit["generate"] <= MaxWork
    BY ContractAssumption DEF Personal
  <2> QED
    BY <2>1, <2>3, <2>4
<1>5. ASSUME NEW x \in Assigned(t) PROVE x.crew \in Crew
  BY <1>1, <1>2, <1>3, ShownCrew DEF ActionIsSound
<1>6. ASSUME NEW x \in Assigned(t), NEW y \in Assigned(t), x.crew = y.crew PROVE x = y
  <2>1. PICK k \in Now(s) : x = Shown(s, k)
    BY <1>3
  <2>2. PICK l \in Now(s) : y = Shown(s, l)
    BY <1>3
  <2>3. s.actions[k].crew = s.actions[l].crew
    BY <1>1, <1>2, <1>6, <2>1, <2>2, ShownCrew
  <2> QED
    BY <1>2, <2>1, <2>2, <2>3
<1>7. ASSUME NEW o \in t.ops
      PROVE  o.plot \in Plots /\ (o.crop # None \/ o.kind = "plant" => o.crop \in Crops)
  <2>1. PICK k \in Starts(s, Field) :
          o = [order |-> k, crew |-> s.actions[k].crew, plot |-> s.actions[k].plot,
               kind |-> s.actions[k].kind, crop |-> s.actions[k].crop]
    BY <1>3
  <2>2. k \in Now(s) /\ s.actions[k].kind \in Field
    BY DEF Starts
  <2>3. s.actions[k].kind \notin Personal
    BY <2>2 DEF Field, Personal
  <2> QED
    BY <1>2, <2>1, <2>2, <2>3 DEF ActionIsSound
<1>8. \A o, q \in t.ops : o.order = q.order => o = q
  BY <1>3
<1>9. ~(Cardinality(Workers(t)) > Stations)
  <2> DEFINE f == [g \in Workers(t) |-> g.crew]
  <2>1. ASSUME NEW g \in Workers(t), NEW h \in Workers(t), g.crew = h.crew PROVE g = h
    <3>1. PICK k \in Starts(s, {"generate"}) :
            g = [crew |-> s.actions[k].crew, amount |-> s.actions[k].amount]
      BY <1>3 DEF Workers
    <3>2. PICK l \in Starts(s, {"generate"}) :
            h = [crew |-> s.actions[l].crew, amount |-> s.actions[l].amount]
      BY <1>3 DEF Workers
    <3>3. k = l
      BY <1>2, <2>1, <3>1, <3>2 DEF Starts
    <3> QED
      BY <3>1, <3>2, <3>3
  <2>2. f \in Injection(Workers(t), Crew)
    <3>1. f \in [Workers(t) -> Crew]
      BY <1>4 DEF Workers
    <3>2. \A g, h \in Workers(t) : f[g] = f[h] => g = h
      BY <2>1
    <3> QED
      BY <3>1, <3>2 DEF Injection, IsInjective
  <2>3. Cardinality(Workers(t)) <= Cardinality(Crew) /\ IsFiniteSet(Workers(t))
    BY <2>2, ContractAssumption, FS_Injection
  <2>4. Cardinality(Workers(t)) \in Nat /\ Cardinality(Crew) \in Nat
    BY <2>3, ContractAssumption, FS_CardinalityType
  <2> QED
    BY <2>3, <2>4, ContractAssumption
<1>10. ~Repeats(t.irrigation) /\ \A i \in DOMAIN t.irrigation : t.irrigation[i] \in Plots
  BY <1>1, <1>3 DEF StageIsSound
<1> QED
  BY <1>4, <1>5, <1>6, <1>7, <1>8, <1>9, <1>10 DEF t

\* The codes, one by one.
LEMMA RefusalCodes ==
  ASSUME NEW t
  PROVE  /\ Refused(t, "PLAN_STALE") <=> t.version # world.version
         /\ Refused(t, "WORLD_FAILED") <=> (world.failed = TRUE)
         /\ Refused(t, "CREW_UNKNOWN")
              <=> \E g \in Assigned(t) \cup t.generation : g.crew \notin Crew
         /\ Refused(t, "CREW_DEAD") <=> \E g \in Assigned(t) : g.crew \in Crew \ world.alive
         /\ Refused(t, "GENERATION_OUT_OF_RANGE")
              <=> \E g \in t.generation : g.amount > MaxWork
         /\ Refused(t, "GENERATION_STATION_FULL") <=> Cardinality(Workers(t)) > Stations
         /\ Refused(t, "PLOT_UNKNOWN")
              <=> \/ \E i \in DOMAIN t.irrigation : t.irrigation[i] \notin Plots
                  \/ \E o \in t.ops : o.plot \notin Plots
         /\ Refused(t, "IRRIGATION_PLOT_INVALID")
              <=> \E i \in DOMAIN t.irrigation : t.irrigation[i] \in Plots \ world.growing
         /\ Refused(t, "IRRIGATION_DUPLICATE") <=> Repeats(t.irrigation)
         /\ Refused(t, "CROP_UNKNOWN")
              <=> \E o \in t.ops : (o.crop # None \/ o.kind = "plant") /\ o.crop \notin Crops
         /\ Refused(t, "PLOT_ORDER_DUPLICATE") <=> \E o, q \in t.ops : o # q /\ o.order = q.order
         /\ Refused(t, "CREW_DOUBLE_BOOKED")
              <=> \E x, y \in Assigned(t) : x # y /\ x.crew = y.crew
BY DEF Refused

\* A plan the Core accepts is refused only for what the world is, for every crew and
\* greenhouse, every limit of the Core within the backend's, and plans of any length.
THEOREM TheContractsAgree == Spec => []OnlyTheWorldRefuses
<1>1. TypeOK => OnlyTheWorldRefuses
  <2> SUFFICES ASSUME TypeOK, CoreAccepts(plan, snapshot)
               PROVE  LET order == plan.stages[plan.entry].irrigation
                      IN BackendAccepts(TickPlan(plan, snapshot)) <=>
                           /\ world.version = snapshot
                           /\ ~world.failed
                           /\ \A i \in DOMAIN order : order[i] \in world.growing
    BY DEF OnlyTheWorldRefuses
  <2> DEFINE t == TickPlan(plan, snapshot)
             order == plan.stages[plan.entry].irrigation
  <2>1. plan \in Plans /\ plan.entry \in StageIds /\ t.version = snapshot /\ t.irrigation = order
    BY Translated DEF TypeOK, CoreAccepts
  <2>2. /\ \A g \in Assigned(t) \cup t.generation : g.crew \in Crew
        /\ \A g \in t.generation : g.amount \in Nat /\ g.amount <= MaxWork
        /\ ~(Cardinality(Workers(t)) > Stations)
        /\ \A o \in t.ops : /\ o.plot \in Plots
                            /\ o.crop # None \/ o.kind = "plant" => o.crop \in Crops
        /\ \A o, q \in t.ops : o.order = q.order => o = q
        /\ \A x, y \in Assigned(t) : x.crew = y.crew => x = y
        /\ ~Repeats(t.irrigation)
        /\ \A i \in DOMAIN t.irrigation : t.irrigation[i] \in Plots
    BY <2>1, PlanIsInOrder
  <2>3. world.failed \in BOOLEAN /\ (~world.failed => world.alive = Crew)
    BY DEF TypeOK, Worlds
  <2> HIDE DEF t, order
  <2>4. /\ ~Refused(t, "CREW_UNKNOWN") /\ ~Refused(t, "IRRIGATION_DUPLICATE")
        /\ ~Refused(t, "PLOT_UNKNOWN") /\ ~Refused(t, "CROP_UNKNOWN")
        /\ ~Refused(t, "PLOT_ORDER_DUPLICATE") /\ ~Refused(t, "CREW_DOUBLE_BOOKED")
    BY <2>2, RefusalCodes
  <2>5. ~Refused(t, "GENERATION_OUT_OF_RANGE") /\ ~Refused(t, "GENERATION_STATION_FULL")
    <3>1. Stations \in Nat /\ MaxWork \in Nat
      BY ContractAssumption
    <3>2. Workers(t) \subseteq t.generation
      BY DEF Workers
    <3>3. \A g \in t.generation : ~(g.amount > MaxWork)
      BY <2>2, <3>1
    <3> QED
      BY <2>2, <3>3, RefusalCodes
  <2>6. /\ Refused(t, "PLAN_STALE") <=> world.version # snapshot
        /\ Refused(t, "WORLD_FAILED") <=> world.failed
        /\ Refused(t, "CREW_DEAD") => world.failed
        /\ Refused(t, "IRRIGATION_PLOT_INVALID")
             <=> ~\A i \in DOMAIN order : order[i] \in world.growing
    BY <2>1, <2>2, <2>3, RefusalCodes
  <2>7. BackendAccepts(t) <=> /\ ~Refused(t, "PLAN_STALE") /\ ~Refused(t, "WORLD_FAILED")
                              /\ ~Refused(t, "CREW_DEAD")
                              /\ ~Refused(t, "IRRIGATION_PLOT_INVALID")
    BY <2>4, <2>5 DEF BackendAccepts, Codes
  <2> QED
    BY <2>6, <2>7 DEF t, order
<1> QED
  BY <1>1, TypesInit, TypesStep, PTL DEF Spec

=============================================================================
