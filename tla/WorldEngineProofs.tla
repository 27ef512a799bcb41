------------------------- MODULE WorldEngineProofs -------------------------
(* What holds of WorldEngine, of what agents accept of its worlds (Snapshot)  *)
(* and of the forecast beside it (PlanAudit), for every crew, every           *)
(* greenhouse and all rates.                                                  *)
EXTENDS Snapshot, PlanAudit, FiniteSetTheorems, TLAPS

-----------------------------------------------------------------------------
(* Arithmetic and the values a step writes.                                *)

Bodies == [Crew -> [Supplies -> Nat]]
Stocks == [Resources -> Nat]

LEMMA TimesType == ASSUME NEW a \in Nat, NEW b \in Nat PROVE a * b \in Nat
OBVIOUS

LEMMA LessType ==
  ASSUME NEW a \in Nat, NEW b \in Nat
  PROVE  Less(a, b) \in Nat /\ Less(a, b) <= a
BY DEF Less

LEMMA SmallerType ==
  ASSUME NEW a \in Nat, NEW b \in Nat
  PROVE  /\ Smaller(a, b) \in Nat
         /\ Smaller(a, b) <= a /\ Smaller(a, b) <= b
         /\ b <= a => Smaller(a, b) = b
BY DEF Smaller

LEMMA SmallestType ==
  ASSUME NEW a \in Nat, NEW b \in Nat, NEW c \in Nat
  PROVE  /\ Smallest(a, b, c) \in Nat
         /\ Smallest(a, b, c) <= a /\ Smallest(a, b, c) <= b /\ Smallest(a, b, c) <= c
         /\ Smallest(a, b, c) \in {a, b, c}
BY DEF Smallest, Smaller

\* What a division rounds down, multiplied back.
LEMMA Quotient ==
  ASSUME NEW a \in Nat, NEW b \in Nat \ {0}
  PROVE  a \div b \in Nat /\ (a \div b) * b <= a
OBVIOUS

LEMMA TimesGrows ==
  ASSUME NEW m \in Nat, NEW n \in Nat, NEW c \in Nat, m <= n
  PROVE  m * c <= n * c
OBVIOUS

LEMMA RoomType ==
  ASSUME TypeOK, NEW r \in Resources, NEW n \in Nat, n <= Room(r), StockFits
  PROVE  stock[r] + pending[r] + n <= Capacity[r]
<1>1. Capacity[r] \in Nat /\ stock[r] \in Nat /\ pending[r] \in Nat
  BY AmountsAssumption DEF TypeOK
<1>2. stock[r] + pending[r] <= Capacity[r]
  BY DEF StockFits
<1> QED
  BY <1>1, <1>2 DEF Room, Less

LEMMA FreshType == ASSUME NEW c \in Crops \cup {NoCrop} PROVE Fresh(c) \in PlotStates
BY DEF Fresh, PlotStates

LEMMA LivingCount == TypeOK => Cardinality(alive) \in Nat
BY CrewAssumption, FS_Subset, FS_CardinalityType DEF TypeOK

\* check_deaths keeps the tie between deaths, failure and supplies.
LEMMA DeathsChecked ==
  ASSUME TypeOK, LivingAreSupplied, NEW b \in Bodies, NEW s \in Stocks, CheckDeaths(b, s)
  PROVE  /\ stock' = s /\ body' = b
         /\ alive' \subseteq Crew /\ failed' \in BOOLEAN
         /\ LivingAreSupplied'
<1> DEFINE dying == {i \in alive : s["oxygen"] = 0 \/ \E k \in Supplies : b[i][k] = 0}
<1>1. /\ stock' = s /\ body' = b
      /\ alive' = alive \ dying
      /\ failed' = (failed \/ dying # {})
  BY DEF CheckDeaths
<1>2. alive \subseteq Crew /\ failed \in BOOLEAN /\ failed = (alive # Crew)
  BY DEF TypeOK, LivingAreSupplied
<1>3. alive' \subseteq Crew /\ failed' \in BOOLEAN
  BY <1>1, <1>2
<1>4. failed' = (alive' # Crew)
  BY <1>1, <1>2
<1>5. ASSUME ~failed'
      PROVE  /\ stock'["oxygen"] > 0
             /\ \A i \in Crew, k \in Supplies : body'[i][k] > 0
  <2>1. dying = {} /\ alive = Crew
    BY <1>1, <1>2, <1>5
  <2>2. ASSUME NEW i \in Crew
        PROVE  s["oxygen"] # 0 /\ \A k \in Supplies : b[i][k] # 0
    <3>1. i \in alive /\ i \notin dying
      BY <2>1
    <3> QED
      BY <3>1
  <2>3. s["oxygen"] \in Nat /\ \A i \in Crew, k \in Supplies : b[i][k] \in Nat
    BY DEF Bodies, Stocks, Resources
  <2>4. PICK j \in Crew : TRUE
    BY CrewAssumption
  <2>5. s["oxygen"] > 0
    BY <2>2, <2>3, <2>4
  <2>6. ASSUME NEW i \in Crew, NEW k \in Supplies PROVE b[i][k] > 0
    BY <2>2, <2>3
  <2> QED
    BY <1>1, <2>5, <2>6
<1> QED
  BY <1>1, <1>3, <1>4, <1>5 DEF LivingAreSupplied

-----------------------------------------------------------------------------
(* The inductive invariant.  Production looks at the stock only, and not at *)
(* what is pending: that it stays within the capacity depends on nothing   *)
(* ever being pending for what is produced at once.                        *)

NothingElsePends == pending["water"] = 0 /\ pending["power"] = 0

Inv == TypeOK /\ StockFits /\ NothingElsePends /\ LivingAreSupplied /\ PlotsSound

LEMMA StateTypes ==
  ASSUME Inv
  PROVE  /\ tick \in Nat /\ stock \in Stocks /\ pending \in Stocks /\ body \in Bodies
         /\ alive \subseteq Crew /\ busy \subseteq Crew /\ due \subseteq Crew \X Supplies
         /\ phase \in Phases
         /\ \A r \in Resources : /\ stock[r] \in Nat /\ pending[r] \in Nat
                                 /\ Capacity[r] \in Nat
                                 /\ stock[r] + pending[r] <= Capacity[r]
         /\ \A i \in Crew, k \in Supplies : /\ body[i][k] \in Nat
                                            /\ body[i][k] <= BodyCapacity[k]
BY AmountsAssumption DEF Inv, TypeOK, StockFits, Stocks, Bodies

\* What clearing, harvesting or planting leaves is in order.
LEMMA FreshSound ==
  ASSUME NEW p \in Plots, NEW c \in Crops \cup {NoCrop}, plots[p] = Fresh(c)
  PROVE  LET plot == plots[p]
         IN /\ plot.crop = NoCrop => plot = Fresh(NoCrop)
            /\ plot.crop # NoCrop => plot.progress <= Maturity[plot.crop]
            /\ plot.mature = (Grows(p) /\ plot.progress = Maturity[plot.crop])
<1>1. /\ plots[p].crop = c /\ plots[p].progress = 0
      /\ plots[p].mature = FALSE /\ plots[p].dead = FALSE
  BY DEF Fresh
<1>2. c # NoCrop => Maturity[c] \in Nat /\ 0 < Maturity[c]
  BY CropsAssumption
<1>3. c # NoCrop => ~(plots[p].progress = Maturity[c])
  BY <1>1, <1>2
<1>4. plots[p].mature = (Grows(p) /\ plots[p].progress = Maturity[plots[p].crop])
  BY <1>1, <1>3 DEF Grows
<1>5. plots[p].crop = NoCrop => plots[p] = Fresh(NoCrop)
  BY <1>1
<1>6. plots[p].crop # NoCrop => plots[p].progress <= Maturity[plots[p].crop]
  BY <1>1, <1>2
<1> QED
  BY <1>4, <1>5, <1>6

LEMMA InvInit == Init => Inv
<1> SUFFICES ASSUME Init PROVE Inv
  OBVIOUS
<1>1. TypeOK
  <2>1. body \in Bodies /\ \A i \in Crew, k \in Supplies : body[i][k] <= BodyCapacity[k]
    BY AmountsAssumption DEF Init, Bodies
  <2>2. plots \in [Plots -> PlotStates]
    BY CropsAssumption, FreshType DEF Init
  <2> QED
    BY <2>1, <2>2, AmountsAssumption DEF Init, TypeOK, Bodies, Phases
<1>2. StockFits
  BY AmountsAssumption DEF Init, StockFits
<1>3. LivingAreSupplied
  BY AmountsAssumption DEF Init, LivingAreSupplied
<1>4. PlotsSound
  <2> SUFFICES ASSUME NEW p \in Plots
               PROVE  LET plot == plots[p]
                      IN /\ plot.crop = NoCrop => plot = Fresh(NoCrop)
                         /\ plot.crop # NoCrop => plot.progress <= Maturity[plot.crop]
                         /\ plot.mature = (Grows(p) /\ plot.progress = Maturity[plot.crop])
    BY DEF PlotsSound
  <2>1. plots[p] = Fresh(StartCrop[p]) /\ StartCrop[p] \in Crops \cup {NoCrop}
    BY CropsAssumption DEF Init
  <2> QED
    BY <2>1, FreshSound
<1>5. NothingElsePends
  BY DEF Init, NothingElsePends, Resources
<1> QED
  BY <1>1, <1>2, <1>3, <1>4, <1>5 DEF Inv

\* A step that ends in check_deaths and leaves the plots alone.
LEMMA DeathsStep ==
  ASSUME Inv, NEW b \in Bodies, NEW s \in Stocks, CheckDeaths(b, s),
         \A i \in Crew, k \in Supplies : b[i][k] <= BodyCapacity[k],
         pending' \in Stocks,
         \A r \in Resources : s[r] + pending'[r] <= Capacity[r],
         NothingElsePends',
         plots' = plots, irrigated' = irrigated, wet' = wet, attempted' = attempted,
         tick' \in Nat, phase' \in Phases,
         busy' \subseteq Crew, due' \subseteq Crew \X Supplies
  PROVE  Inv'
<1>1. /\ stock' = s /\ body' = b
      /\ alive' \subseteq Crew /\ failed' \in BOOLEAN
      /\ LivingAreSupplied'
  BY DeathsChecked DEF Inv
<1>2. TypeOK'
  BY <1>1 DEF Inv, TypeOK, Bodies, Stocks
<1>3. StockFits'
  BY <1>1 DEF StockFits
<1>4. PlotsSound'
  BY DEF Inv, PlotsSound, Grows
<1> QED
  BY <1>1, <1>2, <1>3, <1>4 DEF Inv

LEMMA ProceedType ==
  ASSUME NEW next \in Phases, Proceed(next)
  PROVE  phase' \in Phases
BY DEF Proceed, Phases

LEMMA InvBegin == Inv /\ Begin => Inv'
<1> SUFFICES ASSUME Inv, Begin PROVE Inv'
  OBVIOUS
<1> DEFINE s == [r \in Resources |-> Smaller(Capacity[r], stock[r] + pending[r])]
<1>1. \A r \in Resources : s[r] \in Nat /\ s[r] <= Capacity[r] /\ Capacity[r] \in Nat
  <2> TAKE r \in Resources
  <2>1. Capacity[r] \in Nat /\ stock[r] + pending[r] \in Nat
    BY StateTypes
  <2> QED
    BY <2>1, SmallerType
<1>2. pending' = [r \in Resources |-> 0] /\ CheckDeaths(body, s) /\ Proceed("refill")
  BY DEF Begin
<1>3. s \in Stocks /\ pending' \in Stocks
  BY <1>1, <1>2 DEF Stocks
<1>4. \A r \in Resources : s[r] + pending'[r] <= Capacity[r]
  BY <1>1, <1>2
<1>5. phase' \in Phases /\ NothingElsePends'
  BY <1>2, ProceedType DEF Phases, NothingElsePends, Resources
<1> HIDE DEF s
<1>6. /\ plots' = plots /\ irrigated' = irrigated /\ wet' = wet /\ attempted' = attempted
      /\ tick' \in Nat /\ busy' \subseteq Crew /\ due' \subseteq Crew \X Supplies
  BY StateTypes DEF Begin
<1> QED
  BY <1>2, <1>3, <1>4, <1>5, <1>6, DeathsStep, StateTypes

\* What a refill brings fits the store and the body.
LEMMA RefillFits ==
  ASSUME Inv, NEW i \in Crew, NEW k \in Supplies, NEW request \in Nat
  PROVE  LET give == Smallest(request, stock[k], BodyCapacity[k] - body[i][k])
         IN give \in Nat /\ give <= stock[k] /\ body[i][k] + give <= BodyCapacity[k]
<1>1. /\ stock[k] \in Nat /\ body[i][k] \in Nat /\ BodyCapacity[k] \in Nat
      /\ body[i][k] <= BodyCapacity[k]
  BY StateTypes, AmountsAssumption DEF Supplies, Resources
<1> DEFINE room == BodyCapacity[k] - body[i][k]
<1>2. room \in Nat
  BY <1>1
<1>3. LET give == Smallest(request, stock[k], room)
      IN give \in Nat /\ give <= stock[k] /\ give <= room
  BY <1>1, <1>2, SmallestType
<1> QED
  BY <1>1, <1>3

LEMMA InvRefilling ==
  ASSUME Inv, NEW i \in alive \ busy, NEW k \in Supplies, NEW request \in 0 .. RefillMax[k],
         Refilling(i, k, request)
  PROVE  Inv'
<1> DEFINE actual == Smallest(request, stock[k], BodyCapacity[k] - body[i][k])
<1>1. i \in Crew /\ request \in Nat
  BY AmountsAssumption DEF Inv, TypeOK
<1>2. /\ actual \in Nat /\ actual <= stock[k] /\ body[i][k] + actual <= BodyCapacity[k]
      /\ stock' = [stock EXCEPT ![k] = @ - actual]
      /\ body' = [body EXCEPT ![i][k] = @ + actual]
      /\ busy' = busy \cup {i}
  BY <1>1, RefillFits DEF Refilling
<1> HIDE DEF actual
<1>3. /\ i \in Crew /\ k \in Resources
      /\ stock \in Stocks /\ body \in Bodies /\ pending \in Stocks
  BY DEF Inv, TypeOK, Supplies, Resources, Stocks, Bodies
<1>4. actual \in Nat /\ actual <= stock[k]
  BY <1>2
<1>5. /\ stock' \in Stocks
      /\ \A r \in Resources : stock'[r] <= stock[r]
      /\ stock'["oxygen"] = stock["oxygen"]
  BY <1>2, <1>3, <1>4 DEF Stocks, Supplies, Resources
<1>6. /\ body' \in Bodies
      /\ \A j \in Crew, l \in Supplies : /\ body'[j][l] >= body[j][l]
                                       /\ body'[j][l] <= BodyCapacity[l]
  <2>1. body' = [body EXCEPT ![i] = [body[i] EXCEPT ![k] = body[i][k] + actual]]
    BY <1>2
  <2>2. [body[i] EXCEPT ![k] = body[i][k] + actual] \in [Supplies -> Nat]
    BY <1>3, <1>4 DEF Bodies
  <2>3. \A j \in Crew, l \in Supplies :
          body'[j][l] = IF j = i /\ l = k THEN body[i][k] + actual ELSE body[j][l]
    BY <2>1, <1>3 DEF Bodies
  <2>4. \A j \in Crew, l \in Supplies : body[j][l] \in Nat /\ body[j][l] <= BodyCapacity[l]
    BY DEF Inv, TypeOK
  <2> QED
    BY <2>1, <2>2, <2>3, <2>4, <1>2, <1>3, <1>4 DEF Bodies
<1>7. TypeOK'
  BY <1>2, <1>3, <1>5, <1>6 DEF Inv, TypeOK, Refilling, fieldVars, Stocks, Bodies
<1>8. StockFits'
  <2>1. \A r \in Resources : /\ stock[r] \in Nat /\ stock'[r] \in Nat /\ pending[r] \in Nat
                            /\ Capacity[r] \in Nat
    BY <1>3, <1>5, AmountsAssumption DEF Stocks
  <2> QED
    BY <2>1, <1>5 DEF Inv, StockFits, Refilling, fieldVars
<1>9. LivingAreSupplied'
  <2>1. \A j \in Crew, l \in Supplies : body[j][l] \in Nat /\ body'[j][l] \in Nat
    BY <1>3, <1>6 DEF Bodies
  <2> QED
    BY <2>1, <1>5, <1>6 DEF Inv, LivingAreSupplied, Refilling
<1>10. PlotsSound'
  BY DEF Inv, PlotsSound, Grows, Refilling, fieldVars
<1>11. NothingElsePends'
  BY DEF Inv, NothingElsePends, Refilling, fieldVars
<1> QED
  BY <1>7, <1>8, <1>9, <1>10, <1>11 DEF Inv

LEMMA InvRefill == Inv /\ Refill => Inv'
BY InvRefilling DEF Refill

\* A step that touches neither the world nor its plots.
LEMMA InvQuiet ==
  ASSUME Inv, UNCHANGED <<tick, stock, pending, body, alive, failed, plots, wet>>,
         phase' \in Phases, busy' \subseteq Crew, due' \subseteq Crew \X Supplies,
         attempted' \subseteq Plots, irrigated' \subseteq Plots
  PROVE  Inv'
BY DEF Inv, TypeOK, StockFits, NothingElsePends, LivingAreSupplied, PlotsSound, Grows

LEMMA InvRefillsDone == Inv /\ RefillsDone => Inv'
<1> SUFFICES ASSUME Inv, RefillsDone PROVE Inv'
  OBVIOUS
<1>1. phase' \in Phases /\ due' \subseteq Crew \X Supplies
  BY DEF RefillsDone, Phases, Inv, TypeOK
<1> QED
  BY <1>1, InvQuiet DEF RefillsDone, fieldVars, Inv, TypeOK

LEMMA InvConsume == Inv /\ Consume => Inv'
<1> SUFFICES ASSUME Inv, Consume PROVE Inv'
  OBVIOUS
<1>1. PICK i \in Crew, k \in Supplies :
        /\ CheckDeaths([body EXCEPT ![i][k] = Less(@, Need[k])], stock)
        /\ due' = due \ {<<i, k>>}
  BY DEF Consume
<1> DEFINE b == [body EXCEPT ![i] = [body[i] EXCEPT ![k] = Less(body[i][k], Need[k])]]
<1>2. [body EXCEPT ![i][k] = Less(@, Need[k])] = b
  OBVIOUS
<1>3. Less(body[i][k], Need[k]) \in Nat /\ Less(body[i][k], Need[k]) <= body[i][k]
  BY StateTypes, LessType, AmountsAssumption
<1>4. \A j \in Crew, l \in Supplies :
        b[j][l] = IF j = i /\ l = k THEN Less(body[i][k], Need[k]) ELSE body[j][l]
  BY StateTypes DEF Bodies
<1>5. b \in Bodies
  <2>1. [body[i] EXCEPT ![k] = Less(body[i][k], Need[k])] \in [Supplies -> Nat]
    BY <1>3, StateTypes DEF Bodies
  <2> QED
    BY <2>1, StateTypes DEF Bodies
<1>6. \A j \in Crew, l \in Supplies : b[j][l] <= BodyCapacity[l]
  BY <1>3, <1>4, StateTypes, AmountsAssumption
<1>7. CheckDeaths(b, stock)
  BY <1>1, <1>2
<1> HIDE DEF b
<1>8. phase' \in Phases
  BY ProceedType DEF Consume, Phases
<1>9. /\ pending' = pending /\ plots' = plots /\ irrigated' = irrigated /\ wet' = wet
      /\ attempted' = attempted /\ tick' = tick /\ busy' = busy
      /\ due' \subseteq Crew \X Supplies
  BY <1>1, StateTypes DEF Consume, fieldVars
<1>10. NothingElsePends'
  BY <1>9 DEF Inv, NothingElsePends
<1> QED
  BY <1>5, <1>6, <1>7, <1>8, <1>9, <1>10, DeathsStep, StateTypes

\* A step of production or breathing: bodies lose, the stock s has room for what pends.
LEMMA ProductionStep ==
  ASSUME Inv, NEW b \in Bodies, NEW s \in Stocks, CheckDeaths(b, s),
         \A i \in Crew, k \in Supplies : b[i][k] <= body[i][k],
         \A r \in {"oxygen", "food"} : s[r] <= stock[r],
         \A r \in {"water", "power"} : s[r] <= Capacity[r],
         UNCHANGED <<tick, due, fieldVars>>, phase' \in Phases, busy' \subseteq Crew
  PROVE  Inv'
<1>1. \A i \in Crew, k \in Supplies : b[i][k] <= BodyCapacity[k]
  BY StateTypes, AmountsAssumption DEF Bodies
<1>2. \A r \in Resources : s[r] + pending'[r] <= Capacity[r]
  <2>1. /\ pending' = pending /\ pending["water"] = 0 /\ pending["power"] = 0
        /\ \A r \in Resources : s[r] \in Nat
    BY DEF fieldVars, Inv, NothingElsePends, Stocks
  <2> QED
    BY <2>1, StateTypes DEF Resources
<1>3. NothingElsePends'
  BY DEF fieldVars, Inv, NothingElsePends
<1>4. /\ pending' = pending /\ plots' = plots /\ irrigated' = irrigated /\ wet' = wet
      /\ attempted' = attempted /\ tick' = tick /\ due' = due
  BY DEF fieldVars
<1> QED
  BY <1>1, <1>2, <1>3, <1>4, DeathsStep, StateTypes

LEMMA InvBreathe == Inv /\ Breathe => Inv'
<1> SUFFICES ASSUME Inv, Breathe PROVE Inv'
  OBVIOUS
<1> DEFINE breath == Breath * Cardinality(alive)
           s == [stock EXCEPT !["oxygen"] = Less(@, breath)]
<1>1. breath \in Nat
  BY LivingCount, TimesType, RatesAssumption DEF Inv
<1> HIDE DEF breath
<1>2. Less(stock["oxygen"], breath) \in Nat /\ Less(stock["oxygen"], breath) <= stock["oxygen"]
  BY <1>1, LessType, StateTypes DEF Resources
<1>3. s \in Stocks /\ \A r \in Resources : s[r] <= stock[r]
  BY <1>2, StateTypes DEF Stocks, Resources
<1>4. \A r \in Resources : s[r] <= Capacity[r]
  BY <1>3, StateTypes DEF Stocks
<1>5. CheckDeaths(body, s)
  BY DEF Breathe, breath
<1> HIDE DEF s
<1>6. phase' \in Phases /\ busy' \subseteq Crew /\ UNCHANGED <<tick, due, fieldVars>>
  BY ProceedType, StateTypes DEF Breathe, Phases
<1> QED
  BY <1>3, <1>4, <1>5, <1>6, ProductionStep, StateTypes DEF Resources

\* The whole work stays within what was asked for, the oxygen and the room for power.
LEMMA WorkFits ==
  ASSUME NEW s \in Stocks, s["power"] <= Capacity["power"], NEW total \in Nat
  PROVE  LET actual == TotalWork(s, total)
         IN /\ actual \in Nat /\ actual <= total
            /\ actual * OxygenPerWork <= s["oxygen"]
            /\ s["power"] + actual * PowerPerWork <= Capacity["power"]
<1> DEFINE oxygen == s["oxygen"]
           room == Capacity["power"] - s["power"]
           actual == TotalWork(s, total)
<1>1. oxygen \in Nat /\ room \in Nat /\ s["power"] \in Nat /\ Capacity["power"] \in Nat
  BY AmountsAssumption DEF Stocks, Resources
<1>2. OxygenPerWork \in Nat \ {0} /\ PowerPerWork \in Nat \ {0}
  BY RatesAssumption
<1> HIDE DEF oxygen, room
<1>3. /\ oxygen \div OxygenPerWork \in Nat /\ room \div PowerPerWork \in Nat
      /\ (oxygen \div OxygenPerWork) * OxygenPerWork <= oxygen
      /\ (room \div PowerPerWork) * PowerPerWork <= room
  BY <1>1, <1>2, Quotient
<1>4. /\ actual \in Nat /\ actual <= total
      /\ actual <= oxygen \div OxygenPerWork /\ actual <= room \div PowerPerWork
  BY <1>3, SmallestType DEF TotalWork, oxygen, room
<1> HIDE DEF actual
<1>5. actual * OxygenPerWork <= oxygen
  <2>1. actual * OxygenPerWork <= (oxygen \div OxygenPerWork) * OxygenPerWork
    BY <1>2, <1>3, <1>4, TimesGrows
  <2> QED
    BY <2>1, <1>1, <1>2, <1>3, <1>4, TimesType
<1>6. actual * PowerPerWork <= room
  <2>1. actual * PowerPerWork <= (room \div PowerPerWork) * PowerPerWork
    BY <1>2, <1>3, <1>4, TimesGrows
  <2> QED
    BY <2>1, <1>1, <1>2, <1>3, <1>4, TimesType
<1>7. s["power"] + actual * PowerPerWork <= Capacity["power"]
  <2>1. actual * PowerPerWork \in Nat
    BY <1>2, <1>4, TimesType
  <2> QED
    BY <2>1, <1>1, <1>6 DEF room
<1> QED
  BY <1>4, <1>5, <1>7 DEF actual, oxygen

\* The caps, where the food is known.
LEMMA CapsType ==
  ASSUME NEW b \in Bodies, NEW workers \in SUBSET Crew, NEW requests \in [workers -> 1 .. MaxWork]
  PROVE  Caps(b, requests) \in [workers -> 0 .. MaxWork]
<1> SUFFICES ASSUME NEW i \in workers
             PROVE  Smaller(requests[i], b[i]["food"] \div EnergyPerWork) \in 0 .. MaxWork
  BY DEF Caps
<1>1. requests[i] \in Nat /\ requests[i] <= MaxWork /\ MaxWork \in Nat
  BY RatesAssumption
<1>2. b[i]["food"] \in Nat /\ EnergyPerWork \in Nat \ {0}
  BY RatesAssumption DEF Bodies, Supplies
<1>3. b[i]["food"] \div EnergyPerWork \in Nat
  BY <1>2, Quotient
<1> QED
  BY <1>1, <1>3, SmallerType

LEMMA InvGenerating ==
  ASSUME Inv, NEW workers \in Workers, NEW requests \in [workers -> 1 .. MaxWork],
         NEW work \in [workers -> 0 .. MaxWork], NEW total \in 0 .. MaxWork * Stations,
         Generating(requests, work, total)
  PROVE  Inv'
<1> DEFINE actual == TotalWork(stock, total)
<1>1. total \in Nat
  BY TimesType, RatesAssumption
<1>2. /\ actual \in Nat /\ stock["power"] + actual * PowerPerWork <= Capacity["power"]
      /\ CheckDeaths([i \in Crew |->
                         IF i \in workers
                         THEN [body[i] EXCEPT !["food"] = Less(@, work[i] * EnergyPerWork)]
                         ELSE body[i]],
                      [stock EXCEPT !["oxygen"] = Less(@, actual * OxygenPerWork),
                                    !["power"] = @ + actual * PowerPerWork])
      /\ busy' = busy \cup workers
  <2>1. stock \in Stocks /\ stock["power"] <= Capacity["power"]
    BY StateTypes DEF Resources
  <2>2. DOMAIN requests = workers /\ DOMAIN work = workers
    OBVIOUS
  <2> QED
    BY <1>1, <2>1, <2>2, WorkFits DEF Generating, Worked
<1> HIDE DEF actual
<1> DEFINE b == [i \in Crew |->
                   IF i \in workers
                   THEN [body[i] EXCEPT !["food"] = Less(@, work[i] * EnergyPerWork)]
                   ELSE body[i]]
           breath == actual * OxygenPerWork
           power == actual * PowerPerWork
           s == [stock EXCEPT !["oxygen"] = Less(@, breath), !["power"] = @ + power]
<1>3. CheckDeaths(b, s)
  BY <1>2
<1>4. actual \in Nat /\ breath \in Nat /\ power \in Nat
  BY <1>2, TimesType, RatesAssumption
<1>5. stock["power"] + power <= Capacity["power"]
  BY <1>2
<1> HIDE DEF breath, power
<1>6. Less(stock["oxygen"], breath) \in Nat /\ Less(stock["oxygen"], breath) <= stock["oxygen"]
  BY <1>4, LessType, StateTypes DEF Resources
<1>7. /\ s \in Stocks
      /\ \A r \in {"oxygen", "food"} : s[r] <= stock[r]
      /\ \A r \in {"water", "power"} : s[r] <= Capacity[r]
  <2>1. s = [r \in Resources |-> IF r = "oxygen" THEN Less(stock["oxygen"], breath)
                                ELSE IF r = "power" THEN stock["power"] + power
                                ELSE stock[r]]
    BY StateTypes DEF Stocks, Resources
  <2>2. stock["power"] + power \in Nat
    BY <1>4, StateTypes DEF Resources
  <2>3. /\ s["oxygen"] = Less(stock["oxygen"], breath) /\ s["power"] = stock["power"] + power
        /\ s["water"] = stock["water"] /\ s["food"] = stock["food"]
    BY <2>1 DEF Resources
  <2>4. s \in Stocks
    BY <2>1, <2>2, <1>6, StateTypes DEF Stocks
  <2> HIDE DEF s
  <2>5. stock["food"] <= stock["food"] /\ stock["water"] <= Capacity["water"]
    BY StateTypes DEF Resources
  <2> QED
    BY <2>3, <2>4, <2>5, <1>5, <1>6
<1>8. \A i \in Crew : /\ b[i] \in [Supplies -> Nat]
                     /\ \A k \in Supplies : b[i][k] <= body[i][k]
  <2> SUFFICES ASSUME NEW i \in Crew
               PROVE  b[i] \in [Supplies -> Nat] /\ \A k \in Supplies : b[i][k] <= body[i][k]
    OBVIOUS
  <2>1. CASE i \notin workers
    BY <2>1, StateTypes DEF Bodies
  <2>2. CASE i \in workers
    <3> DEFINE cost == work[i] * EnergyPerWork
    <3>1. work[i] \in Nat
      BY <2>2, RatesAssumption
    <3>2. cost \in Nat
      BY <3>1, TimesType, RatesAssumption
    <3>3. b[i] = [body[i] EXCEPT !["food"] = Less(@, cost)]
      BY <2>2
    <3> HIDE DEF cost, b
    <3>4. Less(body[i]["food"], cost) \in Nat /\ Less(body[i]["food"], cost) <= body[i]["food"]
      BY <3>2, LessType, StateTypes DEF Supplies
    <3>5. body[i] \in [Supplies -> Nat]
      BY StateTypes DEF Bodies
    <3> QED
      BY <3>3, <3>4, <3>5 DEF Supplies
  <2> QED
    BY <2>1, <2>2
<1>9. b \in Bodies
  BY <1>8 DEF Bodies
<1> HIDE DEF b, s
<1>10. /\ phase' \in Phases /\ busy' \subseteq Crew /\ UNCHANGED <<tick, due, fieldVars>>
  BY <1>2, ProceedType, StateTypes DEF Generating, Phases, Workers
<1> QED
  BY <1>3, <1>7, <1>8, <1>9, <1>10, ProductionStep

LEMMA InvGenerate == Inv /\ Generate => Inv'
<1>1. ASSUME Inv, NoWork PROVE Inv'
  <2>1. /\ phase' \in Phases /\ busy' \subseteq Crew /\ due' \subseteq Crew \X Supplies
        /\ attempted' \subseteq Plots /\ irrigated' \subseteq Plots
    BY <1>1 DEF NoWork, fieldVars, Phases, Inv, TypeOK
  <2> QED
    BY <1>1, <2>1, InvQuiet DEF NoWork, fieldVars
<1> QED
  BY <1>1, InvGenerating DEF Generate

\* What is made of a request stays within the power, the oxygen and the room.
LEMMA LitresFit ==
  ASSUME NEW s \in Stocks, s["water"] <= Capacity["water"], NEW request \in Nat
  PROVE  LET made == Litres(s, request)
         IN /\ made \in Nat /\ made <= request
            /\ made * PowerPerLitre <= s["power"]
            /\ made * OxygenPerLitre <= s["oxygen"]
            /\ s["water"] + made <= Capacity["water"]
<1> DEFINE oxygen == s["oxygen"]
           power == s["power"]
           room == Capacity["water"] - s["water"]
           made == Litres(s, request)
<1>1. /\ oxygen \in Nat /\ power \in Nat /\ room \in Nat
      /\ s["water"] \in Nat /\ Capacity["water"] \in Nat
  BY AmountsAssumption DEF Stocks, Resources
<1>2. OxygenPerLitre \in Nat \ {0} /\ PowerPerLitre \in Nat \ {0}
  BY RatesAssumption
<1> HIDE DEF oxygen, power, room
<1>3. /\ oxygen \div OxygenPerLitre \in Nat /\ power \div PowerPerLitre \in Nat
      /\ (oxygen \div OxygenPerLitre) * OxygenPerLitre <= oxygen
      /\ (power \div PowerPerLitre) * PowerPerLitre <= power
  BY <1>1, <1>2, Quotient
<1>4. /\ Smaller(request, power \div PowerPerLitre) \in Nat
      /\ Smaller(request, power \div PowerPerLitre) <= request
      /\ Smaller(request, power \div PowerPerLitre) <= power \div PowerPerLitre
  BY <1>3, SmallerType
<1>5. /\ made \in Nat
      /\ made <= Smaller(request, power \div PowerPerLitre)
      /\ made <= oxygen \div OxygenPerLitre /\ made <= room
  BY <1>1, <1>3, <1>4, SmallestType DEF Litres, oxygen, power, room
<1> HIDE DEF made
<1>6. made <= request /\ made <= power \div PowerPerLitre
  BY <1>3, <1>4, <1>5
<1>7. made * OxygenPerLitre <= oxygen
  <2>1. made * OxygenPerLitre <= (oxygen \div OxygenPerLitre) * OxygenPerLitre
    BY <1>2, <1>3, <1>5, TimesGrows
  <2> QED
    BY <2>1, <1>1, <1>2, <1>3, <1>5, TimesType
<1>8. made * PowerPerLitre <= power
  <2>1. made * PowerPerLitre <= (power \div PowerPerLitre) * PowerPerLitre
    BY <1>2, <1>3, <1>5, <1>6, TimesGrows
  <2> QED
    BY <2>1, <1>1, <1>2, <1>3, <1>5, TimesType
<1>9. s["water"] + made <= Capacity["water"]
  BY <1>1, <1>5 DEF room
<1> QED
  BY <1>5, <1>6, <1>7, <1>8, <1>9 DEF made, oxygen, power

LEMMA InvProduceWater == Inv /\ ProduceWater => Inv'
<1> SUFFICES ASSUME Inv, ProduceWater PROVE Inv'
  OBVIOUS
<1>0. PICK request \in 0 .. MaxLitres : Producing(request)
  BY DEF ProduceWater
<1> DEFINE actual == Litres(stock, request)
<1>1. /\ actual \in Nat
      /\ actual * PowerPerLitre <= stock["power"]
      /\ stock["water"] + actual <= Capacity["water"]
      /\ CheckDeaths(body, [stock EXCEPT !["power"] = @ - actual * PowerPerLitre,
                                         !["oxygen"] = Less(@, actual * OxygenPerLitre),
                                         !["water"] = @ + actual])
  <2>1. request \in Nat
    BY RatesAssumption
  <2>2. stock \in Stocks /\ stock["water"] <= Capacity["water"]
    BY StateTypes DEF Resources
  <2> QED
    BY <1>0, <2>1, <2>2, LitresFit DEF Producing
<1> HIDE DEF actual
<1> DEFINE breath == actual * OxygenPerLitre
           power == actual * PowerPerLitre
           s == [stock EXCEPT !["power"] = @ - power, !["oxygen"] = Less(@, breath),
                              !["water"] = @ + actual]
<1>2. CheckDeaths(body, s)
  BY <1>1
<1>3. actual \in Nat /\ breath \in Nat /\ power \in Nat /\ power <= stock["power"]
  BY <1>1, TimesType, RatesAssumption
<1> HIDE DEF breath, power
<1>4. Less(stock["oxygen"], breath) \in Nat /\ Less(stock["oxygen"], breath) <= stock["oxygen"]
  BY <1>3, LessType, StateTypes DEF Resources
<1>5. s = [r \in Resources |-> IF r = "oxygen" THEN Less(stock["oxygen"], breath)
                              ELSE IF r = "power" THEN stock["power"] - power
                              ELSE IF r = "water" THEN stock["water"] + actual
                              ELSE stock[r]]
  BY StateTypes DEF Stocks, Resources
<1>6. /\ s["oxygen"] = Less(stock["oxygen"], breath) /\ s["power"] = stock["power"] - power
      /\ s["water"] = stock["water"] + actual /\ s["food"] = stock["food"]
  BY <1>5 DEF Resources
<1>7. stock["power"] - power \in Nat /\ stock["water"] + actual \in Nat
  BY <1>3, StateTypes DEF Resources
<1>8. s \in Stocks
  BY <1>4, <1>5, <1>7, StateTypes DEF Stocks
<1> HIDE DEF s
<1>9. /\ \A r \in {"oxygen", "food"} : s[r] <= stock[r]
      /\ \A r \in {"water", "power"} : s[r] <= Capacity[r]
  <2>1. /\ stock["food"] <= stock["food"] /\ stock["power"] \in Nat /\ Capacity["power"] \in Nat
        /\ stock["power"] - power <= Capacity["power"]
    BY <1>3, StateTypes DEF Resources
  <2> QED
    BY <1>1, <1>4, <1>6, <2>1
<1>10. \A i \in Crew, k \in Supplies : body[i][k] <= body[i][k]
  BY StateTypes
<1>11. /\ phase' \in Phases /\ busy' \subseteq Crew /\ UNCHANGED <<tick, due, fieldVars>>
  BY <1>0, ProceedType, StateTypes DEF Producing, Phases
<1> QED
  BY <1>2, <1>8, <1>9, <1>10, <1>11, ProductionStep, StateTypes

LEMMA InvStartCrops == Inv /\ StartCrops => Inv'
<1> SUFFICES ASSUME Inv, StartCrops PROVE Inv'
  OBVIOUS
<1>1. phase' \in Phases
  BY DEF StartCrops, Phases
<1> QED
  BY <1>1, InvQuiet, StateTypes DEF StartCrops

-----------------------------------------------------------------------------
(* The greenhouse.                                                         *)

\* PlotsSound, for one plot.
Sound(plot) ==
  /\ plot.crop = NoCrop => plot = Fresh(NoCrop)
  /\ plot.crop # NoCrop => plot.progress <= Maturity[plot.crop]
  /\ plot.mature = (plot.crop # NoCrop /\ ~plot.dead /\ plot.progress = Maturity[plot.crop])

LEMMA SoundPlots == PlotsSound <=> \A p \in Plots : Sound(plots[p])
BY DEF PlotsSound, Sound, Grows

LEMMA SoundFresh == ASSUME NEW c \in Crops \cup {NoCrop} PROVE Sound(Fresh(c))
<1>1. /\ Fresh(c).crop = c /\ Fresh(c).progress = 0
      /\ Fresh(c).mature = FALSE /\ Fresh(c).dead = FALSE
  BY DEF Fresh
<1>2. c # NoCrop => Maturity[c] \in Nat /\ 0 < Maturity[c]
  BY CropsAssumption
<1>3. c # NoCrop => ~(Fresh(c).progress = Maturity[c]) /\ Fresh(c).progress <= Maturity[c]
  BY <1>1, <1>2
<1> QED
  BY <1>1, <1>3 DEF Sound

\* A step of update_crops or of a plot operation.
LEMMA FieldStep ==
  ASSUME Inv, UNCHANGED <<tick, body, alive, failed>>,
         stock' \in Stocks, stock'["oxygen"] = stock["oxygen"],
         pending' \in Stocks, NothingElsePends',
         \A r \in Resources : stock'[r] + pending'[r] <= Capacity[r],
         plots' \in [Plots -> PlotStates], \A p \in Plots : Sound(plots'[p]),
         phase' \in Phases, busy' \subseteq Crew, due' \subseteq Crew \X Supplies,
         attempted' \subseteq Plots, irrigated' \subseteq Plots, wet' \in [Plots -> Nat]
  PROVE  Inv'
<1>1. TypeOK'
  BY DEF Inv, TypeOK, Stocks
<1>2. StockFits'
  BY DEF StockFits
<1>3. LivingAreSupplied'
  BY DEF Inv, LivingAreSupplied
<1>4. PlotsSound'
  BY DEF PlotsSound, Sound, Grows
<1> QED
  BY <1>1, <1>2, <1>3, <1>4 DEF Inv

\* One plot is written.
LEMMA PlotWritten ==
  ASSUME Inv, NEW p \in Plots, NEW new \in PlotStates, Sound(new),
         plots' = [plots EXCEPT ![p] = new]
  PROVE  plots' \in [Plots -> PlotStates] /\ \A q \in Plots : Sound(plots'[q])
<1>1. plots \in [Plots -> PlotStates] /\ \A q \in Plots : Sound(plots[q])
  BY SoundPlots DEF Inv, TypeOK
<1>2. \A q \in Plots : plots'[q] = IF q = p THEN new ELSE plots[q]
  BY <1>1
<1> QED
  BY <1>1, <1>2

\* What is added to what is pending is what there is room for.
LEMMA PendingAdded ==
  ASSUME Inv, NEW r \in {"oxygen", "food"}, NEW n \in Nat, n <= Room(r),
         pending' = [pending EXCEPT ![r] = @ + n],
         stock' \in Stocks, \A q \in Resources : stock'[q] <= stock[q]
  PROVE  /\ pending' \in Stocks /\ NothingElsePends'
         /\ \A q \in Resources : stock'[q] + pending'[q] <= Capacity[q]
<1>1. r \in Resources /\ stock[r] + pending[r] + n <= Capacity[r]
  BY RoomType DEF Inv, Resources
<1>2. \A q \in Resources : pending'[q] = IF q = r THEN pending[r] + n ELSE pending[q]
  BY <1>1, StateTypes DEF Stocks
<1>3. pending' \in Stocks
  BY <1>1, StateTypes DEF Stocks
<1>4. NothingElsePends'
  BY <1>2 DEF Inv, NothingElsePends, Resources
<1>5. \A q \in Resources : stock'[q] \in Nat
  BY DEF Stocks
<1> QED
  BY <1>1, <1>2, <1>3, <1>4, <1>5, StateTypes

LEMMA InvIrrigate == Inv /\ Irrigate => Inv'
<1> SUFFICES ASSUME Inv, Irrigate PROVE Inv'
  OBVIOUS
<1>1. PICK p \in Plots \ attempted :
        LET plot == plots[p]
            progress == Smaller(Maturity[plot.crop], plot.progress + 1)
        IN /\ Grows(p)
           /\ attempted' = attempted \cup {p}
           /\ \/ /\ stock["water"] >= PlotWater /\ stock["power"] >= PlotPower
                 /\ stock' = [stock EXCEPT !["water"] = @ - PlotWater,
                                           !["power"] = @ - PlotPower]
                 /\ plots' = [plots EXCEPT ![p] =
                      [crop |-> plot.crop, progress |-> progress,
                       mature |-> progress >= Maturity[plot.crop],
                       dead |-> FALSE, dry |-> 0]]
                 /\ pending' = [pending EXCEPT
                      !["oxygen"] = @ + Smaller(OxygenOf[plot.crop], Room("oxygen"))]
                 /\ irrigated' = irrigated \cup {p}
                 /\ wet' = [wet EXCEPT ![p] = tick]
              \/ UNCHANGED <<stock, plots, pending, irrigated, wet>>
  BY DEF Irrigate, Irrigating
<1>2. /\ tick' = tick /\ body' = body /\ alive' = alive /\ failed' = failed
      /\ phase' = phase /\ busy' = busy /\ due' = due
  BY DEF Irrigate, Irrigating
<1>3. attempted \subseteq Plots /\ irrigated \subseteq Plots /\ wet \in [Plots -> Nat]
  BY DEF Inv, TypeOK
<1>4. attempted' \subseteq Plots
  BY <1>1, <1>3
<1>5. CASE UNCHANGED <<stock, plots, pending, irrigated, wet>>
  BY <1>2, <1>3, <1>4, <1>5, InvQuiet, StateTypes
<1>6. CASE /\ stock["water"] >= PlotWater /\ stock["power"] >= PlotPower
           /\ irrigated' = irrigated \cup {p}
           /\ wet' = [wet EXCEPT ![p] = tick]
           /\ stock' = [stock EXCEPT !["water"] = @ - PlotWater,
                                     !["power"] = @ - PlotPower]
           /\ plots' = [plots EXCEPT ![p] =
                [crop |-> plots[p].crop,
                 progress |-> Smaller(Maturity[plots[p].crop], plots[p].progress + 1),
                 mature |-> Smaller(Maturity[plots[p].crop], plots[p].progress + 1)
                              >= Maturity[plots[p].crop],
                 dead |-> FALSE, dry |-> 0]]
           /\ pending' = [pending EXCEPT
                !["oxygen"] = @ + Smaller(OxygenOf[plots[p].crop], Room("oxygen"))]
  <2> DEFINE crop == plots[p].crop
             progress == Smaller(Maturity[crop], plots[p].progress + 1)
             new == [crop |-> crop, progress |-> progress,
                     mature |-> progress >= Maturity[crop], dead |-> FALSE, dry |-> 0]
             n == Smaller(OxygenOf[crop], Room("oxygen"))
  <2>1. crop \in Crops /\ crop # NoCrop /\ plots[p].progress \in Nat
    BY <1>1 DEF Grows, Inv, TypeOK, PlotStates
  <2>2. Maturity[crop] \in Nat /\ OxygenOf[crop] \in Nat
    BY <2>1, CropsAssumption
  <2>3. progress \in Nat /\ progress <= Maturity[crop]
    <3>1. plots[p].progress + 1 \in Nat
      BY <2>1
    <3> HIDE DEF crop
    <3> QED
      BY <2>2, <3>1 DEF Smaller
  <2>4. plots' = [plots EXCEPT ![p] = new]
    BY <1>6
  <2>5. new \in PlotStates /\ Sound(new)
    <3> HIDE DEF progress, crop
    <3>1. (progress >= Maturity[crop]) \in BOOLEAN
      BY <2>2, <2>3
    <3>2. new \in PlotStates
      BY <2>1, <2>3, <3>1 DEF PlotStates
    <3>3. (progress >= Maturity[crop]) <=> (progress = Maturity[crop])
      BY <2>2, <2>3
    <3>4. /\ new.crop = crop /\ new.progress = progress /\ new.dead = FALSE
          /\ new.mature = (progress >= Maturity[crop])
      OBVIOUS
    <3> HIDE DEF new
    <3> QED
      BY <2>1, <2>3, <3>1, <3>2, <3>3, <3>4 DEF Sound
  <2>6. plots' \in [Plots -> PlotStates] /\ \A q \in Plots : Sound(plots'[q])
    <3> HIDE DEF new
    <3> QED
      BY <2>4, <2>5, PlotWritten
  <2>7. stock' \in Stocks /\ (\A q \in Resources : stock'[q] <= stock[q])
        /\ stock'["oxygen"] = stock["oxygen"]
    <3>1. stock["water"] - PlotWater \in Nat /\ stock["power"] - PlotPower \in Nat
      BY <1>6, StateTypes, RatesAssumption DEF Resources
    <3>2. stock' = [r \in Resources |-> IF r = "water" THEN stock["water"] - PlotWater
                                       ELSE IF r = "power" THEN stock["power"] - PlotPower
                                       ELSE stock[r]]
      BY <1>6, StateTypes DEF Stocks, Resources
    <3>3. stock' \in Stocks
      BY <3>1, <3>2, StateTypes DEF Stocks
    <3>4. /\ stock["water"] - PlotWater <= stock["water"]
          /\ stock["power"] - PlotPower <= stock["power"]
      BY StateTypes, RatesAssumption DEF Resources
    <3> QED
      BY <3>2, <3>3, <3>4, StateTypes DEF Resources
  <2>8. Room("oxygen") \in Nat
    <3>1. Capacity["oxygen"] \in Nat /\ stock["oxygen"] + pending["oxygen"] \in Nat
      BY StateTypes DEF Resources
    <3> QED
      BY <3>1, LessType DEF Room
  <2>9. n \in Nat /\ n <= Room("oxygen")
    BY <2>2, <2>8, SmallerType
  <2>10. pending' = [pending EXCEPT !["oxygen"] = @ + n]
    BY <1>6
  <2>11. /\ pending' \in Stocks /\ NothingElsePends'
         /\ \A q \in Resources : stock'[q] + pending'[q] <= Capacity[q]
    <3> HIDE DEF n
    <3> QED
      BY <2>7, <2>9, <2>10, PendingAdded
  <2>12. irrigated' \subseteq Plots /\ wet' \in [Plots -> Nat]
    BY <1>3, <1>6, StateTypes
  <2> QED
    BY <1>2, <1>4, <2>6, <2>7, <2>11, <2>12, FieldStep, StateTypes
<1> QED
  BY <1>1, <1>5, <1>6

LEMMA DriedType ==
  ASSUME NEW plot \in PlotStates
  PROVE  /\ Dried(plot).crop = plot.crop
         /\ Dried(plot).progress = plot.progress
         /\ Dried(plot).dead \in BOOLEAN
         /\ Dried(plot).mature <=> (plot.mature /\ ~Dried(plot).dead)
         /\ Dried(plot) \in PlotStates
<1> DEFINE dies == plot.dry + 1 >= DeathAfter
           ripe == plot.mature /\ ~dies
<1>1. Dried(plot) = [crop |-> plot.crop, progress |-> plot.progress, mature |-> ripe,
                     dead |-> dies, dry |-> plot.dry + 1]
  BY DEF Dried
<1>2. /\ plot.crop \in Crops \cup {NoCrop} /\ plot.progress \in Nat
      /\ plot.mature \in BOOLEAN /\ plot.dry + 1 \in Nat
  BY DEF PlotStates
<1>3. dies \in BOOLEAN /\ ripe \in BOOLEAN /\ (ripe <=> (plot.mature /\ ~dies))
  BY <1>2
<1> HIDE DEF dies, ripe
<1>4. Dried(plot) \in PlotStates
  BY <1>1, <1>2, <1>3 DEF PlotStates
<1>5. /\ Dried(plot).crop = plot.crop /\ Dried(plot).progress = plot.progress
      /\ Dried(plot).dead = dies /\ Dried(plot).mature = ripe
  BY <1>1
<1> QED
  BY <1>3, <1>4, <1>5

LEMMA InvNeglect == Inv /\ Neglect => Inv'
<1> SUFFICES ASSUME Inv, Neglect PROVE Inv'
  OBVIOUS
<1>1. \A p \in Plots : plots'[p] \in PlotStates /\ Sound(plots'[p])
  <2> SUFFICES ASSUME NEW p \in Plots PROVE plots'[p] \in PlotStates /\ Sound(plots'[p])
    OBVIOUS
  <2>1. plots[p] \in PlotStates /\ Sound(plots[p])
    BY SoundPlots DEF Inv, TypeOK
  <2>2. CASE ~(Grows(p) /\ p \notin irrigated)
    BY <2>1, <2>2 DEF Neglect
  <2>3. CASE Grows(p) /\ p \notin irrigated
    <3>1. plots'[p] = Dried(plots[p])
      BY <2>3 DEF Neglect
    <3>2. /\ Dried(plots[p]).crop = plots[p].crop
          /\ Dried(plots[p]).progress = plots[p].progress
          /\ Dried(plots[p]).dead \in BOOLEAN
          /\ Dried(plots[p]).mature <=> (plots[p].mature /\ ~Dried(plots[p]).dead)
          /\ Dried(plots[p]) \in PlotStates
      BY <2>1, DriedType
    <3>3. plots[p].crop # NoCrop /\ ~plots[p].dead
      BY <2>3 DEF Grows
    <3>4. Dried(plots[p]).mature \in BOOLEAN
      BY <3>2 DEF PlotStates
    <3> QED
      BY <2>1, <3>1, <3>2, <3>3, <3>4 DEF Sound
  <2> QED
    BY <2>2, <2>3
<1>2. plots' \in [Plots -> PlotStates]
  BY <1>1 DEF Neglect
<1>3. /\ tick' = tick /\ stock' = stock /\ pending' = pending /\ body' = body
      /\ alive' = alive /\ failed' = failed /\ busy' = busy /\ due' = due
      /\ attempted' = attempted /\ irrigated' = irrigated /\ wet' = wet
      /\ phase' \in Phases
  BY DEF Neglect, Phases
<1>4. /\ attempted' \subseteq Plots /\ irrigated' \subseteq Plots /\ wet' \in [Plots -> Nat]
      /\ NothingElsePends'
  BY <1>3 DEF Inv, TypeOK, NothingElsePends
<1> QED
  BY <1>1, <1>2, <1>3, <1>4, FieldStep, StateTypes

\* What every plot operation leaves alone.
LEMMA PlotWorkTypes ==
  ASSUME Inv, NEW i \in Crew, PlotWork(i)
  PROVE  /\ tick' = tick /\ body' = body /\ alive' = alive /\ failed' = failed
         /\ stock' = stock /\ stock \in Stocks /\ stock'["oxygen"] = stock["oxygen"]
         /\ phase' \in Phases /\ busy' \subseteq Crew /\ due' \subseteq Crew \X Supplies
         /\ attempted' \subseteq Plots
BY StateTypes DEF PlotWork, Inv, TypeOK

\* A plot operation that leaves what is pending: planting or clearing.
LEMMA PlotEmptied ==
  ASSUME Inv, NEW i \in Crew, PlotWork(i), NEW p \in Plots, NEW c \in Crops \cup {NoCrop},
         plots' = [plots EXCEPT ![p] = Fresh(c)], pending' = pending,
         irrigated' \subseteq Plots, wet' \in [Plots -> Nat]
  PROVE  Inv'
<1>1. plots' \in [Plots -> PlotStates] /\ \A q \in Plots : Sound(plots'[q])
  BY PlotWritten, FreshType, SoundFresh
<1>2. pending' \in Stocks /\ NothingElsePends'
  BY StateTypes DEF Inv, NothingElsePends
<1>3. \A r \in Resources : stock'[r] + pending'[r] <= Capacity[r]
  BY StateTypes, PlotWorkTypes
<1> QED
  BY <1>1, <1>2, <1>3, PlotWorkTypes, FieldStep

LEMMA InvPlant ==
  ASSUME Inv, NEW i \in Crew, NEW p \in Plots, NEW crop \in Crops, Plant(i, p, crop)
  PROVE  Inv'
<1>1. irrigated' \subseteq Plots /\ wet' \in [Plots -> Nat]
  BY DEF Plant, Inv, TypeOK
<1> QED
  BY <1>1, PlotEmptied DEF Plant

LEMMA InvClear ==
  ASSUME Inv, NEW i \in Crew, NEW p \in Plots, Clear(i, p)
  PROVE  Inv'
<1>1. irrigated' \subseteq Plots /\ wet' \in [Plots -> Nat]
  BY DEF Clear, Inv, TypeOK
<1> QED
  BY <1>1, PlotEmptied DEF Clear

LEMMA InvHarvest ==
  ASSUME Inv, NEW i \in Crew, NEW p \in Plots, Harvest(i, p)
  PROVE  Inv'
<1> DEFINE food == FoodOf[plots[p].crop]
<1>1. PlotWork(i) /\ Grows(p) /\ wet' = wet
  BY DEF Harvest
<1>2. food \in Nat
  BY <1>1, CropsAssumption DEF Grows, Inv, TypeOK, PlotStates
<1>3. irrigated' \subseteq Plots /\ wet' \in [Plots -> Nat]
  BY <1>1 DEF Harvest, Inv, TypeOK
<1>4. CASE /\ food <= Room("food")
           /\ pending' = [pending EXCEPT !["food"] = @ + food]
           /\ plots' = [plots EXCEPT ![p] = Fresh(NoCrop)]
  <2>1. plots' \in [Plots -> PlotStates] /\ \A q \in Plots : Sound(plots'[q])
    BY <1>4, PlotWritten, FreshType, SoundFresh
  <2>2. stock' \in Stocks /\ \A r \in Resources : stock'[r] <= stock[r]
    BY <1>1, PlotWorkTypes, StateTypes
  <2>3. /\ pending' \in Stocks /\ NothingElsePends'
        /\ \A r \in Resources : stock'[r] + pending'[r] <= Capacity[r]
    <3> HIDE DEF food
    <3> QED
      BY <1>2, <1>4, <2>2, PendingAdded
  <2> QED
    BY <1>1, <1>3, <2>1, <2>2, <2>3, PlotWorkTypes, FieldStep
<1>5. CASE UNCHANGED <<pending, plots, irrigated>>
  BY <1>1, <1>3, <1>5, PlotWorkTypes, InvQuiet
<1> QED
  BY <1>4, <1>5 DEF Harvest

LEMMA InvFinish == Inv /\ Finish => Inv'
<1> SUFFICES ASSUME Inv, Finish PROVE Inv'
  OBVIOUS
<1>1. phase' \in Phases /\ irrigated' \subseteq Plots
  BY DEF Finish, Phases, Inv, TypeOK
<1> QED
  BY <1>1, InvQuiet DEF Finish

LEMMA InvEditResources == Inv /\ EditResources => Inv'
<1> SUFFICES ASSUME Inv, EditResources PROVE Inv'
  OBVIOUS
<1>1. PICK keys \in SUBSET Resources : \E values \in [keys -> EditAmounts] :
        /\ CheckDeaths(body, [r \in Resources |->
             IF r \in keys THEN Smaller(Capacity[r], values[r]) ELSE stock[r]])
        /\ pending' = [r \in Resources |-> IF r \in keys THEN 0 ELSE pending[r]]
  BY DEF EditResources
<1>2. PICK values \in [keys -> EditAmounts] :
        /\ CheckDeaths(body, [r \in Resources |->
             IF r \in keys THEN Smaller(Capacity[r], values[r]) ELSE stock[r]])
        /\ pending' = [r \in Resources |-> IF r \in keys THEN 0 ELSE pending[r]]
  BY <1>1
<1> DEFINE s == [r \in Resources |->
                   IF r \in keys THEN Smaller(Capacity[r], values[r]) ELSE stock[r]]
<1>3. \A r \in Resources : s[r] \in Nat /\ s[r] + pending'[r] <= Capacity[r]
  <2> TAKE r \in Resources
  <2>1. CASE r \in keys
    <3>1. values[r] \in Nat /\ Capacity[r] \in Nat
      BY <2>1, AmountsAssumption
    <3>2. Smaller(Capacity[r], values[r]) \in Nat /\ Smaller(Capacity[r], values[r]) <= Capacity[r]
      BY <3>1, SmallerType
    <3> QED
      BY <1>2, <2>1, <3>1, <3>2
  <2>2. CASE r \notin keys
    BY <1>2, <2>2, StateTypes
  <2> QED
    BY <2>1, <2>2
<1>4. s \in Stocks /\ CheckDeaths(body, s)
  BY <1>2, <1>3 DEF Stocks
<1>5. pending' \in Stocks /\ NothingElsePends'
  BY <1>2, StateTypes DEF Stocks, Inv, NothingElsePends, Resources
<1> HIDE DEF s
<1>6. /\ plots' = plots /\ irrigated' = irrigated /\ wet' = wet /\ attempted' = attempted
      /\ tick' = tick /\ phase' = phase /\ busy' = busy /\ due' = due
  BY DEF EditResources
<1> QED
  BY <1>3, <1>4, <1>5, <1>6, DeathsStep, StateTypes

-----------------------------------------------------------------------------
(* The theorems.                                                           *)

LEMMA InvStep == Inv /\ [Next]_vars => Inv'
<1> SUFFICES ASSUME Inv, [Next]_vars PROVE Inv'
  OBVIOUS
<1>1. CASE UNCHANGED vars
  <2>1. /\ phase' \in Phases /\ busy' \subseteq Crew /\ due' \subseteq Crew \X Supplies
        /\ attempted' \subseteq Plots /\ irrigated' \subseteq Plots
    BY <1>1 DEF vars, Inv, TypeOK
  <2> QED
    BY <1>1, <2>1, InvQuiet DEF vars
<1>2. CASE PlotOps
  BY <1>2, InvHarvest, InvPlant, InvClear DEF PlotOps
<1> QED
  BY <1>1, <1>2, InvBegin, InvRefill, InvRefillsDone, InvConsume, InvBreathe, InvGenerate,
     InvProduceWater, InvStartCrops, InvIrrigate, InvNeglect, InvFinish, InvEditResources
     DEF Next

\* The invariant holds in every state of every settlement.
THEOREM Invariance == Spec => []Inv
BY InvInit, InvStep, PTL DEF Spec

\* The state keeps its types, and nobody ever holds more than a body can, whatever the
\* plans ask for.
THEOREM Types == Spec => []TypeOK
<1>1. Inv => TypeOK
  BY DEF Inv
<1> QED
  BY <1>1, Invariance, PTL

\* A store and what is pending for it never exceed the capacity, for all capacities,
\* rates and plans.
THEOREM StoresFit == Spec => []StockFits
<1>1. Inv => StockFits
  BY DEF Inv
<1> QED
  BY <1>1, Invariance, PTL

\* Until the mission has failed everybody lives and has something of every supply.
THEOREM LivingSupplied == Spec => []LivingAreSupplied
<1>1. Inv => LivingAreSupplied
  BY DEF Inv
<1> QED
  BY <1>1, Invariance, PTL

\* Plots never mix two crops, and only living plants are ripe.
THEOREM PlotsAreSound == Spec => []PlotsSound
<1>1. Inv => PlotsSound
  BY DEF Inv
<1> QED
  BY <1>1, Invariance, PTL

\* A settlement adds what was announced as pending in full: nothing is cut off at the
\* capacity.
THEOREM PendingIsDelivered == Spec => PendingArrives
<1>1. ASSUME Inv, [Next]_vars, tick' # tick
      PROVE  \A r \in Resources : stock'[r] = stock[r] + pending[r]
  <2>1. Begin
    <3>1. Next
      BY <1>1 DEF vars
    <3>2. ASSUME NEW i \in Crew, PlotWork(i) PROVE FALSE
      BY <1>1, <3>2 DEF PlotWork
    <3>3. ~PlotOps
      BY <3>2 DEF PlotOps, Harvest, Plant, Clear
    <3> QED
      BY <1>1, <3>1, <3>3 DEF Next, Refill, Refilling, RefillsDone, Consume, Breathe,
         Generate, Generating, NoWork, ProduceWater, Producing, StartCrops, Irrigate,
         Irrigating, Neglect, Finish, EditResources
  <2>2. stock' = [r \in Resources |-> Smaller(Capacity[r], stock[r] + pending[r])]
    BY <2>1 DEF Begin, CheckDeaths
  <2> TAKE r \in Resources
  <2>3. /\ Capacity[r] \in Nat /\ stock[r] + pending[r] \in Nat
        /\ stock[r] + pending[r] <= Capacity[r]
    BY <1>1, StateTypes
  <2> QED
    BY <2>2, <2>3, SmallerType
<1>2. Inv /\ [Next]_vars
        => [tick' # tick => \A r \in Resources : stock'[r] = stock[r] + pending[r]]_vars
  BY <1>1
<1> QED
  BY <1>2, Invariance, PTL DEF Spec, PendingArrives

-----------------------------------------------------------------------------
(* Drought.  Between the start of a tick and the drying of its plots the   *)
(* count of a plot that has not been irrigated lags by one tick.           *)

Early == {"refill", "baseline", "generate", "water", "crops"}

Lags(p) == phase \in Early \/ (phase = "irrigate" /\ p \notin irrigated)

AgeOf(p) == IF Lags(p) THEN tick - 1 - wet[p] ELSE tick - wet[p]

Aged(p) == plots[p].crop # NoCrop =>
             IF plots[p].dead THEN AgeOf(p) >= DeathAfter
                              ELSE AgeOf(p) = plots[p].dry /\ AgeOf(p) < DeathAfter

Ages == /\ (failed => phase \in {"between", "settled"}) /\ (phase = "settled" => failed)
        /\ ~failed => \A p \in Plots : Aged(p)

LEMMA AgesInit == Init => Ages
<1> SUFFICES ASSUME Init PROVE Ages
  OBVIOUS
<1>1. ASSUME NEW p \in Plots PROVE Aged(p)
  <2>1. plots[p].dead = FALSE /\ plots[p].dry = 0 /\ tick = 0 /\ wet[p] = 0 /\ ~Lags(p)
    BY DEF Init, Fresh, Lags, Early
  <2>2. AgeOf(p) = 0
    BY <2>1 DEF AgeOf
  <2> QED
    BY <2>1, <2>2, RatesAssumption DEF Aged
<1> QED
  BY <1>1 DEF Ages, Init

\* A step before the crops: it may fail the mission, and touches no plot.
LEMMA AgesKept ==
  ASSUME Inv, Ages, UNCHANGED <<plots, wet>>, failed => failed',
         IF failed' THEN phase' \in {"between", "settled"} ELSE phase' # "settled",
         ~failed' => \A p \in Plots : AgeOf(p)' = AgeOf(p)
  PROVE  Ages'
<1>1. ASSUME ~failed', NEW p \in Plots PROVE Aged(p)'
  <2>1. Aged(p) /\ AgeOf(p)' = AgeOf(p)
    BY <1>1 DEF Ages
  <2> QED
    BY <2>1 DEF Aged
<1> QED
  BY <1>1 DEF Ages, Inv, TypeOK

\* check_deaths never takes a failure back.
LEMMA Failing ==
  ASSUME NEW b, NEW s, CheckDeaths(b, s)
  PROVE  failed => failed'
BY DEF CheckDeaths

LEMMA AgesEarly ==
  ASSUME Inv, Ages,
         Refill \/ RefillsDone \/ Consume \/ Breathe \/ Generate \/ ProduceWater \/ StartCrops
  PROVE  Ages'
<1> USE DEF Refill, Refilling, RefillsDone, Consume, Breathe, Generate, Generating, NoWork,
            ProduceWater, Producing, StartCrops
<1>1. /\ plots' = plots /\ wet' = wet /\ tick' = tick
      /\ phase \in Early /\ (phase' \in Early \/ phase' = "settled"
                              \/ (phase' = "irrigate" /\ irrigated' = {}))
  BY DEF fieldVars, Early, Proceed
<1>2. failed => failed'
  BY DEF Ages, Early, CheckDeaths
<1>3. ~failed
  BY <1>1 DEF Ages, Early
<1>4. failed' => phase' = "settled"
  BY <1>3 DEF Proceed
<1>5. ~failed' => phase' # "settled"
  BY DEF Early, Proceed
<1>6. ~failed' => \A p \in Plots : AgeOf(p)' = AgeOf(p)
  BY <1>1, <1>5 DEF AgeOf, Lags, Early
<1> QED
  BY <1>1, <1>2, <1>4, <1>5, <1>6, AgesKept

LEMMA AgesBegin == Inv /\ Ages /\ Begin => Ages'
<1> SUFFICES ASSUME Inv, Ages, Begin PROVE Ages'
  OBVIOUS
<1>1. /\ plots' = plots /\ wet' = wet /\ tick' = tick + 1 /\ ~failed /\ phase = "between"
      /\ phase' = IF failed' THEN "settled" ELSE "refill"
  BY DEF Begin, Proceed
<1>2. ASSUME ~failed', NEW p \in Plots PROVE AgeOf(p)' = AgeOf(p)
  <2>1. tick \in Nat /\ wet[p] \in Nat
    BY DEF Inv, TypeOK
  <2>2. Lags(p)' /\ ~Lags(p)
    BY <1>1, <1>2 DEF Lags, Early
  <2> QED
    BY <1>1, <2>1, <2>2 DEF AgeOf
<1> QED
  BY <1>1, <1>2, AgesKept

LEMMA AgesIrrigate == Inv /\ Ages /\ Irrigate => Ages'
<1> SUFFICES ASSUME Inv, Ages, Irrigate PROVE Ages'
  OBVIOUS
<1>1. PICK p \in Plots \ attempted :
        /\ Grows(p)
        /\ \/ /\ \E progress, mature :
                   plots' = [plots EXCEPT ![p] =
                     [crop |-> plots[p].crop, progress |-> progress, mature |-> mature,
                      dead |-> FALSE, dry |-> 0]]
              /\ irrigated' = irrigated \cup {p}
              /\ wet' = [wet EXCEPT ![p] = tick]
           \/ UNCHANGED <<plots, irrigated, wet>>
  BY DEF Irrigate, Irrigating
<1>2. /\ tick' = tick /\ failed' = failed /\ phase' = phase /\ phase = "irrigate"
  BY DEF Irrigate, Irrigating
<1>3. ~failed /\ \A q \in Plots : Aged(q)
  BY <1>2 DEF Ages
<1>4. tick \in Nat /\ plots \in [Plots -> PlotStates] /\ wet \in [Plots -> Nat]
  BY DEF Inv, TypeOK
<1>5. ASSUME NEW q \in Plots, plots'[q] = plots[q], wet'[q] = wet[q],
             q \in irrigated' <=> q \in irrigated
      PROVE  Aged(q)'
  <2>1. AgeOf(q)' = AgeOf(q)
    BY <1>2, <1>5 DEF AgeOf, Lags
  <2> QED
    BY <2>1, <1>3, <1>5 DEF Aged
<1>6. CASE UNCHANGED <<plots, irrigated, wet>>
  BY <1>2, <1>3, <1>5, <1>6 DEF Ages
<1>7. CASE /\ \E progress, mature :
                plots' = [plots EXCEPT ![p] =
                  [crop |-> plots[p].crop, progress |-> progress, mature |-> mature,
                   dead |-> FALSE, dry |-> 0]]
           /\ irrigated' = irrigated \cup {p}
           /\ wet' = [wet EXCEPT ![p] = tick]
  <2>1. Aged(p)'
    <3>1. plots'[p].dead = FALSE /\ plots'[p].dry = 0 /\ wet'[p] = tick /\ p \in irrigated'
      BY <1>4, <1>7
    <3>2. AgeOf(p)' = 0
      BY <1>2, <1>4, <3>1 DEF AgeOf, Lags, Early
    <3> QED
      BY <3>1, <3>2, RatesAssumption DEF Aged
  <2>2. ASSUME NEW q \in Plots, q # p PROVE Aged(q)'
    <3>1. plots'[q] = plots[q] /\ wet'[q] = wet[q] /\ (q \in irrigated' <=> q \in irrigated)
      BY <1>4, <1>7, <2>2
    <3> QED
      BY <3>1, <1>5
  <2> QED
    BY <1>2, <1>3, <2>1, <2>2 DEF Ages
<1> QED
  BY <1>1, <1>6, <1>7

LEMMA AgesNeglect == Inv /\ Ages /\ Neglect => Ages'
<1> SUFFICES ASSUME Inv, Ages, Neglect PROVE Ages'
  OBVIOUS
<1>1. /\ tick' = tick /\ failed' = failed /\ phase = "irrigate" /\ phase' = "plots"
      /\ wet' = wet /\ irrigated' = irrigated
  BY DEF Neglect
<1>2. ~failed /\ \A q \in Plots : Aged(q)
  BY <1>1 DEF Ages
<1>3. ASSUME NEW p \in Plots PROVE Aged(p)'
  <2>1. tick \in Nat /\ plots[p] \in PlotStates /\ wet[p] \in Nat /\ Aged(p)
    BY <1>2 DEF Inv, TypeOK
  <2>2. AgeOf(p)' = tick - wet[p]
    BY <1>1 DEF AgeOf, Lags, Early
  <2>3. AgeOf(p) = IF p \in irrigated THEN tick - wet[p] ELSE tick - 1 - wet[p]
    BY <1>1 DEF AgeOf, Lags, Early
  <2>4. CASE Grows(p) /\ p \notin irrigated
    <3> DEFINE dies == plots[p].dry + 1 >= DeathAfter
    <3>1. plots'[p] = Dried(plots[p])
      BY <2>4 DEF Neglect
    <3>2. /\ plots'[p].dead = dies /\ plots'[p].dry = plots[p].dry + 1
      BY <3>1 DEF Dried
    <3>3. AgeOf(p) = plots[p].dry /\ AgeOf(p) = tick - 1 - wet[p]
      BY <2>1, <2>3, <2>4 DEF Aged, Grows
    <3>4. AgeOf(p)' = plots[p].dry + 1 /\ plots[p].dry + 1 \in Nat
      <4>1. plots[p].dry \in Nat /\ plots[p].dry = tick - 1 - wet[p]
        BY <2>1, <3>3 DEF PlotStates
      <4> QED
        BY <2>1, <2>2, <4>1
    <3>5. IF dies THEN AgeOf(p)' >= DeathAfter ELSE AgeOf(p)' < DeathAfter
      BY <3>4, RatesAssumption
    <3> HIDE DEF dies
    <3> QED
      BY <3>2, <3>4, <3>5 DEF Aged
  <2>5. CASE ~(Grows(p) /\ p \notin irrigated)
    <3>1. plots'[p] = plots[p]
      BY <2>5 DEF Neglect
    <3>2. CASE p \in irrigated
      BY <2>1, <2>2, <2>3, <3>1, <3>2 DEF Aged
    <3>3. CASE plots[p].crop = NoCrop
      BY <3>1, <3>3 DEF Aged
    <3>4. CASE p \notin irrigated /\ plots[p].dead /\ plots[p].crop # NoCrop
      <4>1. AgeOf(p) >= DeathAfter
        BY <2>1, <3>4 DEF Aged
      <4>2. AgeOf(p)' >= DeathAfter
        BY <2>1, <2>2, <2>3, <3>4, <4>1, RatesAssumption
      <4> QED
        BY <3>1, <3>4, <4>2 DEF Aged
    <3> QED
      BY <2>5, <3>2, <3>3, <3>4 DEF Grows
  <2> QED
    BY <2>4, <2>5
<1> QED
  BY <1>1, <1>2, <1>3 DEF Ages

LEMMA AgesPlotOps == Inv /\ Ages /\ PlotOps => Ages'
<1> SUFFICES ASSUME Inv, Ages, PlotOps PROVE Ages'
  OBVIOUS
<1>1. PICK i \in Crew, p \in Plots :
        Harvest(i, p) \/ (\E crop \in Crops : Plant(i, p, crop)) \/ Clear(i, p)
  BY DEF PlotOps
<1>2. /\ tick' = tick /\ failed' = failed /\ phase' = phase /\ phase = "plots"
  BY <1>1 DEF Harvest, Plant, Clear, PlotWork
<1>3. ~failed /\ \A q \in Plots : Aged(q)
  BY <1>2 DEF Ages
<1>4. tick \in Nat /\ plots \in [Plots -> PlotStates] /\ wet \in [Plots -> Nat]
  BY DEF Inv, TypeOK
<1>5. \A q \in Plots : AgeOf(q) = tick - wet[q] /\ AgeOf(q)' = tick - wet'[q]
  BY <1>2 DEF AgeOf, Lags, Early
<1>6. ASSUME NEW q \in Plots, q # p PROVE plots'[q] = plots[q] /\ wet'[q] = wet[q]
  BY <1>1, <1>4, <1>6 DEF Harvest, Plant, Clear
<1>7. ASSUME NEW q \in Plots, plots'[q] = plots[q], wet'[q] = wet[q] PROVE Aged(q)'
  BY <1>3, <1>5, <1>7 DEF Aged
<1>8. Aged(p)'
  <2>1. CASE Clear(i, p)
    BY <1>4, <2>1 DEF Clear, Fresh, Aged
  <2>2. CASE Harvest(i, p)
    <3>1. CASE plots' = plots
      BY <1>7, <2>2, <3>1 DEF Harvest
    <3>2. CASE plots' = [plots EXCEPT ![p] = Fresh(NoCrop)]
      BY <1>4, <3>2 DEF Fresh, Aged
    <3> QED
      BY <2>2, <3>1, <3>2 DEF Harvest
  <2>3. CASE \E crop \in Crops : Plant(i, p, crop)
    <3>1. plots'[p].dead = FALSE /\ plots'[p].dry = 0 /\ wet'[p] = tick
      BY <1>4, <2>3 DEF Plant, Fresh
    <3>2. AgeOf(p)' = 0
      BY <1>4, <1>5, <3>1
    <3> QED
      BY <3>1, <3>2, RatesAssumption DEF Aged
  <2> QED
    BY <1>1, <2>1, <2>2, <2>3
<1> QED
  BY <1>2, <1>3, <1>6, <1>7, <1>8 DEF Ages

LEMMA AgesBetween == Inv /\ Ages /\ (Finish \/ EditResources) => Ages'
<1> SUFFICES ASSUME Inv, Ages, Finish \/ EditResources PROVE Ages'
  OBVIOUS
<1>1. /\ plots' = plots /\ wet' = wet /\ tick' = tick /\ irrigated' = irrigated
      /\ phase' = "between"
  BY DEF Finish, EditResources
<1>2. failed => failed'
  <2>1. CASE Finish
    BY <2>1 DEF Finish
  <2>2. CASE EditResources
    <3>1. PICK s : CheckDeaths(body, s)
      BY <2>2 DEF EditResources
    <3> QED
      BY <3>1, Failing
  <2> QED
    BY <2>1, <2>2
<1>3. phase \in {"between", "plots", "settled"}
  BY DEF Finish, EditResources
<1>4. \A p \in Plots : AgeOf(p)' = AgeOf(p)
  BY <1>1, <1>3 DEF AgeOf, Lags, Early
<1> QED
  BY <1>1, <1>2, <1>4, AgesKept

LEMMA AgesStep == Inv /\ Ages /\ [Next]_vars => Ages'
<1> SUFFICES ASSUME Inv, Ages, [Next]_vars PROVE Ages'
  OBVIOUS
<1>1. CASE UNCHANGED vars
  BY <1>1 DEF vars, Ages, Aged, AgeOf, Lags
<1> QED
  BY <1>1, AgesBegin, AgesEarly, AgesIrrigate, AgesNeglect, AgesPlotOps, AgesBetween DEF Next

\* A living plant's drought is the number of ticks since it was last given water, and it
\* dies exactly when that number reaches the limit, for every crop, limit and plan.
THEOREM DroughtIsCounted == Spec => []DroughtCounted
<1>1. Inv /\ Ages => DroughtCounted
  <2> SUFFICES ASSUME Inv, Ages, phase = "between", ~failed,
                      NEW p \in Plots, plots[p].crop # NoCrop
               PROVE  LET since == tick - wet[p]
                      IN IF plots[p].dead THEN since >= DeathAfter
                                          ELSE since = plots[p].dry /\ since < DeathAfter
    BY DEF DroughtCounted
  <2>1. AgeOf(p) = tick - wet[p]
    BY DEF AgeOf, Lags, Early
  <2> QED
    BY <2>1 DEF Ages, Aged
<1> QED
  BY <1>1, Invariance, AgesInit, AgesStep, PTL DEF Spec

-----------------------------------------------------------------------------
(* What the agents ask of a plot beyond PlotsSound: its count of dry ticks. *)

Dry(plot) == plot.dry <= DeathAfter /\ (~plot.dead => plot.dry < DeathAfter)

Drought == \A p \in Plots : Dry(plots[p])

LEMMA FreshDry == ASSUME NEW c PROVE Dry(Fresh(c))
BY RatesAssumption DEF Fresh, Dry

\* Counting one more dry tick stops at the limit, because it kills.
LEMMA DriedDry ==
  ASSUME NEW plot \in PlotStates, Dry(plot), ~plot.dead
  PROVE  Dry(Dried(plot))
<1> DEFINE dies == plot.dry + 1 >= DeathAfter
<1>1. (dies => Dried(plot).dead = TRUE) /\ Dried(plot).dry = plot.dry + 1
  BY DEF Dried
<1>2. plot.dry \in Nat /\ DeathAfter \in Nat
  BY RatesAssumption DEF PlotStates
<1>3. plot.dry < DeathAfter /\ plot.dry + 1 <= DeathAfter
  BY <1>2 DEF Dry
<1>4. CASE dies
  BY <1>1, <1>3, <1>4 DEF Dry
<1>5. CASE ~dies
  <2>1. plot.dry + 1 < DeathAfter
    BY <1>2, <1>5
  <2> QED
    BY <1>1, <2>1, <1>3 DEF Dry
<1> QED
  BY <1>4, <1>5

LEMMA DroughtInit == Init => Drought
BY FreshDry DEF Init, Drought

LEMMA DroughtStep == Inv /\ Drought /\ [Next]_vars => Drought'
<1> SUFFICES ASSUME Inv, Drought, [Next]_vars PROVE Drought'
  OBVIOUS
<1>1. plots \in [Plots -> PlotStates]
  BY DEF Inv, TypeOK
<1>2. CASE plots' = plots
  BY <1>2 DEF Drought
<1>3. ASSUME NEW p \in Plots, NEW new, Dry(new), plots' = [plots EXCEPT ![p] = new]
      PROVE  Drought'
  BY <1>1, <1>3 DEF Drought
<1>4. CASE Irrigate
  <2>1. PICK p \in Plots :
          \/ plots' = plots
          \/ plots' = [plots EXCEPT ![p] =
               [crop |-> plots[p].crop,
                progress |-> Smaller(Maturity[plots[p].crop], plots[p].progress + 1),
                mature |-> Smaller(Maturity[plots[p].crop], plots[p].progress + 1)
                             >= Maturity[plots[p].crop],
                dead |-> FALSE, dry |-> 0]]
    BY <1>4 DEF Irrigate, Irrigating
  <2>2. ASSUME NEW c, NEW n, NEW m
        PROVE  Dry([crop |-> c, progress |-> n, mature |-> m, dead |-> FALSE, dry |-> 0])
    BY RatesAssumption DEF Dry
  <2> QED
    BY <1>2, <1>3, <2>1, <2>2
<1>5. CASE Neglect
  <2> SUFFICES ASSUME NEW p \in Plots PROVE Dry(plots'[p])
    BY DEF Drought
  <2>1. plots'[p] = IF Grows(p) /\ p \notin irrigated THEN Dried(plots[p]) ELSE plots[p]
    BY <1>5 DEF Neglect
  <2>2. Dry(plots[p])
    BY DEF Drought
  <2> QED
    BY <1>1, <2>1, <2>2, DriedDry DEF Grows
<1>6. ASSUME NEW i \in Crew, NEW p \in Plots,
             Harvest(i, p) \/ Clear(i, p) \/ \E crop \in Crops : Plant(i, p, crop)
      PROVE  Drought'
  <2>1. plots' = plots \/ \E c : plots' = [plots EXCEPT ![p] = Fresh(c)]
    BY <1>6 DEF Harvest, Clear, Plant
  <2> QED
    BY <1>2, <1>3, <2>1, FreshDry
<1>7. CASE PlotOps
  BY <1>6, <1>7 DEF PlotOps
<1>8. Begin \/ Refill \/ RefillsDone \/ Consume \/ Breathe \/ Generate \/ ProduceWater
        \/ StartCrops \/ Finish \/ EditResources \/ UNCHANGED vars => plots' = plots
  BY DEF Begin, Refill, Refilling, RefillsDone, Consume, Breathe, Generate, Generating, NoWork,
         ProduceWater, Producing, StartCrops, Finish, EditResources, vars, fieldVars
<1> QED
  BY <1>2, <1>4, <1>5, <1>7, <1>8 DEF Next

\* The engine leaves no world behind that one of the three agents refuses to look at, for
\* every greenhouse and all rates: a planning that fails does not fail for the snapshot.
THEOREM SnapshotsAreAccepted == Spec => []SnapshotAccepted
<1>1. Inv /\ Drought => SnapshotAccepted
  <2> SUFFICES ASSUME Inv, Drought
               PROVE  /\ AmountsTaken
                      /\ \A p \in Plots : PlotTaken(plots[p]) /\ HumanTakesPlot(plots[p])
    BY DEF SnapshotAccepted
  <2>1. AmountsTaken
    BY StateTypes DEF AmountsTaken
  <2>2. ASSUME NEW p \in Plots PROVE PlotTaken(plots[p]) /\ HumanTakesPlot(plots[p])
    <3>1. plots[p] \in PlotStates /\ Sound(plots[p]) /\ Dry(plots[p])
      BY SoundPlots DEF Inv, TypeOK, Drought
    <3>2. plots[p].crop = NoCrop =>
            /\ plots[p].dead = FALSE /\ plots[p].progress = 0 /\ plots[p].dry = 0
            /\ plots[p].mature = FALSE
      BY <3>1 DEF Sound, Fresh
    <3>3. plots[p].dead \in BOOLEAN /\ plots[p].mature \in BOOLEAN
      BY <3>1 DEF PlotStates
    <3>4. /\ Status(plots[p]) = "empty" <=> plots[p].crop = NoCrop
          /\ Status(plots[p]) = "mature" =>
               ~plots[p].dead /\ plots[p].crop # NoCrop /\ plots[p].mature
          /\ Status(plots[p]) \in {"growing", "mature"} => ~plots[p].dead
      BY <3>2, <3>3 DEF Status
    <3>5. PlotTaken(plots[p])
      BY <3>1, <3>4 DEF PlotTaken, Sound, Dry
    <3>6. HumanTakesPlot(plots[p])
      BY <3>1, <3>2, <3>4 DEF HumanTakesPlot, Sound, Dry
    <3> QED
      BY <3>5, <3>6
  <2> QED
    BY <2>1, <2>2
<1> QED
  BY <1>1, Invariance, DroughtInit, DroughtStep, PTL DEF Spec

-----------------------------------------------------------------------------
(* The forecast: what its amounts have to do with the engine's.            *)

Audits ==
  [status : Verdicts, stock : Stocks, body : Bodies, gaps : SUBSET Unknowns,
   blind : SUBSET ((Crew \X Supplies) \cup Plots), open : BOOLEAN,
   dry : [Plots -> Nat], supplied : SUBSET Plots]

\* No body holds more than it can.
Within(b) == b \in Bodies /\ \A i \in Crew, k \in Supplies : b[i][k] <= BodyCapacity[k]

AuditFits(a) ==
  /\ a \in Audits
  /\ a.stock["water"] <= Capacity["water"] /\ a.stock["power"] <= Capacity["power"]
  /\ Within(a.body)
  /\ a.blind # {} => a.open

AuditTypes ==
  /\ AuditFits(audit)
  /\ surprise \subseteq {"oxygen", "food"}
  /\ warned \in [short : SUBSET Crew, doomed : SUBSET Crew]

\* The audit ends with the settlement, and plants are judged last.
Stages ==
  /\ phase = "between" => audit = NoAudit /\ busy = {}
  /\ phase # "between" => audit.status # "none"
  /\ audit.status \in {"unsafe_in_scope", "feasible_in_scope"} => phase = "plots"

Short(i, k) == body[i][k] <= Need[k]

\* Who was warned of and is not dead yet has been refilled or still has to live through
\* the tick, and one refill leaves the other supply short.
WarnedOf ==
  /\ phase = "refill" =>
       /\ \A i \in warned.short \ busy : \E k \in Supplies : Short(i, k)
       /\ \A i \in warned.doomed : /\ \E k \in Supplies : Short(i, k)
                                   /\ i \notin busy => \A k \in Supplies : Short(i, k)
  /\ phase = "baseline" =>
       \A i \in (warned.short \ busy) \cup warned.doomed :
         \E k \in Supplies : <<i, k>> \in due /\ Short(i, k)
  /\ phase \in {"generate", "water", "crops", "irrigate", "plots"} =>
       warned.short \subseteq busy /\ warned.doomed = {}

\* A unit of oxygen is what a unit of work and a unit of water take.
UnitOxygen == OxygenPerWork = 1 /\ OxygenPerLitre = 1

\* What pended was no oxygen, or its amounts are exact.
Comparable == "oxygen" \in surprise => UnitOxygen

\* The audit counts on no more than there is, and on as much unless some was pending.
Close(r, mine, its) == mine <= its /\ (r \notin surprise => mine = its)

\* Nor on more in a body, and on as much in that of who has not been refilled.
CloseIn(i, k, mine, its) == mine <= its /\ (i \notin busy \/ k \notin surprise => mine = its)

Yet(i, k) == IF <<i, k>> \in due THEN Need[k] ELSE 0

\* The audit that has not returned is about the tick as the engine executes it.
Agrees ==
  /\ phase \in {"refill", "baseline", "generate", "water", "crops", "irrigate"}
  /\ \A r \in Supplies \cup {"power"} :
       r \notin audit.gaps => Close(r, audit.stock[r], stock[r])
  /\ phase = "refill" =>
       \A i \in Crew, k \in Supplies :
         <<i, k>> \notin audit.blind => CloseIn(i, k, audit.body[i][k], body[i][k])
  /\ phase \in {"refill", "generate", "water"} =>
       Close("oxygen", audit.stock["oxygen"], stock["oxygen"])
  /\ phase = "baseline" =>
       /\ Close("oxygen", audit.stock["oxygen"] + Breath * Cardinality(Crew), stock["oxygen"])
       /\ audit.stock["oxygen"] > 0
       /\ \A i \in Crew, k \in Supplies :
            audit.body[i][k] > 0 /\ CloseIn(i, k, audit.body[i][k] + Yet(i, k), body[i][k])
  /\ phase = "generate" =>
       \A i \in Crew, k \in Supplies : CloseIn(i, k, audit.body[i][k], body[i][k])
  /\ phase \notin {"refill", "irrigate"} => ~audit.open
  /\ phase # "irrigate" => audit.supplied = {} /\ \A p \in Plots : audit.dry[p] = plots[p].dry
  /\ phase = "irrigate" =>
       /\ audit.supplied \subseteq irrigated
       /\ irrigated \subseteq audit.supplied \cup audit.blind
       /\ \A p \in Plots \ irrigated : audit.dry[p] = plots[p].dry

Tracks == Comparable /\ Runs => Agrees

\* A fatal verdict comes true before the phase after it.
AlarmHolds ==
  audit.status = "fatal_in_scope" /\ surprise = {} =>
    \/ phase = "settled"
    \/ /\ phase = "baseline"
       /\ \/ \E d \in due : Short(d[1], d[2])
          \/ stock["oxygen"] <= Breath * Cardinality(Crew)

-----------------------------------------------------------------------------
(* The stages of the audit keep its amounts in order.                      *)

\* The audit goes on, or returns early.
GoesOn(a) == AuditFits(a) /\ a.status \in {"running", "fatal_in_scope", "incomplete"}

LEMMA NoAuditFits == AuditFits(NoAudit) /\ NoAudit.status = "none"
<1>1. BodyStart \in [Supplies -> Nat] /\ Start \in Stocks
  BY AmountsAssumption DEF Stocks
<1>2. [i \in Crew |-> BodyStart] \in Bodies
  BY <1>1 DEF Bodies
<1>3. NoAudit \in Audits
  BY <1>1, <1>2 DEF NoAudit, Audits, Verdicts
<1>4. /\ Start["water"] <= Capacity["water"] /\ Start["power"] <= Capacity["power"]
      /\ \A k \in Supplies : BodyStart[k] <= BodyCapacity[k]
  BY AmountsAssumption DEF Resources
<1> QED
  BY <1>2, <1>3, <1>4 DEF AuditFits, Within, NoAudit

LEMMA EndedFits ==
  ASSUME NEW v \in Verdicts
  PROVE  AuditFits(Ended(v)) /\ Ended(v).status = v
<1>1. NoAudit \in Audits
  BY NoAuditFits DEF AuditFits
<1>2. /\ Ended(v) \in Audits /\ Ended(v).status = v
      /\ Ended(v).stock = NoAudit.stock /\ Ended(v).body = NoAudit.body
      /\ Ended(v).blind = NoAudit.blind /\ Ended(v).open = NoAudit.open
  BY <1>1 DEF Ended, Audits
<1> QED
  BY <1>2, NoAuditFits DEF AuditFits

LEMMA AuditFields ==
  ASSUME NEW a, AuditFits(a)
  PROVE  /\ a \in Audits /\ a.stock \in Stocks /\ a.body \in Bodies
         /\ a.gaps \subseteq Unknowns /\ a.open \in BOOLEAN /\ a.dry \in [Plots -> Nat]
         /\ a.blind \subseteq (Crew \X Supplies) \cup Plots /\ a.supplied \subseteq Plots
         /\ \A r \in Resources : a.stock[r] \in Nat /\ Capacity[r] \in Nat
         /\ \A i \in Crew, k \in Supplies : /\ a.body[i][k] \in Nat /\ BodyCapacity[k] \in Nat
                                            /\ a.body[i][k] <= BodyCapacity[k]
         /\ a.blind # {} => a.open
BY AmountsAssumption DEF AuditFits, Within, Audits, Stocks, Bodies

\* One refill of the audit: what is not known stays so, and the amounts are reduced to
\* what it thinks there is.
LEMMA RefilledFits ==
  ASSUME NEW a, AuditFits(a), a.status = "running", NEW i \in Crew, NEW k \in Supplies,
         NEW request \in Nat
  PROVE  LET n == Refilled(a, i, k, request)
             give == Smallest(request, a.stock[k], BodyCapacity[k] - a.body[i][k])
         IN /\ GoesOn(n) /\ n.status = "running" /\ n.dry = a.dry /\ n.supplied = a.supplied
            /\ k \in a.gaps \/ <<i, k>> \in a.blind =>
                 /\ n.gaps = a.gaps \cup {k} /\ n.blind = a.blind \cup {<<i, k>>} /\ n.open
                 /\ n.stock = a.stock /\ n.body = a.body
            /\ ~(k \in a.gaps \/ <<i, k>> \in a.blind) =>
                 /\ n.gaps = a.gaps /\ n.blind = a.blind /\ n.open = a.open
                 /\ \A r \in Resources :
                      n.stock[r] = IF r = k THEN a.stock[k] - give ELSE a.stock[r]
                 /\ \A j \in Crew, l \in Supplies :
                      n.body[j][l] = IF j = i /\ l = k THEN a.body[i][k] + give ELSE a.body[j][l]
<1> DEFINE give == Smallest(request, a.stock[k], BodyCapacity[k] - a.body[i][k])
           s == [a.stock EXCEPT ![k] = @ - give]
           b == [a.body EXCEPT ![i] = [a.body[i] EXCEPT ![k] = @ + give]]
           n == Refilled(a, i, k, request)
<1>1. CASE k \in a.gaps \/ <<i, k>> \in a.blind
  <2> DEFINE gaps == a.gaps \cup {k}
             blind == a.blind \cup {<<i, k>>}
  <2>1. n = [a EXCEPT !.gaps = gaps, !.blind = blind, !.open = TRUE]
    BY <1>1 DEF Refilled
  <2>2. /\ a \in Audits /\ gaps \in SUBSET Unknowns
        /\ blind \in SUBSET ((Crew \X Supplies) \cup Plots)
    BY AuditFields DEF Unknowns, Resources, Supplies
  <2> HIDE DEF n, gaps, blind
  <2>3. /\ n \in Audits /\ n.status = "running"
        /\ n.gaps = gaps /\ n.blind = blind /\ n.open
        /\ n.stock = a.stock /\ n.body = a.body /\ n.dry = a.dry /\ n.supplied = a.supplied
    BY <2>1, <2>2 DEF Audits
  <2>4. GoesOn(n)
    BY <2>3 DEF GoesOn, AuditFits
  <2> QED
    BY <1>1, <2>3, <2>4 DEF n, gaps, blind
<1>2. CASE ~(k \in a.gaps \/ <<i, k>> \in a.blind)
  <2>1. n = [a EXCEPT !.stock = s, !.body = b]
    BY <1>2 DEF Refilled
  <2> DEFINE room == BodyCapacity[k] - a.body[i][k]
  <2>2. /\ a.stock[k] \in Nat /\ a.body[i][k] \in Nat /\ BodyCapacity[k] \in Nat
        /\ room \in Nat /\ k \in Resources /\ a.stock \in Stocks /\ a.body \in Bodies
    BY AuditFields DEF Supplies, Resources
  <2>3. give \in Nat /\ give <= a.stock[k] /\ give <= room
    BY <2>2, SmallestType
  <2> HIDE DEF give
  <2>4. give \in Nat /\ give <= a.stock[k] /\ a.body[i][k] + give <= BodyCapacity[k]
    BY <2>2, <2>3
  <2>5. /\ s \in Stocks
        /\ \A r \in Resources : s[r] <= a.stock[r]
        /\ \A r \in Resources : s[r] = IF r = k THEN a.stock[k] - give ELSE a.stock[r]
    BY <2>2, <2>4 DEF Stocks
  <2>6. [a.body[i] EXCEPT ![k] = @ + give] \in [Supplies -> Nat]
    BY <2>2, <2>4 DEF Bodies
  <2>7. b \in Bodies
    BY <2>2, <2>6 DEF Bodies
  <2>8. ASSUME NEW j \in Crew, NEW l \in Supplies
        PROVE  b[j][l] = IF j = i /\ l = k THEN a.body[i][k] + give ELSE a.body[j][l]
    BY <2>2 DEF Bodies
  <2>9. Within(b)
    <3>1. \A j \in Crew, l \in Supplies : b[j][l] <= BodyCapacity[l]
      BY <2>4, <2>8, AuditFields
    <3> QED
      BY <2>7, <3>1 DEF Within
  <2>10. s["water"] <= Capacity["water"] /\ s["power"] <= Capacity["power"]
    <3>1. /\ s["water"] \in Nat /\ s["power"] \in Nat
          /\ s["water"] <= a.stock["water"] /\ s["power"] <= a.stock["power"]
      BY <2>5 DEF Stocks, Resources
    <3>2. /\ a.stock["water"] \in Nat /\ a.stock["power"] \in Nat
          /\ Capacity["water"] \in Nat /\ Capacity["power"] \in Nat
          /\ a.stock["water"] <= Capacity["water"] /\ a.stock["power"] <= Capacity["power"]
      BY AuditFields DEF Resources, AuditFits
    <3> QED
      BY <3>1, <3>2
  <2> HIDE DEF s, b, n
  <2>11. a \in Audits /\ s \in Stocks /\ b \in Bodies
    BY <2>5, <2>9, AuditFields DEF Within
  <2>12. /\ n \in Audits /\ n.status = "running" /\ n.stock = s /\ n.body = b
         /\ n.gaps = a.gaps /\ n.blind = a.blind /\ n.open = a.open
         /\ n.dry = a.dry /\ n.supplied = a.supplied
    BY <2>1, <2>11 DEF Audits
  <2>13. GoesOn(n)
    BY <2>5, <2>9, <2>10, <2>12, AuditFields DEF GoesOn, AuditFits
  <2> QED
    BY <1>2, <2>5, <2>8, <2>12, <2>13 DEF n, give
<1> QED
  BY <1>1, <1>2

\* A pair the audit knows and that does not last, or known oxygen that does not.
Fatal(a) ==
  \/ \E d \in (Crew \X Supplies) \ a.blind : a.body[d[1]][d[2]] <= Need[d[2]]
  \/ "oxygen" \notin a.gaps /\ a.stock["oxygen"] <= Breath * Cardinality(Crew)

\* The stage base.
LEMMA MetabolisedFits ==
  ASSUME NEW a, AuditFits(a), a.status = "running"
  PROVE  LET n == Metabolised(a)
             breath == Breath * Cardinality(Crew)
         IN /\ GoesOn(n)
            /\ n.status = "fatal_in_scope" => Fatal(a)
            /\ n.status = "running" =>
                 /\ ~Fatal(a) /\ ~a.open /\ "oxygen" \notin a.gaps
                 /\ n.stock = [a.stock EXCEPT !["oxygen"] = @ - breath]
                 /\ n.body = [i \in Crew |-> [k \in Supplies |-> a.body[i][k] - Need[k]]]
                 /\ n.gaps = a.gaps /\ n.blind = a.blind /\ n.open = a.open
                 /\ n.dry = a.dry /\ n.supplied = a.supplied
<1> DEFINE n == Metabolised(a)
           breath == Breath * Cardinality(Crew)
           s == [a.stock EXCEPT !["oxygen"] = @ - breath]
           b == [i \in Crew |-> [k \in Supplies |-> a.body[i][k] - Need[k]]]
<1>1. CASE Fatal(a)
  <2>1. n = Ended("fatal_in_scope")
    BY <1>1 DEF Metabolised, Fatal
  <2> QED
    BY <1>1, <2>1, EndedFits DEF GoesOn, Verdicts
<1>2. CASE ~Fatal(a) /\ (a.open \/ "oxygen" \in a.gaps)
  <2>1. n = Ended("incomplete")
    BY <1>2 DEF Metabolised, Fatal
  <2> QED
    BY <1>2, <2>1, EndedFits DEF GoesOn, Verdicts
<1>3. CASE ~Fatal(a) /\ ~(a.open \/ "oxygen" \in a.gaps)
  <2>1. n = [a EXCEPT !.stock = s, !.body = b]
    BY <1>3 DEF Metabolised, Fatal
  <2>2. breath \in Nat
    BY CrewAssumption, FS_CardinalityType, RatesAssumption, TimesType
  <2>3. a.stock \in Stocks /\ a.stock["oxygen"] \in Nat
    BY AuditFields DEF Resources
  <2> HIDE DEF breath
  <2>4. a.stock["oxygen"] - breath \in Nat
    BY <1>3, <2>2, <2>3 DEF Fatal, breath
  <2>5. s \in Stocks /\ s["water"] = a.stock["water"] /\ s["power"] = a.stock["power"]
    BY <2>3, <2>4 DEF Stocks, Resources
  <2>6. ASSUME NEW i \in Crew, NEW k \in Supplies
        PROVE  a.body[i][k] - Need[k] \in Nat /\ a.body[i][k] - Need[k] <= BodyCapacity[k]
    <3>1. <<i, k>> \in (Crew \X Supplies) \ a.blind
      BY <1>3, AuditFields
    <3>2. ~(a.body[i][k] <= Need[k])
      BY <1>3, <3>1 DEF Fatal
    <3>3. Need[k] \in Nat
      BY AmountsAssumption
    <3> QED
      BY <3>2, <3>3, AuditFields
  <2>7. Within(b)
    BY <2>6 DEF Within, Bodies
  <2>8. s["water"] <= Capacity["water"] /\ s["power"] <= Capacity["power"]
    BY <2>5 DEF AuditFits
  <2> HIDE DEF n, s, b
  <2>11. a \in Audits /\ s \in Stocks /\ b \in Bodies
    BY <2>5, <2>7, AuditFields DEF Within
  <2>9. /\ n \in Audits /\ n.status = "running" /\ n.stock = s /\ n.body = b
        /\ n.gaps = a.gaps /\ n.blind = a.blind /\ n.open = a.open
        /\ n.dry = a.dry /\ n.supplied = a.supplied
    BY <2>1, <2>11 DEF Audits
  <2>10. GoesOn(n)
    BY <2>5, <2>7, <2>8, <2>9, AuditFields DEF GoesOn, AuditFits
  <2> QED
    BY <1>3, <2>9, <2>10 DEF n, s, b, breath
<1> QED
  BY <1>1, <1>2, <1>3

\* Work takes food, and nothing else, from those who do it.
LEMMA WorkedFits ==
  ASSUME NEW b \in Bodies, NEW workers \in SUBSET Crew, NEW work \in [workers -> 0 .. MaxWork]
  PROVE  /\ Worked(b, work) \in Bodies
         /\ \A i \in Crew :
              /\ Worked(b, work)[i]["water"] = b[i]["water"]
              /\ Worked(b, work)[i]["food"] =
                   IF i \in workers THEN Less(b[i]["food"], work[i] * EnergyPerWork)
                                    ELSE b[i]["food"]
              /\ \A k \in Supplies : Worked(b, work)[i][k] <= b[i][k]
<1> DEFINE w == Worked(b, work)
<1>1. w = [i \in Crew |-> IF i \in workers
                         THEN [b[i] EXCEPT !["food"] = Less(@, work[i] * EnergyPerWork)]
                         ELSE b[i]]
  BY DEF Worked
<1> HIDE DEF w
<1> SUFFICES ASSUME NEW i \in Crew
             PROVE  /\ w[i] \in [Supplies -> Nat]
                    /\ w[i]["water"] = b[i]["water"]
                    /\ w[i]["food"] = IF i \in workers
                                      THEN Less(b[i]["food"], work[i] * EnergyPerWork)
                                      ELSE b[i]["food"]
                    /\ \A k \in Supplies : w[i][k] <= b[i][k]
  BY <1>1 DEF Bodies, w
<1>2. /\ b[i] \in [Supplies -> Nat] /\ "food" \in Supplies /\ "water" \in Supplies
      /\ \A k \in Supplies : b[i][k] <= b[i][k]
  BY DEF Bodies, Supplies
<1>3. CASE i \notin workers
  BY <1>1, <1>2, <1>3
<1>4. CASE i \in workers
  <2> DEFINE cost == work[i] * EnergyPerWork
             left == Less(b[i]["food"], cost)
  <2>1. work[i] \in Nat
    BY <1>4, RatesAssumption
  <2>2. cost \in Nat
    BY <2>1, TimesType, RatesAssumption
  <2>3. w[i] = [b[i] EXCEPT !["food"] = left]
    BY <1>1, <1>4
  <2> HIDE DEF cost
  <2>4. left \in Nat /\ left <= b[i]["food"]
    BY <1>2, <2>2, LessType
  <2>5. w[i] \in [Supplies -> Nat] /\ w[i]["food"] = left /\ w[i]["water"] = b[i]["water"]
    BY <1>2, <2>3, <2>4
  <2> HIDE DEF left
  <2>6. \A k \in Supplies : w[i][k] <= b[i][k]
    BY <1>2, <2>4, <2>5 DEF Supplies
  <2> QED
    BY <1>4, <2>5, <2>6 DEF left, cost
<1> QED
  BY <1>3, <1>4

\* The stage generation.
LEMMA GeneratedFits ==
  ASSUME NEW a, AuditFits(a), a.status = "running", NEW workers \in SUBSET Crew,
         NEW work \in [workers -> 0 .. MaxWork], NEW total \in Nat,
         a.stock["power"] + total * PowerPerWork <= Capacity["power"]
  PROVE  LET n == Generated(a, work, total)
             oxygen == Less(a.stock["oxygen"], total * OxygenPerWork)
             b == Worked(a.body, work)
         IN /\ GoesOn(n)
            /\ n.status = "fatal_in_scope" <=>
                 oxygen = 0 \/ \E i \in Crew : b[i]["food"] = 0
            /\ n.status # "fatal_in_scope" =>
                 /\ n.status = "running"
                 /\ n.body = b /\ n.stock["oxygen"] = oxygen
                 /\ n.stock["power"] = a.stock["power"] + total * PowerPerWork
                 /\ n.stock["water"] = a.stock["water"] /\ n.stock["food"] = a.stock["food"]
                 /\ n.gaps = a.gaps /\ n.blind = a.blind /\ n.open = a.open
                 /\ n.dry = a.dry /\ n.supplied = a.supplied
<1> DEFINE n == Generated(a, work, total)
           breath == total * OxygenPerWork
           oxygen == Less(a.stock["oxygen"], breath)
           power == a.stock["power"] + total * PowerPerWork
           b == Worked(a.body, work)
           s == [a.stock EXCEPT !["oxygen"] = oxygen, !["power"] = power]
           fatal == oxygen = 0 \/ \E i \in Crew : b[i]["food"] = 0
<1>1. CASE fatal
  <2>1. n = Ended("fatal_in_scope")
    BY <1>1 DEF Generated
  <2> QED
    BY <1>1, <2>1, EndedFits DEF GoesOn, Verdicts
<1>2. CASE ~fatal
  <2>1. n = [a EXCEPT !.body = b, !.stock = s]
    <3>1. n = [a EXCEPT !.body = b, !.stock["oxygen"] = oxygen,
                        !.stock["power"] = @ + total * PowerPerWork]
      BY <1>2 DEF Generated
    <3>2. a.stock \in Stocks /\ a \in Audits
      BY AuditFields
    <3> QED
      BY <3>1, <3>2 DEF Audits, Stocks, Resources
  <2>2. /\ a.stock \in Stocks /\ a.body \in Bodies /\ a \in Audits
        /\ a.stock["oxygen"] \in Nat /\ a.stock["power"] \in Nat
    BY AuditFields DEF Resources
  <2>3. breath \in Nat /\ total * PowerPerWork \in Nat
    BY TimesType, RatesAssumption
  <2> HIDE DEF breath
  <2>4. oxygen \in Nat /\ power \in Nat
    <3>1. oxygen \in Nat
      BY <2>2, <2>3, LessType
    <3>2. power \in Nat
      BY <2>2, <2>3
    <3> QED
      BY <3>1, <3>2
  <2>5. /\ s \in Stocks /\ s["oxygen"] = oxygen /\ s["power"] = power
        /\ s["water"] = a.stock["water"] /\ s["food"] = a.stock["food"]
    BY <2>2, <2>4 DEF Stocks, Resources
  <2>6. Within(b)
    <3>1. b \in Bodies /\ \A i \in Crew, k \in Supplies : b[i][k] <= a.body[i][k]
      BY <2>2, WorkedFits
    <3> HIDE DEF b
    <3>2. \A i \in Crew, k \in Supplies : b[i][k] \in Nat
      BY <3>1 DEF Bodies
    <3>3. \A i \in Crew, k \in Supplies : b[i][k] <= BodyCapacity[k]
      BY <3>1, <3>2, AuditFields
    <3> QED
      BY <3>1, <3>3 DEF Within
  <2>7. s["water"] <= Capacity["water"] /\ s["power"] <= Capacity["power"]
    BY <2>5 DEF AuditFits
  <2> HIDE DEF n, s, b, oxygen, power
  <2>8. a \in Audits /\ s \in Stocks /\ b \in Bodies
    BY <2>2, <2>5, <2>6 DEF Within
  <2>9. /\ n \in Audits /\ n.status = "running" /\ n.stock = s /\ n.body = b
        /\ n.gaps = a.gaps /\ n.blind = a.blind /\ n.open = a.open
        /\ n.dry = a.dry /\ n.supplied = a.supplied
    BY <2>1, <2>8 DEF Audits
  <2>10. GoesOn(n)
    BY <2>5, <2>6, <2>7, <2>9, AuditFields DEF GoesOn, AuditFits
  <2> QED
    BY <1>2, <2>5, <2>9, <2>10 DEF n, b, oxygen, power, breath
<1> QED
  BY <1>1, <1>2

\* The stage water_production.
LEMMA WateredFits ==
  ASSUME NEW a, AuditFits(a), a.status = "running", NEW request \in Nat
  PROVE  LET n == Watered(a, request)
             made == Litres(a.stock, request)
             oxygen == Less(a.stock["oxygen"], made * OxygenPerLitre)
         IN /\ GoesOn(n)
            /\ n.status = "running" =>
                 /\ n.body = a.body /\ n.gaps = a.gaps /\ n.blind = a.blind
                 /\ n.open = a.open /\ n.dry = a.dry /\ n.supplied = a.supplied
                 /\ \/ request = 0 /\ n.stock = a.stock
                    \/ /\ {"availability", "water", "power", "oxygen"} \cap a.gaps = {}
                       /\ oxygen # 0 /\ n.stock["oxygen"] = oxygen
                       /\ n.stock["water"] = a.stock["water"] + made
                       /\ n.stock["power"] = a.stock["power"] - made * PowerPerLitre
                       /\ n.stock["food"] = a.stock["food"]
            /\ n.status = "fatal_in_scope" =>
                 /\ {"availability", "water", "power", "oxygen"} \cap a.gaps = {}
                 /\ oxygen = 0
<1> DEFINE n == Watered(a, request)
           made == Litres(a.stock, request)
           breath == made * OxygenPerLitre
           oxygen == Less(a.stock["oxygen"], breath)
           water == a.stock["water"] + made
           power == a.stock["power"] - made * PowerPerLitre
           s == [a.stock EXCEPT !["water"] = water, !["oxygen"] = oxygen, !["power"] = power]
           gaps == {"availability", "water", "power", "oxygen"} \cap a.gaps
<1>1. CASE request = 0
  BY <1>1 DEF Watered, GoesOn
<1>2. CASE request # 0 /\ gaps # {}
  <2>1. n = Ended("incomplete")
    BY <1>2 DEF Watered
  <2> QED
    BY <2>1, EndedFits DEF GoesOn, Verdicts
<1>3. CASE request # 0 /\ gaps = {} /\ oxygen = 0
  <2>1. n = Ended("fatal_in_scope")
    BY <1>3 DEF Watered
  <2> QED
    BY <1>3, <2>1, EndedFits DEF GoesOn, Verdicts
<1>4. CASE request # 0 /\ gaps = {} /\ oxygen # 0
  <2>1. n = [a EXCEPT !.stock = s]
    <3>1. n = [a EXCEPT !.stock["water"] = @ + made, !.stock["oxygen"] = oxygen,
                        !.stock["power"] = @ - made * PowerPerLitre]
      BY <1>4 DEF Watered
    <3>2. a.stock \in Stocks /\ a \in Audits
      BY AuditFields
    <3> QED
      BY <3>1, <3>2 DEF Audits, Stocks, Resources
  <2>2. /\ a.stock \in Stocks /\ a.stock["water"] <= Capacity["water"]
        /\ a.stock["water"] \in Nat /\ a.stock["oxygen"] \in Nat /\ a.stock["power"] \in Nat
        /\ Capacity["water"] \in Nat /\ Capacity["power"] \in Nat
        /\ a.stock["power"] <= Capacity["power"]
    BY AuditFields DEF Resources, AuditFits
  <2>3. /\ made \in Nat /\ made * PowerPerLitre <= a.stock["power"]
        /\ a.stock["water"] + made <= Capacity["water"]
    BY <2>2, LitresFit
  <2> HIDE DEF made
  <2>4. breath \in Nat /\ made * PowerPerLitre \in Nat
    BY <2>3, TimesType, RatesAssumption
  <2> HIDE DEF breath
  <2>5. oxygen \in Nat
    BY <2>2, <2>4, LessType
  <2>6. water \in Nat /\ water <= Capacity["water"]
    BY <2>2, <2>3
  <2>7. power \in Nat /\ power <= Capacity["power"]
    <3> DEFINE used == made * PowerPerLitre
    <3>1. used \in Nat /\ used <= a.stock["power"]
      BY <2>3, <2>4
    <3> HIDE DEF used
    <3>2. a.stock["power"] - used \in Nat /\ a.stock["power"] - used <= Capacity["power"]
      BY <2>2, <3>1
    <3> QED
      BY <3>2 DEF used
  <2> HIDE DEF water, power, oxygen
  <2>8. /\ s \in Stocks /\ s["oxygen"] = oxygen /\ s["power"] = power
        /\ s["water"] = water /\ s["food"] = a.stock["food"]
    BY <2>2, <2>5, <2>6, <2>7 DEF Stocks, Resources
  <2> HIDE DEF n, s
  <2>9. a \in Audits /\ s \in Stocks
    BY <2>8, AuditFields
  <2>10. /\ n \in Audits /\ n.status = "running" /\ n.stock = s /\ n.body = a.body
         /\ n.gaps = a.gaps /\ n.blind = a.blind /\ n.open = a.open
         /\ n.dry = a.dry /\ n.supplied = a.supplied
    BY <2>1, <2>9 DEF Audits
  <2>11. GoesOn(n)
    BY <2>6, <2>7, <2>8, <2>10 DEF GoesOn, AuditFits
  <2> QED
    BY <1>4, <2>8, <2>10, <2>11 DEF n, water, power, oxygen, breath, made
<1> QED
  BY <1>1, <1>2, <1>3, <1>4

\* One allocation: made, made in the dark, or not at all.
LEMMA IrrigatedFits ==
  ASSUME NEW a, AuditFits(a), a.status = "running", NEW p \in Plots, NEW crop \in Crops
  PROVE  LET n == Irrigated(a, p, crop)
             short(r, m) == r \notin a.gaps /\ a.stock[r] < m
             lacks == short("water", PlotWater) \/ short("power", PlotPower)
         IN /\ GoesOn(n) /\ n.status = "running" /\ n.dry = a.dry
            /\ lacks => n = a
            /\ ~lacks /\ {"water", "power"} \cap a.gaps # {} =>
                 /\ {"water", "power"} \subseteq n.gaps /\ a.gaps \subseteq n.gaps
                 /\ n.blind = a.blind \cup {p} /\ n.supplied = a.supplied
                 /\ n.stock = a.stock /\ n.open
            /\ ~lacks /\ {"water", "power"} \cap a.gaps = {} =>
                 /\ n.gaps = a.gaps /\ n.blind = a.blind /\ n.open = a.open
                 /\ n.supplied = a.supplied \cup {p}
                 /\ n.stock["water"] = a.stock["water"] - PlotWater
                 /\ n.stock["power"] = a.stock["power"] - PlotPower
                 /\ n.stock["food"] = a.stock["food"]
<1> DEFINE n == Irrigated(a, p, crop)
           short(r, m) == r \notin a.gaps /\ a.stock[r] < m
           lacks == short("water", PlotWater) \/ short("power", PlotPower)
           dark == {"water", "power"} \cap a.gaps # {}
<1>1. CASE lacks
  BY <1>1 DEF Irrigated, GoesOn
<1>2. CASE ~lacks /\ dark
  <2> DEFINE gaps == a.gaps \cup {"water", "power", "oxygen"}
             blind == a.blind \cup {p}
  <2>1. n = [a EXCEPT !.gaps = gaps, !.open = TRUE, !.blind = blind]
    BY <1>2 DEF Irrigated
  <2>2. /\ a \in Audits /\ gaps \in SUBSET Unknowns
        /\ blind \in SUBSET ((Crew \X Supplies) \cup Plots)
    BY AuditFields DEF Unknowns, Resources
  <2>3. {"water", "power"} \subseteq gaps /\ a.gaps \subseteq gaps
    OBVIOUS
  <2> HIDE DEF n, gaps, blind
  <2>4. /\ n \in Audits /\ n.status = "running"
        /\ n.gaps = gaps /\ n.blind = blind /\ n.open
        /\ n.stock = a.stock /\ n.body = a.body /\ n.dry = a.dry /\ n.supplied = a.supplied
    BY <2>1, <2>2 DEF Audits
  <2>5. GoesOn(n)
    BY <2>4 DEF GoesOn, AuditFits
  <2> QED
    BY <1>2, <2>3, <2>4, <2>5 DEF n, blind
<1>3. CASE ~lacks /\ ~dark
  <2> DEFINE water == a.stock["water"] - PlotWater
             power == a.stock["power"] - PlotPower
             oxygen == Smaller(Capacity["oxygen"], a.stock["oxygen"] + OxygenOf[crop])
             supplied == a.supplied \cup {p}
             s == [a.stock EXCEPT !["water"] = water, !["power"] = power, !["oxygen"] = oxygen]
  <2>1. n = [a EXCEPT !.supplied = supplied, !.stock = s]
    <3>1. n = [a EXCEPT !.supplied = @ \cup {p}, !.stock["water"] = @ - PlotWater,
                        !.stock["power"] = @ - PlotPower,
                        !.stock["oxygen"] = Smaller(Capacity["oxygen"], @ + OxygenOf[crop])]
      BY <1>3 DEF Irrigated
    <3>2. a.stock \in Stocks /\ a \in Audits
      BY AuditFields
    <3> QED
      BY <3>1, <3>2 DEF Audits, Stocks, Resources
  <2>2. /\ a.stock \in Stocks
        /\ a.stock["water"] \in Nat /\ a.stock["oxygen"] \in Nat /\ a.stock["power"] \in Nat
        /\ Capacity["water"] \in Nat /\ Capacity["power"] \in Nat /\ Capacity["oxygen"] \in Nat
        /\ a.stock["water"] <= Capacity["water"] /\ a.stock["power"] <= Capacity["power"]
    BY AuditFields DEF Resources, AuditFits
  <2>3. /\ PlotWater \in Nat /\ PlotPower \in Nat /\ OxygenOf[crop] \in Nat
        /\ a.stock["water"] >= PlotWater /\ a.stock["power"] >= PlotPower
    BY <1>3, <2>2, RatesAssumption, CropsAssumption
  <2>4. /\ water \in Nat /\ water <= Capacity["water"]
        /\ power \in Nat /\ power <= Capacity["power"]
    BY <2>2, <2>3
  <2>5. oxygen \in Nat
    <3>1. a.stock["oxygen"] + OxygenOf[crop] \in Nat
      BY <2>2, <2>3
    <3> QED
      BY <2>2, <3>1, SmallerType
  <2> HIDE DEF water, power, oxygen
  <2>6. /\ s \in Stocks /\ s["power"] = power /\ s["water"] = water
        /\ s["food"] = a.stock["food"]
    BY <2>2, <2>4, <2>5 DEF Stocks, Resources
  <2>7. supplied \in SUBSET Plots
    BY AuditFields
  <2> HIDE DEF n, s, supplied
  <2>8. a \in Audits /\ s \in Stocks
    BY <2>6, AuditFields
  <2>9. /\ n \in Audits /\ n.status = "running" /\ n.stock = s /\ n.body = a.body
        /\ n.gaps = a.gaps /\ n.blind = a.blind /\ n.open = a.open
        /\ n.dry = a.dry /\ n.supplied = supplied
    BY <2>1, <2>7, <2>8 DEF Audits
  <2>10. GoesOn(n)
    BY <2>4, <2>6, <2>9 DEF GoesOn, AuditFits
  <2> QED
    BY <1>3, <2>6, <2>9, <2>10 DEF n, water, power, supplied
<1> QED
  BY <1>1, <1>2, <1>3

\* The verdict on the plants is the last one.
LEMMA ClosedFits ==
  ASSUME NEW a, AuditFits(a)
  PROVE  LET n == Closed(a)
         IN /\ AuditFits(n)
            /\ n.status \in {"unsafe_in_scope", "feasible_in_scope", "incomplete"}
            /\ n.status = "unsafe_in_scope" <=> \E p \in Plots : Grows(p) /\ WillDie(a, p)
            /\ n.status = "feasible_in_scope" => ~a.open
<1> DEFINE n == Closed(a)
           status == IF \E p \in Plots : Grows(p) /\ WillDie(a, p) THEN "unsafe_in_scope"
                     ELSE IF a.open THEN "incomplete" ELSE "feasible_in_scope"
<1>1. n = [a EXCEPT !.status = status] /\ status \in Verdicts
  BY DEF Closed, Verdicts
<1>2. /\ status \in {"unsafe_in_scope", "feasible_in_scope", "incomplete"}
      /\ status = "unsafe_in_scope" <=> \E p \in Plots : Grows(p) /\ WillDie(a, p)
      /\ status = "feasible_in_scope" => ~a.open
  OBVIOUS
<1>3. a \in Audits
  BY AuditFields
<1> HIDE DEF n, status
<1>4. /\ n \in Audits /\ n.status = status /\ n.stock = a.stock /\ n.body = a.body
      /\ n.blind = a.blind /\ n.open = a.open
  BY <1>1, <1>3 DEF Audits
<1>5. AuditFits(n)
  BY <1>4 DEF AuditFits
<1> QED
  BY <1>2, <1>4, <1>5 DEF n

-----------------------------------------------------------------------------
(* The audit watches: its steps are those of the engine.                   *)

LEMMA WatchesStep == [NextAudit]_<<vars, auditVars>> => [Next]_vars
<1> SUFFICES ASSUME NextAudit PROVE Next
  BY DEF vars
<1>1. CASE BeginAudited
  BY <1>1 DEF BeginAudited, Next
<1>2. CASE RefillAudited
  BY <1>2 DEF RefillAudited, Refill, Next
<1>3. CASE RefillsDoneAudited
  BY <1>3 DEF RefillsDoneAudited, Next
<1>4. CASE GenerateAudited
  BY <1>4 DEF GenerateAudited, Generate, Next
<1>5. CASE ProduceWaterAudited
  BY <1>5 DEF ProduceWaterAudited, ProduceWater, Next
<1>6. CASE StartCropsAudited
  BY <1>6 DEF StartCropsAudited, Next
<1>7. CASE IrrigateAudited
  BY <1>7 DEF IrrigateAudited, Irrigate, Next
<1>8. CASE NeglectAudited
  BY <1>8 DEF NeglectAudited, Next
<1>9. CASE FinishAudited
  BY <1>9 DEF FinishAudited, Next
<1> QED
  BY <1>1, <1>2, <1>3, <1>4, <1>5, <1>6, <1>7, <1>8, <1>9 DEF NextAudit, Next

\* The composition adds nothing to the engine and takes no behaviour away from it: what
\* is proved of the engine holds of it, whatever the audit says.
THEOREM AuditOnlyWatches == SpecAudit => Spec
<1>1. InitAudit => Init
  BY DEF InitAudit
<1> QED
  BY <1>1, WatchesStep, PTL DEF SpecAudit, Spec

\* What is handed over when the audit has run a stage, or has returned before.
LEMMA StageTypes ==
  ASSUME AuditTypes, Stages, NEW a, Advance(a), Runs => GoesOn(a),
         phase \notin {"between", "plots"}, phase' # "between",
         UNCHANGED <<surprise, warned>>
  PROVE  AuditTypes' /\ Stages'
<1>1. AuditFits(audit') /\ audit'.status \notin {"none", "unsafe_in_scope", "feasible_in_scope"}
  <2>1. CASE Runs
    BY <2>1 DEF Advance, GoesOn
  <2>2. CASE ~Runs
    BY <2>2 DEF Advance, AuditTypes, Stages
  <2> QED
    BY <2>1, <2>2
<1> QED
  BY <1>1 DEF AuditTypes, Stages

\* A step of the engine between two stages.
LEMMA StillTypes ==
  ASSUME AuditTypes, Stages, UNCHANGED auditVars,
         \/ phase' = phase /\ busy' = busy
         \/ phase' = phase /\ phase # "between"
         \/ phase \notin {"between", "plots"} /\ phase' # "between"
  PROVE  AuditTypes' /\ Stages'
BY DEF AuditTypes, AuditFits, Stages, auditVars

LEMMA OpenedFits ==
  ASSUME Inv, NEW gaps \in SUBSET Unknowns
  PROVE  LET a == Opened(gaps)
         IN /\ AuditFits(a)
            /\ a.status \in {"running", "incomplete", "not_applicable"}
            /\ a.status = "running" =>
                 /\ a.stock = stock /\ a.body = body /\ a.gaps = gaps /\ a.blind = {}
                 /\ ~a.open /\ a.supplied = {} /\ a.dry = [p \in Plots |-> plots[p].dry]
                 /\ "life" \notin gaps /\ "rules" \notin gaps /\ ~AlreadyFailed
<1> DEFINE a == Opened(gaps)
           dry == [p \in Plots |-> plots[p].dry]
<1>1. CASE AlreadyFailed
  <2>1. a = Ended("not_applicable")
    BY <1>1 DEF Opened
  <2> QED
    BY <2>1, EndedFits DEF Verdicts
<1>2. CASE ~AlreadyFailed /\ {"life", "rules"} \cap gaps # {}
  <2>1. a = Ended("incomplete")
    BY <1>2 DEF Opened
  <2> QED
    BY <2>1, EndedFits DEF Verdicts
<1>3. CASE ~AlreadyFailed /\ {"life", "rules"} \cap gaps = {}
  <2>1. a = [NoAudit EXCEPT !.status = "running", !.stock = stock, !.body = body,
                            !.gaps = gaps, !.dry = dry]
    BY <1>3 DEF Opened
  <2>2. NoAudit \in Audits /\ stock \in Stocks /\ body \in Bodies
    BY NoAuditFits, StateTypes DEF AuditFits
  <2>3. dry \in [Plots -> Nat]
    BY DEF Inv, TypeOK, PlotStates
  <2>4. "life" \notin gaps /\ "rules" \notin gaps
    BY <1>3
  <2> HIDE DEF a, dry
  <2>5. /\ a \in Audits /\ a.status = "running" /\ a.stock = stock /\ a.body = body
        /\ a.gaps = gaps /\ a.dry = dry /\ a.blind = NoAudit.blind
        /\ a.open = NoAudit.open /\ a.supplied = NoAudit.supplied
    BY <2>1, <2>2, <2>3 DEF Audits, Verdicts
  <2>6. NoAudit.blind = {} /\ NoAudit.open = FALSE /\ NoAudit.supplied = {}
    BY DEF NoAudit
  <2>7. AuditFits(a)
    <3>1. Within(body)
      BY <2>2, StateTypes DEF Within
    <3>2. stock["water"] <= Capacity["water"] /\ stock["power"] <= Capacity["power"]
      BY StateTypes DEF Resources
    <3> QED
      BY <2>5, <2>6, <3>1, <3>2 DEF AuditFits
  <2> QED
    BY <1>3, <2>4, <2>5, <2>6, <2>7 DEF a, dry
<1> QED
  BY <1>1, <1>2, <1>3

\* The work of the audit: the verdict of the stage on shares of its own, the engine's
\* where both see the same.
LEMMA AuditWorksFits ==
  ASSUME NEW a, AuditFits(a), a.status = "running", NEW workers \in SUBSET Crew,
         NEW requests \in [workers -> 1 .. MaxWork], NEW work, NEW total,
         AuditWorks(a, requests, work, total)
  PROVE  \/ "power" \in a.gaps /\ audit' = Ended("incomplete")
         \/ /\ "power" \notin a.gaps
            /\ \E share \in [workers -> 0 .. MaxWork], sum \in Nat :
                 LET actual == TotalWork(a.stock, sum)
                 IN /\ sum = SumFunction(Caps(a.body, requests))
                    /\ Caps(a.body, requests) = Caps(body, requests)
                         /\ actual = TotalWork(stock, total) => share = work
                    /\ actual \in Nat /\ actual <= sum
                    /\ a.stock["power"] + actual * PowerPerWork <= Capacity["power"]
                    /\ audit' = Generated(a, share, actual)
<1>1. CASE "power" \in a.gaps
  BY <1>1 DEF AuditWorks
<1>2. CASE "power" \notin a.gaps
  <2>1. DOMAIN requests = workers /\ 0 .. MaxWork * Stations \subseteq Nat
    BY TimesType, RatesAssumption
  <2>2. PICK share \in [workers -> 0 .. MaxWork], sum \in Nat :
          /\ sum = SumFunction(Caps(a.body, requests))
          /\ Caps(a.body, requests) = Caps(body, requests)
               /\ TotalWork(a.stock, sum) = TotalWork(stock, total) => share = work
          /\ audit' = Generated(a, share, TotalWork(a.stock, sum))
    BY <1>2, <2>1 DEF AuditWorks
  <2>3. a.stock \in Stocks /\ a.stock["power"] <= Capacity["power"]
    BY AuditFields DEF AuditFits
  <2>4. /\ TotalWork(a.stock, sum) \in Nat /\ TotalWork(a.stock, sum) <= sum
        /\ a.stock["power"] + TotalWork(a.stock, sum) * PowerPerWork <= Capacity["power"]
    BY <2>3, WorkFits
  <2> QED
    BY <1>2, <2>2, <2>4
<1> QED
  BY <1>1, <1>2

\* Nothing but oxygen and food ever pends.
LEMMA WhatPends ==
  ASSUME Inv
  PROVE  {r \in Resources : pending[r] > 0} \subseteq {"oxygen", "food"}
BY DEF Inv, NothingElsePends, Resources

LEMMA WarningsType == ASSUME Inv PROVE Warnings \in [short : SUBSET Crew, doomed : SUBSET Crew]
<1>1. \A k \in Supplies : ShortOf(k) \subseteq Crew
  BY StateTypes DEF ShortOf
<1> QED
  BY <1>1 DEF Warnings, Supplies

LEMMA TypesBegin == ASSUME Inv, BeginAudited PROVE AuditTypes' /\ Stages'
<1>1. PICK gaps \in Gaps : audit' = Opened(gaps)
  BY DEF BeginAudited
<1>2. /\ AuditFits(audit')
      /\ audit'.status \in {"running", "incomplete", "not_applicable"}
  BY <1>1, OpenedFits, GapsAssumption
<1>3. surprise' \subseteq {"oxygen", "food"} /\ warned' = Warnings /\ phase' # "between"
  BY WhatPends DEF BeginAudited, Begin, Proceed
<1> QED
  BY <1>2, <1>3, WarningsType DEF AuditTypes, Stages

LEMMA TypesRefill == ASSUME Inv, AuditTypes, Stages, RefillAudited PROVE AuditTypes' /\ Stages'
<1>1. PICK i \in alive \ busy, k \in Supplies : \E request \in 0 .. RefillMax[k] :
        Refilling(i, k, request) /\ Advance(Refilled(audit, i, k, request))
  BY DEF RefillAudited
<1>2. PICK request \in 0 .. RefillMax[k] :
        Refilling(i, k, request) /\ Advance(Refilled(audit, i, k, request))
  BY <1>1
<1>3. i \in Crew /\ request \in Nat
  BY StateTypes, AmountsAssumption
<1>4. Runs => GoesOn(Refilled(audit, i, k, request))
  BY <1>3, RefilledFits DEF Runs, AuditTypes
<1>5. phase = "refill" /\ phase' = "refill" /\ UNCHANGED <<surprise, warned>>
  BY <1>2 DEF Refilling, RefillAudited
<1> QED
  BY <1>2, <1>4, <1>5, StageTypes

LEMMA TypesRefillsDone ==
  ASSUME Inv, AuditTypes, Stages, RefillsDoneAudited
  PROVE  AuditTypes' /\ Stages'
<1>1. Runs => GoesOn(Metabolised(audit))
  BY MetabolisedFits DEF Runs, AuditTypes
<1>2. /\ Advance(Metabolised(audit)) /\ UNCHANGED <<surprise, warned>>
      /\ phase = "refill" /\ phase' = "baseline"
  BY DEF RefillsDoneAudited, RefillsDone
<1> QED
  BY <1>1, <1>2, StageTypes

LEMMA TypesGenerate ==
  ASSUME Inv, AuditTypes, Stages, GenerateAudited
  PROVE  AuditTypes' /\ Stages'
<1>1. /\ phase = "generate" /\ phase' \notin {"between", "plots"}
      /\ UNCHANGED <<surprise, warned>>
  BY DEF GenerateAudited, NoWork, Generating, Proceed
<1>2. CASE audit' = audit
  BY <1>1, <1>2 DEF AuditTypes, Stages
<1>3. CASE \E workers \in Workers :
             \E requests \in [workers -> 1 .. MaxWork], work \in [workers -> 0 .. MaxWork],
                total \in 0 .. MaxWork * Stations :
               Runs /\ AuditWorks(audit, requests, work, total)
  <2>1. PICK workers \in Workers :
             \E requests \in [workers -> 1 .. MaxWork], work \in [workers -> 0 .. MaxWork],
                total \in 0 .. MaxWork * Stations :
               Runs /\ AuditWorks(audit, requests, work, total)
    BY <1>3
  <2>2. PICK requests \in [workers -> 1 .. MaxWork], work \in [workers -> 0 .. MaxWork],
             total \in 0 .. MaxWork * Stations :
               Runs /\ AuditWorks(audit, requests, work, total)
    BY <2>1
  <2>3. workers \in SUBSET Crew
    BY StateTypes DEF Workers
  <2>4. AuditFits(audit) /\ audit.status = "running"
    BY <2>2 DEF Runs, AuditTypes
  <2>5. GoesOn(audit')
    <3>1. CASE audit' = Ended("incomplete")
      BY <3>1, EndedFits DEF GoesOn, Verdicts
    <3>2. CASE \E share \in [workers -> 0 .. MaxWork], n \in Nat :
                 /\ audit.stock["power"] + n * PowerPerWork <= Capacity["power"]
                 /\ audit' = Generated(audit, share, n)
      BY <2>3, <2>4, <3>2, GeneratedFits
    <3> QED
      BY <2>2, <2>3, <2>4, <3>1, <3>2, AuditWorksFits
  <2>6. AuditTypes' /\ Stages'
    BY <1>1, <2>5 DEF GoesOn, AuditTypes, Stages
  <2> QED
    BY <2>6
<1> QED
  BY <1>2, <1>3 DEF GenerateAudited

LEMMA TypesWater ==
  ASSUME Inv, AuditTypes, Stages, ProduceWaterAudited
  PROVE  AuditTypes' /\ Stages'
<1>1. PICK request \in 0 .. MaxLitres : Producing(request) /\ Advance(Watered(audit, request))
  BY DEF ProduceWaterAudited
<1>2. request \in Nat
  BY RatesAssumption
<1>3. Runs => GoesOn(Watered(audit, request))
  BY <1>2, WateredFits DEF Runs, AuditTypes
<1>4. phase = "water" /\ phase' # "between" /\ UNCHANGED <<surprise, warned>>
  BY <1>1 DEF ProduceWaterAudited, Producing, Proceed
<1> QED
  BY <1>1, <1>3, <1>4, StageTypes

LEMMA TypesCrops ==
  ASSUME Inv, AuditTypes, Stages, StartCropsAudited
  PROVE  AuditTypes' /\ Stages'
<1> DEFINE a == IF "plots" \in audit.gaps THEN Ended("incomplete") ELSE audit
<1>1. Runs => GoesOn(a)
  BY EndedFits DEF GoesOn, Runs, AuditTypes, Verdicts
<1>2. /\ Advance(a) /\ UNCHANGED <<surprise, warned>>
      /\ phase = "crops" /\ phase' = "irrigate"
  BY DEF StartCropsAudited, StartCrops
<1> HIDE DEF a
<1> QED
  BY <1>1, <1>2, StageTypes

LEMMA TypesIrrigate ==
  ASSUME Inv, AuditTypes, Stages, IrrigateAudited
  PROVE  AuditTypes' /\ Stages'
<1>1. PICK p \in Plots \ attempted :
        Irrigating(p) /\ Advance(Irrigated(audit, p, plots[p].crop))
  BY DEF IrrigateAudited
<1>2. plots[p].crop \in Crops
  BY <1>1 DEF Irrigating, Grows, Inv, TypeOK, PlotStates
<1>3. Runs => GoesOn(Irrigated(audit, p, plots[p].crop))
  BY <1>2, IrrigatedFits DEF Runs, AuditTypes
<1>4. phase = "irrigate" /\ phase' = "irrigate" /\ UNCHANGED <<surprise, warned>>
  BY <1>1 DEF IrrigateAudited, Irrigating
<1> QED
  BY <1>1, <1>3, <1>4, StageTypes

LEMMA TypesNeglect ==
  ASSUME Inv, AuditTypes, Stages, NeglectAudited
  PROVE  AuditTypes' /\ Stages'
<1>1. phase = "irrigate" /\ phase' = "plots" /\ UNCHANGED <<surprise, warned>>
  BY DEF NeglectAudited, Neglect
<1>2. AuditFits(audit') /\ audit'.status # "none"
  <2>1. CASE Runs
    BY <2>1, ClosedFits DEF NeglectAudited, Advance, AuditTypes
  <2>2. CASE ~Runs
    BY <1>1, <2>2 DEF NeglectAudited, Advance, AuditTypes, Stages
  <2> QED
    BY <2>1, <2>2
<1> QED
  BY <1>1, <1>2 DEF AuditTypes, Stages

LEMMA TypesFinish == ASSUME FinishAudited PROVE AuditTypes' /\ Stages'
<1>1. /\ audit' = NoAudit /\ surprise' = {} /\ warned' = NoWarning
      /\ phase' = "between" /\ busy' = {}
  BY DEF FinishAudited, Finish
<1> QED
  BY <1>1, NoAuditFits DEF AuditTypes, Stages, NoWarning

LEMMA TypesInit == InitAudit => AuditTypes /\ Stages
<1> SUFFICES ASSUME InitAudit PROVE AuditTypes /\ Stages
  OBVIOUS
<1>1. /\ audit = NoAudit /\ surprise = {} /\ warned = NoWarning
      /\ phase = "between" /\ busy = {}
  BY DEF InitAudit, Init
<1> QED
  BY <1>1, NoAuditFits DEF AuditTypes, Stages, NoWarning

\* The steps of the engine the audit takes no part in.
Unwatched == (Consume \/ Breathe \/ PlotOps \/ EditResources) /\ UNCHANGED auditVars

LEMMA TypesUnwatched ==
  ASSUME AuditTypes, Stages, Unwatched
  PROVE  AuditTypes' /\ Stages'
<1>1. CASE Consume \/ Breathe
  <2>1. phase = "baseline" /\ phase' # "between"
    BY <1>1 DEF Consume, Breathe, Proceed
  <2> QED
    BY <2>1, StillTypes DEF Unwatched
<1>2. CASE PlotOps
  <2>1. phase' = phase /\ phase = "plots"
    BY <1>2 DEF PlotOps, Harvest, Plant, Clear, PlotWork
  <2> QED
    BY <2>1, StillTypes DEF Unwatched
<1>3. CASE EditResources
  BY <1>3, StillTypes DEF Unwatched, EditResources
<1> QED
  BY <1>1, <1>2, <1>3 DEF Unwatched

LEMMA TypesStep ==
  Inv /\ AuditTypes /\ Stages /\ [NextAudit]_<<vars, auditVars>> => AuditTypes' /\ Stages'
<1> SUFFICES ASSUME Inv, AuditTypes, Stages, [NextAudit]_<<vars, auditVars>>
             PROVE  AuditTypes' /\ Stages'
  OBVIOUS
<1>1. CASE UNCHANGED <<vars, auditVars>>
  BY <1>1, StillTypes DEF vars
<1>2. CASE NextAudit
  BY <1>2, TypesBegin, TypesRefill, TypesRefillsDone, TypesGenerate, TypesWater, TypesCrops,
     TypesIrrigate, TypesNeglect, TypesFinish, TypesUnwatched DEF NextAudit, Unwatched
<1> QED
  BY <1>1, <1>2

-----------------------------------------------------------------------------
(* Who lives through which phase.                                          *)

\* While a settlement goes on nobody has died.
LEMMA Underway ==
  ASSUME Inv, Ages, phase \notin {"between", "settled"}
  PROVE  /\ ~failed /\ alive = Crew /\ stock["oxygen"] > 0
         /\ \A i \in Crew, k \in Supplies : body[i][k] > 0
BY DEF Ages, Inv, LivingAreSupplied

\* check_deaths fails the mission exactly when something of everybody's, or of somebody's,
\* has run out.
LEMMA Outcome ==
  ASSUME Inv, Ages, phase \notin {"between", "settled"}, NEW b, NEW s, CheckDeaths(b, s)
  PROVE  /\ stock' = s /\ body' = b
         /\ failed' <=> s["oxygen"] = 0 \/ \E i \in Crew, k \in Supplies : b[i][k] = 0
<1> DEFINE dying == {i \in Crew : s["oxygen"] = 0 \/ \E k \in Supplies : b[i][k] = 0}
<1>1. stock' = s /\ body' = b /\ (failed' <=> dying # {})
  BY Underway DEF CheckDeaths
<1>2. Crew # {}
  BY CrewAssumption
<1> QED
  BY <1>1, <1>2

\* One of the personal consumptions: it fails the mission if there is no more than what is
\* needed.
LEMMA ConsumeOutcome ==
  ASSUME Inv, Ages, Consume
  PROVE  /\ stock' = stock /\ phase = "baseline" /\ busy' = busy
         /\ phase' = IF failed' THEN "settled" ELSE "baseline"
         /\ \E i \in Crew, k \in Supplies :
              /\ <<i, k>> \in due /\ due' = due \ {<<i, k>>}
              /\ failed' <=> Short(i, k)
              /\ \A j \in Crew, l \in Supplies :
                   body'[j][l] = IF j = i /\ l = k THEN Less(body[i][k], Need[k]) ELSE body[j][l]
<1>1. /\ phase = "baseline" /\ busy' = busy
      /\ phase' = IF failed' THEN "settled" ELSE "baseline"
  BY DEF Consume, Proceed
<1>2. PICK i \in Crew, k \in Supplies :
        /\ <<i, k>> \in due /\ due' = due \ {<<i, k>>}
        /\ CheckDeaths([body EXCEPT ![i][k] = Less(@, Need[k])], stock)
  BY DEF Consume
<1> DEFINE b == [body EXCEPT ![i][k] = Less(@, Need[k])]
<1>3. \A j \in Crew, l \in Supplies :
        b[j][l] = IF j = i /\ l = k THEN Less(body[i][k], Need[k]) ELSE body[j][l]
  BY StateTypes DEF Bodies
<1> HIDE DEF b
<1>4. /\ stock' = stock /\ body' = b
      /\ failed' <=> stock["oxygen"] = 0 \/ \E j \in Crew, l \in Supplies : b[j][l] = 0
  BY <1>1, <1>2, Outcome DEF b
<1>5. stock["oxygen"] > 0 /\ \A j \in Crew, l \in Supplies : body[j][l] > 0
  BY <1>1, Underway
<1>6. stock["oxygen"] \in Nat /\ body[i][k] \in Nat /\ Need[k] \in Nat
  BY StateTypes, AmountsAssumption DEF Resources
<1>7. b[i][k] = 0 <=> Short(i, k)
  BY <1>3, <1>6 DEF Short, Less
<1>8. \A j \in Crew, l \in Supplies : b[j][l] = 0 => j = i /\ l = k
  <2> SUFFICES ASSUME NEW j \in Crew, NEW l \in Supplies, ~(j = i /\ l = k)
               PROVE  b[j][l] # 0
    OBVIOUS
  <2>1. b[j][l] = body[j][l] /\ body[j][l] > 0 /\ body[j][l] \in Nat
    BY <1>3, <1>5, StateTypes
  <2> QED
    BY <2>1
<1>9. failed' <=> Short(i, k)
  BY <1>4, <1>5, <1>6, <1>7, <1>8
<1>10. \A j \in Crew, l \in Supplies :
         body'[j][l] = IF j = i /\ l = k THEN Less(body[i][k], Need[k]) ELSE body[j][l]
  BY <1>3, <1>4
<1> QED
  BY <1>1, <1>2, <1>4, <1>9, <1>10

\* The breathing of the whole crew.
LEMMA BreatheOutcome ==
  ASSUME Inv, Ages, Breathe
  PROVE  /\ phase = "baseline" /\ due = {} /\ body' = body /\ busy' = busy /\ due' = due
         /\ phase' = IF failed' THEN "settled" ELSE "generate"
         /\ stock' = [stock EXCEPT !["oxygen"] = Less(@, Breath * Cardinality(Crew))]
         /\ failed' <=> stock["oxygen"] <= Breath * Cardinality(Crew)
<1> DEFINE breath == Breath * Cardinality(Crew)
           s == [stock EXCEPT !["oxygen"] = Less(@, breath)]
<1>1. /\ phase = "baseline" /\ due = {} /\ busy' = busy /\ due' = due
      /\ phase' = IF failed' THEN "settled" ELSE "generate"
  BY DEF Breathe, Proceed
<1>2. /\ alive = Crew
      /\ \A i \in Crew, k \in Supplies : body[i][k] > 0
  BY <1>1, Underway
<1>3. CheckDeaths(body, s)
  BY <1>2 DEF Breathe
<1>4. breath \in Nat
  BY CrewAssumption, FS_CardinalityType, RatesAssumption, TimesType
<1> HIDE DEF breath
<1>5. stock \in Stocks /\ stock["oxygen"] \in Nat /\ \A i \in Crew, k \in Supplies : body[i][k] # 0
  BY <1>2, StateTypes DEF Resources
<1>6. s["oxygen"] = Less(stock["oxygen"], breath)
  BY <1>5 DEF Stocks, Resources
<1>7. s["oxygen"] = 0 <=> stock["oxygen"] <= breath
  BY <1>4, <1>5, <1>6 DEF Less
<1> HIDE DEF s
<1>8. /\ stock' = s /\ body' = body
      /\ failed' <=> s["oxygen"] = 0 \/ \E i \in Crew, k \in Supplies : body[i][k] = 0
  BY <1>1, <1>3, Outcome
<1> QED
  BY <1>1, <1>5, <1>7, <1>8 DEF s, breath

-----------------------------------------------------------------------------
(* The warnings of the baseline analysis.                                  *)

\* Who the formula gives one more tick has no more than the tick takes.
LEMMA OneTick ==
  ASSUME NEW s \in Nat, NEW r \in Nat, r > 0, FirstFatalTick(s, r) <= 1
  PROVE  s <= r
BY DEF FirstFatalTick

LEMMA WarnedInit == InitAudit => WarnedOf
BY DEF InitAudit, Init, WarnedOf

LEMMA WarnedBegin == ASSUME Inv, Stages, BeginAudited PROVE WarnedOf'
<1>1. /\ phase' \in {"refill", "settled"} /\ body' = body /\ busy' = {}
      /\ warned' = Warnings
  BY DEF BeginAudited, Begin, Proceed, CheckDeaths, Stages
<1>2. \A k \in Supplies : \A i \in ShortOf(k) : Short(i, k)
  <2> SUFFICES ASSUME NEW k \in Supplies, NEW i \in ShortOf(k) PROVE Short(i, k)
    OBVIOUS
  <2>1. body[i][k] \in Nat /\ Need[k] \in Nat /\ Need[k] > 0
        /\ FirstFatalTick(body[i][k], Need[k]) <= 1
    BY StateTypes, AmountsAssumption DEF ShortOf
  <2> QED
    BY <2>1, OneTick DEF Short
<1>3. /\ \A i \in warned'.short : \E k \in Supplies : Short(i, k)'
      /\ \A i \in warned'.doomed, k \in Supplies : Short(i, k)'
  BY <1>1, <1>2 DEF Warnings, Supplies, Short
<1> QED
  BY <1>1, <1>3 DEF WarnedOf, Supplies

LEMMA WarnedRefill == ASSUME Inv, AuditTypes, WarnedOf, RefillAudited PROVE WarnedOf'
<1>1. PICK i \in alive \ busy, k \in Supplies : \E request \in 0 .. RefillMax[k] :
        Refilling(i, k, request)
  BY DEF RefillAudited
<1>2. PICK give :
        /\ phase = "refill" /\ phase' = "refill" /\ busy' = busy \cup {i}
        /\ body' = [body EXCEPT ![i][k] = @ + give]
  BY <1>1 DEF Refilling
<1>3. \A j \in Crew, l \in Supplies : ~(j = i /\ l = k) => (Short(j, l)' <=> Short(j, l))
  BY <1>2, StateTypes DEF Short, Bodies
<1>4. warned' = warned /\ warned.short \subseteq Crew /\ warned.doomed \subseteq Crew
      /\ i \in Crew /\ i \notin busy
  BY StateTypes DEF RefillAudited, AuditTypes
<1> QED
  BY <1>2, <1>3, <1>4 DEF WarnedOf, Supplies

LEMMA WarnedRefillsDone ==
  ASSUME Inv, Ages, AuditTypes, WarnedOf, RefillsDoneAudited
  PROVE  WarnedOf'
<1>1. /\ phase = "refill" /\ phase' = "baseline" /\ body' = body /\ busy' = busy
      /\ warned' = warned /\ due' = Crew \X Supplies
  BY Underway DEF RefillsDoneAudited, RefillsDone
<1>2. warned.short \subseteq Crew /\ warned.doomed \subseteq Crew
  BY DEF AuditTypes
<1> QED
  BY <1>1, <1>2 DEF WarnedOf, Short

LEMMA WarnedConsume ==
  ASSUME Inv, Ages, AuditTypes, WarnedOf, Consume, UNCHANGED auditVars
  PROVE  WarnedOf'
<1>1. PICK i \in Crew, k \in Supplies :
        /\ <<i, k>> \in due /\ due' = due \ {<<i, k>>}
        /\ failed' <=> Short(i, k)
        /\ \A j \in Crew, l \in Supplies :
             body'[j][l] = IF j = i /\ l = k THEN Less(body[i][k], Need[k]) ELSE body[j][l]
  BY ConsumeOutcome
<1>2. /\ phase = "baseline" /\ phase' = IF failed' THEN "settled" ELSE "baseline"
      /\ busy' = busy /\ warned' = warned
  BY ConsumeOutcome DEF auditVars
<1>3. CASE failed'
  BY <1>2, <1>3 DEF WarnedOf
<1>4. CASE ~failed'
  <2>1. ASSUME NEW j \in (warned.short \ busy) \cup warned.doomed
        PROVE  \E l \in Supplies : <<j, l>> \in due' /\ Short(j, l)'
    <3>1. PICK l \in Supplies : <<j, l>> \in due /\ Short(j, l)
      BY <1>2, <2>1 DEF WarnedOf
    <3>2. <<j, l>> # <<i, k>> /\ j \in Crew
      BY <1>1, <1>4, <3>1, StateTypes
    <3>3. Short(j, l)'
      BY <1>1, <3>1, <3>2 DEF Short
    <3> QED
      BY <1>1, <3>1, <3>2, <3>3
  <2> QED
    BY <1>2, <1>4, <2>1 DEF WarnedOf
<1> QED
  BY <1>3, <1>4

LEMMA WarnedBreathe ==
  ASSUME Inv, Ages, WarnedOf, Breathe, UNCHANGED auditVars
  PROVE  WarnedOf'
<1>1. /\ phase = "baseline" /\ due = {} /\ busy' = busy /\ warned' = warned
      /\ phase' = IF failed' THEN "settled" ELSE "generate"
  BY BreatheOutcome DEF auditVars
<1>2. warned.short \subseteq busy /\ warned.doomed = {}
  BY <1>1 DEF WarnedOf
<1> QED
  BY <1>1, <1>2 DEF WarnedOf

\* After the baseline the crew that was used stays so until the tick is over.
LEMMA WarnedLate ==
  ASSUME WarnedOf, warned' = warned, busy \subseteq busy',
         phase \in {"generate", "water", "crops", "irrigate", "plots"},
         phase' \in {"generate", "water", "crops", "irrigate", "plots", "settled"}
  PROVE  WarnedOf'
BY DEF WarnedOf

LEMMA WarnedStep ==
  ASSUME Inv, Ages, AuditTypes, Stages, WarnedOf, [NextAudit]_<<vars, auditVars>>
  PROVE  WarnedOf'
<1>1. CASE UNCHANGED <<vars, auditVars>>
  BY <1>1 DEF WarnedOf, Short, vars, auditVars
<1>2. CASE GenerateAudited
  <2>1. phase = "generate" /\ phase' \in {"water", "settled"} /\ warned' = warned
    BY <1>2 DEF GenerateAudited, NoWork, Generating, Proceed
  <2>2. busy \subseteq busy'
    BY <1>2 DEF GenerateAudited, NoWork, Generating
  <2> QED
    BY <2>1, <2>2, WarnedLate
<1>3. CASE ProduceWaterAudited
  <2>1. /\ phase = "water" /\ phase' \in {"crops", "settled"} /\ busy' = busy
        /\ warned' = warned
    BY <1>3 DEF ProduceWaterAudited, Producing, Proceed
  <2> QED
    BY <2>1, WarnedLate
<1>4. CASE StartCropsAudited \/ IrrigateAudited \/ NeglectAudited
  <2>1. /\ phase \in {"crops", "irrigate"} /\ phase' \in {"irrigate", "plots"}
        /\ busy' = busy /\ warned' = warned
    BY <1>4 DEF StartCropsAudited, StartCrops, IrrigateAudited, Irrigating, NeglectAudited,
                Neglect
  <2> QED
    BY <2>1, WarnedLate
<1>5. CASE FinishAudited
  BY <1>5 DEF FinishAudited, Finish, WarnedOf
<1>6. CASE PlotOps /\ UNCHANGED auditVars
  <2>1. phase = "plots" /\ phase' = "plots" /\ busy \subseteq busy' /\ warned' = warned
    BY <1>6 DEF PlotOps, Harvest, Plant, Clear, PlotWork, auditVars
  <2> QED
    BY <2>1, WarnedLate
<1>7. CASE EditResources /\ UNCHANGED auditVars
  BY <1>7 DEF EditResources, WarnedOf
<1> QED
  BY <1>1, <1>2, <1>3, <1>4, <1>5, <1>6, <1>7, WarnedBegin, WarnedRefill, WarnedRefillsDone,
     WarnedConsume, WarnedBreathe DEF NextAudit

Watched == Inv /\ Ages /\ AuditTypes /\ Stages /\ WarnedOf

LEMMA WatchedStep == Watched /\ [NextAudit]_<<vars, auditVars>> => Watched'
BY InvStep, AgesStep, WatchesStep, TypesStep, WarnedStep DEF Watched

LEMMA AlwaysWatched == SpecAudit => []Watched
<1>1. InitAudit => Watched
  BY InvInit, AgesInit, TypesInit, WarnedInit DEF InitAudit, Watched
<1> QED
  BY <1>1, WatchedStep, PTL DEF SpecAudit

\* The baseline analysis warns in time: whom it gives one more tick the plan has refilled,
\* or the tick has killed, and whom it gives up no plan has saved.
THEOREM WarningsHold == SpecAudit => []WarningsAreRight
<1>1. Watched => WarningsAreRight
  BY DEF Watched, WarnedOf, WarningsAreRight
<1> QED
  BY <1>1, AlwaysWatched, PTL

-----------------------------------------------------------------------------
(* The verdict beside what happens.                                        *)

\* The audit of a stage goes on only if it was going on.
LEMMA RunsOn ==
  ASSUME NEW a, Advance(a), Runs'
  PROVE  Runs /\ audit' = a
BY DEF Advance, Runs

\* A supply that is no larger is not made larger by the same request.
LEMMA GiveLess ==
  ASSUME NEW mine \in Nat, NEW its \in Nat, mine <= its, NEW request \in Nat, NEW room \in Nat
  PROVE  /\ Smallest(request, mine, room) <= Smallest(request, its, room)
         /\ mine - Smallest(request, mine, room) <= its - Smallest(request, its, room)
BY DEF Smallest, Smaller

\* Of what is limited by a smaller store, as much is made, or all of that store.
LEMMA LimitedLess ==
  ASSUME NEW mine \in Nat, NEW its \in Nat, mine <= its, NEW a \in Nat, NEW b \in Nat
  PROVE  Smallest(a, mine, b) = Smallest(a, its, b) \/ Smallest(a, mine, b) = mine
BY DEF Smallest, Smaller

LEMMA TracksInit == InitAudit => Tracks /\ AlarmHolds
<1> SUFFICES ASSUME InitAudit PROVE Tracks /\ AlarmHolds
  OBVIOUS
<1>1. audit.status = "none"
  BY NoAuditFits DEF InitAudit
<1> QED
  BY <1>1 DEF Tracks, Runs, AlarmHolds

\* What is left of a tick brings nothing new to a verdict once the crew is through.
LEMMA AlarmLate ==
  ASSUME AlarmHolds, surprise' = surprise, phase \notin {"baseline", "settled"},
         audit'.status = "fatal_in_scope" => audit.status = "fatal_in_scope"
  PROVE  AlarmHolds'
BY DEF AlarmHolds

LEMMA TracksBegin == ASSUME Watched, BeginAudited PROVE Tracks' /\ AlarmHolds'
<1>1. PICK gaps \in Gaps : audit' = Opened(gaps)
  BY DEF BeginAudited
<1> DEFINE a == Opened(gaps)
           s == [r \in Resources |-> Smaller(Capacity[r], stock[r] + pending[r])]
<1>2. /\ a.status \in {"running", "incomplete", "not_applicable"}
      /\ a.status = "running" =>
           /\ a.stock = stock /\ a.body = body /\ ~a.open /\ a.supplied = {}
           /\ \A p \in Plots : a.dry[p] = plots[p].dry
  <2>1. /\ a.status \in {"running", "incomplete", "not_applicable"}
        /\ a.status = "running" =>
             /\ a.stock = stock /\ a.body = body /\ ~a.open /\ a.supplied = {}
             /\ a.dry = [p \in Plots |-> plots[p].dry]
    BY OpenedFits, GapsAssumption DEF Watched
  <2> HIDE DEF a
  <2> QED
    BY <2>1
<1>3. AlarmHolds'
  BY <1>1, <1>2 DEF AlarmHolds
<1>4. /\ ~failed /\ CheckDeaths(body, s) /\ Proceed("refill")
      /\ surprise' = {r \in Resources : pending[r] > 0} /\ plots' = plots
  BY DEF BeginAudited, Begin
<1>5. \A r \in Resources : /\ s[r] = stock[r] + pending[r]
                          /\ stock[r] \in Nat /\ pending[r] \in Nat
  <2> TAKE r \in Resources
  <2>1. /\ Capacity[r] \in Nat /\ stock[r] \in Nat /\ pending[r] \in Nat
        /\ stock[r] + pending[r] <= Capacity[r]
    BY StateTypes DEF Watched
  <2>2. Smaller(Capacity[r], stock[r] + pending[r]) = stock[r] + pending[r]
    BY <2>1, SmallerType
  <2> QED
    BY <2>1, <2>2
<1> HIDE DEF s
<1>6. \A r \in Resources :
        stock[r] <= stock'[r] /\ (r \notin surprise' => stock[r] = stock'[r])
  <2>1. stock' = s
    BY <1>4 DEF CheckDeaths
  <2>2. ASSUME NEW r \in Resources
        PROVE  stock[r] <= s[r] /\ (r \notin surprise' => stock[r] = s[r])
    BY <1>4, <1>5
  <2> QED
    BY <2>1, <2>2
<1>7. phase' = "refill" /\ body' = body
  <2>1. /\ alive = Crew /\ stock["oxygen"] > 0
        /\ \A i \in Crew, k \in Supplies : body[i][k] > 0 /\ body[i][k] \in Nat
    BY <1>4, StateTypes DEF Watched, Inv, LivingAreSupplied
  <2>2. s["oxygen"] # 0
    BY <1>5, <2>1 DEF Resources
  <2>3. \A i \in Crew, k \in Supplies : body[i][k] # 0
    BY <2>1
  <2> DEFINE dying == {i \in alive : s["oxygen"] = 0 \/ \E k \in Supplies : body[i][k] = 0}
  <2>4. dying = {}
    BY <2>1, <2>2, <2>3
  <2>5. body' = body /\ failed' = (failed \/ dying # {})
    BY <1>4 DEF CheckDeaths
  <2> QED
    BY <1>4, <2>4, <2>5 DEF Proceed
<1>8. \A i \in Crew, k \in Supplies : body[i][k] <= body[i][k]
  BY StateTypes DEF Watched
<1>9. Tracks'
  <2> SUFFICES ASSUME Runs' PROVE Agrees'
    BY DEF Tracks
  <2>1. /\ audit'.stock = stock /\ audit'.body = body /\ ~audit'.open /\ audit'.supplied = {}
        /\ \A p \in Plots : audit'.dry[p] = plots'[p].dry
    BY <1>1, <1>2, <1>4 DEF Runs
  <2>2. \A r \in Resources : Close(r, audit.stock[r], stock[r])'
    BY <1>6, <2>1 DEF Close
  <2>3. \A i \in Crew, k \in Supplies : CloseIn(i, k, audit.body[i][k], body[i][k])'
    BY <1>7, <1>8, <2>1 DEF CloseIn
  <2> QED
    BY <1>7, <2>1, <2>2, <2>3 DEF Agrees, Resources, Supplies
<1> QED
  BY <1>3, <1>9

\* What a refill of the audit leaves on its side and on the engine's.
LEMMA TracksRefilling ==
  ASSUME Watched, Agrees, Runs, NEW i \in Crew \ busy, NEW k \in Supplies,
         NEW request \in Nat, Refilling(i, k, request),
         audit' = Refilled(audit, i, k, request), surprise' = surprise
  PROVE  Agrees'
<1> DEFINE n == Refilled(audit, i, k, request)
           mine == Smallest(request, audit.stock[k], BodyCapacity[k] - audit.body[i][k])
           its == Smallest(request, stock[k], BodyCapacity[k] - body[i][k])
           unknown == k \in audit.gaps \/ <<i, k>> \in audit.blind
<1>1. /\ AuditFits(audit) /\ audit.status = "running"
      /\ phase = "refill" /\ phase' = "refill" /\ busy' = busy \cup {i} /\ plots' = plots
      /\ stock' = [stock EXCEPT ![k] = @ - its]
      /\ body' = [body EXCEPT ![i][k] = @ + its]
  BY DEF Watched, AuditTypes, Runs, Refilling, fieldVars
<1>2. /\ n.dry = audit.dry /\ n.supplied = audit.supplied
      /\ unknown => /\ n.gaps = audit.gaps \cup {k} /\ n.blind = audit.blind \cup {<<i, k>>}
                    /\ n.stock = audit.stock /\ n.body = audit.body
      /\ ~unknown => /\ n.gaps = audit.gaps /\ n.blind = audit.blind
                     /\ \A r \in Resources :
                          n.stock[r] = IF r = k THEN audit.stock[k] - mine ELSE audit.stock[r]
                     /\ \A j \in Crew, l \in Supplies :
                          n.body[j][l] = IF j = i /\ l = k THEN audit.body[i][k] + mine
                                                          ELSE audit.body[j][l]
  BY <1>1, RefilledFits
<1>3. /\ stock \in Stocks /\ body \in Bodies /\ audit.stock \in Stocks /\ audit.body \in Bodies
      /\ k \in Resources
      /\ stock[k] \in Nat /\ audit.stock[k] \in Nat
      /\ body[i][k] \in Nat /\ audit.body[i][k] \in Nat
      /\ BodyCapacity[k] \in Nat /\ BodyCapacity[k] - body[i][k] \in Nat
  <2>1. k \in Resources
    BY DEF Supplies, Resources
  <2>2. body[i][k] \in Nat /\ BodyCapacity[k] \in Nat /\ body[i][k] <= BodyCapacity[k]
    BY StateTypes, AmountsAssumption DEF Watched
  <2> QED
    BY <1>1, <2>1, <2>2, StateTypes, AuditFields DEF Watched
<1> HIDE DEF n, mine, its
<1>4. /\ \A r \in Resources : stock'[r] = IF r = k THEN stock[k] - its ELSE stock[r]
      /\ \A j \in Crew, l \in Supplies :
           body'[j][l] = IF j = i /\ l = k THEN body[i][k] + its ELSE body[j][l]
  BY <1>1, <1>3 DEF Stocks, Bodies
<1>5. \A r \in Supplies \cup {"power", "oxygen"} : r \in Resources
  BY DEF Supplies, Resources
<1>6. CASE unknown
  <2>1. \A r \in Supplies \cup {"power"} :
          r \notin audit'.gaps => Close(r, audit.stock[r], stock[r])'
    BY <1>2, <1>4, <1>5, <1>6 DEF Agrees, Close, n
  <2>2. \A j \in Crew, l \in Supplies :
          <<j, l>> \notin audit'.blind => CloseIn(j, l, audit.body[j][l], body[j][l])'
    BY <1>1, <1>2, <1>4, <1>6 DEF Agrees, CloseIn, n
  <2>3. Close("oxygen", audit.stock["oxygen"], stock["oxygen"])'
    BY <1>1, <1>2, <1>4, <1>5, <1>6 DEF Agrees, Close, n, Supplies
  <2> QED
    BY <1>1, <1>2, <2>1, <2>2, <2>3 DEF Agrees, n
<1>7. CASE ~unknown
  <2>1. /\ audit.stock[k] <= stock[k] /\ (k \notin surprise => audit.stock[k] = stock[k])
        /\ audit.body[i][k] = body[i][k]
    BY <1>1, <1>7 DEF Agrees, Close, CloseIn
  <2>2. /\ mine <= its /\ audit.stock[k] - mine <= stock[k] - its
        /\ mine \in Nat /\ its \in Nat
    BY <1>3, <2>1, GiveLess, SmallestType DEF mine, its
  <2>3. k \notin surprise => mine = its
    BY <2>1 DEF mine, its
  <2>4. /\ \A r \in Resources :
             audit'.stock[r] = IF r = k THEN audit.stock[k] - mine ELSE audit.stock[r]
        /\ \A j \in Crew, l \in Supplies :
             audit'.body[j][l] = IF j = i /\ l = k THEN audit.body[i][k] + mine
                                                  ELSE audit.body[j][l]
    BY <1>2, <1>7 DEF n
  <2>5. \A r \in Supplies \cup {"power"} :
          r \notin audit'.gaps => Close(r, audit.stock[r], stock[r])'
    BY <1>2, <1>4, <1>5, <1>7, <2>1, <2>2, <2>3, <2>4 DEF Agrees, Close, n
  <2>6. \A j \in Crew, l \in Supplies :
          <<j, l>> \notin audit'.blind => CloseIn(j, l, audit.body[j][l], body[j][l])'
    <3> SUFFICES ASSUME NEW j \in Crew, NEW l \in Supplies, <<j, l>> \notin audit'.blind
                 PROVE  CloseIn(j, l, audit.body[j][l], body[j][l])'
      OBVIOUS
    <3>1. CASE j = i /\ l = k
      <4>1. audit'.body[j][l] = body[i][k] + mine /\ body'[j][l] = body[i][k] + its
        BY <1>4, <2>1, <2>4, <3>1
      <4>2. body[i][k] + mine <= body[i][k] + its
        BY <1>3, <2>2
      <4> QED
        BY <1>1, <2>3, <3>1, <4>1, <4>2 DEF CloseIn
    <3>2. CASE ~(j = i /\ l = k)
      <4>1. audit'.body[j][l] = audit.body[j][l] /\ body'[j][l] = body[j][l]
        BY <1>4, <2>4, <3>2
      <4>2. CloseIn(j, l, audit.body[j][l], body[j][l])
        BY <1>1, <1>2, <1>7 DEF Agrees, n
      <4> QED
        BY <1>1, <4>1, <4>2 DEF CloseIn
    <3> QED
      BY <3>1, <3>2
  <2>7. Close("oxygen", audit.stock["oxygen"], stock["oxygen"])'
    <3>1. audit'.stock["oxygen"] = audit.stock["oxygen"] /\ stock'["oxygen"] = stock["oxygen"]
      BY <1>4, <1>5, <2>4 DEF Supplies
    <3> QED
      BY <1>1, <3>1 DEF Agrees, Close
  <2> QED
    BY <1>1, <1>2, <2>5, <2>6, <2>7 DEF Agrees, n
<1> QED
  BY <1>6, <1>7

LEMMA TracksRefill ==
  ASSUME Watched, Tracks, AlarmHolds, RefillAudited
  PROVE  Tracks' /\ AlarmHolds'
<1>1. PICK i \in alive \ busy, k \in Supplies : \E request \in 0 .. RefillMax[k] :
        Refilling(i, k, request) /\ Advance(Refilled(audit, i, k, request))
  BY DEF RefillAudited
<1>2. PICK request \in 0 .. RefillMax[k] :
        Refilling(i, k, request) /\ Advance(Refilled(audit, i, k, request))
  BY <1>1
<1>3. i \in Crew \ busy /\ request \in Nat
  BY StateTypes, AmountsAssumption DEF Watched
<1>4. surprise' = surprise /\ phase = "refill"
  BY <1>2 DEF RefillAudited, Refilling
<1>5. Tracks'
  <2> SUFFICES ASSUME Comparable', Runs' PROVE Agrees'
    BY DEF Tracks
  <2>1. Runs /\ audit' = Refilled(audit, i, k, request) /\ Agrees
    BY <1>2, <1>4, RunsOn DEF Comparable, Tracks
  <2> QED
    BY <1>2, <1>3, <1>4, <2>1, TracksRefilling
<1>6. AlarmHolds'
  <2>1. Runs => Refilled(audit, i, k, request).status = "running"
    BY <1>3, RefilledFits DEF Runs, Watched, AuditTypes
  <2>2. audit'.status = "fatal_in_scope" => audit.status = "fatal_in_scope"
    BY <1>2, <2>1 DEF Advance
  <2> QED
    BY <1>4, <2>2, AlarmLate
<1> QED
  BY <1>5, <1>6

LEMMA BreathType == Breath * Cardinality(Crew) \in Nat
BY CrewAssumption, FS_CardinalityType, RatesAssumption, TimesType

LEMMA TracksRefillsDone ==
  ASSUME Watched, Tracks, AlarmHolds, RefillsDoneAudited
  PROVE  Tracks' /\ AlarmHolds'
<1> DEFINE n == Metabolised(audit)
           breath == Breath * Cardinality(Crew)
<1>1. /\ phase = "refill" /\ phase' = "baseline" /\ due' = Crew \X Supplies
      /\ Advance(n) /\ surprise' = surprise
      /\ stock' = stock /\ body' = body /\ busy' = busy /\ plots' = plots
  BY Underway DEF RefillsDoneAudited, RefillsDone, fieldVars, Watched
<1>2. Runs => /\ n.status = "fatal_in_scope" => Fatal(audit)
              /\ n.status = "running" =>
                   /\ ~Fatal(audit) /\ ~audit.open /\ "oxygen" \notin audit.gaps
                   /\ n.stock = [audit.stock EXCEPT !["oxygen"] = @ - breath]
                   /\ n.body = [i \in Crew |-> [k \in Supplies |-> audit.body[i][k] - Need[k]]]
                   /\ n.gaps = audit.gaps /\ n.blind = audit.blind /\ n.open = audit.open
                   /\ n.dry = audit.dry /\ n.supplied = audit.supplied
  BY MetabolisedFits DEF Runs, Watched, AuditTypes
<1>3. AuditFits(audit)
  BY DEF Watched, AuditTypes
<1> HIDE DEF n
<1>4. Tracks'
  <2> SUFFICES ASSUME Comparable', Runs' PROVE Agrees'
    BY DEF Tracks
  <2>1. Runs /\ audit' = n /\ Agrees
    BY <1>1, RunsOn DEF Comparable, Tracks
  <2>2. n.status = "running"
    BY <2>1 DEF Runs
  <2>3. ~Fatal(audit) /\ audit.blind = {} /\ ~audit.open
    BY <1>2, <1>3, <2>1, <2>2, AuditFields
  <2>4. audit.stock \in Stocks /\ audit.stock["oxygen"] \in Nat /\ breath \in Nat
    BY <1>3, AuditFields, BreathType DEF Resources
  <2> HIDE DEF breath
  <2>5. audit.stock["oxygen"] > breath
    BY <1>2, <2>1, <2>2, <2>3, <2>4 DEF Fatal, breath
  <2>6. /\ audit'.stock["oxygen"] = audit.stock["oxygen"] - breath
        /\ \A r \in Supplies \cup {"power"} : audit'.stock[r] = audit.stock[r]
        /\ audit'.gaps = audit.gaps
    BY <1>2, <2>1, <2>2, <2>4 DEF Stocks, Resources, Supplies
  <2>7. audit'.stock["oxygen"] + breath = audit.stock["oxygen"] /\ audit'.stock["oxygen"] > 0
    BY <2>4, <2>5, <2>6
  <2>8. Close("oxygen", audit.stock["oxygen"] + Breath * Cardinality(Crew), stock["oxygen"])'
    BY <1>1, <2>1, <2>7 DEF Agrees, Close, breath
  <2>9. \A r \in Supplies \cup {"power"} :
          r \notin audit'.gaps => Close(r, audit.stock[r], stock[r])'
    BY <1>1, <2>1, <2>6 DEF Agrees, Close
  <2>10. \A i \in Crew, k \in Supplies :
           audit'.body[i][k] > 0 /\ CloseIn(i, k, audit.body[i][k] + Yet(i, k), body[i][k])'
    <3> SUFFICES ASSUME NEW i \in Crew, NEW k \in Supplies
                 PROVE  /\ audit'.body[i][k] > 0
                        /\ CloseIn(i, k, audit.body[i][k] + Yet(i, k), body[i][k])'
      OBVIOUS
    <3>1. audit'.body[i][k] = audit.body[i][k] - Need[k]
      BY <1>2, <2>1, <2>2
    <3>2. audit.body[i][k] \in Nat /\ Need[k] \in Nat
      BY <1>3, AuditFields, AmountsAssumption
    <3>3. ~(audit.body[i][k] <= Need[k])
      <4>1. <<i, k>> \in (Crew \X Supplies) \ audit.blind
        BY <2>3
      <4> QED
        BY <2>3, <4>1 DEF Fatal
    <3>4. Yet(i, k)' = Need[k]
      BY <1>1 DEF Yet
    <3>5. audit'.body[i][k] > 0 /\ audit'.body[i][k] + Yet(i, k)' = audit.body[i][k]
      BY <3>1, <3>2, <3>3, <3>4
    <3>6. CloseIn(i, k, audit.body[i][k], body[i][k])
      BY <1>1, <2>1, <2>3 DEF Agrees
    <3> QED
      BY <1>1, <3>5, <3>6 DEF CloseIn
  <2> QED
    BY <1>1, <1>2, <2>1, <2>2, <2>3, <2>7, <2>8, <2>9, <2>10 DEF Agrees
<1>5. AlarmHolds'
  <2> SUFFICES ASSUME audit'.status = "fatal_in_scope", surprise' = {}
               PROVE  \/ \E d \in Crew \X Supplies : Short(d[1], d[2])'
                      \/ stock'["oxygen"] <= Breath * Cardinality(Crew)
    BY <1>1 DEF AlarmHolds
  <2>1. Runs /\ audit' = n
    BY <1>1 DEF Advance, AlarmHolds
  <2>2. Fatal(audit) /\ Agrees /\ surprise = {}
    BY <1>1, <1>2, <2>1 DEF Comparable, Tracks
  <2>3. CASE "oxygen" \notin audit.gaps /\ audit.stock["oxygen"] <= breath
    BY <1>1, <2>2, <2>3 DEF Agrees, Close
  <2>4. CASE \E d \in (Crew \X Supplies) \ audit.blind : audit.body[d[1]][d[2]] <= Need[d[2]]
    <3>1. PICK i \in Crew, k \in Supplies :
            <<i, k>> \notin audit.blind /\ audit.body[i][k] <= Need[k]
      BY <2>4
    <3>2. audit.body[i][k] = body[i][k]
      BY <1>1, <2>2, <3>1 DEF Agrees, CloseIn
    <3>3. Short(i, k)'
      BY <1>1, <3>1, <3>2 DEF Short
    <3>4. <<i, k>> \in Crew \X Supplies /\ <<i, k>>[1] = i /\ <<i, k>>[2] = k
      OBVIOUS
    <3> QED
      BY <3>3, <3>4 DEF Short
  <2> QED
    BY <2>2, <2>3, <2>4 DEF Fatal
<1> QED
  BY <1>4, <1>5

LEMMA TracksConsume ==
  ASSUME Watched, Tracks, AlarmHolds, Consume, UNCHANGED auditVars
  PROVE  Tracks' /\ AlarmHolds'
<1>1. /\ stock' = stock /\ phase = "baseline" /\ busy' = busy
      /\ phase' = IF failed' THEN "settled" ELSE "baseline"
      /\ audit' = audit /\ surprise' = surprise /\ plots' = plots
  BY ConsumeOutcome DEF Watched, auditVars, Consume, fieldVars
<1>2. PICK i \in Crew, k \in Supplies :
        /\ <<i, k>> \in due /\ due' = due \ {<<i, k>>}
        /\ failed' <=> Short(i, k)
        /\ \A j \in Crew, l \in Supplies :
             body'[j][l] = IF j = i /\ l = k THEN Less(body[i][k], Need[k]) ELSE body[j][l]
  BY ConsumeOutcome DEF Watched
<1>3. body[i][k] \in Nat /\ Need[k] \in Nat
  BY StateTypes, AmountsAssumption DEF Watched
<1>4. Tracks'
  <2> SUFFICES ASSUME Comparable', Runs' PROVE Agrees'
    BY DEF Tracks
  <2>1. Runs /\ Agrees
    BY <1>1 DEF Runs, Comparable, Tracks
  <2>2. audit.body \in Bodies
    BY AuditFields DEF Watched, AuditTypes
  <2>3. ~failed' /\ Less(body[i][k], Need[k]) = body[i][k] - Need[k]
    <3>1. /\ audit.body[i][k] > 0 /\ audit.body[i][k] + Need[k] <= body[i][k]
          /\ audit.body[i][k] \in Nat
      BY <1>1, <1>2, <2>1, <2>2 DEF Agrees, CloseIn, Yet, Bodies
    <3>2. body[i][k] > Need[k]
      BY <1>3, <3>1
    <3> QED
      BY <1>2, <1>3, <3>2 DEF Short, Less
  <2>4. ASSUME NEW j \in Crew, NEW l \in Supplies
        PROVE  audit'.body[j][l] > 0 /\ CloseIn(j, l, audit.body[j][l] + Yet(j, l), body[j][l])'
    <3>1. audit.body[j][l] > 0 /\ CloseIn(j, l, audit.body[j][l] + Yet(j, l), body[j][l])
      BY <1>1, <2>1 DEF Agrees
    <3>2. CASE j = i /\ l = k
      <4>1. Yet(j, l) = Need[k] /\ Yet(j, l)' = 0 /\ body'[j][l] = body[i][k] - Need[k]
        BY <1>2, <2>3, <3>2 DEF Yet
      <4>2. audit.body[i][k] \in Nat
        BY <2>2 DEF Bodies
      <4>3. /\ audit.body[i][k] + Need[k] <= body[i][k]
            /\ i \notin busy \/ k \notin surprise => audit.body[i][k] + Need[k] = body[i][k]
        BY <3>1, <3>2, <4>1 DEF CloseIn
      <4>4. /\ audit.body[i][k] + 0 <= body[i][k] - Need[k]
            /\ i \notin busy \/ k \notin surprise => audit.body[i][k] + 0 = body[i][k] - Need[k]
        BY <1>3, <4>2, <4>3
      <4> QED
        BY <1>1, <3>1, <3>2, <4>1, <4>4 DEF CloseIn
    <3>3. CASE ~(j = i /\ l = k)
      <4>1. Yet(j, l)' = Yet(j, l) /\ body'[j][l] = body[j][l]
        BY <1>2, <3>3 DEF Yet
      <4> QED
        BY <1>1, <3>1, <4>1 DEF CloseIn
    <3> QED
      BY <3>2, <3>3
  <2>5. phase' = "baseline"
    BY <1>1, <2>3
  <2> QED
    BY <1>1, <2>1, <2>4, <2>5 DEF Agrees, Close
<1>5. AlarmHolds'
  <2> SUFFICES ASSUME audit.status = "fatal_in_scope", surprise = {}, ~failed'
               PROVE  \/ \E d \in due' : Short(d[1], d[2])'
                      \/ stock'["oxygen"] <= Breath * Cardinality(Crew)
    BY <1>1 DEF AlarmHolds
  <2>1. \/ \E d \in due : Short(d[1], d[2])
        \/ stock["oxygen"] <= Breath * Cardinality(Crew)
    BY <1>1 DEF AlarmHolds
  <2>2. ASSUME NEW d \in due, Short(d[1], d[2])
        PROVE  d \in due' /\ Short(d[1], d[2])'
    <3>1. d \in Crew \X Supplies
      BY StateTypes DEF Watched
    <3>2. PICK j \in Crew, l \in Supplies : d = <<j, l>>
      BY <3>1
    <3>3. ~(j = i /\ l = k)
      BY <1>2, <2>2, <3>2
    <3>4. body'[j][l] = body[j][l] /\ d \in due'
      BY <1>2, <3>2, <3>3
    <3> QED
      BY <2>2, <3>2, <3>4 DEF Short
  <2> QED
    BY <1>1, <2>1, <2>2
<1> QED
  BY <1>4, <1>5

LEMMA TracksBreathe ==
  ASSUME Watched, Tracks, AlarmHolds, Breathe, UNCHANGED auditVars
  PROVE  Tracks' /\ AlarmHolds'
<1> DEFINE breath == Breath * Cardinality(Crew)
<1>1. /\ phase = "baseline" /\ due = {} /\ body' = body /\ busy' = busy /\ due' = due
      /\ phase' = IF failed' THEN "settled" ELSE "generate"
      /\ stock' = [stock EXCEPT !["oxygen"] = Less(@, breath)]
      /\ failed' <=> stock["oxygen"] <= breath
  BY BreatheOutcome DEF Watched
<1>2. audit' = audit /\ surprise' = surprise /\ plots' = plots
  BY DEF auditVars, Breathe, fieldVars
<1>3. AlarmHolds'
  BY <1>1, <1>2 DEF AlarmHolds
<1>4. Tracks'
  <2> SUFFICES ASSUME Comparable', Runs' PROVE Agrees'
    BY DEF Tracks
  <2>1. Runs /\ Agrees
    BY <1>2 DEF Runs, Comparable, Tracks
  <2>2. /\ stock \in Stocks /\ stock["oxygen"] \in Nat /\ audit.stock["oxygen"] \in Nat
        /\ breath \in Nat
    BY StateTypes, AuditFields, BreathType DEF Watched, AuditTypes, Resources
  <2>3. /\ audit.stock["oxygen"] + breath <= stock["oxygen"] /\ audit.stock["oxygen"] > 0
        /\ "oxygen" \notin surprise => audit.stock["oxygen"] + breath = stock["oxygen"]
    BY <1>1, <2>1 DEF Agrees, Close
  <2> HIDE DEF breath
  <2>4. ~(stock["oxygen"] <= breath) /\ Less(stock["oxygen"], breath) = stock["oxygen"] - breath
    BY <2>2, <2>3 DEF Less
  <2>5. /\ phase' = "generate" /\ stock'["oxygen"] = stock["oxygen"] - breath
        /\ \A r \in Supplies \cup {"power"} : stock'[r] = stock[r]
    BY <1>1, <2>2, <2>4 DEF Stocks, Resources, Supplies
  <2>6. Close("oxygen", audit.stock["oxygen"], stock["oxygen"])'
    <3>1. /\ audit.stock["oxygen"] <= stock["oxygen"] - breath
          /\ "oxygen" \notin surprise => audit.stock["oxygen"] = stock["oxygen"] - breath
      BY <2>2, <2>3
    <3> QED
      BY <1>2, <2>5, <3>1 DEF Close
  <2>7. \A r \in Supplies \cup {"power"} :
          r \notin audit'.gaps => Close(r, audit.stock[r], stock[r])'
    BY <1>2, <2>1, <2>5 DEF Agrees, Close
  <2>8. \A i \in Crew, k \in Supplies : CloseIn(i, k, audit.body[i][k], body[i][k])'
    <3> SUFFICES ASSUME NEW i \in Crew, NEW k \in Supplies
                 PROVE  CloseIn(i, k, audit.body[i][k], body[i][k])'
      OBVIOUS
    <3>1. CloseIn(i, k, audit.body[i][k] + Yet(i, k), body[i][k]) /\ Yet(i, k) = 0
      BY <1>1, <2>1 DEF Agrees, Yet
    <3>2. audit.body[i][k] + 0 = audit.body[i][k]
      BY AuditFields DEF Watched, AuditTypes
    <3> QED
      BY <1>1, <1>2, <3>1, <3>2 DEF CloseIn
  <2> QED
    BY <1>1, <1>2, <2>1, <2>5, <2>6, <2>7, <2>8 DEF Agrees
<1> QED
  BY <1>3, <1>4

\* The generation of the engine, and when it kills.
LEMMA WorkOutcome ==
  ASSUME Inv, Ages, NEW workers \in SUBSET Crew, NEW requests \in [workers -> 1 .. MaxWork],
         NEW work \in [workers -> 0 .. MaxWork], NEW total \in Nat,
         Generating(requests, work, total)
  PROVE  LET n == TotalWork(stock, total)
             oxygen == Less(stock["oxygen"], n * OxygenPerWork)
         IN /\ phase = "generate" /\ phase' = IF failed' THEN "settled" ELSE "water"
            /\ n \in Nat /\ total = SumFunction(Caps(body, requests))
            /\ stock'["oxygen"] = oxygen
            /\ stock'["power"] = stock["power"] + n * PowerPerWork
            /\ stock'["water"] = stock["water"] /\ stock'["food"] = stock["food"]
            /\ failed' <=> \/ oxygen = 0
                           \/ \E i \in workers : Less(body[i]["food"], work[i] * EnergyPerWork) = 0
            /\ plots' = plots
<1> DEFINE n == TotalWork(stock, total)
           breath == n * OxygenPerWork
           oxygen == Less(stock["oxygen"], breath)
           power == stock["power"] + n * PowerPerWork
           b == Worked(body, work)
           s == [stock EXCEPT !["oxygen"] = oxygen, !["power"] = power]
<1>1. /\ phase = "generate" /\ phase' = IF failed' THEN "settled" ELSE "water"
      /\ total = SumFunction(Caps(body, requests)) /\ plots' = plots
  BY DEF Generating, Proceed, fieldVars
<1>2. CheckDeaths(b, s)
  BY StateTypes DEF Generating, Stocks, Resources
<1>3. /\ stock \in Stocks /\ body \in Bodies /\ stock["power"] <= Capacity["power"]
      /\ stock["oxygen"] \in Nat
      /\ \A i \in Crew, k \in Supplies : body[i][k] > 0 /\ body[i][k] \in Nat
  BY <1>1, StateTypes, Underway DEF Resources
<1>4. n \in Nat
  BY <1>3, WorkFits
<1>5. \A i \in Crew :
        /\ b[i]["water"] = body[i]["water"]
        /\ b[i]["food"] = IF i \in workers THEN Less(body[i]["food"], work[i] * EnergyPerWork)
                                           ELSE body[i]["food"]
  BY <1>3, WorkedFits
<1> HIDE DEF n, oxygen, power, b
<1>6. /\ s["oxygen"] = oxygen /\ s["power"] = power
      /\ s["water"] = stock["water"] /\ s["food"] = stock["food"]
  BY <1>3 DEF Stocks, Resources
<1> HIDE DEF s
<1>7. /\ stock' = s
      /\ failed' <=> s["oxygen"] = 0 \/ \E i \in Crew, k \in Supplies : b[i][k] = 0
  BY <1>1, <1>2, Outcome
<1>8. (\E i \in Crew, k \in Supplies : b[i][k] = 0)
        <=> \E i \in workers : Less(body[i]["food"], work[i] * EnergyPerWork) = 0
  <2>1. ASSUME NEW i \in Crew, NEW k \in Supplies, b[i][k] = 0
        PROVE  i \in workers /\ Less(body[i]["food"], work[i] * EnergyPerWork) = 0
    <3>1. \A l \in Supplies : body[i][l] # 0
      BY <1>3
    <3> QED
      BY <1>5, <2>1, <3>1 DEF Supplies
  <2>2. ASSUME NEW i \in workers, Less(body[i]["food"], work[i] * EnergyPerWork) = 0
        PROVE  i \in Crew /\ "food" \in Supplies /\ b[i]["food"] = 0
    BY <1>5, <2>2 DEF Supplies
  <2> QED
    BY <2>1, <2>2
<1> QED
  BY <1>1, <1>4, <1>6, <1>7, <1>8 DEF n, oxygen, power, breath

\* Who works has not been refilled: the audit knows their food.
LEMMA SameCaps ==
  ASSUME Watched, Agrees, phase = "generate", NEW workers \in SUBSET (Crew \ busy),
         NEW requests \in [workers -> 1 .. MaxWork]
  PROVE  /\ \A i \in workers : audit.body[i]["food"] = body[i]["food"]
         /\ Caps(audit.body, requests) = Caps(body, requests)
<1>1. \A i \in workers : audit.body[i]["food"] = body[i]["food"]
  <2> SUFFICES ASSUME NEW i \in workers PROVE audit.body[i]["food"] = body[i]["food"]
    OBVIOUS
  <2>1. i \in Crew /\ i \notin busy /\ "food" \in Supplies
    BY DEF Supplies
  <2>2. CloseIn(i, "food", audit.body[i]["food"], body[i]["food"])
    BY <2>1 DEF Agrees
  <2> QED
    BY <2>1, <2>2 DEF CloseIn
<1>2. DOMAIN requests = workers
  OBVIOUS
<1> QED
  BY <1>1, <1>2 DEF Caps

\* Both work as much, or the audit has no oxygen left.
LEMMA SameWork ==
  ASSUME Watched, Agrees, Comparable, phase = "generate", "power" \notin audit.gaps,
         NEW total \in Nat
  PROVE  LET mine == TotalWork(audit.stock, total)
         IN \/ mine = TotalWork(stock, total)
            \/ surprise # {} /\ Less(audit.stock["oxygen"], mine * OxygenPerWork) = 0
<1> DEFINE oxygen == audit.stock["oxygen"]
           room == (Capacity["power"] - stock["power"]) \div PowerPerWork
           mine == TotalWork(audit.stock, total)
<1>1. /\ oxygen <= stock["oxygen"]
      /\ "oxygen" \notin surprise => oxygen = stock["oxygen"]
      /\ audit.stock["power"] = stock["power"]
  BY DEF Agrees, Close, Watched, AuditTypes
<1>2. CASE "oxygen" \notin surprise
  BY <1>1, <1>2 DEF TotalWork
<1>3. CASE "oxygen" \in surprise
  <2>1. OxygenPerWork = 1
    BY <1>3 DEF Comparable, UnitOxygen
  <2>2. oxygen \in Nat /\ stock["oxygen"] \in Nat /\ room \in Nat
    <3>1. oxygen \in Nat /\ stock["oxygen"] \in Nat
      BY StateTypes, AuditFields DEF Watched, AuditTypes, Resources
    <3>2. Capacity["power"] - stock["power"] \in Nat /\ PowerPerWork \in Nat \ {0}
      BY StateTypes, RatesAssumption DEF Watched, Resources
    <3> QED
      BY <3>1, <3>2, Quotient
  <2>3. /\ mine = Smallest(total, oxygen, room)
        /\ TotalWork(stock, total) = Smallest(total, stock["oxygen"], room)
    <3>1. oxygen \div OxygenPerWork = oxygen /\ stock["oxygen"] \div OxygenPerWork = stock["oxygen"]
      BY <2>1, <2>2
    <3> QED
      BY <1>1, <3>1 DEF TotalWork
  <2> HIDE DEF oxygen, room, mine
  <2>4. mine = TotalWork(stock, total) \/ mine = oxygen
    BY <1>1, <2>2, <2>3, LimitedLess DEF oxygen
  <2>5. mine = oxygen => Less(oxygen, mine * OxygenPerWork) = 0
    BY <2>1, <2>2 DEF Less
  <2> QED
    BY <1>3, <2>4, <2>5 DEF oxygen, mine
<1> QED
  BY <1>2, <1>3

\* The work of the plan, on both sides.
LEMMA TracksWork ==
  ASSUME Watched, Agrees, Comparable, Runs, NEW workers \in SUBSET (Crew \ busy),
         NEW requests \in [workers -> 1 .. MaxWork], NEW work \in [workers -> 0 .. MaxWork],
         NEW total \in Nat, Generating(requests, work, total),
         AuditWorks(audit, requests, work, total), surprise' = surprise
  PROVE  /\ Runs' => Agrees'
         /\ audit'.status = "fatal_in_scope" /\ surprise = {} => failed'
<1> DEFINE n == TotalWork(stock, total)
           oxygen == Less(stock["oxygen"], n * OxygenPerWork)
           left(i) == Less(body[i]["food"], work[i] * EnergyPerWork)
<1>1. /\ phase = "generate" /\ phase' = IF failed' THEN "settled" ELSE "water"
      /\ n \in Nat /\ total = SumFunction(Caps(body, requests))
      /\ stock'["oxygen"] = oxygen
      /\ stock'["power"] = stock["power"] + n * PowerPerWork
      /\ stock'["water"] = stock["water"] /\ stock'["food"] = stock["food"]
      /\ failed' <=> oxygen = 0 \/ \E i \in workers : left(i) = 0
      /\ plots' = plots
  BY WorkOutcome DEF Watched
<1>2. AuditFits(audit) /\ audit.status = "running" /\ workers \in SUBSET Crew
  BY DEF Watched, AuditTypes, Runs
<1>3. CASE "power" \in audit.gaps /\ audit' = Ended("incomplete")
  <2>1. audit'.status = "incomplete"
    BY <1>3, EndedFits DEF Verdicts
  <2> QED
    BY <2>1 DEF Runs
<1>4. ASSUME "power" \notin audit.gaps,
             NEW share \in [workers -> 0 .. MaxWork], NEW sum \in Nat,
             LET actual == TotalWork(audit.stock, sum)
             IN /\ sum = SumFunction(Caps(audit.body, requests))
                /\ Caps(audit.body, requests) = Caps(body, requests)
                     /\ actual = TotalWork(stock, total) => share = work
                /\ actual \in Nat /\ actual <= sum
                /\ audit.stock["power"] + actual * PowerPerWork <= Capacity["power"]
                /\ audit' = Generated(audit, share, actual)
      PROVE  /\ Runs' => Agrees'
             /\ audit'.status = "fatal_in_scope" /\ surprise = {} => failed'
  <2> DEFINE mine == TotalWork(audit.stock, total)
             air == Less(audit.stock["oxygen"], mine * OxygenPerWork)
             b == Worked(audit.body, share)
  <2>1. /\ sum = total
        /\ mine = n => share = work
        /\ mine \in Nat
        /\ audit.stock["power"] + mine * PowerPerWork <= Capacity["power"]
        /\ audit' = Generated(audit, share, mine)
    BY <1>1, <1>4, SameCaps
  <2>2. /\ audit'.status = "fatal_in_scope" <=> air = 0 \/ \E i \in Crew : b[i]["food"] = 0
        /\ Runs' => /\ audit'.status # "fatal_in_scope"
                    /\ audit'.stock["oxygen"] = air
                    /\ audit'.stock["power"] = audit.stock["power"] + mine * PowerPerWork
                    /\ audit'.stock["water"] = audit.stock["water"]
                    /\ audit'.stock["food"] = audit.stock["food"]
                    /\ audit'.gaps = audit.gaps /\ audit'.open = audit.open
                    /\ audit'.dry = audit.dry /\ audit'.supplied = audit.supplied
    BY <1>2, <2>1, GeneratedFits DEF Runs
  <2>3. CASE surprise # {} /\ air = 0
    BY <2>2, <2>3
  <2>4. CASE mine = n
    <3>1. \A i \in workers : b[i]["food"] = left(i)
      <4>1. share = work /\ \A i \in workers : audit.body[i]["food"] = body[i]["food"]
        BY <1>1, <2>1, <2>4, SameCaps
      <4>2. audit.body \in Bodies
        BY <1>2, AuditFields
      <4>3. \A i \in workers :
              b[i]["food"] = Less(audit.body[i]["food"], share[i] * EnergyPerWork)
        BY <1>2, <4>2, WorkedFits
      <4> QED
        BY <4>1, <4>3
    <3>2. \A i \in Crew \ workers : b[i]["food"] = audit.body[i]["food"]
      <4>1. audit.body \in Bodies
        BY <1>2, AuditFields
      <4> QED
        BY <1>2, <4>1, WorkedFits
    <3>3. /\ audit.stock["oxygen"] <= stock["oxygen"]
          /\ "oxygen" \notin surprise => audit.stock["oxygen"] = stock["oxygen"]
          /\ audit.stock["oxygen"] \in Nat /\ stock["oxygen"] \in Nat
          /\ n * OxygenPerWork \in Nat
      <4>1. n * OxygenPerWork \in Nat
        BY <1>1, RatesAssumption, TimesType
      <4>2. audit.stock["oxygen"] \in Nat /\ stock["oxygen"] \in Nat
        BY <1>2, StateTypes, AuditFields DEF Watched, Resources
      <4> QED
        BY <1>1, <4>1, <4>2 DEF Agrees, Close
    <3> HIDE DEF n, b, left
    <3>4. /\ air <= oxygen
          /\ "oxygen" \notin surprise => air = oxygen
          /\ air \in Nat /\ oxygen \in Nat
      BY <2>4, <3>3 DEF Less
    <3> HIDE DEF oxygen, air, mine
    <3>5. ASSUME Runs' PROVE ~failed'
      <4>1. air # 0 /\ \A i \in workers : left(i) # 0
        BY <1>2, <2>2, <3>1, <3>5
      <4>2. oxygen # 0
        BY <3>4, <4>1
      <4> QED
        BY <1>1, <4>1, <4>2
    <3>6. ASSUME Runs' PROVE Agrees'
      <4>1. phase' = "water"
        BY <1>1, <3>5, <3>6
      <4>2. /\ Close("oxygen", audit.stock["oxygen"], stock["oxygen"])'
            /\ Close("power", audit.stock["power"], stock["power"])'
        <5>1. audit.stock["power"] = stock["power"]
          BY <1>4 DEF Agrees, Close, Watched, AuditTypes
        <5>2. audit'.stock["power"] = stock'["power"] /\ stock'["power"] \in Nat
          <6>1. n * PowerPerWork \in Nat /\ stock["power"] \in Nat
            BY <1>1, RatesAssumption, TimesType, StateTypes DEF Watched, Resources
          <6> QED
            BY <1>1, <2>2, <2>4, <3>6, <5>1, <6>1
        <5> QED
          BY <1>1, <2>2, <3>4, <3>6, <5>2 DEF Close
      <4>3. \A r \in Supplies : r \notin audit'.gaps => Close(r, audit.stock[r], stock[r])'
        BY <1>1, <2>2, <3>6 DEF Agrees, Close, Supplies
      <4> QED
        BY <1>1, <2>2, <3>6, <4>1, <4>2, <4>3 DEF Agrees
    <3>7. ASSUME audit'.status = "fatal_in_scope", surprise = {} PROVE failed'
      <4>1. CASE air = 0
        BY <1>1, <3>4, <3>7, <4>1
      <4>2. CASE \E i \in Crew : b[i]["food"] = 0
        <5>1. PICK i \in Crew : b[i]["food"] = 0
          BY <4>2
        <5>2. i \in workers
          <6>1. audit.body[i]["food"] = body[i]["food"]
            BY <1>1, <3>7 DEF Agrees, CloseIn, Supplies
          <6>2. body[i]["food"] > 0 /\ body[i]["food"] \in Nat
            BY <1>1, Underway, StateTypes DEF Watched, Supplies
          <6> QED
            BY <3>2, <5>1, <6>1, <6>2
        <5> QED
          BY <1>1, <3>1, <5>1, <5>2
      <4> QED
        BY <2>2, <3>7, <4>1, <4>2
    <3> QED
      BY <3>6, <3>7
  <2> QED
    BY <1>1, <1>4, <2>3, <2>4, SameWork
<1>5. \/ "power" \in audit.gaps /\ audit' = Ended("incomplete")
      \/ /\ "power" \notin audit.gaps
         /\ \E share \in [workers -> 0 .. MaxWork], sum \in Nat :
              LET actual == TotalWork(audit.stock, sum)
              IN /\ sum = SumFunction(Caps(audit.body, requests))
                 /\ Caps(audit.body, requests) = Caps(body, requests)
                      /\ actual = TotalWork(stock, total) => share = work
                 /\ actual \in Nat /\ actual <= sum
                 /\ audit.stock["power"] + actual * PowerPerWork <= Capacity["power"]
                 /\ audit' = Generated(audit, share, actual)
  BY <1>2, AuditWorksFits
<1> QED
  BY <1>3, <1>4, <1>5

LEMMA TracksGenerate ==
  ASSUME Watched, Tracks, AlarmHolds, GenerateAudited
  PROVE  Tracks' /\ AlarmHolds'
<1>1. surprise' = surprise /\ phase = "generate"
  BY DEF GenerateAudited, NoWork, Generating
<1>2. CASE NoWork /\ audit' = audit
  <2>1. /\ phase' = "water" /\ stock' = stock /\ body' = body /\ busy' = busy /\ plots' = plots
    BY <1>2 DEF NoWork, fieldVars
  <2>2. AlarmHolds'
    BY <1>1, <1>2, AlarmLate
  <2>3. Tracks'
    BY <1>1, <1>2, <2>1 DEF Tracks, Comparable, Runs, Agrees, Close
  <2> QED
    BY <2>2, <2>3
<1>3. CASE \E workers \in Workers :
             \E requests \in [workers -> 1 .. MaxWork], work \in [workers -> 0 .. MaxWork],
                total \in 0 .. MaxWork * Stations :
               /\ Generating(requests, work, total)
               /\ IF Runs THEN AuditWorks(audit, requests, work, total) ELSE audit' = audit
  <2>1. PICK workers \in Workers :
             \E requests \in [workers -> 1 .. MaxWork], work \in [workers -> 0 .. MaxWork],
                total \in 0 .. MaxWork * Stations :
               /\ Generating(requests, work, total)
               /\ IF Runs THEN AuditWorks(audit, requests, work, total) ELSE audit' = audit
    BY <1>3
  <2>2. PICK requests \in [workers -> 1 .. MaxWork], work \in [workers -> 0 .. MaxWork],
             total \in 0 .. MaxWork * Stations :
               /\ Generating(requests, work, total)
               /\ IF Runs THEN AuditWorks(audit, requests, work, total) ELSE audit' = audit
    BY <2>1
  <2>3. workers \in SUBSET (Crew \ busy) /\ total \in Nat
    BY StateTypes, RatesAssumption, TimesType DEF Workers, Watched
  <2>4. CASE ~Runs
    <3>1. audit' = audit /\ ~Runs'
      BY <2>2, <2>4 DEF Runs
    <3> QED
      BY <1>1, <3>1, AlarmLate DEF Tracks
  <2>5. CASE Runs
    <3>1. Comparable => /\ Runs' => Agrees'
                        /\ audit'.status = "fatal_in_scope" /\ surprise = {} => failed'
      BY <1>1, <2>2, <2>3, <2>5, TracksWork DEF Tracks
    <3>2. failed' => phase' = "settled"
      BY <2>2 DEF Generating, Proceed
    <3> QED
      BY <1>1, <3>1, <3>2 DEF Tracks, AlarmHolds, Comparable
  <2> QED
    BY <2>4, <2>5
<1> QED
  BY <1>2, <1>3 DEF GenerateAudited

\* The water production of the engine, and when it kills.
LEMMA WaterOutcome ==
  ASSUME Inv, Ages, NEW request \in Nat, Producing(request)
  PROVE  LET made == Litres(stock, request)
             oxygen == Less(stock["oxygen"], made * OxygenPerLitre)
         IN /\ phase = "water" /\ phase' = IF failed' THEN "settled" ELSE "crops"
            /\ made \in Nat /\ made <= request /\ oxygen \in Nat
            /\ stock'["oxygen"] = oxygen
            /\ stock'["power"] = stock["power"] - made * PowerPerLitre
            /\ stock'["water"] = stock["water"] + made /\ stock'["food"] = stock["food"]
            /\ failed' <=> oxygen = 0
            /\ plots' = plots
<1> DEFINE made == Litres(stock, request)
           breath == made * OxygenPerLitre
           oxygen == Less(stock["oxygen"], breath)
           power == stock["power"] - made * PowerPerLitre
           water == stock["water"] + made
           s == [stock EXCEPT !["power"] = power, !["oxygen"] = oxygen, !["water"] = water]
<1>1. /\ phase = "water" /\ phase' = IF failed' THEN "settled" ELSE "crops"
      /\ plots' = plots
  BY DEF Producing, Proceed, fieldVars
<1>2. CheckDeaths(body, s)
  BY StateTypes DEF Producing, Stocks, Resources
<1>3. /\ stock \in Stocks /\ stock["water"] <= Capacity["water"] /\ stock["oxygen"] \in Nat
      /\ \A i \in Crew, k \in Supplies : body[i][k] # 0
  <2>1. \A i \in Crew, k \in Supplies : body[i][k] > 0 /\ body[i][k] \in Nat
    BY <1>1, StateTypes, Underway
  <2>2. stock \in Stocks /\ stock["water"] <= Capacity["water"] /\ stock["oxygen"] \in Nat
    BY StateTypes DEF Resources
  <2> QED
    BY <2>1, <2>2
<1>4. made \in Nat /\ made <= request
  BY <1>3, LitresFit
<1>5. oxygen \in Nat
  <2>1. breath \in Nat
    BY <1>4, TimesType, RatesAssumption
  <2> HIDE DEF breath
  <2> QED
    BY <1>3, <2>1, LessType
<1> HIDE DEF made, oxygen, power, water
<1>6. /\ s["oxygen"] = oxygen /\ s["power"] = power /\ s["water"] = water
      /\ s["food"] = stock["food"]
  BY <1>3 DEF Stocks, Resources
<1> HIDE DEF s
<1>7. /\ stock' = s
      /\ failed' <=> s["oxygen"] = 0 \/ \E i \in Crew, k \in Supplies : body[i][k] = 0
  BY <1>1, <1>2, Outcome
<1>8. failed' <=> oxygen = 0
  BY <1>3, <1>6, <1>7
<1>9. /\ stock'["oxygen"] = oxygen /\ stock'["power"] = power
      /\ stock'["water"] = water /\ stock'["food"] = stock["food"]
  BY <1>6, <1>7
<1> QED
  BY <1>1, <1>4, <1>5, <1>8, <1>9 DEF made, oxygen, power, water, breath

\* Both make as much, or the audit has no oxygen left.
LEMMA SameLitres ==
  ASSUME Watched, Agrees, Comparable, phase = "water", "power" \notin audit.gaps,
         "water" \notin audit.gaps, NEW request \in Nat
  PROVE  LET mine == Litres(audit.stock, request)
         IN \/ mine = Litres(stock, request)
            \/ surprise # {} /\ Less(audit.stock["oxygen"], mine * OxygenPerLitre) = 0
<1> DEFINE oxygen == audit.stock["oxygen"]
           most == Smaller(request, stock["power"] \div PowerPerLitre)
           room == Capacity["water"] - stock["water"]
           mine == Litres(audit.stock, request)
<1>1. /\ oxygen <= stock["oxygen"]
      /\ "oxygen" \notin surprise => oxygen = stock["oxygen"]
      /\ audit.stock["power"] = stock["power"] /\ audit.stock["water"] = stock["water"]
  BY DEF Agrees, Close, Watched, AuditTypes, Supplies
<1>2. CASE "oxygen" \notin surprise
  BY <1>1, <1>2 DEF Litres
<1>3. CASE "oxygen" \in surprise
  <2>1. OxygenPerLitre = 1
    BY <1>3 DEF Comparable, UnitOxygen
  <2>2. oxygen \in Nat /\ stock["oxygen"] \in Nat /\ room \in Nat /\ most \in Nat
    <3>1. oxygen \in Nat /\ stock["oxygen"] \in Nat
      BY StateTypes, AuditFields DEF Watched, AuditTypes, Resources
    <3>2. room \in Nat /\ stock["power"] \in Nat /\ PowerPerLitre \in Nat \ {0}
      BY StateTypes, RatesAssumption DEF Watched, Resources
    <3>3. stock["power"] \div PowerPerLitre \in Nat
      BY <3>2, Quotient
    <3>4. most \in Nat
      BY <3>3, SmallerType
    <3> QED
      BY <3>1, <3>2, <3>4
  <2>3. /\ mine = Smallest(most, oxygen, room)
        /\ Litres(stock, request) = Smallest(most, stock["oxygen"], room)
    <3>1. /\ oxygen \div OxygenPerLitre = oxygen
          /\ stock["oxygen"] \div OxygenPerLitre = stock["oxygen"]
      BY <2>1, <2>2
    <3> QED
      BY <1>1, <3>1 DEF Litres
  <2> HIDE DEF oxygen, room, mine, most
  <2>4. mine = Litres(stock, request) \/ mine = oxygen
    BY <1>1, <2>2, <2>3, LimitedLess
  <2>5. mine = oxygen => Less(oxygen, mine * OxygenPerLitre) = 0
    BY <2>1, <2>2 DEF Less
  <2> QED
    BY <1>3, <2>4, <2>5 DEF oxygen, mine
<1> QED
  BY <1>2, <1>3

\* The water of the plan, on both sides.
LEMMA TracksProducing ==
  ASSUME Watched, Agrees, Comparable, Runs, NEW request \in 0 .. MaxLitres, Producing(request),
         audit' = Watered(audit, request), surprise' = surprise
  PROVE  /\ Runs' => Agrees'
         /\ audit'.status = "fatal_in_scope" /\ surprise = {} => failed'
<1> DEFINE made == Litres(stock, request)
           oxygen == Less(stock["oxygen"], made * OxygenPerLitre)
           mine == Litres(audit.stock, request)
           air == Less(audit.stock["oxygen"], mine * OxygenPerLitre)
           dark == {"availability", "water", "power", "oxygen"} \cap audit.gaps # {}
<1> request \in Nat
  BY RatesAssumption
<1>1. /\ phase = "water" /\ phase' = IF failed' THEN "settled" ELSE "crops"
      /\ made \in Nat /\ made <= request /\ oxygen \in Nat
      /\ stock'["oxygen"] = oxygen
      /\ stock'["power"] = stock["power"] - made * PowerPerLitre
      /\ stock'["water"] = stock["water"] + made /\ stock'["food"] = stock["food"]
      /\ failed' <=> oxygen = 0
      /\ plots' = plots
  BY WaterOutcome DEF Watched
<1>2. AuditFits(audit) /\ audit.status = "running"
  BY DEF Watched, AuditTypes, Runs
<1>3. /\ Runs' =>
           /\ audit'.gaps = audit.gaps /\ audit'.open = audit.open
           /\ audit'.dry = audit.dry /\ audit'.supplied = audit.supplied
           /\ \/ request = 0 /\ audit'.stock = audit.stock
              \/ /\ ~dark /\ air # 0
                 /\ audit'.stock["water"] = audit.stock["water"] + mine
                 /\ audit'.stock["power"] = audit.stock["power"] - mine * PowerPerLitre
                 /\ audit'.stock["food"] = audit.stock["food"]
      /\ audit'.status = "fatal_in_scope" => ~dark /\ air = 0
  BY <1>2, WateredFits DEF Runs
<1>4. /\ audit.stock["oxygen"] <= stock["oxygen"]
      /\ "oxygen" \notin surprise => audit.stock["oxygen"] = stock["oxygen"]
      /\ audit.stock["oxygen"] \in Nat /\ stock["oxygen"] \in Nat
      /\ made * OxygenPerLitre \in Nat
  <2>1. made * OxygenPerLitre \in Nat
    BY <1>1, RatesAssumption, TimesType
  <2>2. audit.stock["oxygen"] \in Nat /\ stock["oxygen"] \in Nat
    BY <1>2, StateTypes, AuditFields DEF Watched, Resources
  <2> QED
    BY <1>1, <2>1, <2>2 DEF Agrees, Close
<1>5. ~dark => mine = made \/ (surprise # {} /\ air = 0)
  <2>1. ASSUME ~dark PROVE "water" \notin audit.gaps /\ "power" \notin audit.gaps
    BY <2>1
  <2> QED
    BY <1>1, <2>1, SameLitres
<1> HIDE DEF made, mine
<1>6. mine = made => air <= oxygen /\ ("oxygen" \notin surprise => air = oxygen) /\ air \in Nat
  BY <1>4 DEF Less
<1> HIDE DEF air, oxygen, dark
<1>7. CASE audit'.status = "fatal_in_scope" /\ surprise = {}
  BY <1>1, <1>3, <1>5, <1>6, <1>7 DEF Runs
<1>8. ASSUME Runs' PROVE Agrees'
  <2>1. CASE request = 0 /\ audit'.stock = audit.stock
    <3>1. made = 0
      BY <1>1, <2>1
    <3>2. oxygen = stock["oxygen"] /\ stock["oxygen"] > 0
      BY <1>1, <1>4, <3>1, Underway, RatesAssumption DEF oxygen, Less, Watched
    <3>3. /\ phase' = "crops"
          /\ \A r \in Supplies \cup {"power"} : stock'[r] = stock[r]
      <4>1. stock["power"] \in Nat /\ stock["water"] \in Nat /\ PowerPerLitre \in Nat
        BY StateTypes, RatesAssumption DEF Watched, Resources
      <4> QED
        BY <1>1, <1>4, <3>1, <3>2, <4>1 DEF Supplies
    <3> QED
      BY <1>1, <1>3, <1>8, <2>1, <3>3 DEF Agrees, Close
  <2>2. CASE /\ ~dark /\ air # 0
             /\ audit'.stock["water"] = audit.stock["water"] + mine
             /\ audit'.stock["power"] = audit.stock["power"] - mine * PowerPerLitre
             /\ audit'.stock["food"] = audit.stock["food"]
    <3>1. mine = made
      BY <1>5, <2>2
    <3>2. phase' = "crops"
      BY <1>1, <1>6, <2>2, <3>1
    <3>3. audit.stock["water"] = stock["water"] /\ audit.stock["power"] = stock["power"]
      BY <1>1, <2>2 DEF Agrees, Close, Watched, AuditTypes, Supplies, dark
    <3>4. /\ audit'.stock["water"] = stock'["water"] /\ stock'["water"] \in Nat
          /\ audit'.stock["power"] = stock'["power"] /\ stock'["power"] \in Nat
      <4>1. stock' \in Stocks
        BY InvProduceWater DEF ProduceWater, Watched, Inv, TypeOK, Stocks
      <4> QED
        BY <1>1, <2>2, <3>1, <3>3, <4>1 DEF Stocks, Resources
    <3>5. \A r \in Supplies \cup {"power"} :
            r \notin audit'.gaps => Close(r, audit.stock[r], stock[r])'
      BY <1>1, <1>3, <1>8, <2>2, <3>4 DEF Agrees, Close, Supplies
    <3> QED
      BY <1>1, <1>3, <1>8, <3>2, <3>5 DEF Agrees
  <2> QED
    BY <1>3, <1>8, <2>1, <2>2
<1> QED
  BY <1>7, <1>8

LEMMA TracksWater ==
  ASSUME Watched, Tracks, AlarmHolds, ProduceWaterAudited
  PROVE  Tracks' /\ AlarmHolds'
<1>1. PICK request \in 0 .. MaxLitres : Producing(request) /\ Advance(Watered(audit, request))
  BY DEF ProduceWaterAudited
<1>2. surprise' = surprise /\ phase = "water" /\ (failed' => phase' = "settled")
  BY <1>1 DEF ProduceWaterAudited, Producing, Proceed
<1>3. CASE ~Runs
  <2>1. audit' = audit /\ ~Runs'
    BY <1>1, <1>3 DEF Advance, Runs
  <2> QED
    BY <1>2, <2>1, AlarmLate DEF Tracks
<1>4. CASE Runs
  <2>1. audit' = Watered(audit, request)
    BY <1>1, <1>4 DEF Advance
  <2>2. Comparable => /\ Runs' => Agrees'
                      /\ audit'.status = "fatal_in_scope" /\ surprise = {} => failed'
    BY <1>1, <1>2, <1>4, <2>1, TracksProducing DEF Tracks
  <2> QED
    BY <1>2, <2>2 DEF Tracks, AlarmHolds, Comparable
<1> QED
  BY <1>3, <1>4

LEMMA TracksCrops ==
  ASSUME Watched, Tracks, AlarmHolds, StartCropsAudited
  PROVE  Tracks' /\ AlarmHolds'
<1>1. /\ phase = "crops" /\ phase' = "irrigate" /\ irrigated' = {} /\ stock' = stock
      /\ plots' = plots /\ surprise' = surprise
      /\ audit' \in {audit, Ended("incomplete")}
  BY DEF StartCropsAudited, StartCrops, Advance
<1>2. Ended("incomplete").status = "incomplete"
  BY EndedFits DEF Verdicts
<1>3. AlarmHolds'
  BY <1>1, <1>2, AlarmLate
<1>4. Tracks'
  <2> SUFFICES ASSUME Comparable', Runs' PROVE Agrees'
    BY DEF Tracks
  <2>1. audit' = audit /\ Agrees
    BY <1>1, <1>2 DEF Comparable, Runs, Tracks
  <2> QED
    BY <1>1, <2>1 DEF Agrees, Close
<1> QED
  BY <1>3, <1>4

\* One allocation, on both sides: what the engine gives the audit gives, or does not know.
LEMMA TracksIrrigating ==
  ASSUME Watched, Agrees, Runs, NEW p \in Plots, Irrigating(p),
         audit' = Irrigated(audit, p, plots[p].crop), surprise' = surprise
  PROVE  Agrees'
<1> DEFINE short(r, m) == r \notin audit.gaps /\ audit.stock[r] < m
           lacks == short("water", PlotWater) \/ short("power", PlotPower)
           dark == {"water", "power"} \cap audit.gaps # {}
           enough == stock["water"] >= PlotWater /\ stock["power"] >= PlotPower
<1>1. /\ AuditFits(audit) /\ audit.status = "running" /\ plots[p].crop \in Crops
      /\ phase = "irrigate" /\ phase' = "irrigate"
  BY DEF Watched, AuditTypes, Runs, Irrigating, Grows, Inv, TypeOK, PlotStates
<1>2. /\ audit'.dry = audit.dry
      /\ lacks => audit' = audit
      /\ ~lacks /\ dark =>
           /\ {"water", "power"} \subseteq audit'.gaps /\ audit.gaps \subseteq audit'.gaps
           /\ audit'.blind = audit.blind \cup {p} /\ audit'.supplied = audit.supplied
           /\ audit'.stock = audit.stock
      /\ ~lacks /\ ~dark =>
           /\ audit'.gaps = audit.gaps /\ audit'.blind = audit.blind
           /\ audit'.supplied = audit.supplied \cup {p}
           /\ audit'.stock["water"] = audit.stock["water"] - PlotWater
           /\ audit'.stock["power"] = audit.stock["power"] - PlotPower
           /\ audit'.stock["food"] = audit.stock["food"]
  BY <1>1, IrrigatedFits
<1>3. /\ stock["water"] \in Nat /\ stock["power"] \in Nat
      /\ PlotWater \in Nat /\ PlotPower \in Nat
  BY StateTypes, RatesAssumption DEF Watched, Resources
<1>4. \/ /\ enough /\ irrigated' = irrigated \cup {p}
         /\ stock'["water"] = stock["water"] - PlotWater
         /\ stock'["power"] = stock["power"] - PlotPower
         /\ stock'["food"] = stock["food"]
         /\ \A q \in Plots \ {p} : plots'[q] = plots[q]
      \/ ~enough /\ UNCHANGED <<stock, plots, irrigated>>
  <2>1. CASE ~enough
    BY <1>3, <2>1 DEF Irrigating
  <2>2. CASE enough
    <3>1. /\ irrigated' = irrigated \cup {p}
          /\ stock' = [stock EXCEPT !["water"] = @ - PlotWater, !["power"] = @ - PlotPower]
          /\ \E new : plots' = [plots EXCEPT ![p] = new]
      BY <1>3, <2>2 DEF Irrigating
    <3>2. stock \in Stocks /\ plots \in [Plots -> PlotStates]
      BY StateTypes DEF Watched, Inv, TypeOK
    <3> QED
      BY <2>2, <3>1, <3>2 DEF Stocks, Resources
  <2> QED
    BY <2>1, <2>2
<1>5. \A r \in {"water", "power"} : r \notin audit.gaps => audit.stock[r] = stock[r]
  BY DEF Agrees, Close, Watched, AuditTypes, Supplies
<1>6. /\ \A r \in Supplies \cup {"power"} :
           r \notin audit.gaps => Close(r, audit.stock[r], stock[r])
      /\ audit.supplied \subseteq irrigated
      /\ irrigated \subseteq audit.supplied \cup audit.blind
      /\ \A q \in Plots \ irrigated : audit.dry[q] = plots[q].dry
  BY <1>1 DEF Agrees
<1>7. lacks => ~enough
  BY <1>3, <1>5
<1>8. ~lacks /\ ~dark => enough
  <2> SUFFICES ASSUME ~lacks, ~dark PROVE enough
    OBVIOUS
  <2>1. "water" \notin audit.gaps /\ "power" \notin audit.gaps
    OBVIOUS
  <2> QED
    BY <1>3, <1>5, <2>1
<1>9. CASE lacks
  <2>1. audit' = audit /\ UNCHANGED <<stock, plots, irrigated>>
    BY <1>2, <1>4, <1>7, <1>9
  <2> QED
    BY <1>1, <1>6, <2>1 DEF Agrees, Close
<1>10. CASE ~lacks /\ dark
  <2>1. /\ \A r \in Supplies \cup {"power"} :
             r \notin audit'.gaps => r \notin audit.gaps /\ r = "food"
        /\ stock'["food"] = stock["food"] /\ audit'.stock = audit.stock
    BY <1>2, <1>4, <1>10 DEF Supplies
  <2>2. \A r \in Supplies \cup {"power"} :
          r \notin audit'.gaps => Close(r, audit.stock[r], stock[r])'
    BY <1>6, <2>1 DEF Close
  <2>3. /\ audit'.supplied \subseteq irrigated'
        /\ irrigated' \subseteq audit'.supplied \cup audit'.blind
        /\ \A q \in Plots \ irrigated' : audit'.dry[q] = plots'[q].dry
    BY <1>2, <1>4, <1>6, <1>10
  <2> QED
    BY <1>1, <2>2, <2>3 DEF Agrees
<1>11. CASE ~lacks /\ ~dark
  <2>1. /\ audit'.gaps = audit.gaps /\ audit'.blind = audit.blind
        /\ audit'.supplied = audit.supplied \cup {p} /\ irrigated' = irrigated \cup {p}
        /\ stock'["food"] = stock["food"] /\ audit'.stock["food"] = audit.stock["food"]
        /\ stock'["water"] = stock["water"] - PlotWater
        /\ stock'["power"] = stock["power"] - PlotPower
        /\ audit'.stock["water"] = audit.stock["water"] - PlotWater
        /\ audit'.stock["power"] = audit.stock["power"] - PlotPower
    BY <1>2, <1>4, <1>8, <1>11
  <2>2. /\ audit'.stock["water"] = stock'["water"] /\ stock'["water"] \in Int
        /\ audit'.stock["power"] = stock'["power"] /\ stock'["power"] \in Int
    <3>1. "water" \notin audit.gaps /\ "power" \notin audit.gaps
      BY <1>11
    <3> QED
      BY <1>3, <1>5, <2>1, <3>1
  <2>3. Close("water", audit.stock["water"], stock["water"])'
    BY <2>2 DEF Close
  <2>4. Close("power", audit.stock["power"], stock["power"])'
    BY <2>2 DEF Close
  <2>5. "food" \notin audit'.gaps => Close("food", audit.stock["food"], stock["food"])'
    BY <1>6, <2>1 DEF Close, Supplies
  <2>6. /\ audit'.supplied \subseteq irrigated'
        /\ irrigated' \subseteq audit'.supplied \cup audit'.blind
        /\ \A q \in Plots \ irrigated' : audit'.dry[q] = plots'[q].dry
    BY <1>2, <1>4, <1>6, <1>8, <1>11, <2>1
  <2> QED
    BY <1>1, <2>3, <2>4, <2>5, <2>6 DEF Agrees, Supplies
<1> QED
  BY <1>9, <1>10, <1>11

LEMMA TracksIrrigate ==
  ASSUME Watched, Tracks, AlarmHolds, IrrigateAudited
  PROVE  Tracks' /\ AlarmHolds'
<1>1. PICK p \in Plots \ attempted :
        Irrigating(p) /\ Advance(Irrigated(audit, p, plots[p].crop))
  BY DEF IrrigateAudited
<1>2. surprise' = surprise /\ phase = "irrigate" /\ plots[p].crop \in Crops
  BY <1>1 DEF IrrigateAudited, Irrigating, Grows, Watched, Inv, TypeOK, PlotStates
<1>3. Tracks'
  <2> SUFFICES ASSUME Comparable', Runs' PROVE Agrees'
    BY DEF Tracks
  <2>1. Runs /\ audit' = Irrigated(audit, p, plots[p].crop) /\ Agrees
    BY <1>1, <1>2, RunsOn DEF Comparable, Tracks
  <2> QED
    BY <1>1, <1>2, <2>1, TracksIrrigating
<1>4. AlarmHolds'
  <2>1. Runs => Irrigated(audit, p, plots[p].crop).status = "running"
    BY <1>2, IrrigatedFits DEF Runs, Watched, AuditTypes
  <2>2. audit'.status = "fatal_in_scope" => audit.status = "fatal_in_scope"
    BY <1>1, <2>1 DEF Advance
  <2> QED
    BY <1>2, <2>2, AlarmLate
<1> QED
  BY <1>3, <1>4

LEMMA TracksNeglect ==
  ASSUME Watched, AlarmHolds, NeglectAudited
  PROVE  Tracks' /\ AlarmHolds'
<1>1. /\ phase = "irrigate" /\ surprise' = surprise
      /\ Advance(Closed(audit))
  BY DEF NeglectAudited, Neglect
<1>2. Closed(audit).status \notin {"running", "fatal_in_scope"}
  BY ClosedFits DEF Watched, AuditTypes
<1>3. ~Runs' /\ (audit'.status = "fatal_in_scope" => audit.status = "fatal_in_scope")
  BY <1>1, <1>2 DEF Advance, Runs
<1> QED
  BY <1>1, <1>3, AlarmLate DEF Tracks

\* Between two settlements there is no audit.
LEMMA NoTracks ==
  ASSUME audit' = NoAudit
  PROVE  Tracks' /\ AlarmHolds'
<1>1. audit'.status = "none"
  BY NoAuditFits
<1> QED
  BY <1>1 DEF Tracks, Runs, AlarmHolds

LEMMA TracksStep ==
  ASSUME Watched, Tracks, AlarmHolds, [NextAudit]_<<vars, auditVars>>
  PROVE  Tracks' /\ AlarmHolds'
<1>1. CASE UNCHANGED <<vars, auditVars>>
  BY <1>1 DEF vars, auditVars, Tracks, AlarmHolds, Comparable, Runs, Agrees, Close, CloseIn, Yet,
              Short
<1>2. CASE FinishAudited
  BY <1>2, NoTracks DEF FinishAudited
<1>3. CASE EditResources /\ UNCHANGED auditVars
  BY <1>3, NoTracks DEF EditResources, auditVars, Watched, Stages
<1>4. CASE PlotOps /\ UNCHANGED auditVars
  <2>1. phase = "plots" /\ phase' = "plots" /\ audit' = audit /\ surprise' = surprise
    BY <1>4 DEF PlotOps, Harvest, Plant, Clear, PlotWork, auditVars
  <2>2. ~(Comparable /\ Runs)
    BY <2>1 DEF Tracks, Agrees
  <2>3. Tracks'
    BY <2>1, <2>2 DEF Tracks, Comparable, Runs
  <2> QED
    BY <2>1, <2>3, AlarmLate
<1> QED
  BY <1>1, <1>2, <1>3, <1>4, TracksBegin, TracksRefill, TracksRefillsDone, TracksConsume,
     TracksBreathe, TracksGenerate, TracksWater, TracksCrops, TracksIrrigate, TracksNeglect
     DEF NextAudit

\* The inductive invariant of the two programs: the audit is about the tick as the engine
\* executes it, stage by stage, and its warnings and fatal verdicts come true.
THEOREM AuditInvariance == SpecAudit => [](Watched /\ Tracks /\ AlarmHolds)
<1>1. InitAudit => Watched /\ Tracks /\ AlarmHolds
  BY InvInit, AgesInit, TypesInit, WarnedInit, TracksInit DEF InitAudit, Watched
<1>2. Watched /\ Tracks /\ AlarmHolds /\ [NextAudit]_<<vars, auditVars>>
        => (Watched /\ Tracks /\ AlarmHolds)'
  BY WatchedStep, TracksStep
<1> QED
  BY <1>1, <1>2, PTL DEF SpecAudit

\* A plan the audit calls fatal kills, for every crew, greenhouse, plan and snapshot,
\* unless something was pending that the audit does not count in.
THEOREM AlarmsAreReal == SpecAudit => []AlarmIsReal
<1>1. AlarmHolds => AlarmIsReal
  BY DEF AlarmHolds, AlarmIsReal
<1> QED
  BY <1>1, AuditInvariance, PTL

\* A plan the audit calls feasible, or unsafe for plants only, kills nobody: whatever food
\* was pending, and oxygen too where its amounts are exact.
THEOREM ComfortIsJustified == SpecAudit => [](Comparable => NoFalseComfort)
<1>1. Watched /\ Tracks => (Comparable => NoFalseComfort)
  <2> SUFFICES ASSUME Watched, Tracks, Comparable, failed, phase = "settled"
               PROVE  audit.status \in {"fatal_in_scope", "incomplete", "not_applicable"}
    BY DEF NoFalseComfort
  <2>1. audit.status \in Verdicts
    BY DEF Watched, AuditTypes, AuditFits, Audits
  <2>2. audit.status \notin {"none", "unsafe_in_scope", "feasible_in_scope"}
    BY DEF Watched, Stages
  <2>3. audit.status # "running"
    BY DEF Tracks, Runs, Agrees
  <2> QED
    BY <2>1, <2>2, <2>3 DEF Verdicts
<1> QED
  BY <1>1, AuditInvariance, PTL

\* The plants a verdict sees dying dry out, and a feasible plan loses none, for every
\* irrigation, also where the snapshot leaves stores out; pending oxygen is no matter
\* where its amounts are exact.
THEOREM PlantsForetold == SpecAudit => [][Comparable => Foretells]_<<vars, auditVars>>
<1>1. ASSUME Watched, Tracks, NextAudit, Comparable, phase = "irrigate", phase' = "plots"
      PROVE  Foretells
  <2> DEFINE died == {p \in Plots : plots'[p].dead /\ ~plots[p].dead}
  <2>1. NeglectAudited
    <3> USE <1>1
    <3>1. ~BeginAudited /\ ~RefillAudited /\ ~RefillsDoneAudited
      BY DEF BeginAudited, Begin, RefillAudited, Refilling, RefillsDoneAudited, RefillsDone
    <3>2. ~GenerateAudited /\ ~ProduceWaterAudited /\ ~StartCropsAudited
      BY DEF GenerateAudited, NoWork, Generating, ProduceWaterAudited, Producing,
             StartCropsAudited, StartCrops
    <3>3. ~IrrigateAudited /\ ~FinishAudited
      BY DEF IrrigateAudited, Irrigating, FinishAudited, Finish
    <3>4. ~(Consume \/ Breathe \/ PlotOps \/ EditResources)
      BY DEF Consume, Breathe, PlotOps, Harvest, Plant, Clear, PlotWork, EditResources
    <3> QED
      BY <3>1, <3>2, <3>3, <3>4 DEF NextAudit
  <2>2. /\ Advance(Closed(audit))
        /\ plots' = [p \in Plots |-> IF Grows(p) /\ p \notin irrigated
                                    THEN Dried(plots[p]) ELSE plots[p]]
    BY <2>1 DEF NeglectAudited, Neglect
  <2>3. CASE ~Runs
    <3>1. audit' = audit /\ audit.status \notin {"unsafe_in_scope", "feasible_in_scope"}
      BY <1>1, <2>2, <2>3 DEF Advance, Watched, Stages
    <3> QED
      BY <3>1 DEF Foretells
  <2>4. CASE Runs
    <3>1. /\ audit.supplied \subseteq irrigated
          /\ irrigated \subseteq audit.supplied \cup audit.blind
          /\ \A p \in Plots \ irrigated : audit.dry[p] = plots[p].dry
      BY <1>1, <2>4 DEF Tracks, Agrees
    <3>2. AuditFits(audit) /\ audit' = Closed(audit)
      BY <1>1, <2>2, <2>4 DEF Watched, AuditTypes, Advance
    <3>3. /\ audit'.status = "unsafe_in_scope" <=> \E p \in Plots : Grows(p) /\ WillDie(audit, p)
          /\ audit'.status = "feasible_in_scope" => ~audit.open
      BY <3>2, ClosedFits
    <3>4. ASSUME NEW p \in Plots
          PROVE  p \in died <=> Grows(p) /\ p \notin irrigated /\ plots[p].dry + 1 >= DeathAfter
      <4>1. plots'[p] = IF Grows(p) /\ p \notin irrigated THEN Dried(plots[p]) ELSE plots[p]
        BY <2>2
      <4>2. Dried(plots[p]).dead = (plots[p].dry + 1 >= DeathAfter)
        BY DEF Dried
      <4> QED
        BY <4>1, <4>2 DEF Grows
    <3>5. audit'.status = "unsafe_in_scope" => died # {}
      <4> SUFFICES ASSUME NEW p \in Plots, Grows(p), WillDie(audit, p) PROVE p \in died
        BY <3>3
      <4>1. p \notin irrigated
        BY <3>1 DEF WillDie
      <4> QED
        BY <3>1, <3>4, <4>1 DEF WillDie
    <3>6. audit'.status = "feasible_in_scope" => died = {}
      <4> SUFFICES ASSUME audit'.status = "feasible_in_scope", NEW p \in died PROVE FALSE
        OBVIOUS
      <4>1. audit.blind = {}
        BY <3>2, <3>3, AuditFields
      <4>2. p \in Plots /\ Grows(p) /\ p \notin irrigated /\ plots[p].dry + 1 >= DeathAfter
        BY <3>4
      <4>3. WillDie(audit, p)
        BY <3>1, <4>1, <4>2 DEF WillDie
      <4> QED
        BY <3>3, <4>2, <4>3
    <3> QED
      BY <3>5, <3>6 DEF Foretells
  <2> QED
    BY <2>3, <2>4
<1>2. Watched /\ Tracks /\ [NextAudit]_<<vars, auditVars>>
        => [Comparable => Foretells]_<<vars, auditVars>>
  BY <1>1 DEF Foretells
<1> QED
  BY <1>2, AuditInvariance, PTL DEF SpecAudit

\* With a unit of oxygen for a unit of work and of water, no pending delivery makes the
\* audit's comfort false.
THEOREM UnitComfort == UnitOxygen => (SpecAudit => []NoFalseComfort)
<1> SUFFICES ASSUME UnitOxygen PROVE SpecAudit => []NoFalseComfort
  OBVIOUS
<1>1. (Comparable => NoFalseComfort) => NoFalseComfort
  BY DEF Comparable
<1> QED
  BY <1>1, ComfortIsJustified, PTL

\* Nor does it make the audit wrong about a plant.
THEOREM UnitForetold == UnitOxygen => (SpecAudit => PlantsAsForetold)
<1> SUFFICES ASSUME UnitOxygen PROVE SpecAudit => PlantsAsForetold
  OBVIOUS
<1>1. [Comparable => Foretells]_<<vars, auditVars>> => [Foretells]_<<vars, auditVars>>
  BY DEF Comparable
<1> QED
  BY <1>1, PlantsForetold, PTL DEF PlantsAsForetold

=============================================================================
