SPECIFICATION SpecAudit
CONSTANTS
  Crew = {1, 2}
  Plots = {p1}
  Crops = {c1}
  NoCrop = NoCrop
  Capacity <- MCCapacity
  Start <- MCStart
  BodyCapacity <- MCBodyCapacity
  BodyStart <- MCBodyStart
  RefillMax <- MCRefillMax
  Need <- MCNeed
  Breath = 1
  MaxWork = 2
  Stations = 2
  EnergyPerWork = 1
  OxygenPerWork = 1
  PowerPerWork = 2
  MaxLitres = 2
  PowerPerLitre = 1
  OxygenPerLitre = 1
  PlotWater = 1
  PlotPower = 1
  DeathAfter = 2
  Maturity <- MCOf
  OxygenOf <- MCOxygen
  FoodOf <- MCFood
  StartCrop <- MCStartCrop
  EditAmounts = {9}
  MaxTick = 3
  Gaps <- MCGaps
INVARIANTS LivingAreSupplied NoFalseComfort AlarmIsReal WarningsAreRight
PROPERTIES PlantsAsForetold
