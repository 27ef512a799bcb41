SPECIFICATION Spec
CONSTANTS
  Crew = {1, 2}
  Plots = {p1, p2}
  Crops = {c1}
  NoCrop = NoCrop
  Capacity <- GreenCapacity
  Start <- GreenStart
  BodyCapacity <- GreenBodyCapacity
  BodyStart <- GreenBodyStart
  RefillMax <- GreenRefillMax
  Need <- MCNeed
  Breath = 1
  MaxWork = 1
  Stations = 1
  EnergyPerWork = 1
  OxygenPerWork = 1
  PowerPerWork = 1
  MaxLitres = 1
  PowerPerLitre = 1
  OxygenPerLitre = 1
  PlotWater = 1
  PlotPower = 1
  DeathAfter = 2
  Maturity <- MCMaturity
  OxygenOf <- MCOxygenOf
  FoodOf <- MCFoodOf
  StartCrop <- MCStartCrop
  EditAmounts = {9}
  MaxTick = 3
SYMMETRY PlotSymmetry
INVARIANTS TypeOK SnapshotAccepted DroughtCounted
PROPERTY PendingArrives
