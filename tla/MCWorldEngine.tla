--------------------------- MODULE MCWorldEngine ---------------------------
(* Instances of WorldEngine for TLC, with rates small enough to meet every limit. *)
EXTENDS Snapshot, TLC

MCNeed == [food |-> 1, water |-> 1]

MCMaturity == [c \in Crops |-> 2]
MCOxygenOf == [c \in Crops |-> 3]
MCFoodOf == [c \in Crops |-> 3]
MCStartCrop == [p \in Plots |-> CHOOSE c \in Crops : TRUE]

\* A crew that lives long enough to harvest and to see plants die, with room for one
\* harvest only after somebody has eaten.
GreenCapacity == [water |-> 4, oxygen |-> 8, food |-> 5, power |-> 4]
GreenStart == [water |-> 3, oxygen |-> 7, food |-> 3, power |-> 4]
GreenBodyCapacity == [food |-> 6, water |-> 6]
GreenBodyStart == [food |-> 6, water |-> 6]
GreenRefillMax == [food |-> 1, water |-> 0]

\* The greenhouse has no first plot: a plan may name its plots in any order.
PlotSymmetry == Permutations(Plots)

=============================================================================
