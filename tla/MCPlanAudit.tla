---------------------------- MODULE MCPlanAudit ----------------------------
(* Instances of PlanAudit for TLC. *)
EXTENDS PlanAudit, TLC

MCCapacity == [water |-> 3, oxygen |-> 7, food |-> 3, power |-> 3]
MCStart == [water |-> 1, oxygen |-> 5, food |-> 2, power |-> 2]
MCBodyCapacity == [food |-> 3, water |-> 3]
MCBodyStart == [food |-> 3, water |-> 2]
MCRefillMax == [food |-> 2, water |-> 1]
MCNeed == [food |-> 1, water |-> 1]
MCOf == [c \in Crops |-> 1]
MCFood == [c \in Crops |-> 2]
MCOxygen == [c \in Crops |-> 2]
MCStartCrop == [p \in Plots |-> CHOOSE c \in Crops : TRUE]
MCGaps == {{}, {"life"}, {"rules"}, {"availability"}, {"plots"}}
            \cup {{r} : r \in Resources}

=============================================================================
