---------------------------- MODULE MCPlanContract ----------------------------
(* Instances of PlanContract for TLC. *)
EXTENDS PlanContract, TLC

MCLimit == [k \in Personal |-> 1]

\* Actions the Core has nothing against, at either tick of a stage of two.
MCSound ==
  {a \in [id : {1, 2}, crew : Crew, kind : Personal \cup Field, offset : {0, 1},
          repeat : BOOLEAN, plot : Plots \cup {None}, crop : Crops \cup {None},
          amount : {1}] : ActionIsSound([ticks |-> 2], a)}

\* What can be wrong with one.
MCUnsound ==
  LET generate == CHOOSE a \in MCSound : a.kind = "generate" /\ a.offset = 0
      plant == CHOOSE a \in MCSound : a.kind = "plant" /\ a.offset = 0
  IN {[generate EXCEPT !.crew = Strange], [generate EXCEPT !.amount = 0],
      [generate EXCEPT !.amount = 2], [generate EXCEPT !.offset = 2],
      [generate EXCEPT !.kind = "eat", !.repeat = TRUE],
      [plant EXCEPT !.plot = Strange], [plant EXCEPT !.plot = None],
      [plant EXCEPT !.crop = Strange], [plant EXCEPT !.crop = None],
      [plant EXCEPT !.kind = "clear"], [plant EXCEPT !.amount = 2]}

MCActions == MCSound \cup MCUnsound

=============================================================================
