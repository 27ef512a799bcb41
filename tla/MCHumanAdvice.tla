----------------------------- MODULE MCHumanAdvice -----------------------------
(* Instances of HumanAdvice for TLC: a plans one plot and b refills, and the *)
(* drafts are that plan and what a model may make of it.                     *)
EXTENDS HumanAdvice, TLC

CONSTANTS a, b, p, q, chunk, rule

MCCrew == {a, b}
MCPlots == {p, q}
MCChunks == {chunk}
MCRuleText == {rule}

Does(i, kind, plot) == [crew |-> i, kind |-> kind, plot |-> plot]

Base ==
  [tick |-> 1, tasks |-> <<Does(a, "plant", p), Does(b, "eat", None)>>,
   refills |-> <<b>>, field |-> <<a>>, water |-> <<q>>]

Working == [Base EXCEPT !.tasks[2].kind = "generate", !.refills = <<>>]
Replanted == [Working EXCEPT !.tasks[1].plot = q]
Dry == [Working EXCEPT !.water = None]
Unlisted == [Base EXCEPT !.refills = <<>>]
Late == [Base EXCEPT !.tick = 2]

MCDrafts == {Base, Working, Replanted, Dry, Unlisted, Late}

Propose(kind, cites, plan, audit) ==
  [kind |-> kind, targets |-> {b}, rules |-> TRUE, cites |-> cites, plan |-> plan,
   audit |-> audit]

MCProposals ==
  {Propose("adjust_generation", {chunk}, None, Working),
   Propose("adjust_generation", {}, Replanted, None),
   Propose("adjust_generation", {Strange}, None, Base),
   Propose("request_plant_review", {rule}, None, None),
   Propose("drink", {}, Base, Working)}

MCPairs == {1}
MCReviewed == {<<>>, <<1>>, <<1, 1>>, <<2>>}

=============================================================================
