------------------------------- MODULE Controller -------------------------------
(***************************************************************************)
(* CoreController (core_agent/controller.py): it watches a running world,  *)
(* has a model assess it meanwhile, and stops it for a discussion (module  *)
(* Council) when there is a reason.                                        *)
(*                                                                         *)
(* The world is external: what the docstrings of WorldPort ask of it and   *)
(* what the world of tests/test_controller.py does.  One of its resources  *)
(* stands for all the amounts and counts that may get worse.               *)
(*                                                                         *)
(* A step of the controller is what it does between two awaits; the world  *)
(* and the model move in between.                                          *)
(***************************************************************************)
EXTENDS Naturals

CONSTANTS
  MaxLevel,    \* most of the resource
  Warning,     \* below this it is low
  Every,       \* assessment_every_ticks
  MaxVersion,  \* bound: from this version on the world does not change by itself
  Absent

ASSUME ControllerAssumption ==
  /\ MaxLevel \in Nat \ {0}
  /\ Warning \in 1 .. MaxLevel
  /\ Every \in Nat \ {0}
  /\ MaxVersion \in Nat
  /\ Absent \notin Nat

VARIABLES
  world,       \* what observe() returns
  step,        \* where CoreController.step is, with the snapshot it is about
  previous,    \* _previous: level of the last running world that was observed
  assessment,  \* _assessment: how far it is and the plan it was made under
  assessed,    \* _last_assessment_tick
  pending,     \* _pending_reason
  ghost        \* history: what plans were made for

controllerVars == <<world, step, previous, assessment, assessed, pending, ghost>>
own == <<step, previous, assessment, assessed, pending, ghost>>

Levels == 0 .. MaxLevel

\* No level: nothing was planned for, or nothing was seen before.
Never == MaxLevel + 1

InBounds == world.version < MaxVersion

-----------------------------------------------------------------------------
(* The world.                                                              *)

Change(w) == InBounds /\ world' = [w EXCEPT !.version = @ + 1] /\ UNCHANGED own

Tick ==
  /\ world.status = "running"
  /\ \E level \in {n \in Levels : n <= world.level + 1 /\ world.level <= n + 1},
        replan \in BOOLEAN :
       Change([world EXCEPT !.tick = @ + 1, !.level = level, !.replan = @ \/ replan,
                            !.status = IF level = 0 THEN "failed" ELSE @])

\* The player's pause stands above the controller's.
PlayerPauses == world.status \in {"running", "planning"} /\ Change([world EXCEPT !.status = "paused"])

PlayerResumes == world.status = "paused" /\ Change([world EXCEPT !.status = "running"])

\* An edit asks for a new plan, and takes a world from the controller that plans for it.
PlayerEdits ==
  /\ world.status # "failed"
  /\ \E level \in Levels \ {0} :
       Change([world EXCEPT !.level = level, !.replan = TRUE,
                            !.status = IF @ = "planning" THEN "paused" ELSE @])

PlayerResets ==
  Change([world EXCEPT !.tick = 0, !.level = MaxLevel, !.replan = FALSE, !.plan = 0,
                       !.status = "running"])

\* The plans are numbered; 0 is none.
World == Tick \/ PlayerPauses \/ PlayerResumes \/ PlayerEdits \/ PlayerResets

-----------------------------------------------------------------------------
(* CoreController.                                                         *)

Idle == [at |-> "idle", version |-> 0, level |-> 0, advised |-> FALSE]

About(at, advised) ==
  [at |-> at, version |-> world.version, level |-> world.level, advised |-> advised]

\* _risk
Risk == world.replan \/ world.plan = 0 \/ (world.level < Warning /\ world.level < previous)

\* What was planned for counts until the resource is seen to have recovered.
Seen == IF world.level >= Warning THEN [planned |-> Never, dropped |-> FALSE] ELSE ghost

\* Bug: an assessment under way goes on while the plan is changed.
PlanWithAssessment(advised) ==
  /\ step' = About("pausing", advised)
  /\ assessment' = IF advised THEN Absent ELSE assessment
  /\ UNCHANGED assessed

\* _plan_and_apply, as far as the call of pause_for_core.
Plan(advised) ==
  /\ step' = About("pausing", advised)
  /\ assessment' = Absent
  /\ UNCHANGED assessed

\* An assessment that has come back is dealt with: unless it says to continue, it is a
\* reason to plan.  Another may start when none is under way and its tick has come.
Assess ==
  LET back == assessment # Absent /\ assessment.says # "nothing"
      free == assessment = Absent \/ back
      due == assessed = Absent \/ world.tick >= assessed + Every
  IN IF back /\ assessment.says # "continue" THEN Plan(TRUE)
     ELSE /\ assessment' = IF free /\ due THEN [says |-> "nothing", plan |-> world.plan]
                           ELSE IF back THEN Absent ELSE assessment
          /\ assessed' = IF free /\ due THEN world.tick ELSE assessed
          /\ UNCHANGED step

\* The first part of step.  A world that is stopped is left alone; one that has failed
\* ends the loop.
Observe ==
  /\ step.at = "idle"
  /\ IF world.status # "running"
     THEN /\ step' = IF world.status = "failed" THEN About("ended", FALSE) ELSE step
          /\ assessment' = Absent
          /\ UNCHANGED <<previous, assessed, ghost>>
     ELSE /\ IF pending \/ Risk THEN Plan(FALSE) ELSE Assess
          /\ previous' = world.level
          /\ ghost' = Seen
  /\ UNCHANGED <<world, pending>>

\* The model answers, or fails or is late ("replan" as well, for another reason).
ModelAssesses ==
  /\ assessment # Absent
  /\ assessment.says = "nothing"
  /\ \E says \in {"continue", "replan"} : assessment' = [assessment EXCEPT !.says = says]
  /\ UNCHANGED <<world, step, previous, assessed, pending, ghost>>

Pausable == world.status = "running" /\ world.version = step.version

\* Bug: a conflict drops the reason.
PauseOnce ==
  /\ step.at = "pausing"
  /\ IF Pausable
     THEN /\ world' = [world EXCEPT !.status = "planning"]
          /\ step' = [step EXCEPT !.at = "planning"]
     ELSE step' = Idle /\ UNCHANGED world
  /\ pending' = FALSE
  /\ UNCHANGED <<previous, assessment, assessed, ghost>>

\* pause_for_core: on a conflict the reason is kept for the next observation.
Pause ==
  /\ step.at = "pausing"
  /\ IF Pausable
     THEN /\ world' = [world EXCEPT !.status = "planning"]
          /\ step' = [step EXCEPT !.at = "planning"]
          /\ pending' = FALSE
     ELSE step' = Idle /\ pending' = TRUE /\ UNCHANGED world
  /\ UNCHANGED <<previous, assessment, assessed, ghost>>

\* core.plan returns, and apply_and_resume takes the plan if the world is still the one
\* it was made for.  If not, nothing is kept of the reason.
Apply ==
  /\ step.at = "planning"
  /\ LET applied == world.status = "planning" /\ world.version = step.version
     IN /\ world' = IF applied THEN [world EXCEPT !.status = "running", !.replan = FALSE,
                                                  !.plan = @ + 1]
                    ELSE world
        /\ ghost' = IF applied THEN [planned |-> step.level, dropped |-> FALSE]
                    ELSE [ghost EXCEPT !.dropped = TRUE]
  /\ step' = Idle
  /\ UNCHANGED <<previous, assessment, assessed, pending>>

\* core.plan fails: the exception ends the loop, and the world stays stopped.
PlanFails ==
  /\ step.at = "planning"
  /\ step' = [step EXCEPT !.at = "ended"]
  /\ ghost' = [ghost EXCEPT !.dropped = TRUE]
  /\ UNCHANGED <<world, previous, assessment, assessed, pending>>

\* The host ends the loop, or starts it again with the same controller.
Stop ==
  /\ step.at = "idle"
  /\ step' = About("ended", FALSE)
  /\ assessment' = Absent
  /\ UNCHANGED <<world, previous, assessed, pending, ghost>>

Relaunch ==
  /\ step.at = "ended"
  /\ step' = Idle
  /\ UNCHANGED <<world, previous, assessment, assessed, pending, ghost>>

-----------------------------------------------------------------------------
ControllerInit ==
  /\ world = [version |-> 0, tick |-> 0, status |-> "running", level |-> MaxLevel,
              replan |-> FALSE, plan |-> 0]
  /\ step = Idle
  /\ previous = Never
  /\ assessment = Absent
  /\ assessed = Absent
  /\ pending = FALSE
  /\ ghost = [planned |-> Never, dropped |-> FALSE]

\* Every plan is another one: their number is bounded too.
MaxPlans == MaxVersion

CoreController == Observe \/ Pause \/ (world.plan < MaxPlans /\ Apply) \/ PlanFails \/ Stop \/ Relaunch

ControllerNext == World \/ ModelAssesses \/ CoreController

ControllerSpec == ControllerInit /\ [][ControllerNext]_controllerVars

-----------------------------------------------------------------------------
(* Properties.                                                             *)

TypeOK ==
  /\ world \in [version : Nat, tick : Nat, level : Levels, replan : BOOLEAN, plan : Nat,
                status : {"running", "paused", "planning", "failed"}]
  /\ step \in [at : {"idle", "pausing", "planning", "ended"}, version : Nat,
               level : Levels, advised : BOOLEAN]
  /\ previous \in 0 .. Never
  /\ assessment \in [says : {"nothing", "continue", "replan"}, plan : Nat] \cup {Absent}
  /\ assessed \in Nat \cup {Absent}
  /\ pending \in BOOLEAN
  /\ ghost \in [planned : 0 .. Never, dropped : BOOLEAN]

\* A low resource the controller has seen was planned for at that level or a lower one,
\* or the reason is kept, however often the world moves on before it can be stopped.
\* The exception is dropped: a plan that failed or came too late, whose reason is lost
\* until the world asks for a plan itself or gets worse.
LowIsPlannedFor ==
  step.at = "idle" /\ previous < Warning =>
    ghost.planned <= previous \/ pending \/ ghost.dropped

\* The controller acts on an assessment only under the plan that was assessed, though
\* the model may take many ticks.
AdviceIsCurrent ==
  [][step'.at = "pausing" /\ step.at = "idle" /\ step'.advised
       => assessment.plan = world.plan]_controllerVars

=============================================================================
