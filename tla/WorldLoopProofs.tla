-------------------------- MODULE WorldLoopProofs --------------------------
(* What holds of WorldLoop for every value of its constants. *)
EXTENDS WorldLoop, TLAPS

-----------------------------------------------------------------------------
(* Type correctness.                                                       *)

\* A plan as outcome means that there is a plan.
PlanArrived == task.outcome = "plan" => task.popped # NoPlan

TypeInv == TypeOK /\ PlanArrived

\* The values a step writes have the types of the state.
LEMMA WorldTypes ==
  ASSUME NEW w \in Worlds, NEW b \in BOOLEAN, NEW r \in {"none", "player", "error"}
  PROVE  /\ HaltedFor(w, r) \in Worlds /\ Respeeded(w) \in Worlds
         /\ Settled(w, b) \in Worlds /\ Edited(w, b) \in Worlds
BY DEF Worlds, HaltedFor, Respeeded, Settled, Edited

LEMMA FreshType ==
  ASSUME NEW v \in Nat
  PROVE  FreshWorld(v) \in Worlds
BY DEF FreshWorld, Worlds

LEMMA IdleType ==
  ASSUME NEW pc \in {"top", "asking", "answered", "delay", "dead"}
  PROVE  Idle(pc) \in Ticks
BY DEF Idle, Snapshot, FreshWorld, Snapshots, Ticks

LEMMA TaskType ==
  ASSUME NEW stage \in {"created", "open", "closing", "done"}
  PROVE  Task(stage) \in Tasks /\ Task(stage).outcome = "none"
BY DEF Task, Tasks

LEMMA GhostTypes ==
  ASSUME ghost \in Ghosts, NEW b \in BOOLEAN, NEW p \in BOOLEAN, NEW edits \in SUBSET Nat
  PROVE  Commanded(edits, p) \in Ghosts /\ Restarted \in Ghosts /\ Seen(b, edits) \in Ghosts
BY DEF Commanded, Restarted, Seen, Ghosts

LEMMA LoopTypes ==
  ASSUME loop \in Loops, NEW evs \in SUBSET Events, NEW b \in BOOLEAN
  PROVE  Announced(evs, b) \in Loops /\ Cleared \in Loops
BY DEF Announced, Cleared, Loops

\* A commit, refused or not, leaves a world if it was given one.
LEMMA CommitType ==
  ASSUME world \in Worlds, faults \in Nat, NEW w \in Worlds, NEW left \in Nat,
         Commits(w, left) \/ Raises(w, left)
  PROVE  world' \in Worlds /\ faults' \in Nat
BY DEF Commits, Raises

LEMMA TypeInit == Init => TypeInv
<1> SUFFICES ASSUME Init PROVE TypeInv
  OBVIOUS
<1>1. world \in Worlds
  BY DEF Init, FreshWorld, Worlds
<1>2. loop \in Loops /\ ghost \in Ghosts
  BY DEF Init, Loops, Ghosts
<1>3. tick \in Ticks /\ task \in Tasks /\ PlanArrived
  BY IdleType, TaskType DEF Init, PlanArrived
<1> QED
  BY <1>1, <1>2, <1>3, ConstantsAssumption DEF Init, TypeInv, TypeOK

LEMMA TypeCommand == TypeInv /\ Command => TypeInv'
<1> SUFFICES ASSUME TypeInv, Command PROVE TypeInv'
  OBVIOUS
<1> USE DEF TypeInv, TypeOK, PlanArrived
<1>0. Started \in Ticks
  BY IdleType DEF Started
<1>1. CASE Pause
  <2>1. world' \in Worlds /\ faults' \in Nat
    BY <1>1, WorldTypes, CommitType DEF Pause
  <2>2. ghost' \in Ghosts
    BY <1>1, GhostTypes DEF Pause, Ghosts
  <2>3. loop' \in Loops
    BY <1>1, LoopTypes DEF Pause, Loops
  <2> QED
    BY <1>1, <2>1, <2>2, <2>3 DEF Pause, sourceVars
<1>2. CASE Resume
  <2>1. world' \in Worlds /\ faults' \in Nat
    BY <1>2, WorldTypes, CommitType DEF Resume
  <2>2. ghost' \in Ghosts
    BY <1>2, GhostTypes DEF Resume, Ghosts
  <2>3. loop' \in Loops /\ tick' \in Ticks
    BY <1>2, <1>0, LoopTypes DEF Resume, Loops
  <2> QED
    BY <1>2, <2>1, <2>2, <2>3 DEF Resume, sourceVars
<1>3. CASE ResumeFailed
  BY <1>3, <1>0 DEF ResumeFailed, sourceVars
<1>4. CASE Speed
  <2>1. world' \in Worlds /\ faults' \in Nat
    BY <1>4, WorldTypes, CommitType DEF Speed
  <2>2. ghost' \in Ghosts /\ loop' \in Loops
    BY <1>4, GhostTypes, LoopTypes DEF Speed, Ghosts, Loops
  <2> QED
    BY <1>4, <2>1, <2>2 DEF Speed, sourceVars
<1>5. CASE Edit
  <2>1. PICK kills \in BOOLEAN : Edit!(kills)
    BY <1>5 DEF Edit
  <2> DEFINE edited == Edited(world, kills)
             event == [kind |-> "edit", version |-> edited.version]
  <2>2. edited \in Worlds /\ edited.version \in Nat
    BY WorldTypes DEF Worlds
  <2>3. world' \in Worlds /\ faults' \in Nat
    BY <2>1, <2>2, CommitType
  <2>4. loop.events \cup {event} \in SUBSET Events
    BY <2>2 DEF Loops, Events
  <2>5. loop' \in Loops
    BY <2>1, <2>4, LoopTypes
  <2>6. ghost' \in Ghosts
    BY <2>1, <2>2, GhostTypes DEF Ghosts
  <2> QED
    BY <2>1, <2>3, <2>5, <2>6 DEF sourceVars
<1>6. CASE Reset
  <2>1. world' \in Worlds /\ faults' \in Nat
    <3>1. world.version + 1 \in Nat
      BY DEF Worlds
    <3> QED
      BY <1>6, <3>1, FreshType, CommitType DEF Reset
  <2>2. ghost' \in Ghosts
    BY <1>6, GhostTypes DEF Reset
  <2>3. plans' \in Seq(Plans) /\ tick' \in Ticks
    <3>1. << >> \in Seq(Plans)
      OBVIOUS
    <3> QED
      BY <1>6, <1>0, <3>1 DEF Reset
  <2>4. loop' \in Loops /\ UNCHANGED <<task, request, receipts>>
    BY <1>6, LoopTypes DEF Reset
  <2> QED
    BY <2>1, <2>2, <2>3, <2>4
<1> QED
  BY <1>1, <1>2, <1>3, <1>4, <1>5, <1>6 DEF Command

LEMMA TypeCore == TypeInv /\ Core => TypeInv'
<1> SUFFICES ASSUME TypeInv, Core PROVE TypeInv'
  OBVIOUS
<1> USE DEF TypeInv, TypeOK, PlanArrived
<1>0. ghost.answers + 1 \in Nat /\ [ghost EXCEPT !.answers = @ + 1] \in Ghosts
  BY DEF Ghosts
<1>1. ASSUME NEW s \in Submissions, SubmitDecision(s) PROVE TypeInv'
  <2>1. PICK ok \in BOOLEAN :
          plans' = Append(plans, [tick |-> world.tick, version |-> world.version,
                                  feasible |-> ok, era |-> ghost.era])
    BY <1>1 DEF SubmitDecision
  <2>2. plans' \in Seq(Plans)
    BY <2>1 DEF Plans, Worlds, Ghosts
  <2>3. receipts' \in Seq(Submissions)
    BY <1>1, ConstantsAssumption DEF SubmitDecision, Remember
  <2>4. request' \in Requests
    BY <1>1 DEF SubmitDecision, Awaiting, Requests
  <2> QED
    BY <1>1, <1>0, <2>2, <2>3, <2>4 DEF SubmitDecision
<1>2. CASE FailDecision
  <2>1. request' \in Requests
    BY <1>2 DEF FailDecision, Awaiting, Requests
  <2>2. task' \in Tasks /\ PlanArrived'
    BY <1>2 DEF FailDecision, Tasks
  <2> QED
    BY <1>2, <1>0, <2>1, <2>2 DEF FailDecision
<1>3. CASE SubmitLegacy
  <2>1. PICK t \in Named, v \in Named \cup {NoVersion}, ok \in BOOLEAN :
          plans' = Append(plans, [tick |-> t, version |-> v, feasible |-> ok,
                                  era |-> ghost.era])
    BY <1>3 DEF SubmitLegacy
  <2>2. plans' \in Seq(Plans)
    BY <2>1, ConstantsAssumption DEF Named, Plans, Ghosts
  <2> QED
    BY <1>3, <2>2 DEF SubmitLegacy
<1> QED
  BY <1>1, <1>2, <1>3 DEF Core

LEMMA TypeSource == TypeInv /\ (Source \/ Expire) => TypeInv'
<1> SUFFICES ASSUME TypeInv, Source \/ Expire PROVE TypeInv'
  OBVIOUS
<1> USE DEF TypeInv, TypeOK, PlanArrived
<1>1. CASE OpenRequest
  <2>1. request' \in Requests
    BY <1>1 DEF OpenRequest, Requests, Ticks
  <2>2. task' \in Tasks /\ PlanArrived'
    BY <1>1, TaskType DEF OpenRequest
  <2> QED
    BY <1>1, <2>1, <2>2 DEF OpenRequest
<1>2. CASE TakePlan
  <2>1. Head(plans) \in Plans /\ Tail(plans) \in Seq(Plans)
    BY <1>2 DEF TakePlan, Ready
  <2>2. task' \in Tasks
    BY <1>2, <2>1 DEF TakePlan, Tasks
  <2>3. PlanArrived'
    BY <1>2, <2>1, NullsAssumption DEF TakePlan, Tasks
  <2> QED
    BY <1>2, <2>1, <2>2, <2>3 DEF TakePlan
<1>3. CASE Expire
  BY <1>3 DEF Expire, Tasks
<1>4. CASE CloseRequest
  <2>1. [ghost EXCEPT !.answers = 0] \in Ghosts
    BY DEF Ghosts
  <2>2. task' \in Tasks /\ PlanArrived'
    BY <1>4 DEF CloseRequest, Tasks
  <2> QED
    BY <1>4, <2>1, <2>2 DEF CloseRequest
<1>5. CASE FinishRequest
  <2>1. task' \in Tasks /\ PlanArrived'
    BY <1>5, TaskType DEF FinishRequest, Tasks
  <2> QED
    BY <1>5, <2>1 DEF FinishRequest
<1> QED
  BY <1>1, <1>2, <1>3, <1>4, <1>5 DEF Source

LEMMA RunnerTypes ==
  ASSUME TypeInv,
         NEW w \in Worlds, NEW left \in Nat, RunnerCommits(w, left)
  PROVE  world' \in Worlds /\ faults' \in Nat /\ tick' \in Ticks
BY CommitType, IdleType DEF TypeInv, TypeOK, RunnerCommits, Returned, Crashed, Worlds

LEMMA SettleTypes ==
  ASSUME TypeInv,
         NEW l \in Loops, NEW unheard \in BOOLEAN, NEW exhausted \in BOOLEAN,
         Settle(l, unheard, exhausted)
  PROVE  world' \in Worlds /\ faults' \in Nat /\ tick' \in Ticks /\ loop' \in Loops
         /\ ghost' \in Ghosts
<1> USE DEF TypeInv, TypeOK
<1>1. PICK mission \in BOOLEAN, noisy \in BOOLEAN :
        Settle(l, unheard, exhausted)!(mission, noisy)
  BY DEF Settle
<1>2. Settled(world, mission) \in Worlds
  BY WorldTypes
<1>3. world' \in Worlds /\ faults' \in Nat /\ tick' \in Ticks
  BY <1>1, <1>2, RunnerTypes
<1>4. loop' \in Loops
  BY <1>1, <1>2 DEF Loops, Events, Worlds
<1>5. ghost' \in Ghosts
  BY <1>1, GhostTypes DEF Ghosts
<1> QED
  BY <1>3, <1>4, <1>5

LEMMA PauseTypes ==
  ASSUME TypeInv,
         NEW l \in Loops, NEW unheard \in BOOLEAN, NEW left \in Nat,
         PauseOnError(l, unheard, left)
  PROVE  world' \in Worlds /\ faults' \in Nat /\ tick' \in Ticks /\ loop' \in Loops
         /\ ghost' \in Ghosts
<1> USE DEF TypeInv, TypeOK
<1>1. world' \in Worlds /\ faults' \in Nat /\ tick' \in Ticks
  BY WorldTypes, RunnerTypes DEF PauseOnError
<1>2. loop' \in Loops
  BY DEF PauseOnError, Loops
<1>3. ghost' \in Ghosts
  BY GhostTypes DEF PauseOnError, Ghosts
<1> QED
  BY <1>1, <1>2, <1>3

LEMMA TypeRunner == TypeInv /\ (Runner \/ DelayPasses) => TypeInv'
<1> SUFFICES ASSUME TypeInv, Runner \/ DelayPasses PROVE TypeInv'
  OBVIOUS
<1> USE DEF TypeInv, TypeOK, PlanArrived, sourceVars
<1>0. loop.changed \in BOOLEAN /\ ghost.unheard \in BOOLEAN /\ Cleared \in Loops
      /\ Seen(FALSE, ghost.edits) \in Ghosts /\ Returned(world) \in Ticks
  BY LoopTypes, GhostTypes, IdleType DEF Loops, Ghosts, Returned
<1>1. CASE WakeChanged
  <2>1. plans' \in Seq(Plans)
    <3>1. CASE task.stage = "done" /\ task.outcome = "plan"
               /\ task.popped.version = world.version /\ task.popped.tick = world.tick
      <4>1. task.popped \in Plans
        BY <3>1 DEF Tasks
      <4>2. <<task.popped>> \o plans \in Seq(Plans)
        BY <4>1
      <4> QED
        BY <1>1, <3>1, <4>2 DEF WakeChanged
    <3>2. CASE ~(task.stage = "done" /\ task.outcome = "plan"
                 /\ task.popped.version = world.version /\ task.popped.tick = world.tick)
      BY <1>1, <3>2 DEF WakeChanged
    <3> QED
      BY <3>1, <3>2
  <2>2. task' \in Tasks /\ PlanArrived'
    BY <1>1, TaskType DEF WakeChanged, Tasks
  <2>3. tick' \in Ticks
    BY <1>1 DEF WakeChanged, Ticks
  <2> QED
    BY <1>1, <2>1, <2>2, <2>3 DEF WakeChanged
<1>2. CASE WakeAnswered
  <2>1. task' \in Tasks /\ PlanArrived'
    BY <1>2, TaskType DEF WakeAnswered
  <2>2. tick' \in Ticks
    BY <1>2 DEF WakeAnswered, Ticks, Tasks
  <2> QED
    BY <1>2, <2>1, <2>2 DEF WakeAnswered
<1>3. CASE WakeUp \/ DelayPasses
  BY <1>3 DEF WakeUp, DelayPasses, Ticks
<1>4. CASE TickHalted
  <2>1. loop' \in Loops
    BY <1>4 DEF TickHalted, Loops
  <2> QED
    BY <1>4, <1>0, <2>1 DEF TickHalted
<1>5. CASE TickAsks
  <2>1. task' \in Tasks /\ PlanArrived'
    BY <1>5, TaskType DEF TickAsks, Ask
  <2>2. tick' \in Ticks
    BY <1>5 DEF TickAsks, Ask, Ticks, Snapshot, Snapshots, Worlds, Loops
  <2> QED
    BY <1>5, <1>0, <2>1, <2>2 DEF TickAsks, Ask
<1>6. CASE TickSettings
  <2>1. CASE Settle(Cleared, FALSE, FALSE)
    BY <1>6, <1>0, <2>1, SettleTypes DEF TickSettings
  <2>2. CASE RaisesInside(Cleared, FALSE)
    <3>1. faults - 1 \in Nat
      BY <2>2 DEF RaisesInside
    <3> QED
      BY <1>6, <1>0, <2>2, <3>1, PauseTypes DEF TickSettings, RaisesInside
  <2> QED
    BY <1>6, <2>1, <2>2 DEF TickSettings
<1>7. CASE DropAnswer
  <2>1. loop' \in Loops
    BY <1>7 DEF DropAnswer, Loops
  <2> QED
    BY <1>7, <1>0, <2>1 DEF DropAnswer
<1>8. CASE SourceFailed
  BY <1>8, <1>0, PauseTypes DEF SourceFailed
<1>9. ASSUME RaisesInside(loop, ghost.unheard), UNCHANGED sourceVars PROVE TypeInv'
  <2>1. faults - 1 \in Nat
    BY <1>9 DEF RaisesInside
  <2> QED
    BY <1>9, <1>0, <2>1, PauseTypes DEF RaisesInside
<1>10. ASSUME NEW exhausted \in BOOLEAN, Settle(loop, ghost.unheard, exhausted),
              UNCHANGED sourceVars
       PROVE  TypeInv'
  BY <1>10, <1>0, SettleTypes
<1>11. CASE SettlePlan
  BY <1>11, <1>9, <1>10 DEF SettlePlan
<1>12. CASE RejectPlan
  <2>1. task' \in Tasks /\ PlanArrived'
    BY <1>12, TaskType DEF RejectPlan, Ask
  <2>2. tick' \in Ticks
    BY <1>12 DEF RejectPlan, Ask, Ticks
  <2> QED
    BY <1>12, <2>1, <2>2 DEF RejectPlan, Ask
<1>13. CASE RejectionFails
  BY <1>13, <1>9 DEF RejectionFails
<1>14. CASE SettleEmpty
  BY <1>14, <1>9, <1>10 DEF SettleEmpty
<1> QED
  BY <1>1, <1>2, <1>3, <1>4, <1>5, <1>6, <1>7, <1>8, <1>11, <1>12, <1>13, <1>14 DEF Runner

LEMMA TypeStep == TypeInv /\ [Next]_vars => TypeInv'
<1> SUFFICES ASSUME TypeInv, [Next]_vars PROVE TypeInv'
  OBVIOUS
<1>1. CASE UNCHANGED vars
  BY <1>1 DEF TypeInv, TypeOK, PlanArrived, vars
<1> QED
  BY <1>1, TypeCommand, TypeCore, TypeSource, TypeRunner DEF Next

\* Every reachable state has its type.
THEOREM TypeCorrect == Spec => []TypeInv
BY TypeInit, TypeStep, PTL DEF Spec

\* The type invariant the runs check.
THEOREM Types == Spec => []TypeOK
<1>1. TypeInv => TypeOK
  BY DEF TypeInv
<1> QED
  BY <1>1, TypeCorrect, PTL

-----------------------------------------------------------------------------
(* The inductive invariant.                                                *)

InTick == tick.pc \in {"asking", "answered"}

\* Within a tick the version never falls behind the observed one, and as long as it
\* is still the observed one the world runs and no command has been given.
CleanTick ==
  InTick => /\ tick.seen.version <= world.version
            /\ tick.seen.version = world.version => ~Halted /\ ~ghost.unheard

\* Only an open request can have been answered, and only once.
AnsweredOnce ==
  /\ task.stage # "open" => request = NoRequest
  /\ request = NoRequest => ghost.answers = 0
  /\ request # NoRequest /\ request.status = "awaiting" => ghost.answers = 0
  /\ ghost.answers <= 1

\* Outside a tick no source task is left behind.
NoTaskLeft == ~InTick => task.stage = "done"

Inv == TypeInv /\ CleanTick /\ PlayerPauseStands /\ AnsweredOnce /\ NoTaskLeft

\* What a command does to the world and to the runner.
LEMMA CommandEffect ==
  ASSUME TypeInv, Command
  PROVE  /\ world' = world \/ world'.version = world.version + 1
         /\ tick' = tick \/ (tick.pc = "dead" /\ tick'.pc = "top")
         /\ ghost'.unheard = (ghost.unheard \/ world' # world)
         /\ UNCHANGED <<task, request>>
         /\ ghost'.answers = ghost.answers
<1> USE DEF TypeInv, TypeOK, Commits, Raises, Started, Idle
<1>1. CASE Pause
  BY <1>1 DEF Pause, HaltedFor, Commanded, sourceVars
<1>2. CASE Resume
  BY <1>2 DEF Resume, HaltedFor, Commanded, sourceVars
<1>3. CASE ResumeFailed
  BY <1>3 DEF ResumeFailed, Ghosts, sourceVars
<1>4. CASE Speed
  BY <1>4 DEF Speed, Respeeded, Commanded, sourceVars
<1>5. CASE Edit
  BY <1>5 DEF Edit, Edited, Commanded, sourceVars
<1>6. CASE Reset
  <2>1. world' = world \/ world' = FreshWorld(world.version + 1)
    BY <1>6 DEF Reset
  <2>2. world' = world \/ world'.version = world.version + 1
    BY <2>1 DEF FreshWorld
  <2>3. ghost.unheard \in BOOLEAN
    BY DEF Ghosts
  <2>4. ghost'.unheard = (ghost.unheard \/ world' # world)
        /\ ghost'.answers = ghost.answers
    BY <1>6, <2>3 DEF Reset, Restarted
  <2> QED
    BY <1>6, <2>2, <2>4 DEF Reset
<1> QED
  BY <1>1, <1>2, <1>3, <1>4, <1>5, <1>6 DEF Command

LEMMA PauseCommand ==
  ASSUME TypeInv, PlayerPauseStands, Command
  PROVE  PlayerPauseStands'
<1> USE DEF TypeInv, TypeOK, PlayerPauseStands, Commits, Raises, Worlds, Ghosts
<1>1. CASE Pause
  BY <1>1 DEF Pause, HaltedFor, Commanded
<1>2. CASE Resume
  BY <1>2 DEF Resume, HaltedFor, Commanded
<1>3. CASE ResumeFailed
  BY <1>3 DEF ResumeFailed
<1>4. CASE Speed
  BY <1>4 DEF Speed, Respeeded, Commanded
<1>5. CASE Edit
  BY <1>5 DEF Edit, Edited, Commanded
<1>6. CASE Reset
  BY <1>6 DEF Reset, FreshWorld, Restarted
<1> QED
  BY <1>1, <1>2, <1>3, <1>4, <1>5, <1>6 DEF Command

LEMMA InvCommand == Inv /\ Command => Inv'
<1> SUFFICES ASSUME Inv, Command PROVE Inv'
  OBVIOUS
<1>1. TypeInv'
  BY TypeCommand DEF Inv
<1>2. PlayerPauseStands'
  BY PauseCommand DEF Inv
<1>3. CleanTick'
  BY <1>1, CommandEffect
  DEF Inv, CleanTick, InTick, Halted, TypeInv, TypeOK, Worlds, Ticks, Snapshots, Ghosts
<1>4. AnsweredOnce'
  BY CommandEffect DEF Inv, AnsweredOnce
<1>5. NoTaskLeft'
  BY CommandEffect DEF Inv, NoTaskLeft, InTick
<1> QED
  BY <1>1, <1>2, <1>3, <1>4, <1>5 DEF Inv

\* Answers and the source task leave the world and the runner alone.
LEMMA InvCore == Inv /\ Core => Inv'
<1> SUFFICES ASSUME Inv, Core PROVE Inv'
  OBVIOUS
<1>1. TypeInv'
  BY TypeCore DEF Inv
<1>2. UNCHANGED <<world, tick>> /\ ghost'.unheard = ghost.unheard
      /\ ghost'.pausing = ghost.pausing
  BY DEF Inv, TypeInv, TypeOK, Core, SubmitDecision, FailDecision, SubmitLegacy, Ghosts
<1>3. CleanTick' /\ PlayerPauseStands'
  BY <1>2 DEF Inv, CleanTick, InTick, Halted, PlayerPauseStands
<1>4. AnsweredOnce'
  <2> USE DEF Inv, TypeInv, TypeOK, AnsweredOnce, Requests, Ghosts
  <2>1. ASSUME NEW s \in Submissions, SubmitDecision(s) PROVE AnsweredOnce'
    BY <2>1, NullsAssumption DEF SubmitDecision, Awaiting
  <2>2. CASE FailDecision
    BY <2>2, NullsAssumption DEF FailDecision, Awaiting, Tasks
  <2>3. CASE SubmitLegacy
    BY <2>3 DEF SubmitLegacy
  <2> QED
    BY <2>1, <2>2, <2>3 DEF Core
<1>5. NoTaskLeft'
  BY <1>2 DEF Inv, TypeInv, TypeOK, Tasks, NoTaskLeft, InTick, Core, SubmitDecision,
     FailDecision, SubmitLegacy
<1> QED
  BY <1>1, <1>3, <1>4, <1>5 DEF Inv

LEMMA InvSource == Inv /\ (Source \/ Expire) => Inv'
<1> SUFFICES ASSUME Inv, Source \/ Expire PROVE Inv'
  OBVIOUS
<1>1. TypeInv'
  BY TypeSource DEF Inv
<1>2. UNCHANGED <<world, tick>> /\ ghost'.unheard = ghost.unheard
      /\ ghost'.pausing = ghost.pausing
  BY DEF Inv, TypeInv, TypeOK, Source, Expire, OpenRequest, TakePlan, CloseRequest,
     FinishRequest, Ghosts
<1>3. CleanTick' /\ PlayerPauseStands'
  BY <1>2 DEF Inv, CleanTick, InTick, Halted, PlayerPauseStands
<1>4. AnsweredOnce'
  <2> USE DEF Inv, TypeInv, TypeOK, AnsweredOnce
  <2>1. CASE OpenRequest
    BY <2>1 DEF OpenRequest, Task
  <2>2. CASE TakePlan
    BY <2>2 DEF TakePlan, Ready
  <2>3. CASE Expire
    BY <2>3 DEF Expire
  <2>4. CASE CloseRequest
    BY <2>4 DEF CloseRequest, Ghosts
  <2>5. CASE FinishRequest
    BY <2>5 DEF FinishRequest
  <2> QED
    BY <2>1, <2>2, <2>3, <2>4, <2>5 DEF Source
<1>5. NoTaskLeft'
  BY <1>2 DEF Inv, NoTaskLeft, InTick, Source, Expire, OpenRequest, TakePlan, Ready,
     CloseRequest, FinishRequest
<1> QED
  BY <1>1, <1>3, <1>4, <1>5 DEF Inv

\* When the runner commits, the world is the one it observed, running and undisturbed.
LEMMA CommitsClean ==
  ASSUME Inv, TickSettings \/ SourceFailed \/ SettlePlan \/ RejectionFails \/ SettleEmpty
  PROVE  /\ ~world.paused /\ world.reason = "none" /\ ~world.failed
         /\ ~ghost'.unheard
         /\ tick'.pc \in {"delay", "dead"}
         /\ UNCHANGED sourceVars
         /\ ghost'.answers = ghost.answers /\ ghost'.pausing = ghost.pausing
         /\ task.stage = "done"
<1> USE DEF Inv, CleanTick, NoTaskLeft, InTick, Halted, Settle, PauseOnError, RaisesInside,
            RunnerCommits, Returned, Crashed, Idle, Seen
<1>1. CASE TickSettings
  BY <1>1 DEF TickSettings
<1>2. CASE SourceFailed
  BY <1>2 DEF SourceFailed, Answered
<1>3. CASE SettlePlan
  BY <1>3 DEF SettlePlan, Proposed, Superseded, Answered
<1>4. CASE RejectionFails
  BY <1>4 DEF RejectionFails, Proposed, Superseded, Answered
<1>5. CASE SettleEmpty
  BY <1>5 DEF SettleEmpty, Proposed, Superseded, Answered
<1> QED
  BY <1>1, <1>2, <1>3, <1>4, <1>5

LEMMA InvRunner == Inv /\ (Runner \/ DelayPasses) => Inv'
<1> SUFFICES ASSUME Inv, Runner \/ DelayPasses PROVE Inv'
  OBVIOUS
<1>1. TypeInv'
  BY TypeRunner DEF Inv
<1> SUFFICES CleanTick' /\ PlayerPauseStands' /\ AnsweredOnce' /\ NoTaskLeft'
  BY <1>1 DEF Inv
<1>2. CASE TickSettings \/ SourceFailed \/ SettlePlan \/ RejectionFails \/ SettleEmpty
  <2>1. CleanTick'
    BY <1>2, CommitsClean DEF CleanTick, InTick
  <2>2. PlayerPauseStands'
    BY <1>2, CommitsClean DEF Inv, PlayerPauseStands
  <2>3. AnsweredOnce'
    BY <1>2, CommitsClean DEF Inv, AnsweredOnce, sourceVars
  <2>4. NoTaskLeft'
    BY <1>2, CommitsClean DEF NoTaskLeft, sourceVars
  <2> QED
    BY <2>1, <2>2, <2>3, <2>4
<1>3. CASE WakeChanged \/ WakeAnswered
  <2>1. /\ UNCHANGED <<world, ghost, request>>
        /\ tick.pc = "asking" /\ tick'.pc = "answered" /\ tick'.seen = tick.seen
    BY <1>3 DEF Inv, TypeInv, TypeOK, Ticks, Tasks, WakeChanged, WakeAnswered, Task
  <2>2. CleanTick' /\ PlayerPauseStands'
    BY <2>1 DEF Inv, CleanTick, InTick, Halted, PlayerPauseStands
  <2>3. task'.stage # "open" => task.stage # "open"
    BY <1>3 DEF Inv, TypeInv, TypeOK, Tasks, WakeChanged, WakeAnswered, Task
  <2> QED
    BY <2>1, <2>2, <2>3 DEF Inv, AnsweredOnce, NoTaskLeft, InTick
<1>4. CASE TickHalted \/ DropAnswer \/ WakeUp \/ DelayPasses
  <2>1. /\ UNCHANGED <<world, task, request>>
        /\ ghost'.answers = ghost.answers /\ ghost'.pausing = ghost.pausing
        /\ tick'.pc \in {"top", "delay", "dead"}
    BY <1>4 DEF Inv, TypeInv, TypeOK, Ticks, TickHalted, DropAnswer, WakeUp, DelayPasses,
       sourceVars, Returned, Idle, Seen
  <2>2. task.stage = "done"
    BY <1>4 DEF Inv, NoTaskLeft, InTick, TickHalted, DropAnswer, Answered, WakeUp, DelayPasses
  <2> QED
    BY <2>1, <2>2 DEF Inv, CleanTick, InTick, PlayerPauseStands, AnsweredOnce, NoTaskLeft
<1>5. CASE TickAsks
  <2>1. /\ tick'.pc = "asking" /\ tick'.seen.version = world.version
        /\ UNCHANGED <<world, request>> /\ ~Halted
        /\ ghost'.unheard = FALSE /\ ghost'.answers = ghost.answers
        /\ ghost'.pausing = ghost.pausing /\ task'.stage = "created"
    BY <1>5 DEF TickAsks, Ask, Seen, Snapshot, Task
  <2>2. request = NoRequest
    BY <1>5 DEF TickAsks, Inv, NoTaskLeft, InTick, AnsweredOnce
  <2>3. CleanTick' /\ PlayerPauseStands'
    BY <2>1 DEF Inv, TypeInv, TypeOK, Worlds, CleanTick, Halted, PlayerPauseStands
  <2> QED
    BY <2>1, <2>2, <2>3 DEF Inv, AnsweredOnce, NoTaskLeft, InTick
<1>6. CASE RejectPlan
  BY <1>6 DEF RejectPlan, Ask, Proposed, Answered, Inv, CleanTick, InTick, Halted,
     PlayerPauseStands, AnsweredOnce, NoTaskLeft, Task
<1> QED
  BY <1>2, <1>3, <1>4, <1>5, <1>6 DEF Runner

LEMMA InvStep == Inv /\ [Next]_vars => Inv'
<1> SUFFICES ASSUME Inv, [Next]_vars PROVE Inv'
  OBVIOUS
<1>1. CASE UNCHANGED vars
  BY <1>1 DEF vars, Inv, TypeInv, TypeOK, PlanArrived, CleanTick, InTick, Halted,
     PlayerPauseStands, AnsweredOnce, NoTaskLeft
<1> QED
  BY <1>1, InvCommand, InvCore, InvSource, InvRunner DEF Next

LEMMA InvInit == Init => Inv
BY TypeInit DEF Init, Inv, CleanTick, InTick, PlayerPauseStands, AnsweredOnce, NoTaskLeft,
   Idle, Task

\* The inductive invariant holds in every reachable state, whatever storage does.
THEOREM Invariant == Spec => []Inv
BY InvInit, InvStep, PTL DEF Spec

-----------------------------------------------------------------------------
(* The theorems.                                                           *)

\* A player's pause stands until the player ends it, whatever the source does.
THEOREM PauseStands == Spec => []PlayerPauseStands
<1>1. Inv => PlayerPauseStands
  BY DEF Inv
<1> QED
  BY <1>1, Invariant, PTL

\* A decision request is answered at most once, for any number of submissions and
\* receipts.
THEOREM AnswersOnce == Spec => []OneAnswerPerRequest
<1>1. Inv => OneAnswerPerRequest
  BY DEF Inv, AnsweredOnce, OneAnswerPerRequest
<1> QED
  BY <1>1, Invariant, PTL

\* Only the runner settles and gives up.
LEMMA OnlyRunnerCommits ==
  ASSUME TypeInv, [Next]_vars, Settles \/ GivesUp
  PROVE  TickSettings \/ SourceFailed \/ SettlePlan \/ RejectionFails \/ SettleEmpty
<1> USE DEF TypeInv, TypeOK, Worlds, Settles, GivesUp
<1>1. world' # world
  OBVIOUS
<1>2. ~Command
  <2> SUFFICES ASSUME Command PROVE FALSE
    OBVIOUS
  <2>1. \/ world'.tick = world.tick /\ world'.reason \in {world.reason, "player", "none"}
        \/ world'.tick = 0 /\ world'.reason = "none"
    <3> USE DEF Commits, Raises
    <3>1. CASE Pause
      BY <3>1 DEF Pause, HaltedFor
    <3>2. CASE Resume
      BY <3>2 DEF Resume, HaltedFor
    <3>3. CASE ResumeFailed
      BY <3>3 DEF ResumeFailed
    <3>4. CASE Speed
      BY <3>4 DEF Speed, Respeeded
    <3>5. CASE Edit
      BY <3>5 DEF Edit, Edited
    <3>6. CASE Reset
      BY <3>6 DEF Reset, FreshWorld
    <3> QED
      BY <3>1, <3>2, <3>3, <3>4, <3>5, <3>6 DEF Command
  <2> QED
    BY <2>1
<1>3. ~Core
  BY <1>1 DEF Core, SubmitDecision, FailDecision, SubmitLegacy
<1>4. ~Source /\ ~Expire
  BY <1>1 DEF Source, Expire, OpenRequest, TakePlan, CloseRequest, FinishRequest
<1>5. ~(\/ WakeChanged \/ WakeAnswered \/ WakeUp \/ TickHalted \/ TickAsks \/ DropAnswer
        \/ RejectPlan \/ DelayPasses)
  BY <1>1 DEF WakeChanged, WakeAnswered, WakeUp, TickHalted, TickAsks, DropAnswer,
     RejectPlan, DelayPasses
<1>6. ~UNCHANGED vars
  BY <1>1 DEF vars
<1> QED
  BY <1>2, <1>3, <1>4, <1>5, <1>6 DEF Next, Runner

\* A tick that a command has disturbed commits nothing, for every interval, number of
\* attempts, number of plans in the queue and number of storage failures.
THEOREM DisturbedTicks == Spec => DisturbedTickHasNoEffect
<1>1. Inv /\ [Next]_vars => [Settles \/ GivesUp => ~ghost'.unheard]_vars
  BY OnlyRunnerCommits, CommitsClean DEF Inv
<1> QED
  BY <1>1, Invariant, PTL DEF Spec, DisturbedTickHasNoEffect

-----------------------------------------------------------------------------
(* The loop implements the world that AbstractWorld promises.              *)

\* A commit that is given an abstract change is one, or changes nothing.
LEMMA RunnerImplements ==
  ASSUME Inv, TickSettings \/ SourceFailed \/ SettlePlan \/ RejectionFails \/ SettleEmpty
  PROVE  [Abstract!Change]_world
<1>1. Abstract!Running
  BY CommitsClean DEF Abstract!Running
<1>2. ASSUME NEW l, NEW unheard, NEW exhausted, Settle(l, unheard, exhausted)
      PROVE  [Abstract!Change]_world
  <2>1. PICK mission \in BOOLEAN : world' = world \/ world' = Settled(world, mission)
    BY <1>2 DEF Settle, RunnerCommits, Commits, Raises
  <2> QED
    BY <1>1, <2>1 DEF Settled, Abstract!Change, Abstract!Advance, Abstract!Becomes
<1>3. ASSUME NEW l, NEW unheard, NEW left, PauseOnError(l, unheard, left)
      PROVE  [Abstract!Change]_world
  <2>1. world' = world \/ world' = HaltedFor(world, "error")
    BY <1>3 DEF PauseOnError, RunnerCommits, Commits, Raises
  <2> QED
    BY <1>1, <2>1 DEF HaltedFor, Abstract!Change, Abstract!Suspend, Abstract!Becomes
<1> QED
  BY <1>2, <1>3
  DEF TickSettings, SourceFailed, SettlePlan, RejectionFails, SettleEmpty, RaisesInside

LEMMA CommandImplements ==
  ASSUME TypeInv, Command
  PROVE  [Abstract!Change]_world
<1> USE DEF TypeInv, TypeOK, Worlds, Commits, Raises, Abstract!Change, Abstract!Becomes
<1>1. CASE Pause
  BY <1>1 DEF Pause, HaltedFor, Abstract!Stop
<1>2. CASE Resume
  BY <1>2 DEF Resume, HaltedFor, Abstract!Go
<1>3. CASE ResumeFailed
  BY <1>3 DEF ResumeFailed
<1>4. CASE Speed
  BY <1>4 DEF Speed, Respeeded, Abstract!Adjust
<1>5. CASE Edit
  <2>1. PICK kills \in BOOLEAN : world' = world \/ world' = Edited(world, kills)
    BY <1>5 DEF Edit
  <2>2. (world.failed \/ kills) \in {world.failed, TRUE}
    OBVIOUS
  <2> QED
    BY <2>1, <2>2 DEF Edited, Abstract!Adjust
<1>6. CASE Reset
  BY <1>6 DEF Reset, FreshWorld, Abstract!Restart
<1> QED
  BY <1>1, <1>2, <1>3, <1>4, <1>5, <1>6 DEF Command

LEMMA StepImplements == Inv /\ [Next]_vars => [Abstract!Change]_world
<1> SUFFICES ASSUME Inv, [Next]_vars PROVE [Abstract!Change]_world
  OBVIOUS
<1>1. CASE Command
  BY <1>1, CommandImplements DEF Inv
<1>2. CASE TickSettings \/ SourceFailed \/ SettlePlan \/ RejectionFails \/ SettleEmpty
  BY <1>2, RunnerImplements
<1>3. CASE Core \/ Source \/ Expire
  BY <1>3 DEF Core, SubmitDecision, FailDecision, SubmitLegacy, Source, Expire,
     OpenRequest, TakePlan, CloseRequest, FinishRequest
<1>4. CASE WakeChanged \/ WakeAnswered \/ WakeUp \/ TickHalted \/ TickAsks \/ DropAnswer
           \/ RejectPlan \/ DelayPasses
  BY <1>4 DEF WakeChanged, WakeAnswered, WakeUp, TickHalted, TickAsks, DropAnswer,
     RejectPlan, DelayPasses
<1>5. CASE UNCHANGED vars
  BY <1>5 DEF vars
<1> QED
  BY <1>1, <1>2, <1>3, <1>4, <1>5 DEF Next, Runner

\* What every reader of the world relies on: a version that counts the changes, a world
\* that only moves while it runs, and a failed mission that only a reset ends.
THEOREM Implements == Spec => StaysSafe
<1>1. Init => Abstract!Initially
  BY DEF Init, FreshWorld, Abstract!Initially
<1> QED
  BY <1>1, StepImplements, Invariant, PTL DEF Spec, StaysSafe, Abstract!Safe

-----------------------------------------------------------------------------
(* Without storage failures, no edit goes unheard.                         *)

EditEvent(v) == [kind |-> "edit", version |-> v]

\* Every edit since the last settlement waits among the events, and a tick whose
\* world is still the observed one was told of all the events that wait.
EditsKept ==
  /\ faults = 0
  /\ \A v \in ghost.edits : EditEvent(v) \in loop.events
  /\ InTick /\ tick.seen.version = world.version => tick.told = loop.events

\* A command that is not refused keeps the edits, and moves the world on.
LEMMA EditsTold ==
  ASSUME Inv, EditsKept, Command
  PROVE  /\ faults' = 0
         /\ \A v \in ghost'.edits : EditEvent(v) \in loop'.events
         /\ world'.version = world.version + 1 \/ UNCHANGED <<world, loop>>
<1> USE DEF Inv, TypeInv, TypeOK, EditsKept, Commits, Raises
<1>1. CASE Pause
  BY <1>1 DEF Pause, HaltedFor, Commanded, Announced
<1>2. CASE Resume
  BY <1>2 DEF Resume, HaltedFor, Commanded, Announced
<1>3. CASE ResumeFailed
  BY <1>3 DEF ResumeFailed
<1>4. CASE Speed
  BY <1>4 DEF Speed, Respeeded, Commanded, Announced
<1>5. CASE Edit
  <2>1. PICK kills \in BOOLEAN : Edit!(kills)
    BY <1>5 DEF Edit
  <2>2. world' = Edited(world, kills) /\ faults' = 0
    BY <2>1
  <2>3. world'.version = world.version + 1
    BY <2>2 DEF Edited
  <2>4. loop'.events = loop.events \cup {EditEvent(Edited(world, kills).version)}
    BY <2>1 DEF Announced, EditEvent
  <2>5. ghost'.edits \subseteq ghost.edits \cup {Edited(world, kills).version}
    BY <2>1 DEF Commanded
  <2> QED
    BY <2>2, <2>3, <2>4, <2>5
<1>6. CASE Reset
  <2>1. world' = FreshWorld(world.version + 1) /\ faults' = 0
    BY <1>6 DEF Reset
  <2>2. world'.version = world.version + 1 /\ world' # world
    BY <2>1 DEF FreshWorld, Worlds
  <2>3. ghost'.edits = {}
    BY <1>6, <2>2 DEF Reset, Restarted
  <2> QED
    BY <2>1, <2>2, <2>3
<1> QED
  BY <1>1, <1>2, <1>3, <1>4, <1>5, <1>6 DEF Command

LEMMA EditsCommand ==
  ASSUME Inv, EditsKept, Command
  PROVE  EditsKept'
<1>1. tick.seen.version \in Nat /\ world.version \in Nat
  BY DEF Inv, TypeInv, TypeOK, Ticks, Snapshots, Worlds
<1>2. InTick' => tick' = tick /\ tick.seen.version <= world.version
  BY CommandEffect DEF Inv, InTick, CleanTick
<1> QED
  BY <1>1, <1>2, EditsTold DEF EditsKept, InTick

LEMMA EditsRunner ==
  ASSUME Inv, EditsKept, Runner
  PROVE  EditsKept'
<1> USE DEF Inv, TypeInv, TypeOK, EditsKept
<1>1. CASE WakeChanged \/ WakeAnswered \/ WakeUp \/ DelayPasses
  BY <1>1 DEF WakeChanged, WakeAnswered, WakeUp, DelayPasses, InTick, Ticks
<1>2. CASE TickHalted \/ DropAnswer
  BY <1>2 DEF TickHalted, DropAnswer, InTick, Returned, Idle, Seen, Loops
<1>3. CASE TickAsks
  BY <1>3 DEF TickAsks, Ask, InTick, Seen, Cleared
<1>4. CASE RejectPlan
  BY <1>4 DEF RejectPlan, Ask, Proposed, Answered, InTick
<1>5. ASSUME NEW l, NEW unheard, NEW exhausted, Settle(l, unheard, exhausted)
      PROVE  EditsKept'
  BY <1>5 DEF Settle, RunnerCommits, Commits, Raises, Settled, Seen, Returned, Idle,
     InTick, Worlds
<1>6. CASE SourceFailed
  BY <1>6 DEF SourceFailed, PauseOnError, RunnerCommits, Commits, Raises, Seen, Returned,
     Idle, InTick
<1>7. ASSUME NEW l, NEW unheard, RaisesInside(l, unheard) PROVE FALSE
  BY <1>7 DEF RaisesInside
<1> QED
  BY <1>1, <1>2, <1>3, <1>4, <1>5, <1>6, <1>7
  DEF Runner, TickSettings, SettlePlan, RejectionFails, SettleEmpty

LEMMA EditsStep == Inv /\ EditsKept /\ [Next]_vars => EditsKept'
<1> SUFFICES ASSUME Inv, EditsKept, [Next]_vars PROVE EditsKept'
  OBVIOUS
<1>1. CASE Core \/ Source \/ Expire \/ DelayPasses
  BY <1>1 DEF EditsKept, InTick, Inv, TypeInv, TypeOK, Ghosts, Ticks, Core, SubmitDecision,
     FailDecision, SubmitLegacy, Source, Expire, OpenRequest, TakePlan, CloseRequest,
     FinishRequest, DelayPasses
<1>2. CASE UNCHANGED vars
  BY <1>2 DEF vars, EditsKept, InTick
<1> QED
  BY <1>1, <1>2, EditsCommand, EditsRunner DEF Next

\* As long as storage does not fail, every settlement follows a decision that was told
\* of all the player's edits since the last one, for every decision interval.
THEOREM AllEditsHeard == MaxFaults = 0 => (Spec => EditsAreHeard)
<1> SUFFICES ASSUME MaxFaults = 0 PROVE Spec => EditsAreHeard
  OBVIOUS
<1>1. Init => EditsKept
  BY DEF Init, EditsKept, InTick, Idle
<1>2. ASSUME Inv, EditsKept, [Next]_vars, Settles
      PROVE  \A v \in ghost.edits : EditEvent(v) \in tick.told
  <2>1. TickSettings \/ SourceFailed \/ SettlePlan \/ RejectionFails \/ SettleEmpty
    BY <1>2, OnlyRunnerCommits DEF Inv
  <2>2. CASE TickSettings
    BY <1>2, <2>2 DEF TickSettings, Decides, EditsKept
  <2>3. CASE SourceFailed \/ RejectionFails
    BY <1>2, <2>3 DEF SourceFailed, RejectionFails, RaisesInside, EditsKept, PauseOnError,
       RunnerCommits, Commits, Raises, HaltedFor, Settles, Inv, TypeInv, TypeOK, Worlds
  <2>4. CASE SettlePlan \/ SettleEmpty
    BY <1>2, <2>4 DEF SettlePlan, SettleEmpty, Proposed, Answered, Superseded, EditsKept, InTick
  <2> QED
    BY <2>1, <2>2, <2>3, <2>4
<1>3. Inv /\ EditsKept /\ [Next]_vars
      => [Settles => \A v \in ghost.edits :
                       [kind |-> "edit", version |-> v] \in tick.told]_vars
  BY <1>2 DEF EditEvent
<1> QED
  BY <1>1, <1>3, EditsStep, Invariant, PTL DEF Spec, EditsAreHeard

-----------------------------------------------------------------------------
(* Without storage failures and unbound plans, no attempt is wasted.       *)

BoundToTick(p) == p.version = tick.seen.version /\ p.tick = tick.seen.tick

\* A change made during a tick moves the version on, and is noticed by nobody if it
\* does not.
TickObserves ==
  /\ faults = 0
  /\ InTick /\ loop.changed => world.version # tick.seen.version
  /\ InTick /\ world.version = tick.seen.version => Snapshot(world) = tick.seen

\* The open request asks for the observed snapshot, and nothing has arrived before it
\* is answered.
NothingUnasked ==
  request # NoRequest =>
    /\ request.at = tick.seen
    /\ request.status = "awaiting" => /\ plans = <<>> /\ task.popped = NoPlan
                                      /\ ~task.failure

\* A plan waits in the queue only for the request it answers.
OneWaits ==
  plans # <<>> =>
    /\ Len(plans) = 1 /\ BoundToTick(plans[1])
    /\ task.stage = "open" /\ task.popped = NoPlan
    /\ ~task.cancelled /\ ~task.failure

\* What was taken from the queue belongs to the tick that took it.
TakenBelongs ==
  /\ task.popped # NoPlan => BoundToTick(task.popped)
  /\ InTick /\ task.cancelled => world.version # tick.seen.version
  /\ tick.pc # "asking" =>
       \/ task.stage = "done" /\ task.popped = NoPlan
       \/ InTick /\ task.cancelled /\ task.stage \notin {"created", "done"}
  /\ tick.outcome = "plan" => tick.plan # NoPlan /\ BoundToTick(tick.plan)

Bound == TickObserves /\ NothingUnasked /\ OneWaits /\ TakenBelongs

\* What a command does when storage does not fail.
LEMMA PlainCommand ==
  ASSUME TypeInv, faults = 0, Command
  PROVE  /\ faults' = 0
         /\ world'.version = world.version + 1 \/ UNCHANGED <<world, loop>>
         /\ plans' = plans \/ plans' = <<>>
         /\ tick' = tick \/ (tick.pc = "dead" /\ tick' = Idle("top"))
<1> USE DEF TypeInv, TypeOK, Commits, Raises, Started
<1>1. CASE Pause
  BY <1>1 DEF Pause, HaltedFor, sourceVars
<1>2. CASE Resume
  <2>1. world' = HaltedFor(world, "none") /\ faults' = 0 /\ tick' = Started
    BY <1>2 DEF Resume
  <2>2. world'.version = world.version + 1
    BY <2>1 DEF HaltedFor
  <2> QED
    BY <1>2, <2>1, <2>2 DEF Resume, sourceVars
<1>3. CASE ResumeFailed
  BY <1>3 DEF ResumeFailed, sourceVars
<1>4. CASE Speed
  BY <1>4 DEF Speed, Respeeded, sourceVars
<1>5. CASE Edit
  <2>1. PICK kills \in BOOLEAN : world' = Edited(world, kills) /\ faults' = 0
    BY <1>5 DEF Edit
  <2>2. world'.version = world.version + 1
    BY <2>1 DEF Edited
  <2> QED
    BY <1>5, <2>1, <2>2 DEF Edit, sourceVars
<1>6. CASE Reset
  <2>1. world' = FreshWorld(world.version + 1) /\ faults' = 0 /\ tick' = Started
    BY <1>6 DEF Reset
  <2>2. world'.version = world.version + 1
    BY <2>1 DEF FreshWorld
  <2> QED
    BY <1>6, <2>1, <2>2 DEF Reset
<1> QED
  BY <1>1, <1>2, <1>3, <1>4, <1>5, <1>6 DEF Command

LEMMA BoundCommand ==
  ASSUME Inv, Bound, Command
  PROVE  Bound'
<1> USE DEF Inv, TypeInv, TypeOK, Bound
<1>1. world.version \in Nat /\ tick.seen.version \in Nat
  BY DEF Worlds, Ticks, Snapshots
<1>2. /\ faults' = 0
      /\ world'.version = world.version + 1 \/ UNCHANGED <<world, loop>>
      /\ plans' = plans \/ plans' = <<>>
      /\ tick' = tick \/ (tick.pc = "dead" /\ tick' = Idle("top"))
      /\ UNCHANGED <<task, request>>
  BY PlainCommand, CommandEffect DEF TickObserves
<1>3. CASE tick' = tick
  <2>1. TickObserves'
    BY <1>1, <1>2, <1>3 DEF TickObserves, InTick, CleanTick
  <2>2. NothingUnasked' /\ OneWaits'
    BY <1>2, <1>3 DEF NothingUnasked, OneWaits, BoundToTick
  <2>3. TakenBelongs'
    BY <1>1, <1>2, <1>3 DEF TakenBelongs, InTick, CleanTick, BoundToTick
  <2> QED
    BY <2>1, <2>2, <2>3
<1>4. CASE tick.pc = "dead" /\ tick' = Idle("top")
  <2>1. /\ task.stage = "done" /\ request = NoRequest /\ plans = <<>>
        /\ task.popped = NoPlan
    BY <1>4 DEF NoTaskLeft, AnsweredOnce, InTick, OneWaits, TakenBelongs
  <2>2. ~InTick' /\ tick'.outcome = "none"
    BY <1>4 DEF Idle, InTick
  <2> QED
    BY <1>2, <2>1, <2>2 DEF TickObserves, NothingUnasked, OneWaits, TakenBelongs
<1> QED
  BY <1>2, <1>3, <1>4

LEMMA BoundCore ==
  ASSUME Inv, Bound, Core, LegacyQueue = 0
  PROVE  Bound'
<1> USE DEF Inv, TypeInv, TypeOK, Bound
<1>1. ASSUME NEW s \in Submissions, SubmitDecision(s) PROVE Bound'
  <2>1. /\ request # NoRequest /\ request.status = "awaiting" /\ request.at = Snapshot(world)
        /\ UNCHANGED <<world, loop, tick, task, faults>>
        /\ request'.at = request.at /\ request'.status = "queued"
    BY <1>1 DEF SubmitDecision, Awaiting, Requests
  <2>2. PICK ok \in BOOLEAN :
          plans' = Append(plans, [tick |-> world.tick, version |-> world.version,
                                  feasible |-> ok, era |-> ghost.era])
    BY <1>1 DEF SubmitDecision
  <2>3. /\ request.at = tick.seen /\ plans = <<>> /\ task.popped = NoPlan /\ ~task.failure
    BY <2>1 DEF NothingUnasked
  <2>4. Len(plans') = 1 /\ BoundToTick(plans'[1])
    BY <2>1, <2>2, <2>3 DEF BoundToTick, Snapshot
  <2>5. task.stage = "open" /\ InTick
    BY <2>1 DEF AnsweredOnce, NoTaskLeft
  <2>6. ~task.cancelled
    BY <2>1, <2>3, <2>5 DEF TakenBelongs, Snapshot
  <2> QED
    BY <2>1, <2>3, <2>4, <2>5, <2>6
    DEF TickObserves, InTick, NothingUnasked, OneWaits, TakenBelongs, BoundToTick
<1>2. CASE FailDecision
  <2>1. /\ request # NoRequest /\ request.status = "awaiting"
        /\ UNCHANGED <<world, loop, tick, plans, faults>>
        /\ request'.at = request.at /\ request'.status = "failed"
        /\ task' = [task EXCEPT !.failure = TRUE]
    BY <1>2 DEF FailDecision, Awaiting, Requests
  <2>2. plans = <<>> /\ task.popped = NoPlan
    BY <2>1 DEF NothingUnasked
  <2>3. /\ task'.popped = task.popped /\ task'.cancelled = task.cancelled
        /\ task'.stage = task.stage
    BY <2>1 DEF Tasks
  <2> QED
    BY <2>1, <2>2, <2>3
    DEF TickObserves, InTick, NothingUnasked, OneWaits, TakenBelongs, BoundToTick
<1>3. ~SubmitLegacy
  BY DEF SubmitLegacy
<1> QED
  BY <1>1, <1>2, <1>3 DEF Core

LEMMA TailOfOne ==
  ASSUME NEW S, NEW s \in Seq(S), Len(s) = 1
  PROVE  Tail(s) = <<>> /\ Head(s) = s[1]
<1>1. Tail(s) \in Seq(S) /\ Len(Tail(s)) = 0
  OBVIOUS
<1>2. \A t \in Seq(S) : Len(t) = 0 => t = <<>>
  OBVIOUS
<1>3. Head(s) = s[1]
  OBVIOUS
<1> QED
  BY <1>1, <1>2, <1>3

LEMMA BoundSource ==
  ASSUME Inv, Bound, Source \/ Expire
  PROVE  Bound'
<1> USE DEF Inv, TypeInv, TypeOK, Bound
<1>0. UNCHANGED <<world, loop, tick, faults>>
  BY DEF Source, Expire, OpenRequest, TakePlan, CloseRequest, FinishRequest
<1>1. TickObserves'
  BY <1>0 DEF TickObserves, InTick
<1>2. CASE OpenRequest
  <2>1. /\ task.stage = "created" /\ task' = Task("open") /\ plans' = plans
        /\ request'.at = tick.seen
    BY <1>2 DEF OpenRequest
  <2>2. plans = <<>>
    BY <2>1 DEF OneWaits
  <2>3. task'.popped = NoPlan /\ ~task'.failure /\ ~task'.cancelled
    BY <2>1 DEF Task
  <2>4. tick.pc = "asking"
    BY <2>1 DEF TakenBelongs
  <2> QED
    <3>1. NothingUnasked' /\ OneWaits'
      BY <1>0, <2>1, <2>2, <2>3 DEF NothingUnasked, OneWaits
    <3>2. TakenBelongs'
      BY <1>0, <2>3, <2>4 DEF TakenBelongs, InTick, BoundToTick
    <3> QED
      BY <1>1, <3>1, <3>2
<1>3. CASE TakePlan
  <2>1. /\ Len(plans) = 1 /\ BoundToTick(plans[1])
        /\ task.stage = "open" /\ ~task.cancelled /\ ~task.failure
        /\ plans' = Tail(plans) /\ task' = [task EXCEPT !.popped = Head(plans)]
    BY <1>3 DEF TakePlan, Ready, OneWaits
  <2>2. plans' = <<>>
    BY <2>1, TailOfOne
  <2>3. /\ task'.popped = plans[1] /\ task'.stage = "open"
        /\ task'.cancelled = task.cancelled
    BY <2>1, TailOfOne DEF Tasks
  <2>4. request'= request /\ (request # NoRequest => request.status # "awaiting")
    BY <1>3 DEF TakePlan, Ready, NothingUnasked
  <2>5. tick.pc = "asking"
    BY <2>1 DEF TakenBelongs
  <2> QED
    BY <1>0, <1>1, <2>1, <2>2, <2>3, <2>4, <2>5
    DEF NothingUnasked, OneWaits, TakenBelongs, BoundToTick, InTick
<1>4. CASE Expire
  <2>1. /\ task'.popped = task.popped /\ task'.cancelled = task.cancelled
        /\ task'.stage = task.stage /\ task'.failure = task.failure
        /\ UNCHANGED <<request, plans>>
    BY <1>4 DEF Expire, Tasks
  <2> QED
    BY <1>0, <1>1, <2>1 DEF NothingUnasked, OneWaits, TakenBelongs, BoundToTick, InTick
<1>5. CASE CloseRequest
  <2>1. /\ task'.popped = task.popped /\ task'.cancelled = task.cancelled
        /\ task'.stage = "closing" /\ request' = NoRequest /\ plans' = plans
        /\ task.stage = "open"
    BY <1>5 DEF CloseRequest, Tasks
  <2>2. plans = <<>>
    BY <1>5 DEF CloseRequest, Ready, OneWaits
  <2> QED
    BY <1>0, <1>1, <2>1, <2>2 DEF NothingUnasked, OneWaits, TakenBelongs, BoundToTick, InTick
<1>6. CASE FinishRequest
  <2>1. task.stage = "closing" /\ UNCHANGED <<request, plans>>
    BY <1>6 DEF FinishRequest
  <2>2. plans = <<>> /\ request = NoRequest
    BY <2>1 DEF OneWaits, AnsweredOnce
  <2>3. \/ task' = Task("done")
        \/ ~task.cancelled /\ task'.popped = task.popped /\ task'.cancelled = task.cancelled
    BY <1>6 DEF FinishRequest, Tasks
  <2> QED
    BY <1>0, <1>1, <2>1, <2>2, <2>3
    DEF NothingUnasked, OneWaits, TakenBelongs, BoundToTick, InTick, Task
<1> QED
  BY <1>1, <1>2, <1>3, <1>4, <1>5, <1>6 DEF Source

\* When storage does not fail, what the runner commits ends its tick.
LEMMA PlainCommits ==
  ASSUME TypeInv, faults = 0,
         TickSettings \/ SourceFailed \/ SettlePlan \/ RejectionFails \/ SettleEmpty
  PROVE  faults' = 0 /\ tick'.outcome = "none" /\ tick.pc # "asking"
<1>1. ASSUME NEW l, NEW unheard, NEW exhausted, Settle(l, unheard, exhausted)
      PROVE  faults' = 0 /\ tick'.outcome = "none"
  BY <1>1 DEF Settle, RunnerCommits, Commits, Raises, Returned, Crashed, Idle
<1>2. ASSUME NEW l, NEW unheard, PauseOnError(l, unheard, faults)
      PROVE  faults' = 0 /\ tick'.outcome = "none"
  BY <1>2 DEF PauseOnError, RunnerCommits, Commits, Raises, Returned, Crashed, Idle
<1>3. ASSUME NEW l, NEW unheard, RaisesInside(l, unheard) PROVE FALSE
  BY <1>3 DEF RaisesInside
<1>4. tick.pc # "asking"
  BY DEF TickSettings, SourceFailed, SettlePlan, RejectionFails, SettleEmpty, Proposed,
     Answered
<1> QED
  BY <1>1, <1>2, <1>3, <1>4
  DEF TickSettings, SourceFailed, SettlePlan, RejectionFails, SettleEmpty

LEMMA BoundRunner ==
  ASSUME Inv, Bound, Runner \/ DelayPasses
  PROVE  Bound'
<1> USE DEF Inv, TypeInv, TypeOK, Bound
<1>0. faults = 0 /\ faults' = 0
  <2>1. faults = 0
    BY DEF TickObserves
  <2>2. CASE TickSettings \/ SourceFailed \/ SettlePlan \/ RejectionFails \/ SettleEmpty
    BY <2>1, <2>2, PlainCommits
  <2>3. CASE \/ WakeChanged \/ WakeAnswered \/ WakeUp \/ TickHalted \/ TickAsks \/ DropAnswer
             \/ RejectPlan \/ DelayPasses
    BY <2>1, <2>3 DEF WakeChanged, WakeAnswered, WakeUp, TickHalted, TickAsks, DropAnswer,
       RejectPlan, DelayPasses
  <2> QED
    BY <2>1, <2>2, <2>3 DEF Runner
<1>1. ASSUME task.stage = "done", ~InTick', tick.pc # "asking", tick'.outcome = "none",
             UNCHANGED sourceVars
      PROVE  Bound'
  <2>1. plans = <<>> /\ request = NoRequest /\ task.popped = NoPlan
    BY <1>1 DEF OneWaits, AnsweredOnce, TakenBelongs
  <2> QED
    BY <1>0, <1>1, <2>1 DEF TickObserves, NothingUnasked, OneWaits, TakenBelongs, InTick,
       sourceVars
<1>2. CASE TickSettings \/ SourceFailed \/ SettlePlan \/ RejectionFails \/ SettleEmpty
  <2>1. /\ task.stage = "done" /\ ~InTick' /\ UNCHANGED sourceVars
    BY <1>2, CommitsClean DEF InTick
  <2> QED
    BY <1>0, <1>1, <1>2, <2>1, PlainCommits
<1>3. CASE TickHalted \/ DropAnswer
  <2>1. tick' = Returned(world) /\ UNCHANGED sourceVars /\ tick.pc # "asking"
    BY <1>3 DEF TickHalted, DropAnswer, Answered
  <2>2. ~InTick' /\ tick'.outcome = "none"
    BY <2>1 DEF Returned, Idle, InTick
  <2>3. task.stage = "done"
    BY <1>3 DEF TickHalted, DropAnswer, Answered, NoTaskLeft, InTick
  <2> QED
    BY <1>1, <2>1, <2>2, <2>3
<1>4. CASE WakeUp \/ DelayPasses
  <2>1. task.stage = "done" /\ ~InTick' /\ tick'.outcome = tick.outcome
        /\ tick'.plan = tick.plan /\ tick'.seen = tick.seen /\ UNCHANGED sourceVars
        /\ tick.pc # "asking" /\ UNCHANGED loop
    BY <1>4 DEF WakeUp, DelayPasses, NoTaskLeft, InTick, Ticks
  <2>2. plans = <<>> /\ request = NoRequest /\ task.popped = NoPlan
    BY <2>1 DEF OneWaits, AnsweredOnce, TakenBelongs
  <2> QED
    BY <1>0, <2>1, <2>2 DEF TickObserves, NothingUnasked, OneWaits, TakenBelongs, InTick,
       sourceVars, BoundToTick
<1>5. CASE TickAsks \/ RejectPlan
  <2>1. /\ task' = Task("created") /\ UNCHANGED <<request, plans>>
    BY <1>5 DEF TickAsks, RejectPlan, Ask
  <2>5. tick'.pc = "asking" /\ tick'.outcome = "none"
    <3>1. \E seen, told, rejected : Ask(seen, told, rejected)
      BY <1>5 DEF TickAsks, RejectPlan
    <3> QED
      BY <3>1 DEF Ask
  <2>4. task.stage = "done"
    BY <1>5 DEF TickAsks, RejectPlan, Proposed, Answered, NoTaskLeft, InTick
  <2>2. plans = <<>> /\ request = NoRequest
    BY <2>4 DEF OneWaits, AnsweredOnce
  <2>3. TickObserves'
    <3>1. CASE TickAsks
      <4>1. /\ tick'.seen = Snapshot(world) /\ world' = world /\ loop' = Cleared
        BY <3>1 DEF TickAsks, Ask
      <4> QED
        BY <1>0, <4>1 DEF TickObserves, Snapshot, Cleared
    <3>2. CASE RejectPlan
      <4>1. /\ tick'.seen = tick.seen /\ UNCHANGED <<world, loop>> /\ InTick
        BY <3>2 DEF RejectPlan, Ask, Proposed, Answered, InTick
      <4> QED
        BY <1>0, <4>1 DEF TickObserves, Snapshot
    <3> QED
      BY <1>5, <3>1, <3>2
  <2> QED
    BY <2>1, <2>2, <2>3, <2>5 DEF NothingUnasked, OneWaits, TakenBelongs, Task, InTick
<1>6. CASE WakeChanged
  <2>0. /\ tick.pc = "asking" /\ loop.changed /\ UNCHANGED <<world, loop, request>>
        /\ tick'.pc = "answered" /\ tick'.seen = tick.seen /\ tick'.outcome = "none"
        /\ InTick /\ InTick'
    BY <1>6 DEF WakeChanged, Ticks, InTick
  <2>1. world.version # tick.seen.version
    BY <2>0 DEF TickObserves
  <2>2. plans = <<>>
    BY <1>6 DEF WakeChanged, Ready, OneWaits
  <2>3. plans' = <<>>
    BY <1>6, <2>1, <2>2 DEF WakeChanged, TakenBelongs, BoundToTick, PlanArrived
  <2>4. \/ task.stage = "done" /\ task' = Task("done")
        \/ /\ task.stage # "done" /\ task'.stage = task.stage /\ task'.cancelled
           /\ task'.popped = task.popped /\ task'.failure = task.failure
    BY <1>6 DEF WakeChanged, Tasks
  <2> QED
    <3>1. TickObserves'
      BY <1>0, <2>0, <2>1 DEF TickObserves
    <3>2. task.stage = "done" => request = NoRequest
      BY DEF AnsweredOnce
    <3>3. NothingUnasked' /\ OneWaits'
      BY <2>0, <2>3, <2>4, <3>2 DEF NothingUnasked, OneWaits
    <3>4. TakenBelongs'
      <4>1. CASE task.stage = "done"
        BY <2>0, <2>1, <2>4, <4>1 DEF TakenBelongs, Task
      <4>2. CASE task.stage # "done"
        BY <1>6, <2>0, <2>1, <2>4, <4>2 DEF TakenBelongs, BoundToTick, WakeChanged
      <4> QED
        BY <4>1, <4>2
    <3> QED
      BY <3>1, <3>3, <3>4
<1>7. CASE WakeAnswered
  <2>0. /\ tick.pc = "asking" /\ UNCHANGED <<world, loop, request, plans>>
        /\ tick'.pc = "answered" /\ tick'.seen = tick.seen
        /\ tick'.outcome = task.outcome
        /\ tick'.plan = IF task.outcome = "plan" THEN task.popped ELSE NoPlan
        /\ task.stage = "done" /\ task' = Task("done")
    BY <1>7 DEF WakeAnswered, Ticks
  <2>1. plans = <<>> /\ request = NoRequest
    BY <2>0 DEF OneWaits, AnsweredOnce
  <2> QED
    BY <1>0, <2>0, <2>1
    DEF TickObserves, NothingUnasked, OneWaits, TakenBelongs, Task, BoundToTick, InTick,
       PlanArrived
<1> QED
  BY <1>2, <1>3, <1>4, <1>5, <1>6, <1>7 DEF Runner

LEMMA BoundStep == LegacyQueue = 0 /\ Inv /\ Bound /\ [Next]_vars => Bound'
<1> SUFFICES ASSUME LegacyQueue = 0, Inv, Bound, [Next]_vars PROVE Bound'
  OBVIOUS
<1>1. CASE UNCHANGED vars
  BY <1>1 DEF vars, Bound, TickObserves, NothingUnasked, OneWaits, TakenBelongs, InTick,
     BoundToTick
<1> QED
  BY <1>1, BoundCommand, BoundCore, BoundSource, BoundRunner DEF Next

\* As long as storage does not fail and nobody uses the unbound endpoint, every plan
\* that is proposed to a tick is bound to the snapshot the tick observed.
THEOREM AttemptsCount == LegacyQueue = 0 /\ MaxFaults = 0 => (Spec => []NoAttemptWasted)
<1> SUFFICES ASSUME LegacyQueue = 0, MaxFaults = 0 PROVE Spec => []NoAttemptWasted
  OBVIOUS
<1>1. Init => Bound
  BY DEF Init, Bound, TickObserves, NothingUnasked, OneWaits, TakenBelongs, InTick, Idle,
     Task
<1>2. Inv /\ Bound => NoAttemptWasted
  BY DEF Bound, NoAttemptWasted, Proposed, Answered, Superseded, TakenBelongs, BoundToTick,
     TickObserves, InTick, Snapshot
<1>3. Inv /\ Bound /\ [Next]_vars => Bound'
  BY BoundStep
<1> QED
  BY <1>1, <1>2, <1>3, Invariant, PTL DEF Spec

-----------------------------------------------------------------------------
(* A reset is final, also for plans that are bound to nothing.             *)

\* A plan names a version or was queued since the last reset.
FromHere(p) == p.version # NoVersion \/ p.era = ghost.era

\* Where that is not so, the tick that took the plan is over: the reset disturbed it,
\* and it returns to the queue only a plan that names a version.
AllFromHere ==
  /\ \A i \in DOMAIN plans : FromHere(plans[i])
  /\ task.popped # NoPlan /\ InTick =>
       FromHere(task.popped) \/ tick.seen.version < world.version
  /\ tick.plan # NoPlan /\ InTick =>
       FromHere(tick.plan) \/ tick.seen.version < world.version

Eras ==
  /\ faults <= MaxFaults
  /\ tick.outcome = "plan" => tick.plan # NoPlan
  /\ faults = MaxFaults => AllFromHere

\* The versions that FromHere and AllFromHere compare.
LEMMA EraTypes ==
  ASSUME TypeInv
  PROVE  /\ world.version \in Nat /\ tick.seen.version \in Nat /\ faults \in Nat
         /\ NoVersion # world.version
         /\ \A i \in DOMAIN plans : plans[i] \in Plans
         /\ task.popped # NoPlan => task.popped \in Plans
BY ConstantsAssumption DEF TypeInv, TypeOK, Worlds, Ticks, Snapshots, Tasks

\* A failure uses up a fault, and without one a command forgets the plans with the era.
LEMMA EraOfCommand ==
  ASSUME TypeInv, Command
  PROVE  /\ faults' = faults \/ faults' = faults - 1
         /\ plans' = plans \/ plans' = <<>>
         /\ faults' = faults =>
              \/ ghost'.era = ghost.era
              \/ world'.version = world.version + 1 /\ plans' = <<>>
         /\ tick' = tick \/ (tick.pc = "dead" /\ tick' = Idle("top"))
<1> USE DEF TypeInv, TypeOK, Commits, Raises, Started
<1>1. CASE Pause
  BY <1>1 DEF Pause, Commanded, sourceVars
<1>2. CASE Resume
  <2>1. ghost'.era = ghost.era /\ plans' = plans
    BY <1>2 DEF Resume, Commanded, sourceVars
  <2>2. /\ faults' = faults \/ faults' = faults - 1
        /\ tick' = Started \/ tick' = tick
    BY <1>2 DEF Resume
  <2> QED
    BY <2>1, <2>2
<1>3. CASE ResumeFailed
  BY <1>3 DEF ResumeFailed, sourceVars
<1>4. CASE Speed
  BY <1>4 DEF Speed, Commanded, sourceVars
<1>5. CASE Edit
  <2>1. PICK kills \in BOOLEAN : Edit!(kills)
    BY <1>5 DEF Edit
  <2>2. ghost'.era = ghost.era
    BY <2>1 DEF Commanded
  <2>3. faults' = faults \/ faults' = faults - 1
    BY <2>1
  <2> QED
    BY <2>1, <2>2, <2>3 DEF sourceVars
<1>6. CASE Reset
  <2>1. CASE Commits(FreshWorld(world.version + 1), faults) /\ plans' = <<>> /\ tick' = Started
    BY <1>6, <2>1 DEF Reset, FreshWorld
  <2>2. CASE Raises(FreshWorld(world.version + 1), faults) /\ UNCHANGED <<plans, tick>>
    BY <1>6, <2>2
  <2> QED
    BY <1>6, <2>1, <2>2 DEF Reset
<1> QED
  BY <1>1, <1>2, <1>3, <1>4, <1>5, <1>6 DEF Command

LEMMA ErasCommand ==
  ASSUME Inv, Eras, Command
  PROVE  Eras'
<1> USE DEF Inv, Eras
<1>1. /\ faults' = faults \/ faults' = faults - 1
      /\ plans' = plans \/ plans' = <<>>
      /\ faults' = faults =>
           \/ ghost'.era = ghost.era
           \/ world'.version = world.version + 1 /\ plans' = <<>>
      /\ tick' = tick \/ (tick.pc = "dead" /\ tick' = Idle("top"))
  BY EraOfCommand
<1>2. /\ world' = world \/ world'.version = world.version + 1
      /\ task' = task
  BY CommandEffect
<1>3. InTick' => tick' = tick /\ InTick
  BY <1>1 DEF Idle, InTick
<1>4. tick'.outcome = "plan" => tick' = tick
  BY <1>1 DEF Idle
<1>5. /\ faults' <= MaxFaults
      /\ faults' = MaxFaults => faults = MaxFaults /\ faults' = faults
  BY <1>1, EraTypes, ConstantsAssumption
<1>6. ASSUME faults' = MaxFaults
      PROVE  AllFromHere'
  <2>0. AllFromHere
    BY <1>5, <1>6
  <2>1. CASE ghost'.era = ghost.era
    <3>1. tick.seen.version < world.version => tick.seen.version < world'.version
      BY <1>2, EraTypes
    <3> QED
      BY <1>1, <1>2, <1>3, <2>0, <2>1, <3>1 DEF AllFromHere, FromHere
  <2>2. CASE world'.version = world.version + 1 /\ plans' = <<>>
    <3>1. InTick' => tick'.seen.version < world'.version
      BY <1>3, <2>2, EraTypes DEF CleanTick
    <3> QED
      BY <2>2, <3>1 DEF AllFromHere
  <2> QED
    BY <1>1, <1>5, <1>6, <2>1, <2>2
<1> QED
  BY <1>4, <1>5, <1>6

LEMMA ErasCore ==
  ASSUME Inv, Eras, Core
  PROVE  Eras'
<1> USE DEF Inv, Eras, AllFromHere
<1>1. /\ UNCHANGED <<world, tick, faults>>
      /\ task'.popped = task.popped /\ ghost'.era = ghost.era
  BY DEF Core, SubmitDecision, FailDecision, SubmitLegacy, TypeInv, TypeOK, Tasks, Ghosts
<1>2. plans' = plans \/ \E p : p.era = ghost.era /\ plans' = Append(plans, p)
  BY DEF Core, SubmitDecision, FailDecision, SubmitLegacy
<1>3. faults = MaxFaults => \A i \in DOMAIN plans' : FromHere(plans'[i])
  <2>1. CASE plans' = plans
    BY <2>1
  <2>2. ASSUME NEW p, p.era = ghost.era, plans' = Append(plans, p)
        PROVE  <1>3!:
    <3>1. \A i \in DOMAIN plans' : (i \in DOMAIN plans /\ plans'[i] = plans[i]) \/ plans'[i] = p
      BY <2>2 DEF TypeInv, TypeOK
    <3> QED
      BY <2>2, <3>1 DEF FromHere
  <2> QED
    BY <1>2, <2>1, <2>2
<1> QED
  BY <1>1, <1>3 DEF FromHere, InTick

LEMMA ErasSource ==
  ASSUME Inv, Eras, Source \/ Expire
  PROVE  Eras'
<1> USE DEF Inv, Eras, AllFromHere
<1>1. UNCHANGED <<world, tick, faults>> /\ ghost'.era = ghost.era
  BY DEF Source, Expire, OpenRequest, TakePlan, CloseRequest, FinishRequest, TypeInv, TypeOK,
     Ghosts
<1>2. CASE TakePlan
  <2>1. /\ plans # <<>> /\ plans' = Tail(plans) /\ task'.popped = Head(plans)
    BY <1>2 DEF TakePlan, Ready, TypeInv, TypeOK, Tasks
  <2>2. /\ Head(plans) = plans[1] /\ 1 \in DOMAIN plans
        /\ \A i \in DOMAIN plans' : i + 1 \in DOMAIN plans /\ plans'[i] = plans[i + 1]
    BY <2>1 DEF TypeInv, TypeOK
  <2> QED
    BY <1>1, <2>1, <2>2 DEF FromHere, InTick
<1>3. CASE ~TakePlan
  <2>1. plans' = plans
    BY <1>3 DEF Source, Expire, OpenRequest, CloseRequest, FinishRequest
  <2>2. task'.popped \in {task.popped, NoPlan}
    <3>1. CASE OpenRequest
      BY <3>1 DEF OpenRequest, Task
    <3>2. CASE Expire
      BY <3>2 DEF Expire, TypeInv, TypeOK, Tasks
    <3>3. CASE CloseRequest
      BY <3>3 DEF CloseRequest, TypeInv, TypeOK, Tasks
    <3>4. CASE FinishRequest
      BY <3>4 DEF FinishRequest, Task, TypeInv, TypeOK, Tasks
    <3> QED
      BY <1>3, <3>1, <3>2, <3>3, <3>4 DEF Source
  <2> QED
    BY <1>1, <2>1, <2>2 DEF FromHere, InTick
<1> QED
  BY <1>2, <1>3

LEMMA ErasRunner ==
  ASSUME Inv, Eras, Runner \/ DelayPasses
  PROVE  Eras'
<1> USE DEF Inv, Eras, AllFromHere
<1>1. CASE TickSettings \/ SourceFailed \/ SettlePlan \/ RejectionFails \/ SettleEmpty
  <2>1. ~InTick' /\ UNCHANGED sourceVars
    BY <1>1, CommitsClean DEF InTick
  <2>2. /\ faults' \in {faults, faults - 1} \/ (faults >= 2 /\ faults' = faults - 2)
        /\ world' = world \/ world'.version = world.version + 1
        /\ tick'.outcome = "none" /\ ghost'.era = ghost.era
    <3>1. ASSUME NEW l, NEW unheard, NEW exhausted, Settle(l, unheard, exhausted)
          PROVE  <2>2!:
      BY <3>1 DEF Settle, RunnerCommits, Commits, Raises, Returned, Crashed, Idle, Settled,
         Seen
    <3>2. ASSUME NEW l, NEW unheard, NEW left, PauseOnError(l, unheard, left)
          PROVE  /\ faults' = left \/ (left > 0 /\ faults' = left - 1)
                 /\ world' = world \/ world'.version = world.version + 1
                 /\ tick'.outcome = "none" /\ ghost'.era = ghost.era
      BY <3>2 DEF PauseOnError, RunnerCommits, Commits, Raises, Returned, Crashed, Idle,
         HaltedFor, Seen
    <3>3. ASSUME NEW l, NEW unheard, RaisesInside(l, unheard) PROVE <2>2!:
      BY <3>2, <3>3, EraTypes DEF RaisesInside
    <3> QED
      BY <1>1, <3>1, <3>2, <3>3
      DEF TickSettings, SourceFailed, SettlePlan, RejectionFails, SettleEmpty
  <2>3. /\ faults' <= MaxFaults
        /\ faults' = MaxFaults => faults = MaxFaults
    BY <2>2, EraTypes, ConstantsAssumption
  <2>4. faults' = MaxFaults => AllFromHere'
    BY <2>1, <2>2, <2>3 DEF FromHere, sourceVars
  <2> QED
    BY <2>2, <2>3, <2>4
<1>2. CASE TickHalted \/ DropAnswer
  <2>1. /\ tick' = Returned(world) /\ UNCHANGED <<world, sourceVars, faults>>
        /\ ghost'.era = ghost.era
    BY <1>2 DEF TickHalted, DropAnswer, Seen
  <2>2. ~InTick' /\ tick'.outcome = "none"
    BY <2>1 DEF Returned, Idle, InTick
  <2> QED
    BY <2>1, <2>2 DEF FromHere, sourceVars
<1>3. CASE WakeUp \/ DelayPasses
  <2>1. /\ UNCHANGED <<world, sourceVars, faults, ghost>> /\ ~InTick'
        /\ tick'.outcome = tick.outcome /\ tick'.plan = tick.plan
    BY <1>3 DEF WakeUp, DelayPasses, InTick, TypeInv, TypeOK, Ticks
  <2> QED
    BY <2>1 DEF FromHere, sourceVars
<1>4. CASE TickAsks \/ RejectPlan
  <2>1. /\ UNCHANGED <<world, plans, faults>> /\ ghost'.era = ghost.era
        /\ \E seen, told, rejected : Ask(seen, told, rejected)
    BY <1>4 DEF TickAsks, RejectPlan, Ask, Seen
  <2>2. tick'.outcome = "none" /\ tick'.plan = NoPlan /\ task'.popped = NoPlan
    BY <2>1 DEF Ask, Task
  <2> QED
    BY <2>1, <2>2 DEF FromHere
<1>5. CASE WakeChanged
  <2>1. /\ UNCHANGED <<world, faults, ghost>> /\ tick'.outcome = "none"
        /\ tick'.plan = NoPlan /\ task'.popped \in {task.popped, NoPlan}
        /\ tick'.seen = tick.seen /\ InTick /\ InTick'
    BY <1>5 DEF WakeChanged, InTick, Task, TypeInv, TypeOK, Ticks, Tasks
  <2>2. faults = MaxFaults => \A i \in DOMAIN plans' : FromHere(plans'[i])
    <3>1. CASE plans' = plans
      BY <3>1
    <3>2. CASE /\ plans' = <<task.popped>> \o plans /\ task.popped # NoPlan
               /\ task.popped.version = world.version
      <4>1. \A i \in DOMAIN plans' :
              plans'[i] = task.popped \/ (i - 1 \in DOMAIN plans /\ plans'[i] = plans[i - 1])
        BY <3>2, EraTypes DEF TypeInv, TypeOK
      <4>2. FromHere(task.popped)
        BY <3>2, EraTypes DEF FromHere
      <4> QED
        BY <3>2, <4>1, <4>2
    <3>3. \/ plans' = plans
          \/ /\ plans' = <<task.popped>> \o plans /\ task.popped # NoPlan
             /\ task.popped.version = world.version
      BY <1>5 DEF WakeChanged, TypeInv, PlanArrived
    <3> QED
      BY <3>1, <3>2, <3>3
  <2> QED
    BY <2>1, <2>2 DEF FromHere
<1>6. CASE WakeAnswered
  <2>1. /\ UNCHANGED <<world, plans, faults, ghost>> /\ task'.popped = NoPlan
        /\ tick'.plan \in {task.popped, NoPlan}
        /\ tick'.outcome = "plan" => tick'.plan # NoPlan
        /\ tick'.seen = tick.seen /\ InTick /\ InTick'
    BY <1>6 DEF WakeAnswered, InTick, Task, TypeInv, TypeOK, Ticks, PlanArrived
  <2> QED
    BY <2>1 DEF FromHere
<1> QED
  BY <1>1, <1>2, <1>3, <1>4, <1>5, <1>6 DEF Runner

LEMMA ErasStep == Inv /\ Eras /\ [Next]_vars => Eras'
<1> SUFFICES ASSUME Inv, Eras, [Next]_vars PROVE Eras'
  OBVIOUS
<1>1. CASE UNCHANGED vars
  BY <1>1 DEF vars, Eras, AllFromHere, FromHere, InTick
<1> QED
  BY <1>1, ErasCommand, ErasCore, ErasSource, ErasRunner DEF Next

\* A plan that names no version and was queued before a reset is never settled after
\* it, for any number of plans, versions and resets, unless storage has failed.
THEOREM ResetsForget == Spec => ResetForgetsPlans
<1>1. Init => Eras
  BY ConstantsAssumption DEF Init, Eras, AllFromHere, Idle, Task
<1>2. ASSUME Inv, Eras, [Next]_vars, Settles, Answered, Valid(tick.plan), faults = MaxFaults
      PROVE  tick.plan.version # NoVersion \/ tick.plan.era = ghost.era
  <2>1. TickSettings \/ SourceFailed \/ SettlePlan \/ RejectionFails \/ SettleEmpty
    BY <1>2, OnlyRunnerCommits DEF Inv
  <2>2. ~TickSettings /\ ~RejectionFails /\ ~SettleEmpty
    BY <1>2 DEF TickSettings, RejectionFails, SettleEmpty, Answered
  <2>3. ~SourceFailed
    BY <1>2 DEF SourceFailed, PauseOnError, RunnerCommits, Commits, Raises, HaltedFor,
       Settles, Inv, TypeInv, TypeOK, Worlds
  <2>4. Proposed
    BY <2>1, <2>2, <2>3 DEF SettlePlan
  <2> QED
    BY <1>2, <2>4, EraTypes DEF Proposed, Answered, Superseded, Eras, AllFromHere,
       InTick, FromHere, Inv
<1>3. Inv /\ Eras /\ [Next]_vars
      => [Settles /\ Answered /\ Valid(tick.plan) /\ faults = MaxFaults
            => tick.plan.version # NoVersion \/ tick.plan.era = ghost.era]_vars
  BY <1>2
<1> QED
  BY <1>1, <1>3, ErasStep, Invariant, PTL DEF Spec, ResetForgetsPlans

=============================================================================
