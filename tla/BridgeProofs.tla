---------------------------- MODULE BridgeProofs ----------------------------
(***************************************************************************)
(* What holds of AgentBridge for every number of attempts, tries, ticks    *)
(* and versions, whatever is lost, repeated or overtaken between it and    *)
(* the backend, and however often it is started again.                     *)
(***************************************************************************)
EXTENDS Bridge, SequenceTheorems, TLAPS

-----------------------------------------------------------------------------
(* The inductive invariant.                                                *)

\* The backend has opened the request id, or never will again.
Opened(id, w, a) ==
  \/ id.version < w.version
  \/ id.version = w.version /\ a # None /\ a.version = w.version /\ id.n <= a.n

\* The request id is answered or overtaken: it awaits nothing any more.
Spent(id, w, a) ==
  \/ id.version < w.version
  \/ /\ id.version = w.version /\ a # None /\ a.version = w.version
     /\ id.n < a.n \/ (id.n = a.n /\ a.status # "awaiting")

Resting == {"poll", "ended"}
Planned == {"offered", "fetched", "planning", "recheck", "rechecked"}
Submitted == {"submitting", "answered", "watching", "compared"}

\* A worker that has left its rest holds a request and may complete a tick; it tracks
\* that very request from the submission to the report.
Phases ==
  /\ worker.pc \in Resting => worker.held = None
  /\ worker.pc \notin Resting \cup {"offered"} => worker.held # None
  /\ worker.pc \notin Resting => completed < MaxTicks
  /\ worker.pc \in Planned => worker.tries = 0
  /\ worker.pc = "submitting" => worker.tries < SubmitTries
  /\ tracker # None <=> worker.pc \in Submitted
  /\ tracker # None => tracker.version = worker.held.version

\* An open request of the current version is one of a running world.
AskFits ==
  ask # None => /\ ask.version <= world.version
                /\ ask.version = world.version => Running(world)

\* What the bridge holds has been opened, what it submitted is spent, and nothing later
\* than what it holds is queued.
HeldFits ==
  /\ worker.held # None =>
       /\ Opened(Id(worker.held), world, ask)
       /\ ask # None /\ ask.status = "queued" => ask.version <= worker.held.version
  /\ ghost.taken # None => Spent(ghost.taken, world, ask)
  /\ worker.pc \in {"offered", "fetched"} /\ worker.held # None =>
       Id(worker.held) # ghost.taken

\* A request that was given up for its schema errors is not worked on again.
SchemaFits ==
  schema # None =>
    /\ Opened(schema.id, world, ask)
    /\ schema.count = SchemaLimit =>
         IF worker.held # None /\ schema.id = Id(worker.held) THEN worker.pc = "refusing"
         ELSE Spent(schema.id, world, ask)

\* Nothing has been executed after the version the bridge is at work on, and nothing of
\* that version or later reported.
History ==
  /\ \A s \in ghost.executed :
       s.version < world.version /\ (worker.held # None => s.version <= worker.held.version)
  /\ \A i \in DOMAIN ghost.reports :
       /\ ghost.reports[i].version < world.version
       /\ worker.held # None => ghost.reports[i].version < worker.held.version
  /\ ReportedOnce

IsPlan(m) == m.kind = "tick_plan"

\* The message i of the stream st tells of an execution, and the next one of its event.
Told(i, st, executed) ==
  \E s \in executed :
    /\ s.version = st[i].version /\ s.tick = st[i].tick /\ s.plan = st[i].plan
    /\ s.events # {} =>
         /\ i + 1 \in DOMAIN st
         /\ \E e \in s.events : st[i + 1] = EventMessage(e) /\ s.events = {e}

\* The plans in the stream were executed, one after the other.
StreamFits ==
  \A i \in DOMAIN stream : IsPlan(stream[i]) =>
    /\ Told(i, stream, ghost.executed)
    /\ \A j \in DOMAIN stream :
         i < j /\ IsPlan(stream[j]) => stream[i].version < stream[j].version

\* The observed plan was executed, and its event was heard or comes next.
ObservedFits ==
  \E s \in ghost.executed :
    /\ s.version = tracker.version /\ s.tick = tracker.tick /\ s.plan = tracker.observed
    /\ \/ s.events \subseteq tracker.events
       \/ /\ stream # <<>>
          /\ \E e \in s.events : /\ stream[1] = EventMessage(e)
                                 /\ s.events \subseteq tracker.events \cup {e}

\* A tracker that has observed a plan of its version hears of no other plan.
TrackerFits ==
  tracker # None =>
    /\ tracker.observed # None \/ tracker.state # None =>
         /\ \A i \in DOMAIN stream : ~IsPlan(stream[i])
         /\ \E s \in ghost.executed : s.version = tracker.version
    /\ tracker.observed # None /\ tracker.state = None => ObservedFits
    /\ tracker.state # None => tracker.observed # None /\ Backed(Evidence)

Inv ==
  /\ TypeOK /\ Phases /\ AskFits /\ HeldFits /\ SchemaFits /\ History
  /\ StreamFits /\ TrackerFits

-----------------------------------------------------------------------------
(* The parts of a step.                                                    *)

\* The worlds the commits bring are worlds, one version on.
LEMMA WorldTypes ==
  ASSUME world \in Worlds, NEW r \in {"none", "player", "error"}, NEW b \in BOOLEAN
  PROVE  /\ LET w == [world EXCEPT !.version = @ + 1, !.paused = r # "none", !.reason = r]
            IN w \in Worlds /\ w.version = world.version + 1
         /\ LET w == [world EXCEPT !.version = @ + 1, !.failed = @ \/ b]
            IN w \in Worlds /\ w.version = world.version + 1
         /\ LET w == [world EXCEPT !.version = world.version + 1, !.tick = @ + 1,
                                   !.failed = b]
            IN w \in Worlds /\ w.version = world.version + 1
         /\ LET w == [world EXCEPT !.version = @ + 1, !.paused = TRUE, !.reason = "error"]
            IN w \in Worlds /\ w.version = world.version + 1
         /\ LET w == FreshWorld(world.version + 1)
            IN w \in Worlds /\ w.version = world.version + 1
<1>1. world.version + 1 \in Nat /\ world.tick + 1 \in Nat
  BY DEF Worlds
<1>2. (r # "none") \in BOOLEAN /\ (world.failed \/ b) \in BOOLEAN
  BY DEF Worlds
<1> QED
  BY <1>1, <1>2 DEF Worlds, FreshWorld

LEMMA MessageTypes ==
  /\ \A v \in Nat, t \in Nat, n \in PlanNumbers :
       PlanMessage(v, t, n) \in Messages /\ IsPlan(PlanMessage(v, t, n))
  /\ \A e \in Events : EventMessage(e) \in Messages /\ ~IsPlan(EventMessage(e))
  /\ \A w \in Worlds : StateMessage(w) \in Messages /\ ~IsPlan(StateMessage(w))
BY DEF PlanMessage, EventMessage, StateMessage, Messages, IsPlan

\* A commit puts its news and the new world at the end of the stream, or tells nobody.
LEMMA Committed ==
  ASSUME stream \in Seq(Messages), NEW w \in Worlds, NEW news \in Seq(Messages),
         Commit(w, news)
  PROVE  /\ world' = w
         /\ stream' \in Seq(Messages)
         /\ \A i \in DOMAIN stream : i \in DOMAIN stream' /\ stream'[i] = stream[i]
         /\ \A i \in DOMAIN stream' :
              \/ i \in DOMAIN stream
              \/ \E j \in DOMAIN news : i = Len(stream) + j /\ stream'[i] = news[j]
              \/ stream'[i] = StateMessage(w)
         /\ worker.pc # "ended" =>
              \A j \in DOMAIN news :
                Len(stream) + j \in DOMAIN stream' /\ stream'[Len(stream) + j] = news[j]
<1>1. world' = w
  BY DEF Commit
<1>2. CASE worker.pc = "ended"
  BY <1>1, <1>2 DEF Commit
<1>3. CASE worker.pc # "ended"
  <2> DEFINE more == stream \o news
             all == more \o <<StateMessage(w)>>
  <2>1. stream' = all /\ <<StateMessage(w)>> \in Seq(Messages)
    BY <1>3, MessageTypes DEF Commit
  <2>2. /\ more \in Seq(Messages) /\ Len(more) = Len(stream) + Len(news)
        /\ \A i \in 1 .. Len(stream) + Len(news) :
             more[i] = IF i <= Len(stream) THEN stream[i] ELSE news[i - Len(stream)]
    BY ConcatProperties
  <2>3. /\ all \in Seq(Messages) /\ Len(all) = Len(more) + 1
        /\ \A i \in 1 .. Len(more) + 1 :
             all[i] = IF i <= Len(more) THEN more[i] ELSE StateMessage(w)
    BY <2>1, <2>2, ConcatProperties
  <2>4. /\ DOMAIN stream = 1 .. Len(stream) /\ DOMAIN news = 1 .. Len(news)
        /\ DOMAIN all = 1 .. Len(all) /\ Len(stream) \in Nat /\ Len(news) \in Nat
    BY <2>3
  <2> HIDE DEF more, all
  <2>5. \A i \in DOMAIN stream : i \in DOMAIN all /\ all[i] = stream[i]
    BY <2>2, <2>3, <2>4
  <2>6. \A j \in DOMAIN news :
          Len(stream) + j \in DOMAIN all /\ all[Len(stream) + j] = news[j]
    BY <2>2, <2>3, <2>4
  <2>7. ASSUME NEW i \in DOMAIN all
        PROVE  \/ i \in DOMAIN stream
               \/ \E j \in DOMAIN news : i = Len(stream) + j /\ all[i] = news[j]
               \/ all[i] = StateMessage(w)
    <3>1. CASE i <= Len(stream)
      BY <2>4, <2>7, <3>1
    <3>2. CASE i > Len(stream) /\ i <= Len(more)
      <4>1. i - Len(stream) \in DOMAIN news /\ i = Len(stream) + (i - Len(stream))
        BY <2>2, <2>4, <2>7, <3>2
      <4> QED
        BY <2>6, <4>1
    <3>3. CASE i > Len(more)
      BY <2>2, <2>3, <2>4, <2>7, <3>3
    <3> QED
      BY <2>2, <2>4, <2>7, <3>1, <3>2, <3>3
  <2> QED
    BY <1>1, <1>3, <2>1, <2>3, <2>5, <2>6, <2>7
<1> QED
  BY <1>2, <1>3

\* The commits that execute no plan.
QuietChange ==
  \E w \in Worlds, news \in Seq(Messages) :
    /\ w.version = world.version + 1
    /\ Commit(w, news)
    /\ \A j \in DOMAIN news : ~IsPlan(news[j])
    /\ ask' \in {ask, None}
    /\ UNCHANGED <<bridgeVars, ghost>>

\* What the backend does, with what it means for the open request.
Reopens ==
  /\ UNCHANGED <<world, stream, bridgeVars, ghost>>
  /\ \/ ask = None /\ Running(world) /\ ask' = Request(0)
     \/ ask # None /\ ask.version # world.version /\ ask' = None
     \/ /\ ask # None /\ ask.version = world.version /\ ask.n + 1 < MaxAttempts
        /\ ask.status = "queued" /\ ask' = Request(ask.n + 1)

\* The settlement s and the messages that tell of it.
Tells(s, news) ==
  /\ 1 \in DOMAIN news /\ news[1] = PlanMessage(s.version, s.tick, s.plan)
  /\ \A j \in DOMAIN news : j # 1 => ~IsPlan(news[j])
  /\ s.events # {} => /\ 2 \in DOMAIN news
                      /\ \E e \in s.events : news[2] = EventMessage(e) /\ s.events = {e}

Executes ==
  /\ ask # None /\ ask.version = world.version /\ ask.status = "queued"
  /\ \E w \in Worlds, s \in Settlements, news \in Seq(Messages) :
       /\ w.version = world.version + 1
       /\ s.version = world.version
       /\ Commit(w, news)
       /\ Tells(s, news)
       /\ ask' = None
       /\ ghost' = [ghost EXCEPT !.executed = @ \cup {s}]
       /\ UNCHANGED bridgeVars

LEMMA Couple ==
  ASSUME NEW S, NEW a \in S, NEW b \in S
  PROVE  /\ <<a>> \o <<b>> \in Seq(S) /\ Len(<<a>> \o <<b>>) = 2
         /\ (<<a>> \o <<b>>)[1] = a /\ (<<a>> \o <<b>>)[2] = b
<1> DEFINE one == <<a>>
           two == <<b>>
<1>1. one \in Seq(S) /\ two \in Seq(S) /\ Len(one) = 1 /\ Len(two) = 1
  OBVIOUS
<1>2. one[1] = a /\ two[1] = b
  OBVIOUS
<1> HIDE DEF one, two
<1>3. one \o two \in Seq(S) /\ Len(one \o two) = Len(one) + Len(two)
  BY <1>1, ConcatProperties
<1>4. \A i \in 1 .. Len(one) + Len(two) :
        (one \o two)[i] = IF i <= Len(one) THEN one[i] ELSE two[i - Len(one)]
  BY <1>1, ConcatProperties
<1>5. 1 \in 1 .. Len(one) + Len(two) /\ 1 <= Len(one)
  BY <1>1
<1>6. (one \o two)[1] = one[1]
  BY <1>4, <1>5
<1>7. (one \o two)[2] = two[1]
  BY <1>1, <1>4
<1> QED
  BY <1>1, <1>2, <1>3, <1>6, <1>7 DEF one, two

LEMMA Settled ==
  ASSUME TypeOK, ask # None, ask.version = world.version, ask.status = "queued",
         NEW n \in PlanNumbers, Settle(n)
  PROVE  Executes
<1> USE DEF TypeOK
<1> DEFINE now == world.version + 1
           event == [version |-> now, type |-> IF n = Empty THEN "plan_failed" ELSE "other"]
           plan == PlanMessage(world.version, world.tick, n)
           w(mission) == [world EXCEPT !.version = now, !.tick = @ + 1, !.failed = mission]
           s(eventful) == [version |-> world.version, tick |-> world.tick, plan |-> n,
                           events |-> IF eventful THEN {event} ELSE {}]
           news(eventful) == <<plan>> \o IF eventful THEN <<EventMessage(event)>> ELSE <<>>
<1>1. PICK mission \in BOOLEAN, eventful \in BOOLEAN :
        /\ Commit(w(mission), news(eventful))
        /\ ask' = None
        /\ ghost' = [ghost EXCEPT !.executed = @ \cup {s(eventful)}]
        /\ UNCHANGED bridgeVars
  BY DEF Settle
<1>2. w(mission) \in Worlds /\ w(mission).version = now
  BY WorldTypes
<1>3. world.version \in Nat /\ world.tick \in Nat /\ now \in Nat
  BY DEF Worlds
<1>4. event \in Events
  BY <1>3 DEF Events
<1>5. plan \in Messages /\ IsPlan(plan)
  BY <1>3, MessageTypes
<1>6. EventMessage(event) \in Messages /\ ~IsPlan(EventMessage(event))
  BY <1>4, MessageTypes
<1>7. s(eventful) \in Settlements /\ s(eventful).version = world.version
  BY <1>3, <1>4 DEF Settlements
<1>8. /\ s(eventful).tick = world.tick /\ s(eventful).plan = n
      /\ s(eventful).events = IF eventful THEN {event} ELSE {}
  OBVIOUS
<1>9. news(eventful) \in Seq(Messages) /\ Tells(s(eventful), news(eventful))
  <2> HIDE DEF event, plan, s
  <2> DEFINE message == EventMessage(event)
  <2>1. message \in Messages /\ ~IsPlan(message)
    BY <1>6
  <2> HIDE DEF message
  <2>2. CASE eventful
    <3>1. news(eventful) = <<plan>> \o <<message>>
      BY <2>2 DEF message
    <3> HIDE DEF news
    <3>4. /\ news(eventful) \in Seq(Messages) /\ Len(news(eventful)) = 2
          /\ news(eventful)[1] = plan /\ news(eventful)[2] = message
      BY <1>5, <2>1, <3>1, Couple
    <3>5. DOMAIN news(eventful) = {1, 2}
      BY <3>4
    <3>6. s(eventful).events = {event}
      BY <1>8, <2>2
    <3>7. plan = PlanMessage(s(eventful).version, s(eventful).tick, s(eventful).plan)
      BY <1>7, <1>8 DEF plan
    <3> QED
      BY <2>1, <3>4, <3>5, <3>6, <3>7 DEF Tells, message
  <2>3. CASE ~eventful
    <3>1. news(eventful) = <<plan>>
      BY <1>5, <2>3
    <3>2. <<plan>> \in Seq(Messages) /\ DOMAIN <<plan>> = {1}
      BY <1>5
    <3>3. s(eventful).events = {}
      BY <1>8, <2>3
    <3>4. plan = PlanMessage(s(eventful).version, s(eventful).tick, s(eventful).plan)
      BY <1>7, <1>8 DEF plan
    <3> HIDE DEF news
    <3> QED
      BY <3>1, <3>2, <3>3, <3>4 DEF Tells
  <2> QED
    BY <2>2, <2>3
<1> HIDE DEF w, s, news, event, plan
<1> QED
  BY <1>1, <1>2, <1>7, <1>9 DEF Executes

LEMMA BackendSteps ==
  ASSUME TypeOK, Player \/ Backend
  PROVE  QuietChange \/ Reopens \/ Executes
<1> USE DEF TypeOK
<1>1. world.version + 1 \in Nat
  BY DEF Worlds
<1>2. <<>> \in Seq(Messages) /\ \A j \in DOMAIN <<>> : ~IsPlan(<<>>[j])
  OBVIOUS
<1>3. ASSUME NEW e \in Events
      PROVE  /\ <<EventMessage(e)>> \in Seq(Messages)
             /\ \A j \in DOMAIN <<EventMessage(e)>> : ~IsPlan(<<EventMessage(e)>>[j])
  BY <1>3, MessageTypes
<1>4. \A type \in {"plan_failed", "player_edit", "other"} :
        [version |-> world.version + 1, type |-> type] \in Events
  BY <1>1 DEF Events
<1>5. ASSUME NEW reason \in {"none", "player"}, Control(reason) PROVE QuietChange
  <2> DEFINE w == [world EXCEPT !.version = @ + 1, !.paused = reason # "none",
                                !.reason = reason]
  <2>1. w \in Worlds /\ w.version = world.version + 1
    BY WorldTypes
  <2>2. Commit(w, <<>>) /\ UNCHANGED <<ask, bridgeVars, ghost>>
    BY <1>5 DEF Control
  <2> HIDE DEF w
  <2> QED
    BY <1>2, <2>1, <2>2 DEF QuietChange
<1>6. CASE Edit
  <2> DEFINE w(kills) == [world EXCEPT !.version = @ + 1, !.failed = @ \/ kills]
             event == [version |-> world.version + 1, type |-> "player_edit"]
  <2>1. PICK kills \in BOOLEAN : Commit(w(kills), <<EventMessage(event)>>)
    BY <1>6 DEF Edit
  <2>2. w(kills) \in Worlds /\ w(kills).version = world.version + 1
    BY WorldTypes
  <2>3. event \in Events
    BY <1>4
  <2> HIDE DEF w, event
  <2> QED
    BY <1>3, <1>6, <2>1, <2>2, <2>3 DEF Edit, QuietChange
<1>7. CASE Reset
  <2>1. FreshWorld(world.version + 1) \in Worlds
        /\ FreshWorld(world.version + 1).version = world.version + 1
    BY WorldTypes
  <2> QED
    BY <1>2, <1>7, <2>1 DEF Reset, QuietChange
<1>8. ASSUME NEW status \in {"failed", "awaiting"}, GiveUp(status) PROVE QuietChange
  <2> DEFINE w == [world EXCEPT !.version = @ + 1, !.paused = TRUE, !.reason = "error"]
             event == [version |-> world.version + 1, type |-> "plan_failed"]
  <2>1. w \in Worlds /\ w.version = world.version + 1
    BY WorldTypes
  <2>2. Commit(w, <<EventMessage(event)>>) /\ ask' = None /\ UNCHANGED <<bridgeVars, ghost>>
    BY <1>8 DEF GiveUp, ErrorPause
  <2>3. event \in Events
    BY <1>4
  <2> HIDE DEF w, event
  <2> QED
    BY <1>3, <2>1, <2>2, <2>3 DEF QuietChange
<1>9. CASE Judge
  <2>1. ask # None /\ ask \in Asks /\ ask.n \in Nat /\ ask.n < MaxAttempts
    BY <1>9, ConstantsAssumption DEF Judge, Asks
  <2>2. ask.n \in PlanNumbers /\ Empty \in PlanNumbers
    BY <2>1, ConstantsAssumption DEF PlanNumbers, Empty
  <2>3. ask.n + 1 # MaxAttempts => ask.n + 1 < MaxAttempts
    BY <2>1, ConstantsAssumption
  <2> QED
    BY <1>9, <2>1, <2>2, <2>3, Settled DEF Judge, Reopens
<1>10. CASE OpenRequest \/ Supersede
  BY <1>10 DEF OpenRequest, Supersede, Reopens
<1> QED
  BY <1>5, <1>6, <1>7, <1>8, <1>9, <1>10 DEF Player, Backend
-----------------------------------------------------------------------------
(* Types.                                                                  *)

LEMMA BackendKeepsTypes ==
  ASSUME TypeOK, QuietChange \/ Reopens \/ Executes
  PROVE  TypeOK'
<1>1. CASE QuietChange
  <2>1. PICK w \in Worlds, news \in Seq(Messages) :
          Commit(w, news) /\ ask' \in {ask, None} /\ UNCHANGED <<bridgeVars, ghost>>
    BY <1>1 DEF QuietChange
  <2>2. world' = w /\ stream' \in Seq(Messages)
    BY <2>1, Committed DEF TypeOK
  <2> QED
    BY <2>1, <2>2 DEF TypeOK, bridgeVars
<1>2. CASE Reopens
  <2>1. ASSUME NEW n \in 0 .. MaxAttempts - 1 PROVE Request(n) \in Asks
    BY DEF TypeOK, Worlds, Asks, Request, Qualities
  <2>2. 0 \in 0 .. MaxAttempts - 1
    BY ConstantsAssumption
  <2>3. ask # None /\ ask.n + 1 < MaxAttempts => ask.n + 1 \in 0 .. MaxAttempts - 1
    BY ConstantsAssumption DEF TypeOK, Asks
  <2>4. ask' \in Asks \cup {None}
    BY <1>2, <2>1, <2>2, <2>3 DEF Reopens
  <2> QED
    BY <1>2, <2>4 DEF TypeOK, Reopens, bridgeVars
<1>3. CASE Executes
  <2>1. PICK w \in Worlds, s \in Settlements, news \in Seq(Messages) :
          /\ Commit(w, news) /\ ask' = None /\ UNCHANGED bridgeVars
          /\ ghost' = [ghost EXCEPT !.executed = @ \cup {s}]
    BY <1>3 DEF Executes
  <2>2. world' = w /\ stream' \in Seq(Messages)
    BY <2>1, Committed DEF TypeOK
  <2>3. ghost' \in [executed : SUBSET Settlements, reports : Seq(Settlements),
                    taken : Ids \cup {None}]
    BY <2>1 DEF TypeOK
  <2> QED
    BY <2>1, <2>2, <2>3 DEF TypeOK, bridgeVars
<1> QED
  BY <1>1, <1>2, <1>3

\* What the bridge hears is well formed, and it tracks the same request afterwards.
LEMMA MessageFields ==
  ASSUME NEW m \in Messages
  PROVE  /\ m.kind \in {"tick_plan", "world_event", "state_update"}
         /\ IsPlan(m) => m.version \in Nat /\ m.tick \in Nat /\ m.plan \in PlanNumbers
         /\ m.kind = "world_event" => m.event \in Events /\ m = EventMessage(m.event)
         /\ m.kind = "state_update" => m.world \in Worlds
BY DEF Messages, IsPlan, EventMessage

LEMMA AcceptTypes ==
  ASSUME NEW t \in Trackers, NEW m \in Messages
  PROVE  /\ Accept(t, m) \in Trackers
         /\ Accept(t, m).version = t.version /\ Accept(t, m).tick = t.tick
<1>1. CASE IsPlan(m)
  <2>1. Accept(t, m) = AcceptPlan(t, m)
    BY <1>1 DEF Accept, IsPlan
  <2>2. m.plan \in PlanNumbers
    BY <1>1, MessageFields
  <2> QED
    BY <2>1, <2>2 DEF AcceptPlan, Trackers
<1>2. CASE m.kind = "world_event"
  <2>1. Accept(t, m) = AcceptEvent(t, m)
    BY <1>2 DEF Accept
  <2>2. m.event \in Events
    BY <1>2, MessageFields
  <2>3. t.events \cup {m.event} \in SUBSET Events
    BY <2>2 DEF Trackers
  <2> QED
    BY <2>1, <2>3 DEF AcceptEvent, Trackers
<1>3. CASE m.kind = "state_update"
  <2>1. Accept(t, m) = AcceptState(t, m)
    BY <1>3 DEF Accept
  <2>2. m.world \in Worlds
    BY <1>3, MessageFields
  <2> DEFINE confirms == /\ t.observed # None /\ m.world.tick = t.tick + 1
                         /\ m.world.version = t.version + 1
             stale == t.stale \/ (~confirms /\ m.world.version > t.version)
             state == IF confirms THEN m.world ELSE t.state
             observed == IF confirms \/ t.state # None THEN t.observed ELSE None
  <2>3. /\ stale \in BOOLEAN /\ state \in Worlds \cup {None}
        /\ observed \in PlanNumbers \cup {None}
    BY <2>2 DEF Trackers
  <2>4. AcceptState(t, m) = [t EXCEPT !.state = state, !.stale = stale, !.observed = observed]
    BY DEF AcceptState
  <2> HIDE DEF stale, state, observed
  <2>5. AcceptState(t, m) \in Trackers
    BY <2>3, <2>4 DEF Trackers
  <2>6. AcceptState(t, m).version = t.version /\ AcceptState(t, m).tick = t.tick
    BY <2>4 DEF Trackers
  <2> QED
    BY <2>1, <2>5, <2>6
<1> QED
  BY <1>1, <1>2, <1>3, MessageFields DEF IsPlan

LEMMA HearKeepsTypes ==
  ASSUME TypeOK, Hear
  PROVE  TypeOK'
<1> DEFINE m == Head(stream)
<1>1. stream # <<>> /\ stream \in Seq(Messages)
  BY DEF Hear, TypeOK
<1>2. m \in Messages /\ stream' \in Seq(Messages)
  BY <1>1, HeadTailProperties DEF Hear
<1>3. tracker' \in Trackers \cup {None}
  BY <1>2, AcceptTypes DEF Hear, TypeOK
<1> DEFINE newer == m.kind = "state_update" /\ (known = None \/ m.world.version > known.version)
<1>4. known' = IF newer THEN [version |-> m.world.version, tick |-> m.world.tick] ELSE known
  BY DEF Hear
<1>5. m.kind = "state_update" => m.world.version \in Nat /\ m.world.tick \in Nat
  BY <1>2, MessageFields DEF Worlds
<1>6. known' \in [version : Nat, tick : Nat] \cup {None}
  BY <1>4, <1>5 DEF TypeOK
<1>7. changed' \in BOOLEAN /\ core' \in Ids \cup {None}
  BY DEF Hear, TypeOK
<1> HIDE DEF m, newer
<1> QED
  BY <1>2, <1>3, <1>6, <1>7 DEF Hear, TypeOK, backendVars

LEMMA IdleTypes ==
  /\ Idle("poll") \in Workers /\ Idle("ended") \in Workers /\ Idle("offered") \in Workers
  /\ \A r \in Requests \cup {None} :
       /\ [Idle("offered") EXCEPT !.held = r] \in Workers
       /\ [Idle("watching") EXCEPT !.held = r] \in Workers
<1>1. SubmitTries \in Nat /\ 0 \in 0 .. SubmitTries
  BY ConstantsAssumption
<1> QED
  BY <1>1 DEF Idle, Workers, Qualities

\* The request a worker holds outside of its rest.
LEMMA HeldTypes ==
  ASSUME TypeOK, worker.held # None
  PROVE  /\ worker.held \in Requests /\ Id(worker.held) \in Ids
         /\ worker.held.version \in Nat /\ worker.held.n \in Nat
         /\ Id(worker.held).version = worker.held.version /\ Id(worker.held).n = worker.held.n
BY DEF TypeOK, Workers, Requests, Ids, Id

LEMMA ForgivenTypes ==
  ASSUME TypeOK
  PROVE  Forgiven \in [id : Ids, count : 1 .. SchemaLimit] \cup {None}
BY DEF TypeOK, Forgiven

\* The steps that neither the backend nor the stream takes part in.
LEMMA QuietKeepsTypes ==
  ASSUME TypeOK, UNCHANGED quietVars, changed' \in BOOLEAN,
         tracker' \in Trackers \cup {None}, worker' \in Workers,
         schema' \in [id : Ids, count : 1 .. SchemaLimit] \cup {None}
  PROVE  TypeOK'
BY DEF TypeOK, quietVars, backendVars

LEMMA PlanningKeepsTypes ==
  ASSUME TypeOK, Planning \/ Notice
  PROVE  TypeOK'
<1>1. \A q \in Qualities : [worker EXCEPT !.pc = "recheck", !.quality = q] \in Workers
  BY DEF TypeOK, Workers
<1>2. /\ [worker EXCEPT !.pc = "failing"] \in Workers
      /\ [worker EXCEPT !.spent = TRUE] \in Workers
  BY DEF TypeOK, Workers
<1>3. CASE PlanReady
  <2>1. worker' \in Workers /\ schema' \in {Forgiven, schema}
    BY <1>1, <1>3, IdleTypes DEF PlanReady, Return
  <2> QED
    BY <1>3, <2>1, ForgivenTypes, QuietKeepsTypes DEF PlanReady, TypeOK
<1>4. CASE PlanFails
  BY <1>2, <1>4, QuietKeepsTypes DEF PlanFails, TypeOK
<1>5. CASE RelayStale
  BY <1>5, IdleTypes, ForgivenTypes, QuietKeepsTypes DEF RelayStale, Return, TypeOK
<1>6. CASE Notice
  <2>1. worker' \in Workers /\ schema' \in {Forgiven, schema}
    BY <1>2, <1>6, IdleTypes DEF Notice, Return
  <2> QED
    BY <1>6, <2>1, ForgivenTypes, QuietKeepsTypes DEF Notice, TypeOK
<1> QED
  BY <1>3, <1>4, <1>5, <1>6 DEF Planning

LEMMA RunKeepsTypes ==
  ASSUME TypeOK, Start \/ Break \/ Finish
  PROVE  TypeOK'
<1>1. CASE Start
  <2>1. StateMessage(world) \in Messages
    BY MessageTypes DEF TypeOK
  <2> QED
    BY <1>1, <2>1, IdleTypes DEF Start, TypeOK, backendVars
<1>2. CASE End
  <2>1. 0 \in 0 .. MaxTicks /\ <<>> \in Seq(Messages)
    BY ConstantsAssumption
  <2>2. UNCHANGED <<world, ask, ghost>>
    BY <1>2 DEF End, backendVars
  <2> QED
    BY <1>2, <2>1, <2>2, IdleTypes DEF End, TypeOK
<1> QED
  BY <1>1, <1>2 DEF Break, Finish

LEMMA CycleKeepsTypes ==
  ASSUME TypeOK, Phases, Poll \/ Fetch \/ Begin \/ Recheck \/ Rechecked \/ DropStale
                           \/ Compare \/ Compared
  PROVE  TypeOK'
<1>1. CASE Poll
  <2> DEFINE r == IF Offered # None /\ ask.status = "awaiting"
                  THEN [version |-> ask.version, tick |-> ask.tick, n |-> ask.n] ELSE None
  <2>1. r \in Requests \cup {None}
    BY DEF Offered, TypeOK, Asks, Requests
  <2>2. worker' = [Idle("offered") EXCEPT !.held = r]
    BY <1>1 DEF Poll
  <2> HIDE DEF r
  <2>3. worker' \in Workers
    BY <2>1, <2>2, IdleTypes
  <2> QED
    BY <1>1, <2>3, QuietKeepsTypes DEF Poll, TypeOK
<1>2. CASE Fetch
  <2>1. \A a \in {"accepted", "conflict"} :
          [worker EXCEPT !.pc = "fetched", !.answer = a] \in Workers
    BY DEF TypeOK, Workers
  <2>2. worker' \in Workers
    BY <1>2, <2>1, IdleTypes DEF Fetch
  <2> QED
    BY <1>2, <2>2, QuietKeepsTypes DEF Fetch, TypeOK
<1>3. CASE Begin
  <2>1. [worker EXCEPT !.pc = "planning", !.answer = "none"] \in Workers
    BY DEF TypeOK, Workers
  <2>2. worker' \in Workers /\ changed' \in BOOLEAN
    BY <1>3, <2>1, IdleTypes DEF Begin, TypeOK
  <2> QED
    BY <1>3, <2>2, QuietKeepsTypes DEF Begin, TypeOK
<1>4. CASE Recheck
  <2>1. \A a \in {"accepted", "conflict"} :
          [worker EXCEPT !.pc = "rechecked", !.answer = a] \in Workers
    BY DEF TypeOK, Workers
  <2>2. worker' \in Workers
    BY <1>4, <2>1 DEF Recheck
  <2> QED
    BY <1>4, <2>2, QuietKeepsTypes DEF Recheck, TypeOK
<1>5. CASE Rechecked
  <2>1. [worker EXCEPT !.pc = "submitting", !.answer = "none"] \in Workers
    BY DEF TypeOK, Workers
  <2>2. worker' \in Workers /\ schema' \in {Forgiven, schema}
    BY <1>5, <2>1, IdleTypes DEF Rechecked, Return
  <2>3. worker.held # None
    BY <1>5 DEF Rechecked, Phases, Resting
  <2>4. Track(worker.held) \in Trackers
    BY <2>3, HeldTypes DEF Track, Trackers, Requests
  <2>5. tracker' \in Trackers \cup {None}
    BY <1>5, <2>4 DEF Rechecked, TypeOK
  <2> QED
    BY <1>5, <2>2, <2>5, ForgivenTypes, QuietKeepsTypes DEF Rechecked, TypeOK
<1>6. CASE DropStale
  BY <1>6, IdleTypes, ForgivenTypes, QuietKeepsTypes DEF DropStale, Return, TypeOK
<1>7. CASE Compare
  <2>1. \A a \in {"none", "conflict"} :
          [worker EXCEPT !.pc = "compared", !.answer = a] \in Workers
    BY DEF TypeOK, Workers
  <2>2. worker' \in Workers
    BY <1>7, <2>1 DEF Compare
  <2> QED
    BY <1>7, <2>2, QuietKeepsTypes DEF Compare, TypeOK
<1>8. CASE Compared
  <2>1. [worker EXCEPT !.pc = "watching", !.answer = "none"] \in Workers
    BY DEF TypeOK, Workers
  <2>2. worker' \in Workers /\ schema' \in {Forgiven, schema} /\ tracker' \in {tracker, None}
    BY <1>8, <2>1, IdleTypes DEF Compared, Return
  <2> QED
    BY <1>8, <2>2, ForgivenTypes, QuietKeepsTypes DEF Compared, TypeOK
<1> QED
  BY <1>1, <1>2, <1>3, <1>4, <1>5, <1>6, <1>7, <1>8

LEMMA TellFailureKeepsTypes ==
  ASSUME TypeOK, TellFailure
  PROVE  TypeOK'
<1>1. ask # None => [ask EXCEPT !.status = "failed"] \in Asks
  BY DEF TypeOK, Asks
<1>2. ask' \in Asks \cup {None}
  BY <1>1 DEF TellFailure, Awaited, Offered, TypeOK
<1> QED
  BY <1>2, ForgivenTypes, IdleTypes DEF TellFailure, TypeOK

\* What the backend makes of a submission, and what the bridge knows of it.
LEMMA SubmitKeepsTypes ==
  ASSUME TypeOK, Phases, Submit
  PROVE  TypeOK'
<1> DEFINE id == Id(worker.held)
           takes == worker.quality # "malformed" /\ ~worker.taken /\ Awaited(id)
           reply == IF worker.quality = "malformed" THEN "invalid"
                    ELSE IF worker.taken \/ takes THEN "accepted" ELSE "conflict"
<1>1. PICK handled \in BOOLEAN, heard \in BOOLEAN :
        /\ ask' = IF handled /\ takes
                  THEN [ask EXCEPT !.status = "queued", !.quality = worker.quality] ELSE ask
        /\ ghost' = IF handled /\ takes THEN [ghost EXCEPT !.taken = id] ELSE ghost
        /\ worker' = [worker EXCEPT
             !.tries = @ + 1,
             !.taken = @ \/ (handled /\ takes),
             !.answer = IF heard THEN reply ELSE "none",
             !.pc = IF heard \/ worker.tries + 1 = SubmitTries THEN "answered" ELSE @]
  BY DEF Submit
<1>2. takes \in BOOLEAN /\ reply \in {"invalid", "accepted", "conflict"}
  BY DEF Awaited
<1>3. takes => ask # None
  BY DEF Awaited, Offered
<1> HIDE DEF takes, reply
<1>4. worker.held # None /\ worker.tries \in Nat /\ worker.tries < SubmitTries
  BY DEF Phases, Resting, Submit, TypeOK, Workers
<1>5. worker.tries + 1 \in 0 .. SubmitTries
  BY <1>4, ConstantsAssumption
<1>6. id \in Ids
  BY <1>4, HeldTypes
<1> HIDE DEF id
<1>7. ask' \in Asks \cup {None}
  BY <1>1, <1>3 DEF TypeOK, Asks, Workers
<1>8. ghost' \in [executed : SUBSET Settlements, reports : Seq(Settlements),
                  taken : Ids \cup {None}]
  BY <1>1, <1>6 DEF TypeOK
<1> DEFINE taken == worker.taken \/ (handled /\ takes)
           answer == IF heard THEN reply ELSE "none"
           pc == IF heard \/ worker.tries + 1 = SubmitTries THEN "answered" ELSE worker.pc
<1>9. /\ taken \in BOOLEAN
      /\ answer \in {"none", "accepted", "conflict", "invalid"}
      /\ pc \in {"submitting", "answered"}
  BY <1>2 DEF TypeOK, Workers, Submit
<1>10. worker' = [worker EXCEPT !.tries = worker.tries + 1, !.taken = taken, !.answer = answer,
                               !.pc = pc]
  BY <1>1
<1> HIDE DEF taken, answer, pc
<1>11. worker' \in Workers
  BY <1>5, <1>9, <1>10 DEF TypeOK, Workers
<1> QED
  BY <1>7, <1>8, <1>11 DEF Submit, TypeOK

LEMMA AnsweredKeepsTypes ==
  ASSUME TypeOK, Phases, SchemaFits, Answered
  PROVE  TypeOK'
<1>1. UNCHANGED quietVars /\ UNCHANGED changed
  BY DEF Answered
<1>2. worker.held # None /\ worker.pc = "answered"
  BY DEF Answered, Phases, Resting
<1>3. tracker' \in Trackers \cup {None}
  BY DEF Answered, TypeOK
<1>4. \A pc \in {"refusing"} : [worker EXCEPT !.pc = pc] \in Workers
  BY DEF TypeOK, Workers
<1>5. [Idle("watching") EXCEPT !.held = worker.held] \in Workers
  BY <1>2, HeldTypes, IdleTypes
<1>6. worker' \in Workers
  BY <1>4, <1>5, IdleTypes DEF Answered, Return
<1>7. schema' \in [id : Ids, count : 1 .. SchemaLimit] \cup {None}
  <2> DEFINE id == Id(worker.held)
             count == IF schema # None /\ schema.id = id THEN schema.count + 1 ELSE 1
  <2>1. \/ schema' = Forgiven
        \/ schema' = schema
        \/ schema' = [id |-> id, count |-> count]
    BY DEF Answered, Return
  <2>2. id \in Ids
    BY <1>2, HeldTypes
  <2>3. schema # None /\ schema.id = id => schema.count # SchemaLimit
    BY <1>2 DEF SchemaFits
  <2>4. schema # None => schema.count \in 1 .. SchemaLimit
    BY DEF TypeOK
  <2>5. count \in 1 .. SchemaLimit
    BY <2>3, <2>4, ConstantsAssumption
  <2> HIDE DEF id, count
  <2> QED
    BY <2>1, <2>2, <2>5, ForgivenTypes DEF TypeOK
<1> QED
  BY <1>1, <1>3, <1>6, <1>7, QuietKeepsTypes DEF TypeOK

\* The evidence a report is made from.
LEMMA EvidenceTypes ==
  ASSUME TypeOK, Phases, TrackerFits, Report
  PROVE  /\ tracker # None /\ tracker.state # None /\ Backed(Evidence)
         /\ Evidence \in Settlements /\ Evidence.version = tracker.version
         /\ Id(tracker) \in Ids /\ ghost.reports \in Seq(Settlements)
<1>1. tracker # None /\ tracker.state # None
  BY DEF Report, Phases, Submitted
<1>2. tracker.observed # None /\ Backed(Evidence)
  BY <1>1 DEF TrackerFits
<1>3. tracker \in Trackers
  BY <1>1 DEF TypeOK
<1> QED
  BY <1>1, <1>2, <1>3 DEF TypeOK, Evidence, Settlements, Trackers, Id, Ids

LEMMA ReportKeepsTypes ==
  ASSUME TypeOK, Phases, TrackerFits, Report
  PROVE  TypeOK'
<1>1. core' \in Ids \cup {None}
  BY EvidenceTypes DEF Report
<1>2. completed < MaxTicks
  BY DEF Report, Phases, Resting
<1>3. completed' \in 0 .. MaxTicks
  BY <1>2, ConstantsAssumption DEF Report, TypeOK
<1>4. Append(ghost.reports, Evidence) \in Seq(Settlements)
  BY EvidenceTypes, AppendProperties
<1>5. ghost' \in [executed : SUBSET Settlements, reports : Seq(Settlements),
                  taken : Ids \cup {None}]
  BY <1>4 DEF Report, TypeOK
<1>6. UNCHANGED <<world, ask, stream, known, changed>> /\ worker' = Idle("poll")
      /\ schema' = Forgiven /\ tracker' = None
  BY DEF Report, Return, backendVars
<1> QED
  BY <1>1, <1>3, <1>5, <1>6, ForgivenTypes, IdleTypes DEF TypeOK

LEMMA StepKeepsTypes ==
  ASSUME Inv, [Next]_vars
  PROVE  TypeOK'
<1>1. CASE Player \/ Backend
  BY <1>1, BackendSteps, BackendKeepsTypes DEF Inv
<1>2. CASE Hear
  BY <1>2, HearKeepsTypes DEF Inv
<1>3. CASE Start \/ Break
  BY <1>3, RunKeepsTypes DEF Inv
<1>4. CASE Planning
  BY <1>4, PlanningKeepsTypes DEF Inv
<1>5. CASE Worker
  BY <1>5, RunKeepsTypes, PlanningKeepsTypes, CycleKeepsTypes, TellFailureKeepsTypes,
     SubmitKeepsTypes, AnsweredKeepsTypes, ReportKeepsTypes DEF Inv, Worker
<1>6. CASE UNCHANGED vars
  BY <1>6 DEF Inv, TypeOK, vars
<1> QED
  BY <1>1, <1>2, <1>3, <1>4, <1>5, <1>6 DEF Next

-----------------------------------------------------------------------------
(* Where the worker is.                                                    *)

\* The backend leaves the bridge alone, and of the history only adds executions.
LEMMA BackendFrame ==
  ASSUME TypeOK, QuietChange \/ Reopens \/ Executes
  PROVE  /\ UNCHANGED bridgeVars
         /\ ghost'.reports = ghost.reports /\ ghost'.taken = ghost.taken
<1>1. CASE QuietChange
  BY <1>1 DEF QuietChange
<1>2. CASE Reopens
  BY <1>2 DEF Reopens
<1>3. CASE Executes
  BY <1>3 DEF Executes, TypeOK
<1> QED
  BY <1>1, <1>2, <1>3

LEMMA RestFields ==
  /\ \A pc \in {"poll", "ended"} : /\ Idle(pc).pc = pc /\ Idle(pc).held = None
                                   /\ Idle(pc).tries = 0
  /\ \A r \in Requests \cup {None} :
       /\ [Idle("offered") EXCEPT !.held = r].pc = "offered"
       /\ [Idle("offered") EXCEPT !.held = r].held = r
       /\ [Idle("offered") EXCEPT !.held = r].tries = 0
       /\ [Idle("watching") EXCEPT !.held = r].pc = "watching"
       /\ [Idle("watching") EXCEPT !.held = r].held = r
BY DEF Idle

\* A worker at rest has no tracker.
LEMMA AtRest ==
  ASSUME worker' \in {Idle("poll"), Idle("ended")}, tracker' = None
  PROVE  Phases'
BY RestFields DEF Phases, Resting, Planned, Submitted

\* A cycle that has submitted nothing goes on or ends.
LEMMA BeforeSubmission ==
  ASSUME TypeOK, Phases, Fetch \/ Begin \/ Notice \/ Planning \/ Recheck \/ TellFailure
  PROVE  Phases'
<1> USE DEF Resting, Planned, Submitted
<1>1. worker \in Workers /\ tracker = None /\ tracker' = tracker /\ completed' = completed
  BY DEF TypeOK, Phases, Fetch, Begin, Notice, Planning, PlanReady, PlanFails, RelayStale,
         Recheck, TellFailure, quietVars
<1>2. CASE worker' = Idle("poll")
  BY <1>1, <1>2, AtRest
<1>3. CASE worker' # Idle("poll")
  <2>1. CASE Fetch
    BY <1>1, <1>3, <2>1 DEF Fetch, Phases, Workers
  <2>2. CASE Begin
    BY <1>1, <1>3, <2>2 DEF Begin, Phases, Workers
  <2>3. CASE Notice
    BY <1>1, <1>3, <2>3 DEF Notice, Return, Phases, Workers
  <2>4. CASE PlanReady
    <3>1. PICK q \in Qualities : worker' = [worker EXCEPT !.pc = "recheck", !.quality = q]
      BY <1>3, <2>4 DEF PlanReady, Return
    <3> QED
      BY <1>1, <2>4, <3>1 DEF PlanReady, Phases, Workers
  <2>5. CASE PlanFails
    BY <1>1, <2>5 DEF PlanFails, Phases, Workers
  <2>6. CASE RelayStale
    BY <1>3, <2>6 DEF RelayStale, Return
  <2>7. CASE Recheck
    BY <1>1, <2>7 DEF Recheck, Phases, Workers
  <2>8. CASE TellFailure
    BY <1>3, <2>8 DEF TellFailure
  <2> QED
    BY <2>1, <2>2, <2>3, <2>4, <2>5, <2>6, <2>7, <2>8 DEF Planning
<1> QED
  BY <1>2, <1>3

LEMMA AfterSubmission ==
  ASSUME TypeOK, Phases, Submit \/ Answered \/ DropStale \/ Compare \/ Compared \/ Report
  PROVE  Phases'
<1> USE DEF Resting, Planned, Submitted
<1>1. worker \in Workers /\ tracker # None /\ worker.held # None /\ completed < MaxTicks
  BY DEF TypeOK, Phases, Submit, Answered, DropStale, Compare, Compared, Report
<1>2. CASE Submit
  <2>1. /\ worker'.held = worker.held /\ worker'.tries = worker.tries + 1
        /\ \/ worker'.pc = "answered"
           \/ worker'.pc = "submitting" /\ worker.tries + 1 # SubmitTries
    BY <1>1, <1>2 DEF Submit, Workers
  <2>a. worker.pc = "submitting"
    BY <1>2 DEF Submit
  <2>2. worker.tries \in Nat /\ worker.tries < SubmitTries
    BY <1>1, <2>a DEF Phases, Workers
  <2>3. worker'.pc = "submitting" => worker'.tries < SubmitTries
    BY <2>1, <2>2, ConstantsAssumption
  <2> QED
    BY <1>1, <1>2, <2>1, <2>3 DEF Submit, Phases
<1>3. CASE Answered
  <2>1. tracker' \in {tracker, None} /\ completed' = completed
    BY <1>3 DEF Answered, quietVars
  <2>2. CASE worker' = Idle("poll")
    <3>1. tracker' = None
      <4>1. /\ Idle("poll").pc = "poll"
            /\ [Idle("watching") EXCEPT !.held = worker.held].pc = "watching"
        BY <1>1, HeldTypes, RestFields
      <4> QED
        BY <1>3, <2>2, <4>1 DEF Answered
    <3> QED
      BY <2>2, <3>1, AtRest
  <2>3. CASE worker' = [worker EXCEPT !.pc = "refusing"] /\ tracker' = None
    BY <1>1, <2>1, <2>3 DEF Phases, Workers
  <2>4. CASE worker' = [Idle("watching") EXCEPT !.held = worker.held] /\ tracker' = tracker
    <3>1. worker'.pc = "watching" /\ worker'.held = worker.held
      BY <1>1, <2>4, HeldTypes, RestFields
    <3> QED
      BY <1>1, <2>1, <2>4, <3>1 DEF Phases
  <2> QED
    BY <1>3, <2>2, <2>3, <2>4 DEF Answered, Return
<1>4. CASE DropStale \/ Report
  BY <1>4, AtRest DEF DropStale, Report, Return
<1>5. CASE Compare
  BY <1>1, <1>5 DEF Compare, Phases, Workers, quietVars
<1>6. CASE Compared
  <2>1. CASE worker' = [worker EXCEPT !.pc = "watching", !.answer = "none"] /\ tracker' = tracker
    BY <1>1, <1>6, <2>1 DEF Compared, Phases, Workers, quietVars
  <2>2. CASE worker' = Idle("poll") /\ tracker' = None
    BY <2>2, AtRest
  <2> QED
    BY <1>6, <2>1, <2>2 DEF Compared, Return
<1> QED
  BY <1>2, <1>3, <1>4, <1>5, <1>6

LEMMA StepKeepsPhases ==
  ASSUME TypeOK, Phases, [Next]_vars
  PROVE  Phases'
<1> USE DEF Resting, Planned, Submitted
<1>1. CASE Player \/ Backend
  <2>1. UNCHANGED <<worker, tracker, completed>>
    BY <1>1, BackendSteps, BackendFrame DEF bridgeVars
  <2> QED
    BY <2>1 DEF Phases
<1>2. CASE Hear
  <2>1. Head(stream) \in Messages
    BY <1>2, HeadTailProperties DEF Hear, TypeOK
  <2>2. /\ tracker' # None <=> tracker # None
        /\ tracker # None => tracker'.version = tracker.version
    BY <1>2, <2>1, AcceptTypes, NoneAssumption DEF Hear, TypeOK
  <2> QED
    BY <1>2, <2>2 DEF Hear, Phases
<1>3. CASE Start \/ Break \/ Finish
  <2>1. tracker' = None /\ worker' \in {Idle("poll"), Idle("ended")}
    BY <1>3 DEF Start, Break, Finish, End, Phases
  <2> QED
    BY <2>1, AtRest
<1>4. CASE Poll
  <2>1. PICK r \in Requests \cup {None} : worker' = [Idle("offered") EXCEPT !.held = r]
    BY <1>4 DEF Poll, Offered, TypeOK, Asks, Requests
  <2>2. worker'.pc = "offered" /\ worker'.tries = 0
    BY <2>1, RestFields
  <2> QED
    BY <1>4, <2>2 DEF Poll, Phases, quietVars
<1>5. CASE Rechecked
  <2>1. worker \in Workers /\ worker.held # None /\ completed < MaxTicks
        /\ worker.tries = 0 /\ tracker = None
    BY <1>5 DEF Rechecked, TypeOK, Phases
  <2>2. CASE worker' = Idle("poll") /\ tracker' = tracker
    BY <2>1, <2>2, AtRest
  <2>3. CASE /\ worker' = [worker EXCEPT !.pc = "submitting", !.answer = "none"]
             /\ tracker' = Track(worker.held)
    <3>1. tracker'.version = worker.held.version
      BY <2>3 DEF Track
    <3>2. Track(worker.held) \in Trackers
      BY <2>1, HeldTypes DEF Track, Trackers, Requests
    <3>3. tracker' # None
      BY <2>3, <3>2, NoneAssumption
    <3>4. worker'.pc = "submitting" /\ worker'.held = worker.held /\ worker'.tries = 0
      BY <2>1, <2>3 DEF Workers
    <3> QED
      BY <1>5, <2>1, <3>1, <3>3, <3>4, ConstantsAssumption DEF Rechecked, Phases, quietVars
  <2> QED
    BY <1>5, <2>2, <2>3 DEF Rechecked, Return
<1>6. CASE UNCHANGED vars
  BY <1>6 DEF Phases, vars
<1> QED
  BY <1>1, <1>2, <1>3, <1>4, <1>5, <1>6, BeforeSubmission, AfterSubmission DEF Next, Worker

-----------------------------------------------------------------------------
(* The open request, and those the bridge knows of.                        *)

\* What can become of the open request.
AskMoves ==
  \/ UNCHANGED backendVars
  \/ world'.version = world.version + 1 /\ ask' \in {ask, None}
  \/ Reopens
  \/ /\ world' = world
     /\ ask # None /\ ask.status = "awaiting" /\ ask.version = world.version
     /\ ask' # None /\ ask'.status # "awaiting"
     /\ ask'.version = ask.version /\ ask'.n = ask.n

\* The request the bridge asks about is the open one, and awaits its plan.
LEMMA AwaitedAsk ==
  ASSUME TypeOK, worker.held # None, Awaited(Id(worker.held))
  PROVE  /\ ask # None /\ ask \in Asks /\ ask.status = "awaiting"
         /\ ask.version = world.version
         /\ ask.version = worker.held.version /\ ask.n = worker.held.n
<1>1. ask # None /\ ask.version = world.version /\ ask.status = "awaiting"
      /\ Id(ask) = Id(worker.held)
  BY DEF Awaited, Offered
<1>2. ask.version = Id(ask).version /\ ask.n = Id(ask).n
  BY DEF Id
<1> QED
  BY <1>1, <1>2, HeldTypes DEF TypeOK

\* A plan that is taken is queued for the request it was made for.
LEMMA SubmitMoves ==
  ASSUME TypeOK, Phases, Submit
  PROVE  /\ world' = world /\ worker'.held = worker.held
         /\ worker'.pc \in {"submitting", "answered"}
         /\ \/ ask' = ask /\ ghost' = ghost
            \/ /\ Awaited(Id(worker.held))
               /\ ask' = [ask EXCEPT !.status = "queued", !.quality = worker.quality]
               /\ ghost' = [ghost EXCEPT !.taken = Id(worker.held)]
BY DEF Submit, TypeOK, Workers

LEMMA StepMovesAsk ==
  ASSUME TypeOK, Phases, [Next]_vars
  PROVE  AskMoves
<1>1. CASE Player \/ Backend
  <2>1. CASE QuietChange
    BY <2>1, Committed DEF QuietChange, AskMoves, TypeOK
  <2>2. CASE Executes
    BY <2>2, Committed DEF Executes, AskMoves, TypeOK
  <2> QED
    BY <1>1, <2>1, <2>2, BackendSteps DEF AskMoves
<1>2. CASE Submit
  <2>1. CASE ask' = ask
    BY <1>2, <2>1, SubmitMoves DEF AskMoves, backendVars
  <2>2. CASE Awaited(Id(worker.held))
             /\ ask' = [ask EXCEPT !.status = "queued", !.quality = worker.quality]
    <3>1. worker.held # None
      BY <1>2 DEF Submit, Phases, Resting
    <3>2. ask' \in Asks /\ ask' # None /\ ask'.status = "queued"
          /\ ask'.version = ask.version /\ ask'.n = ask.n
      BY <2>2, <3>1, AwaitedAsk, NoneAssumption DEF Asks, TypeOK, Workers
    <3> QED
      BY <1>2, <2>2, <3>1, <3>2, AwaitedAsk, SubmitMoves DEF AskMoves
  <2> QED
    BY <1>2, <2>1, <2>2, SubmitMoves
<1>3. CASE TellFailure
  <2>1. CASE ask' = ask
    BY <1>3, <2>1 DEF TellFailure, AskMoves, backendVars
  <2>2. CASE Awaited(Id(worker.held)) /\ ask' = [ask EXCEPT !.status = "failed"]
    <3>1. worker.held # None
      BY <1>3 DEF TellFailure, Phases, Resting
    <3>2. ask' \in Asks /\ ask' # None /\ ask'.status = "failed"
          /\ ask'.version = ask.version /\ ask'.n = ask.n
      BY <2>2, <3>1, AwaitedAsk, NoneAssumption DEF Asks
    <3> QED
      BY <1>3, <2>2, <3>1, <3>2, AwaitedAsk DEF TellFailure, AskMoves
  <2> QED
    BY <1>3, <2>1, <2>2 DEF TellFailure
<1>4. CASE Hear \/ Start \/ Break \/ Finish \/ Report
  BY <1>4 DEF Hear, Start, Break, Finish, End, Report, AskMoves
<1>5. CASE UNCHANGED quietVars \/ UNCHANGED vars
  BY <1>5 DEF quietVars, vars, backendVars, AskMoves
<1>6. CASE Planning
  BY <1>5, <1>6 DEF Planning, PlanReady, PlanFails, RelayStale
<1>7. CASE \/ Poll \/ Fetch \/ Begin \/ Notice \/ Recheck \/ Rechecked \/ Answered
           \/ DropStale \/ Compare \/ Compared
  BY <1>5, <1>7 DEF Poll, Fetch, Begin, Notice, Recheck, Rechecked, Answered, DropStale,
                    Compare, Compared
<1> QED
  BY <1>1, <1>2, <1>3, <1>4, <1>5, <1>6, <1>7 DEF Next, Worker

LEMMA StepKeepsAskFits ==
  ASSUME TypeOK, TypeOK', AskFits, AskMoves
  PROVE  AskFits'
<1>1. /\ world.version \in Nat
      /\ ask # None => ask \in Asks /\ ask.version \in Nat
      /\ \A n : Request(n).version = world.version
  BY DEF TypeOK, Worlds, Asks, Request
<1>2. CASE UNCHANGED backendVars
  BY <1>2 DEF AskFits, backendVars, Running
<1>3. CASE world'.version = world.version + 1 /\ ask' \in {ask, None}
  <2>1. ask' # None => ask'.version <= world.version
    BY <1>3 DEF AskFits
  <2>2. ask' # None => ask'.version <= world'.version /\ ask'.version # world'.version
    BY <1>1, <1>3, <2>1
  <2> QED
    BY <2>2 DEF AskFits
<1>4. CASE Reopens
  <2>1. world' = world
    BY <1>4 DEF Reopens
  <2>2. ask' # None => ask'.version = world.version /\ Running(world)
    BY <1>1, <1>4 DEF Reopens, AskFits
  <2> QED
    BY <1>1, <2>1, <2>2 DEF AskFits, Running
<1>5. CASE world' = world /\ ask # None /\ ask'.version = ask.version
  BY <1>5 DEF AskFits, Running
<1> QED
  BY <1>2, <1>3, <1>4, <1>5 DEF AskMoves

\* What has been opened stays opened, what is spent stays spent, and a new version of the
\* world spends whatever was opened before.
LEMMA IdsGrowOld ==
  ASSUME TypeOK, TypeOK', AskMoves, NEW id \in Ids
  PROVE  /\ Opened(id, world, ask) => Opened(id, world', ask')
         /\ Spent(id, world, ask) => Spent(id, world', ask')
         /\ Spent(id, world, ask) => Opened(id, world, ask)
<1>1. /\ world.version \in Nat /\ id.version \in Nat /\ id.n \in Nat
      /\ ask # None => ask \in Asks /\ ask.version \in Nat /\ ask.n \in Nat
      /\ ask' # None => ask'.version \in Nat /\ ask'.n \in Nat
  BY DEF TypeOK, Worlds, Asks, Ids
<1>2. Spent(id, world, ask) => Opened(id, world, ask)
  BY <1>1 DEF Spent, Opened
<1>3. CASE UNCHANGED backendVars
  BY <1>2, <1>3 DEF Spent, Opened, backendVars
<1>4. CASE world'.version = world.version + 1
  BY <1>1, <1>2, <1>4 DEF Spent, Opened
<1>5. CASE Reopens
  <2>1. world' = world
    BY <1>5 DEF Reopens
  <2>2. CASE ask = None \/ ask.version # world.version
    BY <1>2, <2>1, <2>2 DEF Spent, Opened
  <2>3. CASE ask # None /\ ask.version = world.version
    <3>1. ask' = Request(ask.n + 1)
      BY <1>5, <2>3 DEF Reopens
    <3>2. Request(ask.n + 1) \in Asks
      BY <3>1, <1>5, <2>3, ConstantsAssumption
         DEF TypeOK, Worlds, Asks, Request, Qualities, Reopens
    <3>3. ask' # None /\ ask'.version = world.version /\ ask'.n = ask.n + 1
      BY <3>1, <3>2, NoneAssumption DEF Request
    <3> QED
      BY <1>1, <1>2, <2>1, <3>3 DEF Spent, Opened
  <2> QED
    BY <2>2, <2>3
<1>6. CASE /\ world' = world /\ ask # None /\ ask' # None /\ ask'.status # "awaiting"
           /\ ask'.version = ask.version /\ ask'.n = ask.n
  BY <1>1, <1>2, <1>6 DEF Spent, Opened
<1> QED
  BY <1>2, <1>3, <1>4, <1>5, <1>6 DEF AskMoves

\* The worker goes on with what it holds, drops it, or takes up the request on offer.
TakesUp ==
  /\ worker.held = None /\ worker'.pc = "offered"
  /\ ask # None /\ ask.status = "awaiting" /\ ask.version = world.version
  /\ worker'.held = [version |-> ask.version, tick |-> ask.tick, n |-> ask.n]
  /\ UNCHANGED quietVars

HoldsOn ==
  /\ worker'.held = worker.held
  /\ worker'.pc \in {"offered", "fetched"} => worker.pc \in {"offered", "fetched"}
  /\ worker.pc = "refusing" => worker'.pc = "refusing"

LEMMA StepMovesHeld ==
  ASSUME TypeOK, Phases, [Next]_vars, worker'.held # None
  PROVE  HoldsOn \/ TakesUp
<1>0. /\ worker \in Workers /\ Idle("poll").held = None /\ Idle("ended").held = None
      /\ worker' # Idle("poll") /\ worker' # Idle("ended")
  BY RestFields DEF TypeOK
<1>1. CASE UNCHANGED worker
  BY <1>1 DEF HoldsOn
<1>2. CASE Player \/ Backend
  BY <1>1, <1>2, BackendSteps, BackendFrame DEF bridgeVars
<1>3. CASE Start \/ Break \/ Finish \/ TellFailure \/ RelayStale \/ DropStale \/ Report
  BY <1>0, <1>3 DEF Start, Break, Finish, End, TellFailure, RelayStale, DropStale, Report,
                    Return
<1>4. CASE Poll
  <2> DEFINE r == IF Offered # None /\ ask.status = "awaiting"
                  THEN [version |-> ask.version, tick |-> ask.tick, n |-> ask.n] ELSE None
  <2>1. worker' = [Idle("offered") EXCEPT !.held = r] /\ UNCHANGED quietVars
    BY <1>4 DEF Poll
  <2>2. r \in Requests \cup {None}
    BY DEF Offered, TypeOK, Asks, Requests
  <2>3. worker'.held = r /\ worker'.pc = "offered"
    BY <2>1, <2>2, RestFields
  <2>4. worker.held = None
    BY <1>4 DEF Poll, Phases, Resting
  <2> QED
    BY <2>1, <2>3, <2>4 DEF TakesUp, Offered
<1>5. CASE Fetch
  BY <1>0, <1>5 DEF Fetch, HoldsOn, Workers
<1>6. CASE Begin
  BY <1>0, <1>6 DEF Begin, HoldsOn, Workers
<1>7. CASE Notice
  BY <1>0, <1>7 DEF Notice, Return, HoldsOn, Workers
<1>8. CASE PlanReady
  BY <1>0, <1>8 DEF PlanReady, Return, HoldsOn, Workers
<1>9. CASE PlanFails
  BY <1>0, <1>9 DEF PlanFails, HoldsOn, Workers
<1>10. CASE Recheck
  BY <1>0, <1>10 DEF Recheck, HoldsOn, Workers
<1>11. CASE Rechecked
  BY <1>0, <1>11 DEF Rechecked, Return, HoldsOn, Workers
<1>12. CASE Submit
  BY <1>12, SubmitMoves DEF HoldsOn, Submit
<1>13. CASE Answered
  <2>1. worker.pc = "answered" /\ worker.held # None
    BY <1>13 DEF Answered, Phases, Resting
  <2>2. CASE worker' = [worker EXCEPT !.pc = "refusing"]
    BY <1>0, <2>1, <2>2 DEF HoldsOn, Workers
  <2>3. CASE worker' = [Idle("watching") EXCEPT !.held = worker.held]
    BY <2>1, <2>3, HeldTypes, RestFields DEF HoldsOn
  <2> QED
    BY <1>0, <1>13, <2>2, <2>3 DEF Answered, Return
<1>14. CASE Compare
  BY <1>0, <1>14 DEF Compare, HoldsOn, Workers
<1>15. CASE Compared
  BY <1>0, <1>15 DEF Compared, Return, HoldsOn, Workers
<1>16. CASE Hear \/ UNCHANGED vars
  BY <1>1, <1>16 DEF Hear, vars
<1> QED
  BY <1>2, <1>3, <1>4, <1>5, <1>6, <1>7, <1>8, <1>9, <1>10, <1>11, <1>12, <1>13, <1>14,
     <1>15, <1>16 DEF Next, Worker, Planning

\* The plan taken last is an earlier one, or that of the submission just handled.
LEMMA StepMovesTaken ==
  ASSUME TypeOK, Phases, [Next]_vars
  PROVE  \/ ghost'.taken = ghost.taken
         \/ Submit /\ Awaited(Id(worker.held)) /\ worker.held # None
            /\ ask' = [ask EXCEPT !.status = "queued", !.quality = worker.quality]
            /\ ghost'.taken = Id(worker.held)
<1>1. CASE Player \/ Backend
  BY <1>1, BackendSteps, BackendFrame
<1>2. CASE Submit
  <2>1. worker.held # None
    BY <1>2 DEF Submit, Phases, Resting
  <2> QED
    BY <1>2, <2>1, SubmitMoves DEF TypeOK
<1>3. CASE Hear \/ Start \/ Break \/ Finish \/ TellFailure \/ UNCHANGED vars
  BY <1>3 DEF Hear, Start, Break, Finish, End, TellFailure, vars
<1>4. CASE Report
  BY <1>4 DEF Report, TypeOK
<1>5. CASE UNCHANGED quietVars
  BY <1>5 DEF quietVars
<1>6. CASE Planning
  BY <1>5, <1>6 DEF Planning, PlanReady, PlanFails, RelayStale
<1>7. CASE \/ Poll \/ Fetch \/ Begin \/ Notice \/ Recheck \/ Rechecked \/ Answered
           \/ DropStale \/ Compare \/ Compared
  BY <1>5, <1>7 DEF Poll, Fetch, Begin, Notice, Recheck, Rechecked, Answered, DropStale,
                    Compare, Compared
<1> QED
  BY <1>1, <1>2, <1>3, <1>4, <1>6, <1>7 DEF Next, Worker

\* The request on offer has been opened, and is not spent.
LEMMA OnOffer ==
  ASSUME TypeOK, TypeOK', TakesUp
  PROVE  /\ Id(worker'.held) \in Ids /\ Opened(Id(worker'.held), world, ask)
         /\ ~Spent(Id(worker'.held), world, ask)
         /\ Id(worker'.held).version = world.version /\ worker'.held.version = world.version
<1>1. /\ Id(worker'.held).version = ask.version /\ Id(worker'.held).n = ask.n
      /\ worker'.held.version = ask.version
  BY DEF TakesUp, Id
<1>2. ask \in Asks /\ ask.version = world.version /\ ask.status = "awaiting"
      /\ Id(worker'.held) \in Ids
  BY DEF TypeOK, TakesUp, Asks, Id, Ids
<1>3. ask.n \in Nat /\ world.version \in Nat
  BY <1>2 DEF TypeOK, Asks, Worlds
<1> QED
  BY <1>1, <1>2, <1>3 DEF Opened, Spent, TakesUp

LEMMA StepKeepsHeldFits ==
  ASSUME TypeOK, TypeOK', Phases, AskFits, HeldFits, [Next]_vars
  PROVE  HeldFits'
<1>1. AskMoves
  BY StepMovesAsk
<1>2. world.version \in Nat /\ (ask # None => ask \in Asks /\ ask.version \in Nat)
      /\ (worker.held # None => worker.held.version \in Nat)
  BY HeldTypes DEF TypeOK, Worlds, Asks
<1>3. ASSUME worker'.held # None
      PROVE  Opened(Id(worker'.held), world', ask')
  <2>1. CASE HoldsOn
    <3>1. /\ Id(worker.held) \in Ids /\ Opened(Id(worker.held), world, ask)
          /\ worker'.held = worker.held
      BY <1>3, <2>1, HeldTypes DEF HoldsOn, HeldFits
    <3> QED
      BY <1>1, <3>1, IdsGrowOld
  <2>2. CASE TakesUp
    BY <1>1, <2>2, OnOffer, IdsGrowOld
  <2> QED
    BY <1>3, <2>1, <2>2, StepMovesHeld
<1>4. ASSUME worker'.held # None, ask' # None, ask'.status = "queued"
      PROVE  ask'.version <= worker'.held.version
  <2>1. CASE TakesUp
    BY <1>2, <1>4, <2>1, OnOffer DEF AskFits, TakesUp, quietVars, backendVars
  <2>2. CASE HoldsOn
    <3>1. worker'.held = worker.held /\ worker.held # None
      BY <1>4, <2>2 DEF HoldsOn
    <3>2. CASE ask' = ask
      BY <1>4, <3>1, <3>2 DEF HeldFits
    <3>3. CASE Submit /\ Awaited(Id(worker.held))
               /\ ask' = [ask EXCEPT !.status = "queued", !.quality = worker.quality]
      <4>1. ask'.version = worker.held.version
        BY <3>1, <3>3, AwaitedAsk DEF Asks
      <4> QED
        BY <1>2, <3>1, <4>1
    <3>4. CASE TellFailure
      BY <1>4, <3>2, <3>4 DEF TellFailure, Awaited, Offered, TypeOK, Asks
    <3>5. CASE Player \/ Backend
      <4>1. CASE QuietChange \/ Executes
        BY <1>4, <3>2, <4>1 DEF QuietChange, Executes
      <4>2. CASE Reopens
        BY <1>4, <4>2 DEF Reopens, Request
      <4> QED
        BY <3>5, <4>1, <4>2, BackendSteps
    <3>6. CASE ~(Player \/ Backend \/ TellFailure)
      <4>1. CASE Submit
        BY <3>2, <3>3, <4>1, SubmitMoves
      <4>2. CASE UNCHANGED quietVars
        BY <3>2, <4>2 DEF quietVars, backendVars
      <4>3. CASE Hear \/ Start \/ Break \/ Finish \/ Report \/ UNCHANGED vars
        BY <3>2, <4>3 DEF Hear, Start, Break, Finish, End, Report, vars, backendVars
      <4>4. CASE Planning
        BY <4>2, <4>4 DEF Planning, PlanReady, PlanFails, RelayStale
      <4>5. CASE \/ Poll \/ Fetch \/ Begin \/ Notice \/ Recheck \/ Rechecked \/ Answered
                 \/ DropStale \/ Compare \/ Compared
        BY <4>2, <4>5 DEF Poll, Fetch, Begin, Notice, Recheck, Rechecked, Answered,
                          DropStale, Compare, Compared
      <4> QED
        BY <3>6, <4>1, <4>3, <4>4, <4>5 DEF Next, Worker
    <3> QED
      BY <3>4, <3>5, <3>6
  <2> QED
    BY <1>4, <2>1, <2>2, StepMovesHeld
<1>5. ASSUME ghost'.taken # None
      PROVE  Spent(ghost'.taken, world', ask')
  <2>1. CASE ghost'.taken = ghost.taken
    <3>1. ghost.taken \in Ids /\ Spent(ghost.taken, world, ask)
      BY <1>5, <2>1 DEF HeldFits, TypeOK
    <3> QED
      BY <1>1, <2>1, <3>1, IdsGrowOld
  <2>2. CASE Submit /\ Awaited(Id(worker.held)) /\ worker.held # None
             /\ ask' = [ask EXCEPT !.status = "queued", !.quality = worker.quality]
             /\ ghost'.taken = Id(worker.held)
    <3>1. world' = world /\ ask \in Asks /\ ask.version = world.version
          /\ ask.version = worker.held.version /\ ask.n = worker.held.n
      BY <2>2, AwaitedAsk, SubmitMoves
    <3>2. ask' \in Asks /\ ask'.version = ask.version /\ ask'.n = ask.n
          /\ ask'.status = "queued"
      BY <2>2, <3>1 DEF Asks, TypeOK, Workers
    <3>3. ask' # None
      BY <3>2, NoneAssumption
    <3>4. Id(worker.held).version = worker.held.version /\ Id(worker.held).n = worker.held.n
      BY <2>2, HeldTypes
    <3> QED
      BY <2>2, <3>1, <3>2, <3>3, <3>4 DEF Spent
  <2> QED
    BY <2>1, <2>2, StepMovesTaken
<1>6. ASSUME worker'.held # None, worker'.pc \in {"offered", "fetched"}
      PROVE  Id(worker'.held) # ghost'.taken
  <2>1. CASE TakesUp
    <3>1. ghost'.taken = ghost.taken
      BY <2>1 DEF TakesUp, quietVars
    <3>2. Id(worker'.held) # None
      BY <2>1, OnOffer, NoneAssumption
    <3> QED
      BY <2>1, <3>1, <3>2, OnOffer DEF HeldFits
  <2>2. CASE HoldsOn
    <3>1. worker.pc \in {"offered", "fetched"} /\ worker'.held = worker.held
      BY <1>6, <2>2 DEF HoldsOn
    <3>2. ghost'.taken = ghost.taken
      BY <3>1, StepMovesTaken DEF Submit
    <3> QED
      BY <1>6, <3>1, <3>2 DEF HeldFits
  <2> QED
    BY <1>6, <2>1, <2>2, StepMovesHeld
<1> QED
  BY <1>3, <1>4, <1>5, <1>6 DEF HeldFits

\* The schema errors kept are those kept before, or those of the request in hand.
LEMMA StepMovesSchema ==
  ASSUME TypeOK, Phases, [Next]_vars, schema' # None
  PROVE  \/ schema' = schema
         \/ /\ UNCHANGED backendVars /\ worker.held # None /\ schema'.id = Id(worker.held)
            /\ \/ worker'.pc = "refusing" /\ worker'.held = worker.held
               \/ schema'.count # SchemaLimit
<1>1. CASE UNCHANGED schema
  BY <1>1
<1>2. CASE schema' = Forgiven
  BY <1>2 DEF Forgiven
<1>3. CASE Player \/ Backend
  BY <1>3, BackendSteps, BackendFrame DEF bridgeVars
<1>4. CASE Answered
  <2> DEFINE id == Id(worker.held)
             count == IF schema # None /\ schema.id = id THEN schema.count + 1 ELSE 1
  <2>1. CASE /\ schema' = [id |-> id, count |-> count]
             /\ worker' = IF count >= SchemaLimit THEN [worker EXCEPT !.pc = "refusing"]
                          ELSE Idle("poll")
    <3>1. UNCHANGED backendVars /\ worker.held # None
      BY <1>4 DEF Answered, quietVars, Phases, Resting
    <3>2. schema'.id = Id(worker.held) /\ schema'.count = count
      BY <2>1
    <3>3. CASE count >= SchemaLimit
      BY <2>1, <3>1, <3>2, <3>3 DEF TypeOK, Workers
    <3>4. CASE ~(count >= SchemaLimit)
      BY <3>1, <3>2, <3>4, ConstantsAssumption
    <3> QED
      BY <3>3, <3>4
  <2>2. CASE schema' = schema \/ schema' = Forgiven
    BY <1>2, <2>2
  <2> HIDE DEF count, id
  <2> QED
    BY <1>4, <2>1, <2>2 DEF Answered, Return, count, id
<1>5. CASE Hear \/ Start \/ UNCHANGED vars
  BY <1>5 DEF Hear, Start, vars
<1>6. CASE End
  BY <1>6 DEF End
<1>7. CASE Planning
  BY <1>1, <1>2, <1>7 DEF Planning, PlanReady, PlanFails, RelayStale, Return
<1>8. CASE \/ Poll \/ Fetch \/ Begin \/ Notice \/ Recheck \/ Rechecked \/ Submit
           \/ TellFailure \/ DropStale \/ Compare \/ Compared \/ Report
  BY <1>1, <1>2, <1>8 DEF Poll, Fetch, Begin, Notice, Recheck, Rechecked, Submit,
                    TellFailure, DropStale, Compare, Compared, Report, Return
<1> QED
  BY <1>3, <1>4, <1>5, <1>6, <1>7, <1>8 DEF Next, Worker, Break, Finish

\* A request that is given up for its schema errors is told to the backend, which
\* closes it unless it has moved on.
LEMMA RefusedIsSpent ==
  ASSUME TypeOK, TypeOK', Phases, AskFits, HeldFits, worker.pc = "refusing", [Next]_vars
  PROVE  \/ HoldsOn /\ worker'.held # None
         \/ schema' = None
         \/ Spent(Id(worker.held), world', ask')
<1>1. worker.held # None /\ Opened(Id(worker.held), world, ask) /\ Id(worker.held) \in Ids
  BY HeldTypes DEF Phases, Resting, HeldFits
<1>2. CASE UNCHANGED worker
  BY <1>1, <1>2 DEF HoldsOn
<1>3. CASE Player \/ Backend
  BY <1>2, <1>3, BackendSteps, BackendFrame DEF bridgeVars
<1>4. CASE Break
  BY <1>4 DEF Break, End
<1>5. CASE TellFailure
  <2> DEFINE id == Id(worker.held)
  <2>1. /\ id.version = worker.held.version /\ id.n = worker.held.n
        /\ id.version \in Nat /\ id.n \in Nat
    BY <1>1, HeldTypes
  <2>2. world' = world
    BY <1>5 DEF TellFailure
  <2>3. CASE Awaited(id)
    <3>1. ask \in Asks /\ ask.version = world.version /\ ask.version = id.version
          /\ ask.n = id.n
      BY <1>1, <2>1, <2>3, AwaitedAsk
    <3>2. ask' = [ask EXCEPT !.status = "failed"]
      BY <1>5, <2>3 DEF TellFailure
    <3>3. ask' \in Asks /\ ask'.version = ask.version /\ ask'.n = ask.n
          /\ ask'.status = "failed"
      BY <3>1, <3>2 DEF Asks
    <3>4. ask' # None
      BY <3>3, NoneAssumption
    <3> QED
      BY <2>2, <3>1, <3>3, <3>4 DEF Spent
  <2>4. CASE ~Awaited(id)
    <3>1. Spent(id, world, ask)
      <4>1. CASE id.version < world.version
        BY <4>1 DEF Spent
      <4>2. CASE /\ id.version = world.version /\ ask # None /\ ask.version = world.version
                 /\ id.n <= ask.n
        <5>1. Running(world) /\ Offered = ask
          BY <4>2 DEF AskFits, Offered
        <5>2. Id(ask) # id \/ ask.status # "awaiting"
          BY <2>4, <4>2, <5>1 DEF Awaited
        <5>3. ask \in Asks /\ ask.n \in Nat
          BY <4>2 DEF TypeOK, Asks
        <5>4. id.n = ask.n => Id(ask) = id
          BY <2>1, <4>2 DEF Id
        <5> QED
          BY <2>1, <4>2, <5>2, <5>3, <5>4 DEF Spent
      <4> QED
        BY <1>1, <4>1, <4>2 DEF Opened
    <3>2. AskMoves
      BY StepMovesAsk
    <3> QED
      BY <1>1, <3>1, <3>2, IdsGrowOld
  <2> QED
    BY <2>3, <2>4
<1>6. CASE Hear \/ UNCHANGED vars
  BY <1>2, <1>6 DEF Hear, vars
<1> QED
  BY <1>3, <1>4, <1>5, <1>6 DEF Next, Worker, Start, Planning, PlanReady, PlanFails,
     RelayStale, Poll, Finish, Fetch, Begin, Notice, Recheck, Rechecked, Submit, Answered,
     Report, DropStale, Compare, Compared

LEMMA StepKeepsSchemaFits ==
  ASSUME TypeOK, TypeOK', Phases, AskFits, HeldFits, SchemaFits, [Next]_vars
  PROVE  SchemaFits'
<1> SUFFICES ASSUME schema' # None
             PROVE  /\ Opened(schema'.id, world', ask')
                    /\ schema'.count = SchemaLimit =>
                         IF worker'.held # None /\ schema'.id = Id(worker'.held)
                         THEN worker'.pc = "refusing" ELSE Spent(schema'.id, world', ask')
  BY DEF SchemaFits
<1>1. AskMoves
  BY StepMovesAsk
<1>2. CASE schema' = schema
  <2>1. schema.id \in Ids /\ Opened(schema.id, world, ask)
    BY <1>2 DEF SchemaFits, TypeOK
  <2>2. Opened(schema.id, world', ask')
    BY <1>1, <1>2, <2>1, IdsGrowOld
  <2>3. ASSUME schema.count = SchemaLimit
        PROVE  IF worker'.held # None /\ schema.id = Id(worker'.held)
               THEN worker'.pc = "refusing" ELSE Spent(schema.id, world', ask')
    <3>1. CASE worker.held # None /\ schema.id = Id(worker.held)
      <4>1. worker.pc = "refusing"
        BY <1>2, <2>3, <3>1 DEF SchemaFits
      <4>2. CASE HoldsOn /\ worker'.held # None
        BY <3>1, <4>1, <4>2 DEF HoldsOn
      <4>3. CASE Spent(schema.id, world', ask')
        <5>1. CASE worker'.held # None
          <6>1. HoldsOn \/ TakesUp
            BY <5>1, StepMovesHeld
          <6> QED
            BY <3>1, <4>1, <4>2, <5>1, <6>1 DEF TakesUp
        <5> QED
          BY <4>3, <5>1
      <4> QED
        BY <1>2, <3>1, <4>1, <4>2, <4>3, RefusedIsSpent
    <3>2. CASE ~(worker.held # None /\ schema.id = Id(worker.held))
      <4>1. Spent(schema.id, world, ask)
        BY <1>2, <2>3, <3>2 DEF SchemaFits
      <4>2. Spent(schema.id, world', ask')
        BY <1>1, <1>2, <2>1, <4>1, IdsGrowOld
      <4>3. ~(worker'.held # None /\ schema.id = Id(worker'.held))
        BY <3>2, <4>1, StepMovesHeld, OnOffer DEF HoldsOn
      <4> QED
        BY <4>2, <4>3
    <3> QED
      BY <3>1, <3>2
  <2> QED
    BY <1>2, <2>2, <2>3
<1>3. CASE /\ UNCHANGED backendVars /\ worker.held # None /\ schema'.id = Id(worker.held)
           /\ \/ worker'.pc = "refusing" /\ worker'.held = worker.held
              \/ schema'.count # SchemaLimit
  <2>1. Opened(Id(worker.held), world, ask) /\ Id(worker.held) \in Ids
    BY <1>3, HeldTypes DEF HeldFits
  <2>2. Opened(Id(worker.held), world', ask')
    BY <1>1, <2>1, IdsGrowOld
  <2> QED
    BY <1>3, <2>2
<1> QED
  BY <1>2, <1>3, StepMovesSchema

-----------------------------------------------------------------------------
(* What was executed, and what the stream and the tracker tell of it.      *)

\* The steps that change the stream or the executions, and what the others do with the
\* tracker.
LEMMA StepMovesStream ==
  ASSUME TypeOK, Phases, [Next]_vars
  PROVE  \/ QuietChange \/ Executes \/ Hear \/ Start \/ End
         \/ /\ UNCHANGED stream /\ ghost'.executed = ghost.executed
            /\ tracker' \in {tracker, None, Track(worker.held)}
<1>1. CASE Player \/ Backend
  BY <1>1, BackendSteps DEF Reopens, bridgeVars
<1>2. CASE Submit
  BY <1>2 DEF Submit, TypeOK
<1>3. CASE Report
  BY <1>3 DEF Report, TypeOK
<1>4. CASE TellFailure \/ UNCHANGED vars
  BY <1>4 DEF TellFailure, vars
<1>5. CASE Planning
  BY <1>5 DEF Planning, PlanReady, PlanFails, RelayStale, quietVars
<1>6. CASE \/ Poll \/ Fetch \/ Begin \/ Notice \/ Recheck \/ Rechecked \/ Answered
           \/ DropStale \/ Compare \/ Compared
  BY <1>6 DEF Poll, Fetch, Begin, Notice, Recheck, Rechecked, Answered,
              DropStale, Compare, Compared, quietVars, Return
<1> QED
  BY <1>1, <1>2, <1>3, <1>4, <1>5, <1>6 DEF Next, Worker, Break, Finish

LEMMA StepMovesHistory ==
  ASSUME TypeOK, Phases, [Next]_vars
  PROVE  /\ ghost'.executed = ghost.executed \/ Executes
         /\ ghost'.reports = ghost.reports \/ Report
<1>1. CASE Player \/ Backend
  BY <1>1, BackendSteps, BackendFrame DEF QuietChange, Reopens
<1>2. CASE Submit
  BY <1>2 DEF Submit, TypeOK
<1>3. CASE Report
  BY <1>3 DEF Report, TypeOK
<1>4. CASE Hear \/ Start \/ End \/ TellFailure \/ UNCHANGED vars
  BY <1>4 DEF Hear, Start, End, TellFailure, vars
<1>5. CASE Planning
  BY <1>5 DEF Planning, PlanReady, PlanFails, RelayStale, quietVars
<1>6. CASE \/ Poll \/ Fetch \/ Begin \/ Notice \/ Recheck \/ Rechecked \/ Answered
           \/ DropStale \/ Compare \/ Compared
  BY <1>6 DEF Poll, Fetch, Begin, Notice, Recheck, Rechecked, Answered,
              DropStale, Compare, Compared, quietVars
<1> QED
  BY <1>1, <1>2, <1>3, <1>4, <1>5, <1>6 DEF Next, Worker, Break, Finish

LEMMA WorldGrowsOld ==
  ASSUME TypeOK, AskMoves
  PROVE  /\ world.version \in Nat /\ world'.version \in Nat
         /\ world.version <= world'.version
BY DEF TypeOK, Worlds, AskMoves, backendVars, Reopens

LEMMA StepKeepsHistory ==
  ASSUME TypeOK, TypeOK', Phases, Phases', HeldFits, History, TrackerFits, [Next]_vars
  PROVE  History'
<1>1. /\ world.version \in Nat /\ world'.version \in Nat /\ world.version <= world'.version
      /\ worker.held # None => worker.held.version \in Nat
      /\ \A s \in ghost'.executed : s.version \in Nat
      /\ ghost.reports \in Seq(Settlements)
      /\ \A i \in DOMAIN ghost.reports : ghost.reports[i].version \in Nat
  <2>1. /\ ghost.reports \in Seq(Settlements)
        /\ \A s \in Settlements : s.version \in Nat
        /\ ghost'.executed \subseteq Settlements
    BY DEF TypeOK, Settlements
  <2>2. \A i \in DOMAIN ghost.reports : ghost.reports[i] \in Settlements
    BY <2>1
  <2>3. \A i \in DOMAIN ghost.reports : ghost.reports[i].version \in Nat
    BY <2>1, <2>2
  <2>4. \A s \in ghost'.executed : s.version \in Nat
    BY <2>1
  <2>5. world.version \in Nat /\ world'.version \in Nat /\ world.version <= world'.version
    BY StepMovesAsk, WorldGrowsOld
  <2> QED
    BY <2>1, <2>3, <2>4, <2>5, HeldTypes
<1>2. worker'.held # None =>
        \/ worker'.held = worker.held
        \/ worker'.held.version = world.version
  BY StepMovesHeld, OnOffer DEF HoldsOn
<1>3. ASSUME NEW s \in ghost'.executed
      PROVE  /\ s.version < world'.version
             /\ worker'.held # None => s.version <= worker'.held.version
  <2>1. CASE s \in ghost.executed
    <3>1. /\ s.version < world.version /\ s.version \in Nat
          /\ worker.held # None => s.version <= worker.held.version
      BY <1>1, <2>1 DEF History
    <3> QED
      BY <1>1, <1>2, <3>1
  <2>2. CASE s \notin ghost.executed
    <3>1. Executes
      BY <1>3, <2>2, StepMovesHistory
    <3>2. PICK w \in Worlds, x \in Settlements, news \in Seq(Messages) :
            /\ w.version = world.version + 1 /\ x.version = world.version
            /\ Commit(w, news) /\ UNCHANGED bridgeVars
            /\ ghost' = [ghost EXCEPT !.executed = @ \cup {x}]
      BY <3>1 DEF Executes
    <3>3. s = x /\ world' = w /\ worker' = worker
      BY <1>3, <2>2, <3>2, Committed DEF TypeOK, bridgeVars
    <3>4. worker.held # None => world.version <= worker.held.version
      BY <3>1 DEF Executes, HeldFits
    <3> QED
      BY <1>1, <3>2, <3>3, <3>4
  <2> QED
    BY <2>1, <2>2
<1>4. CASE ghost'.reports = ghost.reports
  <2>1. ASSUME NEW i \in DOMAIN ghost'.reports
        PROVE  /\ ghost'.reports[i].version < world'.version
               /\ worker'.held # None => ghost'.reports[i].version < worker'.held.version
    <3>1. i \in DOMAIN ghost.reports /\ ghost'.reports[i] = ghost.reports[i]
      BY <1>4, <2>1
    <3>2. /\ ghost.reports[i].version < world.version
          /\ worker.held # None => ghost.reports[i].version < worker.held.version
      BY <3>1 DEF History
    <3> QED
      BY <1>1, <1>2, <3>1, <3>2
  <2> QED
    BY <1>3, <1>4, <2>1 DEF History, ReportedOnce
<1>5. CASE Report
  <2>1. /\ tracker # None /\ Backed(Evidence) /\ Evidence \in Settlements
        /\ Evidence.version = tracker.version /\ worker.held # None
        /\ tracker.version = worker.held.version
    BY <1>5, EvidenceTypes DEF Phases, Submitted, Resting, Report
  <2>2. Evidence.version < world.version
    BY <2>1 DEF Backed, History
  <2>3. ghost'.reports = Append(ghost.reports, Evidence) /\ worker'.held = None
    BY <1>5, RestFields DEF Report, Return, TypeOK
  <2> DEFINE n == Len(ghost.reports) + 1
  <2>4. /\ DOMAIN ghost.reports = 1 .. Len(ghost.reports) /\ Len(ghost.reports) \in Nat
        /\ DOMAIN ghost'.reports = 1 .. n /\ ghost'.reports[n] = Evidence
        /\ \A i \in DOMAIN ghost.reports : ghost'.reports[i] = ghost.reports[i]
    BY <1>1, <2>1, <2>3, AppendProperties
  <2>5. \A i \in DOMAIN ghost'.reports : i = n \/ i \in DOMAIN ghost.reports
    BY <2>4
  <2> HIDE DEF n
  <2>6. \A i \in DOMAIN ghost.reports :
          /\ ghost.reports[i].version < world.version
          /\ ghost.reports[i].version < Evidence.version
    BY <2>1 DEF History
  <2>7. Evidence.version \in Nat
    BY <1>1, <2>1
  <2>8. \A i \in DOMAIN ghost'.reports : ghost'.reports[i].version < world'.version
    BY <1>1, <2>2, <2>4, <2>5, <2>6, <2>7
  <2>9. ReportedOnce'
    <3> SUFFICES ASSUME NEW i \in DOMAIN ghost'.reports, NEW j \in DOMAIN ghost'.reports,
                        ghost'.reports[i].version = ghost'.reports[j].version
                 PROVE  i = j
      BY DEF ReportedOnce
    <3>1. CASE i = n \/ j = n
      BY <1>1, <2>4, <2>5, <2>6, <2>7, <3>1
    <3>2. CASE i # n /\ j # n
      BY <2>4, <2>5, <3>2 DEF History, ReportedOnce
    <3> QED
      BY <3>1, <3>2
  <2> QED
    BY <1>3, <2>3, <2>8, <2>9 DEF History
<1> QED
  BY <1>4, <1>5, StepMovesHistory

\* Messages that tell of no plan may follow.
LEMMA Lengthened ==
  ASSUME NEW st, NEW longer, NEW executed, NEW i \in DOMAIN st, Told(i, st, executed),
         \A j \in DOMAIN st : j \in DOMAIN longer /\ longer[j] = st[j]
  PROVE  Told(i, longer, executed)
BY DEF Told

LEMMA QuietChangeKeepsStreamFits ==
  ASSUME TypeOK, StreamFits, QuietChange
  PROVE  /\ StreamFits'
         /\ \A i \in DOMAIN stream : i \in DOMAIN stream' /\ stream'[i] = stream[i]
         /\ \A i \in DOMAIN stream' : IsPlan(stream'[i]) => i \in DOMAIN stream
<1>1. PICK w \in Worlds, news \in Seq(Messages) :
        Commit(w, news) /\ (\A j \in DOMAIN news : ~IsPlan(news[j])) /\ UNCHANGED ghost
  BY DEF QuietChange
<1>2. \A i \in DOMAIN stream : i \in DOMAIN stream' /\ stream'[i] = stream[i]
  BY <1>1, Committed DEF TypeOK
<1>3. ASSUME NEW i \in DOMAIN stream', IsPlan(stream'[i])
      PROVE  i \in DOMAIN stream
  BY <1>1, <1>3, Committed, MessageTypes DEF TypeOK
<1>4. ASSUME NEW i \in DOMAIN stream', IsPlan(stream'[i])
      PROVE  /\ Told(i, stream', ghost'.executed)
             /\ \A j \in DOMAIN stream' :
                  i < j /\ IsPlan(stream'[j]) => stream'[i].version < stream'[j].version
  <2>1. i \in DOMAIN stream /\ IsPlan(stream[i])
    BY <1>2, <1>3, <1>4
  <2>2. Told(i, stream, ghost.executed)
    BY <2>1 DEF StreamFits
  <2>3. Told(i, stream', ghost.executed)
    BY <1>2, <2>1, <2>2, Lengthened
  <2> QED
    BY <1>1, <1>2, <1>3, <2>1, <2>3 DEF StreamFits
<1> QED
  BY <1>2, <1>3, <1>4 DEF StreamFits

\* An execution tells of its plan after every other.
LEMMA ExecutesKeepsStreamFits ==
  ASSUME TypeOK, History, StreamFits, Executes
  PROVE  StreamFits'
<1>1. PICK w \in Worlds, s \in Settlements, news \in Seq(Messages) :
        /\ s.version = world.version
        /\ Commit(w, news) /\ Tells(s, news)
        /\ ghost' = [ghost EXCEPT !.executed = @ \cup {s}]
  BY DEF Executes
<1>2. ghost'.executed = ghost.executed \cup {s}
  BY <1>1 DEF TypeOK
<1>3. stream \in Seq(Messages) /\ Len(stream) \in Nat /\ DOMAIN stream = 1 .. Len(stream)
  BY DEF TypeOK
<1>4. \A i \in DOMAIN stream : i \in DOMAIN stream' /\ stream'[i] = stream[i]
  BY <1>1, <1>3, Committed
<1>5. ASSUME NEW i \in DOMAIN stream', IsPlan(stream'[i]), i \notin DOMAIN stream
      PROVE  /\ i = Len(stream) + 1 /\ stream'[i] = news[1] /\ worker.pc # "ended"
  <2>1. PICK j \in DOMAIN news : i = Len(stream) + j /\ stream'[i] = news[j]
    BY <1>1, <1>3, <1>5, Committed, MessageTypes
  <2>2. j = 1
    BY <1>1, <1>5, <2>1 DEF Tells
  <2>3. worker.pc # "ended"
    BY <1>1, <1>5 DEF Commit
  <2> QED
    BY <2>1, <2>2, <2>3
<1>6. /\ news[1].version = s.version /\ news[1].tick = s.tick /\ news[1].plan = s.plan
  BY <1>1 DEF Tells, PlanMessage
<1>7. ASSUME NEW i \in DOMAIN stream', IsPlan(stream'[i])
      PROVE  Told(i, stream', ghost'.executed)
  <2>1. CASE i \in DOMAIN stream
    <3>1. Told(i, stream, ghost.executed)
      BY <1>4, <1>7, <2>1 DEF StreamFits
    <3>2. Told(i, stream, ghost'.executed)
      BY <1>2, <3>1 DEF Told
    <3> QED
      BY <1>4, <2>1, <3>2, Lengthened
  <2>2. CASE i \notin DOMAIN stream
    <3>1. i = Len(stream) + 1 /\ stream'[i] = news[1] /\ worker.pc # "ended"
      BY <1>5, <1>7, <2>2
    <3>2. s.events # {} =>
            /\ i + 1 \in DOMAIN stream'
            /\ \E e \in s.events : stream'[i + 1] = EventMessage(e) /\ s.events = {e}
      <4> SUFFICES ASSUME s.events # {}
                   PROVE  /\ i + 1 \in DOMAIN stream'
                          /\ \E e \in s.events : stream'[i + 1] = EventMessage(e)
                                                 /\ s.events = {e}
        OBVIOUS
      <4>1. 2 \in DOMAIN news /\ \E e \in s.events : news[2] = EventMessage(e)
                                                     /\ s.events = {e}
        BY <1>1 DEF Tells
      <4>2. Len(stream) + 2 \in DOMAIN stream' /\ stream'[Len(stream) + 2] = news[2]
        BY <1>1, <1>3, <3>1, <4>1, Committed
      <4>3. i + 1 = Len(stream) + 2
        BY <1>3, <3>1
      <4> QED
        BY <4>1, <4>2, <4>3
    <3> QED
      BY <1>2, <1>6, <3>1, <3>2 DEF Told
  <2> QED
    BY <2>1, <2>2
<1>8. ASSUME NEW i \in DOMAIN stream', NEW j \in DOMAIN stream', i < j,
             IsPlan(stream'[i]), IsPlan(stream'[j])
      PROVE  stream'[i].version < stream'[j].version
  <2>1. CASE j \in DOMAIN stream
    <3>1. stream' \in Seq(Messages)
      BY <1>1, <1>3, Committed
    <3>2. i \in DOMAIN stream
      BY <1>3, <1>8, <2>1, <3>1
    <3> QED
      BY <1>4, <1>8, <2>1, <3>2 DEF StreamFits
  <2>2. CASE j \notin DOMAIN stream
    <3>1. j = Len(stream) + 1 /\ stream'[j].version = world.version
      BY <1>1, <1>5, <1>6, <1>8, <2>2
    <3>2. i \in DOMAIN stream /\ stream'[i] = stream[i]
      BY <1>3, <1>4, <1>5, <1>8, <3>1
    <3>3. Told(i, stream, ghost.executed)
      BY <1>8, <3>2 DEF StreamFits
    <3> QED
      BY <3>1, <3>2, <3>3 DEF Told, History
  <2> QED
    BY <2>1, <2>2
<1> QED
  BY <1>7, <1>8 DEF StreamFits

\* The rest of the stream, after its first message.
LEMMA TailOfStream ==
  ASSUME stream \in Seq(Messages), stream # <<>>
  PROVE  /\ Head(stream) = stream[1] /\ 1 \in DOMAIN stream
         /\ Tail(stream) \in Seq(Messages)
         /\ \A i \in DOMAIN Tail(stream) :
              i \in Nat \ {0} /\ i + 1 \in DOMAIN stream /\ Tail(stream)[i] = stream[i + 1]
         /\ \A i \in Nat \ {0} : i + 1 \in DOMAIN stream => i \in DOMAIN Tail(stream)
<1> DEFINE rest == Tail(stream)
<1>1. /\ rest \in Seq(Messages) /\ Len(rest) = Len(stream) - 1 /\ Len(stream) \in Nat \ {0}
      /\ \A i \in 1 .. Len(rest) : rest[i] = stream[i + 1]
  BY HeadTailProperties, LenProperties
<1>2. DOMAIN rest = 1 .. Len(rest) /\ DOMAIN stream = 1 .. Len(stream)
  BY <1>1
<1> HIDE DEF rest
<1>3. 1 \in DOMAIN stream
  BY <1>1, <1>2
<1>4. \A i \in DOMAIN rest : i \in Nat \ {0} /\ i + 1 \in DOMAIN stream
                             /\ rest[i] = stream[i + 1]
  BY <1>1, <1>2
<1>5. \A i \in Nat \ {0} : i + 1 \in DOMAIN stream => i \in DOMAIN rest
  BY <1>1, <1>2
<1> QED
  BY <1>1, <1>3, <1>4, <1>5 DEF rest

LEMMA HearKeepsStreamFits ==
  ASSUME TypeOK, StreamFits, Hear
  PROVE  StreamFits'
<1>1. stream' = Tail(stream) /\ stream # <<>> /\ ghost' = ghost /\ stream \in Seq(Messages)
  BY DEF Hear, TypeOK
<1>2. \A i \in DOMAIN stream' :
        i \in Nat \ {0} /\ i + 1 \in DOMAIN stream /\ stream'[i] = stream[i + 1]
  BY <1>1, TailOfStream
<1>3. \A i \in Nat \ {0} : i + 1 \in DOMAIN stream => i \in DOMAIN stream'
  BY <1>1, TailOfStream
<1>4. ASSUME NEW i \in DOMAIN stream', IsPlan(stream'[i])
      PROVE  Told(i, stream', ghost'.executed)
  <2>1. Told(i + 1, stream, ghost.executed)
    BY <1>2, <1>4 DEF StreamFits
  <2>2. PICK s \in ghost.executed :
          /\ s.version = stream[i + 1].version /\ s.tick = stream[i + 1].tick
          /\ s.plan = stream[i + 1].plan
          /\ s.events # {} =>
               /\ i + 1 + 1 \in DOMAIN stream
               /\ \E e \in s.events : stream[i + 1 + 1] = EventMessage(e) /\ s.events = {e}
    BY <2>1 DEF Told
  <2>3. i \in Nat \ {0} /\ i + 1 \in Nat \ {0}
    BY <1>2
  <2>4. i + 1 + 1 \in DOMAIN stream =>
          i + 1 \in DOMAIN stream' /\ stream'[i + 1] = stream[i + 1 + 1]
    BY <1>2, <1>3, <2>3
  <2> QED
    BY <1>1, <1>2, <2>2, <2>4 DEF Told
<1>5. ASSUME NEW i \in DOMAIN stream', NEW j \in DOMAIN stream', i < j,
             IsPlan(stream'[i]), IsPlan(stream'[j])
      PROVE  stream'[i].version < stream'[j].version
  <2>1. i + 1 < j + 1 /\ i + 1 \in DOMAIN stream /\ j + 1 \in DOMAIN stream
    BY <1>2, <1>5
  <2> QED
    BY <1>2, <1>5, <2>1 DEF StreamFits
<1> QED
  BY <1>4, <1>5 DEF StreamFits

LEMMA StepKeepsStreamFits ==
  ASSUME TypeOK, Phases, History, StreamFits, [Next]_vars
  PROVE  StreamFits'
<1>1. CASE Start
  <2>1. stream' = <<StateMessage(world)>> /\ ~IsPlan(StateMessage(world))
    BY <1>1, MessageTypes DEF Start, TypeOK
  <2> QED
    BY <2>1 DEF StreamFits
<1>2. CASE End
  BY <1>2 DEF End, StreamFits
<1>3. CASE UNCHANGED stream /\ ghost'.executed = ghost.executed
  BY <1>3 DEF StreamFits
<1> QED
  BY <1>1, <1>2, <1>3, StepMovesStream, QuietChangeKeepsStreamFits,
     ExecutesKeepsStreamFits, HearKeepsStreamFits

-----------------------------------------------------------------------------
(* The tracker.                                                            *)

\* A tracker left alone while the history and the stream in front of it stay.
LEMMA TrackerLeft ==
  ASSUME TypeOK, TrackerFits, tracker' = tracker, ghost'.executed = ghost.executed,
         stream \in Seq(Messages),
         \A i \in DOMAIN stream : i \in DOMAIN stream' /\ stream'[i] = stream[i],
         \A i \in DOMAIN stream' : IsPlan(stream'[i]) => i \in DOMAIN stream
  PROVE  TrackerFits'
<1> SUFFICES ASSUME tracker # None
             PROVE  TrackerFits'
  BY DEF TrackerFits
<1>1. ASSUME tracker.observed # None \/ tracker.state # None
      PROVE  /\ \A i \in DOMAIN stream' : ~IsPlan(stream'[i])
             /\ \E s \in ghost.executed : s.version = tracker.version
  BY <1>1 DEF TrackerFits
<1>2. ASSUME tracker.observed # None, tracker.state = None
      PROVE  ObservedFits'
  <2>1. PICK s \in ghost.executed :
          /\ s.version = tracker.version /\ s.tick = tracker.tick
          /\ s.plan = tracker.observed
          /\ \/ s.events \subseteq tracker.events
             \/ /\ stream # <<>>
                /\ \E e \in s.events : /\ stream[1] = EventMessage(e)
                                       /\ s.events \subseteq tracker.events \cup {e}
    BY <1>2 DEF TrackerFits, ObservedFits
  <2>2. stream # <<>> => stream' # <<>> /\ stream'[1] = stream[1]
    BY TailOfStream
  <2> QED
    BY <2>1, <2>2 DEF ObservedFits
<1>3. ASSUME tracker.state # None
      PROVE  tracker.observed # None /\ Backed(Evidence)'
  BY <1>3 DEF TrackerFits, Backed, Evidence
<1> QED
  BY <1>1, <1>2, <1>3 DEF TrackerFits

\* The version that was observed is over, and nothing of it is executed any more.
LEMMA ExecutesKeepsTrackerFits ==
  ASSUME TypeOK, Phases, HeldFits, History, TrackerFits, Executes
  PROVE  TrackerFits'
<1>1. tracker' = tracker
  BY BackendFrame DEF bridgeVars
<1>2. SUFFICES ASSUME tracker # None, tracker.observed # None \/ tracker.state # None
               PROVE  FALSE
  BY <1>1 DEF TrackerFits
<1>3. worker.held # None /\ tracker.version = worker.held.version
  BY <1>2 DEF Phases, Submitted, Resting
<1>4. worker.held.version < world.version
  BY <1>2, <1>3 DEF TrackerFits, History
<1>5. world.version <= worker.held.version
  BY <1>3 DEF Executes, HeldFits
<1> QED
  BY <1>3, <1>4, <1>5, HeldTypes DEF TypeOK, Worlds

\* The plan the bridge waits for is told, and no other follows.
LEMMA HearsOfPlan ==
  ASSUME TypeOK, Phases, History, StreamFits, TrackerFits, Hear, tracker # None,
         IsPlan(Head(stream))
  PROVE  TrackerFits'
<1> DEFINE m == Head(stream)
<1>1. stream # <<>> /\ stream \in Seq(Messages) /\ stream' = Tail(stream) /\ ghost' = ghost
  BY DEF Hear, TypeOK
<1>2. m = stream[1] /\ 1 \in DOMAIN stream /\ m \in Messages
  BY <1>1, TailOfStream, HeadTailProperties
<1>3. tracker' = AcceptPlan(tracker, m) /\ tracker \in Trackers
  BY DEF Hear, Accept, IsPlan, TypeOK
<1>4. IsPlan(stream[1]) /\ tracker.observed = None /\ tracker.state = None
  BY <1>2 DEF TrackerFits
<1>5. /\ tracker'.version = tracker.version /\ tracker'.tick = tracker.tick
      /\ tracker'.state = None /\ tracker'.events = {}
      /\ tracker'.observed = IF m.tick = tracker.tick /\ m.version = tracker.version
                             THEN m.plan ELSE None
  BY <1>3, <1>4 DEF AcceptPlan, Trackers
<1>6. CASE ~(m.tick = tracker.tick /\ m.version = tracker.version)
  BY <1>5, <1>6 DEF TrackerFits
<1>7. CASE m.tick = tracker.tick /\ m.version = tracker.version
  <2>1. PICK s \in ghost.executed :
          /\ s.version = m.version /\ s.tick = m.tick /\ s.plan = m.plan
          /\ s.events # {} =>
               /\ 1 + 1 \in DOMAIN stream
               /\ \E e \in s.events : stream[1 + 1] = EventMessage(e) /\ s.events = {e}
    BY <1>2, <1>4 DEF StreamFits, Told
  <2>2. worker.held # None /\ tracker.version = worker.held.version
        /\ worker.held.version \in Nat
    BY HeldTypes DEF Phases, Submitted, Resting
  <2>3. ASSUME NEW i \in DOMAIN stream', IsPlan(stream'[i])
        PROVE  FALSE
    <3>1. /\ i \in Nat \ {0} /\ i + 1 \in DOMAIN stream /\ stream'[i] = stream[i + 1]
      BY <1>1, TailOfStream
    <3>2. 1 < i + 1
      BY <3>1
    <3>3. stream[1].version < stream[i + 1].version /\ Told(i + 1, stream, ghost.executed)
      BY <1>2, <1>4, <2>3, <3>1, <3>2 DEF StreamFits
    <3>4. PICK x \in ghost.executed : x.version = stream[i + 1].version
      BY <3>3 DEF Told
    <3>5. x.version <= worker.held.version /\ x.version \in Nat
      BY <2>2 DEF History, TypeOK, Settlements
    <3> QED
      BY <1>2, <1>7, <2>2, <3>3, <3>4, <3>5
  <2>4. s.events # {} =>
          /\ stream' # <<>>
          /\ \E e \in s.events : stream'[1] = EventMessage(e) /\ s.events = {e}
    <3>1. 1 + 1 \in DOMAIN stream => 1 \in DOMAIN stream' /\ stream'[1] = stream[1 + 1]
      BY <1>1, TailOfStream
    <3> QED
      BY <2>1, <3>1
  <2>5. ObservedFits'
    BY <1>1, <1>5, <1>7, <2>1, <2>4 DEF ObservedFits
  <2> QED
    BY <1>1, <1>5, <1>7, <2>1, <2>3, <2>5 DEF TrackerFits
<1> QED
  BY <1>6, <1>7

\* Every other message leaves the observed plan, or is the settled world, or shows that
\* the plan was overtaken.
LEMMA HearsOfNoPlan ==
  ASSUME TypeOK, TrackerFits, Hear, tracker # None, ~IsPlan(Head(stream)),
         tracker'.observed # None \/ tracker'.state # None
  PROVE  /\ tracker.observed # None /\ tracker'.observed = tracker.observed
         /\ tracker'.version = tracker.version /\ tracker'.tick = tracker.tick
         /\ tracker.events \subseteq tracker'.events
         /\ tracker.state # None => tracker'.state # None
         /\ \/ /\ Head(stream).kind = "world_event" /\ tracker'.state = tracker.state
               /\ tracker'.events = tracker.events \cup {Head(stream).event}
            \/ Head(stream).kind = "state_update" /\ tracker'.events = tracker.events
<1> DEFINE m == Head(stream)
<1>1. stream # <<>> /\ stream \in Seq(Messages) /\ tracker \in Trackers
  BY DEF Hear, TypeOK
<1>2. m \in Messages /\ m.kind \in {"world_event", "state_update"}
  BY <1>1, HeadTailProperties, MessageFields DEF IsPlan
<1>3. tracker.state # None => tracker.observed # None
  BY DEF TrackerFits
<1>4. CASE m.kind = "world_event"
  <2>1. tracker' = AcceptEvent(tracker, m)
    BY <1>4 DEF Hear, Accept
  <2> QED
    BY <1>1, <1>3, <1>4, <2>1 DEF AcceptEvent, Trackers
<1>5. CASE m.kind = "state_update"
  <2>1. tracker' = AcceptState(tracker, m)
    BY <1>5 DEF Hear, Accept
  <2>2. m.world \in Worlds /\ m.world # None
    BY <1>2, <1>5, MessageFields, NoneAssumption
  <2> DEFINE confirms == /\ tracker.observed # None /\ m.world.tick = tracker.tick + 1
                         /\ m.world.version = tracker.version + 1
  <2>3. /\ tracker'.state = IF confirms THEN m.world ELSE tracker.state
        /\ tracker'.observed = IF confirms \/ tracker.state # None THEN tracker.observed
                               ELSE None
        /\ tracker'.version = tracker.version /\ tracker'.tick = tracker.tick
        /\ tracker'.events = tracker.events
    BY <1>1, <2>1 DEF AcceptState, Trackers
  <2>4. confirms => tracker.observed # None
    OBVIOUS
  <2> HIDE DEF confirms
  <2> QED
    BY <1>3, <1>5, <2>2, <2>3, <2>4
<1> QED
  BY <1>2, <1>4, <1>5

LEMMA HearKeepsTrackerFits ==
  ASSUME TypeOK, Phases, History, StreamFits, TrackerFits, Hear
  PROVE  TrackerFits'
<1>1. CASE tracker = None
  BY <1>1 DEF Hear, TrackerFits
<1>2. CASE tracker # None /\ IsPlan(Head(stream))
  BY <1>2, HearsOfPlan
<1>3. CASE tracker # None /\ ~IsPlan(Head(stream))
  <2>1. SUFFICES ASSUME tracker'.observed # None \/ tracker'.state # None
                 PROVE  TrackerFits'
    BY DEF TrackerFits
  <2>2. stream # <<>> /\ stream \in Seq(Messages) /\ stream' = Tail(stream)
        /\ ghost' = ghost /\ Head(stream) = stream[1] /\ Head(stream) \in Messages
    BY TailOfStream, HeadTailProperties DEF Hear, TypeOK
  <2>3. tracker.observed # None /\ tracker'.observed = tracker.observed
        /\ tracker'.version = tracker.version /\ tracker'.tick = tracker.tick
        /\ tracker.events \subseteq tracker'.events
        /\ (tracker.state # None => tracker'.state # None)
    BY <1>3, <2>1, HearsOfNoPlan
  <2>4. /\ \A i \in DOMAIN stream' : ~IsPlan(stream'[i])
        /\ \E s \in ghost'.executed : s.version = tracker'.version
    <3>1. \A i \in DOMAIN stream' : i + 1 \in DOMAIN stream /\ stream'[i] = stream[i + 1]
      BY <2>2, TailOfStream
    <3> QED
      BY <1>3, <2>2, <2>3, <3>1 DEF TrackerFits
  <2>5. ASSUME tracker.state = None
        PROVE  \E s \in ghost'.executed :
                 /\ s.version = tracker'.version /\ s.tick = tracker'.tick
                 /\ s.plan = tracker'.observed /\ s.events \subseteq tracker'.events
    <3>1. PICK s \in ghost.executed :
            /\ s.version = tracker.version /\ s.tick = tracker.tick
            /\ s.plan = tracker.observed
            /\ \/ s.events \subseteq tracker.events
               \/ /\ stream # <<>>
                  /\ \E e \in s.events : /\ stream[1] = EventMessage(e)
                                         /\ s.events \subseteq tracker.events \cup {e}
      BY <1>3, <2>3, <2>5 DEF TrackerFits, ObservedFits
    <3>2. CASE s.events \subseteq tracker.events
      BY <2>2, <2>3, <3>1, <3>2
    <3>3. ASSUME NEW e \in s.events, stream[1] = EventMessage(e),
                 s.events \subseteq tracker.events \cup {e}
          PROVE  s.events \subseteq tracker'.events
      <4>1. Head(stream).kind = "world_event" /\ Head(stream).event = e
        BY <2>2, <3>3 DEF EventMessage
      <4>2. tracker'.events = tracker.events \cup {e}
        BY <1>3, <2>1, <4>1, HearsOfNoPlan
      <4> QED
        BY <3>3, <4>2
    <3> QED
      BY <2>2, <2>3, <3>1, <3>2, <3>3
  <2>6. ASSUME tracker.state # None
        PROVE  \E s \in ghost'.executed :
                 /\ s.version = tracker'.version /\ s.tick = tracker'.tick
                 /\ s.plan = tracker'.observed /\ s.events \subseteq tracker'.events
    <3>1. Backed(Evidence)
      BY <1>3, <2>6 DEF TrackerFits
    <3> QED
      BY <2>2, <2>3, <3>1 DEF Backed, Evidence
  <2>7. ObservedFits' /\ Backed(Evidence)'
    BY <2>5, <2>6 DEF ObservedFits, Backed, Evidence
  <2> QED
    BY <2>3, <2>4, <2>7 DEF TrackerFits
<1> QED
  BY <1>1, <1>2, <1>3

LEMMA StepKeepsTrackerFits ==
  ASSUME TypeOK, Phases, HeldFits, History, StreamFits, TrackerFits, [Next]_vars
  PROVE  TrackerFits'
<1>1. CASE QuietChange
  <2>1. tracker' = tracker /\ ghost' = ghost
    BY <1>1 DEF QuietChange, bridgeVars
  <2> QED
    BY <1>1, <2>1, QuietChangeKeepsStreamFits, TrackerLeft DEF TypeOK
<1>2. CASE Start
  BY <1>2 DEF Start, Phases, Submitted, TrackerFits
<1>3. CASE End
  BY <1>3 DEF End, TrackerFits
<1>4. CASE UNCHANGED stream /\ ghost'.executed = ghost.executed
           /\ tracker' \in {tracker, None, Track(worker.held)}
  <2>1. CASE tracker' = tracker
    BY <1>4, <2>1, TrackerLeft DEF TypeOK
  <2>2. CASE tracker' = None
    BY <2>2 DEF TrackerFits
  <2>3. CASE tracker' = Track(worker.held)
    BY <2>3 DEF Track, TrackerFits
  <2> QED
    BY <1>4, <2>1, <2>2, <2>3
<1> QED
  BY <1>1, <1>2, <1>3, <1>4, StepMovesStream, ExecutesKeepsTrackerFits, HearKeepsTrackerFits

-----------------------------------------------------------------------------
(* The theorems.                                                           *)

LEMMA InvInit ==
  ASSUME Init
  PROVE  Inv
<1> USE DEF Init
<1>1. worker \in Workers /\ worker.pc = "ended" /\ worker.held = None /\ worker.tries = 0
  BY IdleTypes, RestFields
<1>2. TypeOK
  <2>1. 0 \in 0 .. MaxTicks /\ <<>> \in Seq(Messages) /\ <<>> \in Seq(Settlements)
    BY ConstantsAssumption
  <2>2. FreshWorld(0) \in Worlds
    BY DEF FreshWorld, Worlds
  <2>3. ghost \in [executed : SUBSET Settlements, reports : Seq(Settlements),
                   taken : Ids \cup {None}]
    BY <2>1
  <2> QED
    BY <1>1, <2>1, <2>2, <2>3 DEF TypeOK
<1>3. Phases /\ AskFits /\ HeldFits
  BY <1>1 DEF Phases, Resting, Planned, Submitted, AskFits, HeldFits
<1>4. SchemaFits /\ History /\ StreamFits /\ TrackerFits
  BY DEF SchemaFits, History, ReportedOnce, StreamFits, TrackerFits
<1> QED
  BY <1>2, <1>3, <1>4 DEF Inv

LEMMA InvStep ==
  ASSUME Inv, [Next]_vars
  PROVE  Inv'
<1> USE DEF Inv
<1>1. TypeOK'
  BY StepKeepsTypes
<1>2. Phases'
  BY StepKeepsPhases
<1>3. AskFits' /\ HeldFits' /\ SchemaFits'
  BY <1>1, StepMovesAsk, StepKeepsAskFits, StepKeepsHeldFits, StepKeepsSchemaFits
<1>4. History' /\ StreamFits' /\ TrackerFits'
  BY <1>1, <1>2, StepKeepsHistory, StepKeepsStreamFits, StepKeepsTrackerFits
<1> QED
  BY <1>1, <1>2, <1>3, <1>4

\* What the bridge knows fits what the backend did, in every behaviour.
THEOREM BridgeInvariance == Spec => []Inv
<1>1. Inv /\ [Next]_vars => Inv'
  BY InvStep
<1> QED
  BY <1>1, InvInit, PTL DEF Spec

\* The variables keep their types: no submission is tried too often, no request is answered
\* with more schema errors than the limit, no tick is completed past --max-ticks.
THEOREM Types == Spec => []TypeOK
<1>1. Inv => TypeOK
  BY DEF Inv
<1> QED
  BY <1>1, BridgeInvariance, PTL

\* SettlementTracker confirms a settlement only if the backend executed that very plan in
\* that very tick, and it has heard all of its events.
THEOREM SettlementsHappened == Spec => []EvidenceIsReal
<1>1. Inv => EvidenceIsReal
  BY DEF Inv, TrackerFits, EvidenceIsReal
<1> QED
  BY <1>1, BridgeInvariance, PTL

\* CorePort.accept_result hears of each settlement at most once, however often the bridge
\* is started again, and whatever was lost on the way.
THEOREM ReportsAreUnique == Spec => []ReportedOnce
<1>1. Inv => ReportedOnce
  BY DEF Inv, History
<1> QED
  BY <1>1, BridgeInvariance, PTL

\* The bridge plans for a request only as long as no plan for it was taken.
THEOREM NothingPlannedTwice == Spec => PlansOnce
<1>1. ASSUME Inv, [Next]_vars
      PROVE  [worker'.pc = "planning" /\ worker.pc # "planning"
                => Id(worker'.held) # ghost.taken]_vars
  <2> SUFFICES ASSUME worker'.pc = "planning", worker.pc # "planning"
               PROVE  Id(worker'.held) # ghost.taken
    OBVIOUS
  <2>1. Begin
    <3>1. worker \in Workers
      BY <1>1 DEF Inv, TypeOK
    <3>2. worker' # worker /\ worker' # Idle("poll") /\ worker' # Idle("ended")
      BY RestFields
    <3>3. ~(Player \/ Backend \/ Hear \/ Start \/ Break \/ Finish)
      BY <1>1, <3>2, BackendSteps, BackendFrame
         DEF Inv, bridgeVars, Hear, Start, Break, Finish, End
    <3>4. ~Planning /\ ~Notice
      BY DEF Planning, PlanReady, PlanFails, RelayStale, Notice
    <3>5. ~(Fetch \/ TellFailure \/ Recheck \/ Rechecked \/ DropStale \/ Report
              \/ Compare \/ Compared)
      BY <3>1, <3>2 DEF Fetch, TellFailure, Recheck, Rechecked, DropStale, Report, Return,
                        Compare, Compared, Workers
    <3>6. ~Submit
      BY <1>1, SubmitMoves DEF Inv
    <3>7. ~Poll
      <4>1. Poll => worker'.pc = "offered"
        BY DEF Poll, Idle
      <4> QED
        BY <4>1
    <3>8. ~Answered
      <4>1. ASSUME Answered PROVE worker'.pc \in {"poll", "refusing", "watching"}
        <5>1. worker.held # None /\ TypeOK
          BY <1>1, <4>1 DEF Inv, Answered, Phases, Resting
        <5>2. worker.held \in Requests
          BY <5>1, HeldTypes
        <5>3. [worker EXCEPT !.pc = "refusing"].pc = "refusing"
          BY <3>1 DEF Workers
        <5> QED
          BY <4>1, <5>2, <5>3, RestFields DEF Answered, Return
      <4> QED
        BY <4>1
    <3> QED
      BY <1>1, <3>2, <3>3, <3>4, <3>5, <3>6, <3>7, <3>8 DEF Next, Worker, vars
  <2>2. worker.pc = "fetched" /\ worker' = [worker EXCEPT !.pc = "planning", !.answer = "none"]
    BY <2>1, RestFields DEF Begin
  <2>3. worker.held # None /\ worker'.held = worker.held
    BY <1>1, <2>2 DEF Inv, Phases, Resting, TypeOK, Workers
  <2> QED
    BY <1>1, <2>2, <2>3 DEF Inv, HeldFits
<1> QED
  BY <1>1, BridgeInvariance, PTL DEF Spec, PlansOnce

=============================================================================
