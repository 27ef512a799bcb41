-------------------------------- MODULE Council --------------------------------
(***************************************************************************)
(* CoreAgent.plan (core_agent/orchestrator.py) and the two services it     *)
(* asks, Human (human_agent/app) and Plant (plant_agent/src): in each      *)
(* round the Core puts a question to both, shows them what was said in the *)
(* rounds before, and then decides on a plan or on another round.          *)
(*                                                                         *)
(* Each of the three programs checks a part of what is said, and none of   *)
(* them all of it.  A message is reduced to what those checks read: the    *)
(* ids of its proposals, what it reviews, and whether the Core's next      *)
(* question to the Plant service has any text.                             *)
(*                                                                         *)
(* A caller that goes away (timeout, the bridge's cancellation) leaves its *)
(* analysis behind in the service, where it holds room until it ends.      *)
(***************************************************************************)
EXTENDS Naturals, Sequences, FiniteSets

CONSTANTS
  MaxRounds,   \* max_rounds (3)
  Room,        \* analyses at once: live_slots of Human (2), threads of Plant
  MaxTalks,    \* bound: calls of CoreAgent.plan
  MaxReviews,  \* bound: reviews in a message
  Names,       \* what a model calls its proposals
  Blank,       \* a proposal id of white space
  Empty,       \* a proposal id without characters
  None

Experts == {"plant", "human"}

\* Ids are what a model wrote or, on the paths without one, new for each message.
New(k) == <<k, 1>>

ASSUME CouncilAssumption ==
  /\ MaxRounds \in Nat \ {0}
  /\ Room \in [Experts -> Nat \ {0}]
  /\ MaxTalks \in Nat
  /\ MaxReviews \in Nat
  /\ Blank \notin Names \cup {Empty, None}
  /\ Empty \notin Names \cup {None}
  /\ \A k \in 1 .. 3 * MaxRounds : New(k) \notin Names \cup {Blank, Empty}

VARIABLES
  talk,        \* CoreAgent.plan: number of the call, round and stage
  transcript,  \* its transcript, without the requests (they propose nothing)
  call,        \* the request to each expert, as the Core sees it
  reply,       \* the answer of each expert, until the Core reads both
  queued,      \* analyses waiting for room in the services
  running      \* analyses under way there

vars == <<talk, transcript, call, reply, queued, running>>

-----------------------------------------------------------------------------
AtMost(n, S) == {T \in SUBSET S : Cardinality(T) <= n}

Repeats(ids) == \E i, j \in DOMAIN ids : i # j /\ ids[i] = ids[j]

Has(ids, S) == \E i \in DOMAIN ids : ids[i] \in S

\* The proposals of the messages of some senders, by position and id.
References(senders) ==
  UNION {{<<k, transcript[k].proposals[i]>> : i \in DOMAIN transcript[k].proposals} :
         k \in {n \in DOMAIN transcript : transcript[n].from \in senders}}

Everyone == Experts \cup {"core"}

Message(from, ids, reviews, asks) ==
  [from |-> from, proposals |-> ids, reviews |-> reviews, asks |-> asks]

Active == talk.stage \in {"asking", "deciding"}

\* The analysis of the request the Core is waiting for.
Analysis(e) == [by |-> e, nr |-> talk.nr, round |-> talk.round]

Waiting(e) == talk.stage = "asking" /\ call[e] \in {"sent", "taken"}

Heard(a) == Waiting(a.by) /\ a = Analysis(a.by)

\* What a model may call the proposals of a message (the bound: two of them at most,
\* and two only with the same name).
Lists == {<<>>} \cup {<<a>> : a \in Names \cup {Blank, Empty}} \cup {<<a, a>> : a \in Names}

-----------------------------------------------------------------------------
(* The Human service: POST /discuss, map_discussion, _analyze.             *)

\* Bug: a message may call two proposals the same.
HumanRefusesBlank == \E k \in DOMAIN transcript : Has(transcript[k].proposals, {Blank, Empty})

\* A proposal of the history without a name, or two of one message with the same.
HumanRefuses ==
  \E k \in DOMAIN transcript :
    Has(transcript[k].proposals, {Blank, Empty}) \/ Repeats(transcript[k].proposals)

\* Recommendations get ids of their own; the model's reviews are those of references
\* without repetition, or the request degrades and fails.
HumanReplies ==
  [from : {"human"}, proposals : {<<>>, <<New(Len(transcript) + 2)>>},
   reviews : AtMost(MaxReviews, References(Everyone)), asks : {TRUE}]

-----------------------------------------------------------------------------
(* The Plant service: POST /discuss, DiscussInput, discuss.                *)

\* A question has text; what is asked in the first round always has.
PlantRefuses == transcript # <<>> /\ ~transcript[Len(transcript)].asks

\* Bug: a name of white space is a name.
NamedLoosely(ids) == ~Has(ids, {Empty}) /\ ~Repeats(ids)

\* The schemas of a draft: names that are not blank or repeated.
Named(ids) == ~Has(ids, {Blank, Empty}) /\ ~Repeats(ids)

\* A draft of the model, whose proposals are not called like any of the history.
PlantDrafts ==
  LET allowed == References(Everyone)
  IN [from : {"plant"},
      proposals : {l \in Lists : Named(l) /\ ~Has(l, {r[2] : r \in allowed})},
      reviews : AtMost(MaxReviews, {r \in allowed : r[2] \notin {Blank, Empty}}),
      asks : {TRUE}]

\* conflict_response, when the rules of the Core are not those of the service: it
\* comes back to the last proposals of its own.
PlantConflict ==
  LET own == References({"plant"})
      last == {r \in own : \A s \in own : s[1] <= r[1]}
  IN [from : {"plant"}, proposals : {<<New(Len(transcript) + 1)>>},
      reviews : IF last = {} THEN {{}} ELSE {{r} : r \in last}, asks : {TRUE}]

Replies(e) == IF e = "human" THEN HumanReplies ELSE PlantDrafts \cup PlantConflict

Refuses(e) == IF e = "human" THEN HumanRefuses ELSE PlantRefuses

-----------------------------------------------------------------------------
(* A request in a service.                                                 *)

Receive(e) ==
  /\ talk.stage = "asking"
  /\ call[e] = "sent"
  /\ IF Refuses(e) THEN call' = [call EXCEPT ![e] = "refused"] /\ UNCHANGED queued
     ELSE call' = [call EXCEPT ![e] = "taken"] /\ queued' = queued \cup {Analysis(e)}
  /\ UNCHANGED <<talk, transcript, reply, running>>

Start(a) ==
  /\ a \in queued
  /\ Cardinality({b \in running : b.by = a.by}) < Room[a.by]
  /\ queued' = queued \ {a}
  /\ running' = running \cup {a}
  /\ UNCHANGED <<talk, transcript, call, reply>>

Answer(e) ==
  /\ Analysis(e) \in running
  /\ talk.stage = "asking"
  /\ call[e] = "taken"
  /\ \E m \in Replies(e) : reply' = [reply EXCEPT ![e] = m]
  /\ call' = [call EXCEPT ![e] = "answered"]
  /\ running' = running \ {Analysis(e)}
  /\ UNCHANGED <<talk, transcript, queued>>

\* A provider fails or the model's output is refused (502, 503), or the deadline of
\* the request passes, in the queue as well (504).  The deadline of the Plant service
\* does not end the thread that works on it.
Fail(e) ==
  /\ Waiting(e)
  /\ Analysis(e) \in queued \cup running
  /\ call' = [call EXCEPT ![e] = "failed"]
  /\ queued' = queued \ {Analysis(e)}
  /\ running' \in IF e = "plant" THEN {running, running \ {Analysis(e)}}
                  ELSE {running \ {Analysis(e)}}
  /\ UNCHANGED <<talk, transcript, reply>>

\* Bug: the analysis that already has its slot is not cancelled.
LeaveQueue(a) ==
  /\ a \in queued
  /\ ~Heard(a)
  /\ queued' = queued \ {a}
  /\ UNCHANGED <<talk, transcript, call, reply, running>>

\* Nobody waits any more.  Human notices the closed connection and cancels its work;
\* a Plant thread ends when its provider has answered or timed out.
Leave(a) ==
  /\ a \in queued \cup running
  /\ ~Heard(a)
  /\ queued' = queued \ {a}
  /\ running' = running \ {a}
  /\ UNCHANGED <<talk, transcript, call, reply>>

-----------------------------------------------------------------------------
(* CoreAgent.plan.                                                         *)

ServicesUnchanged == UNCHANGED <<queued, running>>

Unanswered == [e \in Experts |-> None]

Ask(nr, round) ==
  /\ talk' = [nr |-> nr, round |-> round, stage |-> "asking"]
  /\ call' = [e \in Experts |-> "sent"]
  /\ reply' = Unanswered

Enter(stage, messages) ==
  /\ talk' = [talk EXCEPT !.stage = stage]
  /\ transcript' = messages
  /\ reply' = Unanswered
  /\ UNCHANGED call

\* An exception: what was said is not returned.
Drop(stage) == Enter(stage, <<>>)

Begin ==
  /\ ~Active
  /\ talk.nr < MaxTalks
  /\ Ask(talk.nr + 1, 1)
  /\ transcript' = <<>>
  /\ ServicesUnchanged

\* asyncio.wait_for around the request.
CoreTimesOut(e) ==
  /\ Waiting(e)
  /\ call' = [call EXCEPT ![e] = "failed"]
  /\ UNCHANGED <<talk, transcript, reply>>
  /\ ServicesUnchanged

\* The Core's own check of a reply.
Usable(e) ==
  call[e] = "answered" /\ ~Has(reply[e].proposals, {Empty}) /\ ~Repeats(reply[e].proposals)

\* Bug: the round waits for two answers.
GatherAnswers ==
  /\ talk.stage = "asking"
  /\ \A e \in Experts : call[e] = "answered"
  /\ Enter("deciding", Append(Append(transcript, reply["plant"]), reply["human"]))
  /\ ServicesUnchanged

\* Both requests have ended.  The replies are read in the order plant, human; one that
\* is missing or unusable ends the discussion.
Gather ==
  /\ talk.stage = "asking"
  /\ \A e \in Experts : ~Waiting(e)
  /\ IF \A e \in Experts : Usable(e)
     THEN Enter("deciding", Append(Append(transcript, reply["plant"]), reply["human"]))
     ELSE Drop("failed")
  /\ ServicesUnchanged

\* A decision of the model that passes the checks.  It may review what the experts
\* proposed; the names of its own proposals are not looked at, nor its questions.  A
\* final one has a plan (validate_plan); in the last round nothing else will do.
Decide ==
  /\ talk.stage = "deciding"
  /\ \E ids \in Lists, asks \in BOOLEAN, final \in BOOLEAN,
        reviews \in AtMost(MaxReviews, References(Experts)) :
       LET said == Append(transcript, Message("core", ids, reviews, asks))
       IN IF final THEN Enter("planned", said)
          ELSE IF talk.round = MaxRounds THEN Drop("failed")
          ELSE Ask(talk.nr, talk.round + 1) /\ transcript' = said
  /\ ServicesUnchanged

\* The model is late or fails, or its decision is refused.
DecideFails ==
  /\ talk.stage = "deciding"
  /\ Drop("failed")
  /\ ServicesUnchanged

\* The caller has no use for the plan any more (AgentBridge._decide).
Cancel ==
  /\ Active
  /\ Drop("cancelled")
  /\ ServicesUnchanged

-----------------------------------------------------------------------------
Init ==
  /\ talk = [nr |-> 0, round |-> 1, stage |-> "cancelled"]
  /\ transcript = <<>>
  /\ call = [e \in Experts |-> "failed"]
  /\ reply = Unanswered
  /\ queued = {}
  /\ running = {}

Analyses == [by : Experts, nr : 1 .. MaxTalks, round : 1 .. MaxRounds]

Vacate(e) == \E a \in Analyses : a.by = e /\ Leave(a)

Service ==
  \/ \E e \in Experts : Receive(e) \/ Answer(e) \/ Fail(e) \/ Vacate(e)
  \/ \E a \in Analyses : Start(a)

Core == Begin \/ Gather \/ Decide \/ DecideFails \/ Cancel \/ \E e \in Experts : CoreTimesOut(e)

Next == Service \/ Core

Spec == Init /\ [][Next]_vars

\* Time passes for the Core's timeouts and in the services.  Nothing is assumed of the
\* experts' or the Core's model.
FairSpec ==
  /\ Spec
  /\ WF_vars(Gather)
  /\ WF_vars(Decide \/ DecideFails)
  /\ \A e \in Experts : WF_vars(CoreTimesOut(e)) /\ WF_vars(Vacate(e))

-----------------------------------------------------------------------------
(* Properties.                                                             *)

\* In a discussion that led to a plan every review, of whomever, leads to exactly one
\* proposal, of an earlier message.  Only the Human service looks at the ids of the
\* Core's proposals, and nobody at those of its last decision.
ReviewsResolve ==
  talk.stage = "planned" =>
    \A k \in DOMAIN transcript : \A r \in transcript[k].reviews :
      /\ r[1] < k
      /\ Cardinality({i \in DOMAIN transcript[r[1]].proposals :
                        transcript[r[1]].proposals[i] = r[2]}) = 1

\* When a service refuses to take part, the history it is shown contains a decision of
\* the Core that is to blame: neither of them can make the other refuse.
RefusalIsCoresOwn ==
  talk.stage = "asking" /\ (\E e \in Experts : call[e] = "refused") =>
    \E k \in DOMAIN transcript :
      LET m == transcript[k]
      IN /\ m.from = "core"
         /\ ~m.asks \/ Has(m.proposals, {Blank, Empty}) \/ Repeats(m.proposals)

\* A discussion ends, whatever the models and the services do.
DiscussionEnds == Active ~> ~Active

\* A service has no room, and all of it is held by analyses nobody waits for.
Wasted(e) ==
  LET held == {a \in running : a.by = e}
  IN Cardinality(held) = Room[e] /\ \A a \in held : ~Heard(a)

\* Room comes back to a service, whoever left it without waiting for the answer.
RoomReturns == \A e \in Experts : Wasted(e) ~> ~Wasted(e)

=============================================================================
