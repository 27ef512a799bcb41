------------------------------ MODULE HumanAdvice ------------------------------
(***************************************************************************)
(* One request to the Human service (human_agent/app): the plan it takes   *)
(* as its baseline, the retrieval every analysis begins with, the rounds   *)
(* in which a model calls tools, and what is published in the end.  A live *)
(* model may write anything; what it writes is checked when it arrives and *)
(* again when it is used, and each slip has to show in the answer.         *)
(*                                                                         *)
(* Requests share nothing that is modelled here, so a behaviour is that of *)
(* one.  How requests wait for a slot and are abandoned is in Council, and *)
(* what an audit computes in PlanAudit: here an audit is its verdict.  The *)
(* plots of a snapshot are given, as they always are in a discussion.      *)
(***************************************************************************)
EXTENDS Naturals, Sequences, FiniteSets

CONSTANTS
  Crew, Plots,   \* ids of the snapshot
  Strange,       \* an id or a citation that does not exist
  None,          \* null
  MaxCalls,      \* max_llm_calls (4)
  MaxTools,      \* max_tool_calls (8)
  MaxAdvice,     \* proposals of a final answer (3)
  Drafts,        \* bound: the plans that are supplied or written
  Chunks,        \* ids of the corpus
  RuleText,      \* ids of the rules and conversions every answer comes with
  Proposals,     \* bound: the proposals a model writes
  Pairs,         \* message and proposal ids of the history
  Reviewed,      \* bound: the lists of reviews a model writes
  MaxBatch       \* bound: tool calls in one message of the model

Occupations == {"idle", "eat", "drink", "generate", "plant", "harvest", "clear"}
Field == {"plant", "harvest", "clear"}

Task == [crew : Crew \cup {Strange}, kind : Occupations, plot : Plots \cup {Strange, None}]

\* A plan, also one that is not fit to be one: the tick it is for counts from the
\* snapshot, so 1 is the next one.
Plan ==
  [tick : Nat, tasks : Seq(Task), refills : Seq(Crew \cup {Strange}),
   field : Seq(Crew \cup {Strange}), water : Seq(Plots \cup {Strange}) \cup {None}]

Kinds == {"eat", "drink", "adjust_generation", "adjust_water_production",
          "reserve_crew_for_refill", "request_plant_review"}

Proposal ==
  [kind : Kinds, targets : SUBSET (Crew \cup {Strange}), rules : BOOLEAN,
   cites : SUBSET (Chunks \cup RuleText \cup {Strange}),
   plan : Drafts \cup {None}, audit : Drafts \cup {Strange, None}]

ASSUME AdviceAssumption ==
  /\ IsFiniteSet(Crew) /\ Strange \notin Crew \cup Plots \cup Chunks \cup RuleText
  /\ None \notin Drafts /\ Strange \notin Drafts
  /\ Chunks \cap RuleText = {}
  /\ Drafts \subseteq Plan
  /\ Proposals \subseteq Proposal
  /\ MaxCalls \in Nat \ {0} /\ MaxTools \in Nat \ {0} /\ MaxAdvice \in Nat
  /\ MaxBatch \in Nat \ {0}

VARIABLES
  service,    \* settings and what the Retriever loaded: both outlive a request
  request,    \* the snapshot in hand, with the baseline plan chosen for it
  phase,      \* where the analysis stands
  calls,      \* llm_calls
  tools,      \* tool_count
  left,       \* tool calls of the last message still to be made
  audits,     \* audits: the verdict on each plan the tool has audited
  evidence,   \* ids of the evidence gathered
  retrieval,  \* out['retrieval']
  degraded,   \* the flag
  reply,      \* the answer
  slips,      \* history: what went wrong during the request
  used        \* history: the modes of its retrievals

work == <<calls, tools, left, audits, evidence, retrieval, degraded, slips, used>>
vars == <<service, request, phase, work, reply>>

-----------------------------------------------------------------------------
(* Plans: Plan.order_valid and AnalyzeRequest.references, read_core_plan   *)
(* and validate_candidate.                                                 *)

Repeats(s) == \E i, j \in DOMAIN s : i # j /\ s[i] = s[j]

Elements(s) == {s[i] : i \in DOMAIN s}

Busy(plan, kinds) == {t.crew : t \in {u \in Elements(plan.tasks) : u.kind \in kinds}}

Lists(order, crew) == ~Repeats(order) /\ Elements(order) = crew

IsPlan(plan) ==
  /\ Len(plan.tasks) = Cardinality(Crew)
  /\ Cardinality(Busy(plan, Occupations)) = Cardinality(Crew)
  /\ Lists(plan.refills, Busy(plan, {"eat", "drink"}))
  /\ Lists(plan.field, Busy(plan, Field))
  /\ plan.water # None => ~Repeats(plan.water)

Named(plan) ==
  {t.plot : t \in {u \in Elements(plan.tasks) : u.kind \in Field}}
    \cup (IF plan.water = None THEN {} ELSE Elements(plan.water))

Fits(plan) ==
  /\ IsPlan(plan)
  /\ plan.tick = 1
  /\ Busy(plan, Occupations) = Crew
  /\ Named(plan) \subseteq Plots

\* A plan that is declared the next one is taken or the request refused.  Of the raw
\* plans in the world and in the message, two different ones are both left aside.
Baseline(next, raw) ==
  IF next # None THEN next
  ELSE IF \E plan \in raw : raw = {plan} /\ Fits(plan)
       THEN CHOOSE plan \in raw : TRUE ELSE None

\* Bug: the order of the field work is compared, not the work itself.
AuthorisedByOrder(plan) ==
  /\ request.plan # None /\ ~request.failed
  /\ Fits(plan)
  /\ plan.water = request.plan.water
  /\ plan.field = request.plan.field

FieldWork(plan) == {t \in Elements(plan.tasks) : t.kind \in Field}

Authorised(plan) ==
  /\ request.plan # None /\ ~request.failed
  /\ Fits(plan)
  /\ plan.water = request.plan.water
  /\ plan.field = request.plan.field
  /\ FieldWork(plan) = FieldWork(request.plan)

-----------------------------------------------------------------------------
(* Retriever.retrieve.                                                     *)

Wanted == service.wanted

\* post_json: a provider that is busy is asked again, up to three times.  Whether it
\* has served is all that is kept of its answers.
Served(answers) ==
  \E n \in DOMAIN answers :
    answers[n] = "served" /\ \A m \in 1 .. n - 1 : answers[m] = "busy"

Outcomes == {Served(answers) : answers \in [1 .. 3 -> {"served", "busy", "refused"}]}

\* The vector of the query comes from the provider, or from the cache of queries.
Dense(ok) == Wanted = "dense" /\ service.mode = "live" /\ service.dense /\ ok

MayBeLexical == Wanted = "bm25" \/ service.fallback = "bm25" \/ service.mode = "mock"

Lexical == service.lexical /\ MayBeLexical

Reasons(ok) ==
  {r \in {"mock_offline_bm25", "dense_missing", "provider", "bm25_missing"} :
     \/ r = "mock_offline_bm25" /\ Wanted = "dense" /\ service.mode = "mock"
     \/ r = "dense_missing" /\ Wanted = "dense" /\ service.mode = "live" /\ ~service.dense
     \/ r = "provider" /\ Wanted = "dense" /\ service.mode = "live" /\ service.dense /\ ~ok
     \/ r = "bm25_missing" /\ ~Dense(ok) /\ ~service.lexical /\ MayBeLexical}

\* Without a common word nothing is found, whatever the vectors say, and the two
\* rankings are not fused.
Mode(ok, overlap) ==
  IF Dense(ok)
  THEN IF service.lexical /\ service.fallback = "bm25" /\ overlap THEN "mixed" ELSE "dense"
  ELSE IF Lexical THEN "bm25" ELSE "none"

Info(ok, overlap) == [mode |-> Mode(ok, overlap), reasons |-> Reasons(ok)]

\* Bug: the last retrieval alone is told.
MergedLatest(previous, info) == info

Merged(previous, info) ==
  [mode |-> IF previous.mode \notin {"not_used", "none", info.mode} /\ info.mode # "none"
            THEN "mixed" ELSE info.mode,
   reasons |-> IF info.reasons = {} THEN previous.reasons ELSE info.reasons]

Found(ok, overlap) ==
  IF overlap /\ Mode(ok, overlap) # "none" THEN SUBSET Chunks ELSE {{}}

\* A query on one of two subjects of the game is answered with rules instead.
Routed == UNCHANGED <<evidence, retrieval, degraded, slips, used>>

Searched(ok, overlap) ==
  LET info == Info(ok, overlap)
      fell == service.mode = "live" /\ info.reasons # {}
  IN /\ \E found \in Found(ok, overlap) : evidence' = evidence \cup found
     /\ retrieval' = Merged(retrieval, info)
     /\ degraded' = (degraded \/ fell)
     /\ slips' = IF fell THEN slips \cup {"fallback"} ELSE slips
     /\ used' = used \cup {info.mode}

Retrieved(routed) ==
  IF routed THEN Routed
  ELSE \E ok \in Outcomes, overlap \in BOOLEAN : Searched(ok, overlap)

-----------------------------------------------------------------------------
(* proposal_output and the check of the notes of a discussion.             *)

Verdicts == {"feasible_in_scope", "fatal_in_scope", "unsafe_in_scope", "incomplete"}

\* An audit id is a digest of the snapshot and the plan: it names the plan.
Candidate(p) == IF p.plan = None THEN p.audit ELSE p.plan

Acceptable(p) ==
  LET plan == Candidate(p)
  IN /\ p.targets \subseteq Crew
     /\ p.rules
     /\ p.cites \subseteq evidence
     /\ plan # None => /\ plan \in DOMAIN audits
                       /\ Authorised(plan)
                       /\ p.audit \in {None, plan}

Feasibility(p) ==
  IF p.kind = "request_plant_review" THEN "requires_core_coordination"
  ELSE IF Candidate(p) = None THEN "unverified"
  ELSE CASE audits[Candidate(p)] = "feasible_in_scope" -> "verified_for_audited_scope"
         [] audits[Candidate(p)] = "incomplete" -> "unverified"
         [] audits[Candidate(p)] \in {"fatal_in_scope", "unsafe_in_scope"} -> "infeasible"

Recommendation(p) ==
  [kind |-> p.kind, plan |-> Candidate(p), cites |-> p.cites, feasibility |-> Feasibility(p)]

Notes == [cites : SUBSET (Chunks \cup RuleText \cup {Strange}), reviews : Reviewed]

NotesResolve(n) ==
  /\ ~Repeats(n.reviews) /\ Elements(n.reviews) \subseteq Pairs
  /\ n.cites \subseteq evidence

-----------------------------------------------------------------------------
(* The answer.  A degraded analysis of the Core's question is an error to  *)
(* the Core (main.discuss); /human-agent/analyze returns it as it is.      *)

Services ==
  [mode : {"live", "mock"}, wanted : {"dense", "bm25"}, fallback : {"bm25", "none"},
   dense : BOOLEAN, lexical : BOOLEAN]

Fresh == [mode |-> "not_used", reasons |-> {}]

NoReply == [code |-> 0, mode |-> "none", advice |-> {}, notes |-> None]

\* Nothing has arrived yet, or all is said.
Idle == phase = "idle"
AtWork == phase \notin {"idle", "answered"}

Publish(mode, advice, notes) ==
  /\ reply' = IF request.to = "discuss" /\ mode = "degraded"
              THEN [NoReply EXCEPT !.code = 502, !.mode = mode]
              ELSE [code |-> 200, mode |-> mode, advice |-> advice, notes |-> notes]
  /\ phase' = "answered"
  /\ UNCHANGED <<service, request>>

\* The end of run() without an exception.
Return(advice, notes, flag) ==
  Publish(IF flag /\ service.mode = "live" THEN "degraded" ELSE service.mode, advice, notes)

\* The end of run() with one.
Raise(what) ==
  /\ Publish("degraded", {}, None)
  /\ slips' = slips \cup {what}
  /\ UNCHANGED <<calls, tools, left, audits, evidence, retrieval, degraded, used>>

-----------------------------------------------------------------------------
(* The handlers.                                                           *)

Init ==
  /\ service \in Services
  /\ request = [to |-> "analyze", plan |-> None, failed |-> FALSE, low |-> FALSE]
  /\ phase = "idle"
  /\ calls = 0 /\ tools = 0 /\ left = 0
  /\ audits = <<>>
  /\ evidence = RuleText
  /\ retrieval = Fresh
  /\ degraded = FALSE
  /\ reply = NoReply
  /\ slips = {} /\ used = {}

\* analyze_baseline comes with the request.  Without recommendations it is all there is.
Receive(to, next, raw, failed, low, full) ==
  /\ Idle
  /\ to = "analyze" => raw = {}
  /\ to = "discuss" => full
  /\ next \in {None} \cup {plan \in Drafts : Fits(plan)}
  /\ request' = [to |-> to, plan |-> Baseline(next, raw), failed |-> failed, low |-> low]
  /\ phase' = IF full THEN "retrieving" ELSE "answered"
  /\ reply' = IF full THEN NoReply ELSE [NoReply EXCEPT !.code = 200, !.mode = "deterministic"]
  /\ UNCHANGED <<service, work>>

\* 422: the declared plan is none, or not one for this snapshot.
Refuse(next) ==
  /\ Idle
  /\ next # None /\ ~Fits(next)
  /\ reply' = [NoReply EXCEPT !.code = 422]
  /\ phase' = "answered"
  /\ UNCHANGED <<service, request, work>>

\* The retrieval no model has to ask for; the Core's question is part of its query.
Retrieve(routed) ==
  /\ phase = "retrieving"
  /\ routed => request.to = "discuss"
  /\ tools' = tools + 1
  /\ Retrieved(routed)
  /\ phase' = "ready"
  /\ UNCHANGED <<service, request, reply, calls, left, audits>>

\* A failed world gets no advice, also not from a model.
StopAtFailure ==
  /\ phase = "ready" /\ request.failed
  /\ Return({}, None, degraded)
  /\ UNCHANGED work

\* The scripted advice of the mock, by the same checks.
Script ==
  /\ phase = "ready" /\ ~request.failed /\ service.mode = "mock"
  /\ Return(IF request.low
            THEN {[kind |-> "reserve_crew_for_refill", plan |-> None, cites |-> {},
                   feasibility |-> "unverified"]}
            ELSE {},
            IF request.to = "discuss" THEN [cites |-> {}, reviews |-> <<>>] ELSE None,
            degraded)
  /\ UNCHANGED work

Ask ==
  /\ phase = "ready" /\ ~request.failed /\ service.mode = "live"
  /\ phase' = "asking"
  /\ UNCHANGED <<service, request, reply, work>>

LlmCalls(n) ==
  /\ phase = "asking" /\ calls < MaxCalls
  /\ calls' = calls + 1
  /\ left' = n
  /\ phase' = "calling"
  /\ UNCHANGED <<service, request, reply, tools, audits, evidence, retrieval, degraded,
                 slips, used>>

\* No answer, or one that is not JSON of the schema, or notes that do not resolve.
LlmFails == phase = "asking" /\ calls < MaxCalls /\ Raise("model")

\* A final answer whose notes resolve.  Advice that is not acceptable is left out.
LlmAnswers(advice, notes) ==
  LET good == {p \in advice : Acceptable(p)}
      flag == degraded \/ good # advice
  IN /\ phase = "asking" /\ calls < MaxCalls
     /\ \A p \in advice : p.plan # None => IsPlan(p.plan)
     /\ (notes = None) = (request.to = "analyze")
     /\ calls' = calls + 1
     /\ degraded' = flag
     /\ slips' = IF good # advice THEN slips \cup {"proposal"} ELSE slips
     /\ Return({Recommendation(p) : p \in good}, notes, flag)
     /\ UNCHANGED <<tools, left, audits, evidence, retrieval, used>>

OutOfCalls == phase = "asking" /\ calls = MaxCalls /\ Raise("budget")

ToolCall ==
  /\ phase = "calling"
  /\ left' = left - 1
  /\ phase' = IF left = 1 THEN "asking" ELSE "calling"
  /\ UNCHANGED <<service, request, reply, calls>>

CallRules ==
  /\ ToolCall /\ tools < MaxTools
  /\ tools' = tools + 1
  /\ UNCHANGED <<audits, evidence, retrieval, degraded, slips, used>>

CallRetrieval(routed) ==
  /\ ToolCall /\ tools < MaxTools
  /\ tools' = tools + 1
  /\ Retrieved(routed)
  /\ UNCHANGED audits

\* The same plan on the same snapshot has the same verdict.
CallAudit(plan, verdict) ==
  /\ ToolCall /\ tools < MaxTools
  /\ Authorised(plan)
  /\ plan \in DOMAIN audits => verdict = audits[plan]
  /\ tools' = tools + 1
  /\ audits' = [p \in DOMAIN audits \cup {plan} |-> IF p = plan THEN verdict ELSE audits[p]]
  /\ UNCHANGED <<evidence, retrieval, degraded, slips, used>>

\* Bug: a refused input is told to the model only.
CallRefusedQuietly ==
  /\ ToolCall
  /\ tools' \in {tools} \cup (IF tools < MaxTools THEN {tools + 1} ELSE {})
  /\ slips' = slips \cup {"input"}
  /\ UNCHANGED <<audits, evidence, retrieval, degraded, used>>

\* Arguments that are not JSON (they do not count), of another shape, or a plan that is
\* none or not authorised.  The model is told and goes on.
CallRefused ==
  /\ ToolCall
  /\ tools' \in {tools} \cup (IF tools < MaxTools THEN {tools + 1} ELSE {})
  /\ degraded' = TRUE
  /\ slips' = slips \cup {"input"}
  /\ UNCHANGED <<audits, evidence, retrieval, used>>

OutOfTools == phase = "calling" /\ tools = MaxTools /\ Raise("budget")

\* The deadline of the analysis, or that of the handler around it.
Deadline ==
  /\ AtWork
  /\ \/ Raise("deadline")
     \/ /\ request.to = "discuss"
        /\ reply' = [NoReply EXCEPT !.code = 504]
        /\ phase' = "answered"
        /\ slips' = slips \cup {"deadline"}
        /\ UNCHANGED <<service, request, calls, tools, left, audits, evidence, retrieval,
                       degraded, used>>

AtMost(n, S) == {T \in SUBSET S : Cardinality(T) <= n}

Next ==
  \/ \E to \in {"analyze", "discuss"}, next \in Drafts \cup {None}, raw \in AtMost(2, Drafts),
        failed, low, full \in BOOLEAN : Receive(to, next, raw, failed, low, full)
  \/ \E next \in Drafts : Refuse(next)
  \/ \E routed \in BOOLEAN : Retrieve(routed)
  \/ StopAtFailure \/ Script \/ Ask
  \/ \E n \in 1 .. MaxBatch : LlmCalls(n)
  \/ \E notes \in {None} \cup {n \in Notes : NotesResolve(n)} :
       \E advice \in AtMost(MaxAdvice, Proposals) : LlmAnswers(advice, notes)
  \/ LlmFails \/ OutOfCalls
  \/ CallRules \/ CallRefused \/ OutOfTools
  \/ \E routed \in BOOLEAN : CallRetrieval(routed)
  \/ \E plan \in Drafts, verdict \in Verdicts : CallAudit(plan, verdict)
  \/ Deadline

Spec == Init /\ [][Next]_vars

-----------------------------------------------------------------------------
(* Properties.                                                             *)

\* What the Core is told is verified was audited in this request, kills no plant and
\* nobody, and is a plan of the next tick that leaves the field work, its order and the
\* water of the Core's own plan alone.
VerifiedWasAudited ==
  \A r \in reply.advice : r.feasibility = "verified_for_audited_scope" =>
    /\ ~request.failed /\ request.plan # None
    /\ r.plan \in DOMAIN audits /\ audits[r.plan] = "feasible_in_scope"
    /\ Fits(r.plan)
    /\ r.plan.water = request.plan.water
    /\ \A i \in Crew, kind \in Field, p \in Plots :
         LET does(plan) == [crew |-> i, kind |-> kind, plot |-> p] \in Elements(plan.tasks)
         IN does(r.plan) <=> does(request.plan)

\* An answer that calls itself live had no slip on its way: no retrieval fell back, and
\* nothing the model wrote was refused.
LiveIsUndegraded == reply.mode = "live" => slips = {}

\* The retrieval that is told covers all that were made: after one that fell back there
\* is a reason, and evidence of two methods is not told as that of one.
RetrievalIsTold ==
  /\ "fallback" \in slips => retrieval.reasons # {}
  /\ retrieval.mode \in {"dense", "bm25"} => used \subseteq {retrieval.mode, "none"}
  /\ retrieval.mode = "not_used" => used = {}

=============================================================================
