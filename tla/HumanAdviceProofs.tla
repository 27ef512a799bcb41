--------------------------- MODULE HumanAdviceProofs ---------------------------
(***************************************************************************)
(* What the Human service publishes: for every crew, greenhouse and        *)
(* corpus, every budget of calls and whatever a model writes.              *)
(***************************************************************************)
EXTENDS HumanAdvice, TLAPS

\* Before the answer nothing is published, and before the request nothing has happened.
Unpublished ==
  /\ phase # "answered" => reply.advice = {} /\ reply.mode = "none"
  /\ phase = "idle" => DOMAIN audits = {} /\ slips = {}

\* The tool audits authorised plans only.
AuditsAuthorised ==
  \A plan \in DOMAIN audits : Authorised(plan) /\ audits[plan] \in Verdicts

\* A slip leaves a mark until the answer is written.
SlipsShow == phase # "answered" /\ slips # {} => degraded

FallbackIsTold == "fallback" \in slips => retrieval.reasons # {}

\* What a service can search with does not change, and what is told is what was used.
Methods ==
  /\ used \subseteq IF Lexical THEN {"mixed", "dense", "bm25"} ELSE {"dense", "none"}
  /\ retrieval.mode \in used \cup {"mixed", "not_used"}
  /\ retrieval.mode \in {"dense", "bm25"} => used \subseteq {retrieval.mode, "none"}
  /\ retrieval.mode = "not_used" => used = {}

Inv ==
  /\ service \in Services
  /\ Unpublished
  /\ AuditsAuthorised
  /\ SlipsShow
  /\ FallbackIsTold
  /\ Methods
  /\ VerifiedWasAudited
  /\ LiveIsUndegraded

LEMMA Initial == Init => Inv
<1> SUFFICES ASSUME Init PROVE Inv
  OBVIOUS
<1> USE DEF Init
<1>1. DOMAIN audits = {} /\ reply.advice = {} /\ reply.mode = "none"
  BY DEF NoReply
<1>2. Unpublished /\ AuditsAuthorised /\ SlipsShow /\ FallbackIsTold
  BY <1>1 DEF Unpublished, AuditsAuthorised, SlipsShow, FallbackIsTold
<1>3. Methods
  BY DEF Methods, Fresh
<1>4. VerifiedWasAudited /\ LiveIsUndegraded
  BY <1>1 DEF VerifiedWasAudited, LiveIsUndegraded
<1> QED BY <1>2, <1>3, <1>4 DEF Inv

-----------------------------------------------------------------------------
(* Steps by what they touch.                                               *)

\* A step that answers: the notes and the records it leaves are those it found.
LEMMA Publishing ==
  ASSUME Inv, phase # "answered", phase' = "answered",
         UNCHANGED <<service, request, audits, retrieval, used>>,
         slips' \subseteq slips \cup {"model", "budget", "deadline", "proposal"},
         reply'.mode = "live" => slips' = {},
         \A r \in reply'.advice : r.feasibility = "verified_for_audited_scope" =>
           r.plan \in DOMAIN audits /\ audits[r.plan] = "feasible_in_scope"
  PROVE  Inv'
<1>1. Unpublished' /\ SlipsShow'
  BY DEF Unpublished, SlipsShow
<1>2. AuditsAuthorised'
  BY DEF Inv, AuditsAuthorised, Authorised
<1>3. FallbackIsTold'
  BY DEF Inv, FallbackIsTold
<1>4. Methods'
  BY DEF Inv, Methods, Lexical, MayBeLexical, Wanted
<1>5. LiveIsUndegraded'
  BY DEF LiveIsUndegraded
<1>6. VerifiedWasAudited'
  <2> SUFFICES ASSUME NEW r \in reply'.advice, r.feasibility = "verified_for_audited_scope"
               PROVE  /\ ~request.failed /\ request.plan # None
                      /\ r.plan \in DOMAIN audits /\ audits[r.plan] = "feasible_in_scope"
                      /\ Fits(r.plan)
                      /\ r.plan.water = request.plan.water
                      /\ \A i \in Crew, kind \in Field, p \in Plots :
                           LET does(plan) == [crew |-> i, kind |-> kind, plot |-> p]
                                               \in Elements(plan.tasks)
                           IN does(r.plan) <=> does(request.plan)
    BY DEF VerifiedWasAudited
  <2>1. r.plan \in DOMAIN audits /\ audits[r.plan] = "feasible_in_scope"
    OBVIOUS
  <2>2. Authorised(r.plan)
    BY <2>1 DEF Inv, AuditsAuthorised
  <2>3. FieldWork(r.plan) = FieldWork(request.plan)
    BY <2>2 DEF Authorised
  <2>4. ASSUME NEW i \in Crew, NEW kind \in Field, NEW p \in Plots
        PROVE  LET does(plan) == [crew |-> i, kind |-> kind, plot |-> p]
                                   \in Elements(plan.tasks)
               IN does(r.plan) <=> does(request.plan)
    <3> DEFINE t == [crew |-> i, kind |-> kind, plot |-> p]
    <3>1. t.kind \in Field
      OBVIOUS
    <3>2. \A plan : t \in Elements(plan.tasks) <=> t \in FieldWork(plan)
      BY <3>1 DEF FieldWork
    <3> QED BY <2>3, <3>2
  <2> QED BY <2>1, <2>2, <2>4 DEF Authorised
<1> QED BY <1>1, <1>2, <1>3, <1>4, <1>5, <1>6 DEF Inv

\* A step on the way to the answer that searches nothing.
LEMMA Working ==
  ASSUME Inv, phase \notin {"idle", "answered"}, phase' \notin {"idle", "answered"},
         UNCHANGED <<service, request, reply, retrieval, used>>,
         \A plan \in DOMAIN audits' : Authorised(plan) /\ audits'[plan] \in Verdicts,
         slips' \subseteq slips \cup {"input"},
         slips' # {} => degraded'
  PROVE  Inv'
<1>1. Unpublished'
  BY DEF Inv, Unpublished
<1>2. AuditsAuthorised'
  BY DEF Inv, AuditsAuthorised, Authorised
<1>3. SlipsShow' /\ FallbackIsTold'
  BY DEF Inv, SlipsShow, FallbackIsTold
<1>4. Methods'
  BY DEF Inv, Methods, Lexical, MayBeLexical, Wanted
<1>5. LiveIsUndegraded' /\ VerifiedWasAudited'
  BY DEF Inv, Unpublished, LiveIsUndegraded, VerifiedWasAudited
<1> QED BY <1>1, <1>2, <1>3, <1>4, <1>5 DEF Inv

\* What is told of a retrieval covers the ones before it.
LEMMA Searching ==
  ASSUME Inv, NEW ok, NEW overlap, Searched(ok, overlap)
  PROVE  /\ FallbackIsTold'
         /\ (service' = service => Methods')
         /\ (slips # {} => degraded) => (slips' # {} => degraded')
<1> DEFINE m == Mode(ok, overlap)
           M == retrieval.mode
<1>1. retrieval' = Merged(retrieval, Info(ok, overlap)) /\ used' = used \cup {m}
  BY DEF Searched, Info
<1>2. (m \in {"mixed", "dense"} /\ Lexical) \/ m = "dense" \/ (m = "bm25" /\ Lexical)
        \/ (m = "none" /\ ~Lexical)
  BY DEF Mode, Lexical, MayBeLexical
<1>3. retrieval'.mode = (IF M \notin {"not_used", "none", m} /\ m # "none" THEN "mixed" ELSE m)
  BY <1>1 DEF Merged, Info
<1>4. retrieval'.reasons = IF Reasons(ok) = {} THEN retrieval.reasons ELSE Reasons(ok)
  BY <1>1 DEF Merged, Info
<1>5. slips' = IF service.mode = "live" /\ Reasons(ok) # {} THEN slips \cup {"fallback"}
               ELSE slips
  BY DEF Searched, Info
<1>6. degraded' = (degraded \/ (service.mode = "live" /\ Reasons(ok) # {}))
  BY DEF Searched, Info
<1> HIDE DEF m, M
<1>7. FallbackIsTold'
  BY <1>4, <1>5 DEF Inv, FallbackIsTold
<1>8. ASSUME service' = service PROVE Methods'
  <2>1. Lexical' = Lexical
    BY <1>8 DEF Lexical, MayBeLexical, Wanted
  <2>2. /\ used \subseteq IF Lexical THEN {"mixed", "dense", "bm25"} ELSE {"dense", "none"}
        /\ M \in used \cup {"mixed", "not_used"}
        /\ M \in {"dense", "bm25"} => used \subseteq {M, "none"}
        /\ M = "not_used" => used = {}
    BY DEF Inv, Methods, M
  <2>3. used' \subseteq IF Lexical' THEN {"mixed", "dense", "bm25"} ELSE {"dense", "none"}
    BY <1>1, <1>2, <2>1, <2>2
  <2>4. retrieval'.mode \in used' \cup {"mixed", "not_used"} /\ retrieval'.mode # "not_used"
    BY <1>1, <1>2, <1>3
  <2>5. ASSUME retrieval'.mode \in {"dense", "bm25"}
        PROVE  used' \subseteq {retrieval'.mode, "none"}
    <3>1. retrieval'.mode = m /\ m \in {"dense", "bm25"} /\ M \in {"not_used", "none", m}
      BY <1>2, <1>3, <2>5
    <3>2. used \subseteq {m, "none"}
      <4>1. CASE M = "not_used"
        BY <2>2, <4>1
      <4>2. CASE M = m
        BY <2>2, <3>1, <4>2
      <4>3. CASE M = "none"
        <5>1. "none" \in used
          BY <2>2, <4>3
        <5>2. ~Lexical
          BY <2>2, <5>1
        <5> QED BY <1>2, <2>2, <3>1, <5>2
      <4> QED BY <3>1, <4>1, <4>2, <4>3
    <3> QED BY <1>1, <3>1, <3>2
  <2> QED BY <2>3, <2>4, <2>5 DEF Methods
<1>9. (slips # {} => degraded) => (slips' # {} => degraded')
  BY <1>5, <1>6
<1> QED BY <1>7, <1>8, <1>9

\* A step that searches, or is shown a rule instead.
LEMMA Looking ==
  ASSUME Inv, phase \notin {"idle", "answered"}, phase' \notin {"idle", "answered"},
         UNCHANGED <<service, request, reply, audits>>,
         NEW routed \in BOOLEAN, Retrieved(routed)
  PROVE  Inv'
<1>1. CASE Routed
  BY <1>1, Working DEF Routed, Inv, AuditsAuthorised, SlipsShow
<1>2. ASSUME NEW ok \in Outcomes, NEW overlap \in BOOLEAN, Searched(ok, overlap)
      PROVE  Inv'
  <2>1. FallbackIsTold' /\ Methods' /\ (slips' # {} => degraded')
    BY <1>2, Searching DEF Inv, SlipsShow
  <2>2. Unpublished' /\ SlipsShow'
    BY <2>1 DEF Inv, Unpublished, SlipsShow
  <2>3. AuditsAuthorised'
    BY DEF Inv, AuditsAuthorised, Authorised
  <2>4. LiveIsUndegraded' /\ VerifiedWasAudited'
    BY DEF Inv, Unpublished, LiveIsUndegraded, VerifiedWasAudited
  <2> QED BY <2>1, <2>2, <2>3, <2>4 DEF Inv
<1> QED BY <1>1, <1>2 DEF Retrieved

-----------------------------------------------------------------------------
(* One lemma for each group of handlers.                                   *)

\* An answer with an exception carries no advice and is not live.
LEMMA RaisingKeeps ==
  ASSUME Inv, phase # "answered", NEW what \in {"model", "budget", "deadline"}, Raise(what)
  PROVE  Inv'
<1>1. reply'.advice = {} /\ reply'.mode = "degraded"
  BY DEF Raise, Publish, NoReply
<1> QED BY <1>1, Publishing DEF Raise, Publish

\* What the final answer calls verified is a plan of the tool's own audits.
LEMMA VerifiedIsAudited ==
  ASSUME Inv, NEW p, Acceptable(p), Feasibility(p) = "verified_for_audited_scope"
  PROVE  Candidate(p) \in DOMAIN audits /\ audits[Candidate(p)] = "feasible_in_scope"
<1>1. Candidate(p) # None /\ p.kind # "request_plant_review"
  BY DEF Feasibility
<1>2. Candidate(p) \in DOMAIN audits
  BY <1>1 DEF Acceptable
<1>3. audits[Candidate(p)] \in Verdicts
  BY <1>2 DEF Inv, AuditsAuthorised
<1> QED BY <1>1, <1>2, <1>3 DEF Feasibility, Verdicts

LEMMA AnsweringKeeps ==
  ASSUME Inv, NEW advice, NEW notes, LlmAnswers(advice, notes)
  PROVE  Inv'
<1> DEFINE good == {p \in advice : Acceptable(p)}
           flag == degraded \/ good # advice
           told == {Recommendation(p) : p \in good}
<1>1. /\ phase = "asking" /\ phase' = "answered"
      /\ UNCHANGED <<service, request, audits, retrieval, used>>
      /\ slips' = IF good # advice THEN slips \cup {"proposal"} ELSE slips
  BY DEF LlmAnswers, Return, Publish
<1>2. reply'.advice = {} \/ reply'.advice = told
  BY DEF LlmAnswers, Return, Publish, NoReply
<1>3. reply'.mode = IF flag /\ service.mode = "live" THEN "degraded" ELSE service.mode
  BY DEF LlmAnswers, Return, Publish, NoReply
<1>4. ASSUME reply'.mode = "live" PROVE slips' = {}
  <2>1. ~flag
    BY <1>3, <1>4
  <2> QED BY <1>1, <2>1 DEF Inv, SlipsShow
<1>5. ASSUME NEW r \in reply'.advice, r.feasibility = "verified_for_audited_scope"
      PROVE  r.plan \in DOMAIN audits /\ audits[r.plan] = "feasible_in_scope"
  <2>1. PICK p \in good : r = Recommendation(p)
    BY <1>2, <1>5
  <2>2. r.plan = Candidate(p) /\ r.feasibility = Feasibility(p)
    BY <2>1 DEF Recommendation
  <2> QED BY <1>5, <2>1, <2>2, VerifiedIsAudited
<1> HIDE DEF good, flag, told
<1>6. slips' \subseteq slips \cup {"model", "budget", "deadline", "proposal"}
  BY <1>1
<1> QED BY <1>1, <1>4, <1>5, <1>6, Publishing

LEMMA ReceivingKeeps ==
  ASSUME Inv, phase = "idle",
         UNCHANGED <<service, work>>,
         phase' \in {"retrieving", "answered"},
         reply'.advice = {}, reply'.mode \in {"none", "deterministic"},
         phase' # "answered" => reply'.mode = "none"
  PROVE  Inv'
<1>1. UNCHANGED <<audits, degraded, slips, retrieval, used>> /\ DOMAIN audits = {} /\ slips = {}
  BY DEF work, Inv, Unpublished
<1>2. Unpublished' /\ AuditsAuthorised' /\ SlipsShow' /\ FallbackIsTold'
  BY <1>1 DEF Unpublished, AuditsAuthorised, SlipsShow, FallbackIsTold
<1>3. Methods'
  BY <1>1 DEF Inv, Methods, Lexical, MayBeLexical, Wanted
<1>4. VerifiedWasAudited' /\ LiveIsUndegraded'
  BY DEF VerifiedWasAudited, LiveIsUndegraded
<1> QED BY <1>2, <1>3, <1>4 DEF Inv

LEMMA ReturningKeeps ==
  ASSUME Inv, phase # "answered", NEW advice, NEW notes, Return(advice, notes, degraded),
         \A r \in advice : r.feasibility = "unverified",
         UNCHANGED work
  PROVE  Inv'
<1>1. UNCHANGED <<service, request, audits, slips, retrieval, used>> /\ phase' = "answered"
  BY DEF Return, Publish, work
<1>2. reply'.advice = {} \/ reply'.advice = advice
  BY DEF Return, Publish, NoReply
<1>3. reply'.mode = IF degraded /\ service.mode = "live" THEN "degraded" ELSE service.mode
  BY DEF Return, Publish, NoReply
<1>4. reply'.mode = "live" => slips' = {}
  BY <1>1, <1>3 DEF Inv, SlipsShow
<1>5. \A r \in reply'.advice : r.feasibility # "verified_for_audited_scope"
  BY <1>2
<1> QED BY <1>1, <1>4, <1>5, Publishing

\* A failed world gets no advice, and the mock's own is never verified.
LEMMA ScriptingKeeps == ASSUME Inv, StopAtFailure \/ Script PROVE Inv'
<1>1. CASE StopAtFailure
  BY <1>1, ReturningKeeps DEF StopAtFailure
<1>2. CASE Script
  <2> DEFINE advice ==
        IF request.low
        THEN {[kind |-> "reserve_crew_for_refill", plan |-> None, cites |-> {},
               feasibility |-> "unverified"]}
        ELSE {}
      notes == IF request.to = "discuss" THEN [cites |-> {}, reviews |-> <<>>] ELSE None
  <2>1. Return(advice, notes, degraded) /\ UNCHANGED work /\ phase # "answered"
    BY <1>2 DEF Script
  <2>2. \A r \in advice : r.feasibility = "unverified"
    OBVIOUS
  <2> HIDE DEF advice, notes
  <2> QED BY <2>1, <2>2, ReturningKeeps
<1> QED BY <1>1, <1>2

LEMMA ToolsKeep ==
  ASSUME Inv,
         \/ CallRules \/ CallRefused
         \/ \E routed \in BOOLEAN : CallRetrieval(routed)
         \/ \E plan \in Drafts, verdict \in Verdicts : CallAudit(plan, verdict)
  PROVE  Inv'
<1>1. /\ phase = "calling" /\ phase' \in {"asking", "calling"}
      /\ UNCHANGED <<service, request, reply>>
  BY DEF CallRules, CallRefused, CallRetrieval, CallAudit, ToolCall
<1>2. slips # {} => degraded
  BY <1>1 DEF Inv, SlipsShow
<1>3. CASE CallRules \/ CallRefused
  <2>1. /\ UNCHANGED <<audits, retrieval, used>>
        /\ slips' \subseteq slips \cup {"input"} /\ (slips' # {} => degraded')
    BY <1>2, <1>3 DEF CallRules, CallRefused
  <2>2. \A plan \in DOMAIN audits' : Authorised(plan) /\ audits'[plan] \in Verdicts
    BY <2>1 DEF Inv, AuditsAuthorised
  <2> QED BY <1>1, <2>1, <2>2, Working
<1>5. ASSUME NEW routed \in BOOLEAN, CallRetrieval(routed) PROVE Inv'
  BY <1>1, <1>5, Looking DEF CallRetrieval
<1>6. ASSUME NEW plan \in Drafts, NEW verdict \in Verdicts, CallAudit(plan, verdict)
      PROVE  Inv'
  <2>1. /\ Authorised(plan)
        /\ audits' = [p \in DOMAIN audits \cup {plan} |->
                        IF p = plan THEN verdict ELSE audits[p]]
        /\ UNCHANGED <<degraded, slips, retrieval, used>>
    BY <1>6 DEF CallAudit
  <2>2. \A p \in DOMAIN audits' : Authorised(p) /\ audits'[p] \in Verdicts
    BY <2>1 DEF Inv, AuditsAuthorised
  <2> QED BY <1>1, <1>2, <2>1, <2>2, Working
<1> QED BY <1>3, <1>5, <1>6

LEMMA StepKeeps == Inv /\ [Next]_vars => Inv'
<1> SUFFICES ASSUME Inv, [Next]_vars PROVE Inv'
  OBVIOUS
<1>1. ASSUME NEW to \in {"analyze", "discuss"}, NEW next \in Drafts \cup {None},
             NEW raw \in AtMost(2, Drafts), NEW failed \in BOOLEAN, NEW low \in BOOLEAN,
             NEW full \in BOOLEAN, Receive(to, next, raw, failed, low, full)
      PROVE  Inv'
  <2>1. /\ phase = "idle" /\ UNCHANGED <<service, work>>
        /\ phase' \in {"retrieving", "answered"}
        /\ reply'.advice = {} /\ reply'.mode \in {"none", "deterministic"}
        /\ phase' # "answered" => reply'.mode = "none"
    BY <1>1 DEF Receive, Idle, NoReply
  <2> QED BY <2>1, ReceivingKeeps
<1>2. ASSUME NEW next \in Drafts, Refuse(next) PROVE Inv'
  <2>1. /\ phase = "idle" /\ UNCHANGED <<service, work>> /\ phase' = "answered"
        /\ reply'.advice = {} /\ reply'.mode = "none"
    BY <1>2 DEF Refuse, Idle, NoReply
  <2> QED BY <2>1, ReceivingKeeps
<1>3. ASSUME NEW routed \in BOOLEAN, Retrieve(routed) PROVE Inv'
  BY <1>3, Looking DEF Retrieve
<1>4. CASE StopAtFailure \/ Script
  BY <1>4, ScriptingKeeps
<1>5. CASE Ask \/ \E n \in 1 .. MaxBatch : LlmCalls(n)
  <2>1. /\ phase \in {"ready", "asking"} /\ phase' \in {"asking", "calling"}
        /\ UNCHANGED <<service, request, reply, audits, degraded, slips, retrieval, used>>
    BY <1>5 DEF Ask, LlmCalls, work
  <2> QED BY <2>1, Working DEF Inv, AuditsAuthorised, SlipsShow
<1>6. ASSUME NEW notes \in {None} \cup {n \in Notes : NotesResolve(n)},
             NEW advice \in AtMost(MaxAdvice, Proposals), LlmAnswers(advice, notes)
      PROVE  Inv'
  BY <1>6, AnsweringKeeps
<1>7. CASE LlmFails \/ OutOfCalls \/ OutOfTools
  BY <1>7, RaisingKeeps DEF LlmFails, OutOfCalls, OutOfTools
<1>8. CASE \/ CallRules \/ CallRefused
           \/ \E routed \in BOOLEAN : CallRetrieval(routed)
           \/ \E plan \in Drafts, verdict \in Verdicts : CallAudit(plan, verdict)
  BY <1>8, ToolsKeep
<1>9. CASE Deadline
  <2>1. phase # "answered"
    BY <1>9 DEF Deadline, AtWork
  <2>2. CASE Raise("deadline")
    BY <2>1, <2>2, RaisingKeeps
  <2>3. CASE ~Raise("deadline")
    <3>1. /\ phase' = "answered" /\ slips' = slips \cup {"deadline"}
          /\ UNCHANGED <<service, request, audits, retrieval, used>>
          /\ reply'.advice = {} /\ reply'.mode = "none"
      BY <1>9, <2>3 DEF Deadline, NoReply
    <3> QED BY <2>1, <3>1, Publishing
  <2> QED BY <2>2, <2>3
<1>10. CASE UNCHANGED vars
  <2>1. UNCHANGED <<service, request, phase, audits, retrieval, degraded, reply, slips, used>>
    BY <1>10 DEF vars, work
  <2>2. Unpublished' /\ AuditsAuthorised' /\ SlipsShow' /\ FallbackIsTold' /\ LiveIsUndegraded'
    BY <2>1 DEF Inv, Unpublished, AuditsAuthorised, Authorised, SlipsShow, FallbackIsTold,
      LiveIsUndegraded
  <2>3. Methods'
    BY <2>1 DEF Inv, Methods, Lexical, MayBeLexical, Wanted
  <2>4. VerifiedWasAudited'
    BY <2>1 DEF Inv, VerifiedWasAudited
  <2> QED BY <2>1, <2>2, <2>3, <2>4 DEF Inv
<1> QED BY <1>1, <1>2, <1>3, <1>4, <1>5, <1>6, <1>7, <1>8, <1>9, <1>10 DEF Next

-----------------------------------------------------------------------------
(* The theorems.                                                           *)

\* The records of a request (agent.py: audits, retrieval, degraded) say what happened to
\* it, at every point on the way to the answer.
THEOREM Invariance == Spec => []Inv
BY Initial, StepKeeps, PTL DEF Spec

\* Advice is published as verified only for a plan that was audited in this request and
\* leaves the Core's own field work, its order and its water alone.
THEOREM AdviceWasAudited == Spec => []VerifiedWasAudited
<1>1. Inv => VerifiedWasAudited
  BY DEF Inv
<1> QED BY <1>1, Invariance, PTL

\* An answer that calls itself live had no fallback and no refused input or proposal.
THEOREM LiveHadNoSlip == Spec => []LiveIsUndegraded
<1>1. Inv => LiveIsUndegraded
  BY DEF Inv
<1> QED BY <1>1, Invariance, PTL

\* What an answer tells of its retrievals covers each of them, also those that fell back.
THEOREM RetrievalsAreTold == Spec => []RetrievalIsTold
<1>1. Inv => RetrievalIsTold
  BY DEF Inv, FallbackIsTold, Methods, RetrievalIsTold
<1> QED BY <1>1, Invariance, PTL

=============================================================================
