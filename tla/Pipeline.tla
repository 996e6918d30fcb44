------------------------------ MODULE Pipeline ------------------------------
(***************************************************************************)
(* src/app/pipeline.py: Pipeline.answer, run by many server threads over   *)
(* one Pipeline object, with the TTL cache of src/app/cache.py, the row    *)
(* limits of src/app/guardrails.py and src/app/db.py, the cost guard of    *)
(* src/app/explain.py, and the audit trail and counters of                 *)
(* src/app/observability.py.                                               *)
(*                                                                         *)
(* A request is one call of answer; its stages are the steps of the call   *)
(* between two points where other threads, the clock or the database can   *)
(* get in: each external call, each read of the clock, each critical       *)
(* section of the cache.  What the model provider, the parser and the      *)
(* database return is any of the values the constants allow.               *)
(***************************************************************************)
EXTENDS Confidence, Dicts

CONSTANTS
  Requests,            \* calls of answer
  Questions,           \* question texts, stripped
  Blank, TooLong,      \* those that are empty or over max_question_chars
  Fold,                \* question.lower(): text -> folded text
  Schemas,             \* versions of the database schema
  InitialSchema,
  ReadOnly,            \* drafts check_sql accepts: one SELECT, nothing forbidden
  LimitRead,           \* draft -> what int() reads in its LIMIT, or NoLimit
  LimitValue,          \* draft -> what its LIMIT comes to, or NoLimit
  NoLimit,
  Permitted,           \* <<draft, schema>> pairs the policy lets through
  WellFormed,          \* <<draft, schema>> pairs naming only what exists
  Plans,               \* draft -> the [cost, rows] estimates it may get
  MaxPlanCost, MaxPlanRows,
  Matching,            \* draft -> how many rows it may match, unlimited
  MaxRows,             \* settings.max_rows
  MaxResultRows,       \* settings.max_result_rows; negative: no cap
  NumSamples,          \* settings.num_samples
  JudgeMode,           \* settings.judge_mode
  JudgeThreshold,      \* settings.conditional_judge_threshold
  JudgeScores,         \* scores the judge may give
  MinConfidence,       \* settings.min_confidence_to_return_rows, thousandths
  CacheEnabled,        \* settings.cache_enabled
  TTL,                 \* settings.cache_ttl_seconds, in ticks
  MaxClock,            \* bound: the clock stops here
  None                 \* Python's None

ASSUME PipelineAssumption ==
  /\ Blank \cup TooLong \subseteq Questions
  /\ DOMAIN Fold = Questions
  /\ InitialSchema \in Schemas
  /\ ReadOnly \subseteq Drafts
  /\ DOMAIN LimitRead = Drafts /\ DOMAIN LimitValue = Drafts
  /\ \A d \in Drafts :
       /\ LimitRead[d] \in Nat \cup {NoLimit}
       /\ LimitValue[d] \in Nat \cup {NoLimit}
       /\ LimitValue[d] = NoLimit => LimitRead[d] = NoLimit
  /\ DOMAIN Matching = Drafts /\ \A d \in Drafts : Matching[d] \subseteq Nat
  /\ DOMAIN Plans = Drafts /\ None \notin UNION {Plans[d] : d \in Drafts}
  /\ NoLimit \notin Nat
  /\ MaxRows \in Nat
  /\ MaxResultRows \in Int
  /\ NumSamples \in Nat \ {0} /\ Unit % NumSamples = 0
  /\ JudgeMode \in {"off", "always", "conditional"}
  /\ JudgeThreshold \in Int /\ JudgeScores \subseteq Int \cup {NaN} /\ MinConfidence \in Int
  /\ CacheEnabled \in BOOLEAN
  /\ TTL \in Nat /\ MaxClock \in Nat
  /\ None \notin Questions \cup Schemas \cup Drafts \cup Nat

VARIABLES
  clock,     \* time.monotonic(), in ticks
  live,      \* the schema the database has now
  had,       \* every schema it has had: what a cached schema may still be
  store,     \* TTLCache._store: key -> [expires, answer]
  req,       \* req[r]: the local state of call r
  audited,   \* audited[r]: the audit events of call r, in order
  metrics    \* observability.metrics: its counters, and how many confidences
             \* its histogram holds

world == <<clock, live, had>>
vars  == <<clock, live, had, store, req, audited, metrics>>

(* The stages reported to observers, in the order of PIPELINE_STAGES. *)
PipelineStages ==
  <<"cache", "generate", "consistency", "guardrails", "policy",
    "schema", "explain", "execute", "judge", "score">>

-----------------------------------------------------------------------------
(* Pure parts *)

(* guardrails._enforce_limit: a limit within bounds stays.  It is read off *)
(* the expression's first operand, so LIMIT 10 * 1000 passes for a ten.    *)
EnforcedLimit(d) ==
  IF LimitRead[d] # NoLimit /\ LimitRead[d] <= MaxRows THEN LimitValue[d] ELSE MaxRows

(* explain.within_budget on a plan that was obtained *)
WithinBudget(plan) == plan.cost <= MaxPlanCost /\ plan.rows <= MaxPlanRows

Lesser(a, b) == IF a <= b THEN a ELSE b

FailedResult == [ok |-> FALSE, rows |-> 0, truncated |-> FALSE]

(* db.execute of the limited statement, with fetchmany(max_rows + 1) *)
Fetched(d, matching) ==
  LET fetched == Lesser(Lesser(matching, EnforcedLimit(d)), MaxRows + 1) IN
  [ok |-> TRUE, rows |-> Lesser(fetched, MaxRows), truncated |-> fetched > MaxRows]

(* the rows the drafted query itself would return (history) *)
Wanted(d, matching) ==
  IF LimitValue[d] = NoLimit THEN matching ELSE Lesser(matching, LimitValue[d])

(* A plausible bug: the rows are cut and nobody is told. *)
CappedSilently(result) ==
  IF result.ok /\ MaxResultRows >= 0
  THEN [result EXCEPT !.rows = Lesser(@, MaxResultRows)]
  ELSE result

(* _cap_result *)
Capped(result) ==
  IF result.ok /\ MaxResultRows >= 0 /\ result.rows > MaxResultRows
  THEN [result EXCEPT !.rows = MaxResultRows, !.truncated = TRUE]
  ELSE result

(* _should_judge *)
ShouldJudge(agreement) ==
  \/ JudgeMode = "always"
  \/ JudgeMode = "conditional" /\ agreement < JudgeThreshold

(* A plausible bug: data is withheld only when there is no confidence. *)
RowsDespiteDoubt(confidence, result) == IF confidence = 0 THEN 0 ELSE result.rows

(* the rows that leave: none below the confidence threshold *)
RowsReturned(confidence, result) ==
  IF Below(confidence, MinConfidence) THEN 0 ELSE result.rows

(* observe_confidence: the last bucket ends at 1.01, and what no bucket    *)
(* takes is not counted                                                    *)
Recorded(confidence) == confidence # NaN /\ confidence <= 1010

(* A plausible bug: whatever was executed is cached. *)
CacheableAlways(result) == CacheEnabled

(* the condition of cache.set *)
Cacheable(result) == CacheEnabled /\ result.ok

(* Plausible bugs: the schema, or the folding, is left out of the key. *)
KeyWithoutSchema(q, s) == <<Fold[q], InitialSchema>>
KeyWithoutFolding(q, s) == <<q, s>>

(* make_key(question.lower(), schema_context) *)
MakeKey(q, s) == <<Fold[q], s>>

(* A plausible bug: an entry is still good at the instant it expires. *)
LiveInclusive(key, now) == key \in DOMAIN store /\ now <= store[key].expires

(* cache.get, at the time now: there is an entry and it is still good *)
Live(key, now) == key \in DOMAIN store /\ now < store[key].expires

(* cache.get: an entry found past its time is dropped *)
Swept(key, now) ==
  IF key \in DOMAIN store /\ now >= store[key].expires THEN Pop(store, key) ELSE store

-----------------------------------------------------------------------------
(* Calls *)

(* wanted (rows the drafted query asks for) and setAt (when the answer was *)
(* cached) are history; the rest are the local variables of answer.        *)
Idle ==
  [stage |-> "idle", question |-> None, schema |-> None, now |-> 0,
   draft |-> None, agreement |-> 0, plan |-> None, result |-> FailedResult, wanted |-> 0,
   verdict |-> 0, answer |-> None, trace |-> <<>>, setAt |-> None]

Init ==
  /\ clock = 0
  /\ live = InitialSchema
  /\ had = {InitialSchema}
  /\ store = EmptyDict
  /\ req = [r \in Requests |-> Idle]
  /\ audited = [r \in Requests |-> <<>>]
  /\ metrics = [requests |-> 0, hits |-> 0, blocked |-> 0, judged |-> 0, observed |-> 0]

At(r, stage) == req[r].stage = stage

(* A plausible bug: the counter is set and not incremented. *)
CountAssigned(name) == metrics' = [metrics EXCEPT ![name] = 1]

Count(name) == metrics' = [metrics EXCEPT ![name] = @ + 1]

(* A plausible bug: refusals leave no audit event. *)
AuditUnblocked(r, answer) ==
  audited' = IF answer.blocked THEN audited ELSE [audited EXCEPT ![r] = Append(@, answer)]

Audit(r, answer) == audited' = [audited EXCEPT ![r] = Append(@, answer)]

(* emit(step, status), beside the other changes of the call *)
Emitted(r, step, status) == Append(req[r].trace, [step |-> step, status |-> status])

(* the call as it returns with answer, or raises: its locals are gone *)
Left(r, stage, answer, trace) ==
  [Idle EXCEPT !.stage = stage, !.question = req[r].question, !.schema = req[r].schema,
               !.draft = req[r].draft, !.setAt = req[r].setAt,
               !.answer = answer, !.trace = trace]

(* emit, _blocked and return: the counter, the audit event, the answer *)
Block(r, step, reason) ==
  LET answer == [question |-> req[r].question, draft |-> req[r].draft,
                 blocked |-> TRUE, reason |-> reason, confidence |-> 0,
                 rows |-> 0, truncated |-> FALSE, cached |-> FALSE]
  IN  /\ Count("blocked")
      /\ Audit(r, answer)
      /\ req' = [req EXCEPT ![r] = Left(r, "done", answer, Emitted(r, step, "blocked"))]
      /\ UNCHANGED <<world, store>>

(* A plausible bug: a gate that passes is not reported. *)
PassSilently(r, step, next) ==
  /\ req' = [req EXCEPT ![r].stage = next]
  /\ UNCHANGED <<world, store, audited, metrics>>

(* a gate that lets the call through to the next stage *)
Pass(r, step, next) ==
  /\ req' = [req EXCEPT ![r].stage = next, ![r].trace = Emitted(r, step, "ok")]
  /\ UNCHANGED <<world, store, audited, metrics>>

(* a call raises, and answer with it: nobody catches it *)
RaiseAfter(r, trace) ==
  /\ req' = [req EXCEPT ![r] = Left(r, "failed", None, trace)]
  /\ UNCHANGED <<world, store, audited, metrics>>

Raise(r) == RaiseAfter(r, req[r].trace)

Ask(r, q) ==
  /\ At(r, "idle")
  /\ Count("requests")
  /\ req' = [req EXCEPT ![r].stage = "check", ![r].question = q]
  /\ UNCHANGED <<world, store, audited>>

CheckQuestion(r) ==
  /\ At(r, "check")
  /\ \/ /\ req[r].question \in Blank
        /\ Block(r, "cache", "empty question")
     \/ /\ req[r].question \in TooLong \ Blank
        /\ Block(r, "cache", "question too long")
     \/ /\ req[r].question \notin Blank \cup TooLong
        /\ req' = [req EXCEPT ![r].stage = "load"]
        /\ UNCHANGED <<world, store, audited, metrics>>

(* db.load_schema: its own cache may still hold an earlier version *)
LoadSchema(r) ==
  /\ At(r, "load")
  /\ \/ \E s \in had :
          /\ req' = [req EXCEPT ![r].stage = IF CacheEnabled THEN "stamp" ELSE "generate",
                                ![r].schema = s,
                                ![r].trace = IF CacheEnabled THEN @
                                             ELSE Emitted(r, "cache", "skip")]
          /\ UNCHANGED <<world, store, audited, metrics>>
     \/ Raise(r)

(* cache.get reads the clock, then waits for the lock *)
StampLookup(r) ==
  /\ At(r, "stamp")
  /\ req' = [req EXCEPT ![r].stage = "lookup", ![r].now = clock]
  /\ UNCHANGED <<world, store, audited, metrics>>

(* the critical section of cache.get finds nothing good *)
Miss(r) ==
  LET key == MakeKey(req[r].question, req[r].schema) IN
  /\ At(r, "lookup")
  /\ ~Live(key, req[r].now)
  /\ store' = Swept(key, req[r].now)
  /\ req' = [req EXCEPT ![r].stage = "generate", ![r].trace = Emitted(r, "cache", "skip")]
  /\ UNCHANGED <<world, audited, metrics>>

(* the critical section of cache.get finds an answer, which is returned *)
Hit(r) ==
  LET key == MakeKey(req[r].question, req[r].schema) IN
  /\ At(r, "lookup")
  /\ Live(key, req[r].now)
  /\ Count("hits")
  /\ req' = [req EXCEPT ![r] = Left(r, "done", [store[key].answer EXCEPT !.cached = TRUE],
                                   Emitted(r, "cache", "ok"))]
  /\ UNCHANGED <<world, store, audited>>

(* provider.generate, which returns num_samples candidates, and the vote,  *)
(* which raises on a candidate that cannot even be cut into tokens:        *)
(* canonicalize catches ParseError, and a TokenError is none               *)
Generate(r) ==
  /\ At(r, "generate")
  /\ \/ \E candidates \in [1 .. NumSamples -> Drafts] :
          LET vote == Consistency(candidates) IN
          /\ req' = [req EXCEPT ![r].stage = "guardrails",
                                ![r].draft = vote.chosen,
                                ![r].agreement = vote.agreement,
                                ![r].trace = Append(Emitted(r, "generate", "ok"),
                                                    [step |-> "consistency", status |-> "ok"])]
          /\ UNCHANGED <<world, store, audited, metrics>>
     \/ Raise(r)
     \/ RaiseAfter(r, Emitted(r, "generate", "ok"))

(* A gate judges, or the library under it fails in a way the gate does not *)
(* catch: only ParseError and OptimizeError are caught.                    *)
Guardrails(r) ==
  /\ At(r, "guardrails")
  /\ \/ IF req[r].draft \in ReadOnly
        THEN Pass(r, "guardrails", "policy")
        ELSE Block(r, "guardrails", "guardrail")
     \/ Raise(r)

(* policy.check, against the schema the call loaded *)
PolicyGate(r) ==
  /\ At(r, "policy")
  /\ \/ IF <<req[r].draft, req[r].schema>> \in Permitted
        THEN Pass(r, "policy", "schema")
        ELSE Block(r, "policy", "policy")
     \/ Raise(r)

(* validate_references, against the schema the call loaded *)
SchemaGate(r) ==
  /\ At(r, "schema")
  /\ \/ IF <<req[r].draft, req[r].schema>> \in WellFormed
        THEN Pass(r, "schema", "explain")
        ELSE Block(r, "schema", "schema hallucination")
     \/ Raise(r)

PassWithPlan(r, plan) ==
  /\ req' = [req EXCEPT ![r].stage = "execute", ![r].plan = plan,
                        ![r].trace = Emitted(r, "explain", "ok")]
  /\ UNCHANGED <<world, store, audited, metrics>>

(* A plausible bug: the rows a plan expects are not looked at. *)
ExplainCostOnly(r) ==
  /\ At(r, "explain")
  /\ \E plan \in Plans[req[r].draft] :
       plan.cost <= MaxPlanCost /\ PassWithPlan(r, plan)

(* explain_cost asks the database as it is now.  A plan over budget, a     *)
(* statement that cannot be planned and a database error block; anything   *)
(* but a psycopg.Error leaves the call.                                    *)
Explain(r) ==
  /\ At(r, "explain")
  /\ \/ \E plan \in Plans[req[r].draft] :
          /\ <<req[r].draft, live>> \in WellFormed
          /\ IF WithinBudget(plan)
             THEN PassWithPlan(r, plan)
             ELSE Block(r, "explain", "cost guard")
     \/ Block(r, "explain", "cost guard")
     \/ Raise(r)

(* db.execute and _cap_result; a failed statement is reported as blocked,  *)
(* and the call goes on, unless it is no psycopg.Error that was raised     *)
Execute(r) ==
  /\ At(r, "execute")
  /\ \/ \E matching \in Matching[req[r].draft] :
          /\ <<req[r].draft, live>> \in WellFormed
          /\ req' = [req EXCEPT ![r].stage = "judge",
                                ![r].result = Capped(Fetched(req[r].draft, matching)),
                                ![r].wanted = Wanted(req[r].draft, matching),
                                ![r].trace = Emitted(r, "execute", "ok")]
     \/ req' = [req EXCEPT ![r].stage = "judge",
                           ![r].result = FailedResult,
                           ![r].trace = Emitted(r, "execute", "blocked")]
     \/ Raise(r)
  /\ UNCHANGED <<world, store, audited, metrics>>

Judge(r) ==
  /\ At(r, "judge")
  /\ ShouldJudge(req[r].agreement)
  /\ \/ \E verdict \in JudgeScores :
          /\ Count("judged")
          /\ req' = [req EXCEPT ![r].stage = "score", ![r].verdict = verdict,
                                ![r].trace = Emitted(r, "judge", "ok")]
          /\ UNCHANGED <<world, store, audited>>
     \/ Raise(r)

(* a strong consensus stands in for the judge *)
SkipJudge(r) ==
  /\ At(r, "judge")
  /\ ~ShouldJudge(req[r].agreement)
  /\ req' = [req EXCEPT ![r].stage = "score", ![r].verdict = req[r].agreement,
                        ![r].trace = Emitted(r, "judge", "skip")]
  /\ UNCHANGED <<world, store, audited, metrics>>

(* the score, the rows withheld below the threshold, and the Answer *)
MakeAnswer(r) ==
  LET result     == req[r].result
      confidence == Score(TRUE, result.ok, req[r].agreement, req[r].verdict)
      answer     == [question |-> req[r].question, draft |-> req[r].draft,
                     blocked |-> FALSE,
                     reason |-> IF result.ok THEN "none" ELSE "error",
                     confidence |-> confidence,
                     rows |-> RowsReturned(confidence, result),
                     truncated |-> result.truncated, cached |-> FALSE]
  IN
  /\ At(r, "score")
  /\ IF Recorded(confidence) THEN Count("observed") ELSE UNCHANGED metrics
  /\ req' = [req EXCEPT ![r].stage = IF Cacheable(result) THEN "store" ELSE "audit",
                        ![r].answer = answer,
                        ![r].trace = Emitted(r, "score", "ok")]
  /\ UNCHANGED <<world, store, audited>>

(* cache.set, whose clock is read inside the lock *)
CacheSet(r) ==
  /\ At(r, "store")
  /\ store' = Put(store, MakeKey(req[r].question, req[r].schema),
                  [expires |-> clock + TTL, answer |-> req[r].answer])
  /\ req' = [req EXCEPT ![r].stage = "audit", ![r].setAt = clock]
  /\ UNCHANGED <<world, audited, metrics>>

(* _audit and return *)
Return(r) ==
  /\ At(r, "audit")
  /\ Audit(r, req[r].answer)
  /\ req' = [req EXCEPT ![r] = Left(r, "done", req[r].answer, req[r].trace)]
  /\ UNCHANGED <<world, store, metrics>>

Step(r) ==
  \/ CheckQuestion(r) \/ LoadSchema(r) \/ StampLookup(r) \/ Miss(r) \/ Hit(r)
  \/ Generate(r) \/ Guardrails(r) \/ PolicyGate(r) \/ SchemaGate(r)
  \/ Explain(r) \/ Execute(r) \/ Judge(r) \/ SkipJudge(r)
  \/ MakeAnswer(r) \/ CacheSet(r) \/ Return(r)

(* External: the database is migrated, forward or back. *)
Migrate ==
  /\ \E s \in Schemas \ {live} :
       /\ live' = s
       /\ had' = had \cup {s}
  /\ UNCHANGED <<clock, store, req, audited, metrics>>

Tick ==
  /\ clock < MaxClock
  /\ clock' = clock + 1
  /\ UNCHANGED <<live, had, store, req, audited, metrics>>

Next ==
  \/ Tick
  \/ Migrate
  \/ \E r \in Requests :
       \/ \E q \in Questions : Ask(r, q)
       \/ Step(r)

Spec == Init /\ [][Next]_vars

-----------------------------------------------------------------------------
(* Properties *)

InFlight == {"check", "load", "stamp", "lookup", "generate", "guardrails", "policy",
             "schema", "explain", "execute", "judge", "score", "store", "audit"}
Answered(r)  == At(r, "done") /\ ~req[r].answer.blocked
Blocked(r)   == At(r, "done") /\ req[r].answer.blocked
Replayed(r)  == Answered(r) /\ req[r].answer.cached
Computed(r)  ==
  /\ req[r].stage \in {"store", "audit", "done"}
  /\ ~req[r].answer.blocked /\ ~req[r].answer.cached
Did(r, step, status) ==
  \E i \in DOMAIN req[r].trace :
    req[r].trace[i].step = step /\ req[r].trace[i].status = status

Answers ==
  [question : Questions, draft : Drafts \cup {None}, blocked : BOOLEAN,
   reason : {"none", "error", "empty question", "question too long", "guardrail",
             "policy", "schema hallucination", "cost guard"},
   confidence : Int \cup {NaN}, rows : Nat, truncated : BOOLEAN, cached : BOOLEAN]

Results == [ok : BOOLEAN, rows : Nat, truncated : BOOLEAN]

Stages == InFlight \cup {"idle", "done", "failed"}

Events ==
  [step : {PipelineStages[i] : i \in DOMAIN PipelineStages},
   status : {"ok", "blocked", "skip"}]

Estimates == UNION {Plans[d] : d \in Drafts}

Calls ==
  [stage : Stages, question : Questions \cup {None}, schema : Schemas \cup {None},
   now : Nat, draft : Drafts \cup {None}, agreement : Nat,
   plan : Estimates \cup {None}, result : Results,
   wanted : Nat, verdict : Int \cup {NaN}, answer : Answers \cup {None}, trace : Seq(Events),
   setAt : Nat \cup {None}]

Keys    == {Fold[q] : q \in Questions} \X Schemas
Entries == [expires : Nat, answer : Answers]

TypeOK ==
  /\ clock \in Nat
  /\ had \subseteq Schemas /\ live \in had
  /\ DOMAIN store \subseteq Keys
  /\ \A k \in DOMAIN store : store[k] \in Entries
  /\ req \in [Requests -> Calls]
  /\ \A r \in Requests :
       /\ req[r].stage # "idle" => req[r].question \in Questions
       /\ req[r].stage \notin {"idle", "check", "load", "done", "failed"}
            => req[r].schema \in Schemas
       /\ req[r].stage \in {"store", "audit", "done"} => req[r].answer \in Answers
  /\ audited \in [Requests -> Seq(Answers)]
  /\ metrics \in [{"requests", "hits", "blocked", "judged", "observed"} -> Nat]

(* Governance's verdict on a draft under a schema: all deterministic gates. *)
Vetted(d, s) == d \in ReadOnly /\ <<d, s>> \in Permitted /\ <<d, s>> \in WellFormed

(* No statement is sent to be executed unless every gate passed it under   *)
(* the schema its call loaded, the database planned it in this call, and   *)
(* the plan it gave is within both budgets.                                *)
RunsOnlyVetted ==
  \A r \in Requests :
    /\ Did(r, "execute", "ok") \/ Did(r, "execute", "blocked") =>
         Vetted(req[r].draft, req[r].schema)
    /\ req[r].stage \in {"execute", "judge", "score", "store", "audit"} =>
         /\ req[r].plan \in Plans[req[r].draft]
         /\ WithinBudget(req[r].plan)

(* What is answered, computed or replayed, has passed every gate under the *)
(* schema the ANSWERED call loaded, not only the one that computed it.     *)
DeliveredVetted ==
  \A r \in Requests : Answered(r) => Vetted(req[r].answer.draft, req[r].schema)

(* The cache holds successes only, each vetted under the schema of its key *)
(* and given to a question that differs from the key's in case at most.    *)
CacheVetted ==
  \A k \in DOMAIN store :
    LET answer == store[k].answer IN
    /\ ~answer.blocked /\ answer.reason = "none" /\ ~answer.cached
    /\ Fold[answer.question] = k[1]
    /\ Vetted(answer.draft, k[2])

(* Data leaves only within the row cap, and never with a confidence below  *)
(* the threshold, replayed or not; a refusal and a failed statement carry  *)
(* none.  A confidence that is no number is not below the threshold: the   *)
(* judge's "nan" is accepted, and such rows leave.                         *)
RowsGoverned ==
  \A r \in Requests :
    At(r, "done") /\ req[r].answer.rows > 0 =>
      /\ req[r].answer.reason = "none"
      /\ \/ req[r].answer.confidence = NaN
         \/ req[r].answer.confidence >= MinConfidence
      /\ MaxResultRows >= 0 => req[r].answer.rows <= MaxResultRows

(* A replay repeats, to the letter, an answer some call cached for the     *)
(* same question and schema less than a TTL before the replaying call      *)
(* looked at the clock.                                                    *)
ReplaysAreYoung ==
  [][\A r \in Requests :
       Hit(r) =>
         \E s \in Requests :
           /\ req[s].setAt # None /\ req[r].now - req[s].setAt < TTL
           /\ MakeKey(req[s].question, req[s].schema)
                = MakeKey(req[r].question, req[r].schema)
           /\ req'[r].answer = [req[s].answer EXCEPT !.cached = TRUE]]_vars

(* Observers see the stages of PIPELINE_STAGES from the first on, in order *)
(* and without a gap; after a gate has blocked they see nothing more,      *)
(* except that a failed execution is also reported as blocked; and a       *)
(* computed answer comes after all ten.                                    *)
ReportedInOrder ==
  \A r \in Requests :
    LET trace == req[r].trace IN
    /\ \A i \in DOMAIN trace :
         /\ trace[i].step = PipelineStages[i]
         /\ trace[i].status = "blocked" => i = Len(trace) \/ trace[i].step = "execute"
    /\ Answered(r) /\ ~req[r].answer.cached => Len(trace) = Len(PipelineStages)

(* The metrics are the books of the calls: as many questions counted as    *)
(* were asked, hits as were replayed, refusals as were blocked, judge      *)
(* calls as reported one, and as many confidences in the histogram as      *)
(* computed answers have one it can hold.                                  *)
CountersBalance ==
  metrics =
    [requests |-> Cardinality({r \in Requests : ~At(r, "idle")}),
     hits     |-> Cardinality({r \in Requests : Replayed(r)}),
     blocked  |-> Cardinality({r \in Requests : Blocked(r)}),
     judged   |-> Cardinality({r \in Requests : Did(r, "judge", "ok")}),
     observed |-> Cardinality({r \in Requests :
                                 Computed(r) /\ Recorded(req[r].answer.confidence)})]

(* Every refusal and every computed answer leaves exactly one audit event, *)
(* which says what the client was told; nothing else leaves one.           *)
AuditTrail ==
  \A r \in Requests :
    audited[r] = IF At(r, "done") /\ ~req[r].answer.cached THEN <<req[r].answer>> ELSE <<>>

(* A computed answer says it is truncated exactly when the query as        *)
(* drafted has more rows than the result kept (withheld rows aside).       *)
TruncationTold ==
  \A r \in Requests :
    req[r].stage \in {"store", "audit"} /\ req[r].answer.reason = "none" =>
      (req[r].answer.truncated <=> req[r].result.rows < req[r].wanted)

-----------------------------------------------------------------------------
(* The promise kept: GovernedAnswers, under this mapping.  A call is given *)
(* its answer when the answer is made; it then still caches and audits it. *)

Decided(c) == c.stage \in {"store", "audit", "done"} /\ ~c.answer.blocked

Payload(answer) ==
  [draft |-> answer.draft, rows |-> answer.rows, truncated |-> answer.truncated,
   confidence |-> answer.confidence, reason |-> answer.reason]

Entry(c) == <<Fold[c.question], c.schema, Payload(c.answer)>>

(* the answers that may be replayed: computed, and of a query that ran *)
Original(c) == Decided(c) /\ ~c.answer.cached /\ c.answer.reason = "none"

Standing(c) ==
  IF c.stage \in {"idle", "failed"} THEN c.stage
  ELSE IF Decided(c) THEN "given"
  ELSE IF c.stage = "done" THEN "refused"
  ELSE "open"

Agreements  == {(n * Unit) \div NumSamples : n \in 0 .. NumSamples}
Confidences == {Score(TRUE, ok, a, v) :
                  ok \in BOOLEAN, a \in Agreements, v \in JudgeScores \cup Agreements}

PromisedPayloads ==
  [draft : Drafts, rows : 0 .. MaxRows, truncated : BOOLEAN,
   confidence : Confidences, reason : {"none", "error"}]

Approves(s, p) ==
  /\ Vetted(p.draft, s)
  /\ p.rows > 0 =>
       p.reason = "none" /\ (p.confidence = NaN \/ p.confidence >= MinConfidence)
  /\ MaxResultRows >= 0 => p.rows <= MaxResultRows

standings == [r \in Requests |-> Standing(req[r])]
askedFor  == [r \in Requests |-> IF At(r, "idle") THEN None ELSE Fold[req[r].question]]
entries   == [r \in Requests |-> IF Decided(req[r]) THEN {Entry(req[r])} ELSE {}]
originals == {Entry(req[r]) : r \in {x \in Requests : Original(req[x])}}

Promise ==
  INSTANCE GovernedAnswers WITH
    Questions  <- {Fold[q] : q \in Questions},
    NoQuestion <- None,
    Payloads   <- PromisedPayloads,
    Successes  <- {p \in PromisedPayloads : p.reason = "none"},
    Approved   <- Approves,
    status     <- standings,
    asked      <- askedFor,
    given      <- entries,
    book       <- originals

(* The pipeline implements the promise. *)
KeepsPromise == Promise!Spec

-----------------------------------------------------------------------------
(* What the documentation says and the code does not do. *)

(* observability.py:4, "An audit event for every question": not for one    *)
(* answered from the cache.                                                *)
AnsweredIsAudited ==
  \A r \in Requests : At(r, "done") => audited[r] # <<>>
=============================================================================
