-------------------------- MODULE Pipeline_proofs --------------------------
(***************************************************************************)
(* Governance theorems about Pipeline, for any number of concurrent calls, *)
(* any questions, drafts, schemas and limits, and any interleaving of the  *)
(* calls with the clock and with migrations.                               *)
(*                                                                         *)
(* What a call may do next rests on what it went through before: that an   *)
(* answer is vetted is decided gates earlier, and that a REPLAYED answer   *)
(* is vetted is decided by another call, whose answer the cache kept.  The *)
(* invariant therefore says, of each call, what its stage implies of its   *)
(* locals (CallInv), and of each cache entry, that it is a vetted success  *)
(* for the question and the schema of its key (EntryInv).  CacheSet turns  *)
(* the first into the second, Hit the second into the first.               *)
(***************************************************************************)
EXTENDS Pipeline, Confidence_proofs, SequenceTheorems, FiniteSetTheorems

WithPolicy  == {"policy", "schema", "explain", "execute", "judge", "score", "store", "audit"}
WithSchema  == WithPolicy \ {"policy"}
WithExplain == WithSchema \ {"schema"}
WithExecute == WithExplain \ {"explain"}
Drafted     == WithPolicy \cup {"guardrails"}
Ran         == WithExecute \ {"execute"}

(* The call holds a plan of its draft, and the plan is within budget. *)
Affordable(c) == c.plan \in Plans[c.draft] /\ WithinBudget(c.plan)

(* Rows are given for successes only, within the cap, and never with a     *)
(* confidence below the threshold.                                         *)
Governed(answer) ==
  answer.rows > 0 =>
    /\ answer.reason = "none"
    /\ answer.confidence = NaN \/ answer.confidence >= MinConfidence
    /\ MaxResultRows >= 0 => answer.rows <= MaxResultRows

Executed(trace) == \E i \in DOMAIN trace : trace[i].step = "execute"

(* Which locals a call has set by stage. *)
TypedCall(c) ==
  /\ c.stage # "idle" => c.question \in Questions
  /\ c.stage \notin {"idle", "check", "load", "done", "failed"} => c.schema \in Schemas
  /\ c.stage \in Drafted => c.draft \in Drafts
  /\ c.stage \in {"store", "audit", "done"} => c.answer \in Answers

(* The gates a call has passed. *)
GatedCall(c) ==
  /\ c.stage \in WithPolicy  => c.draft \in ReadOnly
  /\ c.stage \in WithSchema  => <<c.draft, c.schema>> \in Permitted
  /\ c.stage \in WithExplain => <<c.draft, c.schema>> \in WellFormed
  /\ c.stage \in WithExecute => Affordable(c)

(* What has been computed, and what is answered. *)
AnsweredCall(c) ==
  /\ c.stage \in {"judge", "score"} =>
       /\ c.result.ok \/ c.result.rows = 0
       /\ MaxResultRows >= 0 => c.result.rows <= MaxResultRows
  /\ c.stage \in {"store", "audit"} =>
       /\ c.answer.question = c.question /\ c.answer.draft = c.draft
       /\ ~c.answer.blocked /\ ~c.answer.cached
       /\ Governed(c.answer)
  /\ c.stage = "store" => c.answer.reason = "none"
  /\ c.stage = "done" =>
       /\ Governed(c.answer)
       /\ ~c.answer.blocked => Vetted(c.answer.draft, c.schema)

(* Only a call past every gate has reported an execution. *)
TracedCall(c) ==
  Executed(c.trace) =>
    /\ Vetted(c.draft, c.schema)
    /\ c.stage \in Ran \cup {"done", "failed"}

CallInv(c) == TypedCall(c) /\ GatedCall(c) /\ AnsweredCall(c) /\ TracedCall(c)

EntryInv(k, answer) ==
  /\ ~answer.blocked /\ answer.reason = "none" /\ ~answer.cached
  /\ Fold[answer.question] = k[1]
  /\ Vetted(answer.draft, k[2])
  /\ Governed(answer)

Counters == {"requests", "hits", "blocked", "judged", "observed"}

WorldOK == clock \in Nat /\ had \subseteq Schemas /\ live \in had
CallsOK == req \in [Requests -> Calls] /\ \A r \in Requests : CallInv(req[r])
StoreOK ==
  /\ DOMAIN store \subseteq Keys
  /\ \A k \in DOMAIN store : store[k] \in Entries /\ EntryInv(k, store[k].answer)
LogsOK  == audited \in [Requests -> Seq(Answers)] /\ metrics \in [Counters -> Nat]

IInv == WorldOK /\ CallsOK /\ StoreOK /\ LogsOK

-----------------------------------------------------------------------------
(* The pieces a step is made of *)

LEMMA FailedType == FailedResult \in Results
BY DEF FailedResult, Results

Refusals == {"empty question", "question too long", "guardrail", "policy",
             "schema hallucination", "cost guard"}

LEMMA RefusalType ==
  ASSUME NEW question \in Questions, NEW draft \in Drafts \cup {None}, NEW reason \in Refusals
  PROVE  [question |-> question, draft |-> draft, blocked |-> TRUE, reason |-> reason,
          confidence |-> 0, rows |-> 0, truncated |-> FALSE, cached |-> FALSE] \in Answers
<1>1. reason \in {"none", "error", "empty question", "question too long", "guardrail",
                  "policy", "schema hallucination", "cost guard"}
  BY DEF Refusals
<1>2. 0 \in Int /\ 0 \in Nat
  OBVIOUS
<1> QED
  BY <1>1, <1>2, Zenon DEF Answers

LEMMA StagesAre ==
  /\ "idle" \in Stages /\ "check" \in Stages /\ "load" \in Stages
  /\ "stamp" \in Stages /\ "lookup" \in Stages /\ "generate" \in Stages
  /\ "guardrails" \in Stages /\ "policy" \in Stages /\ "schema" \in Stages
  /\ "explain" \in Stages /\ "execute" \in Stages /\ "judge" \in Stages
  /\ "score" \in Stages /\ "store" \in Stages /\ "audit" \in Stages
  /\ "done" \in Stages /\ "failed" \in Stages
BY DEF Stages, InFlight

LEMMA IdleType == Idle \in Calls
BY FailedType DEF Idle, Calls, Stages

(* what a call that ended may leave in its answer *)
Outcomes == Answers \cup {None}

(* A call that ends keeps what identifies it, and its answer. *)
LEMMA LeftFields ==
  ASSUME req \in [Requests -> Calls], NEW r \in Requests, NEW stage \in Stages,
         NEW answer \in Outcomes, NEW trace \in Seq(Events)
  PROVE  /\ Left(r, stage, answer, trace) \in Calls
         /\ Left(r, stage, answer, trace).stage = stage
         /\ Left(r, stage, answer, trace).answer = answer
         /\ Left(r, stage, answer, trace).trace = trace
         /\ Left(r, stage, answer, trace).question = req[r].question
         /\ Left(r, stage, answer, trace).schema = req[r].schema
         /\ Left(r, stage, answer, trace).draft = req[r].draft
<1>1. /\ req[r].question \in Questions \cup {None} /\ req[r].schema \in Schemas \cup {None}
      /\ req[r].draft \in Drafts \cup {None} /\ req[r].setAt \in Nat \cup {None}
  BY DEF Calls
<1>2. Left(r, stage, answer, trace) \in Calls
  BY <1>1, IdleType DEF Calls, Left, Outcomes
<1> QED
  BY <1>2, IdleType DEF Calls, Left

(* What is appended comes last. *)
LEMMA LastAppended ==
  ASSUME NEW trace \in Seq(Events), NEW e \in Events
  PROVE  Append(trace, e)[Len(trace) + 1] = e
OBVIOUS

(* Emitting an event adds that event to the trace and no other. *)
LEMMA EmittedEvents ==
  ASSUME NEW trace \in Seq(Events), NEW e \in Events
  PROVE  /\ Append(trace, e) \in Seq(Events)
         /\ e.step # "execute" => (Executed(Append(trace, e)) => Executed(trace))
<1>1. Append(trace, e) \in Seq(Events)
  OBVIOUS
<1>2. \A i \in DOMAIN Append(trace, e) :
        (i \in DOMAIN trace /\ Append(trace, e)[i] = trace[i]) \/ Append(trace, e)[i] = e
  OBVIOUS
<1> QED
  BY <1>1, <1>2 DEF Executed

LEMMA EventType ==
  \A step \in {"cache", "generate", "consistency", "guardrails", "policy",
               "schema", "explain", "execute", "judge", "score"},
     status \in {"ok", "blocked", "skip"} :
    [step |-> step, status |-> status] \in Events
<1>1. DOMAIN PipelineStages = 1 .. 10
  BY DEF PipelineStages
<1>2. /\ PipelineStages[1] = "cache" /\ PipelineStages[2] = "generate"
      /\ PipelineStages[3] = "consistency" /\ PipelineStages[4] = "guardrails"
      /\ PipelineStages[5] = "policy" /\ PipelineStages[6] = "schema"
      /\ PipelineStages[7] = "explain" /\ PipelineStages[8] = "execute"
      /\ PipelineStages[9] = "judge" /\ PipelineStages[10] = "score"
  BY DEF PipelineStages
<1>3. {PipelineStages[i] : i \in DOMAIN PipelineStages} =
        {"cache", "generate", "consistency", "guardrails", "policy",
         "schema", "explain", "execute", "judge", "score"}
  BY <1>1, <1>2
<1> QED
  BY <1>3 DEF Events

(* One call moves, and the others stay. *)
LEMMA Moved ==
  ASSUME CallsOK, NEW r \in Requests, NEW c \in Calls, CallInv(c),
         req' = [req EXCEPT ![r] = c]
  PROVE  CallsOK'
<1>1. req' \in [Requests -> Calls]
  BY DEF CallsOK
<1>2. \A x \in Requests : CallInv(req'[x])
  BY DEF CallsOK
<1> QED
  BY <1>1, <1>2 DEF CallsOK

LEMMA Logged ==
  ASSUME LogsOK
  PROVE  /\ \A name \in Counters : Count(name) => metrics' \in [Counters -> Nat]
         /\ \A r \in Requests, answer \in Answers :
              Audit(r, answer) => audited' \in [Requests -> Seq(Answers)]
<1>1. ASSUME NEW name \in Counters, Count(name) PROVE metrics' \in [Counters -> Nat]
  BY <1>1 DEF LogsOK, Count
<1>2. ASSUME NEW r \in Requests, NEW answer \in Answers, Audit(r, answer)
      PROVE  audited' \in [Requests -> Seq(Answers)]
  BY <1>2 DEF LogsOK, Audit
<1> QED
  BY <1>1, <1>2

-----------------------------------------------------------------------------
(* The three ways to leave a gate *)

LEMMA BlockKeepsInv ==
  ASSUME IInv, NEW r \in Requests,
         NEW step \in {"cache", "guardrails", "policy", "schema", "explain"},
         NEW reason \in Refusals,
         req[r].stage \in {"check", "guardrails", "policy", "schema", "explain"},
         Block(r, step, reason)
  PROVE  IInv'
<1> DEFINE answer == [question |-> req[r].question, draft |-> req[r].draft,
                      blocked |-> TRUE, reason |-> reason, confidence |-> 0,
                      rows |-> 0, truncated |-> FALSE, cached |-> FALSE]
           trace  == Emitted(r, step, "blocked")
           c      == Left(r, "done", answer, trace)
<1>1. /\ req[r] \in Calls /\ req[r].question \in Questions
      /\ TracedCall(req[r])
  BY DEF IInv, CallsOK, CallInv, TypedCall
<1>2. answer \in Answers
  <2>1. req[r].draft \in Drafts \cup {None}
    BY <1>1 DEF Calls
  <2> QED
    BY <1>1, <2>1, RefusalType
<1>3. /\ trace \in Seq(Events) /\ ~Executed(req[r].trace)
      /\ ~Executed(trace)
  <2>1. req[r].trace \in Seq(Events)
    BY <1>1 DEF Calls
  <2>2. [step |-> step, status |-> "blocked"] \in Events
    BY EventType
  <2>3. ~Executed(req[r].trace)
    BY <1>1 DEF TracedCall, Ran, WithExecute, WithExplain, WithSchema, WithPolicy
  <2> QED
    BY <2>1, <2>2, <2>3, EmittedEvents DEF Emitted
<1>4. /\ c \in Calls /\ c.stage = "done" /\ c.answer = answer /\ c.trace = trace
      /\ c.question = req[r].question
  <2> HIDE DEF answer, trace
  <2>1. req \in [Requests -> Calls]
    BY DEF IInv, CallsOK
  <2>2. "done" \in Stages /\ answer \in Outcomes
    BY <1>2 DEF Stages, Outcomes
  <2> QED
    BY <1>3, <2>1, <2>2, LeftFields
<1>5. CallInv(c)
  <2>1. answer.blocked /\ answer.rows = 0
    OBVIOUS
  <2>7. c.answer.blocked /\ c.answer.rows = 0
    BY <1>4, <2>1
  <2> HIDE DEF c, answer, trace
  <2>2. TypedCall(c)
    BY <1>1, <1>2, <1>4 DEF TypedCall, Drafted, WithPolicy
  <2>3. GatedCall(c)
    BY <1>4 DEF GatedCall, WithPolicy, WithSchema, WithExplain, WithExecute
  <2>4. AnsweredCall(c)
    <3>1. Governed(c.answer)
      BY <2>7 DEF Governed
    <3> QED
      BY <1>4, <2>7, <3>1 DEF AnsweredCall
  <2>5. TracedCall(c)
    BY <1>3, <1>4 DEF TracedCall
  <2> QED
    BY <2>2, <2>3, <2>4, <2>5 DEF CallInv
<1>6. CallsOK'
  <2>1. req' = [req EXCEPT ![r] = c]
    BY DEF Block
  <2> HIDE DEF c
  <2> QED
    BY <1>4, <1>5, <2>1, Moved DEF IInv
<1>7. LogsOK'
  <2>1. Count("blocked") /\ Audit(r, answer)
    BY DEF Block
  <2> HIDE DEF answer
  <2> QED
    BY <1>2, <2>1, Logged DEF IInv, LogsOK, Counters
<1>8. WorldOK' /\ StoreOK'
  BY DEF IInv, Block, WorldOK, StoreOK, world
<1> QED
  BY <1>6, <1>7, <1>8 DEF IInv

(* the stages in which something outside the call may raise *)
Raising == {"load", "generate", "guardrails", "policy", "schema", "explain", "execute", "judge"}

LEMMA RaiseKeepsInv ==
  ASSUME IInv, NEW r \in Requests, req[r].stage \in Raising,
         NEW trace \in Seq(Events), Executed(trace) => Executed(req[r].trace),
         RaiseAfter(r, trace)
  PROVE  IInv'
<1> DEFINE c == Left(r, "failed", None, trace)
<1>1. /\ req[r] \in Calls /\ req[r].question \in Questions
      /\ TracedCall(req[r])
  <2>1. req[r] \in Calls /\ CallInv(req[r])
    BY DEF IInv, CallsOK
  <2> QED
    BY <2>1 DEF CallInv, TypedCall, Raising
<1>2. /\ c \in Calls /\ c.stage = "failed" /\ c.trace = trace
      /\ c.question = req[r].question /\ c.schema = req[r].schema /\ c.draft = req[r].draft
  <2>1. req \in [Requests -> Calls]
    BY DEF IInv, CallsOK
  <2>2. "failed" \in Stages /\ None \in Outcomes
    BY DEF Stages, Outcomes
  <2> QED
    BY <1>1, <2>1, <2>2, LeftFields
<1>3. CallInv(c)
  <2> HIDE DEF c
  <2>1. TypedCall(c)
    BY <1>1, <1>2 DEF TypedCall, Drafted, WithPolicy
  <2>2. GatedCall(c) /\ AnsweredCall(c)
    BY <1>2 DEF GatedCall, AnsweredCall, WithPolicy, WithSchema, WithExplain, WithExecute
  <2>3. TracedCall(c)
    BY <1>1, <1>2 DEF TracedCall
  <2> QED
    BY <2>1, <2>2, <2>3 DEF CallInv
<1>4. CallsOK'
  <2>1. req' = [req EXCEPT ![r] = c]
    BY DEF RaiseAfter
  <2> HIDE DEF c
  <2> QED
    BY <1>2, <1>3, <2>1, Moved DEF IInv
<1> QED
  BY <1>4 DEF IInv, RaiseAfter, WorldOK, StoreOK, LogsOK, world

(* The same when the call has reported nothing since.                      *)
LEMMA RaiseAtOnceKeepsInv ==
  ASSUME IInv, NEW r \in Requests, req[r].stage \in Raising, Raise(r)
  PROVE  IInv'
<1>1. req[r].trace \in Seq(Events)
  BY DEF IInv, CallsOK, Calls
<1> QED
  BY <1>1, RaiseKeepsInv DEF Raise

(* A gate that passes: all that is left to show is what the gate checked.  *)
LEMMA PassKeepsInv ==
  ASSUME IInv, NEW r \in Requests,
         NEW step \in {"guardrails", "policy", "schema", "explain"},
         NEW next \in {"policy", "schema", "explain"},
         req[r].stage \in {"guardrails", "policy", "schema", "explain"},
         Pass(r, step, next),
         req[r].draft \in ReadOnly,
         next # "policy" => <<req[r].draft, req[r].schema>> \in Permitted,
         next = "explain" => <<req[r].draft, req[r].schema>> \in WellFormed
  PROVE  IInv'
<1> DEFINE c == [req[r] EXCEPT !.stage = next, !.trace = Emitted(r, step, "ok")]
<1>1. /\ req[r] \in Calls /\ req[r].trace \in Seq(Events)
      /\ TypedCall(req[r]) /\ TracedCall(req[r])
  BY DEF IInv, CallsOK, CallInv, Calls
<1>2. Emitted(r, step, "ok") \in Seq(Events) /\ ~Executed(Emitted(r, step, "ok"))
  <2>1. [step |-> step, status |-> "ok"] \in Events
    BY EventType
  <2>2. ~Executed(req[r].trace)
    BY <1>1 DEF TracedCall, Ran, WithExecute, WithExplain, WithSchema, WithPolicy
  <2> QED
    BY <1>1, <2>1, <2>2, EmittedEvents DEF Emitted
<1>3. /\ c \in Calls /\ c.stage = next /\ c.trace = Emitted(r, step, "ok")
      /\ c.question = req[r].question /\ c.schema = req[r].schema /\ c.draft = req[r].draft
  <2>1. next \in Stages
    BY StagesAre
  <2> QED
    BY <1>1, <1>2, <2>1 DEF Calls
<1>4. req' = [req EXCEPT ![r] = c]
  BY DEF Pass, IInv, CallsOK, Calls
<1> HIDE DEF c
<1>5. CallInv(c)
  <2>1. TypedCall(c)
    BY <1>1, <1>3 DEF TypedCall, Drafted, WithPolicy
  <2>2. GatedCall(c)
    BY <1>3 DEF GatedCall, WithPolicy, WithSchema, WithExplain, WithExecute
  <2>3. AnsweredCall(c) /\ TracedCall(c)
    BY <1>2, <1>3 DEF AnsweredCall, TracedCall
  <2> QED
    BY <2>1, <2>2, <2>3 DEF CallInv
<1>6. CallsOK'
  BY <1>3, <1>4, <1>5, Moved DEF IInv
<1> QED
  BY <1>6 DEF IInv, Pass, WorldOK, StoreOK, LogsOK, world

(* The gate that keeps the plan it checked. *)
LEMMA PlanKeepsInv ==
  ASSUME IInv, NEW r \in Requests, req[r].stage = "explain",
         Vetted(req[r].draft, req[r].schema),
         NEW plan \in Plans[req[r].draft], WithinBudget(plan), PassWithPlan(r, plan)
  PROVE  IInv'
<1> DEFINE trace == Emitted(r, "explain", "ok")
           c     == [req[r] EXCEPT !.stage = "execute", !.plan = plan, !.trace = trace]
<1>1. /\ req[r] \in Calls /\ req[r].trace \in Seq(Events) /\ req[r].draft \in Drafts
      /\ TypedCall(req[r]) /\ TracedCall(req[r])
  BY DEF IInv, CallsOK, CallInv, Calls, TypedCall, Drafted, WithPolicy
<1>2. trace \in Seq(Events) /\ ~Executed(trace)
  <2>1. [step |-> "explain", status |-> "ok"] \in Events
    BY EventType
  <2>2. ~Executed(req[r].trace)
    BY <1>1 DEF TracedCall, Ran, WithExecute, WithExplain, WithSchema, WithPolicy
  <2> QED
    BY <1>1, <2>1, <2>2, EmittedEvents DEF Emitted
<1> HIDE DEF trace
<1>3. /\ c \in Calls /\ c.stage = "execute" /\ c.trace = trace /\ c.plan = plan
      /\ c.question = req[r].question /\ c.schema = req[r].schema /\ c.draft = req[r].draft
  <2>1. plan \in Estimates \cup {None}
    BY <1>1 DEF Estimates
  <2> QED
    BY <1>1, <1>2, <2>1, StagesAre DEF Calls
<1>4. req' = [req EXCEPT ![r] = c]
  BY DEF PassWithPlan, IInv, CallsOK, Calls, trace
<1> HIDE DEF c
<1>5. CallInv(c)
  <2>1. TypedCall(c)
    BY <1>1, <1>3 DEF TypedCall, Drafted, WithPolicy
  <2>2. GatedCall(c)
    BY <1>3 DEF GatedCall, Affordable, Vetted
  <2>3. AnsweredCall(c) /\ TracedCall(c)
    BY <1>2, <1>3 DEF AnsweredCall, TracedCall
  <2> QED
    BY <2>1, <2>2, <2>3 DEF CallInv
<1>6. CallsOK'
  BY <1>3, <1>4, <1>5, Moved DEF IInv
<1> QED
  BY <1>6 DEF IInv, PassWithPlan, WorldOK, StoreOK, LogsOK, world

(* A call's trace grows by what it emits; until it has passed every gate   *)
(* no execution is in it.                                                  *)
Steps == {"cache", "generate", "consistency", "guardrails", "policy",
          "schema", "explain", "execute", "judge", "score"}

LEMMA Emission ==
  ASSUME CallsOK, NEW r \in Requests, NEW step \in Steps, NEW status \in {"ok", "blocked", "skip"}
  PROVE  /\ Emitted(r, step, status) \in Seq(Events)
         /\ step # "execute" => (Executed(Emitted(r, step, status)) => Executed(req[r].trace))
<1>1. req[r].trace \in Seq(Events)
  BY DEF CallsOK, Calls
<1>2. [step |-> step, status |-> status] \in Events
  BY EventType DEF Steps
<1> QED
  BY <1>1, <1>2, EmittedEvents DEF Emitted

LEMMA NotExecuted ==
  ASSUME CallsOK, NEW r \in Requests, req[r].stage \notin Ran \cup {"done", "failed"}
  PROVE  ~Executed(req[r].trace)
BY DEF CallsOK, CallInv, TracedCall

(* Before a draft is chosen the invariant asks little of a call. *)
LEMMA EarlyCall ==
  ASSUME NEW c, c.stage \in {"check", "load", "stamp", "lookup", "generate"},
         c.question \in Questions,
         c.stage \notin {"check", "load"} => c.schema \in Schemas,
         ~Executed(c.trace)
  PROVE  CallInv(c)
<1>1. TypedCall(c) /\ GatedCall(c)
  BY DEF TypedCall, GatedCall, Drafted, WithExecute, WithExplain, WithSchema, WithPolicy
<1>2. AnsweredCall(c) /\ TracedCall(c)
  BY DEF AnsweredCall, TracedCall
<1> QED
  BY <1>1, <1>2 DEF CallInv

(* A step of a call that leaves the world, the store and the logs alone.   *)
LEMMA MoveKeepsInv ==
  ASSUME IInv, NEW r \in Requests, NEW c \in Calls, CallInv(c),
         req' = [req EXCEPT ![r] = c],
         UNCHANGED <<world, store>>, LogsOK'
  PROVE  IInv'
<1>1. CallsOK'
  BY Moved DEF IInv
<1> QED
  BY <1>1 DEF IInv, WorldOK, StoreOK, world

-----------------------------------------------------------------------------
(* One lemma per action *)

LEMMA AskKeepsInv ==
  ASSUME IInv, NEW r \in Requests, NEW q \in Questions, Ask(r, q)
  PROVE  IInv'
<1> DEFINE c == [req[r] EXCEPT !.stage = "check", !.question = q]
<1>1. req[r] \in Calls /\ req[r].stage = "idle" /\ TracedCall(req[r])
  BY DEF IInv, CallsOK, CallInv, Ask, At
<1>2. /\ c \in Calls /\ c.stage = "check" /\ c.question = q
      /\ c.trace = req[r].trace
  BY <1>1, StagesAre DEF Calls
<1>3. req' = [req EXCEPT ![r] = c]
  BY DEF Ask, IInv, CallsOK, Calls
<1>4. ~Executed(req[r].trace)
  BY <1>1, NotExecuted DEF IInv, Ran, WithExecute, WithExplain, WithSchema, WithPolicy
<1> HIDE DEF c
<1>5. CallInv(c)
  BY <1>2, <1>4, EarlyCall
<1>6. LogsOK'
  <2>1. Count("requests") /\ audited' = audited
    BY DEF Ask
  <2> QED
    BY <2>1, Logged DEF IInv, LogsOK, Counters
<1> QED
  BY <1>2, <1>3, <1>5, <1>6, MoveKeepsInv DEF Ask

LEMMA CheckQuestionKeepsInv ==
  ASSUME IInv, NEW r \in Requests, CheckQuestion(r)
  PROVE  IInv'
<1>1. req[r].stage = "check"
  BY DEF CheckQuestion, At
<1>2. CASE Block(r, "cache", "empty question")
  BY <1>1, <1>2, BlockKeepsInv DEF Refusals
<1>3. CASE Block(r, "cache", "question too long")
  BY <1>1, <1>3, BlockKeepsInv DEF Refusals
<1>4. CASE req' = [req EXCEPT ![r].stage = "load"] /\ UNCHANGED <<world, store, audited, metrics>>
  <2> DEFINE c == [req[r] EXCEPT !.stage = "load"]
  <2>1. req[r] \in Calls /\ req[r].question \in Questions
    BY <1>1 DEF IInv, CallsOK, CallInv, TypedCall
  <2>2. /\ c \in Calls /\ c.stage = "load" /\ c.question = req[r].question
        /\ c.trace = req[r].trace
    BY <2>1, StagesAre DEF Calls
  <2>3. req' = [req EXCEPT ![r] = c]
    BY <1>4 DEF IInv, CallsOK, Calls
  <2>4. ~Executed(req[r].trace)
    BY <1>1, NotExecuted DEF IInv, Ran, WithExecute, WithExplain, WithSchema, WithPolicy
  <2> HIDE DEF c
  <2>5. CallInv(c)
    BY <2>1, <2>2, <2>4, EarlyCall
  <2>6. LogsOK'
    BY <1>4 DEF IInv, LogsOK
  <2> QED
    BY <1>4, <2>2, <2>3, <2>5, <2>6, MoveKeepsInv
<1> QED
  BY <1>2, <1>3, <1>4 DEF CheckQuestion

LEMMA LoadSchemaKeepsInv ==
  ASSUME IInv, NEW r \in Requests, LoadSchema(r)
  PROVE  IInv'
<1>1. req[r].stage = "load"
  BY DEF LoadSchema, At
<1>2. CASE Raise(r)
  BY <1>1, <1>2, RaiseAtOnceKeepsInv DEF Raising
<1>3. ASSUME NEW s \in had, NEW stage \in {"stamp", "generate"}, NEW trace,
             trace \in {req[r].trace, Emitted(r, "cache", "skip")},
             req' = [req EXCEPT ![r].stage = stage, ![r].schema = s, ![r].trace = trace],
             UNCHANGED <<world, store, audited, metrics>>
      PROVE  IInv'
  <2> DEFINE c == [req[r] EXCEPT !.stage = stage, !.schema = s, !.trace = trace]
  <2>1. /\ req[r] \in Calls /\ req[r].question \in Questions
        /\ req[r].trace \in Seq(Events) /\ s \in Schemas
    BY <1>1 DEF IInv, CallsOK, CallInv, TypedCall, WorldOK, Calls
  <2>2. ~Executed(req[r].trace)
    BY <1>1, NotExecuted DEF IInv, Ran, WithExecute, WithExplain, WithSchema, WithPolicy
  <2>3. trace \in Seq(Events) /\ ~Executed(trace)
    BY <1>3, <2>1, <2>2, Emission DEF IInv, Steps
  <2>4. /\ c \in Calls /\ c.stage = stage /\ c.question = req[r].question
        /\ c.schema = s /\ c.trace = trace
    BY <2>1, <2>3, StagesAre DEF Calls
  <2>5. req' = [req EXCEPT ![r] = c]
    BY <1>3 DEF IInv, CallsOK, Calls
  <2> HIDE DEF c
  <2>6. CallInv(c)
    BY <2>1, <2>3, <2>4, EarlyCall
  <2>7. LogsOK'
    BY <1>3 DEF IInv, LogsOK
  <2> QED
    BY <1>3, <2>4, <2>5, <2>6, <2>7, MoveKeepsInv
<1>4. CASE ~Raise(r)
  <2>1. PICK s \in had :
          /\ req' = [req EXCEPT ![r].stage = IF CacheEnabled THEN "stamp" ELSE "generate",
                                ![r].schema = s,
                                ![r].trace = IF CacheEnabled THEN @
                                             ELSE Emitted(r, "cache", "skip")]
          /\ UNCHANGED <<world, store, audited, metrics>>
    BY <1>4 DEF LoadSchema
  <2>2. CASE CacheEnabled
    <3>1. req' = [req EXCEPT ![r].stage = "stamp", ![r].schema = s, ![r].trace = req[r].trace]
      BY <2>1, <2>2 DEF IInv, CallsOK, Calls
    <3> QED
      BY <2>1, <3>1, <1>3
  <2>3. CASE ~CacheEnabled
    <3>1. req' = [req EXCEPT ![r].stage = "generate", ![r].schema = s,
                             ![r].trace = Emitted(r, "cache", "skip")]
      BY <2>1, <2>3
    <3> QED
      BY <2>1, <3>1, <1>3
  <2> QED
    BY <2>2, <2>3
<1> QED
  BY <1>2, <1>4

LEMMA StampLookupKeepsInv ==
  ASSUME IInv, NEW r \in Requests, StampLookup(r)
  PROVE  IInv'
<1> DEFINE c == [req[r] EXCEPT !.stage = "lookup", !.now = clock]
<1>1. /\ req[r] \in Calls /\ req[r].question \in Questions /\ req[r].schema \in Schemas
      /\ req[r].stage = "stamp" /\ clock \in Nat
  BY DEF IInv, CallsOK, CallInv, TypedCall, WorldOK, StampLookup, At
<1>2. /\ c \in Calls /\ c.stage = "lookup" /\ c.question = req[r].question
      /\ c.schema = req[r].schema /\ c.trace = req[r].trace
  BY <1>1, StagesAre DEF Calls
<1>3. req' = [req EXCEPT ![r] = c]
  BY DEF StampLookup, IInv, CallsOK, Calls
<1>4. ~Executed(req[r].trace)
  BY <1>1, NotExecuted DEF IInv, Ran, WithExecute, WithExplain, WithSchema, WithPolicy
<1> HIDE DEF c
<1>5. CallInv(c)
  BY <1>1, <1>2, <1>4, EarlyCall
<1>6. LogsOK'
  BY DEF StampLookup, IInv, LogsOK
<1> QED
  BY <1>2, <1>3, <1>5, <1>6, MoveKeepsInv DEF StampLookup

LEMMA MissKeepsInv ==
  ASSUME IInv, NEW r \in Requests, Miss(r)
  PROVE  IInv'
<1> DEFINE key == MakeKey(req[r].question, req[r].schema)
           c   == [req[r] EXCEPT !.stage = "generate", !.trace = Emitted(r, "cache", "skip")]
<1>1. /\ req[r] \in Calls /\ req[r].question \in Questions /\ req[r].schema \in Schemas
      /\ req[r].stage = "lookup"
  BY DEF IInv, CallsOK, CallInv, TypedCall, Miss, At
<1>2. Emitted(r, "cache", "skip") \in Seq(Events) /\ ~Executed(Emitted(r, "cache", "skip"))
  <2>1. ~Executed(req[r].trace)
    BY <1>1, NotExecuted DEF IInv, Ran, WithExecute, WithExplain, WithSchema, WithPolicy
  <2> QED
    BY <2>1, Emission DEF IInv, Steps
<1>3. /\ c \in Calls /\ c.stage = "generate" /\ c.question = req[r].question
      /\ c.schema = req[r].schema /\ c.trace = Emitted(r, "cache", "skip")
  BY <1>1, <1>2, StagesAre DEF Calls
<1>4. req' = [req EXCEPT ![r] = c]
  BY DEF Miss, IInv, CallsOK, Calls
<1> HIDE DEF c
<1>5. CallInv(c)
  BY <1>1, <1>2, <1>3, EarlyCall
<1>6. CallsOK'
  BY <1>3, <1>4, <1>5, Moved DEF IInv
<1>7. StoreOK'
  <2>1. store' = Swept(key, req[r].now)
    BY DEF Miss
  <2> HIDE DEF key
  <2>2. /\ DOMAIN store' \subseteq DOMAIN store
        /\ \A k \in DOMAIN store' : store'[k] = store[k]
    BY <2>1 DEF Swept, Pop, Restrict
  <2> QED
    BY <2>2 DEF IInv, StoreOK
<1> QED
  BY <1>6, <1>7 DEF IInv, Miss, WorldOK, LogsOK, world

(* The replayed answer was vetted under the schema of its key, and the key *)
(* is the caller's: so it is vetted under the schema the caller loaded.    *)
LEMMA HitKeepsInv ==
  ASSUME IInv, NEW r \in Requests, Hit(r)
  PROVE  IInv'
<1> DEFINE key    == MakeKey(req[r].question, req[r].schema)
           stored == store[key].answer
           answer == [stored EXCEPT !.cached = TRUE]
           trace  == Emitted(r, "cache", "ok")
           c      == Left(r, "done", answer, trace)
<1>1. /\ req \in [Requests -> Calls] /\ req[r].question \in Questions
      /\ req[r].stage = "lookup"
  BY DEF IInv, CallsOK, CallInv, TypedCall, Hit, At
<1>2. trace \in Seq(Events) /\ ~Executed(trace)
  <2>1. ~Executed(req[r].trace)
    BY <1>1, NotExecuted DEF IInv, Ran, WithExecute, WithExplain, WithSchema, WithPolicy
  <2> QED
    BY <2>1, Emission DEF IInv, Steps
<1>3. key \in DOMAIN store
  BY DEF Hit, Live
<1>4. stored \in Answers /\ EntryInv(key, stored)
  <2> HIDE DEF key
  <2> QED
    BY <1>3 DEF IInv, StoreOK, Entries
<1>5. key[2] = req[r].schema
  BY DEF MakeKey
<1> HIDE DEF key, stored
<1>6. /\ answer \in Answers
      /\ answer.draft = stored.draft /\ answer.rows = stored.rows
      /\ answer.reason = stored.reason /\ answer.confidence = stored.confidence
  BY <1>4 DEF Answers
<1>7. Governed(answer) /\ Vetted(answer.draft, req[r].schema)
  BY <1>4, <1>5, <1>6 DEF EntryInv, Governed
<1> HIDE DEF answer, trace
<1>8. /\ c \in Calls /\ c.stage = "done" /\ c.answer = answer /\ c.trace = trace
      /\ c.question = req[r].question /\ c.schema = req[r].schema
  <2>1. "done" \in Stages /\ answer \in Outcomes
    BY <1>6 DEF Stages, Outcomes
  <2> QED
    BY <1>1, <1>2, <2>1, LeftFields
<1> HIDE DEF c
<1>9. CallInv(c)
  <2>1. TypedCall(c)
    BY <1>1, <1>6, <1>8 DEF TypedCall, Drafted, WithPolicy
  <2>2. GatedCall(c)
    BY <1>8 DEF GatedCall, WithPolicy, WithSchema, WithExplain, WithExecute
  <2>3. AnsweredCall(c)
    BY <1>7, <1>8 DEF AnsweredCall
  <2>4. TracedCall(c)
    BY <1>2, <1>8 DEF TracedCall
  <2> QED
    BY <2>1, <2>2, <2>3, <2>4 DEF CallInv
<1>10. req' = [req EXCEPT ![r] = c]
  BY DEF Hit, c, answer, trace, stored, key
<1>11. LogsOK'
  <2>1. Count("hits") /\ audited' = audited
    BY DEF Hit
  <2> QED
    BY <2>1, Logged DEF IInv, LogsOK, Counters
<1> QED
  BY <1>8, <1>9, <1>10, <1>11, MoveKeepsInv DEF Hit

LEMMA GenerateKeepsInv ==
  ASSUME IInv, NEW r \in Requests, Generate(r)
  PROVE  IInv'
<1>1. req[r].stage = "generate"
  BY DEF Generate, At
<1>2. CASE Raise(r)
  BY <1>1, <1>2, RaiseAtOnceKeepsInv DEF Raising
<1>3. ASSUME NEW candidates \in [1 .. NumSamples -> Drafts],
             req' = [req EXCEPT ![r].stage = "guardrails",
                                ![r].draft = Consistency(candidates).chosen,
                                ![r].agreement = Consistency(candidates).agreement,
                                ![r].trace = Append(Emitted(r, "generate", "ok"),
                                                    [step |-> "consistency", status |-> "ok"])],
             UNCHANGED <<world, store, audited, metrics>>
      PROVE  IInv'
  <2> DEFINE vote  == Consistency(candidates)
             trace == Append(Emitted(r, "generate", "ok"),
                             [step |-> "consistency", status |-> "ok"])
             c     == [req[r] EXCEPT !.stage = "guardrails", !.draft = vote.chosen,
                                     !.agreement = vote.agreement, !.trace = trace]
  <2>1. vote.chosen \in Drafts /\ vote.agreement \in Nat
    BY ConsistencyType, PipelineAssumption
  <2>2. trace \in Seq(Events) /\ ~Executed(trace)
    <3>1. ~Executed(req[r].trace)
      BY <1>1, NotExecuted DEF IInv, Ran, WithExecute, WithExplain, WithSchema, WithPolicy
    <3>2. Emitted(r, "generate", "ok") \in Seq(Events) /\ ~Executed(Emitted(r, "generate", "ok"))
      BY <3>1, Emission DEF IInv, Steps
    <3>3. [step |-> "consistency", status |-> "ok"] \in Events
      BY EventType
    <3> QED
      BY <3>2, <3>3, EmittedEvents
  <2>3. req' = [req EXCEPT ![r] = c]
    BY <1>3 DEF IInv, CallsOK, Calls
  <2>4. req[r] \in Calls /\ req[r].question \in Questions /\ req[r].schema \in Schemas
    BY <1>1 DEF IInv, CallsOK, CallInv, TypedCall
  <2> HIDE DEF vote, trace
  <2>5. /\ c \in Calls /\ c.stage = "guardrails" /\ c.question = req[r].question
        /\ c.schema = req[r].schema /\ c.draft = vote.chosen /\ c.trace = trace
    BY <2>1, <2>2, <2>4, StagesAre DEF Calls
  <2> HIDE DEF c
  <2>6. CallInv(c)
    <3>1. TypedCall(c)
      BY <2>1, <2>4, <2>5 DEF TypedCall
    <3>2. GatedCall(c)
      BY <2>5 DEF GatedCall, WithPolicy, WithSchema, WithExplain, WithExecute
    <3>3. AnsweredCall(c) /\ TracedCall(c)
      BY <2>2, <2>5 DEF AnsweredCall, TracedCall
    <3> QED
      BY <3>1, <3>2, <3>3 DEF CallInv
  <2>7. LogsOK'
    BY <1>3 DEF IInv, LogsOK
  <2> QED
    BY <1>3, <2>3, <2>5, <2>6, <2>7, MoveKeepsInv
<1>4. CASE RaiseAfter(r, Emitted(r, "generate", "ok"))
  BY <1>1, <1>4, Emission, RaiseKeepsInv DEF IInv, Steps, Raising
<1> QED
  BY <1>2, <1>3, <1>4 DEF Generate

LEMMA GatesKeepInv ==
  ASSUME IInv, NEW r \in Requests,
         Guardrails(r) \/ PolicyGate(r) \/ SchemaGate(r) \/ Explain(r)
  PROVE  IInv'
<1>1. GatedCall(req[r])
  BY DEF IInv, CallsOK, CallInv
<1>2. CASE Guardrails(r)
  <2>1. req[r].stage = "guardrails"
    BY <1>2 DEF Guardrails, At
  <2>2. CASE req[r].draft \in ReadOnly /\ ~Raise(r)
    BY <1>2, <2>1, <2>2, PassKeepsInv DEF Guardrails
  <2>3. CASE req[r].draft \notin ReadOnly /\ ~Raise(r)
    BY <1>2, <2>1, <2>3, BlockKeepsInv DEF Guardrails, Refusals
  <2>4. CASE Raise(r)
    BY <2>1, <2>4, RaiseAtOnceKeepsInv DEF Raising
  <2> QED
    BY <1>2, <2>2, <2>3, <2>4 DEF Guardrails
<1>3. CASE PolicyGate(r)
  <2>1. req[r].stage = "policy" /\ req[r].draft \in ReadOnly
    BY <1>1, <1>3 DEF PolicyGate, At, GatedCall, WithPolicy
  <2>2. CASE <<req[r].draft, req[r].schema>> \in Permitted /\ ~Raise(r)
    BY <1>3, <2>1, <2>2, PassKeepsInv DEF PolicyGate
  <2>3. CASE <<req[r].draft, req[r].schema>> \notin Permitted /\ ~Raise(r)
    BY <1>3, <2>1, <2>3, BlockKeepsInv DEF PolicyGate, Refusals
  <2>4. CASE Raise(r)
    BY <2>1, <2>4, RaiseAtOnceKeepsInv DEF Raising
  <2> QED
    BY <1>3, <2>2, <2>3, <2>4 DEF PolicyGate
<1>4. CASE SchemaGate(r)
  <2>1. /\ req[r].stage = "schema" /\ req[r].draft \in ReadOnly
        /\ <<req[r].draft, req[r].schema>> \in Permitted
    BY <1>1, <1>4 DEF SchemaGate, At, GatedCall, WithPolicy, WithSchema
  <2>2. CASE <<req[r].draft, req[r].schema>> \in WellFormed /\ ~Raise(r)
    BY <1>4, <2>1, <2>2, PassKeepsInv DEF SchemaGate
  <2>3. CASE <<req[r].draft, req[r].schema>> \notin WellFormed /\ ~Raise(r)
    BY <1>4, <2>1, <2>3, BlockKeepsInv DEF SchemaGate, Refusals
  <2>4. CASE Raise(r)
    BY <2>1, <2>4, RaiseAtOnceKeepsInv DEF Raising
  <2> QED
    BY <1>4, <2>2, <2>3, <2>4 DEF SchemaGate
<1>5. CASE Explain(r)
  <2>1. /\ req[r].stage = "explain" /\ req[r].draft \in ReadOnly
        /\ <<req[r].draft, req[r].schema>> \in Permitted
        /\ <<req[r].draft, req[r].schema>> \in WellFormed
    BY <1>1, <1>5 DEF Explain, At, GatedCall, WithPolicy, WithSchema, WithExplain
  <2>2. ASSUME NEW plan \in Plans[req[r].draft], WithinBudget(plan), PassWithPlan(r, plan)
        PROVE  IInv'
    BY <2>1, <2>2, PlanKeepsInv DEF Vetted
  <2>3. CASE Block(r, "explain", "cost guard")
    BY <2>1, <2>3, BlockKeepsInv DEF Refusals
  <2>4. CASE Raise(r)
    BY <2>1, <2>4, RaiseAtOnceKeepsInv DEF Raising
  <2> QED
    BY <1>5, <2>2, <2>3, <2>4 DEF Explain
<1> QED
  BY <1>2, <1>3, <1>4, <1>5

(* The rows of a result, before and after the cap. *)
LEMMA ResultCapped ==
  ASSUME NEW d \in Drafts, NEW matching \in Nat
  PROVE  /\ Capped(Fetched(d, matching)) \in Results
         /\ Capped(Fetched(d, matching)).ok
         /\ MaxResultRows >= 0 => Capped(Fetched(d, matching)).rows <= MaxResultRows
         /\ Wanted(d, matching) \in Nat
<1>1. EnforcedLimit(d) \in Nat /\ MaxRows \in Nat /\ MaxResultRows \in Int
  BY PipelineAssumption DEF EnforcedLimit
<1>2. /\ Fetched(d, matching) \in Results /\ Fetched(d, matching).ok
  BY <1>1 DEF Fetched, Lesser, Results
<1>3. Wanted(d, matching) \in Nat
  BY PipelineAssumption DEF Wanted, Lesser
<1> DEFINE f == Fetched(d, matching)
<1> HIDE DEF f
<1>4. f \in Results /\ f.ok
  BY <1>2 DEF f
<1>5. Capped(f) \in Results /\ Capped(f).ok
  <2>1. CASE MaxResultRows >= 0 /\ f.rows > MaxResultRows
    <3>1. Capped(f) = [f EXCEPT !.rows = MaxResultRows, !.truncated = TRUE]
      BY <1>4, <2>1 DEF Capped
    <3>2. MaxResultRows \in Nat
      BY <1>1, <2>1
    <3> QED
      BY <1>4, <3>1, <3>2 DEF Results
  <2>2. CASE ~(MaxResultRows >= 0 /\ f.rows > MaxResultRows)
    <3>1. Capped(f) = f
      BY <2>2 DEF Capped
    <3> QED
      BY <1>4, <3>1
  <2> QED
    BY <2>1, <2>2
<1>6. MaxResultRows >= 0 => Capped(f).rows <= MaxResultRows
  BY <1>1, <1>4 DEF Capped, Results
<1> QED
  BY <1>3, <1>5, <1>6 DEF f

LEMMA ExecuteKeepsInv ==
  ASSUME IInv, NEW r \in Requests, Execute(r)
  PROVE  IInv'
<1>1. /\ req[r] \in Calls /\ req[r].question \in Questions /\ req[r].schema \in Schemas
      /\ req[r].draft \in Drafts /\ req[r].stage = "execute"
  BY DEF IInv, CallsOK, CallInv, TypedCall, Drafted, WithPolicy, Execute, At
<1>2. Vetted(req[r].draft, req[r].schema) /\ Affordable(req[r])
  BY <1>1 DEF IInv, CallsOK, CallInv, GatedCall, WithPolicy, WithSchema, WithExplain,
              WithExecute, Vetted
<1>3. ASSUME NEW result \in Results, NEW wanted \in Nat, NEW status \in {"ok", "blocked"},
             result.ok \/ result.rows = 0,
             MaxResultRows >= 0 => result.rows <= MaxResultRows,
             req' = [req EXCEPT ![r].stage = "judge", ![r].result = result,
                                ![r].wanted = wanted,
                                ![r].trace = Emitted(r, "execute", status)]
      PROVE  IInv'
  <2> DEFINE trace == Emitted(r, "execute", status)
             c     == [req[r] EXCEPT !.stage = "judge", !.result = result,
                                     !.wanted = wanted, !.trace = trace]
  <2>1. trace \in Seq(Events)
    BY Emission DEF IInv, Steps
  <2>2. req' = [req EXCEPT ![r] = c]
    BY <1>3 DEF IInv, CallsOK, Calls
  <2> HIDE DEF trace
  <2>3. /\ c \in Calls /\ c.stage = "judge" /\ c.result = result /\ c.plan = req[r].plan
        /\ c.question = req[r].question /\ c.schema = req[r].schema /\ c.draft = req[r].draft
    BY <1>1, <2>1, StagesAre DEF Calls
  <2> HIDE DEF c
  <2>4. CallInv(c)
    <3>1. TypedCall(c)
      BY <1>1, <2>3 DEF TypedCall
    <3>2. GatedCall(c)
      BY <1>2, <2>3 DEF GatedCall, Vetted, Affordable
    <3>3. AnsweredCall(c)
      BY <1>3, <2>3 DEF AnsweredCall
    <3>4. TracedCall(c)
      BY <1>2, <2>3 DEF TracedCall, Ran, WithExecute, WithExplain, WithSchema, WithPolicy
    <3> QED
      BY <3>1, <3>2, <3>3, <3>4 DEF CallInv
  <2>5. LogsOK'
    BY DEF IInv, LogsOK, Execute
  <2> QED
    BY <2>2, <2>3, <2>4, <2>5, MoveKeepsInv DEF Execute
<1>4. ASSUME NEW matching \in Matching[req[r].draft],
             req' = [req EXCEPT ![r].stage = "judge",
                                ![r].result = Capped(Fetched(req[r].draft, matching)),
                                ![r].wanted = Wanted(req[r].draft, matching),
                                ![r].trace = Emitted(r, "execute", "ok")]
      PROVE  IInv'
  <2>1. matching \in Nat
    BY <1>1, PipelineAssumption
  <2> QED
    BY <1>1, <1>3, <1>4, <2>1, ResultCapped
<1>5. CASE req' = [req EXCEPT ![r].stage = "judge", ![r].result = FailedResult,
                              ![r].trace = Emitted(r, "execute", "blocked")]
  <2>1. /\ FailedResult \in Results /\ FailedResult.rows = 0
        /\ MaxResultRows >= 0 => FailedResult.rows <= MaxResultRows
    BY FailedType DEF FailedResult
  <2>2. req[r].wanted \in Nat
    BY <1>1 DEF Calls
  <2>3. req' = [req EXCEPT ![r].stage = "judge", ![r].result = FailedResult,
                           ![r].wanted = req[r].wanted,
                           ![r].trace = Emitted(r, "execute", "blocked")]
    BY <1>5 DEF IInv, CallsOK, Calls
  <2> QED
    BY <1>3, <2>1, <2>2, <2>3
<1>6. CASE Raise(r)
  BY <1>1, <1>6, RaiseAtOnceKeepsInv DEF Raising
<1> QED
  BY <1>4, <1>5, <1>6 DEF Execute

LEMMA JudgeKeepsInv ==
  ASSUME IInv, NEW r \in Requests, Judge(r) \/ SkipJudge(r)
  PROVE  IInv'
<1>1. /\ req[r] \in Calls /\ req[r].stage = "judge" /\ CallInv(req[r])
  BY DEF IInv, CallsOK, Judge, SkipJudge, At
<1>2. CASE Raise(r)
  BY <1>1, <1>2, RaiseAtOnceKeepsInv DEF Raising
<1>3. ASSUME NEW verdict \in Int \cup {NaN}, NEW status \in {"ok", "skip"},
             req' = [req EXCEPT ![r].stage = "score", ![r].verdict = verdict,
                                ![r].trace = Emitted(r, "judge", status)],
             UNCHANGED <<world, store>>, LogsOK'
      PROVE  IInv'
  <2> DEFINE trace == Emitted(r, "judge", status)
             c     == [req[r] EXCEPT !.stage = "score", !.verdict = verdict, !.trace = trace]
  <2>1. trace \in Seq(Events)
    BY Emission DEF IInv, Steps
  <2>2. Executed(trace) => Executed(req[r].trace)
    BY Emission DEF IInv, Steps
  <2>3. req' = [req EXCEPT ![r] = c]
    BY <1>3 DEF IInv, CallsOK, Calls
  <2> HIDE DEF trace
  <2>4. /\ c \in Calls /\ c.stage = "score" /\ c.result = req[r].result /\ c.trace = trace
        /\ c.plan = req[r].plan
        /\ c.question = req[r].question /\ c.schema = req[r].schema /\ c.draft = req[r].draft
    BY <1>1, <2>1, StagesAre DEF Calls
  <2> HIDE DEF c
  <2>5. CallInv(c)
    <3>1. TypedCall(c)
      BY <1>1, <2>4 DEF CallInv, TypedCall, Drafted, WithPolicy
    <3>2. GatedCall(c)
      BY <1>1, <2>4 DEF CallInv, GatedCall, WithPolicy, WithSchema, WithExplain, WithExecute,
                        Affordable
    <3>3. AnsweredCall(c)
      BY <1>1, <2>4 DEF CallInv, AnsweredCall
    <3>4. TracedCall(c)
      BY <1>1, <2>2, <2>4
         DEF CallInv, TracedCall, Ran, WithExecute, WithExplain, WithSchema, WithPolicy
    <3> QED
      BY <3>1, <3>2, <3>3, <3>4 DEF CallInv
  <2> QED
    BY <1>3, <2>3, <2>4, <2>5, MoveKeepsInv
<1>4. CASE SkipJudge(r)
  <2>1. req[r].agreement \in Int
    BY <1>1 DEF Calls
  <2>2. LogsOK'
    BY <1>4 DEF SkipJudge, IInv, LogsOK
  <2> QED
    BY <1>3, <1>4, <2>1, <2>2 DEF SkipJudge
<1>5. CASE Judge(r) /\ ~Raise(r)
  <2>1. PICK verdict \in JudgeScores :
          /\ Count("judged")
          /\ req' = [req EXCEPT ![r].stage = "score", ![r].verdict = verdict,
                                ![r].trace = Emitted(r, "judge", "ok")]
          /\ UNCHANGED <<world, store, audited>>
    BY <1>5 DEF Judge
  <2>2. LogsOK'
    BY <2>1, Logged DEF IInv, LogsOK, Counters
  <2>3. verdict \in Int \cup {NaN}
    BY PipelineAssumption
  <2> QED
    BY <1>3, <2>1, <2>2, <2>3
<1> QED
  BY <1>2, <1>4, <1>5

LEMMA ScoreType ==
  ASSUME NEW executed \in BOOLEAN, NEW agreement \in Nat, NEW verdict \in Int \cup {NaN}
  PROVE  Score(TRUE, executed, agreement, verdict) \in Int \cup {NaN}
<1> DEFINE x == 50 * agreement + 35 * verdict + (IF executed THEN 15 * Unit ELSE 0)
<1>1. Unit \in Nat /\ Unit > 0
  BY VoteAssumption
<1>0. CASE verdict = NaN
  BY <1>0 DEF Score
<1> SUFFICES ASSUME verdict # NaN PROVE Score(TRUE, executed, agreement, verdict) \in Int
  BY <1>0
<1>2. x \in Int
  BY <1>1
<1>3. Score(TRUE, executed, agreement, verdict) = Thousandths(x)
  BY DEF Score
<1> HIDE DEF x
<1>4. Thousandths(x) \in Int
  BY <1>1, <1>2 DEF Thousandths
<1> QED
  BY <1>3, <1>4

(* The computed answer: its rows are those of a capped result, or none.    *)
LEMMA MakeAnswerKeepsInv ==
  ASSUME IInv, NEW r \in Requests, MakeAnswer(r)
  PROVE  IInv'
<1> DEFINE result     == req[r].result
           confidence == Score(TRUE, result.ok, req[r].agreement, req[r].verdict)
           reason     == IF result.ok THEN "none" ELSE "error"
           rows       == RowsReturned(confidence, result)
           answer     == [question |-> req[r].question, draft |-> req[r].draft,
                          blocked |-> FALSE, reason |-> reason,
                          confidence |-> confidence, rows |-> rows,
                          truncated |-> result.truncated, cached |-> FALSE]
           stage      == IF Cacheable(result) THEN "store" ELSE "audit"
           trace      == Emitted(r, "score", "ok")
           c          == [req[r] EXCEPT !.stage = stage, !.answer = answer, !.trace = trace]
<1>1. /\ req[r] \in Calls /\ req[r].stage = "score" /\ CallInv(req[r])
  BY DEF IInv, CallsOK, MakeAnswer, At
<1>2. /\ req[r].question \in Questions /\ req[r].schema \in Schemas /\ req[r].draft \in Drafts
  BY <1>1 DEF CallInv, TypedCall, Drafted, WithPolicy
<1>3. /\ result \in Results /\ req[r].agreement \in Nat /\ req[r].verdict \in Int \cup {NaN}
  BY <1>1 DEF Calls
<1>4. /\ result.ok \in BOOLEAN /\ result.rows \in Nat /\ result.truncated \in BOOLEAN
  BY <1>3 DEF Results
<1>5. /\ result.ok \/ result.rows = 0
      /\ MaxResultRows >= 0 => result.rows <= MaxResultRows
  BY <1>1 DEF CallInv, AnsweredCall
<1>6. trace \in Seq(Events) /\ (Executed(trace) => Executed(req[r].trace))
  BY Emission DEF IInv, Steps
<1>7. req' = [req EXCEPT ![r] = c]
  BY DEF MakeAnswer, IInv, CallsOK, Calls
<1>8. confidence \in Int \cup {NaN}
  BY <1>3, <1>4, ScoreType
<1>9. reason = "none" <=> result.ok
  OBVIOUS
<1>10. reason \in {"none", "error", "empty question", "question too long", "guardrail",
                   "policy", "schema hallucination", "cost guard"}
  OBVIOUS
<1>11. stage \in {"store", "audit"} /\ (stage = "store" => result.ok)
  BY DEF Cacheable
<1> HIDE DEF result, confidence, trace, stage, reason
<1>12. /\ rows \in Nat
       /\ rows > 0 => /\ confidence = NaN \/ confidence >= MinConfidence
                     /\ rows = result.rows
  BY <1>4, <1>8, PipelineAssumption DEF RowsReturned, Below
<1> HIDE DEF rows
<1>13. answer \in Answers
  BY <1>2, <1>4, <1>8, <1>10, <1>12, Zenon DEF Answers
<1>14. /\ answer.question = req[r].question /\ answer.draft = req[r].draft
       /\ ~answer.blocked /\ ~answer.cached
       /\ answer.reason = reason /\ answer.confidence = confidence /\ answer.rows = rows
  OBVIOUS
<1> HIDE DEF answer
<1>15. Governed(answer)
  BY <1>4, <1>5, <1>9, <1>12, <1>14 DEF Governed
<1>16. /\ c \in Calls /\ c.stage = stage /\ c.answer = answer /\ c.trace = trace
       /\ c.plan = req[r].plan
       /\ c.question = req[r].question /\ c.schema = req[r].schema /\ c.draft = req[r].draft
  BY <1>1, <1>6, <1>11, <1>13, StagesAre DEF Calls
<1> HIDE DEF c
<1>17. CallInv(c)
  <2>1. TypedCall(c)
    BY <1>2, <1>11, <1>13, <1>16 DEF TypedCall
  <2>2. GatedCall(c)
    BY <1>1, <1>11, <1>16 DEF CallInv, GatedCall, WithPolicy, WithSchema, WithExplain,
                              WithExecute, Affordable
  <2>3. AnsweredCall(c)
    BY <1>9, <1>11, <1>14, <1>15, <1>16 DEF AnsweredCall
  <2>4. TracedCall(c)
    BY <1>1, <1>6, <1>11, <1>16
       DEF CallInv, TracedCall, Ran, WithExecute, WithExplain, WithSchema, WithPolicy
  <2> QED
    BY <2>1, <2>2, <2>3, <2>4 DEF CallInv
<1>18. LogsOK'
  <2>1. (Count("observed") \/ metrics' = metrics) /\ audited' = audited
    BY DEF MakeAnswer
  <2> QED
    BY <2>1, Logged DEF IInv, LogsOK, Counters
<1> QED
  BY <1>7, <1>16, <1>17, <1>18, MoveKeepsInv DEF MakeAnswer

(* The entry written is a vetted success for the question and the schema   *)
(* of the key it is written under.                                         *)
LEMMA CacheSetKeepsInv ==
  ASSUME IInv, NEW r \in Requests, CacheSet(r)
  PROVE  IInv'
<1> DEFINE key   == MakeKey(req[r].question, req[r].schema)
           entry == [expires |-> clock + TTL, answer |-> req[r].answer]
           c     == [req[r] EXCEPT !.stage = "audit", !.setAt = clock]
<1>1. /\ req[r] \in Calls /\ req[r].stage = "store" /\ CallInv(req[r]) /\ clock \in Nat
  BY DEF IInv, CallsOK, WorldOK, CacheSet, At
<1>2. /\ req[r].question \in Questions /\ req[r].schema \in Schemas
      /\ req[r].answer \in Answers
  BY <1>1 DEF CallInv, TypedCall, Drafted, WithPolicy
<1>3. Vetted(req[r].draft, req[r].schema)
  BY <1>1 DEF CallInv, GatedCall, WithPolicy, WithSchema, WithExplain, WithExecute, Vetted
<1>4. key \in Keys /\ key[1] = Fold[req[r].question] /\ key[2] = req[r].schema
  BY <1>2 DEF Keys, MakeKey
<1>5. entry \in Entries /\ entry.answer = req[r].answer
  BY <1>1, <1>2, PipelineAssumption DEF Entries
<1> HIDE DEF key, entry
<1>6. EntryInv(key, entry.answer)
  BY <1>1, <1>3, <1>4, <1>5 DEF CallInv, AnsweredCall, EntryInv
<1>7. StoreOK'
  <2>1. store' = Put(store, key, entry)
    BY DEF CacheSet, key, entry
  <2>2. /\ DOMAIN store' = DOMAIN store \cup {key}
        /\ \A k \in DOMAIN store' : store'[k] = IF k = key THEN entry ELSE store[k]
    BY <2>1 DEF Put
  <2> QED
    BY <1>4, <1>5, <1>6, <2>2 DEF IInv, StoreOK
<1>8. /\ c \in Calls /\ c.stage = "audit" /\ c.answer = req[r].answer
      /\ c.trace = req[r].trace /\ c.plan = req[r].plan
      /\ c.question = req[r].question /\ c.schema = req[r].schema /\ c.draft = req[r].draft
  BY <1>1, StagesAre DEF Calls
<1>9. req' = [req EXCEPT ![r] = c]
  BY DEF CacheSet, IInv, CallsOK, Calls
<1> HIDE DEF c
<1>10. CallInv(c)
  <2>1. TypedCall(c)
    BY <1>1, <1>8 DEF CallInv, TypedCall, Drafted, WithPolicy
  <2>2. GatedCall(c)
    BY <1>1, <1>8 DEF CallInv, GatedCall, WithPolicy, WithSchema, WithExplain, WithExecute,
                      Affordable
  <2>3. AnsweredCall(c)
    BY <1>1, <1>8 DEF CallInv, AnsweredCall
  <2>4. TracedCall(c)
    BY <1>1, <1>8
       DEF CallInv, TracedCall, Ran, WithExecute, WithExplain, WithSchema, WithPolicy
  <2> QED
    BY <2>1, <2>2, <2>3, <2>4 DEF CallInv
<1>11. CallsOK'
  BY <1>8, <1>9, <1>10, Moved DEF IInv
<1> QED
  BY <1>7, <1>11 DEF IInv, WorldOK, LogsOK, CacheSet, world

LEMMA ReturnKeepsInv ==
  ASSUME IInv, NEW r \in Requests, Return(r)
  PROVE  IInv'
<1> DEFINE answer == req[r].answer
           trace  == req[r].trace
           c      == Left(r, "done", answer, trace)
<1>1. /\ req \in [Requests -> Calls] /\ req[r].stage = "audit" /\ CallInv(req[r])
  BY DEF IInv, CallsOK, Return, At
<1>2. /\ req[r].question \in Questions /\ answer \in Answers /\ trace \in Seq(Events)
  BY <1>1 DEF CallInv, TypedCall, Drafted, WithPolicy, Calls
<1>3. Vetted(req[r].draft, req[r].schema)
  BY <1>1 DEF CallInv, GatedCall, WithPolicy, WithSchema, WithExplain, WithExecute, Vetted
<1>4. answer.draft = req[r].draft /\ Governed(answer)
  BY <1>1 DEF CallInv, AnsweredCall
<1>5. LogsOK'
  <2>1. Audit(r, answer) /\ metrics' = metrics
    BY DEF Return
  <2> QED
    BY <1>2, <2>1, Logged DEF IInv, LogsOK
<1> HIDE DEF answer, trace
<1>6. /\ c \in Calls /\ c.stage = "done" /\ c.answer = answer /\ c.trace = trace
      /\ c.question = req[r].question /\ c.schema = req[r].schema /\ c.draft = req[r].draft
  <2>1. "done" \in Stages /\ answer \in Outcomes
    BY <1>2 DEF Stages, Outcomes
  <2> QED
    BY <1>1, <1>2, <2>1, LeftFields
<1>7. req' = [req EXCEPT ![r] = c]
  BY DEF Return, answer, trace
<1> HIDE DEF c
<1>8. CallInv(c)
  <2>1. TypedCall(c)
    BY <1>2, <1>6 DEF TypedCall, Drafted, WithPolicy
  <2>2. GatedCall(c)
    BY <1>6 DEF GatedCall, WithPolicy, WithSchema, WithExplain, WithExecute
  <2>3. AnsweredCall(c)
    BY <1>3, <1>4, <1>6 DEF AnsweredCall
  <2>4. TracedCall(c)
    BY <1>3, <1>6 DEF TracedCall
  <2> QED
    BY <2>1, <2>2, <2>3, <2>4 DEF CallInv
<1> QED
  BY <1>5, <1>6, <1>7, <1>8, MoveKeepsInv DEF Return

LEMMA WorldKeepsInv ==
  ASSUME IInv, Tick \/ Migrate \/ UNCHANGED vars
  PROVE  IInv'
<1>1. CASE Tick
  BY <1>1 DEF Tick, IInv, WorldOK, CallsOK, StoreOK, LogsOK
<1>2. CASE Migrate
  BY <1>2 DEF Migrate, IInv, WorldOK, CallsOK, StoreOK, LogsOK
<1>3. CASE UNCHANGED vars
  BY <1>3 DEF vars, world, IInv, WorldOK, CallsOK, StoreOK, LogsOK
<1> QED
  BY <1>1, <1>2, <1>3

LEMMA InitInv == Init => IInv
<1> SUFFICES ASSUME Init PROVE IInv
  OBVIOUS
<1>1. WorldOK
  BY PipelineAssumption DEF Init, WorldOK
<1>2. StoreOK
  BY DEF Init, StoreOK, EmptyDict
<1>3. LogsOK
  BY DEF Init, LogsOK, Counters
<1>4. CallsOK
  <2>1. Idle.stage = "idle" /\ Idle.trace = <<>>
    BY DEF Idle
  <2>2. ~Executed(Idle.trace)
    BY <2>1 DEF Executed
  <2>3. TypedCall(Idle) /\ GatedCall(Idle)
    BY <2>1 DEF TypedCall, GatedCall, Drafted, WithPolicy, WithSchema, WithExplain, WithExecute
  <2>4. AnsweredCall(Idle) /\ TracedCall(Idle)
    BY <2>1, <2>2 DEF AnsweredCall, TracedCall
  <2> QED
    BY <2>3, <2>4, IdleType DEF Init, CallsOK, CallInv
<1> QED
  BY <1>1, <1>2, <1>3, <1>4 DEF IInv

LEMMA NextKeepsInv == IInv /\ [Next]_vars => IInv'
<1> SUFFICES ASSUME IInv, [Next]_vars PROVE IInv'
  OBVIOUS
<1>1. CASE Tick \/ Migrate \/ UNCHANGED vars
  BY <1>1, WorldKeepsInv
<1>2. ASSUME NEW r \in Requests, NEW q \in Questions, Ask(r, q) PROVE IInv'
  BY <1>2, AskKeepsInv
<1>3. ASSUME NEW r \in Requests, Step(r) PROVE IInv'
  <2>1. CASE CheckQuestion(r) \/ LoadSchema(r) \/ StampLookup(r)
    BY <2>1, CheckQuestionKeepsInv, LoadSchemaKeepsInv, StampLookupKeepsInv
  <2>2. CASE Miss(r) \/ Hit(r) \/ Generate(r)
    BY <2>2, MissKeepsInv, HitKeepsInv, GenerateKeepsInv
  <2>3. CASE Guardrails(r) \/ PolicyGate(r) \/ SchemaGate(r) \/ Explain(r)
    BY <2>3, GatesKeepInv
  <2>4. CASE Execute(r) \/ Judge(r) \/ SkipJudge(r) \/ MakeAnswer(r)
    BY <2>4, ExecuteKeepsInv, JudgeKeepsInv, MakeAnswerKeepsInv
  <2>5. CASE CacheSet(r) \/ Return(r)
    BY <2>5, CacheSetKeepsInv, ReturnKeepsInv
  <2> QED
    BY <1>3, <2>1, <2>2, <2>3, <2>4, <2>5 DEF Step
<1> QED
  BY <1>1, <1>2, <1>3 DEF Next

(* The inductive invariant holds in every reachable state of the pipeline. *)
THEOREM Invariance == Spec => []IInv
BY InitInv, NextKeepsInv, PTL DEF Spec

-----------------------------------------------------------------------------
(* Theorems *)

(* Every variable of the pipeline keeps its type, and a call has set the   *)
(* locals its stage needs.                                                 *)
THEOREM TypeCorrect == Spec => []TypeOK
<1>1. IInv => TypeOK
  <2> SUFFICES ASSUME IInv PROVE TypeOK
    OBVIOUS
  <2>1. \A r \in Requests : TypedCall(req[r])
    BY DEF IInv, CallsOK, CallInv
  <2>2. \A r \in Requests :
          /\ req[r].stage # "idle" => req[r].question \in Questions
          /\ req[r].stage \notin {"idle", "check", "load", "done", "failed"}
               => req[r].schema \in Schemas
          /\ req[r].stage \in {"store", "audit", "done"} => req[r].answer \in Answers
    BY <2>1 DEF TypedCall
  <2> QED
    BY <2>2 DEF IInv, WorldOK, CallsOK, StoreOK, LogsOK, TypeOK, Counters
<1> QED
  BY <1>1, Invariance, PTL

(* A statement is sent to be executed only when it is read-only, permitted *)
(* and well formed under the schema its call loaded, and when the plan the *)
(* database gave this very call is within both budgets.                    *)
THEOREM OnlyVettedRuns == Spec => []RunsOnlyVetted
<1>1. IInv => RunsOnlyVetted
  <2> SUFFICES ASSUME IInv, NEW r \in Requests
               PROVE  /\ Did(r, "execute", "ok") \/ Did(r, "execute", "blocked") =>
                           Vetted(req[r].draft, req[r].schema)
                      /\ req[r].stage \in {"execute", "judge", "score", "store", "audit"} =>
                           Affordable(req[r])
    BY DEF RunsOnlyVetted, Affordable
  <2>1. GatedCall(req[r]) /\ TracedCall(req[r])
    BY DEF IInv, CallsOK, CallInv
  <2> QED
    BY <2>1 DEF TracedCall, Executed, Did, GatedCall, WithExecute, WithExplain, WithSchema,
                WithPolicy
<1> QED
  BY <1>1, Invariance, PTL

(* Every answer given, computed or replayed by another call's grace, has   *)
(* passed the gates under the schema of the call it is given to.           *)
THEOREM OnlyVettedDelivered == Spec => []DeliveredVetted
<1>1. IInv => DeliveredVetted
  BY DEF IInv, CallsOK, CallInv, AnsweredCall, DeliveredVetted, Answered, At
<1> QED
  BY <1>1, Invariance, PTL

(* The cache never holds a refusal, a failure, or an answer that is not    *)
(* vetted under the schema of its key.                                     *)
THEOREM OnlyVettedCached == Spec => []CacheVetted
<1>1. IInv => CacheVetted
  BY DEF IInv, StoreOK, EntryInv, CacheVetted
<1> QED
  BY <1>1, Invariance, PTL

(* Data leaves only with a success, within the row cap and never with a    *)
(* confidence below the threshold, also when it is replayed; whatever the  *)
(* judge's score was, a number in range, one out of range, or none.        *)
THEOREM RowsAreGoverned == Spec => []RowsGoverned
<1>1. IInv => RowsGoverned
  BY DEF IInv, CallsOK, CallInv, AnsweredCall, Governed, RowsGoverned, At
<1> QED
  BY <1>1, Invariance, PTL

-----------------------------------------------------------------------------
(* What a call has reported, logged and counted.                           *)
(*                                                                         *)
(* Each of these properties follows a whole call: a trace in order needs   *)
(* the number of stages reported at every stage, one audit event at the    *)
(* end needs none before, and a balance of counters needs the set of calls *)
(* not accounted for, which must be finite for its size to be a number.    *)

(* How many of PIPELINE_STAGES a call in flight has reported, by stage. *)
StepsDone(stage) ==
  CASE stage = "generate"   -> 1
    [] stage = "guardrails" -> 3
    [] stage = "policy"     -> 4
    [] stage = "schema"     -> 5
    [] stage = "explain"    -> 6
    [] stage = "execute"    -> 7
    [] stage = "judge"      -> 8
    [] stage = "score"      -> 9
    [] stage \in {"store", "audit"} -> 10
    [] OTHER -> 0

InOrder(trace) == \A i \in DOMAIN trace : trace[i].step = PipelineStages[i]

(* No gate has blocked, or only as the last thing reported. *)
Unblocked(trace) ==
  \A i \in DOMAIN trace : trace[i].status = "blocked" => trace[i].step = "execute"
LastBlocked(trace) ==
  \A i \in DOMAIN trace :
    trace[i].status = "blocked" => i = Len(trace) \/ trace[i].step = "execute"

TraceOK(c) ==
  /\ InOrder(c.trace) /\ LastBlocked(c.trace)
  /\ c.stage \notin {"done", "failed"} =>
       Len(c.trace) = StepsDone(c.stage) /\ Unblocked(c.trace)
  /\ c.stage = "done" /\ ~c.answer.blocked /\ ~c.answer.cached => Len(c.trace) = 10

LoggedOnce(c, log) ==
  log = IF c.stage = "done" /\ ~c.answer.cached THEN <<c.answer>> ELSE <<>>

(* No query is given a limit above its own.                                *)
LimitsTighten ==
  \A d \in Drafts : LimitValue[d] # NoLimit => EnforcedLimit(d) <= LimitValue[d]

(* The cap on the rows returned is below the limit every query is given.   *)
CapIsTighter == 0 <= MaxResultRows /\ MaxResultRows < MaxRows /\ LimitsTighten

CutTold(c) ==
  /\ c.stage \in {"judge", "score"} /\ c.result.ok =>
       (c.result.truncated <=> c.result.rows < c.wanted)
  /\ c.stage \in {"store", "audit"} /\ c.answer.reason = "none" =>
       (c.answer.truncated <=> c.result.rows < c.wanted)

CallTold(c, log) == TraceOK(c) /\ LoggedOnce(c, log) /\ (CapIsTighter => CutTold(c))

(* Calls that were asked and have no answer yet, or never get one. *)
OpenStages == (InFlight \cup {"failed"}) \ {"store", "audit"}

(* The calls each metric has counted. *)
Judged(trace) == \E i \in DOMAIN trace : trace[i].step = "judge" /\ trace[i].status = "ok"
CountedIn(name, c) ==
  \/ name = "requests" /\ c.stage # "idle"
  \/ name = "hits" /\ c.stage = "done" /\ ~c.answer.blocked /\ c.answer.cached
  \/ name = "blocked" /\ c.stage = "done" /\ c.answer.blocked
  \/ name = "judged" /\ Judged(c.trace)
  \/ /\ name = "observed" /\ c.stage \in {"store", "audit", "done"}
     /\ ~c.answer.blocked /\ ~c.answer.cached /\ Recorded(c.answer.confidence)
Counted(name) == {r \in Requests : CountedIn(name, req[r])}

Told     == \A r \in Requests : CallTold(req[r], audited[r])
Balanced ==
  \A name \in Counters :
    IsFiniteSet(Counted(name)) /\ metrics[name] = Cardinality(Counted(name))

Books == Told /\ Balanced

LEMMA StageNames ==
  /\ PipelineStages[1] = "cache" /\ PipelineStages[2] = "generate"
  /\ PipelineStages[3] = "consistency" /\ PipelineStages[4] = "guardrails"
  /\ PipelineStages[5] = "policy" /\ PipelineStages[6] = "schema"
  /\ PipelineStages[7] = "explain" /\ PipelineStages[8] = "execute"
  /\ PipelineStages[9] = "judge" /\ PipelineStages[10] = "score"
  /\ Len(PipelineStages) = 10
BY DEF PipelineStages

(* Reporting the next stage keeps a trace in order.                        *)
LEMMA NextReported ==
  ASSUME NEW trace \in Seq(Events), InOrder(trace), Unblocked(trace),
         NEW e \in Events, e.step = PipelineStages[Len(trace) + 1]
  PROVE  /\ Append(trace, e) \in Seq(Events) /\ Len(Append(trace, e)) = Len(trace) + 1
         /\ InOrder(Append(trace, e)) /\ LastBlocked(Append(trace, e))
         /\ e.status # "blocked" \/ e.step = "execute" => Unblocked(Append(trace, e))
<1> DEFINE t == Append(trace, e)
<1>0. PICK n \in Nat : Len(trace) = n /\ e.step = PipelineStages[n + 1]
  OBVIOUS
<1>1. /\ t \in Seq(Events) /\ Len(t) = n + 1 /\ DOMAIN t = 1 .. n + 1
      /\ DOMAIN trace = 1 .. n
      /\ t[n + 1] = e /\ \A i \in 1 .. n : t[i] = trace[i]
  BY <1>0
<1> HIDE DEF t
<1>2. InOrder(t)
  <2> SUFFICES ASSUME NEW i \in 1 .. n + 1 PROVE t[i].step = PipelineStages[i]
    BY <1>1 DEF InOrder
  <2>1. CASE i = n + 1
    BY <1>0, <1>1, <2>1
  <2>2. CASE i \in 1 .. n
    BY <1>1, <2>2 DEF InOrder
  <2> QED
    BY <2>1, <2>2
<1>3. \A i \in 1 .. n : t[i].status = "blocked" => t[i].step = "execute"
  BY <1>1 DEF Unblocked
<1>4. \A i \in 1 .. n + 1 : i = n + 1 \/ i \in 1 .. n
  OBVIOUS
<1>5. LastBlocked(t)
  BY <1>1, <1>3, <1>4 DEF LastBlocked
<1>6. e.status # "blocked" \/ e.step = "execute" => Unblocked(t)
  BY <1>1, <1>3, <1>4 DEF Unblocked
<1> QED
  BY <1>0, <1>1, <1>2, <1>5, <1>6 DEF t

(* step is what a call in this stage reports next; it is then in stage next *)
Reports(stage, step)  == StepsDone(stage) \in 0 .. 9 /\ PipelineStages[StepsDone(stage) + 1] = step
Precedes(stage, next) == StepsDone(next) = StepsDone(stage) + 1

LEMMA StageOrder ==
  /\ \A stage \in {"check", "load", "lookup"} : Reports(stage, "cache")
  /\ Reports("generate", "generate")   /\ Reports("guardrails", "guardrails")
  /\ Reports("policy", "policy")       /\ Reports("schema", "schema")
  /\ Reports("explain", "explain")     /\ Reports("execute", "execute")
  /\ Reports("judge", "judge")         /\ Reports("score", "score")
  /\ Precedes("load", "generate")      /\ Precedes("lookup", "generate")
  /\ Precedes("guardrails", "policy")  /\ Precedes("policy", "schema")
  /\ Precedes("schema", "explain")     /\ Precedes("explain", "execute")
  /\ Precedes("execute", "judge")      /\ Precedes("judge", "score")
  /\ Precedes("score", "store")        /\ Precedes("score", "audit")
<1>1. /\ \A stage \in {"check", "load", "lookup"} : StepsDone(stage) = 0
      /\ StepsDone("generate") = 1 /\ StepsDone("guardrails") = 3 /\ StepsDone("policy") = 4
      /\ StepsDone("schema") = 5 /\ StepsDone("explain") = 6 /\ StepsDone("execute") = 7
      /\ StepsDone("judge") = 8 /\ StepsDone("score") = 9
      /\ StepsDone("store") = 10 /\ StepsDone("audit") = 10
  BY DEF StepsDone
<1> QED
  BY <1>1, StageNames DEF Reports, Precedes

(* The same of a call in flight and what it emits.                         *)
LEMMA Reported ==
  ASSUME CallsOK, NEW r \in Requests, TraceOK(req[r]), req[r].stage \notin {"done", "failed"},
         NEW step \in Steps, Reports(req[r].stage, step),
         NEW status \in {"ok", "blocked", "skip"}
  PROVE  /\ Emitted(r, step, status) \in Seq(Events)
         /\ Len(Emitted(r, step, status)) = StepsDone(req[r].stage) + 1
         /\ InOrder(Emitted(r, step, status)) /\ LastBlocked(Emitted(r, step, status))
         /\ status # "blocked" \/ step = "execute" => Unblocked(Emitted(r, step, status))
<1> DEFINE e == [step |-> step, status |-> status]
<1>1. e \in Events /\ e.step = step /\ e.status = status
  BY EventType DEF Steps
<1>2. /\ req[r].trace \in Seq(Events) /\ InOrder(req[r].trace) /\ Unblocked(req[r].trace)
      /\ Len(req[r].trace) = StepsDone(req[r].stage)
  BY DEF CallsOK, Calls, TraceOK
<1>3. step = PipelineStages[Len(req[r].trace) + 1]
  BY <1>2 DEF Reports
<1>4. Emitted(r, step, status) = Append(req[r].trace, e)
  BY DEF Emitted
<1> HIDE DEF e
<1>5. /\ Append(req[r].trace, e) \in Seq(Events)
      /\ Len(Append(req[r].trace, e)) = Len(req[r].trace) + 1
      /\ InOrder(Append(req[r].trace, e)) /\ LastBlocked(Append(req[r].trace, e))
      /\ status # "blocked" \/ step = "execute" => Unblocked(Append(req[r].trace, e))
  BY <1>1, <1>2, <1>3, NextReported
<1> QED
  BY <1>2, <1>4, <1>5

(* What is told of a call that ends, by what it ends with.                 *)
LEMMA FailedTold ==
  ASSUME NEW c, c.stage = "failed", InOrder(c.trace), LastBlocked(c.trace)
  PROVE  CallTold(c, <<>>)
BY DEF CallTold, TraceOK, LoggedOnce, CutTold

(* A call in flight that has not made its answer has left no audit event.  *)
LEMMA PendingTold ==
  ASSUME NEW c, c.stage \notin {"done", "failed"},
         InOrder(c.trace), LastBlocked(c.trace), Unblocked(c.trace),
         Len(c.trace) = StepsDone(c.stage),
         CapIsTighter => CutTold(c)
  PROVE  CallTold(c, <<>>)
BY DEF CallTold, TraceOK, LoggedOnce

LEMMA NotCutYet ==
  ASSUME NEW c, c.stage \notin {"judge", "score", "store", "audit"}
  PROVE  CutTold(c)
BY DEF CutTold

(* One call moves, logging nothing: it had logged nothing.                 *)
LEMMA MovesUnlogged ==
  ASSUME IInv, Told, NEW r \in Requests, req[r].stage # "done", NEW c,
         CallTold(c, <<>>), req' = [req EXCEPT ![r] = c], audited' = audited
  PROVE  Told'
<1>1. audited[r] = <<>>
  BY DEF Told, CallTold, LoggedOnce
<1>2. \A x \in Requests : req'[x] = IF x = r THEN c ELSE req[x]
  BY DEF IInv, CallsOK
<1>3. \A x \in Requests : CallTold(req'[x], audited'[x])
  BY <1>1, <1>2 DEF Told
<1> QED
  BY <1>3 DEF Told

(* One call ends with an audit event that repeats its answer.              *)
LEMMA EndsLogged ==
  ASSUME IInv, Told, NEW r \in Requests, req[r].stage # "done",
         NEW answer, ~answer.cached, Audit(r, answer),
         NEW c, c.stage = "done", c.answer = answer, TraceOK(c),
         req' = [req EXCEPT ![r] = c]
  PROVE  Told'
<1>1. audited[r] = <<>>
  BY DEF Told, CallTold, LoggedOnce
<1>2. \A x \in Requests : req'[x] = IF x = r THEN c ELSE req[x]
  BY DEF IInv, CallsOK
<1>3. \A x \in Requests : audited'[x] = IF x = r THEN <<answer>> ELSE audited[x]
  <2>1. Append(<<>>, answer) = <<answer>>
    OBVIOUS
  <2> QED
    BY <1>1, <2>1 DEF Audit, IInv, LogsOK
<1>4. CallTold(c, <<answer>>)
  BY NotCutYet DEF CallTold, LoggedOnce
<1>5. \A x \in Requests : CallTold(req'[x], audited'[x])
  BY <1>2, <1>3, <1>4 DEF Told
<1> QED
  BY <1>5 DEF Told

(* What one call's move does to the books of one metric.                   *)
LEMMA BookMoves ==
  ASSUME IInv, Balanced, NEW r \in Requests, NEW c, req' = [req EXCEPT ![r] = c],
         NEW name \in Counters,
         \/ /\ CountedIn(name, c) <=> CountedIn(name, req[r])
            /\ metrics'[name] = metrics[name]
         \/ /\ CountedIn(name, c) /\ ~CountedIn(name, req[r])
            /\ metrics'[name] = metrics[name] + 1
  PROVE  /\ IsFiniteSet(Counted(name)')
         /\ metrics'[name] = Cardinality(Counted(name)')
<1>1. \A x \in Requests : req'[x] = IF x = r THEN c ELSE req[x]
  BY DEF IInv, CallsOK
<1>2. IsFiniteSet(Counted(name)) /\ metrics[name] = Cardinality(Counted(name))
  BY DEF Balanced
<1>3. Counted(name)' = {x \in Requests : CountedIn(name, req'[x])}
  BY DEF Counted, CountedIn, Judged
<1>4. CASE CountedIn(name, c) <=> CountedIn(name, req[r])
  <2>1. Counted(name)' = Counted(name)
    BY <1>1, <1>3, <1>4 DEF Counted
  <2> QED
    BY <1>2, <1>4, <2>1
<1>5. CASE CountedIn(name, c) /\ ~CountedIn(name, req[r])
  <2>1. Counted(name)' = Counted(name) \cup {r} /\ r \notin Counted(name)
    BY <1>1, <1>3, <1>5 DEF Counted
  <2> QED
    BY <1>2, <1>5, <2>1, FS_AddElement
<1> QED
  BY <1>4, <1>5

LEMMA Incremented ==
  ASSUME IInv, NEW name \in Counters, Count(name)
  PROVE  \A x \in Counters :
           metrics'[x] = IF x = name THEN metrics[x] + 1 ELSE metrics[x]
BY DEF IInv, LogsOK, Count

(* A move no metric counts. *)
LEMMA StaysBalanced ==
  ASSUME IInv, Balanced, NEW r \in Requests, NEW c, req' = [req EXCEPT ![r] = c],
         \A name \in Counters : CountedIn(name, c) <=> CountedIn(name, req[r]),
         metrics' = metrics
  PROVE  Balanced'
BY BookMoves DEF Balanced

(* A move one metric counts. *)
LEMMA CountsOnce ==
  ASSUME IInv, Balanced, NEW r \in Requests, NEW c, req' = [req EXCEPT ![r] = c],
         NEW one \in Counters, Count(one),
         CountedIn(one, c), ~CountedIn(one, req[r]),
         \A name \in Counters \ {one} : CountedIn(name, c) <=> CountedIn(name, req[r])
  PROVE  Balanced'
<1>1. \A name \in Counters :
        metrics'[name] = IF name = one THEN metrics[name] + 1 ELSE metrics[name]
  BY Incremented
<1>2. ASSUME NEW name \in Counters
      PROVE  IsFiniteSet(Counted(name)') /\ metrics'[name] = Cardinality(Counted(name)')
  BY <1>1, BookMoves
<1> QED
  BY <1>2 DEF Balanced

(* Which metrics count a call, by its stage. *)
LEMMA OpenIsCounted ==
  ASSUME NEW c, c.stage \in OpenStages
  PROVE  /\ CountedIn("requests", c) /\ ~CountedIn("hits", c) /\ ~CountedIn("blocked", c)
         /\ ~CountedIn("observed", c)
         /\ CountedIn("judged", c) <=> Judged(c.trace)
BY DEF CountedIn, OpenStages, InFlight

LEMMA AnswerIsCounted ==
  ASSUME NEW c, c.stage \in {"store", "audit", "done"}
  PROVE  /\ CountedIn("requests", c)
         /\ CountedIn("hits", c)
              <=> c.stage = "done" /\ ~c.answer.blocked /\ c.answer.cached
         /\ CountedIn("blocked", c) <=> c.stage = "done" /\ c.answer.blocked
         /\ CountedIn("observed", c)
              <=> ~c.answer.blocked /\ ~c.answer.cached /\ Recorded(c.answer.confidence)
         /\ CountedIn("judged", c) <=> Judged(c.trace)
BY DEF CountedIn

(* Only the judge's report is one. *)
LEMMA JudgedReports ==
  ASSUME CallsOK, NEW r \in Requests, NEW step \in Steps, NEW status \in {"ok", "blocked", "skip"}
  PROVE  Judged(Emitted(r, step, status))
           <=> Judged(req[r].trace) \/ (step = "judge" /\ status = "ok")
<1> DEFINE e == [step |-> step, status |-> status]
           trace == req[r].trace
<1>1. trace \in Seq(Events)
  BY DEF CallsOK, Calls
<1>2. e.step = step /\ e.status = status
  OBVIOUS
<1>3. Emitted(r, step, status) = Append(trace, e)
  BY DEF Emitted
<1> HIDE DEF e, trace
<1>4. /\ DOMAIN Append(trace, e) = 1 .. Len(trace) + 1 /\ DOMAIN trace = 1 .. Len(trace)
      /\ Append(trace, e)[Len(trace) + 1] = e
      /\ \A i \in 1 .. Len(trace) : Append(trace, e)[i] = trace[i]
      /\ Len(trace) \in Nat
  BY <1>1
<1>5. \A i \in 1 .. Len(trace) + 1 : i \in 1 .. Len(trace) \/ i = Len(trace) + 1
  BY <1>4
<1>6. Len(trace) + 1 \in 1 .. Len(trace) + 1 /\ 1 .. Len(trace) \subseteq 1 .. Len(trace) + 1
  BY <1>4
<1>7. ASSUME Judged(Append(trace, e)) PROVE Judged(trace) \/ (e.step = "judge" /\ e.status = "ok")
  BY <1>4, <1>5, <1>7 DEF Judged
<1>8. ASSUME Judged(trace) \/ (e.step = "judge" /\ e.status = "ok") PROVE Judged(Append(trace, e))
  BY <1>4, <1>6, <1>8 DEF Judged
<1> QED
  BY <1>2, <1>3, <1>7, <1>8 DEF trace

(* A call whose next report is the judge's has none yet. *)
LEMMA NotJudgedYet ==
  ASSUME CallsOK, NEW r \in Requests, TraceOK(req[r]), req[r].stage = "judge"
  PROVE  ~Judged(req[r].trace)
<1> DEFINE trace == req[r].trace
<1>1. trace \in Seq(Events) /\ InOrder(trace) /\ Len(trace) = 8
  BY DEF CallsOK, Calls, TraceOK, StepsDone
<1> HIDE DEF trace
<1>2. DOMAIN trace = 1 .. 8
  BY <1>1
<1>3. \A i \in 1 .. 8 : PipelineStages[i] # "judge"
  BY SMTT(30) DEF PipelineStages
<1>4. \A i \in 1 .. 8 : trace[i].step = PipelineStages[i]
  BY <1>1, <1>2 DEF InOrder
<1>5. ~Judged(trace)
  BY <1>2, <1>3, <1>4 DEF Judged
<1> QED
  BY <1>5 DEF trace

(* An open call stays open, and no judge reports. *)
LEMMA StaysOpen ==
  ASSUME IInv, Balanced, NEW r \in Requests, NEW c, req' = [req EXCEPT ![r] = c],
         req[r].stage \in OpenStages, c.stage \in OpenStages,
         Judged(c.trace) <=> Judged(req[r].trace), metrics' = metrics
  PROVE  Balanced'
<1>1. \A name \in Counters : CountedIn(name, c) <=> CountedIn(name, req[r])
  BY OpenIsCounted DEF Counters
<1> QED
  BY <1>1, StaysBalanced

-----------------------------------------------------------------------------
(* The ways a call goes on, and what the books say of each *)

(* the stage after eight reports is the judge's *)
LEMMA JudgeIsNinth ==
  ASSUME NEW stage \in InFlight, Reports(stage, "judge")
  PROVE  stage = "judge"
<1>1. StepsDone(stage) = 8
  BY StageNames DEF Reports
<1> QED
  BY <1>1 DEF StepsDone, InFlight

(* the next stage is reported, and the call is still in flight *)
LEMMA ForwardKeepsBooks ==
  ASSUME IInv, Books, NEW r \in Requests, req[r].stage \in OpenStages \ {"failed"},
         NEW step \in Steps, Reports(req[r].stage, step),
         NEW status \in {"ok", "blocked", "skip"}, status = "blocked" => step = "execute",
         NEW c, req' = [req EXCEPT ![r] = c],
         c.stage \in OpenStages \ {"failed"}, Precedes(req[r].stage, c.stage),
         c.trace = Emitted(r, step, status), CapIsTighter => CutTold(c),
         audited' = audited,
         IF step = "judge" /\ status = "ok" THEN Count("judged") ELSE metrics' = metrics
  PROVE  Books'
<1>1. TraceOK(req[r]) /\ req[r].stage \notin {"done", "failed"}
  BY DEF Books, Told, CallTold, OpenStages, InFlight
<1>2. /\ Len(c.trace) = StepsDone(c.stage) /\ InOrder(c.trace) /\ LastBlocked(c.trace)
      /\ Unblocked(c.trace)
  BY <1>1, Reported DEF IInv, Precedes
<1>3. CallTold(c, <<>>)
  <2>1. c.stage \notin {"done", "failed"}
    BY DEF OpenStages, InFlight
  <2> QED
    BY <1>2, <2>1, PendingTold
<1>4. Told'
  BY <1>1, <1>3, MovesUnlogged DEF Books
<1>5. Balanced'
  <2>1. /\ req[r].stage \in OpenStages /\ c.stage \in OpenStages
        /\ Judged(c.trace) <=> Judged(req[r].trace) \/ (step = "judge" /\ status = "ok")
    BY JudgedReports DEF IInv
  <2>2. CASE ~(step = "judge" /\ status = "ok")
    BY <2>1, <2>2, StaysOpen DEF Books
  <2>3. CASE step = "judge" /\ status = "ok"
    <3>1. ~Judged(req[r].trace)
      <4>1. req[r].stage = "judge"
        BY <1>1, <2>3, JudgeIsNinth DEF OpenStages, InFlight
      <4> QED
        BY <1>1, <4>1, NotJudgedYet DEF IInv
    <3>2. /\ CountedIn("judged", c) /\ ~CountedIn("judged", req[r])
          /\ \A name \in Counters \ {"judged"} : CountedIn(name, c) <=> CountedIn(name, req[r])
      BY <2>1, <2>3, <3>1, OpenIsCounted DEF Counters
    <3>3. "judged" \in Counters /\ Count("judged")
      BY <2>3 DEF Counters
    <3> QED
      BY <3>2, <3>3, CountsOnce DEF Books
  <2> QED
    BY <2>2, <2>3
<1> QED
  BY <1>4, <1>5 DEF Books

(* nothing is reported, and the call is still in flight *)
LEMMA QuietKeepsBooks ==
  ASSUME IInv, Books, NEW r \in Requests, req[r].stage \in OpenStages \ {"failed"},
         NEW c, req' = [req EXCEPT ![r] = c],
         c.stage \in OpenStages \ {"failed"}, StepsDone(c.stage) = StepsDone(req[r].stage),
         c.trace = req[r].trace, CapIsTighter => CutTold(c),
         audited' = audited, metrics' = metrics
  PROVE  Books'
<1>1. TraceOK(req[r]) /\ req[r].stage \notin {"done", "failed"}
  BY DEF Books, Told, CallTold, OpenStages, InFlight
<1>2. CallTold(c, <<>>)
  <2>1. c.stage \notin {"done", "failed"}
    BY DEF OpenStages, InFlight
  <2> QED
    BY <1>1, <2>1, PendingTold DEF TraceOK
<1>3. Told'
  BY <1>1, <1>2, MovesUnlogged DEF Books
<1>4. Balanced'
  BY StaysOpen DEF Books
<1> QED
  BY <1>3, <1>4 DEF Books

LEMMA BlockKeepsBooks ==
  ASSUME IInv, Books, NEW r \in Requests,
         NEW step \in {"cache", "guardrails", "policy", "schema", "explain"},
         NEW reason \in Refusals,
         req[r].stage \in {"check", "guardrails", "policy", "schema", "explain"},
         Reports(req[r].stage, step), Block(r, step, reason)
  PROVE  Books'
<1> DEFINE answer == [question |-> req[r].question, draft |-> req[r].draft,
                      blocked |-> TRUE, reason |-> reason, confidence |-> 0,
                      rows |-> 0, truncated |-> FALSE, cached |-> FALSE]
           trace  == Emitted(r, step, "blocked")
           c      == Left(r, "done", answer, trace)
<1>1. TraceOK(req[r])
  BY DEF Books, Told, CallTold
<1>2. trace \in Seq(Events) /\ InOrder(trace) /\ LastBlocked(trace)
  <2>1. step \in Steps
    BY DEF Steps
  <2> QED
    BY <1>1, <2>1, Reported DEF IInv
<1>3. answer \in Outcomes /\ answer.blocked /\ ~answer.cached
  <2>1. req[r].draft \in Drafts \cup {None} /\ req[r].question \in Questions
    BY DEF IInv, CallsOK, CallInv, TypedCall, Calls
  <2> QED
    BY <2>1, RefusalType DEF Outcomes
<1>4. Audit(r, answer) /\ Count("blocked") /\ req' = [req EXCEPT ![r] = c]
  BY DEF Block
<1> HIDE DEF answer, trace
<1>5. c.stage = "done" /\ c.answer = answer /\ c.trace = trace
  <2>1. "done" \in Stages /\ req \in [Requests -> Calls]
    BY DEF Stages, IInv, CallsOK
  <2> QED
    BY <1>2, <1>3, <2>1, LeftFields
<1> HIDE DEF c
<1>6. TraceOK(c)
  BY <1>2, <1>3, <1>5 DEF TraceOK
<1>7. Told'
  BY <1>3, <1>4, <1>5, <1>6, EndsLogged DEF Books
<1>8. Balanced'
  <2>1. req[r].stage \in OpenStages /\ "blocked" \in Counters
    BY DEF OpenStages, InFlight, Counters
  <2>2. Judged(c.trace) <=> Judged(req[r].trace)
    <3>1. step \in Steps /\ step # "judge"
      BY DEF Steps
    <3> QED
      BY <1>5, <3>1, JudgedReports DEF IInv, trace
  <2>3. /\ CountedIn("blocked", c) /\ ~CountedIn("blocked", req[r])
        /\ \A name \in Counters \ {"blocked"} : CountedIn(name, c) <=> CountedIn(name, req[r])
    BY <1>3, <1>5, <2>1, <2>2, OpenIsCounted, AnswerIsCounted DEF Counters
  <2> QED
    BY <1>4, <2>1, <2>3, CountsOnce DEF Books
<1> QED
  BY <1>7, <1>8 DEF Books

(* A call that raises is counted as asked and nowhere else.                *)
LEMMA RaiseKeepsBooks ==
  ASSUME IInv, Books, NEW r \in Requests, req[r].stage \in Raising,
         NEW trace \in Seq(Events), InOrder(trace), LastBlocked(trace),
         Judged(trace) <=> Judged(req[r].trace), RaiseAfter(r, trace)
  PROVE  Books'
<1> DEFINE c == Left(r, "failed", None, trace)
<1>1. c.stage = "failed" /\ c.trace = trace
  <2>1. req \in [Requests -> Calls] /\ "failed" \in Stages /\ None \in Outcomes
    BY DEF IInv, CallsOK, Stages, Outcomes
  <2> QED
    BY <2>1, LeftFields
<1>2. req' = [req EXCEPT ![r] = c] /\ audited' = audited /\ metrics' = metrics
  BY DEF RaiseAfter
<1> HIDE DEF c
<1>3. Told'
  <2>1. CallTold(c, <<>>)
    BY <1>1, FailedTold
  <2> QED
    BY <1>2, <2>1, MovesUnlogged DEF Books, Raising
<1>4. Balanced'
  <2>1. req[r].stage \in OpenStages /\ c.stage \in OpenStages
    BY <1>1 DEF OpenStages, InFlight, Raising
  <2> QED
    BY <1>1, <1>2, <2>1, StaysOpen DEF Books
<1> QED
  BY <1>3, <1>4 DEF Books

LEMMA RaiseAtOnceKeepsBooks ==
  ASSUME IInv, Books, NEW r \in Requests, req[r].stage \in Raising,
         Raise(r)
  PROVE  Books'
<1>1. req[r].trace \in Seq(Events) /\ InOrder(req[r].trace) /\ LastBlocked(req[r].trace)
  BY DEF IInv, CallsOK, Calls, Books, Told, CallTold, TraceOK
<1> QED
  BY <1>1, RaiseKeepsBooks DEF Raise

LEMMA PassKeepsBooks ==
  ASSUME IInv, Books, NEW r \in Requests,
         NEW step \in {"guardrails", "policy", "schema", "explain"},
         NEW next \in {"policy", "schema", "explain"},
         req[r].stage \in {"guardrails", "policy", "schema", "explain"},
         Reports(req[r].stage, step), Precedes(req[r].stage, next), Pass(r, step, next)
  PROVE  Books'
<1> DEFINE c == [req[r] EXCEPT !.stage = next, !.trace = Emitted(r, step, "ok")]
<1>1. req' = [req EXCEPT ![r] = c] /\ audited' = audited /\ metrics' = metrics
  BY DEF Pass, IInv, CallsOK, Calls
<1>2. c.stage = next /\ c.trace = Emitted(r, step, "ok")
  BY DEF IInv, CallsOK, Calls
<1> HIDE DEF c
<1>3. /\ req[r].stage \in OpenStages \ {"failed"} /\ c.stage \in OpenStages \ {"failed"}
      /\ step \in Steps
  BY <1>2 DEF OpenStages, InFlight, Steps
<1>4. CutTold(c)
  BY <1>2 DEF CutTold
<1> QED
  BY <1>1, <1>2, <1>3, <1>4, ForwardKeepsBooks

LEMMA PlanKeepsBooks ==
  ASSUME IInv, Books, NEW r \in Requests, req[r].stage = "explain",
         NEW plan, PassWithPlan(r, plan)
  PROVE  Books'
<1> DEFINE c == [req[r] EXCEPT !.stage = "execute", !.plan = plan,
                               !.trace = Emitted(r, "explain", "ok")]
<1>1. req' = [req EXCEPT ![r] = c] /\ audited' = audited /\ metrics' = metrics
  BY DEF PassWithPlan, IInv, CallsOK, Calls
<1>2. c.stage = "execute" /\ c.trace = Emitted(r, "explain", "ok")
  BY DEF IInv, CallsOK, Calls
<1> HIDE DEF c
<1>3. /\ req[r].stage \in OpenStages \ {"failed"} /\ c.stage \in OpenStages \ {"failed"}
      /\ "explain" \in Steps
      /\ Reports(req[r].stage, "explain") /\ Precedes(req[r].stage, c.stage)
  BY <1>2, StageOrder DEF OpenStages, InFlight, Steps
<1>4. CutTold(c)
  BY <1>2 DEF CutTold
<1> QED
  BY <1>1, <1>2, <1>3, <1>4, ForwardKeepsBooks

-----------------------------------------------------------------------------
(* One lemma per action: the books *)

LEMMA AskKeepsBooks ==
  ASSUME IInv, Books, NEW r \in Requests, NEW q \in Questions, Ask(r, q)
  PROVE  Books'
<1> DEFINE c == [req[r] EXCEPT !.stage = "check", !.question = q]
<1>1. /\ req' = [req EXCEPT ![r] = c] /\ audited' = audited /\ Count("requests")
      /\ req[r].stage = "idle"
  BY DEF Ask, At, IInv, CallsOK, Calls
<1>2. c.stage = "check" /\ c.trace = req[r].trace
  BY DEF IInv, CallsOK, Calls
<1> HIDE DEF c
<1>3. CallTold(c, <<>>)
  <2>1. TraceOK(req[r])
    BY DEF Books, Told, CallTold
  <2>2. StepsDone(c.stage) = StepsDone(req[r].stage)
    BY <1>1, <1>2 DEF StepsDone
  <2>3. /\ InOrder(c.trace) /\ LastBlocked(c.trace) /\ Unblocked(c.trace)
        /\ Len(c.trace) = StepsDone(c.stage)
    BY <1>1, <1>2, <2>1, <2>2 DEF TraceOK
  <2>4. CutTold(c)
    BY <1>2 DEF CutTold
  <2> QED
    BY <1>2, <2>3, <2>4, PendingTold
<1>4. Told'
  BY <1>1, <1>3, MovesUnlogged DEF Books
<1>5. Balanced'
  <2>1. c.stage \in OpenStages /\ "requests" \in Counters
    BY <1>2 DEF OpenStages, InFlight, Counters
  <2>2. /\ ~CountedIn("requests", req[r]) /\ ~CountedIn("hits", req[r])
        /\ ~CountedIn("blocked", req[r]) /\ ~CountedIn("observed", req[r])
        /\ CountedIn("judged", req[r]) <=> Judged(c.trace)
    BY <1>1, <1>2 DEF CountedIn
  <2>3. /\ CountedIn("requests", c)
        /\ \A name \in Counters \ {"requests"} : CountedIn(name, c) <=> CountedIn(name, req[r])
    BY <2>1, <2>2, OpenIsCounted DEF Counters
  <2> QED
    BY <1>1, <2>1, <2>2, <2>3, CountsOnce DEF Books
<1> QED
  BY <1>4, <1>5 DEF Books

LEMMA CheckQuestionKeepsBooks ==
  ASSUME IInv, Books, NEW r \in Requests, CheckQuestion(r)
  PROVE  Books'
<1>1. req[r].stage = "check" /\ Reports(req[r].stage, "cache")
  BY StageOrder DEF CheckQuestion, At
<1>3. CASE Block(r, "cache", "empty question")
  BY <1>1, <1>3, BlockKeepsBooks DEF Refusals
<1>4. CASE Block(r, "cache", "question too long")
  BY <1>1, <1>4, BlockKeepsBooks DEF Refusals
<1>5. CASE req' = [req EXCEPT ![r].stage = "load"] /\ UNCHANGED <<world, store, audited, metrics>>
  <2> DEFINE c == [req[r] EXCEPT !.stage = "load"]
  <2>1. req' = [req EXCEPT ![r] = c] /\ audited' = audited /\ metrics' = metrics
    BY <1>5 DEF IInv, CallsOK, Calls
  <2>2. c.stage = "load" /\ c.trace = req[r].trace
    BY DEF IInv, CallsOK, Calls
  <2> HIDE DEF c
  <2>3. /\ req[r].stage \in OpenStages \ {"failed"} /\ c.stage \in OpenStages \ {"failed"}
        /\ StepsDone(c.stage) = StepsDone(req[r].stage) /\ CutTold(c)
    BY <1>1, <2>2 DEF OpenStages, InFlight, StepsDone, CutTold
  <2> QED
    BY <2>1, <2>2, <2>3, QuietKeepsBooks
<1> QED
  BY <1>3, <1>4, <1>5 DEF CheckQuestion

LEMMA LoadSchemaKeepsBooks ==
  ASSUME IInv, Books, NEW r \in Requests, LoadSchema(r)
  PROVE  Books'
<1>1. req[r].stage = "load" /\ Reports(req[r].stage, "cache")
  BY StageOrder DEF LoadSchema, At
<1>2. CASE Raise(r)
  BY <1>1, <1>2, RaiseAtOnceKeepsBooks DEF Raising
<1>3. CASE ~Raise(r)
  <2>1. PICK s \in had :
          /\ req' = [req EXCEPT ![r].stage = IF CacheEnabled THEN "stamp" ELSE "generate",
                                ![r].schema = s,
                                ![r].trace = IF CacheEnabled THEN @
                                             ELSE Emitted(r, "cache", "skip")]
          /\ UNCHANGED <<world, store, audited, metrics>>
    BY <1>3 DEF LoadSchema
  <2>2. CASE CacheEnabled
    <3> DEFINE c == [req[r] EXCEPT !.stage = "stamp", !.schema = s]
    <3>1. req' = [req EXCEPT ![r] = c] /\ audited' = audited /\ metrics' = metrics
      BY <2>1, <2>2 DEF IInv, CallsOK, Calls
    <3>2. c.stage = "stamp" /\ c.trace = req[r].trace
      BY DEF IInv, CallsOK, Calls
    <3> HIDE DEF c
    <3>3. /\ req[r].stage \in OpenStages \ {"failed"} /\ c.stage \in OpenStages \ {"failed"}
          /\ StepsDone(c.stage) = StepsDone(req[r].stage) /\ CutTold(c)
      BY <1>1, <3>2 DEF OpenStages, InFlight, StepsDone, CutTold
    <3> QED
      BY <3>1, <3>2, <3>3, QuietKeepsBooks
  <2>3. CASE ~CacheEnabled
    <3> DEFINE c == [req[r] EXCEPT !.stage = "generate", !.schema = s,
                                   !.trace = Emitted(r, "cache", "skip")]
    <3>1. req' = [req EXCEPT ![r] = c] /\ audited' = audited /\ metrics' = metrics
      BY <2>1, <2>3 DEF IInv, CallsOK, Calls
    <3>2. c.stage = "generate" /\ c.trace = Emitted(r, "cache", "skip")
      BY DEF IInv, CallsOK, Calls
    <3> HIDE DEF c
    <3>3. /\ req[r].stage \in OpenStages \ {"failed"} /\ c.stage \in OpenStages \ {"failed"}
          /\ Precedes(req[r].stage, c.stage) /\ CutTold(c) /\ "cache" \in Steps
      BY <1>1, <3>2, StageOrder DEF OpenStages, InFlight, CutTold, Steps
    <3> QED
      BY <1>1, <3>1, <3>2, <3>3, ForwardKeepsBooks
  <2> QED
    BY <2>2, <2>3
<1> QED
  BY <1>2, <1>3

LEMMA LookupKeepsBooks ==
  ASSUME IInv, Books, NEW r \in Requests, StampLookup(r) \/ Miss(r)
  PROVE  Books'
<1>1. CASE StampLookup(r)
  <2> DEFINE c == [req[r] EXCEPT !.stage = "lookup", !.now = clock]
  <2>1. /\ req' = [req EXCEPT ![r] = c] /\ audited' = audited /\ metrics' = metrics
        /\ req[r].stage = "stamp"
    BY <1>1 DEF StampLookup, At, IInv, CallsOK, Calls
  <2>2. c.stage = "lookup" /\ c.trace = req[r].trace
    BY DEF IInv, CallsOK, Calls
  <2> HIDE DEF c
  <2>3. /\ req[r].stage \in OpenStages \ {"failed"} /\ c.stage \in OpenStages \ {"failed"}
        /\ StepsDone(c.stage) = StepsDone(req[r].stage) /\ CutTold(c)
    BY <2>1, <2>2 DEF OpenStages, InFlight, StepsDone, CutTold
  <2> QED
    BY <2>1, <2>2, <2>3, QuietKeepsBooks
<1>2. CASE Miss(r)
  <2> DEFINE c == [req[r] EXCEPT !.stage = "generate", !.trace = Emitted(r, "cache", "skip")]
  <2>1. /\ req' = [req EXCEPT ![r] = c] /\ audited' = audited /\ metrics' = metrics
        /\ req[r].stage = "lookup"
    BY <1>2 DEF Miss, At, IInv, CallsOK, Calls
  <2>2. c.stage = "generate" /\ c.trace = Emitted(r, "cache", "skip")
    BY DEF IInv, CallsOK, Calls
  <2> HIDE DEF c
  <2>3. /\ req[r].stage \in OpenStages \ {"failed"} /\ c.stage \in OpenStages \ {"failed"}
        /\ Reports(req[r].stage, "cache") /\ Precedes(req[r].stage, c.stage)
        /\ CutTold(c) /\ "cache" \in Steps
    BY <2>1, <2>2, StageOrder DEF OpenStages, InFlight, CutTold, Steps
  <2> QED
    BY <2>1, <2>2, <2>3, ForwardKeepsBooks
<1> QED
  BY <1>1, <1>2

(* A replay is counted and not audited. *)
LEMMA HitKeepsBooks ==
  ASSUME IInv, Books, NEW r \in Requests, Hit(r)
  PROVE  Books'
<1> DEFINE key    == MakeKey(req[r].question, req[r].schema)
           stored == store[key].answer
           answer == [stored EXCEPT !.cached = TRUE]
           trace  == Emitted(r, "cache", "ok")
           c      == Left(r, "done", answer, trace)
<1>1. /\ req' = [req EXCEPT ![r] = c] /\ audited' = audited /\ Count("hits")
      /\ req[r].stage = "lookup" /\ key \in DOMAIN store
  BY DEF Hit, At, Live
<1>2. stored \in Answers /\ ~stored.blocked
  <2> HIDE DEF key
  <2> QED
    BY <1>1 DEF IInv, StoreOK, Entries, EntryInv
<1> HIDE DEF key, stored
<1>3. answer \in Answers /\ answer.cached /\ ~answer.blocked
  BY <1>2 DEF Answers
<1>4. trace \in Seq(Events) /\ InOrder(trace) /\ LastBlocked(trace)
  <2>1. "cache" \in Steps /\ Reports(req[r].stage, "cache")
    BY <1>1, StageOrder DEF Steps
  <2>2. TraceOK(req[r]) /\ req[r].stage \notin {"done", "failed"}
    BY <1>1 DEF Books, Told, CallTold
  <2> QED
    BY <2>1, <2>2, Reported DEF IInv
<1> HIDE DEF answer, trace
<1>5. c.stage = "done" /\ c.answer = answer /\ c.trace = trace
  <2>1. "done" \in Stages /\ answer \in Outcomes /\ req \in [Requests -> Calls]
    BY <1>3 DEF Stages, Outcomes, IInv, CallsOK
  <2> QED
    BY <1>4, <2>1, LeftFields
<1> HIDE DEF c
<1>6. CallTold(c, <<>>)
  BY <1>3, <1>4, <1>5 DEF CallTold, TraceOK, LoggedOnce, CutTold
<1>7. Told'
  BY <1>1, <1>6, MovesUnlogged DEF Books
<1>8. Balanced'
  <2>1. req[r].stage \in OpenStages /\ "hits" \in Counters
    BY <1>1 DEF OpenStages, InFlight, Counters
  <2>2. Judged(c.trace) <=> Judged(req[r].trace)
    BY <1>5, JudgedReports DEF IInv, trace, Steps
  <2>3. /\ CountedIn("hits", c) /\ ~CountedIn("hits", req[r])
        /\ \A name \in Counters \ {"hits"} : CountedIn(name, c) <=> CountedIn(name, req[r])
    BY <1>3, <1>5, <2>1, <2>2, OpenIsCounted, AnswerIsCounted DEF Counters
  <2> QED
    BY <1>1, <2>1, <2>3, CountsOnce DEF Books
<1> QED
  BY <1>7, <1>8 DEF Books

(* Two stages are reported at once; or one, and then the vote raises.      *)
LEMMA GenerateKeepsBooks ==
  ASSUME IInv, Books, NEW r \in Requests, Generate(r)
  PROVE  Books'
<1> DEFINE one == Emitted(r, "generate", "ok")
           e   == [step |-> "consistency", status |-> "ok"]
           two == Append(one, e)
<1>1. req[r].stage = "generate" /\ StepsDone(req[r].stage) = 1
  BY DEF Generate, At, StepsDone
<1>2. /\ one \in Seq(Events) /\ Len(one) = 2 /\ InOrder(one) /\ LastBlocked(one)
      /\ Unblocked(one)
  <2>1. "generate" \in Steps /\ Reports(req[r].stage, "generate")
    BY <1>1, StageOrder DEF Steps
  <2>2. TraceOK(req[r]) /\ req[r].stage \notin {"done", "failed"}
    BY <1>1 DEF Books, Told, CallTold
  <2>3. one \in Seq(Events) /\ InOrder(one) /\ LastBlocked(one)
    BY <2>1, <2>2, Reported DEF IInv
  <2>5. Len(one) = StepsDone(req[r].stage) + 1
    BY <2>1, <2>2, Reported DEF IInv
  <2>4. Unblocked(one)
    BY <2>1, <2>2, Reported DEF IInv
  <2>6. Len(one) = 2
    <3> HIDE DEF one
    <3> QED
      BY <1>1, <2>5
  <2> HIDE DEF one
  <2> QED
    BY <2>3, <2>4, <2>6
<1>10. Judged(one) <=> Judged(req[r].trace)
  BY JudgedReports DEF IInv, Steps
<1>3. CASE Raise(r)
  BY <1>1, <1>3, RaiseAtOnceKeepsBooks DEF Raising
<1>4. CASE RaiseAfter(r, one)
  <2> HIDE DEF one
  <2> QED
    BY <1>1, <1>2, <1>4, <1>10, RaiseKeepsBooks DEF Raising
<1>5. CASE ~Raise(r) /\ ~RaiseAfter(r, one)
  <2>1. PICK candidates \in [1 .. NumSamples -> Drafts] :
          /\ req' = [req EXCEPT ![r].stage = "guardrails",
                                ![r].draft = Consistency(candidates).chosen,
                                ![r].agreement = Consistency(candidates).agreement,
                                ![r].trace = two]
          /\ UNCHANGED <<world, store, audited, metrics>>
    BY <1>5 DEF Generate
  <2> DEFINE c == [req[r] EXCEPT !.stage = "guardrails",
                                 !.draft = Consistency(candidates).chosen,
                                 !.agreement = Consistency(candidates).agreement,
                                 !.trace = two]
  <2> HIDE DEF two
  <2>2. req' = [req EXCEPT ![r] = c] /\ audited' = audited /\ metrics' = metrics
    BY <2>1 DEF IInv, CallsOK, Calls
  <2>3. c.stage = "guardrails" /\ c.trace = two
    BY DEF IInv, CallsOK, Calls
  <2> HIDE DEF c, one, e
  <2>4. Len(two) = 3 /\ InOrder(two) /\ LastBlocked(two) /\ Unblocked(two)
    <3>1. e \in Events /\ e.step = PipelineStages[Len(one) + 1] /\ e.status # "blocked"
      BY <1>2, EventType, StageNames DEF e
    <3>2. /\ Len(two) = Len(one) + 1 /\ InOrder(two) /\ LastBlocked(two)
      BY <1>2, <3>1, NextReported DEF two
    <3>3. Unblocked(two)
      BY <1>2, <3>1, NextReported DEF two
    <3> QED
      BY <1>2, <3>2, <3>3
  <2>5. CallTold(c, <<>>)
    <3>1. StepsDone(c.stage) = 3 /\ CutTold(c) /\ c.stage \notin {"done", "failed"}
      BY <2>3 DEF StepsDone, CutTold
    <3> QED
      BY <2>3, <2>4, <3>1, PendingTold
  <2>6. Told'
    BY <1>1, <2>2, <2>5, MovesUnlogged DEF Books
  <2>7. Balanced'
    <3>1. req[r].stage \in OpenStages /\ c.stage \in OpenStages
      BY <1>1, <2>3 DEF OpenStages, InFlight
    <3>2. /\ DOMAIN two = 1 .. 3 /\ DOMAIN one = 1 .. 2 /\ two[3] = e
          /\ \A i \in 1 .. 2 : two[i] = one[i]
      <4>1. one \in Seq(Events) /\ Len(one) = 2
        BY <1>2
      <4>2. two = Append(one, e) /\ e \in Events
        BY EventType DEF two, e
      <4>3. Len(two) = 3 /\ two \in Seq(Events)
        BY <4>1, <4>2
      <4> HIDE DEF one, e
      <4>4. two[3] = e
        <5>1. two[Len(one) + 1] = e
          BY <4>1, <4>2, LastAppended, Zenon
        <5>2. Len(one) + 1 = 3
          BY <4>1
        <5> QED
          BY <5>1, <5>2, Zenon
      <4>5. \A i \in 1 .. 2 : two[i] = one[i]
        BY <4>1, <4>2
      <4> QED
        BY <4>1, <4>3, <4>4, <4>5
    <3>3. e.step # "judge"
      BY DEF e
    <3>4. \A i \in 1 .. 3 : i \in 1 .. 2 \/ i = 3
      OBVIOUS
    <3>6. 1 .. 2 \subseteq 1 .. 3
      OBVIOUS
    <3>5. Judged(two) <=> Judged(one)
      BY <3>2, <3>3, <3>4, <3>6 DEF Judged
    <3> QED
      BY <1>10, <2>2, <2>3, <3>1, <3>5, StaysOpen DEF Books
  <2> QED
    BY <2>6, <2>7 DEF Books
<1> QED
  BY <1>3, <1>4, <1>5

LEMMA GatesKeepBooks ==
  ASSUME IInv, Books, NEW r \in Requests,
         Guardrails(r) \/ PolicyGate(r) \/ SchemaGate(r) \/ Explain(r)
  PROVE  Books'
<1>1. CASE Guardrails(r)
  <2>1. /\ req[r].stage = "guardrails" /\ Reports(req[r].stage, "guardrails")
        /\ Precedes(req[r].stage, "policy")
    BY <1>1, StageOrder DEF Guardrails, At
  <2>2. CASE Pass(r, "guardrails", "policy")
    BY <2>1, <2>2, PassKeepsBooks
  <2>3. CASE Block(r, "guardrails", "guardrail")
    BY <2>1, <2>3, BlockKeepsBooks DEF Refusals
  <2>4. CASE Raise(r)
    BY <2>1, <2>4, RaiseAtOnceKeepsBooks DEF Raising
  <2> QED
    BY <1>1, <2>2, <2>3, <2>4 DEF Guardrails
<1>2. CASE PolicyGate(r)
  <2>1. /\ req[r].stage = "policy" /\ Reports(req[r].stage, "policy")
        /\ Precedes(req[r].stage, "schema")
    BY <1>2, StageOrder DEF PolicyGate, At
  <2>2. CASE Pass(r, "policy", "schema")
    BY <2>1, <2>2, PassKeepsBooks
  <2>3. CASE Block(r, "policy", "policy")
    BY <2>1, <2>3, BlockKeepsBooks DEF Refusals
  <2>4. CASE Raise(r)
    BY <2>1, <2>4, RaiseAtOnceKeepsBooks DEF Raising
  <2> QED
    BY <1>2, <2>2, <2>3, <2>4 DEF PolicyGate
<1>3. CASE SchemaGate(r)
  <2>1. /\ req[r].stage = "schema" /\ Reports(req[r].stage, "schema")
        /\ Precedes(req[r].stage, "explain")
    BY <1>3, StageOrder DEF SchemaGate, At
  <2>2. CASE Pass(r, "schema", "explain")
    BY <2>1, <2>2, PassKeepsBooks
  <2>3. CASE Block(r, "schema", "schema hallucination")
    BY <2>1, <2>3, BlockKeepsBooks DEF Refusals
  <2>4. CASE Raise(r)
    BY <2>1, <2>4, RaiseAtOnceKeepsBooks DEF Raising
  <2> QED
    BY <1>3, <2>2, <2>3, <2>4 DEF SchemaGate
<1>4. CASE Explain(r)
  <2>1. /\ req[r].stage = "explain" /\ Reports(req[r].stage, "explain")
        /\ Precedes(req[r].stage, "execute")
    BY <1>4, StageOrder DEF Explain, At
  <2>2. ASSUME NEW plan, PassWithPlan(r, plan) PROVE Books'
    BY <2>1, <2>2, PlanKeepsBooks
  <2>3. CASE Block(r, "explain", "cost guard")
    BY <2>1, <2>3, BlockKeepsBooks DEF Refusals
  <2>4. CASE Raise(r)
    BY <2>1, <2>4, RaiseAtOnceKeepsBooks DEF Raising
  <2> QED
    BY <1>4, <2>2, <2>3, <2>4 DEF Explain
<1> QED
  BY <1>1, <1>2, <1>3, <1>4

(* What an executed query returned says whether it was cut, when the cap   *)
(* on the rows returned is what cuts first.                                *)
LEMMA CutIsTold ==
  ASSUME CapIsTighter, NEW d \in Drafts, NEW matching \in Nat
  PROVE  Capped(Fetched(d, matching)).truncated
           <=> Capped(Fetched(d, matching)).rows < Wanted(d, matching)
<1> DEFINE limit   == EnforcedLimit(d)
           fetched == Lesser(Lesser(matching, limit), MaxRows + 1)
           rows    == Lesser(fetched, MaxRows)
           f       == Fetched(d, matching)
           wanted  == Wanted(d, matching)
<1>1. /\ MaxRows \in Nat /\ MaxResultRows \in Nat /\ MaxResultRows < MaxRows
  BY PipelineAssumption DEF CapIsTighter
<1>2. /\ limit \in Nat /\ wanted \in Nat
      /\ limit = MaxRows \/ Lesser(matching, limit) = wanted
      /\ wanted <= matching
      /\ limit = MaxRows => Lesser(wanted, MaxRows) = Lesser(matching, MaxRows)
  <2>1. CASE LimitRead[d] # NoLimit /\ LimitRead[d] <= MaxRows
    <3>1. LimitValue[d] \in Nat /\ LimitValue[d] # NoLimit
      BY <2>1, PipelineAssumption
    <3>2. limit = LimitValue[d] /\ wanted = Lesser(matching, limit)
      BY <2>1, <3>1 DEF EnforcedLimit, Wanted
    <3> HIDE DEF limit, wanted
    <3> QED
      BY <1>1, <3>1, <3>2 DEF Lesser
  <2>2. CASE ~(LimitRead[d] # NoLimit /\ LimitRead[d] <= MaxRows)
    <3>1. limit = MaxRows
      BY <2>2 DEF EnforcedLimit
    <3>2. CASE LimitValue[d] = NoLimit
      <4>1. wanted = matching
        BY <3>2 DEF Wanted
      <4> HIDE DEF limit, wanted
      <4>2. limit \in Nat /\ wanted \in Nat /\ wanted = matching
        BY <1>1, <3>1, <4>1
      <4> QED
        BY <1>1, <3>1, <4>2 DEF Lesser
    <3>3. CASE LimitValue[d] # NoLimit
      <4>1. wanted = Lesser(matching, LimitValue[d]) /\ LimitValue[d] \in Nat
            /\ MaxRows <= LimitValue[d]
        BY <3>1, <3>3, PipelineAssumption DEF Wanted, CapIsTighter, LimitsTighten
      <4> HIDE DEF limit, wanted
      <4> QED
        BY <1>1, <3>1, <4>1 DEF Lesser
    <3> QED
      BY <3>2, <3>3
  <2> QED
    BY <2>1, <2>2
<1> HIDE DEF limit, wanted
<1>3. rows \in Nat /\ rows = Lesser(wanted, MaxRows) /\ (fetched > MaxRows => wanted > MaxRows)
  BY <1>1, <1>2 DEF Lesser
<1>4. f = [ok |-> TRUE, rows |-> rows, truncated |-> fetched > MaxRows]
  BY DEF Fetched, limit
<1>5. (fetched > MaxRows) \in BOOLEAN
  BY <1>1, <1>2 DEF Lesser
<1> DEFINE over == fetched > MaxRows
<1>6. f = [ok |-> TRUE, rows |-> rows, truncated |-> over] /\ over \in BOOLEAN
  BY <1>4, <1>5, Zenon
<1>7. over => wanted > MaxRows
  BY <1>3
<1> HIDE DEF over, f, rows
<1>8. f.ok /\ f.rows = rows /\ (f.truncated <=> over)
      /\ f \in [ok : BOOLEAN, rows : Nat, truncated : BOOLEAN]
  BY <1>3, <1>6
<1>9. CASE rows > MaxResultRows
  <2>1. Capped(f) = [f EXCEPT !.rows = MaxResultRows, !.truncated = TRUE]
    BY <1>1, <1>8, <1>9 DEF Capped
  <2>2. Capped(f).rows = MaxResultRows /\ Capped(f).truncated
    BY <1>8, <2>1
  <2>3. MaxResultRows < wanted
    BY <1>1, <1>2, <1>3, <1>9 DEF Lesser
  <2> QED
    BY <2>2, <2>3 DEF f, wanted
<1>10. CASE ~(rows > MaxResultRows)
  <2>1. Capped(f) = f
    BY <1>8, <1>10 DEF Capped
  <2>2. rows = wanted /\ ~over
    BY <1>1, <1>2, <1>3, <1>7, <1>10 DEF Lesser
  <2>3. ~(wanted < wanted)
    BY <1>2
  <2> QED
    BY <1>8, <2>1, <2>2, <2>3 DEF f, wanted
<1> QED
  BY <1>9, <1>10

LEMMA ExecuteKeepsBooks ==
  ASSUME IInv, Books, NEW r \in Requests, Execute(r)
  PROVE  Books'
<1>1. /\ req[r] \in Calls /\ req[r].stage = "execute" /\ req[r].draft \in Drafts
      /\ audited' = audited /\ metrics' = metrics
  BY DEF IInv, CallsOK, CallInv, TypedCall, Drafted, WithPolicy, Execute, At
<1>2. ASSUME NEW result, NEW wanted, NEW status \in {"ok", "blocked"},
             CapIsTighter /\ result.ok => (result.truncated <=> result.rows < wanted),
             req' = [req EXCEPT ![r].stage = "judge", ![r].result = result,
                                ![r].wanted = wanted,
                                ![r].trace = Emitted(r, "execute", status)]
      PROVE  Books'
  <2> DEFINE c == [req[r] EXCEPT !.stage = "judge", !.result = result, !.wanted = wanted,
                                 !.trace = Emitted(r, "execute", status)]
  <2>1. req' = [req EXCEPT ![r] = c]
    BY <1>2 DEF IInv, CallsOK, Calls
  <2>2. /\ c.stage = "judge" /\ c.result = result /\ c.wanted = wanted
        /\ c.trace = Emitted(r, "execute", status)
    BY <1>1 DEF Calls
  <2> HIDE DEF c
  <2>3. /\ req[r].stage \in OpenStages \ {"failed"} /\ c.stage \in OpenStages \ {"failed"}
        /\ Reports(req[r].stage, "execute") /\ Precedes(req[r].stage, c.stage)
        /\ "execute" \in Steps
    BY <1>1, <2>2, StageOrder DEF OpenStages, InFlight, Steps
  <2>4. CapIsTighter => CutTold(c)
    BY <1>2, <2>2 DEF CutTold
  <2> QED
    BY <1>1, <2>1, <2>2, <2>3, <2>4, ForwardKeepsBooks
<1>3. ASSUME NEW matching \in Matching[req[r].draft],
             req' = [req EXCEPT ![r].stage = "judge",
                                ![r].result = Capped(Fetched(req[r].draft, matching)),
                                ![r].wanted = Wanted(req[r].draft, matching),
                                ![r].trace = Emitted(r, "execute", "ok")]
      PROVE  Books'
  <2>1. matching \in Nat
    BY <1>1, PipelineAssumption
  <2>2. CapIsTighter =>
          (Capped(Fetched(req[r].draft, matching)).truncated
             <=> Capped(Fetched(req[r].draft, matching)).rows < Wanted(req[r].draft, matching))
    BY <1>1, <2>1, CutIsTold
  <2> QED
    BY <1>2, <1>3, <2>2
<1>4. CASE req' = [req EXCEPT ![r].stage = "judge", ![r].result = FailedResult,
                              ![r].trace = Emitted(r, "execute", "blocked")]
  <2>1. ~FailedResult.ok
    BY DEF FailedResult
  <2>2. req' = [req EXCEPT ![r].stage = "judge", ![r].result = FailedResult,
                           ![r].wanted = req[r].wanted,
                           ![r].trace = Emitted(r, "execute", "blocked")]
    BY <1>4 DEF IInv, CallsOK, Calls
  <2> QED
    BY <1>2, <2>1, <2>2
<1>5. CASE Raise(r)
  BY <1>1, <1>5, RaiseAtOnceKeepsBooks DEF Raising
<1> QED
  BY <1>3, <1>4, <1>5 DEF Execute

LEMMA JudgeKeepsBooks ==
  ASSUME IInv, Books, NEW r \in Requests, Judge(r) \/ SkipJudge(r)
  PROVE  Books'
<1>1. /\ req[r] \in Calls /\ req[r].stage = "judge"
      /\ CapIsTighter => CutTold(req[r])
  BY DEF IInv, CallsOK, Judge, SkipJudge, At, Books, Told, CallTold
<1>2. CASE Raise(r)
  BY <1>1, <1>2, RaiseAtOnceKeepsBooks DEF Raising
<1>3. ASSUME NEW verdict, NEW status \in {"ok", "skip"},
             req' = [req EXCEPT ![r].stage = "score", ![r].verdict = verdict,
                                ![r].trace = Emitted(r, "judge", status)],
             audited' = audited,
             IF status = "ok" THEN Count("judged") ELSE metrics' = metrics
      PROVE  Books'
  <2> DEFINE c == [req[r] EXCEPT !.stage = "score", !.verdict = verdict,
                                 !.trace = Emitted(r, "judge", status)]
  <2>1. req' = [req EXCEPT ![r] = c]
    BY <1>3 DEF IInv, CallsOK, Calls
  <2>2. /\ c.stage = "score" /\ c.result = req[r].result /\ c.wanted = req[r].wanted
        /\ c.trace = Emitted(r, "judge", status)
    BY <1>1 DEF Calls
  <2> HIDE DEF c
  <2>3. /\ req[r].stage \in OpenStages \ {"failed"} /\ c.stage \in OpenStages \ {"failed"}
        /\ Reports(req[r].stage, "judge") /\ Precedes(req[r].stage, c.stage)
        /\ "judge" \in Steps
    BY <1>1, <2>2, StageOrder DEF OpenStages, InFlight, Steps
  <2>4. CapIsTighter => CutTold(c)
    BY <1>1, <2>2 DEF CutTold
  <2>5. /\ audited' = audited
        /\ IF status = "ok" THEN Count("judged") ELSE metrics' = metrics
    BY <1>3
  <2> QED
    BY <2>1, <2>2, <2>3, <2>4, <2>5, ForwardKeepsBooks
<1>4. CASE SkipJudge(r)
  BY <1>3, <1>4 DEF SkipJudge
<1>5. CASE Judge(r) /\ ~Raise(r)
  BY <1>3, <1>5 DEF Judge
<1> QED
  BY <1>2, <1>4, <1>5

LEMMA MakeAnswerKeepsBooks ==
  ASSUME IInv, Books, NEW r \in Requests, MakeAnswer(r)
  PROVE  Books'
<1> DEFINE result     == req[r].result
           confidence == Score(TRUE, result.ok, req[r].agreement, req[r].verdict)
           reason     == IF result.ok THEN "none" ELSE "error"
           answer     == [question |-> req[r].question, draft |-> req[r].draft,
                          blocked |-> FALSE, reason |-> reason,
                          confidence |-> confidence,
                          rows |-> RowsReturned(confidence, result),
                          truncated |-> result.truncated, cached |-> FALSE]
           stage      == IF Cacheable(result) THEN "store" ELSE "audit"
           trace      == Emitted(r, "score", "ok")
           c          == [req[r] EXCEPT !.stage = stage, !.answer = answer, !.trace = trace]
<1>1. /\ req[r] \in Calls /\ req[r].stage = "score"
      /\ TraceOK(req[r]) /\ (CapIsTighter => CutTold(req[r]))
  BY DEF IInv, CallsOK, MakeAnswer, At, Books, Told, CallTold
<1>2. /\ req' = [req EXCEPT ![r] = c] /\ audited' = audited
      /\ IF Recorded(answer.confidence) THEN Count("observed") ELSE metrics' = metrics
  BY DEF MakeAnswer, IInv, CallsOK, Calls
<1>3. stage \in {"store", "audit"}
  OBVIOUS
<1>4. /\ answer.reason = reason /\ answer.truncated = result.truncated
      /\ ~answer.blocked /\ ~answer.cached
      /\ reason = "none" => result.ok
  OBVIOUS
<1> HIDE DEF stage, answer, trace, reason
<1>5. /\ c.stage = stage /\ c.answer = answer /\ c.trace = trace
      /\ c.result = result /\ c.wanted = req[r].wanted
  BY <1>1 DEF Calls
<1> HIDE DEF c
<1>6. InOrder(trace) /\ LastBlocked(trace) /\ Unblocked(trace) /\ Len(trace) = StepsDone(c.stage)
  <2>1. "score" \in Steps /\ Reports(req[r].stage, "score") /\ Precedes(req[r].stage, c.stage)
    BY <1>1, <1>3, <1>5, StageOrder DEF Steps
  <2>2. req[r].stage \notin {"done", "failed"}
    BY <1>1
  <2>3. InOrder(trace) /\ LastBlocked(trace)
    BY <1>1, <2>1, <2>2, Reported DEF IInv, trace
  <2>4. Unblocked(trace)
    BY <1>1, <2>1, <2>2, Reported DEF IInv, trace
  <2>5. Len(trace) = StepsDone(req[r].stage) + 1
    BY <1>1, <2>1, <2>2, Reported DEF IInv, trace
  <2> QED
    BY <2>1, <2>3, <2>4, <2>5 DEF Precedes
<1>7. CapIsTighter => CutTold(c)
  <2>1. CapIsTighter /\ result.ok => (result.truncated <=> result.rows < req[r].wanted)
    BY <1>1 DEF CutTold
  <2> HIDE DEF result
  <2> QED
    BY <1>3, <1>4, <1>5, <2>1 DEF CutTold
<1>8. CallTold(c, <<>>)
  <2>1. c.stage \notin {"done", "failed"}
    BY <1>3, <1>5
  <2> QED
    BY <1>5, <1>6, <1>7, <2>1, PendingTold
<1>9. Told'
  BY <1>1, <1>2, <1>8, MovesUnlogged DEF Books
<1>10. Balanced'
  <2>1. req[r].stage \in OpenStages /\ "observed" \in Counters
    BY <1>1 DEF OpenStages, InFlight, Counters
  <2>2. Judged(c.trace) <=> Judged(req[r].trace)
    BY <1>5, JudgedReports DEF IInv, trace, Steps
  <2>3. /\ ~CountedIn("observed", req[r])
        /\ CountedIn("observed", c) <=> Recorded(answer.confidence)
        /\ \A name \in Counters \ {"observed"} : CountedIn(name, c) <=> CountedIn(name, req[r])
    BY <1>3, <1>4, <1>5, <2>1, <2>2, OpenIsCounted, AnswerIsCounted DEF Counters
  <2>4. CASE Recorded(answer.confidence)
    BY <1>2, <2>1, <2>3, <2>4, CountsOnce DEF Books
  <2>5. CASE ~Recorded(answer.confidence)
    <3>1. \A name \in Counters : CountedIn(name, c) <=> CountedIn(name, req[r])
      BY <2>3, <2>5
    <3> QED
      BY <1>2, <2>5, <3>1, StaysBalanced DEF Books
  <2> QED
    BY <2>4, <2>5
<1> QED
  BY <1>9, <1>10 DEF Books

LEMMA CacheSetKeepsBooks ==
  ASSUME IInv, Books, NEW r \in Requests, CacheSet(r)
  PROVE  Books'
<1> DEFINE c == [req[r] EXCEPT !.stage = "audit", !.setAt = clock]
<1>1. /\ req[r] \in Calls /\ req[r].stage = "store" /\ TraceOK(req[r])
      /\ CapIsTighter => CutTold(req[r])
  BY DEF IInv, CallsOK, CacheSet, At, Books, Told, CallTold
<1>2. req' = [req EXCEPT ![r] = c] /\ audited' = audited /\ metrics' = metrics
  BY DEF CacheSet, IInv, CallsOK, Calls
<1>3. /\ c.stage = "audit" /\ c.answer = req[r].answer /\ c.trace = req[r].trace
      /\ c.result = req[r].result /\ c.wanted = req[r].wanted
  BY <1>1 DEF Calls
<1> HIDE DEF c
<1>4. CallTold(c, <<>>)
  <2>1. StepsDone(c.stage) = StepsDone(req[r].stage)
    BY <1>1, <1>3 DEF StepsDone
  <2>2. /\ InOrder(c.trace) /\ LastBlocked(c.trace) /\ Unblocked(c.trace)
        /\ Len(c.trace) = StepsDone(c.stage)
    BY <1>1, <1>3, <2>1 DEF TraceOK
  <2>3. CapIsTighter => CutTold(c)
    BY <1>1, <1>3 DEF CutTold
  <2> QED
    BY <1>3, <2>2, <2>3, PendingTold
<1>5. Told'
  BY <1>1, <1>2, <1>4, MovesUnlogged DEF Books
<1>6. Balanced'
  <2>1. \A name \in Counters : CountedIn(name, c) <=> CountedIn(name, req[r])
    BY <1>1, <1>3, AnswerIsCounted DEF Counters
  <2> QED
    BY <1>2, <2>1, StaysBalanced DEF Books
<1> QED
  BY <1>5, <1>6 DEF Books

LEMMA ReturnKeepsBooks ==
  ASSUME IInv, Books, NEW r \in Requests, Return(r)
  PROVE  Books'
<1> DEFINE answer == req[r].answer
           trace  == req[r].trace
           c      == Left(r, "done", answer, trace)
<1>1. /\ req \in [Requests -> Calls] /\ req[r].stage = "audit"
      /\ TraceOK(req[r]) /\ CallInv(req[r])
  BY DEF IInv, CallsOK, Return, At, Books, Told, CallTold
<1>2. /\ answer \in Answers /\ ~answer.cached /\ ~answer.blocked /\ trace \in Seq(Events)
      /\ InOrder(trace) /\ LastBlocked(trace) /\ Len(trace) = 10
  <2>1. StepsDone(req[r].stage) = 10
    BY <1>1 DEF StepsDone
  <2> QED
    BY <1>1, <2>1 DEF CallInv, TypedCall, AnsweredCall, TraceOK, Calls
<1>3. req' = [req EXCEPT ![r] = c] /\ Audit(r, answer) /\ metrics' = metrics
  BY DEF Return
<1> HIDE DEF answer, trace
<1>4. c.stage = "done" /\ c.answer = answer /\ c.trace = trace
  <2>1. "done" \in Stages /\ answer \in Outcomes
    BY <1>2 DEF Stages, Outcomes
  <2> QED
    BY <1>1, <1>2, <2>1, LeftFields
<1> HIDE DEF c
<1>5. TraceOK(c)
  BY <1>2, <1>4 DEF TraceOK
<1>6. Told'
  BY <1>1, <1>2, <1>3, <1>4, <1>5, EndsLogged DEF Books
<1>7. Balanced'
  <2>1. \A name \in Counters : CountedIn(name, c) <=> CountedIn(name, req[r])
    BY <1>1, <1>2, <1>4, AnswerIsCounted DEF Counters, answer, trace
  <2> QED
    BY <1>3, <2>1, StaysBalanced DEF Books
<1> QED
  BY <1>6, <1>7 DEF Books

LEMMA WorldKeepsBooks ==
  ASSUME Books, Tick \/ Migrate \/ UNCHANGED vars
  PROVE  Books'
<1>1. req' = req /\ audited' = audited /\ metrics' = metrics
  BY DEF Tick, Migrate, vars, world
<1> QED
  BY <1>1 DEF Books, Told, Balanced, Counted

LEMMA InitBooks == Init => Books
<1> SUFFICES ASSUME Init PROVE Books
  OBVIOUS
<1>1. Idle.stage = "idle" /\ Idle.trace = <<>>
  BY DEF Idle
<1>2. Told
  <2>1. CallTold(Idle, <<>>)
    <3>1. StepsDone(Idle.stage) = 0
      BY <1>1 DEF StepsDone
    <3>2. /\ InOrder(Idle.trace) /\ LastBlocked(Idle.trace) /\ Unblocked(Idle.trace)
          /\ Len(Idle.trace) = 0
      BY <1>1 DEF InOrder, LastBlocked, Unblocked
    <3> QED
      BY <1>1, <3>1, <3>2, NotCutYet, PendingTold
  <2> QED
    BY <2>1 DEF Init, Told
<1>4. Balanced
  <2>1. ~Judged(Idle.trace)
    BY <1>1 DEF Judged
  <2>2. \A name \in Counters : ~CountedIn(name, Idle)
    BY <1>1, <2>1 DEF CountedIn
  <2>3. \A name \in Counters : Counted(name) = {}
    BY <2>2 DEF Counted, Init
  <2>4. \A name \in Counters : metrics[name] = 0
    BY DEF Init, Counters
  <2> QED
    BY <2>3, <2>4, FS_EmptySet DEF Balanced
<1> QED
  BY <1>2, <1>4 DEF Books

LEMMA NextKeepsBooks == IInv /\ Books /\ [Next]_vars => Books'
<1> SUFFICES ASSUME IInv, Books, [Next]_vars PROVE Books'
  OBVIOUS
<1>1. CASE Tick \/ Migrate \/ UNCHANGED vars
  BY <1>1, WorldKeepsBooks
<1>2. ASSUME NEW r \in Requests, NEW q \in Questions, Ask(r, q) PROVE Books'
  BY <1>2, AskKeepsBooks
<1>3. ASSUME NEW r \in Requests, Step(r) PROVE Books'
  <2>1. CASE CheckQuestion(r) \/ LoadSchema(r) \/ StampLookup(r) \/ Miss(r)
    BY <2>1, CheckQuestionKeepsBooks, LoadSchemaKeepsBooks, LookupKeepsBooks
  <2>2. CASE Hit(r) \/ Generate(r)
    BY <2>2, HitKeepsBooks, GenerateKeepsBooks
  <2>3. CASE Guardrails(r) \/ PolicyGate(r) \/ SchemaGate(r) \/ Explain(r)
    BY <2>3, GatesKeepBooks
  <2>4. CASE Execute(r) \/ Judge(r) \/ SkipJudge(r) \/ MakeAnswer(r)
    BY <2>4, ExecuteKeepsBooks, JudgeKeepsBooks, MakeAnswerKeepsBooks
  <2>5. CASE CacheSet(r) \/ Return(r)
    BY <2>5, CacheSetKeepsBooks, ReturnKeepsBooks
  <2> QED
    BY <1>3, <2>1, <2>2, <2>3, <2>4, <2>5 DEF Step
<1> QED
  BY <1>1, <1>2, <1>3 DEF Next

LEMMA BooksAreKept == Spec => []Books
BY Invariance, InitBooks, NextKeepsBooks, PTL DEF Spec

-----------------------------------------------------------------------------
(* Theorems about what is told and counted *)

(* Observers see the stages from the first on, in order and without a gap, *)
(* nothing after a gate that blocked, and all ten before a computed answer.*)
THEOREM StagesInOrder == Spec => []ReportedInOrder
<1>1. Books => ReportedInOrder
  <2>1. Len(PipelineStages) = 10
    BY StageNames
  <2> QED
    BY <2>1 DEF Books, Told, CallTold, TraceOK, InOrder, LastBlocked, ReportedInOrder,
                Answered, At
<1> QED
  BY <1>1, BooksAreKept, PTL

(* However many calls interleave on the metrics, each of them is the       *)
(* number of calls it is about: asked, replayed, refused, judged, and      *)
(* computed with a confidence the histogram can hold.                      *)
THEOREM CountersAddUp == Spec => []CountersBalance
<1>1. IInv /\ Books => CountersBalance
  <2> SUFFICES ASSUME IInv, Books PROVE CountersBalance
    OBVIOUS
  <2>1. \A r \in Requests :
          /\ ~At(r, "idle") <=> CountedIn("requests", req[r])
          /\ Replayed(r) <=> CountedIn("hits", req[r])
          /\ Blocked(r) <=> CountedIn("blocked", req[r])
          /\ Did(r, "judge", "ok") <=> CountedIn("judged", req[r])
          /\ Computed(r) /\ Recorded(req[r].answer.confidence)
               <=> CountedIn("observed", req[r])
    BY DEF At, Replayed, Answered, Blocked, Did, Computed, CountedIn, Judged
  <2>2. /\ {r \in Requests : ~At(r, "idle")} = Counted("requests")
        /\ {r \in Requests : Replayed(r)} = Counted("hits")
        /\ {r \in Requests : Blocked(r)} = Counted("blocked")
        /\ {r \in Requests : Did(r, "judge", "ok")} = Counted("judged")
        /\ {r \in Requests : Computed(r) /\ Recorded(req[r].answer.confidence)}
             = Counted("observed")
    BY <2>1 DEF Counted
  <2>3. metrics = [name \in Counters |-> Cardinality(Counted(name))]
    BY DEF IInv, LogsOK, Books, Balanced
  <2> QED
    BY <2>2, <2>3 DEF CountersBalance, Counters
<1> QED
  BY <1>1, Invariance, BooksAreKept, PTL

(* Every refusal and every computed answer leaves exactly one audit event, *)
(* what the client was told; nothing else leaves one.                      *)
THEOREM AuditedOnce == Spec => []AuditTrail
<1>1. Books => AuditTrail
  BY DEF Books, Told, CallTold, LoggedOnce, AuditTrail, At
<1> QED
  BY <1>1, BooksAreKept, PTL

(* Where the row cap lies below the limit given to every query, as it does *)
(* in the default configuration, a computed answer says it is truncated    *)
(* exactly when the query as drafted has more rows than were kept; a query *)
(* whose LIMIT is misread and widened (LIMIT 10 - 8, read as a ten) apart. *)
THEOREM TruncationIsTold ==
  ASSUME 0 <= MaxResultRows, MaxResultRows < MaxRows, LimitsTighten
  PROVE  Spec => []TruncationTold
<1>1. CapIsTighter
  BY Zenon DEF CapIsTighter
<1>2. Books => TruncationTold
  BY <1>1 DEF Books, Told, CallTold, CutTold, TruncationTold
<1> QED
  BY <1>2, BooksAreKept, PTL

-----------------------------------------------------------------------------
(* Where an answer comes from.                                             *)
(*                                                                         *)
(* A replay is as young as the entry it repeats, and an entry repeats the  *)
(* answer of a call that is still there to be compared with: the one that  *)
(* set it last.  A computed answer is one of those the promise knows: its  *)
(* score was made of a share of the votes and of a score of the judge, and *)
(* its rows were fetched within the limit.                                 *)

Grading == {"guardrails", "policy", "schema", "explain", "execute", "judge", "score"}
GradedCall(c) ==
  /\ c.stage \in Grading => c.agreement \in Agreements
  /\ c.stage \in {"judge", "score"} => c.result.rows <= MaxRows
  /\ c.stage = "score" => c.verdict \in JudgeScores \cup Agreements
Graded == \A r \in Requests : GradedCall(req[r])

(* The call whose answer an entry of the cache repeats. *)
Wrote(s, k) ==
  /\ req[s].stage \in {"audit", "done"}
  /\ req[s].setAt \in Nat /\ store[k].expires = req[s].setAt + TTL
  /\ MakeKey(req[s].question, req[s].schema) = k
  /\ req[s].answer = store[k].answer
Backed == \A k \in DOMAIN store : \E s \in Requests : Wrote(s, k)

Sourced == Graded /\ Backed

(* What a call keeps when it ends, whatever its types. *)
LEMMA LeftKeeps ==
  ASSUME NEW r, NEW stage, NEW answer, NEW trace
  PROVE  /\ Left(r, stage, answer, trace).stage = stage
         /\ Left(r, stage, answer, trace).answer = answer
         /\ Left(r, stage, answer, trace).question = req[r].question
         /\ Left(r, stage, answer, trace).schema = req[r].schema
         /\ Left(r, stage, answer, trace).setAt = req[r].setAt
BY DEF Left, Idle

(* A call that ends, refused or failed, and the others, that stay.         *)
LEMMA BlockMoves ==
  ASSUME IInv, NEW r \in Requests, NEW step, NEW reason, Block(r, step, reason)
  PROVE  /\ \A x \in Requests \ {r} : req'[x] = req[x]
         /\ req'[r].stage = "done" /\ req'[r].question = req[r].question
         /\ req'[r].answer.blocked
         /\ store' = store
<1> DEFINE answer == [question |-> req[r].question, draft |-> req[r].draft,
                      blocked |-> TRUE, reason |-> reason, confidence |-> 0,
                      rows |-> 0, truncated |-> FALSE, cached |-> FALSE]
           c      == Left(r, "done", answer, Emitted(r, step, "blocked"))
<1>1. req' = [req EXCEPT ![r] = c] /\ store' = store
  BY DEF Block
<1>2. answer.blocked
  OBVIOUS
<1> HIDE DEF answer
<1>3. c.stage = "done" /\ c.answer = answer /\ c.question = req[r].question
  BY LeftKeeps
<1> HIDE DEF c
<1>4. req'[r] = c /\ \A x \in Requests \ {r} : req'[x] = req[x]
  BY <1>1 DEF IInv, CallsOK
<1> QED
  BY <1>1, <1>2, <1>3, <1>4

LEMMA RaiseMoves ==
  ASSUME IInv, NEW r \in Requests, NEW trace, RaiseAfter(r, trace)
  PROVE  /\ \A x \in Requests \ {r} : req'[x] = req[x]
         /\ req'[r].stage = "failed" /\ req'[r].question = req[r].question
         /\ store' = store
<1> DEFINE c == Left(r, "failed", None, trace)
<1>1. req' = [req EXCEPT ![r] = c] /\ store' = store
  BY DEF RaiseAfter
<1>2. c.stage = "failed" /\ c.question = req[r].question
  BY LeftKeeps
<1> HIDE DEF c
<1>3. req'[r] = c /\ \A x \in Requests \ {r} : req'[x] = req[x]
  BY <1>1 DEF IInv, CallsOK
<1> QED
  BY <1>1, <1>2, <1>3

(* What each remaining kind of step does to the call that takes it. *)
Waiting == {"check", "load", "stamp", "lookup", "generate", "guardrails", "policy",
            "schema", "explain", "execute", "judge", "score"}

Advances(r) ==   \* in flight before and after: no answer, nothing cached
  /\ \A x \in Requests \ {r} : req'[x] = req[x]
  /\ req[r].stage \in Waiting /\ req'[r].stage \in Waiting
  /\ req'[r].question = req[r].question
  /\ DOMAIN store' \subseteq DOMAIN store
  /\ \A k \in DOMAIN store' : store'[k] = store[k]
  /\ GradedCall(req[r]) => GradedCall(req'[r])

Refused(r) ==
  /\ \A x \in Requests \ {r} : req'[x] = req[x]
  /\ req[r].stage \in Waiting /\ req'[r].question = req[r].question
  /\ \/ req'[r].stage = "done" /\ req'[r].answer.blocked
     \/ req'[r].stage = "failed"
  /\ store' = store

LEMMA BlockRefuses ==
  ASSUME IInv, NEW r \in Requests, req[r].stage \in Waiting,
         NEW step, NEW reason, Block(r, step, reason)
  PROVE  Refused(r)
BY BlockMoves DEF Refused

LEMMA RaiseRefuses ==
  ASSUME IInv, NEW r \in Requests, req[r].stage \in Waiting,
         NEW trace, RaiseAfter(r, trace)
  PROVE  Refused(r)
BY RaiseMoves DEF Refused

(* A step that leaves the store alone and grades nothing advances a call.  *)
LEMMA UngradedAdvances ==
  ASSUME IInv, NEW r \in Requests, NEW c, req' = [req EXCEPT ![r] = c], store' = store,
         req[r].stage \in Waiting, c.stage \in Waiting \ Grading,
         c.question = req[r].question
  PROVE  Advances(r)
<1>1. req'[r] = c /\ \A x \in Requests \ {r} : req'[x] = req[x]
  BY DEF IInv, CallsOK
<1>2. GradedCall(c)
  BY DEF GradedCall, Grading
<1> QED
  BY <1>1, <1>2 DEF Advances

LEMMA EarlySteps ==
  ASSUME IInv, NEW r \in Requests,
         CheckQuestion(r) \/ LoadSchema(r) \/ StampLookup(r) \/ Miss(r)
  PROVE  Advances(r) \/ Refused(r)
<1>1. CASE CheckQuestion(r)
  <2>1. req[r].stage \in Waiting
    BY <1>1 DEF CheckQuestion, At, Waiting
  <2>2. CASE req' = [req EXCEPT ![r].stage = "load"] /\ store' = store
    <3> DEFINE c == [req[r] EXCEPT !.stage = "load"]
    <3>1. req' = [req EXCEPT ![r] = c]
      BY <2>2 DEF IInv, CallsOK, Calls
    <3>2. c.stage = "load" /\ c.question = req[r].question
      BY DEF IInv, CallsOK, Calls
    <3> HIDE DEF c
    <3>3. c.stage \in Waiting \ Grading
      BY <3>2 DEF Waiting, Grading
    <3> QED
      BY <2>1, <2>2, <3>1, <3>2, <3>3, UngradedAdvances
  <2> QED
    BY <1>1, <2>1, <2>2, BlockRefuses DEF CheckQuestion
<1>2. CASE LoadSchema(r)
  <2>1. req[r].stage \in Waiting
    BY <1>2 DEF LoadSchema, At, Waiting
  <2>2. CASE Raise(r)
    BY <2>1, <2>2, RaiseRefuses DEF Raise
  <2>3. CASE ~Raise(r)
    <3>1. PICK s \in had :
            /\ req' = [req EXCEPT ![r].stage = IF CacheEnabled THEN "stamp" ELSE "generate",
                                  ![r].schema = s,
                                  ![r].trace = IF CacheEnabled THEN @
                                               ELSE Emitted(r, "cache", "skip")]
            /\ store' = store
      BY <1>2, <2>3 DEF LoadSchema
    <3> DEFINE stage == IF CacheEnabled THEN "stamp" ELSE "generate"
               trace == IF CacheEnabled THEN req[r].trace ELSE Emitted(r, "cache", "skip")
               c     == [req[r] EXCEPT !.stage = stage, !.schema = s, !.trace = trace]
    <3>2. req' = [req EXCEPT ![r] = c]
      BY <3>1 DEF IInv, CallsOK, Calls
    <3>3. stage \in {"stamp", "generate"}
      OBVIOUS
    <3> HIDE DEF stage, trace
    <3>4. c.stage = stage /\ c.question = req[r].question
      BY DEF IInv, CallsOK, Calls
    <3> HIDE DEF c
    <3>5. c.stage \in Waiting \ Grading
      BY <3>3, <3>4 DEF Waiting, Grading
    <3> QED
      BY <2>1, <3>1, <3>2, <3>4, <3>5, UngradedAdvances
  <2> QED
    BY <2>2, <2>3
<1>3. CASE StampLookup(r)
  <2> DEFINE c == [req[r] EXCEPT !.stage = "lookup", !.now = clock]
  <2>1. req' = [req EXCEPT ![r] = c] /\ store' = store
    BY <1>3 DEF StampLookup, IInv, CallsOK, Calls
  <2>2. c.stage = "lookup" /\ c.question = req[r].question
    BY DEF IInv, CallsOK, Calls
  <2> HIDE DEF c
  <2>3. req[r].stage \in Waiting /\ c.stage \in Waiting \ Grading
    BY <1>3, <2>2 DEF StampLookup, At, Waiting, Grading
  <2> QED
    BY <2>1, <2>2, <2>3, UngradedAdvances
<1>4. CASE Miss(r)
  <2> DEFINE key == MakeKey(req[r].question, req[r].schema)
             c   == [req[r] EXCEPT !.stage = "generate", !.trace = Emitted(r, "cache", "skip")]
  <2>1. req' = [req EXCEPT ![r] = c] /\ store' = Swept(key, req[r].now)
    BY <1>4 DEF Miss, IInv, CallsOK, Calls
  <2> HIDE DEF key
  <2>2. /\ DOMAIN store' \subseteq DOMAIN store
        /\ \A k \in DOMAIN store' : store'[k] = store[k]
    BY <2>1 DEF Swept, Pop, Restrict
  <2>3. c.stage = "generate" /\ c.question = req[r].question
    BY DEF IInv, CallsOK, Calls
  <2> HIDE DEF c
  <2>4. req'[r] = c /\ \A x \in Requests \ {r} : req'[x] = req[x]
    BY <2>1 DEF IInv, CallsOK
  <2>5. req[r].stage \in Waiting /\ c.stage \in Waiting /\ GradedCall(c)
    BY <1>4, <2>3 DEF Miss, At, Waiting, GradedCall, Grading
  <2> QED
    BY <2>2, <2>3, <2>4, <2>5 DEF Advances
<1> QED
  BY <1>1, <1>2, <1>3, <1>4

(* The share that consistency reports is one of the Agreements.            *)
LEMMA AgreementKnown ==
  ASSUME NEW candidates \in [1 .. NumSamples -> Drafts]
  PROVE  Consistency(candidates).agreement \in Agreements
<1>1. NumSamples \in Nat \ {0} /\ Unit \in Nat \ {0}
  BY PipelineAssumption, VoteAssumption
<1>2. candidates # <<>> /\ Len(candidates) = NumSamples
  BY <1>1
<1>3. CASE Parsed(candidates) = {}
  <2>1. Consistency(candidates).agreement = 0
    BY <1>2, <1>3 DEF Consistency
  <2>2. (0 * Unit) \div NumSamples = 0
    BY <1>1, Z3
  <2>3. 0 \in 0 .. NumSamples
    BY <1>1
  <2> QED
    BY <2>1, <2>2, <2>3 DEF Agreements
<1>4. CASE Parsed(candidates) # {}
  <2> DEFINE votes == Votes(candidates, Canonical[candidates[Winner(candidates)]])
  <2>1. Consistency(candidates).agreement = (votes * Unit) \div NumSamples
    BY <1>2, <1>4 DEF Consistency
  <2>2. votes \in Nat /\ votes <= NumSamples
    BY <1>1, VotesBounded
  <2> HIDE DEF votes
  <2>3. votes \in 0 .. NumSamples
    BY <1>1, <2>2
  <2> QED
    BY <2>1, <2>3 DEF Agreements
<1> QED
  BY <1>3, <1>4

(* What was fetched is within the limit given to every query.              *)
LEMMA RowsWithinLimit ==
  ASSUME NEW d \in Drafts, NEW matching \in Nat
  PROVE  Capped(Fetched(d, matching)).rows <= MaxRows
<1> DEFINE f == Fetched(d, matching)
<1>1. EnforcedLimit(d) \in Nat /\ MaxRows \in Nat /\ MaxResultRows \in Int
  BY PipelineAssumption DEF EnforcedLimit
<1>2. f.rows \in Nat /\ f.rows <= MaxRows /\ f \in Results
  BY <1>1 DEF Fetched, Lesser, Results
<1> HIDE DEF f
<1>3. CASE MaxResultRows >= 0 /\ f.rows > MaxResultRows
  <2>1. f.ok \in BOOLEAN
    BY <1>2 DEF Results
  <2>2. Capped(f).rows = MaxResultRows \/ Capped(f) = f
    BY <1>2 DEF Capped, Results
  <2> QED
    BY <1>1, <1>2, <1>3, <2>2 DEF f
<1>4. CASE ~(MaxResultRows >= 0 /\ f.rows > MaxResultRows)
  <2>1. Capped(f) = f
    BY <1>4 DEF Capped
  <2> QED
    BY <1>2, <2>1 DEF f
<1> QED
  BY <1>3, <1>4

LEMMA GenerateAdvances ==
  ASSUME IInv, NEW r \in Requests, Generate(r)
  PROVE  Advances(r) \/ Refused(r)
<1>1. req[r].stage \in Waiting
  BY DEF Generate, At, Waiting
<1>2. CASE Raise(r) \/ RaiseAfter(r, Emitted(r, "generate", "ok"))
  BY <1>1, <1>2, RaiseRefuses DEF Raise
<1>3. CASE ~Raise(r) /\ ~RaiseAfter(r, Emitted(r, "generate", "ok"))
  <2> DEFINE two == Append(Emitted(r, "generate", "ok"),
                           [step |-> "consistency", status |-> "ok"])
  <2>1. PICK candidates \in [1 .. NumSamples -> Drafts] :
          /\ req' = [req EXCEPT ![r].stage = "guardrails",
                                ![r].draft = Consistency(candidates).chosen,
                                ![r].agreement = Consistency(candidates).agreement,
                                ![r].trace = two]
          /\ store' = store
    BY <1>3 DEF Generate
  <2> HIDE DEF two
  <2>2. /\ req'[r].stage = "guardrails" /\ req'[r].question = req[r].question
        /\ req'[r].agreement = Consistency(candidates).agreement
        /\ \A x \in Requests \ {r} : req'[x] = req[x]
    BY <2>1 DEF IInv, CallsOK, Calls
  <2>3. GradedCall(req'[r])
    BY <2>2, AgreementKnown DEF GradedCall
  <2>4. req'[r].stage \in Waiting
    BY <2>2 DEF Waiting
  <2> QED
    BY <1>1, <2>1, <2>2, <2>3, <2>4 DEF Advances
<1> QED
  BY <1>2, <1>3

LEMMA PassAdvances ==
  ASSUME IInv, NEW r \in Requests, req[r].stage \in {"guardrails", "policy", "schema", "explain"},
         NEW step, NEW next \in {"policy", "schema", "explain"},
         Pass(r, step, next)
  PROVE  Advances(r)
<1>1. /\ req'[r].stage = next /\ req'[r].question = req[r].question
      /\ req'[r].agreement = req[r].agreement
      /\ \A x \in Requests \ {r} : req'[x] = req[x]
  BY DEF Pass, IInv, CallsOK, Calls
<1>2. GradedCall(req[r]) => GradedCall(req'[r])
  BY <1>1 DEF GradedCall, Grading
<1>3. req[r].stage \in Waiting /\ req'[r].stage \in Waiting /\ store' = store
  BY <1>1 DEF Waiting, Pass
<1> QED
  BY <1>1, <1>2, <1>3 DEF Advances

LEMMA PlanAdvances ==
  ASSUME IInv, NEW r \in Requests, req[r].stage = "explain", NEW plan, PassWithPlan(r, plan)
  PROVE  Advances(r)
<1>1. /\ req'[r].stage = "execute" /\ req'[r].question = req[r].question
      /\ req'[r].agreement = req[r].agreement
      /\ \A x \in Requests \ {r} : req'[x] = req[x]
  BY DEF PassWithPlan, IInv, CallsOK, Calls
<1>2. GradedCall(req[r]) => GradedCall(req'[r])
  BY <1>1 DEF GradedCall, Grading
<1>3. req[r].stage \in Waiting /\ req'[r].stage \in Waiting /\ store' = store
  BY <1>1 DEF Waiting, PassWithPlan
<1> QED
  BY <1>1, <1>2, <1>3 DEF Advances

LEMMA GatesAdvance ==
  ASSUME IInv, NEW r \in Requests,
         Guardrails(r) \/ PolicyGate(r) \/ SchemaGate(r) \/ Explain(r)
  PROVE  Advances(r) \/ Refused(r)
<1>1. /\ req[r].stage \in {"guardrails", "policy", "schema", "explain"}
      /\ req[r].stage \in Waiting
  BY DEF Guardrails, PolicyGate, SchemaGate, Explain, At, Waiting
<1>2. \A step, reason : Block(r, step, reason) => Refused(r)
  BY <1>1, BlockRefuses
<1>3. \A step, next : next \in {"policy", "schema", "explain"} /\ Pass(r, step, next)
                        => Advances(r)
  BY <1>1, PassAdvances
<1>8. Raise(r) => Refused(r)
  BY <1>1, RaiseRefuses DEF Raise
<1>4. CASE Guardrails(r)
  BY <1>2, <1>3, <1>4, <1>8 DEF Guardrails
<1>5. CASE PolicyGate(r)
  BY <1>2, <1>3, <1>5, <1>8 DEF PolicyGate
<1>6. CASE SchemaGate(r)
  BY <1>2, <1>3, <1>6, <1>8 DEF SchemaGate
<1>7. CASE Explain(r)
  <2>1. \A plan : PassWithPlan(r, plan) => Advances(r)
    BY <1>7, PlanAdvances DEF Explain, At
  <2> QED
    BY <1>2, <1>7, <1>8, <2>1 DEF Explain
<1> QED
  BY <1>4, <1>5, <1>6, <1>7

LEMMA ExecuteAdvances ==
  ASSUME IInv, NEW r \in Requests, Execute(r)
  PROVE  Advances(r) \/ Refused(r)
<1>1. /\ req[r] \in Calls /\ req[r].stage = "execute" /\ req[r].draft \in Drafts
      /\ store' = store
  BY DEF IInv, CallsOK, CallInv, TypedCall, Drafted, WithPolicy, Execute, At
<1>2. ASSUME NEW result, result.rows <= MaxRows,
             req'[r].result = result, req'[r].stage = "judge",
             req'[r].question = req[r].question, req'[r].agreement = req[r].agreement,
             \A x \in Requests \ {r} : req'[x] = req[x]
      PROVE  Advances(r)
  <2>1. GradedCall(req[r]) => GradedCall(req'[r])
    BY <1>1, <1>2 DEF GradedCall, Grading
  <2>2. req[r].stage \in Waiting /\ req'[r].stage \in Waiting
    BY <1>1, <1>2 DEF Waiting
  <2> QED
    BY <1>1, <1>2, <2>1, <2>2 DEF Advances
<1>3. ASSUME NEW matching \in Matching[req[r].draft],
             req' = [req EXCEPT ![r].stage = "judge",
                                ![r].result = Capped(Fetched(req[r].draft, matching)),
                                ![r].wanted = Wanted(req[r].draft, matching),
                                ![r].trace = Emitted(r, "execute", "ok")]
      PROVE  Advances(r)
  <2>1. matching \in Nat
    BY <1>1, PipelineAssumption
  <2>2. Capped(Fetched(req[r].draft, matching)).rows <= MaxRows
    BY <1>1, <2>1, RowsWithinLimit
  <2>3. /\ req'[r].result = Capped(Fetched(req[r].draft, matching))
        /\ req'[r].stage = "judge" /\ req'[r].question = req[r].question
        /\ req'[r].agreement = req[r].agreement
        /\ \A x \in Requests \ {r} : req'[x] = req[x]
    BY <1>3 DEF IInv, CallsOK, Calls
  <2> QED
    BY <1>2, <2>2, <2>3
<1>4. CASE req' = [req EXCEPT ![r].stage = "judge", ![r].result = FailedResult,
                              ![r].trace = Emitted(r, "execute", "blocked")]
  <2>1. FailedResult.rows <= MaxRows
    BY PipelineAssumption DEF FailedResult
  <2>2. /\ req'[r].result = FailedResult
        /\ req'[r].stage = "judge" /\ req'[r].question = req[r].question
        /\ req'[r].agreement = req[r].agreement
        /\ \A x \in Requests \ {r} : req'[x] = req[x]
    BY <1>4 DEF IInv, CallsOK, Calls
  <2> QED
    BY <1>2, <2>1, <2>2
<1>5. CASE Raise(r)
  BY <1>1, <1>5, RaiseRefuses DEF Raise, Waiting
<1> QED
  BY <1>3, <1>4, <1>5 DEF Execute

LEMMA JudgeAdvances ==
  ASSUME IInv, NEW r \in Requests, Judge(r) \/ SkipJudge(r)
  PROVE  Advances(r) \/ Refused(r)
<1>1. req[r] \in Calls /\ req[r].stage = "judge" /\ req[r].stage \in Waiting
  BY DEF IInv, CallsOK, Judge, SkipJudge, At, Waiting
<1>2. CASE Raise(r)
  BY <1>1, <1>2, RaiseRefuses DEF Raise
<1>3. ASSUME NEW verdict, verdict \in JudgeScores \/ verdict = req[r].agreement, NEW trace,
             req' = [req EXCEPT ![r].stage = "score", ![r].verdict = verdict,
                                ![r].trace = trace],
             store' = store
      PROVE  Advances(r)
  <2>1. /\ req'[r].stage = "score" /\ req'[r].question = req[r].question
        /\ req'[r].agreement = req[r].agreement /\ req'[r].verdict = verdict
        /\ req'[r].result = req[r].result
        /\ \A x \in Requests \ {r} : req'[x] = req[x]
    BY <1>3 DEF IInv, CallsOK, Calls
  <2>2. GradedCall(req[r]) => GradedCall(req'[r])
    BY <1>1, <1>3, <2>1 DEF GradedCall, Grading
  <2>3. req'[r].stage \in Waiting
    BY <2>1 DEF Waiting
  <2> QED
    BY <1>1, <1>3, <2>1, <2>2, <2>3 DEF Advances
<1>4. CASE SkipJudge(r)
  BY <1>3, <1>4 DEF SkipJudge
<1>5. CASE Judge(r) /\ ~Raise(r)
  BY <1>3, <1>5 DEF Judge
<1> QED
  BY <1>2, <1>4, <1>5

-----------------------------------------------------------------------------
(* The three steps that answer *)

(* A replay: the answer of the key, marked as cached. *)
LEMMA HitMoves ==
  ASSUME IInv, NEW r \in Requests, Hit(r)
  PROVE  LET key == MakeKey(req[r].question, req[r].schema) IN
         /\ \A x \in Requests \ {r} : req'[x] = req[x]
         /\ req[r].stage = "lookup" /\ req'[r].stage = "done"
         /\ req'[r].question = req[r].question /\ req'[r].schema = req[r].schema
         /\ key \in DOMAIN store /\ req[r].now < store[key].expires
         /\ store[key] \in Entries /\ EntryInv(key, store[key].answer)
         /\ req'[r].answer = [store[key].answer EXCEPT !.cached = TRUE]
         /\ store' = store
<1> DEFINE key    == MakeKey(req[r].question, req[r].schema)
           answer == [store[key].answer EXCEPT !.cached = TRUE]
           c      == Left(r, "done", answer, Emitted(r, "cache", "ok"))
<1>1. /\ req' = [req EXCEPT ![r] = c] /\ store' = store /\ req[r].stage = "lookup"
      /\ key \in DOMAIN store /\ req[r].now < store[key].expires
  BY DEF Hit, At, Live
<1> HIDE DEF answer
<1>2. /\ c.stage = "done" /\ c.answer = answer /\ c.question = req[r].question
      /\ c.schema = req[r].schema
  BY LeftKeeps
<1> HIDE DEF c
<1>3. req'[r] = c /\ \A x \in Requests \ {r} : req'[x] = req[x]
  BY <1>1 DEF IInv, CallsOK
<1>4. store[key] \in Entries /\ EntryInv(key, store[key].answer)
  <2> HIDE DEF key
  <2> QED
    BY <1>1 DEF IInv, StoreOK
<1> HIDE DEF key
<1> QED
  BY <1>1, <1>2, <1>3, <1>4 DEF key, answer

LEMMA ScoreKnown ==
  ASSUME NEW executed \in BOOLEAN, NEW agreement \in Agreements,
         NEW verdict \in JudgeScores \cup Agreements
  PROVE  Score(TRUE, executed, agreement, verdict) \in Confidences
BY SMTT(30) DEF Confidences, Score

(* A computed answer is one the promise knows, and governance lets it out. *)
LEMMA MakeAnswerMoves ==
  ASSUME IInv, Graded, NEW r \in Requests, MakeAnswer(r)
  PROVE  /\ \A x \in Requests \ {r} : req'[x] = req[x]
         /\ req[r].stage = "score" /\ req'[r].stage \in {"store", "audit"}
         /\ req'[r].question = req[r].question /\ req'[r].schema = req[r].schema
         /\ req[r].schema \in Schemas
         /\ ~req'[r].answer.blocked /\ ~req'[r].answer.cached
         /\ Payload(req'[r].answer) \in PromisedPayloads
         /\ Approves(req[r].schema, Payload(req'[r].answer))
         /\ store' = store
<1> DEFINE result     == req[r].result
           confidence == Score(TRUE, result.ok, req[r].agreement, req[r].verdict)
           reason     == IF result.ok THEN "none" ELSE "error"
           rows       == RowsReturned(confidence, result)
           answer     == [question |-> req[r].question, draft |-> req[r].draft,
                          blocked |-> FALSE, reason |-> reason,
                          confidence |-> confidence, rows |-> rows,
                          truncated |-> result.truncated, cached |-> FALSE]
           stage      == IF Cacheable(result) THEN "store" ELSE "audit"
           c          == [req[r] EXCEPT !.stage = stage, !.answer = answer,
                                        !.trace = Emitted(r, "score", "ok")]
<1>1. /\ req[r] \in Calls /\ req[r].stage = "score" /\ CallInv(req[r]) /\ GradedCall(req[r])
      /\ store' = store
  BY DEF IInv, CallsOK, MakeAnswer, At, Graded
<1>2. /\ req[r].draft \in Drafts /\ req[r].schema \in Schemas
      /\ Vetted(req[r].draft, req[r].schema)
  BY <1>1 DEF CallInv, TypedCall, GatedCall, Drafted, WithPolicy, WithSchema, WithExplain,
              WithExecute, Vetted
<1>3. /\ result.ok \in BOOLEAN /\ result.rows \in Nat /\ result.truncated \in BOOLEAN
      /\ result.ok \/ result.rows = 0
  BY <1>1 DEF Calls, Results, CallInv, AnsweredCall, GradedCall
<1>4. /\ MaxResultRows >= 0 => result.rows <= MaxResultRows
      /\ result.rows <= MaxRows
  BY <1>1 DEF CallInv, AnsweredCall, GradedCall
<1>5. confidence \in Confidences /\ confidence \in Int \cup {NaN}
  <2>1. /\ req[r].agreement \in Agreements /\ req[r].verdict \in JudgeScores \cup Agreements
    BY <1>1 DEF GradedCall, Grading
  <2>2. req[r].agreement \in Nat /\ req[r].verdict \in Int \cup {NaN}
    BY <1>1 DEF Calls
  <2>3. confidence \in Confidences
    BY <1>3, <2>1, ScoreKnown
  <2>4. confidence \in Int \cup {NaN}
    BY <1>3, <2>2, ScoreType
  <2> QED
    BY <2>3, <2>4
<1>6. req' = [req EXCEPT ![r] = c]
  BY DEF MakeAnswer, IInv, CallsOK, Calls
<1>7. stage \in {"store", "audit"} /\ reason \in {"none", "error"}
      /\ (reason = "none" <=> result.ok)
  OBVIOUS
<1> HIDE DEF result, confidence, reason, stage
<1>8. /\ rows \in 0 .. MaxRows
      /\ rows > 0 => (confidence = NaN \/ confidence >= MinConfidence) /\ rows = result.rows
      /\ MaxResultRows >= 0 => rows <= MaxResultRows
  <2>1. rows = IF Below(confidence, MinConfidence) THEN 0 ELSE result.rows
    BY DEF RowsReturned
  <2>2. ~Below(confidence, MinConfidence) =>
          confidence = NaN \/ confidence >= MinConfidence
    BY <1>5, PipelineAssumption DEF Below
  <2> HIDE DEF rows
  <2>3. MaxRows \in Nat /\ MaxResultRows \in Int
    BY PipelineAssumption
  <2> QED
    BY <1>3, <1>4, <2>1, <2>2, <2>3
<1> HIDE DEF rows
<1>9. /\ ~answer.blocked /\ ~answer.cached
      /\ Payload(answer) = [draft |-> req[r].draft, rows |-> rows,
                            truncated |-> result.truncated, confidence |-> confidence,
                            reason |-> reason]
  BY DEF Payload
<1> DEFINE payload == [draft |-> req[r].draft, rows |-> rows,
                       truncated |-> result.truncated, confidence |-> confidence,
                       reason |-> reason]
<1>10. payload \in PromisedPayloads
  BY <1>2, <1>3, <1>5, <1>7, <1>8, Zenon DEF PromisedPayloads
<1>11. Approves(req[r].schema, payload)
  <2>1. /\ payload.draft = req[r].draft /\ payload.rows = rows
        /\ payload.confidence = confidence /\ payload.reason = reason
    OBVIOUS
  <2>2. rows > 0 => reason = "none"
    BY <1>3, <1>7, <1>8
  <2> HIDE DEF payload
  <2> QED
    BY <1>2, <1>8, <2>1, <2>2 DEF Approves
<1> HIDE DEF answer
<1>12. /\ c.stage = stage /\ c.answer = answer /\ c.question = req[r].question
       /\ c.schema = req[r].schema
  BY <1>1 DEF Calls
<1> HIDE DEF c
<1>13. req'[r] = c /\ \A x \in Requests \ {r} : req'[x] = req[x]
  BY <1>6 DEF IInv, CallsOK
<1> QED
  BY <1>1, <1>2, <1>7, <1>9, <1>10, <1>11, <1>12, <1>13

(* What happens to an answer after it is made: it is cached and returned.  *)
LEMMA AfterAnswerMoves ==
  ASSUME IInv, NEW r \in Requests, CacheSet(r) \/ Return(r)
  PROVE  /\ \A x \in Requests \ {r} : req'[x] = req[x]
         /\ req[r].stage \in {"store", "audit"} /\ req'[r].stage \in {"audit", "done"}
         /\ req'[r].question = req[r].question /\ req'[r].schema = req[r].schema
         /\ req'[r].answer = req[r].answer
         /\ CacheSet(r) => req'[r].setAt = clock /\ req'[r].stage = "audit"
                           /\ req[r].stage = "store"
         /\ Return(r) => req'[r].setAt = req[r].setAt /\ store' = store
         /\ ~req[r].answer.blocked
<1>1. ~req[r].answer.blocked
  BY DEF IInv, CallsOK, CallInv, AnsweredCall, CacheSet, Return, At
<1>2. CASE CacheSet(r)
  <2>1. /\ req'[r].stage = "audit" /\ req'[r].setAt = clock
        /\ req'[r].question = req[r].question /\ req'[r].schema = req[r].schema
        /\ req'[r].answer = req[r].answer
        /\ \A x \in Requests \ {r} : req'[x] = req[x]
    BY <1>2 DEF CacheSet, IInv, CallsOK, Calls
  <2>2. req[r].stage = "store" /\ ~Return(r)
    BY <1>2 DEF CacheSet, Return, At
  <2> QED
    BY <1>1, <2>1, <2>2
<1>3. CASE Return(r)
  <2> DEFINE c == Left(r, "done", req[r].answer, req[r].trace)
  <2>1. req' = [req EXCEPT ![r] = c] /\ store' = store /\ req[r].stage = "audit"
    BY <1>3 DEF Return, At
  <2>2. /\ c.stage = "done" /\ c.answer = req[r].answer /\ c.question = req[r].question
        /\ c.schema = req[r].schema /\ c.setAt = req[r].setAt
    BY LeftKeeps
  <2> HIDE DEF c
  <2>3. req'[r] = c /\ \A x \in Requests \ {r} : req'[x] = req[x]
    BY <2>1 DEF IInv, CallsOK
  <2>4. ~CacheSet(r)
    BY <2>1 DEF CacheSet, At
  <2> QED
    BY <1>1, <2>1, <2>2, <2>3, <2>4
<1> QED
  BY <1>2, <1>3

LEMMA AskMoves ==
  ASSUME IInv, NEW r \in Requests, NEW q \in Questions, Ask(r, q)
  PROVE  /\ \A x \in Requests \ {r} : req'[x] = req[x]
         /\ req[r].stage = "idle" /\ req'[r].stage = "check" /\ req'[r].question = q
         /\ store' = store
BY DEF Ask, At, IInv, CallsOK, Calls

(* Every step is one of these. *)
LEMMA StepKinds ==
  ASSUME IInv, NEW r \in Requests, Step(r)
  PROVE  Advances(r) \/ Refused(r) \/ Hit(r) \/ MakeAnswer(r) \/ CacheSet(r) \/ Return(r)
<1>1. CASE CheckQuestion(r) \/ LoadSchema(r) \/ StampLookup(r) \/ Miss(r)
  BY <1>1, EarlySteps
<1>2. CASE Generate(r)
  BY <1>2, GenerateAdvances
<1>3. CASE Guardrails(r) \/ PolicyGate(r) \/ SchemaGate(r) \/ Explain(r)
  BY <1>3, GatesAdvance
<1>4. CASE Execute(r) \/ Judge(r) \/ SkipJudge(r)
  BY <1>4, ExecuteAdvances, JudgeAdvances
<1> QED
  BY <1>1, <1>2, <1>3, <1>4 DEF Step

-----------------------------------------------------------------------------
(* Grades and sources are kept *)

LEMMA OneGraded ==
  ASSUME Graded, NEW r \in Requests, \A x \in Requests \ {r} : req'[x] = req[x],
         GradedCall(req'[r])
  PROVE  Graded'
BY DEF Graded

(* An entry stays backed while the call that wrote it keeps its answer.    *)
LEMMA StillBacked ==
  ASSUME Backed, NEW r \in Requests, \A x \in Requests \ {r} : req'[x] = req[x],
         req[r].stage \notin {"audit", "done"},
         DOMAIN store' \subseteq DOMAIN store,
         \A k \in DOMAIN store' : store'[k] = store[k]
  PROVE  Backed'
<1> SUFFICES ASSUME NEW k \in DOMAIN store' PROVE \E s \in Requests : Wrote(s, k)'
  BY DEF Backed
<1>1. PICK s \in Requests : Wrote(s, k)
  BY DEF Backed
<1>2. req'[s] = req[s]
  BY <1>1 DEF Wrote
<1> QED
  BY <1>1, <1>2 DEF Wrote

LEMMA StepKeepsSources ==
  ASSUME IInv, Sourced, NEW r \in Requests, Step(r)
  PROVE  Sourced'
<1>1. CASE Advances(r)
  <2>1. GradedCall(req'[r]) /\ req[r].stage \notin {"audit", "done"}
    BY <1>1 DEF Advances, Sourced, Graded, Waiting
  <2> QED
    BY <1>1, <2>1, OneGraded, StillBacked DEF Advances, Sourced
<1>2. CASE Refused(r)
  <2>1. GradedCall(req'[r]) /\ req[r].stage \notin {"audit", "done"}
    BY <1>2 DEF Refused, GradedCall, Grading, Waiting
  <2> QED
    BY <1>2, <2>1, OneGraded, StillBacked DEF Refused, Sourced
<1>3. CASE Hit(r)
  <2>1. /\ \A x \in Requests \ {r} : req'[x] = req[x]
        /\ req[r].stage = "lookup" /\ req'[r].stage = "done" /\ store' = store
    BY <1>3, HitMoves
  <2>2. GradedCall(req'[r]) /\ req[r].stage \notin {"audit", "done"}
    BY <2>1 DEF GradedCall, Grading
  <2> QED
    BY <2>1, <2>2, OneGraded, StillBacked DEF Sourced
<1>4. CASE MakeAnswer(r)
  <2>1. /\ \A x \in Requests \ {r} : req'[x] = req[x]
        /\ req[r].stage = "score" /\ req'[r].stage \in {"store", "audit"} /\ store' = store
    BY <1>4, MakeAnswerMoves DEF Sourced
  <2>2. GradedCall(req'[r]) /\ req[r].stage \notin {"audit", "done"}
    BY <2>1 DEF GradedCall, Grading
  <2> QED
    BY <2>1, <2>2, OneGraded, StillBacked DEF Sourced
<1>5. CASE CacheSet(r)
  <2>1. /\ \A x \in Requests \ {r} : req'[x] = req[x]
        /\ req[r].stage = "store" /\ req'[r].stage = "audit" /\ req'[r].setAt = clock
        /\ req'[r].question = req[r].question /\ req'[r].schema = req[r].schema
        /\ req'[r].answer = req[r].answer
    BY <1>5, AfterAnswerMoves
  <2>2. GradedCall(req'[r])
    BY <2>1 DEF GradedCall, Grading
  <2> DEFINE key == MakeKey(req[r].question, req[r].schema)
  <2>3. /\ DOMAIN store' = DOMAIN store \cup {key}
        /\ \A k \in DOMAIN store' :
             store'[k] = IF k = key THEN [expires |-> clock + TTL, answer |-> req[r].answer]
                         ELSE store[k]
    BY <1>5 DEF CacheSet, Put
  <2>4. clock \in Nat
    BY DEF IInv, WorldOK
  <2>5. Backed'
    <3> SUFFICES ASSUME NEW k \in DOMAIN store' PROVE \E s \in Requests : Wrote(s, k)'
      BY DEF Backed
    <3>1. CASE k = key
      <4>1. MakeKey(req'[r].question, req'[r].schema) = k
        BY <2>1, <3>1 DEF MakeKey
      <4>2. store'[k].expires = clock + TTL /\ store'[k].answer = req[r].answer
        BY <2>3, <3>1
      <4> QED
        BY <2>1, <2>4, <4>1, <4>2 DEF Wrote
    <3>2. CASE k # key
      <4>1. k \in DOMAIN store /\ store'[k] = store[k]
        BY <2>3, <3>2
      <4>2. PICK s \in Requests : Wrote(s, k)
        BY <4>1 DEF Sourced, Backed
      <4>3. req'[s] = req[s]
        BY <2>1, <4>2 DEF Wrote
      <4> QED
        BY <4>1, <4>2, <4>3 DEF Wrote
    <3> QED
      BY <3>1, <3>2
  <2> QED
    BY <2>1, <2>2, <2>5, OneGraded DEF Sourced
<1>6. CASE Return(r)
  <2>1. /\ \A x \in Requests \ {r} : req'[x] = req[x]
        /\ req'[r].stage \in {"audit", "done"} /\ req'[r].setAt = req[r].setAt
        /\ req'[r].question = req[r].question /\ req'[r].schema = req[r].schema
        /\ req'[r].answer = req[r].answer /\ store' = store
    BY <1>6, AfterAnswerMoves
  <2>2. GradedCall(req'[r])
    BY <2>1 DEF GradedCall, Grading
  <2>3. Backed'
    <3> SUFFICES ASSUME NEW k \in DOMAIN store' PROVE \E s \in Requests : Wrote(s, k)'
      BY DEF Backed
    <3>1. PICK s \in Requests : Wrote(s, k)
      BY <2>1 DEF Sourced, Backed
    <3>2. CASE s = r
      BY <2>1, <3>1, <3>2 DEF Wrote, MakeKey
    <3>3. CASE s # r
      BY <2>1, <3>1, <3>3 DEF Wrote
    <3> QED
      BY <3>2, <3>3
  <2> QED
    BY <2>1, <2>2, <2>3, OneGraded DEF Sourced
<1> QED
  BY <1>1, <1>2, <1>3, <1>4, <1>5, <1>6, StepKinds

LEMMA SourcesAreKept == Spec => []Sourced
<1>1. Init => Sourced
  BY DEF Init, Idle, EmptyDict, Sourced, Graded, GradedCall, Grading, Backed
<1>2. IInv /\ Sourced /\ [Next]_vars => Sourced'
  <2> SUFFICES ASSUME IInv, Sourced, [Next]_vars PROVE Sourced'
    OBVIOUS
  <2>1. CASE Tick \/ Migrate \/ UNCHANGED vars
    <3>1. req' = req /\ store' = store
      BY <2>1 DEF Tick, Migrate, vars, world
    <3> QED
      BY <3>1 DEF Sourced, Graded, Backed, Wrote
  <2>2. ASSUME NEW r \in Requests, NEW q \in Questions, Ask(r, q) PROVE Sourced'
    <3>1. GradedCall(req'[r]) /\ req[r].stage \notin {"audit", "done"}
      BY <2>2, AskMoves DEF GradedCall, Grading
    <3> QED
      BY <2>2, <3>1, AskMoves, OneGraded, StillBacked DEF Sourced
  <2> QED
    BY <2>1, <2>2, StepKeepsSources DEF Next
<1> QED
  BY <1>1, <1>2, Invariance, PTL DEF Spec

(* A replay repeats an answer that some call cached for the same question  *)
(* and schema less than a TTL before the replaying call read the clock.    *)
THEOREM ReplaysAreFresh == Spec => ReplaysAreYoung
<1> DEFINE Young ==
      \A r \in Requests :
        Hit(r) =>
          \E s \in Requests :
            /\ req[s].setAt # None /\ req[r].now - req[s].setAt < TTL
            /\ MakeKey(req[s].question, req[s].schema)
                 = MakeKey(req[r].question, req[r].schema)
            /\ req'[r].answer = [req[s].answer EXCEPT !.cached = TRUE]
<1>1. IInv /\ Sourced => Young
  <2> SUFFICES ASSUME IInv, Sourced, NEW r \in Requests, Hit(r)
               PROVE  \E s \in Requests :
                        /\ req[s].setAt # None /\ req[r].now - req[s].setAt < TTL
                        /\ MakeKey(req[s].question, req[s].schema)
                             = MakeKey(req[r].question, req[r].schema)
                        /\ req'[r].answer = [req[s].answer EXCEPT !.cached = TRUE]
    OBVIOUS
  <2> DEFINE key == MakeKey(req[r].question, req[r].schema)
  <2>1. /\ key \in DOMAIN store /\ req[r].now < store[key].expires
        /\ req'[r].answer = [store[key].answer EXCEPT !.cached = TRUE]
    BY HitMoves
  <2> HIDE DEF key
  <2>2. PICK s \in Requests : Wrote(s, key)
    BY <2>1 DEF Sourced, Backed
  <2>3. req[r].now \in Nat /\ TTL \in Nat
    BY PipelineAssumption DEF IInv, CallsOK, Calls
  <2>4. req[s].setAt \in Nat /\ req[r].now < req[s].setAt + TTL
    BY <2>1, <2>2 DEF Wrote
  <2>5. req[s].setAt # None /\ req[r].now - req[s].setAt < TTL
    BY <2>3, <2>4, PipelineAssumption
  <2>6. /\ MakeKey(req[s].question, req[s].schema) = key
        /\ req'[r].answer = [req[s].answer EXCEPT !.cached = TRUE]
    BY <2>1, <2>2 DEF Wrote
  <2> QED
    BY <2>5, <2>6 DEF key
<1> HIDE DEF Young
<1>2. Spec => [][Young]_vars
  BY <1>1, Invariance, SourcesAreKept, PTL
<1> QED
  BY <1>2 DEF ReplaysAreYoung, Young

-----------------------------------------------------------------------------
(* The pipeline keeps its promise: step by step, under the mapping of      *)
(* Pipeline.  A call advances without notice; it is refused or fails; it   *)
(* is given an answer, computed or replayed; what it does then is its own  *)
(* business again.                                                         *)

PromiseStep == [Promise!Next]_(Promise!vars)

AskedFor(c) == IF c.stage = "idle" THEN None ELSE Fold[c.question]
Given(c)    == IF Decided(c) THEN {Entry(c)} ELSE {}

(* The mapping of a step in which one call moves. *)
LEMMA MapMoves ==
  ASSUME NEW r \in Requests, \A x \in Requests \ {r} : req'[x] = req[x]
  PROVE  /\ standings' = [standings EXCEPT ![r] = Standing(req'[r])]
         /\ askedFor' = [askedFor EXCEPT ![r] = AskedFor(req'[r])]
         /\ entries' = [entries EXCEPT ![r] = Given(req'[r])]
         /\ standings[r] = Standing(req[r]) /\ askedFor[r] = AskedFor(req[r])
         /\ entries[r] = Given(req[r])
<1>1. standings' = [standings EXCEPT ![r] = Standing(req'[r])] /\ standings[r] = Standing(req[r])
  BY DEF standings, Standing, Decided
<1>2. askedFor' = [askedFor EXCEPT ![r] = AskedFor(req'[r])] /\ askedFor[r] = AskedFor(req[r])
  BY DEF askedFor, AskedFor, At
<1>3. entries' = [entries EXCEPT ![r] = Given(req'[r])] /\ entries[r] = Given(req[r])
  BY DEF entries, Given, Decided, Entry
<1> QED
  BY <1>1, <1>2, <1>3

(* A step in which what the call maps to stays leaves the mapping alone. *)
LEMMA MapsStay ==
  ASSUME NEW r \in Requests, \A x \in Requests \ {r} : req'[x] = req[x]
  PROVE  /\ Standing(req'[r]) = Standing(req[r]) => standings' = standings
         /\ AskedFor(req'[r]) = AskedFor(req[r]) => askedFor' = askedFor
         /\ Given(req'[r]) = Given(req[r]) => entries' = entries
<1>1. /\ standings = [x \in Requests |-> Standing(req[x])]
      /\ standings' = [x \in Requests |-> Standing(req'[x])]
  BY DEF standings, Standing, Decided
<1>2. /\ askedFor = [x \in Requests |-> AskedFor(req[x])]
      /\ askedFor' = [x \in Requests |-> AskedFor(req'[x])]
  BY DEF askedFor, AskedFor, At
<1>3. /\ entries = [x \in Requests |-> Given(req[x])]
      /\ entries' = [x \in Requests |-> Given(req'[x])]
  BY DEF entries, Given, Decided, Entry
<1>4. Standing(req'[r]) = Standing(req[r]) => standings' = standings
  BY <1>1
<1>5. AskedFor(req'[r]) = AskedFor(req[r]) => askedFor' = askedFor
  BY <1>2
<1>6. Given(req'[r]) = Given(req[r]) => entries' = entries
  BY <1>3
<1> QED
  BY <1>4, <1>5, <1>6

(* What may be replayed after a step in which one call moves. *)
LEMMA OriginalsMove ==
  ASSUME NEW r \in Requests, \A x \in Requests \ {r} : req'[x] = req[x]
  PROVE  /\ ~Original(req[r]) /\ ~Original(req'[r]) => originals' = originals
         /\ ~Original(req[r]) /\ Original(req'[r])
              => originals' = originals \cup {Entry(req'[r])}
         /\ (Original(req'[r]) <=> Original(req[r])) /\ Entry(req'[r]) = Entry(req[r])
              => originals' = originals
<1>1. \A e : e \in originals <=> \E x \in Requests : Original(req[x]) /\ e = Entry(req[x])
  BY DEF originals
<1>2. \A e : e \in originals' <=> \E x \in Requests : Original(req'[x]) /\ e = Entry(req'[x])
  BY DEF originals, Original, Decided, Entry
<1>3. CASE ~Original(req[r]) /\ ~Original(req'[r])
  <2>1. \A e : e \in originals' <=> e \in originals
    BY <1>1, <1>2, <1>3
  <2> QED
    BY <1>3, <2>1
<1>4. CASE ~Original(req[r]) /\ Original(req'[r])
  <2>1. \A e : e \in originals' <=> e \in originals \/ e = Entry(req'[r])
    BY <1>1, <1>2, <1>4
  <2> QED
    BY <1>4, <2>1
<1>5. CASE (Original(req'[r]) <=> Original(req[r])) /\ Entry(req'[r]) = Entry(req[r])
  <2>1. \A e : e \in originals' <=> e \in originals
    BY <1>1, <1>2, <1>5
  <2> QED
    BY <1>5, <2>1
<1> QED
  BY <1>3, <1>4, <1>5

(* A call that is waiting has no part in the promise yet. *)
LEMMA WaitingMapped ==
  ASSUME NEW c, c.stage \in Waiting
  PROVE  /\ Standing(c) = "open" /\ AskedFor(c) = Fold[c.question] /\ Given(c) = {}
         /\ ~Original(c)
BY DEF Standing, AskedFor, Given, Original, Decided, Waiting

LEMMA AskIsPromised ==
  ASSUME IInv, NEW r \in Requests, NEW q \in Questions, Ask(r, q)
  PROVE  PromiseStep
<1>1. /\ \A x \in Requests \ {r} : req'[x] = req[x]
      /\ req[r].stage = "idle" /\ req'[r].stage = "check" /\ req'[r].question = q
  BY AskMoves
<1>2. /\ Standing(req'[r]) = "open" /\ AskedFor(req'[r]) = Fold[q] /\ Given(req'[r]) = {}
      /\ ~Original(req'[r])
  BY <1>1, WaitingMapped DEF Waiting
<1>3. Standing(req[r]) = "idle" /\ Given(req[r]) = {} /\ ~Original(req[r])
  BY <1>1 DEF Standing, Given, Original, Decided
<1>4. /\ standings[r] = "idle" /\ standings' = [standings EXCEPT ![r] = "open"]
      /\ askedFor' = [askedFor EXCEPT ![r] = Fold[q]]
      /\ entries' = entries /\ originals' = originals
  <2>1. entries' = entries
    BY <1>1, <1>2, <1>3, MapMoves DEF entries
  <2> QED
    BY <1>1, <1>2, <1>3, <2>1, MapMoves, OriginalsMove
<1>5. Promise!Submit(r, Fold[q])
  BY <1>4 DEF Promise!Submit
<1> QED
  BY <1>5 DEF PromiseStep, Promise!Next

LEMMA AdvanceIsPromised ==
  ASSUME NEW r \in Requests, Advances(r)
  PROVE  PromiseStep
<1>1. \A x \in Requests \ {r} : req'[x] = req[x]
  BY DEF Advances
<1>2. /\ Standing(req[r]) = "open" /\ AskedFor(req[r]) = Fold[req[r].question]
      /\ Given(req[r]) = {} /\ ~Original(req[r])
  BY WaitingMapped DEF Advances
<1>3. /\ Standing(req'[r]) = "open" /\ AskedFor(req'[r]) = Fold[req[r].question]
      /\ Given(req'[r]) = {} /\ ~Original(req'[r])
  BY WaitingMapped DEF Advances
<1>4. standings' = standings /\ askedFor' = askedFor /\ entries' = entries
  BY <1>1, <1>2, <1>3, MapsStay
<1>5. originals' = originals
  BY <1>1, <1>2, <1>3, OriginalsMove
<1> QED
  BY <1>4, <1>5 DEF PromiseStep, Promise!vars

LEMMA RefusalIsPromised ==
  ASSUME NEW r \in Requests, Refused(r)
  PROVE  PromiseStep
<1>1. \A x \in Requests \ {r} : req'[x] = req[x]
  BY DEF Refused
<1>2. /\ Standing(req[r]) = "open" /\ AskedFor(req[r]) = Fold[req[r].question]
      /\ Given(req[r]) = {} /\ ~Original(req[r])
  BY WaitingMapped DEF Refused
<1>3. /\ Standing(req'[r]) \in {"refused", "failed"}
      /\ AskedFor(req'[r]) = Fold[req[r].question]
      /\ Given(req'[r]) = {} /\ ~Original(req'[r])
  BY DEF Refused, Standing, AskedFor, Given, Original, Decided
<1>4. askedFor' = askedFor /\ entries' = entries
  BY <1>1, <1>2, <1>3, MapsStay
<1>5. originals' = originals
  BY <1>1, <1>2, <1>3, OriginalsMove
<1>6. /\ standings[r] = "open"
      /\ standings' = [standings EXCEPT ![r] = Standing(req'[r])]
  BY <1>1, <1>2, MapMoves
<1>7. CASE Standing(req'[r]) = "refused"
  <2>1. standings' = [standings EXCEPT ![r] = "refused"]
    BY <1>6, <1>7
  <2>2. Promise!Refuse(r)
    BY <1>4, <1>5, <1>6, <2>1 DEF Promise!Refuse, Promise!Turn
  <2> QED
    BY <2>2 DEF PromiseStep, Promise!Next
<1>8. CASE Standing(req'[r]) = "failed"
  <2>1. standings' = [standings EXCEPT ![r] = "failed"]
    BY <1>6, <1>8
  <2>2. Promise!Fail(r)
    BY <1>4, <1>5, <1>6, <2>1 DEF Promise!Fail, Promise!Turn
  <2> QED
    BY <2>2 DEF PromiseStep, Promise!Next
<1> QED
  BY <1>3, <1>7, <1>8

LEMMA AnswerIsPromised ==
  ASSUME IInv, Graded, NEW r \in Requests, MakeAnswer(r)
  PROVE  PromiseStep
<1> DEFINE payload == Payload(req'[r].answer)
<1>1. /\ \A x \in Requests \ {r} : req'[x] = req[x]
      /\ req[r].stage = "score" /\ req'[r].stage \in {"store", "audit"}
      /\ req'[r].question = req[r].question /\ req'[r].schema = req[r].schema
      /\ req[r].schema \in Schemas
      /\ ~req'[r].answer.blocked /\ ~req'[r].answer.cached
      /\ payload \in PromisedPayloads /\ Approves(req[r].schema, payload)
  BY MakeAnswerMoves
<1>2. /\ Standing(req[r]) = "open" /\ AskedFor(req[r]) = Fold[req[r].question]
      /\ ~Original(req[r])
  BY <1>1, WaitingMapped DEF Waiting
<1>3. Decided(req'[r])
  BY <1>1 DEF Decided
<1>4. /\ Standing(req'[r]) = "given" /\ AskedFor(req'[r]) = Fold[req[r].question]
      /\ Given(req'[r]) = {Entry(req'[r])}
  BY <1>1, <1>3 DEF Standing, AskedFor, Given
<1>5. Entry(req'[r]) = <<AskedFor(req[r]), req[r].schema, payload>>
  BY <1>1, <1>2 DEF Entry
<1>6. payload.reason = req'[r].answer.reason
  BY DEF Payload
<1> HIDE DEF payload
<1>7. /\ standings[r] = "open" /\ standings' = [standings EXCEPT ![r] = "given"]
      /\ entries' = [entries EXCEPT ![r] = {Entry(req'[r])}]
      /\ askedFor[r] = AskedFor(req[r])
  BY <1>1, <1>2, <1>4, MapMoves
<1>8. askedFor' = askedFor
  BY <1>1, <1>2, <1>4, MapsStay
<1>9. entries'[r] = {Entry(req'[r])}
  BY <1>7 DEF entries
<1>10. originals' = IF payload.reason = "none" THEN originals \cup entries'[r] ELSE originals
  <2>1. Original(req'[r]) <=> payload.reason = "none"
    BY <1>1, <1>3, <1>6 DEF Original
  <2> QED
    BY <1>1, <1>2, <1>9, <2>1, OriginalsMove
<1>11. Promise!Compute(r)
  <2>1. Promise!Turn(r, "given")
    BY <1>7, <1>8 DEF Promise!Turn
  <2>2. entries' = [entries EXCEPT ![r] = {<<askedFor[r], req[r].schema, payload>>}]
    BY <1>5, <1>7
  <2>3. originals' = IF payload \in {p \in PromisedPayloads : p.reason = "none"}
                     THEN originals \cup entries'[r] ELSE originals
    BY <1>1, <1>10
  <2> QED
    BY <1>1, <2>1, <2>2, <2>3 DEF Promise!Compute
<1> QED
  BY <1>11 DEF PromiseStep, Promise!Next

LEMMA ReplayIsPromised ==
  ASSUME IInv, Backed, NEW r \in Requests, Hit(r)
  PROVE  PromiseStep
<1> DEFINE key == MakeKey(req[r].question, req[r].schema)
<1>1. /\ \A x \in Requests \ {r} : req'[x] = req[x]
      /\ req[r].stage = "lookup" /\ req'[r].stage = "done"
      /\ req'[r].question = req[r].question /\ req'[r].schema = req[r].schema
      /\ key \in DOMAIN store /\ store[key] \in Entries /\ EntryInv(key, store[key].answer)
      /\ req'[r].answer = [store[key].answer EXCEPT !.cached = TRUE]
  BY HitMoves
<1>2. key = <<Fold[req[r].question], req[r].schema>>
  BY DEF MakeKey
<1> HIDE DEF key
<1>3. PICK s \in Requests : Wrote(s, key)
  BY <1>1 DEF Backed
<1>4. /\ Payload(req'[r].answer) = Payload(req[s].answer)
      /\ req'[r].answer.cached /\ ~req'[r].answer.blocked
      /\ ~req[s].answer.blocked /\ ~req[s].answer.cached /\ req[s].answer.reason = "none"
  <2>1. store[key].answer \in Answers /\ req[s].answer = store[key].answer
    BY <1>1, <1>3 DEF Entries, Wrote
  <2> DEFINE a == store[key].answer
             b == req'[r].answer
  <2>2. ~a.blocked /\ ~a.cached /\ a.reason = "none"
    BY <1>1 DEF EntryInv
  <2>3. /\ b.draft = a.draft /\ b.rows = a.rows /\ b.truncated = a.truncated
        /\ b.confidence = a.confidence /\ b.reason = a.reason
        /\ b.blocked = a.blocked /\ b.cached
    BY <1>1, <2>1 DEF Answers
  <2> HIDE DEF a, b
  <2>4. Payload(b) = Payload(a)
    BY <2>3 DEF Payload
  <2> QED
    BY <2>1, <2>2, <2>3, <2>4 DEF a, b
<1>5. Original(req[s]) /\ Entry(req'[r]) = Entry(req[s])
  <2>1. Fold[req[s].question] = Fold[req[r].question] /\ req[s].schema = req[r].schema
    BY <1>2, <1>3 DEF Wrote, MakeKey
  <2> QED
    BY <1>1, <1>3, <1>4, <2>1 DEF Original, Decided, Entry, Wrote
<1>6. /\ Standing(req[r]) = "open" /\ AskedFor(req[r]) = Fold[req[r].question]
      /\ ~Original(req[r])
  BY <1>1, WaitingMapped DEF Waiting
<1>7. /\ Standing(req'[r]) = "given" /\ AskedFor(req'[r]) = Fold[req[r].question]
      /\ Given(req'[r]) = {Entry(req'[r])} /\ ~Original(req'[r])
  BY <1>1, <1>4 DEF Standing, AskedFor, Given, Original, Decided
<1>8. /\ standings[r] = "open" /\ standings' = [standings EXCEPT ![r] = "given"]
      /\ entries' = [entries EXCEPT ![r] = {Entry(req[s])}]
      /\ askedFor[r] = Fold[req[r].question]
  BY <1>1, <1>5, <1>6, <1>7, MapMoves
<1>9. askedFor' = askedFor
  BY <1>1, <1>6, <1>7, MapsStay
<1>10. originals' = originals
  BY <1>1, <1>6, <1>7, OriginalsMove
<1>11. Entry(req[s]) \in originals /\ Entry(req[s])[1] = askedFor[r]
  <2>1. Entry(req[s]) \in originals
    BY <1>5 DEF originals
  <2>2. Entry(req[s])[1] = Fold[req[s].question] /\ Fold[req[s].question] = Fold[req[r].question]
    BY <1>2, <1>3 DEF Entry, Wrote, MakeKey
  <2> QED
    BY <1>8, <2>1, <2>2
<1>12. Promise!Replay(r)
  BY <1>8, <1>9, <1>10, <1>11 DEF Promise!Replay, Promise!Turn
<1> QED
  BY <1>12 DEF PromiseStep, Promise!Next

LEMMA AfterwordIsPromised ==
  ASSUME IInv, NEW r \in Requests, CacheSet(r) \/ Return(r)
  PROVE  PromiseStep
<1>1. /\ \A x \in Requests \ {r} : req'[x] = req[x]
      /\ req[r].stage \in {"store", "audit"} /\ req'[r].stage \in {"audit", "done"}
      /\ req'[r].question = req[r].question /\ req'[r].schema = req[r].schema
      /\ req'[r].answer = req[r].answer /\ ~req[r].answer.blocked
  BY AfterAnswerMoves
<1>2. Decided(req[r]) /\ Decided(req'[r])
  BY <1>1 DEF Decided
<1>3. Entry(req'[r]) = Entry(req[r]) /\ (Original(req'[r]) <=> Original(req[r]))
  BY <1>1, <1>2 DEF Entry, Original
<1>4. /\ Standing(req'[r]) = Standing(req[r]) /\ AskedFor(req'[r]) = AskedFor(req[r])
      /\ Given(req'[r]) = Given(req[r])
  BY <1>1, <1>2, <1>3 DEF Standing, AskedFor, Given
<1>5. standings' = standings /\ askedFor' = askedFor /\ entries' = entries
  BY <1>1, <1>4, MapsStay
<1>6. originals' = originals
  BY <1>1, <1>3, OriginalsMove
<1> QED
  BY <1>5, <1>6 DEF PromiseStep, Promise!vars

LEMMA NextIsPromised == IInv /\ Sourced /\ [Next]_vars => PromiseStep
<1> SUFFICES ASSUME IInv, Sourced, [Next]_vars PROVE PromiseStep
  OBVIOUS
<1>1. CASE Tick \/ Migrate \/ UNCHANGED vars
  <2>1. req' = req
    BY <1>1 DEF Tick, Migrate, vars, world
  <2>2. /\ standings' = standings /\ askedFor' = askedFor
        /\ entries' = entries /\ originals' = originals
    BY <2>1 DEF standings, askedFor, entries, originals, Standing, At, Entry, Decided, Original
  <2> QED
    BY <2>2 DEF PromiseStep, Promise!vars
<1>2. ASSUME NEW r \in Requests, NEW q \in Questions, Ask(r, q) PROVE PromiseStep
  BY <1>2, AskIsPromised
<1>3. ASSUME NEW r \in Requests, Step(r) PROVE PromiseStep
  BY <1>3, StepKinds, AdvanceIsPromised, RefusalIsPromised, AnswerIsPromised,
     ReplayIsPromised, AfterwordIsPromised DEF Sourced
<1> QED
  BY <1>1, <1>2, <1>3 DEF Next

(* The pipeline implements GovernedAnswers: an answer given was approved   *)
(* by governance for the call it was computed for, or repeats one that an  *)
(* earlier call was given for the same question and schema.                *)
THEOREM PipelineKeepsPromise == Spec => KeepsPromise
<1>1. Init => Promise!Init
  <2> SUFFICES ASSUME Init PROVE Promise!Init
    OBVIOUS
  <2>1. \A r \in Requests : req[r].stage = "idle"
    BY DEF Init, Idle
  <2>2. \A r \in Requests : ~Decided(req[r]) /\ ~Original(req[r])
    BY <2>1 DEF Decided, Original
  <2>3. standings = [r \in Requests |-> "idle"]
    BY <2>1 DEF standings, Standing
  <2>4. askedFor = [r \in Requests |-> None]
    BY <2>1 DEF askedFor, At
  <2>5. entries = [r \in Requests |-> {}] /\ originals = {}
    BY <2>2 DEF entries, originals
  <2> QED
    BY <2>3, <2>4, <2>5 DEF Promise!Init
<1>2. IInv /\ Sourced /\ [Next]_vars => [Promise!Next]_(Promise!vars)
  BY NextIsPromised DEF PromiseStep
<1> QED
  BY <1>1, <1>2, Invariance, SourcesAreKept, PTL DEF Spec, KeepsPromise, Promise!Spec
=============================================================================
