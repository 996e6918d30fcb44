# A TLA+ model of the text-to-SQL service

The service in `src/app` turns a question into SQL with a language model, lets
the SQL through a row of deterministic gates, runs it on a read-only database
and scores the answer. This directory models its behaviour in TLA+, checks the
models with TLC on small instances, and proves the most important properties
with TLAPS for all instances.

    tlc -workers 2 -config MCPipeline.cfg MCPipeline     # a run
    tlapm Pipeline_proofs.tla                            # a proof

`PROJECT.json` lists the runs, the source lines each definition translates, the
hazards the properties are aimed at, and the mutations of the model that each
property catches.

## 1. Inventory of the system

| Component | State | Operations | What makes it hard / correct |
|---|---|---|---|
| `pipeline.py` Pipeline | none of its own; shares the cache, provider, database, metrics and audit log with every thread | `answer` (ten stages, four gates, two caps), `_blocked`, `_cap_result`, `_should_judge`, `_audit` | many server threads at once; a schema read at the start and used at the end; a model call of seconds in between; external calls that raise; exits at every stage. No statement runs and no row leaves that governance did not pass; each call is counted and audited once |
| `cache.py` TTLCache | `_store` under a lock | `get`, `set`, `clear` (called by nobody) | the clock is read before the lock; expiry; a replay must be of the same question and schema and must be young |
| `ratelimit.py` RateLimiter | `_buckets` under a lock | `allow` | the clock is read before the lock, so stamps are charged out of order; no caller exceeds its budget, none is refused for nothing |
| `confidence.py` | none | `canonicalize`, `consistency`, `score` | ties, candidates that do not parse; the vote is a plurality in order of arrival |
| `guardrails.py` | none | `check_sql`, `_enforce_limit` | one read-only statement with a bounded LIMIT |
| `policy.py`, `resolver.py` | alias map | `check`, `analyze` | names resolved through scopes, aliases, CTEs and stars; fail closed |
| `schema.py` | none | `build_schema_context`, `validate_references` | every table and column exists in the schema given |
| `explain.py` | none | `parse_explain_cost`, `within_budget` | every failure to obtain a plan blocks |
| `db.py`, `sqlalchemy_db.py` | pool; `_schema_cache`, `_schema_cached_at` (no lock) | `load_schema`, `explain_cost`, `execute`, `ping`, `close` | torn schema cache, stale schema, row cap and its flag, pool and statement timeouts |
| `observability.py` | counters and histogram under a lock; the log | `inc`, `observe_confidence`, `render`, `audit` | counted once on every path |
| `providers/groq_provider.py` | `_usage` (no lock) | `generate` (thread pool), `judge`, `usage` | lost updates; headers out of order; a judge's answer that does not parse |
| `api.py` | `_limiter`, `_pipeline`, one queue per stream | `ask`, `ask_stream`, `ready`, `metrics_endpoint` | worker thread, queue and generator: every event delivered, the stream ends once |
| `static/index.html` | the EventSource, `done`, what is shown | `start`, `onmessage`, `onerror`, `applyStep`, `renderResult`, `finish` | a question asked while another runs; a lost connection; a message that cannot be parsed |
| `config.py`, `ports.py`, `cli.py`, `providers/fake.py`, `eval/`, `sql/`, `scripts/` | settings; data classes; offline tools | | sequential, no shared state |

Interactions: `api` threads call `RateLimiter.allow`, then `Pipeline.answer`;
`answer` calls the database, the provider, the gates, the cache, the metrics and
the log; for a stream it runs in a worker thread and reports each stage to a
callback, which puts it on a queue. The generator of the stream takes them from
the queue and the server sends them to the page's EventSource; nobody tells the
worker when that page has gone. All workers share one provider, whose `generate`
runs its samples in a thread pool, and whose usage record every completion of
every caller updates.

## 2. Modules

| Module | What it is | Code |
|---|---|---|
| `Dicts` | Python dictionaries as functions | |
| `RateLimiter` | the limiter, two actions per call: `Stamp` (the clock read) and `Reject` or `Admit` (the critical section) | `ratelimit.py` |
| `RateLimiter_proofs` | its theorems | |
| `Confidence` | the vote and the score as operators | `confidence.py` |
| `Confidence_proofs` | what the vote returns, for every list of candidates | |
| `ConsistencyVote` | the voting loop, over the two dictionaries it fills | `confidence.py` 27-41 |
| `ConsistencyVote_proofs` | that the loop computes the vote of `Confidence` | |
| `Pipeline` | `answer` by many threads with the cache, the two row caps, the cost guard, counters, audit log and step reports | `pipeline.py`, `cache.py`, and the parts of `guardrails.py`, `explain.py`, `db.py`, `observability.py` it calls |
| `Pipeline_proofs` | its theorems, the refinement of `GovernedAnswers` among them | |
| `GovernedAnswers` | the abstract specification: what the service promises of an answer | |
| `SchemaCache` | `load_schema` by several threads, one step per access to its two unlocked fields | `db.py` 52-66, `sqlalchemy_db.py` 100-135 |
| `SchemaCache_proofs` | its theorems | |
| `Queries` | the shape of a parsed query, and what `resolver.py` and `schema.py` get from `sqlglot` and from the database: scopes, `qualify`, which columns a running query reads | external, and `schema.py` 34-45 |
| `Resolver` | from every column reference to the canonical column | `resolver.py` |
| `Policy` | the decision on the resolver's report | `policy.py` |
| `Governance` | a draft on its way through `check_sql`, the policy, the schema gate and the database, with a migration in between | `guardrails.py`, `pipeline.py` 159-230 |
| `Governance_proofs` | what the gates prove of every query: the theorems of `Queries`, `Resolver`, `Policy` and `Governance` | |
| `Provider` | sampling, judging and the unlocked usage record | `groq_provider.py` |
| `Provider_proofs` | its theorems | |
| `AskStream` | worker, queue and generator of `ask_stream`, and the web page | `api.py`, `static/index.html` |
| `AskPromise` | the abstract specification of what the page shows | |
| `Service` | page, stream and provider composed | `api.py` 146-193, `pipeline.py` |
| `Service_proofs` | the theorems of `AskStream`, and those of `Provider` carried over | |
| `MC*` | instances for TLC | |

### How the state corresponds to the code

`Pipeline`: `req[r]` is the frame of one call of `answer`: `stage` is where it
stands, `question`, `schema`, `draft`, `agreement`, `plan` (the estimates
`explain_cost` returned), `result`, `verdict` and `answer` are its locals, `trace`
the events its observer has been given, `now` the local of `cache.get`. `store` is
`TTLCache._store`, with the answer and its expiry; `audited[r]` the audit events the
call emitted; `metrics` the counters, and how many confidences the histogram has
taken. `clock` is the monotonic clock, `live` the schema the database has now and
`had` every schema it has had. `wanted` and `setAt` are history: the rows the
drafted query itself asks for, and when the call's answer was cached. A call that
ends forgets its locals, except those a property speaks of.

One action is one stretch of code between two points where another thread, the
clock or the database can intervene: an external call, a clock read or a
critical section. A step that reports to the observer, counts or audits does so
in the same action.

`RateLimiter`: `calls` are the threads between the clock read and the lock,
`buckets` is `_buckets`. `since`, `inWindow`, `total` and `latest` are history: a
window that starts at a time chosen freely in `Init`, the admissions stamped in
it, all admissions, and the latest stamp decided for a caller.

`SchemaCache`: `calls[t]` is the frame of a call of `load_schema`, `cache` and
`cachedAt` are the two fields. A schema maps each table to the version in which
it was seen; `Statements` is how many tables one statement reads: all of them
(`db.py`) or one (`sqlalchemy_db.py`). `read` and `written` (when the
introspection of an entry began, and when it was cached) and `overlapped` are
history.

`Queries`: a query is the sequence of its scopes in the order of sqlglot's
`traverse_scope`. A scope has its FROM clause, its select list and its parent, and
is open (a subquery in an expression, which may use the aliases around it) or closed
(a derived table, a CTE, a branch of a set operation). The references outside the
select list, in JOIN ... ON, WHERE, GROUP BY, HAVING and ORDER BY, are its `uses`,
each with its clause, because a bare name that is also the name of an output means
different things in different clauses, and not the same to the optimizer and to the
database: `Hidden` and `Replaced` say what `scope.columns` and `qualify` make of it,
`MeansOutput` what PostgreSQL does, and `NamesAgree` that nothing is read because of
the difference alone. `Resolver` and `Policy` are functions of a query, a schema and
a policy, one operator per function of the code. `Governance` has the draft, the
policy, the schema of the gates and the live one as its state; `optimizes` records
whether `qualify` succeeded.

`AskStream`: `asked` questions have been asked from the page, one after the
other. `stream[n]` is the request of question `n` as the server sees it,
`worker[n]` its thread, `events[n]` its queue; `page` has the EventSources that
are open (the variable `es`: at most one, unless `start` forgets to close the
other), `done`, the button, the gates drawn as resolved and the readout.
`page.of`, the question that what is shown belongs to, is history. A message is
given to the page in the step that sends it: between the two nothing can happen
that the page could tell from its happening before or after, except that it
asks anew or loses the connection, and then the message is dropped, as it would
have been on its way. The script of the page throws while it is loaded, at
`index.html` line 252 (no element has the id "examples"), so what stands below is
never set up: the example chips are dead, and `applyStep` throws once it has set
the class of a gate. The model has what does work: the button, Enter, and the
gates' states without their glyphs and details.

`Provider`: `call[c]` is where the call of the provider by caller `c` stands,
`jobs[c]` its completions, each from its place in the queue of the pool to its
text; `usage` is `_usage`. `left` is what the API will still grant, which
`Regain` raises as its window moves on; `regained` (how often), `reported` and
`amiss` (completions have overlapped, or a response could not be parsed) are
history. `Service` makes the workers of the streams the callers of the provider:
what a worker does between two reports is a call of `generate`, a call of `judge`
or nothing the other parts can see.

### What is abstracted, and how

* A SQL text is a draft, a model value; what `sqlglot`, the policy and the schema
  say of it are constants: `ReadOnly`, `Permitted`, `WellFormed` (the last two
  relate drafts to schemas, for a verdict may change with the schema),
  `Canonical`, `LimitRead` and `LimitValue`. The last two differ for a limit that
  is no literal: `_enforce_limit` reads the first operand of `LIMIT 10 * 1000`.
  The draft stands for the text the model returned and
  for the safe text `check_sql` makes of it: the limit it adds is `EnforcedLimit`.
* `load_schema` returns ANY schema the database has had, for it has a cache of
  its own, which `SchemaCache` models: `CachedIsSnapshot` is what justifies this
  for a database read with one statement. It allows more than the code does (a
  schema older than that cache's TTL), so what holds here holds there. The
  database is the one of `db.py`; for engines other than PostgreSQL,
  `sqlalchemy_db.py` may reflect a mixture of versions (finding 3) and return a
  plan of cost zero.
* Explain and execute may fail at any time (statement timeout, pool timeout, an
  error of the database); the provider may raise at any time, and so may the gates
  and the database calls, which catch only some of the exceptions of the libraries
  under them (`ParseError`, `OptimizeError`, `psycopg.Error`). A statement that
  names what the live schema has not cannot succeed.
* `make_key` and `build_schema_context` are taken to be injective: the key is the
  folded question and the schema.
* Fractions are counted in `Unit`-ths and scores in thousandths: exact where the
  code uses floats; a tie in rounding goes up. A judge's score is any number or
  `NaN`, since `float` accepts any text that spells one; infinities behave as
  very large and very small numbers. The limiter counts tokens in
  sixtieths, which makes the refill of a second an integer.
* Left out of `Pipeline`: signals, latency, token counts, wording. They are data
  no property here tells apart.
* `Governance` computes the verdicts that `Pipeline` takes as constants. Of
  `sqlglot` it takes: an alias used twice in a scope raises; a bare name is bound
  to the innermost source that alone can have it, unless an inner scope uses that
  alias for something else (then the name stays bare); a star is expanded when
  all columns it stands for are known; of a table it does not know the optimizer
  takes any column to exist. Any other failure of `qualify` is a free choice
  (`optimizes`). The report of the resolver is a set: which of several reasons is
  given first is left open. Outside the modelled syntax: recursive CTEs; a CTE that
  another CTE or an inner scope selects from, and a CTE's name used again as an
  alias (sqlglot gives these another parent than the scope that selects from
  them); `t.*`; references to whole rows; an output's name used by a later item of
  its select list; two outputs of one name; a bare name in an aggregate inside
  ORDER BY; the ORDER BY of a set operation; the case of identifiers. A set operation
  is a scope without sources over two closed ones, so nothing is traced through
  it, as in the code.
* The EventSource gives messages in order and once until it is closed; it never
  reconnects here, because the page's `onerror` closes it. A refusal (401, 429)
  looks to the page like a lost connection.
* A response reports usage and sends headers, or does neither (`reporting`, one
  choice for the endpoint); it may turn out unreadable once its headers are recorded
  (`Unparsed`) or to have no text once its tokens are added (`Endings`). Of the two
  headers, recorded one after the other, the model follows one. The SDK's retries
  are part of the time a request takes. The total is loaded and stored in two steps
  because the call of `getattr` between them is a place where CPython changes
  threads.

## 3. Runs

| Run | Instance | What it shows |
|---|---|---|
| `MCRateLimiter` | 2 threads, 2 callers, 2 tokens a minute, a tick of half a token, 4 ticks | `WindowBound`, `RefusedOnlyWhenSpent`, `QuietCallerAdmitted` |
| `MCConsistencyVote` | all lists of at most 4 of 6 texts (two spellings of one form, two other forms, two that do not parse) | the loop computes the vote of `Confidence` |
| `MCPipeline` | 2 calls, 2 samples, 4 questions (2 that fold together, an empty and a long one), 6 drafts, 2 schemas, TTL 1, conditional judge with a score of nothing, far above 1, or none at all | the governance invariants, the order of reports, the counters, the audit trail, the truncation flag |
| `MCPromise` | 3 calls, one query that only the first schema permits, TTL 1, no judge | `ReplaysAreYoung`; `Pipeline` implements `GovernedAnswers` |
| `MCSchemaCache` | 3 threads, 2 tables read at once, 1 migration, TTL 1, 3 ticks | `ServedIsRecent`, `AgedByOverlapOnly`, `CachedIsSnapshot` |
| `MCGovernance` | queries of 1, 2 and 3 scopes over two tables that share a column name, with two aliases used again in inner scopes, bare, qualified and correlated references in every clause, output names that are column names, stars; five policies; two migrations | `NothingDeniedIsRead`, `ReadsAreReported`, `DenialsAreGrounded`, `PermittedRuns`, `RefusedTwice` |
| `MCService` | 2 questions from one page, 2 samples, a pool of 2, an API that grants 2 requests and gives one back, 3 stages | the stream and the page (`ShowsTheLastQuestion`, `ToldUnlessUnreadable`, `NobodyWaitsInVain`, `AskPromise` implemented), the accounts (`AccountsErrOneWay`, `ExactUntilOverlap`), `NoStrayCompletions`; `QuestionsEnd` under fairness |
| `HitIsAudited`, `GatesSeeLive`, `ReflectedPiecemeal`, `CutByLimit`, `OutputNames` | as the runs above | findings, section 5 |

Why these bounds. In the limiter, an overtaken stamp needs two threads; a bucket
of two tokens is spent by two calls, and four ticks refill it once, so the cap,
the refusal and the recovery all happen; two callers show that buckets are
apart. Two calls of `answer` are enough for one to cache what the other finds,
expired or not, or to overwrite it; a third is needed to replay what two others
raced to store. Six drafts take every exit of every gate, one whose policy
verdict and one whose existence changes with the schema; two samples make the
agreement full, half or nothing, so that the judge is both called and skipped.
A torn pair of schema and date needs two threads that load and a third that is
served from what they left. Three scopes are what a reference needs that skips a
scope, or a lineage of two hops; with two tables a name is ambiguous, and with
two aliases one of them means one table here and another there. Denied are a
column of one table only, a column both tables have, a table, and what an
allow-list leaves out. Two questions are enough for one to be asked while the
other is still at work, and for their completions to overlap; two samples for
one to fail while the other is under way; an API that grants two requests of the
up to six wanted, and a third when its window moves on, refuses some, and answers one
after its limit has been refilled. Of the ten stages three are
kept: the two that call the provider and one that does not and after which
`answer` may return; the other seven are like that one. In the pipeline
`MaxClock` is 1 and `TTL` is 1: an entry can be alive, expire and be swept. The
row numbers (at most 4 matching, `MaxRows` 3, `MaxResultRows` 2) lie on either
side of both caps. Requests, and the two spellings that fold together, are
interchangeable and are symmetry sets; no symmetry is used in the liveness run.
The estimates of a plan lie on either side of both budgets.

`CHECK_DEADLOCK FALSE` in the pipeline, vote, governance and service runs: each
models finitely many calls, which end. (The threads of the limiter and of the
schema cache go on for ever, and deadlock is checked there.)

Fairness. Only `MCService` checks liveness: `answer` by itself is a straight line,
whose calls end when the provider's and the database's do. `FairSpec` of `Service`
has `WF_vars(Server)`, one condition for the threads of the server and of the SDK
together: they do not all stand still while one of them can go on. It is weaker than
fairness to each thread, and enough because a question takes finitely many steps.
That a request to the API is answered or fails is the SDK's timeout and its bounded
number of retries. No question has to be asked and no connection has to break.

### The abstract specification

`GovernedAnswers` knows questions, schemas and payloads, and no stages: a
question is refused, fails, or is given a payload that governance approved for
it under some schema, or one an earlier question, the same up to case, was given
as a success. The refinement mapping (end of `Pipeline`) takes a call to be
given its answer when `MakeAnswer` has built it; caching, auditing and returning
it are then stutters, and a cache hit is a `Replay`. The `book` of replayable
answers is that of all computed successes, so that an entry is in the book
before it is in the store.

`AskPromise` knows questions, gates and an outcome, and no threads, queues or
connections: gates resolve one after the other from the first, an outcome is told
once, after the last gate it is told with, and the page then takes the next
question; a new question takes the place of the old one at any time. `Service`
implements it with the gates, the readout and the button of the page.

## 4. Proofs

Each theorem holds for all values of the constants that satisfy the module's
`ASSUME`; TLC evaluates these on every run.

* **`RateLimiter_proofs`**: `TypeCorrect`, `RateLimited` (`WindowBound`),
  `RefusalEarned`, `QuietAdmitted`. The inductive invariant `IInv` adds to the
  types two bounds on `tokens - Rate * last` of a bucket, a value that a refill
  never raises, whatever stamp it is done with, and that an admission lowers by
  one token: this is what makes the window bound survive negative elapsed time.
  `Charged` bounds it from above by what the window has admitted, `Earned` from
  below by all admissions and the latest stamp.
* **`Confidence_proofs`**: `WinnerIsPlurality` (the `CHOOSE` in `Winner` has a
  witness, which is the plurality, ties to the first) and `ConsistencyType` (a
  draft, and a share between none and all).
* **`SchemaCache_proofs`**: `TypeCorrect`, `ServedRecent`, `AgedOnlyByOverlap`,
  `OneStatementIsSnapshot`. The invariant that links the two fields is that the
  date never runs ahead of the moment the schema was put there (`Dating`);
  without overlap it does not run ahead of the introspection either (`Alone`),
  because a thread that introspects has a stamp at least a TTL after the date it
  found too old.
* **`Pipeline_proofs`**: `TypeCorrect`, `OnlyVettedRuns`, `OnlyVettedDelivered`,
  `OnlyVettedCached`, `RowsAreGoverned`. None is inductive by itself: what is
  delivered may come out of the store, what is in the store came from a call at
  `score`, and what that call holds depends on the gates it has passed. `IInv` says
  so for each stage: `GatedCall` (a call past a gate has a draft that the gate
  passes under the schema it loaded, and past the cost guard a plan within the
  budgets), `AnsweredCall` (an answer that exists is governed; its confidence may be
  `NaN`, the one case in which rows leave without having met the threshold),
  `TracedCall` (execution is reported only past the gates) and `StoreOK` (every
  entry is governed for its own key). One lemma per action shows that the call it
  moves keeps `CallInv`, and `Invariance` puts them together.

The later parts of the module extend it, each part by what its theorems need.
`Books` (for `StagesInOrder`, `CountersAddUp`, `AuditedOnce`, `TruncationIsTold`):
the trace of every call is a prefix of `PipelineStages`, as long as its stage says
while it is under way (`StepsDone`), and a gate's blocked report is its last; what
was audited of a call follows from its stage and answer; `Balanced` says which calls
each counter has counted, as finite sets, so that a step adds at most one call to a
set and takes none out. `Sourced` (for `ReplaysAreFresh` and the refinement): every
entry of the store was written by a call that still shows its question, its schema,
its answer and the time (`Backed`), and a graded call has an agreement, a verdict
and at most `MaxRows` rows (`Graded`). `PipelineKeepsPromise` is the refinement,
action by action: each step of `Pipeline` is a step of `GovernedAnswers` under the
mapping, or a stutter.
* **`ConsistencyVote_proofs`**: `VoteTypes`, `LoopComputesTheVote`,
  `MajorityDecides`, `UnanimityIsReal`, for lists of any length. The loop
  invariant: the two dictionaries hold, for the candidates read so far, the votes
  of each form and the first text that had it, and their keys stand in the order
  of first appearance, which is what makes `most_common` return the form whose
  first candidate `Winner` chooses.
* **`Provider_proofs`** shows that every step of the provider keeps `ProviderInv`;
  `Service_proofs` turns it into `AccountsNeverExceed`, `ExactWithoutOverlap` and
  `CompletionsEndWithTheCall`. Every header that is on its way, or stored, was true
  when it was sent, and only what the API gave back since can make it too small.
  That the total never exceeds what was reported
  would be a sum over the completions under way, an induction over data. Instead
  every reported token is a unit, and `Ledger` says that there are sets of units,
  one for the total, one for each loaded total and one for each completion that
  owes its tokens, with the sizes the numbers say, such that no unit that is owed
  is in any total: a lost update loses units, and a store never counts one twice.
* **`Service_proofs`**: `ServiceTypes`, `TheLastQuestionIsShown`,
  `OutcomesAreTold`, `NoVainWait`, and the refinement `ServiceKeepsAskPromise`.
  `StreamInv` relates the three places an event can be: the queue of an open
  stream is the rest of what its worker has put (`QueueIs`), and the page that
  listens to it shows everything but that rest (`PageShows`); the page listens to
  the last question or to none.
* **`Governance_proofs`**: `TypesHold`, `StructureRefusedTwice`,
  `DeniedIsNeverRead`, `ProvenanceIsComplete`, `DenialsAreFair`,
  `NothingPermittedIsBlocked`, and the facts about every statement, schema and
  policy that the last four rest on, `AllowedReadsNothingDenied`,
  `AllowedReadsAreListed`, `NamedColumnsAreRead` and `PermittedIsAllowed`. The
  state of the machine is simple: `IInv` says that statement, policy and schemas
  are those of the constants (`Fixed`), and that a statement past a gate has that
  gate's verdict and one that was stopped has the gate's reason (`Passed`). The
  work is in what `Resolver` computes for a query of any number of scopes, nested
  in any way that the modelled syntax allows.

*Nothing that is read is missed.* The lemmas follow a reference from the scope it
stands in: `NamesAgree` gives, for every column that is read, a use of it that
`scope.columns` shows; `qualify` loses none of these (it is bound, stays, or is one
column of an expanded star), `Columns` hands it up to the scope whose alias it has,
and what the resolver makes of it there (`NamedResolves`, `BareResolves`) is
reported as the column that the database reads (`DirectIsReported`); where a derived
table is in between, its select list has references of its own, down to a scope that
reads the table.

  *Nothing is reported that is not read.* The other direction: `qualify` invents
  no reference (`QualifiedReadsOnly`); a scope is asked only for what it or a
  scope inside it reads, past no scope that has the alias (`HandsUp`,
  `ColumnsAreAsked`, `AskedMeans`); what `Lineage` traces through derived tables
  is a column that the database reads on the way (`TracedIsRead`). So every entry
  of the report is a column that is read (`ReportIsProven`).

  Each of the recursive functions (`Visible`, `Ancestry`, `Columns`, `Outputs`,
  `Lineage`) is defined on the scopes, which are finitely many and ordered, and
  every fact about it is proved from its least counterexample.

Assumptions worth knowing. `TruncationIsTold` is proved for
`0 <= MaxResultRows < MaxRows`, as in the default configuration (200 and 1000), and
for drafts whose limit `_enforce_limit` does not widen (`LimitsTighten`): of
`LIMIT 2000 - 1990` it reads 2000 and puts 1000 in its place, and rows the query
did not ask for are no truncation. Finding 4 is what happens at equal caps.
`PipelineAssumption` says that `None` is no number, and `GovernanceAssumption` that
schemas are finite, that a denied column is a pair of a table and a name, and that
queries are `WellFormed`: scopes come before the scope they stand in, a derived
table or CTE stands in the scope that selects from it, no alias is the mark of a
bare name, and no item of a select list uses the name of an earlier one for
something else. This is what `sqlglot`'s parser and scope builder make of a text
of the modelled syntax (section 2 says what is outside it), not of any text; TLC
checks it of every query of the instance.

`DeniedIsNeverRead`, `ProvenanceIsComplete` and `AllowedReadsNothingDenied` have
the hypothesis `NamesAgree`: no column is read only through a bare name that the
optimizer takes for an output, or does not look up, where the database takes it
for a column. It is needed, as finding 5 shows, and any statement has it whose
bare names in HAVING and inside the expressions of ORDER BY are columns of that
scope and no output names. The other direction, `DenialsAreFair` and
`NothingPermittedIsBlocked`, needs no such thing: what is overlooked is never
refused. `ProvenanceIsComplete` and `NothingPermittedIsBlocked` are proved under
`StarsExpand`: in a query that runs no star stands over a table or a derived table
without columns. Such a star stays a star: a policy without column rules lets it
through with nothing listed, and one with column rules refuses it, though it reads
nothing.

Only model-checked: `QuestionsEnd`, because liveness under fairness is out of the
prover's reach, as is `ENABLED`.

The attempt to prove `DenialsAreGrounded` refuted it as it first stood, for
queries of four scopes, one more than the instance has: a bare name that
`qualify` leaves bare (the one source that can own it has its alias taken by a
scope in between) and that means a column of a derived table is searched in the
tables alone, and a table further out with a column of that name is blamed. The
query is refused either way; only the reason is wrong. The property now says so
(`Bindable`).

## 5. Findings

1. *A cache hit is not audited* (run `HitIsAudited`). `observability.py` line 4
   promises "an audit event for every question"; `answer` returns at
   `pipeline.py` line 147 without one. `AuditTrail` says exactly what is audited:
   every refusal and every computed answer, once.
2. *The gates do not see the live schema* (run `GatesSeeLive`). `resolver.py`
   lines 40-43 and the README of the service (lines 145-146) say that stars are
   expanded against the live schema, `pipeline.py` line 209 reports "every
   table/column exists in the live schema"; the schema is the one loaded before
   the model was called, perhaps from a cache. The run shows a gate passing a
   statement that is not what the gate took it for: a star is checked by its old
   expansion, and `Execute` runs it with the new one; a table the schema does not
   know yet is subject to no allow-list; a column that is gone passes the schema
   gate. The promises of `MCGovernance` are therefore made for a schema that has
   not changed since it was loaded.
3. *Reflection may mix two versions* (run `ReflectedPiecemeal`).
   `sqlalchemy_db.py` promises "the live schema" as the truth the gates check
   against (lines 104-106), but asks for one table after the other; a migration in
   between leaves, for a TTL, a schema the database never had. `db.py` reads all
   tables with one statement and is free of this (`OneStatementIsSnapshot`).
4. *A result cut by `max_rows` is not marked* (run `CutByLimit`). `execute`
   fetches one row more than `max_rows` "to detect truncation", but the statement
   already carries LIMIT `max_rows`, or a literal limit no larger, so the extra row
   never comes. (It can come when the limit is no literal: of `LIMIT 10 * 1000`
   `_enforce_limit` reads the 10 and leaves the limit alone.) Otherwise the flag is
   set by the second cap alone: right while `max_result_rows` is below `max_rows`, as
   in the default configuration (and in `MCPipeline`), wrong when it is not.

5. *A name may be a column to the database and an output to the resolver* (run
   `OutputNames`). `README.md` line 130 of the service says that a denied column is
   found "via *any* alias, function, CASE, WHERE/ORDER BY/GROUP BY/HAVING/JOIN-ON,
   derived table, CTE, or an expanded `*`". `analyze` asks `scope.columns`
   (`resolver.py` line 203), which leaves out bare names of ORDER BY that are output
   names, wherever they stand in it, and `qualify` puts the output's expression in
   place of such a name in HAVING. The database means the output only by a name
   that stands alone in ORDER BY; inside an expression, and in HAVING, it means a
   column. In the run a query gives an output the name of a denied column, uses that
   name so, is allowed, and reads the denied column. `NothingDeniedIsRead` and
   `ReadsAreReported` hold where the two agree on names (`NamesAgree`).

Not findings, but worth knowing.

* A confidence may be no number. `judge` takes whatever `float` makes of the
  model's score (`groq_provider.py` line 129), "nan" and numbers far outside [0, 1]
  among it. `nan < min_confidence_to_return_rows` is false, so the rows of such an
  answer leave, although "withhold rows below this score" (`config.py` line 75) and
  "withhold results the system isn't sure about" (`README.md` line 362) suggest
  otherwise; `RowsGoverned` and `GovernedAnswers` say so. The histogram drops such
  a confidence, and one above 1.01 (`Recorded`). In a stream it makes the result
  one the page cannot parse, like a NaN in a row (below).
* The accounts of the provider are approximate. "So you always know how much
  free-tier budget is left" (`groq_provider.py` lines 5-6): updates are lost when
  completions overlap, a header may be stored after a later one, and nothing is
  heard of a refill until the next response. "Token cost" of a question
  (`observability.py` lines 4-5): what is audited is the running total of the
  process, with the tokens of all questions. `AccountsErrOneWay` and
  `ExactUntilOverlap` say what does hold.
* A call that raises leaves no audit event, even a judge that raises after the
  statement has run and data was read (`AuditTrail` says that there is none; the
  code promises nothing for this case beyond the sentence of finding 1).
* `answer` raises when a gate's library does: `check_sql`, `analyze` and
  `validate_references` catch `ParseError` and `OptimizeError` only, and a single
  candidate that cannot be cut into tokens fails its whole question, because
  `canonicalize` catches `ParseError` and not `TokenError`.
* The answer of a hit repeats the question of the call that computed it, in that
  call's spelling.
* A stamp overtaken on the way to the limiter's lock takes back the refill between
  the two stamps, so of two overlapping first calls with a budget of two one may be
  refused (`RefusedOnlyWhenSpent` says how far this goes).
* Where two introspections overlap, a schema may be served for longer than its
  time to live.
* A bare name that could be a column of several tables is refused as ambiguous only
  if one of them is denied (as `test_ambiguous_nondenied_allowed` asks).
* A NaN in a row is sent as something that is not JSON, so the page skips the
  result and goes on saying that the pipeline is running, its button free
  (`ToldUnlessUnreadable` states the exception). A connection lost between the
  result and the end replaces the result by "Lost connection". A worker whose
  client has left runs its question to the end, tokens and all.
* The script of the page throws while it is loaded (`index.html` line 252, section 2).

## 6. Plan

Done: the pipeline, the limiter, the vote and the schema cache, which carry the
concurrency and the governance promise; the resolver and the policy, which decide
what may be read; the provider, the stream and the page, and their composition.

Proved: every safety property, every action property and every refinement that a
passing run checks. The hypotheses in them are needed and stay: `Bindable` (the
query of four scopes in section 4), `StarsExpand` (a table without columns),
`NamesAgree` (finding 5), `MaxResultRows < MaxRows` (finding 4) and `LimitsTighten`.

Proofs to come: that the schema and the verdicts that are constants of `Pipeline`
may be those of `SchemaCache` and `Governance` (`OneStatementIsSnapshot` and
`DeniedIsNeverRead` are what it would rest on), so that the end-to-end promise, no
answer shows what the policy denies, is one theorem.

Models to come: the loop over views of `sqlalchemy_db.py`, which may stop half
way; the buckets of the confidence histogram (how many confidences it holds is in
`Pipeline`); CTEs that other CTEs select from; the comparison of results in
`eval/compare.py` as an operator.

## 7. Not modelled

`cli.py`, `fake.py`, `eval/`, `scripts/` and `sql/` keep no state while the service
runs. Configuration values are the constants of the modules. `sqlglot`, the
database, the model, the network and the ASGI server are external: their verdicts
are constants, definitions marked external or free choices. `POST /v1/ask` is the
call of `answer` that `Pipeline` models; startup, shutdown, `ready` and
`metrics_endpoint` read or build what the modules start from. A crash of the server
loses all state there is, nothing is persisted, and is not modelled. Each
component's status is in `PROJECT.json`.
