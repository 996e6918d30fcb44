------------------------------ MODULE Provider ------------------------------
(***************************************************************************)
(* src/app/providers/groq_provider.py: generate, which takes num_samples   *)
(* completions in the threads of a pool, judge, which takes one, and the   *)
(* Usage record that every completion of every caller updates unlocked.    *)
(*                                                                         *)
(* The two x-ratelimit-remaining headers are recorded one after the other, *)
(* independently: the model follows one of them, the requests left.  The   *)
(* sum of line 77 loads the total before it calls getattr, where the       *)
(* interpreter may change threads; calls, which nothing reads, is left out.*)
(***************************************************************************)
EXTENDS Integers, Sequences, FiniteSets

CONSTANTS
  Callers,      \* threads inside Pipeline.answer
  NumSamples,   \* settings.num_samples
  PoolSize,     \* the 8 of min(k, 8)
  Budget,       \* requests the API grants in its rate-limit window
  Regains,      \* bound: requests it gives back as the window moves on
  Costs,        \* total_tokens a response may report
  None          \* Python's None

ASSUME ProviderAssumption ==
  /\ NumSamples \in Nat /\ PoolSize \in Nat \ {0}
  /\ Budget \in Nat /\ Regains \in Nat
  /\ Costs \subseteq Nat
  /\ None \notin Nat

VARIABLES
  usage,        \* _usage: [total, remaining]
  reporting,    \* external: the endpoint reports usage and sends the headers
  left,         \* external: the requests the API still grants
  regained,     \* history: the requests given back so far
  call,         \* call[c]: how far c's call of the provider is
  jobs,         \* jobs[c]: the completions of that call, in sample order
  reported,     \* history: the tokens of all responses that came back
  amiss         \* history: two completions have been under way at once,
                \* or a response came that could not be parsed

providerVars == <<usage, reporting, left, regained, call, jobs, reported, amiss>>

Job(state) == [state |-> state, remaining |-> None, tokens |-> None, base |-> 0]

ProviderInit ==
  /\ usage = [total |-> 0, remaining |-> None]
  /\ reporting \in BOOLEAN
  /\ left = Budget
  /\ regained = 0
  /\ call = [c \in Callers |-> "idle"]
  /\ jobs = [c \in Callers |-> <<>>]
  /\ reported = 0
  /\ amiss = FALSE

(* the states in which a thread is inside _complete *)
Completing == {"sent", "answered", "recorded", "adding"}

Busy(c) == {i \in DOMAIN jobs[c] : jobs[c][i].state \in Completing}

(* generate is entered; a pool of no threads is a ValueError *)
Generate(c) ==
  /\ call[c] = "idle"
  /\ IF NumSamples = 0
     THEN call' = [call EXCEPT ![c] = "closing"] /\ UNCHANGED jobs
     ELSE /\ call' = [call EXCEPT ![c] = "generate"]
          /\ jobs' = [jobs EXCEPT ![c] = [i \in 1 .. NumSamples |-> Job("queued")]]
  /\ UNCHANGED <<usage, reporting, left, regained, reported, amiss>>

(* judge is entered, which completes in the caller's own thread *)
Judge(c) ==
  /\ call[c] = "idle"
  /\ call' = [call EXCEPT ![c] = "judge"]
  /\ jobs' = [jobs EXCEPT ![c] = <<Job("queued")>>]
  /\ UNCHANGED <<usage, reporting, left, regained, reported, amiss>>

(* a free thread takes the next job, and sends its request *)
Send(c, i) ==
  /\ jobs[c][i].state = "queued"
  /\ \A j \in 1 .. i - 1 : jobs[c][j].state # "queued"
  /\ Cardinality(Busy(c)) < PoolSize
  /\ jobs' = [jobs EXCEPT ![c][i].state = "sent"]
  /\ amiss' = (amiss \/ \E d \in Callers : Busy(d) # {})
  /\ UNCHANGED <<usage, reporting, left, regained, call, reported>>

(* External: the API serves the request.  What its headers say is true at  *)
(* that moment.                                                            *)
Serve(c, i) ==
  /\ jobs[c][i].state = "sent"
  /\ left > 0
  /\ left' = left - 1
  /\ \/ /\ ~reporting
        /\ jobs' = [jobs EXCEPT ![c][i].state = "answered"]
        /\ UNCHANGED reported
     \/ /\ reporting
        /\ \E tokens \in Costs :
             /\ jobs' = [jobs EXCEPT ![c][i].state = "answered", ![c][i].tokens = tokens,
                                     ![c][i].remaining = left - 1]
             /\ reported' = reported + tokens
  /\ UNCHANGED <<usage, reporting, regained, call, amiss>>

(* External: the rate-limit window moves on, and a request is granted anew.*)
Regain ==
  /\ left < Budget /\ regained < Regains
  /\ left' = left + 1 /\ regained' = regained + 1
  /\ UNCHANGED <<usage, reporting, call, jobs, reported, amiss>>

(* External: no response, after all retries: the SDK raises. *)
Refused(c, i) ==
  /\ jobs[c][i].state = "sent"
  /\ jobs' = [jobs EXCEPT ![c][i].state = "failed"]
  /\ UNCHANGED <<usage, reporting, left, regained, call, reported, amiss>>

(* A plausible bug: what is left is reckoned and not read off, and a retry *)
(* is counted with every request.                                          *)
Reckoned(job) ==
  IF usage.remaining = None THEN job.remaining ELSE usage.remaining - 2

(* what _record_headers stores: the header, None when there is none *)
Header(job) == job.remaining

(* _record_headers, whatever a later request has stored before *)
RecordHeaders(c, i) ==
  /\ jobs[c][i].state = "answered"
  /\ usage' = [usage EXCEPT !.remaining = Header(jobs[c][i])]
  /\ jobs' = [jobs EXCEPT ![c][i].state = "recorded", ![c][i].remaining = None]
  /\ UNCHANGED <<reporting, left, regained, call, reported, amiss>>

(* raw.parse() raises on what came back *)
Unparsed(c, i) ==
  /\ jobs[c][i].state = "recorded"
  /\ jobs' = [jobs EXCEPT ![c][i] = Job("failed")]
  /\ amiss' = TRUE
  /\ UNCHANGED <<usage, reporting, left, regained, call, reported>>

(* the text is returned, or there is none: choices[0] raises *)
Endings == {"done", "failed"}

(* the response carries no usage *)
NoUsage(c, i) ==
  /\ jobs[c][i].state = "recorded"
  /\ jobs[c][i].tokens = None
  /\ \E ending \in Endings : jobs' = [jobs EXCEPT ![c][i] = Job(ending)]
  /\ UNCHANGED <<usage, reporting, left, regained, call, reported, amiss>>

(* it does: total_tokens is loaded ... *)
LoadTotal(c, i) ==
  /\ jobs[c][i].state = "recorded"
  /\ jobs[c][i].tokens # None
  /\ jobs' = [jobs EXCEPT ![c][i].state = "adding", ![c][i].base = usage.total]
  /\ UNCHANGED <<usage, reporting, left, regained, call, reported, amiss>>

(* Plausible bugs: the tokens are stored, not added; they are added twice. *)
NotAdded(job) == job.tokens
AddedTwice(job) == job.base + 2 * job.tokens

Sum(job) == job.base + job.tokens

(* ... and stored *)
StoreTotal(c, i) ==
  /\ jobs[c][i].state = "adding"
  /\ usage' = [usage EXCEPT !.total = Sum(jobs[c][i])]
  /\ \E ending \in Endings : jobs' = [jobs EXCEPT ![c][i] = Job(ending)]
  /\ UNCHANGED <<reporting, left, regained, call, reported, amiss>>

Complete(c, i) ==
  \/ Send(c, i) \/ Serve(c, i) \/ Refused(c, i)
  \/ RecordHeaders(c, i) \/ Unparsed(c, i)
  \/ NoUsage(c, i) \/ LoadTotal(c, i) \/ StoreTotal(c, i)

(* the results are looked at in sample order, each waited for *)
FirstFailed(c, i) ==
  /\ jobs[c][i].state = "failed"
  /\ \A j \in 1 .. i - 1 : jobs[c][j].state = "done"

(* pool.map meets a failure: the jobs no thread has taken are cancelled *)
Cancel(c) ==
  /\ call[c] = "generate"
  /\ \E i \in DOMAIN jobs[c] : FirstFailed(c, i)
  /\ call' = [call EXCEPT ![c] = "closing"]
  /\ jobs' = [jobs EXCEPT ![c] =
       [i \in DOMAIN @ |-> IF @[i].state = "queued" THEN Job("cancelled") ELSE @[i]]]
  /\ UNCHANGED <<usage, reporting, left, regained, reported, amiss>>

(* A plausible bug: the pool is not waited for. *)
ClosedAtOnce(c) == TRUE

(* the pool's exit waits until its threads are done *)
Closed(c) == Busy(c) = {}

(* the provider is left, and with it its jobs, unless some go on *)
Leave(c) ==
  /\ call' = [call EXCEPT ![c] = "idle"]
  /\ jobs' = [jobs EXCEPT ![c] = IF Busy(c) = {} THEN <<>> ELSE @]
  /\ UNCHANGED <<usage, reporting, left, regained, reported, amiss>>

(* generate returns its list, one text for each sample *)
GenerateReturns(c) ==
  /\ call[c] = "generate"
  /\ \A i \in DOMAIN jobs[c] : jobs[c][i].state = "done"
  /\ Leave(c)

(* generate raises the first failure *)
GenerateRaises(c) ==
  /\ call[c] = "closing"
  /\ Closed(c)
  /\ Leave(c)

(* judge returns a verdict, of score 0.0 when its text does not parse *)
JudgeReturns(c) ==
  /\ call[c] = "judge"
  /\ jobs[c][1].state = "done"
  /\ Leave(c)

(* judge raises: its completion failed, or its score is null, a TypeError  *)
(* that it does not catch                                                  *)
JudgeRaises(c) ==
  /\ call[c] = "judge"
  /\ jobs[c][1].state \in {"done", "failed"}
  /\ Leave(c)

ProviderStep(c) ==
  \/ \E i \in DOMAIN jobs[c] : Complete(c, i)
  \/ Cancel(c)

-----------------------------------------------------------------------------
(* Properties *)

JobStates == Completing \cup {"queued", "done", "failed", "cancelled"}

UsageOK ==
  /\ usage \in [total : Nat, remaining : Nat \cup {None}]
  /\ reporting \in BOOLEAN /\ left \in 0 .. Budget /\ regained \in 0 .. Regains
  /\ reported \in Nat /\ amiss \in BOOLEAN
  /\ call \in [Callers -> {"idle", "generate", "judge", "closing"}]
  /\ \A c \in Callers : \A i \in DOMAIN jobs[c] :
       jobs[c][i] \in [state : JobStates, remaining : Nat \cup {None},
                       tokens : Nat \cup {None}, base : Nat]

(* Whatever updates are lost and in whatever order responses are handled,  *)
(* the accounts err to one side: total_tokens never exceeds the tokens of  *)
(* the responses, and the requests said to be left fall short of those     *)
(* left by no more than the API has given back; a header that is kept too  *)
(* long, or stored too late, errs the other way only.                      *)
AccountsErrOneWay ==
  /\ usage.total <= reported
  /\ usage.remaining # None => usage.remaining + regained >= left

(* As long as no two completions have overlapped, and every response could *)
(* be parsed, the tokens are exact whenever nobody is inside _complete.    *)
ExactUntilOverlap ==
  ~amiss /\ (\A c \in Callers : Busy(c) = {}) => usage.total = reported

(* No completion outlives the call of the provider that asked for it: when *)
(* generate has raised on one sample, the others are done or cancelled.    *)
NoStrayCompletions == \A c \in Callers : call[c] = "idle" => Busy(c) = {}
=============================================================================
