------------------------------ MODULE Service ------------------------------
(***************************************************************************)
(* The web page, the stream of src/app/api.py and the model provider put   *)
(* together: the worker of each stream runs Pipeline.answer, here no more  *)
(* than the order of its reports and of its calls of the provider, and all *)
(* workers share the one provider that api.py's startup builds.            *)
(***************************************************************************)
EXTENDS AskStream, Provider

ASSUME ServiceAssumption == Callers = Asks

vars == <<streamVars, providerVars>>

Init == StreamInit /\ ProviderInit

(* the worker of ask n is before the stage *)
Before(n, stage) ==
  /\ worker[n].state = "answering"
  /\ worker[n].at < Len(Stages)
  /\ Stages[worker[n].at + 1] = stage

(* a stage that asks nothing of the provider, or a judge that is skipped *)
StageResolved(n) ==
  /\ ~Before(n, "generate")
  /\ call[n] = "idle"
  /\ Report(n)
  /\ UNCHANGED providerVars

CallGenerate(n) ==
  /\ Before(n, "generate")
  /\ Generate(n)
  /\ UNCHANGED streamVars

CallJudge(n) ==
  /\ Before(n, "judge")
  /\ Judge(n)
  /\ UNCHANGED streamVars

(* generate or judge returns: its stage is reported *)
CallReturned(n) ==
  /\ GenerateReturns(n) \/ JudgeReturns(n)
  /\ Report(n)

(* it raises: so does answer *)
CallRaised(n) ==
  /\ GenerateRaises(n) \/ JudgeRaises(n)
  /\ PutError(n)

(* anything else that answer calls raises: load_schema, the parser, ... *)
StageRaised(n) ==
  /\ call[n] = "idle"
  /\ PutError(n)
  /\ UNCHANGED providerVars

AnswerReturned(n) ==
  /\ call[n] = "idle"
  /\ PutResult(n)
  /\ UNCHANGED providerVars

WorkerEnds(n) == PutEnd(n) /\ UNCHANGED providerVars

Working(n) ==
  \/ StageResolved(n) \/ CallGenerate(n) \/ CallJudge(n)
  \/ CallReturned(n) \/ CallRaised(n) \/ StageRaised(n)
  \/ AnswerReturned(n) \/ WorkerEnds(n)

(* the threads of the server and of the SDK; the API behind them *)
Server ==
  \E n \in Asks :
    \/ Serving(n) /\ UNCHANGED providerVars
    \/ Working(n)
    \/ ProviderStep(n) /\ UNCHANGED streamVars

Next ==
  \/ Server
  \/ Start /\ UNCHANGED providerVars
  \/ Regain /\ UNCHANGED streamVars
  \/ \E n \in Asks : Disconnect(n) /\ UNCHANGED providerVars

(* The server's threads are not all stopped while one of them can go on:   *)
(* a question takes finitely many steps, so no thread need be named.  The  *)
(* SDK's timeout and its bounded retries see to it that a request is       *)
(* answered or fails.  Nobody has to ask, no connection has to break, and  *)
(* the API has to give nothing back.                                       *)
FairSpec == Init /\ [][Next]_vars /\ WF_vars(Server)

-----------------------------------------------------------------------------
(* Properties *)

(* Types of all the parts. *)
TypeOK == StreamOK /\ UsageOK

(* Every question comes to its end, also when its client has left: no      *)
(* thread of the server stays blocked on the queue, the worker and its     *)
(* calls of the provider do not stay behind, and unless another question   *)
(* has been asked the page's button is free again.                         *)
QuestionsEnd ==
  \A n \in Asks :
    stream[n] \in {"requested", "open"} ~>
      /\ stream[n] \in {"refused", "ended", "dropped"}
      /\ worker[n].state \in {"none", "ended"} /\ call[n] = "idle"
      /\ asked = n => ~page.disabled

(* The page keeps what AskPromise promises. *)
Promise ==
  INSTANCE AskPromise WITH StageCount <- Len(Stages), MaxQuestions <- MaxAsks,
    question <- asked, gates <- page.gates, outcome <- page.readout, running <- page.disabled

KeepsAskPromise == Promise!Spec
=============================================================================
