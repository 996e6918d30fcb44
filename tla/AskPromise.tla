----------------------------- MODULE AskPromise -----------------------------
(***************************************************************************)
(* What the page promises whoever asks, without threads, queues and        *)
(* connections: the gates resolve one after the other in the order of      *)
(* PIPELINE_STAGES, one outcome at most is told, after the last gate, and  *)
(* the page then takes the next question.  A question asked meanwhile      *)
(* takes the place of the one before.                                      *)
(***************************************************************************)
EXTENDS Integers, Sequences

CONSTANTS StageCount, MaxQuestions

VARIABLES
  question,   \* how many questions have been asked
  gates,      \* the gates shown as resolved
  outcome,    \* what is told of the question
  running     \* the page is waiting for it

vars == <<question, gates, outcome, running>>

Init == question = 0 /\ gates = <<>> /\ outcome = "empty" /\ running = FALSE

Ask ==
  /\ question < MaxQuestions
  /\ question' = question + 1
  /\ gates' = <<>> /\ outcome' = "running" /\ running' = TRUE

Resolve ==
  /\ running /\ outcome = "running"
  /\ Len(gates) < StageCount
  /\ gates' = Append(gates, Len(gates) + 1)
  /\ UNCHANGED <<question, outcome, running>>

Tell ==
  /\ running /\ outcome = "running"
  /\ outcome' \in {"result", "error"}
  /\ UNCHANGED <<question, gates, running>>

(* the outcome was told, or cannot be read *)
End ==
  /\ running
  /\ running' = FALSE
  /\ UNCHANGED <<question, gates, outcome>>

(* the connection is lost, whatever was told *)
Lose ==
  /\ running
  /\ running' = FALSE /\ outcome' = "lost"
  /\ UNCHANGED <<question, gates>>

Next == Ask \/ Resolve \/ Tell \/ End \/ Lose

Spec == Init /\ [][Next]_vars
=============================================================================
