-------------------------- MODULE GovernedAnswers --------------------------
(***************************************************************************)
(* What the service promises of an answer, apart from how it is made.      *)
(*                                                                         *)
(* A question ends refused, failed or given a payload.  The payload was    *)
(* either computed for it, and then governance approved it against a       *)
(* version of the schema, or replayed, and then an earlier request was     *)
(* given it, as a success, for the same question and schema.               *)
(***************************************************************************)
CONSTANTS
  Requests,
  Questions,        \* questions, up to upper and lower case
  NoQuestion,
  Schemas,          \* versions of the database schema
  Payloads,         \* what a client is given: statement, rows, confidence
  Successes,        \* the payloads of statements that ran without an error
  Approved(_, _)    \* Approved(s, p): governance lets p out under schema s

VARIABLES
  status,   \* status[r]: "idle", "open", "refused", "failed" or "given"
  asked,    \* asked[r]: the question of r
  given,    \* given[r]: {<<question, schema, payload>>} once r is answered
  book      \* the <<question, schema, payload>> that may be replayed

vars == <<status, asked, given, book>>

Init ==
  /\ status = [r \in Requests |-> "idle"]
  /\ asked = [r \in Requests |-> NoQuestion]
  /\ given = [r \in Requests |-> {}]
  /\ book = {}

Submit(r, q) ==
  /\ status[r] = "idle"
  /\ status' = [status EXCEPT ![r] = "open"]
  /\ asked' = [asked EXCEPT ![r] = q]
  /\ UNCHANGED <<given, book>>

Turn(r, to) ==
  /\ status[r] = "open"
  /\ status' = [status EXCEPT ![r] = to]
  /\ UNCHANGED asked

Refuse(r) ==
  /\ Turn(r, "refused")
  /\ UNCHANGED <<given, book>>

Fail(r) ==
  /\ Turn(r, "failed")
  /\ UNCHANGED <<given, book>>

Compute(r) ==
  /\ Turn(r, "given")
  /\ \E s \in Schemas, p \in Payloads :
       /\ Approved(s, p)
       /\ given' = [given EXCEPT ![r] = {<<asked[r], s, p>>}]
       /\ book' = IF p \in Successes THEN book \cup given'[r] ELSE book

Replay(r) ==
  /\ Turn(r, "given")
  /\ \E entry \in book :
       /\ entry[1] = asked[r]
       /\ given' = [given EXCEPT ![r] = {entry}]
  /\ UNCHANGED book

Next ==
  \E r \in Requests :
    \/ \E q \in Questions : Submit(r, q)
    \/ Refuse(r)
    \/ Fail(r)
    \/ Compute(r)
    \/ Replay(r)

Spec == Init /\ [][Next]_vars
=============================================================================
