----------------------------- MODULE Governance -----------------------------
(***************************************************************************)
(* The gates a drafted statement passes before it runs, with the verdicts  *)
(* computed that Pipeline takes as constants: check_sql of                 *)
(* src/app/guardrails.py, Policy.check, validate_references of             *)
(* src/app/schema.py, and the database.  The gates see the schema that     *)
(* load_schema returned; the database has the schema it has by then.       *)
(***************************************************************************)
EXTENDS Policy

CONSTANTS
  Statements,      \* statements the model may draft
  Policies,        \* policies the server may be started with
  InitialSchema,   \* the schema that load_schema returned
  Migrations       \* schemas the database may have later

ASSUME GovernanceAssumption ==
  /\ \A schema \in Migrations \cup {InitialSchema} :
       /\ IsFiniteSet(DOMAIN schema)
       /\ \A table \in DOMAIN schema : IsFiniteSet(schema[table])
  /\ \A statement \in Statements :
       /\ statement.count \in Nat
       /\ WellFormed(statement.query)
  /\ \A policy \in Policies : \A column \in policy.deniedColumns : Len(column) = 2

VARIABLES
  statement,   \* the draft
  policy,      \* the server's policy
  schema,      \* the schema the gates use
  live,        \* the schema the database has now
  stage,       \* the next gate, or how it ended
  optimizes,   \* history: qualify() succeeded in the policy gate
  verdict      \* what the policy gate decided

vars == <<statement, policy, schema, live, stage, optimizes, verdict>>
fixed == <<statement, policy, schema>>

NoVerdict == Verdict("none", NoColumn, {}, {})

Init ==
  /\ statement \in Statements
  /\ policy \in Policies
  /\ schema = InitialSchema
  /\ live = InitialSchema
  /\ stage = "guardrails"
  /\ optimizes = TRUE
  /\ verdict = NoVerdict

(* check_sql: one statement, a query, nothing forbidden in its tree *)
Accepted(s) ==
  s.parses /\ s.count = 1 /\ s.root \in ReadRoots /\ ~s.forbidden

Guardrails ==
  /\ stage = "guardrails"
  /\ stage' = IF Accepted(statement) THEN "policy" ELSE "refused"
  /\ UNCHANGED <<fixed, live, optimizes, verdict>>

(* policy.check; qualify() may fail on what the optimizer cannot do *)
PolicyGate ==
  /\ stage = "policy"
  /\ optimizes' \in BOOLEAN
  /\ verdict' \in Check(policy, statement, schema, optimizes')
  /\ stage' = IF verdict'.status = "allowed" THEN "schema" ELSE "blocked"
  /\ UNCHANGED <<fixed, live>>

(* validate_references *)
SchemaGate ==
  /\ stage = "schema"
  /\ stage' = IF Validated(statement.query, schema) THEN "execute" ELSE "blocked"
  /\ UNCHANGED <<fixed, live, optimizes, verdict>>

(* explain_cost and execute, by the database as it is now *)
Execute ==
  /\ stage = "execute"
  /\ stage' = IF Runs(statement.query, live) THEN "answered" ELSE "failed"
  /\ UNCHANGED <<fixed, live, optimizes, verdict>>

(* External: a migration, while the gates use the schema of before. *)
Migrate ==
  /\ stage \in {"guardrails", "policy", "schema", "execute"}
  /\ live = InitialSchema
  /\ live' \in Migrations
  /\ UNCHANGED <<fixed, stage, optimizes, verdict>>

Next == Guardrails \/ PolicyGate \/ SchemaGate \/ Execute \/ Migrate

Spec == Init /\ [][Next]_vars

-----------------------------------------------------------------------------
(* Properties *)

Query == statement.query
Read  == ColumnsRead(Query, live)

(* What the policy lets a query read. *)
Permits(q, s) ==
  /\ ColumnsRead(q, s) \cap policy.deniedColumns = {}
  /\ TablesOf(q) \cap policy.deniedTables = {}
  /\ policy.allowed # {} => TablesOf(q) \subseteq policy.allowed

(* A verdict has a status, and nothing is both permitted and denied. *)
TypeOK ==
  /\ stage \in {"guardrails", "refused", "policy", "schema", "execute",
                "blocked", "answered", "failed"}
  /\ verdict.status \in {"none", "allowed", "denied", "ambiguous", "unresolved",
                         "multiple_statements"}
  /\ verdict.resolved \cap verdict.denied = {}
  /\ optimizes \in BOOLEAN

(* Through aliases, nested scopes, stars and bare names, and even when the *)
(* optimizer gives up, no query answered under the schema it was checked   *)
(* against reads a denied column or table, provided that the optimizer and *)
(* the database agree on what its bare names stand for.                    *)
NothingDeniedIsRead ==
  stage = "answered" /\ live = schema /\ NamesAgree(Query, schema, optimizes) =>
    Permits(Query, live)

(* The same of every query, as the README says: each column reference in   *)
(* WHERE, ORDER BY, GROUP BY, HAVING and JOIN ... ON is checked.           *)
EveryClauseIsChecked == stage = "answered" /\ live = schema /\ optimizes => Permits(Query, live)

(* The columns the decision was based on, which the audit trail keeps, are *)
(* all that the query reads: each base column surfaces in some scope.      *)
ReadsAreReported ==
  stage = "answered" /\ live = schema /\ optimizes /\ NamesAgree(Query, schema, TRUE) =>
    Read \subseteq verdict.resolved

(* A column is refused by name only if the query does read it: the same    *)
(* alias in another scope, or the same name in another table, is no        *)
(* reason.  Provided all names could be bound: a bare name that is left is *)
(* searched in the tables alone, and may be refused for a column of a      *)
(* table further out, when it means one of a derived table.  (Analyzing    *)
(* the raw tree errs on the side of refusal, too.)                         *)
DenialsAreGrounded ==
  verdict.about \in policy.deniedColumns /\ optimizes
    /\ Runs(Query, schema) /\ Bindable(Query, schema) =>
    verdict.about \in ColumnsRead(Query, schema)

(* A query that the database would run and that reads nothing denied is    *)
(* let through, if the optimizer can bind all of its names.                *)
PermittedRuns ==
  stage = "blocked" /\ optimizes /\ Runs(Query, schema) /\ Bindable(Query, schema) =>
    ~Permits(Query, schema)

(* What the guardrails refuse for its structure the resolver refuses too:  *)
(* each would hold alone.                                                  *)
RefusedTwice ==
  stage = "refused" /\ ~statement.forbidden =>
    \A v \in Check(policy, statement, schema, TRUE) : v.status # "allowed"

(* Both gates claim to check against the live schema.  If they did, what   *)
(* they let through would read nothing denied, and name nothing missing,   *)
(* in the schema the database has at that moment.                          *)
GatesSeeLive ==
  [][/\ PolicyGate /\ verdict'.status = "allowed" /\ Runs(Query, live) => Permits(Query, live)
     /\ SchemaGate /\ stage' = "execute" => Validated(Query, live)]_vars
=============================================================================
