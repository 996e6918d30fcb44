------------------------------- MODULE Policy -------------------------------
(***************************************************************************)
(* src/app/policy.py: Policy.check, the decision on a resolver's report.   *)
(*                                                                         *)
(* A policy is [allowed, deniedTables, deniedColumns], the last a set of   *)
(* <<table, column>> pairs.  Which reference is named when several would   *)
(* be a reason to refuse follows the order of the syntax tree and is left  *)
(* open: a check has a set of possible verdicts.  The provenance keeps the *)
(* canonical columns; texts and explanations are left out.                 *)
(***************************************************************************)
EXTENDS Resolver

(* PolicyResult *)
Verdict(status, about, resolved, denied) ==
  [status |-> status, about |-> about, resolved |-> resolved, denied |-> denied]

CanonicalOf(report) == {ref.canonical : ref \in report.refs} \ {NoColumn}

(* A plausible bug: a denied column is listed among the resolved ones too. *)
ExplainedTwice(status, about, policy, report) ==
  Verdict(status, about, CanonicalOf(report), CanonicalOf(report) \cap policy.deniedColumns)

(* _provenance, beside a status and what the refusal is about *)
Explained(status, about, policy, report) ==
  Verdict(status, about, CanonicalOf(report) \ policy.deniedColumns,
          CanonicalOf(report) \cap policy.deniedColumns)

(* the loop over base_tables: on the deny-list, or off the allow-list and  *)
(* known to the schema                                                     *)
RefusedTables(policy, report, schema) ==
  {table \in report.baseTables :
     \/ table \in policy.deniedTables
     \/ policy.allowed # {} /\ table \in DOMAIN schema /\ table \notin policy.allowed}

(* _first_denied *)
DeniedColumns(policy, report) == CanonicalOf(report) \cap policy.deniedColumns

(* _first_ambiguous_denied *)
MaybeDenied(policy, report) ==
  {ref \in report.refs : ref.candidates \cap policy.deniedColumns # {}}

(* _first_unresolved *)
Unproven(report) == {ref \in report.refs : ref.status = "unresolved"}

(* check, after analyze: the first of these reasons decides *)
Verdicts(policy, report, schema) ==
  LET tables == RefusedTables(policy, report, schema)
      denied == DeniedColumns(policy, report)
      told(status, about) == Explained(status, about, policy, report)
  IN  IF report.multiple THEN {Verdict("multiple_statements", NoColumn, {}, {})}
      ELSE IF ~report.supported THEN {Verdict("unresolved", NoColumn, {}, {})}
      ELSE IF tables # {} THEN {Verdict("denied", <<table>>, {}, {}) : table \in tables}
      ELSE IF policy.deniedColumns = {} THEN {told("allowed", NoColumn)}
      ELSE IF report.star THEN {told("unresolved", NoColumn)}
      ELSE IF denied # {} THEN {told("denied", column) : column \in denied}
      ELSE IF MaybeDenied(policy, report) # {} THEN {told("ambiguous", NoColumn)}
      ELSE IF Unproven(report) # {} THEN {told("unresolved", NoColumn)}
      ELSE {told("allowed", NoColumn)}

(* Policy.check *)
Check(policy, statement, schema, optimizes) ==
  Verdicts(policy, Analyze(statement, schema, optimizes), schema)
=============================================================================
