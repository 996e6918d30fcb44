------------------------------ MODULE Resolver ------------------------------
(***************************************************************************)
(* src/app/resolver.py: from a statement to the canonical column, if it    *)
(* can be proven, of every column reference in it.                         *)
(*                                                                         *)
(* A statement is what the parser makes of a text: whether it parses, how  *)
(* many statements it holds, what the first of them is, and its query.     *)
(* Identifiers are model values, so the folding to lower case is left out, *)
(* and so are the notes and scope tags of a reference.                     *)
(***************************************************************************)
EXTENDS Queries

NoColumn == <<>>

(* RefStatus and ResolvedRef *)
Ref(status, canonical, candidates) ==
  [status |-> status, canonical |-> canonical, candidates |-> candidates]
ResolvedTo(column) == Ref("resolved", column, {})
ResolvedElsewhere  == Ref("resolved", NoColumn, {})
Unresolved         == Ref("unresolved", NoColumn, {})
Ambiguous(columns) == Ref("ambiguous", NoColumn, columns)

(* _READ_ROOTS *)
ReadRoots == {"select", "union", "intersect", "except"}

(* ResolveReport *)
Unsupported(multiple) ==
  [supported |-> FALSE, refs |-> {}, baseTables |-> {}, star |-> FALSE,
   multiple |-> multiple, qualified |-> TRUE]

-----------------------------------------------------------------------------
(* Scopes *)

(* scope, scope.parent, ...: through derived tables and CTEs as well *)
Ancestry(q) ==
  LET chain[i \in Scopes(q)] ==
        IF q[i].parent = 0 THEN <<i>> ELSE <<i>> \o chain[q[i].parent]
  IN  chain

(* scope.columns: of its own references and those its subqueries leave to  *)
(* it, the ones that are not hidden; scope.external_columns: those whose   *)
(* qualifier is no source of the scope                                     *)
Columns(q) ==
  LET columns[i \in Scopes(q)] ==
        {use \in Uses(q, i) \cup
                UNION {{u \in columns[k] : u.ref.qual \notin Aliases(q, k)} :
                         k \in {n \in Scopes(q) : q[n].parent = i /\ ~q[n].closed}} :
           ~Hidden(q, i, use)}
  IN  columns

(* _base_table_names *)
BaseTables(q, i) == {src.table : src \in {s \in SourcesOf(q, i) : s.at = 0}}

(* A plausible bug: only the outermost select list is searched. *)
HasStarOnTop(q) == q[Len(q)].star

(* _has_projection_star *)
HasStar(q) == \E i \in Scopes(q) : q[i].star

(* _derived_lineage, of the first item of that name: the columns of its    *)
(* references, traced through the scopes below, or nothing when one of     *)
(* them cannot be traced                                                   *)
Lineage(q) ==
  LET traced[i \in Scopes(q)] ==
        LET step(ref) ==
              LET src == SourceAs(q, i, ref.qual) IN
              IF src.at = 0 THEN {<<src.table, ref.name>>}
              ELSE IF ref.name \in DOMAIN traced[src.at] THEN traced[src.at][ref.name] ELSE {}
            item(name) == q[i].select[Min({n \in DOMAIN q[i].select : q[i].select[n].as = name})]
        IN  [name \in {x.as : x \in ToSet(q[i].select)} |->
               IF \E ref \in item(name).reads : ref.qual \notin Aliases(q, i) THEN {}
               ELSE UNION {step(ref) : ref \in item(name).reads}]
  IN  traced

-----------------------------------------------------------------------------
(* References *)

(* A plausible bug: one alias map for the whole statement. *)
ResolveByAliasMap(q, schema, i, ref) ==
  LET src == CHOOSE src \in UNION {SourcesOf(q, k) : k \in Scopes(q)} : src.as = ref.qual
  IN  IF src.at = 0 THEN ResolvedTo(<<src.table, ref.name>>) ELSE ResolvedElsewhere

(* _resolve_local: the qualifier names a source of the scope.  A column of *)
(* a derived relation is canonical when it is one table column and no more *)
ResolveLocal(q, schema, i, ref) ==
  LET src     == SourceAs(q, i, ref.qual)
      lineage == IF ref.name \in DOMAIN Lineage(q)[src.at] THEN Lineage(q)[src.at][ref.name] ELSE {}
  IN  IF src.at = 0
      THEN IF DOMAIN schema # {} /\ src.table \notin DOMAIN schema
           THEN Unresolved
           ELSE ResolvedTo(<<src.table, ref.name>>)
      ELSE IF Cardinality(lineage) = 1
           THEN ResolvedTo(CHOOSE column \in lineage : TRUE)
           ELSE ResolvedElsewhere

(* _resolve_unqualified: the tables of this scope and all around it that   *)
(* have such a column                                                      *)
ResolveUnqualified(q, schema, i, ref) ==
  LET visible == UNION {BaseTables(q, k) : k \in ToSet(Ancestry(q)[i])}
      owners  == {table \in visible : ref.name \in ColumnsIn(schema, table)}
      columns == {<<table, ref.name>> : table \in owners}
  IN  IF columns = {} THEN ResolvedElsewhere
      ELSE IF Cardinality(columns) = 1 THEN ResolvedTo(CHOOSE column \in columns : TRUE)
      ELSE Ambiguous(columns)

(* A plausible bug: only the scope next around this one is searched. *)
ResolveInParent(q, i, ref) ==
  LET k == q[i].parent IN
  IF k = 0 \/ ref.qual \notin Aliases(q, k) THEN Unresolved
  ELSE ResolvedTo(<<SourceAs(q, k, ref.qual).table, ref.name>>)

(* _resolve_correlated: the closest scope around this one with that alias *)
ResolveCorrelated(q, i, ref) ==
  LET around == Tail(Ancestry(q)[i])
      homes  == {n \in DOMAIN around : ref.qual \in Aliases(q, around[n])}
      src    == SourceAs(q, around[Min(homes)], ref.qual)
  IN  IF homes = {} THEN Unresolved
      ELSE IF src.at = 0 THEN ResolvedTo(<<src.table, ref.name>>)
      ELSE ResolvedElsewhere

(* the body of the loop over scope.columns *)
Resolve(q, schema, i, ref) ==
  IF ref.qual = Unqualified THEN ResolveUnqualified(q, schema, i, ref)
  ELSE IF ref.qual \notin Aliases(q, i) THEN ResolveCorrelated(q, i, ref)
  ELSE ResolveLocal(q, schema, i, ref)

(* A plausible bug: derived scopes are left to the lineage. *)
ReportOutermost(q, schema, qualified) ==
  [supported |-> TRUE, multiple |-> FALSE, qualified |-> qualified, star |-> HasStar(q),
   baseTables |-> UNION {BaseTables(q, i) : i \in Scopes(q)},
   refs |-> {Resolve(q, schema, Len(q), use.ref) : use \in Columns(q)[Len(q)]}]

(* the loop over the scopes, and the report at the end *)
Report(q, schema, qualified) ==
  [supported |-> TRUE, multiple |-> FALSE, qualified |-> qualified,
   star |-> HasStar(q),
   baseTables |-> UNION {BaseTables(q, i) : i \in Scopes(q)},
   refs |-> UNION {{Resolve(q, schema, i, use.ref) : use \in Columns(q)[i]} : i \in Scopes(q)}]

(* A plausible bug: the first statement is analyzed, the rest ignored. *)
AnalyzeFirst(statement, schema, optimizes) ==
  IF ~statement.parses \/ statement.count = 0 THEN Unsupported(FALSE)
  ELSE Report(Qualified(statement.query, schema), schema, optimizes)

(* analyze.  optimizes is FALSE when qualify() fails for a reason other    *)
(* than an alias used twice: the raw tree is analyzed instead.             *)
Analyze(statement, schema, optimizes) ==
  IF ~statement.parses \/ statement.count = 0 THEN Unsupported(FALSE)
  ELSE IF statement.count > 1 THEN Unsupported(TRUE)
  ELSE IF statement.root \notin ReadRoots \/ DuplicateAlias(statement.query)
       THEN Unsupported(FALSE)
  ELSE IF optimizes THEN Report(Qualified(statement.query, schema), schema, TRUE)
  ELSE Report(statement.query, schema, FALSE)
=============================================================================
