------------------------------ MODULE Queries ------------------------------
(***************************************************************************)
(* What src/app/resolver.py and src/app/schema.py get from elsewhere: the  *)
(* shape of a parsed SELECT, the optimizer's qualify() and the scopes it   *)
(* builds (sqlglot), and what a database reads when it runs the statement. *)
(*                                                                         *)
(* A query is the sequence of its scopes in the order of traverse_scope,   *)
(* inner scopes before the scope they are in, which is the last:           *)
(*   parent    the scope it stands in, 0 for the outermost                 *)
(*   closed    it sees nothing of its parent (CTE, derived table, branch   *)
(*             of a set operation); a subquery in an expression does       *)
(*   sources   the FROM clause: [as, table, at], at # 0 for a scope        *)
(*   select    the select list: [as, reads], reads the set of column       *)
(*             references of the expression                                *)
(*   star      it also selects a bare *                                    *)
(*   uses      the references outside the select list, [clause, ref]       *)
(* A reference is [qual, name], qual = Unqualified for a bare name.        *)
(*                                                                         *)
(* The clauses differ in what a bare name may mean: "on" (JOIN ... ON),    *)
(* "where" (WHERE, and inside an expression of GROUP BY), "group" (a name  *)
(* alone in GROUP BY), "having", "sort" (a name alone in ORDER BY or       *)
(* DISTINCT ON) and "order" (inside an expression of ORDER BY).            *)
(*                                                                         *)
(* Outside this syntax: recursive CTEs, a CTE that another CTE or an inner *)
(* scope selects from, a CTE's name used again as an alias, whole-row      *)
(* references, the alias of a select item inside a later one, a bare name  *)
(* in an aggregate in ORDER BY, and the ORDER BY of a set operation, which *)
(* can name outputs only.  Every named item counts as named by AS.         *)
(***************************************************************************)
EXTENDS Integers, FiniteSetsExt, SequencesExt

CONSTANT Unqualified   \* the qualifier of a bare column name, and no alias

(* A schema maps each table to the set of its columns. *)
ColumnsIn(schema, table) == IF table \in DOMAIN schema THEN schema[table] ELSE {}

Scopes(q)      == DOMAIN q
SourcesOf(q, i) == ToSet(q[i].sources)
Aliases(q, i)  == {src.as : src \in SourcesOf(q, i)}
SourceAs(q, i, alias) == CHOOSE src \in SourcesOf(q, i) : src.as = alias
Named(q, i)    == {item.as : item \in ToSet(q[i].select)}
SelectReads(q, i) == UNION {item.reads : item \in ToSet(q[i].select)}
TablesOf(q)    == {src.table : src \in {s \in UNION {SourcesOf(q, i) : i \in Scopes(q)} : s.at = 0}}

Clauses == {"select", "on", "where", "group", "having", "sort", "order"}
Use(clause, ref) == [clause |-> clause, ref |-> ref]
Uses(q, i) == {Use("select", ref) : ref \in SelectReads(q, i)} \cup q[i].uses

(* One alias for two sources of a scope: the scope builder raises. *)
DuplicateAlias(q) == \E i \in Scopes(q) : Cardinality(Aliases(q, i)) < Len(q[i].sources)

(* The scopes a name is looked up in, innermost first. *)
Visible(q) ==
  LET chain[i \in Scopes(q)] ==
        IF q[i].parent = 0 \/ q[i].closed THEN <<i>> ELSE <<i>> \o chain[q[i].parent]
  IN  chain

(* The column names each scope offers to the scope that selects from it. *)
Outputs(q, schema) ==
  LET offered[i \in Scopes(q)] ==
        Named(q, i) \cup
        IF ~q[i].star THEN {}
        ELSE UNION {IF src.at = 0 THEN ColumnsIn(schema, src.table) ELSE offered[src.at] :
                      src \in SourcesOf(q, i)}
  IN  offered

ColumnsOf(q, schema, src) ==
  IF src.at = 0 THEN ColumnsIn(schema, src.table) ELSE Outputs(q, schema)[src.at]

OwnersOf(q, schema, i, name) ==
  {src \in SourcesOf(q, i) : name \in ColumnsOf(q, schema, src)}

(* What the parser and the scope builder make of a text of this syntax. *)
WellFormed(q) ==
  /\ q \in [1 .. Len(q) -> ToSet(q)]
  /\ \A i \in Scopes(q) :
       /\ q[i] = [parent |-> q[i].parent, closed |-> q[i].closed, sources |-> q[i].sources,
                  select |-> q[i].select, star |-> q[i].star, uses |-> q[i].uses]
       /\ q[i].parent = 0 \/ q[i].parent \in i + 1 .. Len(q)
       /\ q[i].closed \in BOOLEAN /\ q[i].star \in BOOLEAN
       /\ q[i].sources \in Seq(SourcesOf(q, i)) /\ q[i].select \in Seq(ToSet(q[i].select))
       /\ \A src \in SourcesOf(q, i) :
            /\ src.as # Unqualified
            /\ src.at # 0 => src.at \in 1 .. i - 1 /\ q[src.at].parent = i
       /\ \A item \in ToSet(q[i].select) : item = [as |-> item.as, reads |-> item.reads]
       /\ \A n, m \in DOMAIN q[i].select : \A ref \in q[i].select[n].reads :
            m < n /\ ref.qual = Unqualified /\ ref.name = q[i].select[m].as =>
              q[i].select[m].reads = {ref}
       /\ \A use \in Uses(q, i) :
            use.clause \in Clauses /\ use = Use(use.clause, [qual |-> use.ref.qual, name |-> use.ref.name])

-----------------------------------------------------------------------------
(* sqlglot's scope.columns: a bare name in ORDER BY that is also an output *)
(* name is taken for the output, here and in every scope around, and a     *)
(* bare name in HAVING is left to qualify.                                 *)
TakenForOutput(q, i, use) == use.clause \in {"sort", "order"} /\ use.ref.name \in Named(q, i)

Hidden(q, i, use) ==
  use.ref.qual = Unqualified /\ (use.clause = "having" \/ TakenForOutput(q, i, use))

OwnReads(q, i) == {use.ref : use \in {u \in Uses(q, i) : ~Hidden(q, i, u)}}

-----------------------------------------------------------------------------
(* sqlglot's qualify *)

IsLone(q, schema, i, name) == Cardinality(OwnersOf(q, schema, i, name)) = 1

(* A bare name gets the alias of the innermost source that alone can own   *)
(* it, unless an inner scope uses that alias for something else or one on  *)
(* the way takes the name for an output; in HAVING, its own scope only.    *)
Bound(q, schema, i, use) ==
  LET chain == Visible(q)[i]
      name  == use.ref.name
      homes == {n \in DOMAIN chain : IsLone(q, schema, chain[n], name)}
      home  == Min(homes)
      alias == (CHOOSE src \in OwnersOf(q, schema, chain[home], name) : TRUE).as
  IN  IF \/ use.ref.qual # Unqualified
         \/ homes = {}
         \/ \E n \in 1 .. home - 1 : alias \in Aliases(q, chain[n])
         \/ \E n \in 1 .. home : TakenForOutput(q, chain[n], use)
         \/ use.clause = "having" /\ home # 1
      THEN use.ref
      ELSE [use.ref EXCEPT !.qual = alias]

(* A name of these clauses that is an output name becomes the expression   *)
(* of the output, in HAVING always, else when no source here alone owns it *)
Replaced(q, schema, i, use) ==
  /\ use.ref.qual = Unqualified /\ use.ref.name \in Named(q, i)
  /\ \/ use.clause = "having"
     \/ use.clause \in {"where", "group"} /\ ~IsLone(q, schema, i, use.ref.name)

Rewritten(q, schema, i, use) == Use(use.clause, Bound(q, schema, i, use))

(* A star is replaced by columns when those of every source are known. *)
Expandable(q, schema, i) ==
  q[i].star /\ \A src \in SourcesOf(q, i) : ColumnsOf(q, schema, src) # {}

StarItems(q, schema, i) ==
  FlattenSeq([n \in DOMAIN q[i].sources |->
    LET src  == q[i].sources[n]
        cols == SetToSeq(ColumnsOf(q, schema, src))
    IN  [m \in DOMAIN cols |->
           [as |-> cols[m], reads |-> {[qual |-> src.as, name |-> cols[m]]}]]])

Qualified(q, schema) ==
  [i \in Scopes(q) |->
     LET bound == [n \in DOMAIN q[i].select |->
                     [q[i].select[n] EXCEPT !.reads = {Bound(q, schema, i, Use("select", r)) : r \in @}]]
         left  == {Rewritten(q, schema, i, use) :
                     use \in {u \in q[i].uses : ~Replaced(q, schema, i, u)}}
     IN  IF Expandable(q, schema, i)
         THEN [q[i] EXCEPT !.select = bound \o StarItems(q, schema, i), !.star = FALSE, !.uses = left]
         ELSE [q[i] EXCEPT !.select = bound, !.uses = left]]

(* No bare name is left that a scope still sees. *)
Bindable(q, schema) ==
  \A i \in Scopes(q) : \A ref \in OwnReads(Qualified(q, schema), i) : ref.qual # Unqualified

(* qualify(validate_qualify_columns=True) raises nothing: every reference  *)
(* has a qualifier, of a visible source, which has the column.  Of a table *)
(* it does not know, the optimizer takes any column to exist.              *)
Validated(q, schema) ==
  /\ ~DuplicateAlias(q)
  /\ Bindable(q, schema)
  /\ \A i \in Scopes(q) : \A ref \in OwnReads(Qualified(q, schema), i) :
       LET chain == Visible(q)[i]
           homes == {n \in DOMAIN chain : ref.qual \in Aliases(q, chain[n])}
           cols  == ColumnsOf(q, schema, SourceAs(q, chain[Min(homes)], ref.qual))
       IN  homes # {} /\ (cols = {} \/ ref.name \in cols)

-----------------------------------------------------------------------------
(* The database *)

(* The sources a reference means: those of the innermost visible scope     *)
(* that has the alias, or has sources with such a column.                  *)
Meant(q, live, i, ref) ==
  LET chain  == Visible(q)[i]
      named(k) == IF ref.qual = Unqualified THEN OwnersOf(q, live, k, ref.name)
                  ELSE {src \in SourcesOf(q, k) : src.as = ref.qual}
      homes  == {n \in DOMAIN chain : named(chain[n]) # {}}
  IN  IF homes = {} THEN {}
      ELSE {src \in named(chain[Min(homes)]) : ref.name \in ColumnsOf(q, live, src)}

(* A name alone in ORDER BY means the output of that name, in GROUP BY if  *)
(* no source here has such a column.  Anywhere else it is an input column. *)
MeansOutput(q, live, i, use) ==
  /\ use.ref.qual = Unqualified /\ use.ref.name \in Named(q, i)
  /\ \/ use.clause = "sort"
     \/ use.clause = "group" /\ OwnersOf(q, live, i, use.ref.name) = {}

InputRefs(q, live, i) == {use.ref : use \in {u \in Uses(q, i) : ~MeansOutput(q, live, i, u)}}

(* The database accepts the statement. *)
Runs(q, live) ==
  /\ ~DuplicateAlias(q)
  /\ TablesOf(q) \subseteq DOMAIN live
  /\ \A i \in Scopes(q) : \A ref \in InputRefs(q, live, i) : Cardinality(Meant(q, live, i, ref)) = 1

(* The table columns one scope reads, and those the whole query reads. *)
ReadIn(q, live, i) ==
  LET tables(srcs) == {src.table : src \in {s \in srcs : s.at = 0}}
      starred == IF q[i].star THEN tables(SourcesOf(q, i)) ELSE {}
  IN  (UNION {tables(Meant(q, live, i, ref)) \X {ref.name} : ref \in InputRefs(q, live, i)})
        \cup (UNION {{table} \X ColumnsIn(live, table) : table \in starred})

ColumnsRead(q, live) ==
  UNION {ReadIn(q, live, i) : i \in Scopes(q)}

-----------------------------------------------------------------------------
(* Where the two agree on names *)

(* The uses that the resolver's scopes still see: after qualify, or those  *)
(* of the raw tree when qualify fails.                                     *)
Seen(q, schema, i, optimizes) ==
  IF optimizes
  THEN {use \in Uses(q, i) :
          /\ ~Replaced(q, schema, i, use)
          /\ ~Hidden(Qualified(q, schema), i, Rewritten(q, schema, i, use))}
  ELSE {use \in Uses(q, i) : ~Hidden(q, i, use)}

(* No column is read only through a name that the optimizer takes for an   *)
(* output (or does not look up) where the database takes it for a column:  *)
(* the scope also uses it in a way that is seen.  Any statement satisfies  *)
(* this whose bare names in HAVING and inside ORDER BY are columns of that *)
(* scope and no output names.                                              *)
NamesAgree(q, schema, optimizes) ==
  \A i \in Scopes(q) : \A ref \in InputRefs(q, schema, i) :
    \E use \in Seen(q, schema, i, optimizes) :
      /\ use.ref.name = ref.name
      /\ Meant(q, schema, i, use.ref) = Meant(q, schema, i, ref)
=============================================================================
