---------------------------- MODULE MCGovernance ----------------------------
(* Queries of one, two and three scopes over two tables c(x, y) and o(x)   *)
(* that share a column name, with two aliases that are used again in inner *)
(* scopes, bare and qualified references, stars, and references that mean  *)
(* nothing; and bare names in every clause, equal to an output name or not.*)
(* One migration brings a third table u and gives o the column y, another  *)
(* drops columns.                                                          *)
EXTENDS Governance, TLC

CONSTANTS c, o, u, x, y, a, b, bare, none

MCInitialSchema == c :> {x, y} @@ o :> {x}
MCMigrations    ==
  {c :> {x, y} @@ o :> {x, y} @@ u :> {x}, c :> {x} @@ o :> {x}}

Policy0 == [allowed |-> {}, deniedTables |-> {}, deniedColumns |-> {}]
MCPolicies ==
  {[Policy0 EXCEPT !.deniedColumns = {<<c, y>>}],
   [Policy0 EXCEPT !.deniedColumns = {<<c, x>>, <<o, y>>}],
   [Policy0 EXCEPT !.deniedColumns = {<<o, x>>}, !.allowed = {c, o}],
   [Policy0 EXCEPT !.deniedTables = {o}],
   [Policy0 EXCEPT !.allowed = {c}]}

Table(as, table) == [as |-> as, table |-> table, at |-> 0]
Derived(as, i)   == [as |-> as, table |-> none, at |-> i]
Scope(parent, closed, sources, body) ==
  [parent |-> parent, closed |-> closed, sources |-> sources,
   select |-> body.select, star |-> body.star, uses |-> body.uses]

Refs == [qual : {bare, a, b}, name : {x, y}]
Star == [select |-> <<>>, star |-> TRUE, uses |-> {}]
Reading(refs, as) == [select |-> <<[as |-> as, reads |-> refs]>>, star |-> FALSE, uses |-> {}]

(* select lists: a star, one reference, which may be renamed, or several *)
Plain  == {Star} \cup {Reading({ref}, ref.name) : ref \in Refs}
Bodies == Plain \cup {Reading({ref}, y) : ref \in Refs}
Wide   == Bodies \cup {Reading({r, s}, x) : r, s \in Refs}
Few    == {Star} \cup {Reading({ref}, y) : ref \in [qual : {bare, a}, name : {x, y}]}

(* one reference in the select list, one in another clause *)
Using(items, refs) ==
  {[Reading({r}, as) EXCEPT !.uses = {Use(clause, ref)}] :
     r \in items, as \in {x, y}, clause \in Clauses \ {"select"}, ref \in refs}
Bare  == {[qual |-> bare, name |-> x], [qual |-> bare, name |-> y]}

(* FROM clauses: tables, and tables beside a derived one *)
From  == {<<Table(a, c)>>, <<Table(a, o)>>, <<Table(a, c), Table(b, o)>>,
          <<Table(a, o), Table(b, c)>>}
Odd   == {<<Table(a, c), Table(a, o)>>, <<Table(a, u)>>, <<Table(a, c), Table(b, c)>>}
One   == {<<Table(a, c)>>, <<Table(a, o)>>}
Over(i) == {<<Derived(a, i)>>, <<Derived(a, i), Table(b, c)>>, <<Table(a, o), Derived(b, i)>>}

OneScope ==
  {<<Scope(0, FALSE, from, body)>> :
     from \in From \cup Odd, body \in Wide}
  \cup
  {<<Scope(0, FALSE, from, body)>> :
     from \in From, body \in Using(Refs, Bare \cup {[qual |-> a, name |-> y]})}

TwoScopes ==
  {<<Scope(2, closed, from, body), Scope(0, FALSE, outer, rest)>> :
     closed \in BOOLEAN, from \in From, body \in Bodies,
     outer \in From \cup Over(1), rest \in Plain}
  \cup
  {<<Scope(2, FALSE, from, body), Scope(0, FALSE, outer, rest)>> :
     from \in One, body \in Using([qual : {a}, name : {x, y}], Bare),
     outer \in {<<Table(b, c)>>, <<Table(a, c)>>, <<Table(a, c), Table(b, o)>>},
     rest \in {Reading({[qual |-> a, name |-> x]}, n) : n \in {x, y}}}
  \cup
  {<<Scope(2, TRUE, from, body), Scope(0, FALSE, <<Derived(b, 1)>>, rest)>> :
     from \in One, body \in Using([qual : {a}, name : {x, y}], Bare),
     rest \in Using({[qual |-> bare, name |-> y]}, Bare)}

(* a scope in a scope in a scope, each open or closed; two scopes in one, a *)
(* subquery beside a derived table; a set operation of two selects          *)
ThreeScopes ==
  {<<Scope(2, c1, f1, b1), Scope(3, c2, f2, b2), Scope(0, FALSE, f3, b3)>> :
     c1, c2 \in BOOLEAN, f1 \in One, b1 \in Few, f2 \in One \cup {<<Derived(b, 1)>>}, b2 \in Few,
     f3 \in {<<Table(b, c)>>, <<Table(b, o), Table(a, c)>>, <<Derived(a, 2)>>}, b3 \in Few}
  \cup
  {<<Scope(3, TRUE, f1, b1), Scope(3, FALSE, f2, b2), Scope(0, FALSE, f3, b3)>> :
     f1 \in One, b1 \in Few, f2 \in One \cup {<<Table(b, o)>>}, b2 \in Few,
     f3 \in {<<Derived(a, 1), Table(b, c)>>, <<Derived(b, 1)>>}, b3 \in Few}
  \cup
  {<<Scope(3, TRUE, f1, b1), Scope(3, TRUE, f2, b2), Scope(0, FALSE, <<>>, [Star EXCEPT !.star = FALSE])>> :
     f1 \in One, b1 \in Few, f2 \in One, b2 \in Few}

(* A closed scope is a source, and an open one is not. *)
Sound(q) ==
  \A i \in Scopes(q) :
    \A src \in SourcesOf(q, i) : src.at # 0 => q[src.at].closed /\ q[src.at].parent = i

Select(q) == [parses |-> TRUE, count |-> 1, root |-> "select", forbidden |-> FALSE, query |-> q]
Plainest  == Select(<<Scope(0, FALSE, <<Table(a, c)>>, Reading({[qual |-> a, name |-> x]}, x))>>)
MCStatements ==
  {Select(q) : q \in {p \in OneScope \cup TwoScopes \cup ThreeScopes : Sound(p)}}
  \cup {[Plainest EXCEPT !.parses = FALSE], [Plainest EXCEPT !.count = 0],
        [Plainest EXCEPT !.count = 2], [Plainest EXCEPT !.root = "insert"],
        [Plainest EXCEPT !.forbidden = TRUE]}
=============================================================================
