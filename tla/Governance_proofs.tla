------------------------- MODULE Governance_proofs -------------------------
(***************************************************************************)
(* What a query that was answered reads, for every query, schema and       *)
(* policy: the columns and tables the policy leaves it.                    *)
(*                                                                         *)
(* The scopes of a query are numbered from the inside out, so what is      *)
(* computed along the parents of a scope, or over the scopes inside it, is *)
(* a recursion over 1 .. Len(q).  A recursive function is a CHOOSE: that   *)
(* what it chooses exists is shown here for each of them, one more scope   *)
(* at a time, as the least number of scopes for which it would not.        *)
(***************************************************************************)
EXTENDS Governance, TLAPS, FiniteSetTheorems, WellFoundedInduction

(* Every non-empty set of naturals has a least element. *)
LEMMA LeastExists ==
  ASSUME NEW S \in SUBSET Nat, S # {}
  PROVE  \E x \in S : \A y \in S : x <= y
<1>1. PICK x \in S : \A y \in S : ~ (<<y, x>> \in OpToRel(<, Nat))
  BY NatLessThanWellFounded, WFMin
<1>2. \A y \in S : ~(y < x)
  BY <1>1 DEF OpToRel
<1>3. S \subseteq Nat /\ x \in Nat
  OBVIOUS
<1>4. \A y \in S : x <= y
  BY <1>2, <1>3
<1> QED
  BY <1>4

(* Min is the least element of a set of naturals. *)
LEMMA MinIsLeast ==
  ASSUME NEW S \in SUBSET Nat, NEW x \in S, \A y \in S : x <= y
  PROVE  Min(S) = x
<1>1. Min(S) = CHOOSE z \in S : \A y \in S : z <= y
  BY DEF Min
<1>2. \A z \in S : (\A y \in S : z <= y) => z = x
  <2> SUFFICES ASSUME NEW z \in S, \A y \in S : z <= y PROVE z = x
    OBVIOUS
  <2>1. z <= x /\ x <= z /\ z \in Nat /\ x \in Nat
    OBVIOUS
  <2> QED
    BY <2>1
<1> QED
  BY <1>1, <1>2

-----------------------------------------------------------------------------
(* Chains of scopes *)

(* the chain of one scope, when those of the scopes around it are known *)
Link(up, f, i)   == IF up[i] = 0 THEN <<i>> ELSE <<i>> \o f[up[i]]
Chains(n, up, f) == f = [i \in 1 .. n |-> Link(up, f, i)]

(* From every scope a chain leads up to one that has nothing above it. *)
LEMMA ChainExists ==
  ASSUME NEW n \in Nat, NEW up,
         \A i \in 1 .. n : up[i] = 0 \/ up[i] \in i + 1 .. n
  PROVE  \E f : Chains(n, up, f)
<1> DEFINE Linked(f, m) == \A i \in 1 .. n : i > n - m => f[i] = Link(up, f, i)
           Bad == {m \in 0 .. n : ~ \E f : Linked(f, m)}
<1>1. ASSUME NEW f, NEW g, NEW i, up[i] # 0 => f[up[i]] = g[up[i]]
      PROVE  Link(up, f, i) = Link(up, g, i)
  BY <1>1 DEF Link
<1>2. CASE Bad = {}
  <2>1. n \in 0 .. n
    OBVIOUS
  <2>2. PICK f : Linked(f, n)
    BY <1>2, <2>1
  <2> DEFINE g == [i \in 1 .. n |-> f[i]]
  <2>3. \A i \in 1 .. n : g[i] = f[i] /\ f[i] = Link(up, f, i)
    BY <2>2
  <2>4. \A i \in 1 .. n : Link(up, f, i) = Link(up, g, i)
    BY <1>1, <2>3
  <2>5. g = [i \in 1 .. n |-> Link(up, g, i)]
    BY <2>3, <2>4
  <2> QED
    BY <2>5 DEF Chains
<1>3. CASE Bad # {}
  <2>1. Bad \in SUBSET Nat
    OBVIOUS
  <2>2. PICK m \in Bad : \A y \in Bad : m <= y
    BY <1>3, <2>1, LeastExists
  <2>3. m \in 0 .. n /\ ~ \E f : Linked(f, m)
    OBVIOUS
  <2>4. m # 0
    <3>1. Linked(<<>>, 0)
      OBVIOUS
    <3> QED
      BY <2>3, <3>1
  <2>5. m - 1 \in 0 .. n /\ m - 1 \notin Bad
    BY <2>2, <2>3, <2>4
  <2>6. PICK f : Linked(f, m - 1)
    BY <2>5
  <2> DEFINE k == n - m + 1
             g == [i \in 1 .. n |-> IF i = k THEN Link(up, f, i) ELSE f[i]]
  <2>7. k \in 1 .. n /\ n - (m - 1) = k
    BY <2>3, <2>4
  <2>8. ASSUME NEW i \in 1 .. n, i > n - m
        PROVE  g[i] = Link(up, g, i)
    <3>1. i >= k
      BY <2>3, <2>8
    <3>2. up[i] # 0 => up[i] \in 1 .. n /\ up[i] > k
      BY <3>1, <2>7
    <3>3. up[i] # 0 => f[up[i]] = g[up[i]]
      BY <3>2, <2>7
    <3>4. g[i] = Link(up, f, i)
      <4>1. CASE i = k
        BY <4>1
      <4>2. CASE i # k
        <5>1. i > n - (m - 1)
          BY <2>3, <2>7, <3>1, <4>2
        <5> QED
          BY <2>6, <4>2, <5>1
      <4> QED
        BY <4>1, <4>2
    <3> HIDE DEF g, k
    <3>5. Link(up, f, i) = Link(up, g, i)
      BY <1>1, <3>3
    <3> QED
      BY <3>4, <3>5
  <2>9. Linked(g, m)
    BY <2>8
  <2> QED
    BY <2>3, <2>9
<1> QED
  BY <1>2, <1>3

(* Scopes are numbered from the inside out. *)
Nested(q) ==
  /\ Len(q) \in Nat /\ Scopes(q) = 1 .. Len(q)
  /\ \A i \in Scopes(q) :
       /\ q[i].parent = 0 \/ q[i].parent \in i + 1 .. Len(q)
       /\ q[i].closed \in BOOLEAN

LEMMA Shape == ASSUME NEW q, WellFormed(q) PROVE Nested(q)
<1>1. Scopes(q) = 1 .. Len(q)
  BY DEF WellFormed, Scopes
<1>2. Len(q) \in Nat
  BY DEF WellFormed
<1> QED
  BY <1>1, <1>2 DEF WellFormed, Nested

(* scope, scope.parent, and so on *)
LEMMA AncestryIs ==
  ASSUME NEW q, Nested(q), NEW i \in Scopes(q)
  PROVE  Ancestry(q)[i] = IF q[i].parent = 0 THEN <<i>> ELSE <<i>> \o Ancestry(q)[q[i].parent]
<1> DEFINE Rec(f) == f = [k \in Scopes(q) |->
                            IF q[k].parent = 0 THEN <<k>> ELSE <<k>> \o f[q[k].parent]]
           up == [k \in 1 .. Len(q) |-> q[k].parent]
<1>1. \E f : Chains(Len(q), up, f)
  <2>1. \A k \in 1 .. Len(q) : up[k] = 0 \/ up[k] \in k + 1 .. Len(q)
    BY DEF Nested
  <2> HIDE DEF up
  <2> QED
    BY <2>1, ChainExists DEF Nested
<1>2. \E f : Rec(f)
  BY <1>1 DEF Nested, Chains, Link
<1>3. Ancestry(q) = CHOOSE f : Rec(f)
  BY DEF Ancestry
<1>4. Rec(Ancestry(q))
  BY <1>2, <1>3
<1> QED
  BY <1>4

(* the same up to the first scope that sees nothing of its parent *)
LEMMA VisibleIs ==
  ASSUME NEW q, Nested(q), NEW i \in Scopes(q)
  PROVE  Visible(q)[i] = IF q[i].parent = 0 \/ q[i].closed THEN <<i>>
                         ELSE <<i>> \o Visible(q)[q[i].parent]
<1> DEFINE Rec(f) == f = [k \in Scopes(q) |->
                            IF q[k].parent = 0 \/ q[k].closed THEN <<k>>
                            ELSE <<k>> \o f[q[k].parent]]
           up == [k \in 1 .. Len(q) |-> IF q[k].closed THEN 0 ELSE q[k].parent]
<1>1. \E f : Chains(Len(q), up, f)
  <2>1. \A k \in 1 .. Len(q) : up[k] = 0 \/ up[k] \in k + 1 .. Len(q)
    BY DEF Nested
  <2> HIDE DEF up
  <2> QED
    BY <2>1, ChainExists DEF Nested
<1>2. \E f : Rec(f)
  BY <1>1 DEF Nested, Chains, Link
<1>3. Visible(q) = CHOOSE f : Rec(f)
  BY DEF Visible
<1>4. Rec(Visible(q))
  BY <1>2, <1>3
<1> QED
  BY <1>4

LEMMA ConsIs ==
  ASSUME NEW S, NEW s \in Seq(S), NEW i \in S
  PROVE  /\ <<i>> \o s \in Seq(S) /\ Len(<<i>> \o s) = Len(s) + 1
         /\ (<<i>> \o s)[1] = i
         /\ \A n \in 1 .. Len(s) : (<<i>> \o s)[n + 1] = s[n]
OBVIOUS

(* The chains of a scope start with it, and what it sees is a part of what *)
(* is around it.                                                           *)
Chained(q, i) ==
  LET seen == Visible(q)[i]
      all  == Ancestry(q)[i]
  IN  /\ seen \in Seq(Scopes(q)) /\ all \in Seq(Scopes(q))
      /\ 1 <= Len(seen) /\ Len(seen) <= Len(all)
      /\ seen[1] = i
      /\ \A n \in 1 .. Len(seen) : seen[n] = all[n]

LEMMA ChainOne ==
  ASSUME NEW q, Nested(q), NEW i \in Scopes(q),
         q[i].parent # 0 => Chained(q, q[i].parent)
  PROVE  Chained(q, i)
<1> DEFINE p == q[i].parent
           S == Scopes(q)
           V == Visible(q)[p]
           A == Ancestry(q)[p]
<1>1. <<i>> \in Seq(S) /\ Len(<<i>>) = 1 /\ <<i>>[1] = i
  OBVIOUS
<1>2. CASE p = 0
  <2>1. Visible(q)[i] = <<i>> /\ Ancestry(q)[i] = <<i>>
    BY <1>2, AncestryIs, VisibleIs
  <2> QED
    BY <1>1, <2>1 DEF Chained
<1>3. CASE p # 0
  <2>1. /\ V \in Seq(S) /\ A \in Seq(S) /\ Len(V) <= Len(A)
        /\ \A n \in 1 .. Len(V) : V[n] = A[n]
    BY <1>3 DEF Chained
  <2>2. Ancestry(q)[i] = <<i>> \o A
    BY <1>3, AncestryIs
  <2> HIDE DEF S, V, A
  <2>3. /\ <<i>> \o A \in Seq(S) /\ Len(<<i>> \o A) = Len(A) + 1 /\ (<<i>> \o A)[1] = i
        /\ \A n \in 1 .. Len(A) : (<<i>> \o A)[n + 1] = A[n]
    BY <2>1, ConsIs DEF S
  <2>4. /\ <<i>> \o V \in Seq(S) /\ Len(<<i>> \o V) = Len(V) + 1 /\ (<<i>> \o V)[1] = i
        /\ \A n \in 1 .. Len(V) : (<<i>> \o V)[n + 1] = V[n]
    BY <2>1, ConsIs DEF S
  <2>5. Len(A) \in Nat /\ Len(V) \in Nat
    BY <2>1
  <2>6. CASE q[i].closed
    <3>1. Visible(q)[i] = <<i>>
      BY <2>6, VisibleIs
    <3>2. \A n \in 1 .. 1 : <<i>>[n] = (<<i>> \o A)[n]
      BY <2>3
    <3> QED
      BY <1>1, <2>2, <2>3, <2>5, <3>1, <3>2 DEF Chained, S
  <2>7. CASE ~q[i].closed
    <3>1. Visible(q)[i] = <<i>> \o V
      BY <1>3, <2>7, VisibleIs DEF V
    <3>2. \A n \in 1 .. Len(V) + 1 : (<<i>> \o V)[n] = (<<i>> \o A)[n]
      <4> SUFFICES ASSUME NEW n \in 1 .. Len(V) + 1
                   PROVE  (<<i>> \o V)[n] = (<<i>> \o A)[n]
        OBVIOUS
      <4>1. CASE n = 1
        BY <2>3, <2>4, <4>1
      <4>2. CASE n # 1
        <5>1. n - 1 \in 1 .. Len(V) /\ n - 1 \in 1 .. Len(A) /\ (n - 1) + 1 = n
          BY <2>1, <2>5, <4>2
        <5>2. (<<i>> \o V)[n] = V[n - 1] /\ (<<i>> \o A)[n] = A[n - 1]
          BY <2>3, <2>4, <5>1
        <5> QED
          BY <2>1, <5>1, <5>2
      <4> QED
        BY <4>1, <4>2
    <3> QED
      BY <2>1, <2>2, <2>3, <2>4, <2>5, <3>1, <3>2 DEF Chained, S
  <2> QED
    BY <2>6, <2>7
<1> QED
  BY <1>2, <1>3

LEMMA ChainsAre ==
  ASSUME NEW q, Nested(q)
  PROVE  \A i \in Scopes(q) : Chained(q, i)
<1> DEFINE Bad == {m \in Nat : Len(q) - m \in Scopes(q) /\ ~Chained(q, Len(q) - m)}
<1>1. Len(q) \in Nat /\ Scopes(q) = 1 .. Len(q)
  BY DEF Nested
<1>2. Bad = {}
  <2> SUFFICES ASSUME Bad # {} PROVE FALSE
    OBVIOUS
  <2>1. Bad \in SUBSET Nat
    OBVIOUS
  <2>2. PICK m \in Bad : \A y \in Bad : m <= y
    BY <2>1, LeastExists
  <2> DEFINE i == Len(q) - m
             p == q[i].parent
  <2>3. m \in Nat /\ i \in Scopes(q) /\ ~Chained(q, i)
    OBVIOUS
  <2>4. CASE p = 0
    BY <2>3, <2>4, ChainOne
  <2>5. CASE p # 0
    <3>1. p \in i + 1 .. Len(q)
      BY <2>3, <2>5 DEF Nested
    <3>2. /\ Len(q) - p \in Nat /\ Len(q) - p < m
          /\ Len(q) - (Len(q) - p) = p /\ p \in Scopes(q)
      BY <1>1, <2>3, <3>1
    <3>3. Len(q) - p \notin Bad
      BY <2>2, <2>3, <3>2
    <3>4. Chained(q, p)
      BY <3>2, <3>3
    <3> QED
      BY <2>3, <3>4, ChainOne
  <2> QED
    BY <2>4, <2>5
<1>3. ASSUME NEW i \in Scopes(q) PROVE Chained(q, i)
  <2>1. Len(q) - i \in Nat /\ Len(q) - (Len(q) - i) = i
    BY <1>1
  <2> QED
    BY <1>2, <2>1
<1> QED
  BY <1>3

-----------------------------------------------------------------------------
(* What each scope is asked for *)

(* the columns of one scope, when those of the scopes inside it are known *)
Gathered(q, f, i) ==
  {use \in Uses(q, i) \cup
          UNION {{u \in f[k] : u.ref.qual \notin Aliases(q, k)} :
                   k \in {n \in Scopes(q) : q[n].parent = i /\ ~q[n].closed}} :
     ~Hidden(q, i, use)}

LEMMA ColumnsExist ==
  ASSUME NEW q, Nested(q)
  PROVE  \E f : f = [i \in Scopes(q) |-> Gathered(q, f, i)]
<1> DEFINE n == Len(q)
           Done(f, m) == \A i \in 1 .. n : i <= m => f[i] = Gathered(q, f, i)
           Bad == {m \in 0 .. n : ~ \E f : Done(f, m)}
<1>1. n \in Nat /\ Scopes(q) = 1 .. n
  BY DEF Nested
<1>2. ASSUME NEW f, NEW g, NEW i \in Scopes(q),
             \A k \in Scopes(q) : q[k].parent = i => f[k] = g[k]
      PROVE  Gathered(q, f, i) = Gathered(q, g, i)
  <2>1. \A k \in {x \in Scopes(q) : q[x].parent = i /\ ~q[x].closed} : f[k] = g[k]
    BY <1>2
  <2>2. \A use : use \in Gathered(q, f, i) <=>
          /\ ~Hidden(q, i, use)
          /\ \/ use \in Uses(q, i)
             \/ \E k \in {x \in Scopes(q) : q[x].parent = i /\ ~q[x].closed} :
                  use \in f[k] /\ use.ref.qual \notin Aliases(q, k)
    BY DEF Gathered
  <2>3. \A use : use \in Gathered(q, g, i) <=>
          /\ ~Hidden(q, i, use)
          /\ \/ use \in Uses(q, i)
             \/ \E k \in {x \in Scopes(q) : q[x].parent = i /\ ~q[x].closed} :
                  use \in g[k] /\ use.ref.qual \notin Aliases(q, k)
    BY DEF Gathered
  <2>4. \A use : use \in Gathered(q, f, i) <=> use \in Gathered(q, g, i)
    BY <2>1, <2>2, <2>3
  <2>5. Gathered(q, f, i) = UNION {Gathered(q, f, i)} /\ Gathered(q, g, i) = UNION {Gathered(q, g, i)}
    OBVIOUS
  <2> QED
    BY <2>4, <2>5
<1>3. \A k \in Scopes(q), i \in Scopes(q) : q[k].parent = i => k < i
  BY DEF Nested
<1> HIDE DEF n
<1>4. CASE Bad = {}
  <2>1. n \in 0 .. n
    BY <1>1
  <2>2. PICK f : Done(f, n)
    BY <1>4, <2>1
  <2> DEFINE g == [i \in Scopes(q) |-> f[i]]
  <2>3. \A i \in Scopes(q) : g[i] = f[i] /\ f[i] = Gathered(q, f, i)
    BY <1>1, <2>2
  <2>4. \A i \in Scopes(q) : Gathered(q, f, i) = Gathered(q, g, i)
    BY <1>2, <2>3
  <2>5. g = [i \in Scopes(q) |-> Gathered(q, g, i)]
    BY <2>3, <2>4
  <2> QED
    BY <2>5
<1>5. CASE Bad # {}
  <2>1. Bad \in SUBSET Nat
    BY <1>1
  <2>2. PICK m \in Bad : \A y \in Bad : m <= y
    BY <1>5, <2>1, LeastExists
  <2>3. m \in 0 .. n /\ ~ \E f : Done(f, m)
    OBVIOUS
  <2>4. m # 0
    <3>1. Done(<<>>, 0)
      BY <1>1
    <3> QED
      BY <2>3, <3>1
  <2>5. m - 1 \in 0 .. n /\ m - 1 \notin Bad /\ m \in Scopes(q)
    BY <1>1, <2>2, <2>3, <2>4
  <2>6. PICK f : Done(f, m - 1)
    BY <2>5
  <2> DEFINE g == [i \in 1 .. n |-> IF i = m THEN Gathered(q, f, i) ELSE f[i]]
  <2>7. ASSUME NEW i \in 1 .. n, i <= m
        PROVE  g[i] = Gathered(q, g, i)
    <3>1. \A k \in Scopes(q) : q[k].parent = i => f[k] = g[k]
      BY <1>1, <1>3, <2>3, <2>7
    <3>2. g[i] = Gathered(q, f, i)
      <4>1. CASE i = m
        BY <4>1
      <4>2. CASE i # m
        <5>1. i <= m - 1
          BY <1>1, <2>3, <2>7, <4>2
        <5> QED
          BY <2>6, <4>2, <5>1
      <4> QED
        BY <4>1, <4>2
    <3> HIDE DEF g
    <3>3. Gathered(q, f, i) = Gathered(q, g, i)
      BY <1>1, <1>2, <3>1
    <3> QED
      BY <3>2, <3>3
  <2>8. Done(g, m)
    BY <2>7
  <2> QED
    BY <2>3, <2>8
<1> QED
  BY <1>4, <1>5

LEMMA ColumnsIs ==
  ASSUME NEW q, Nested(q), NEW i \in Scopes(q)
  PROVE  Columns(q)[i] = Gathered(q, Columns(q), i)
<1> DEFINE Rec(f) == f = [k \in Scopes(q) |-> Gathered(q, f, k)]
<1>1. \E f : Rec(f)
  BY ColumnsExist
<1>2. Columns(q) = CHOOSE f : Rec(f)
  BY DEF Columns, Gathered
<1>3. Rec(Columns(q))
  BY <1>1, <1>2
<1> QED
  BY <1>3

(* A scope is asked for the references of its own that are not hidden. *)
LEMMA OwnAreColumns ==
  ASSUME NEW q, Nested(q), NEW i \in Scopes(q), NEW ref \in OwnReads(q, i)
  PROVE  \E use \in Columns(q)[i] : use.ref = ref
<1>1. Columns(q)[i] = Gathered(q, Columns(q), i)
  BY ColumnsIs
<1>2. PICK use \in Uses(q, i) : ~Hidden(q, i, use) /\ use.ref = ref
  BY DEF OwnReads
<1>3. use \in Gathered(q, Columns(q), i)
  BY <1>2 DEF Gathered
<1> QED
  BY <1>1, <1>2, <1>3

(* A use is a clause and a reference, a reference a qualifier and a name.  *)
LEMMA UsesAre ==
  ASSUME NEW q, WellFormed(q), NEW i \in Scopes(q), NEW use \in Uses(q, i)
  PROVE  /\ use = Use(use.clause, use.ref)
         /\ use.ref = [qual |-> use.ref.qual, name |-> use.ref.name]
<1>1. PICK r : r = [qual |-> use.ref.qual, name |-> use.ref.name]
  OBVIOUS
<1>2. use = Use(use.clause, r)
  BY <1>1 DEF WellFormed
<1>3. Use(use.clause, r).ref = r
  BY DEF Use
<1>4. use.ref = r
  BY <1>2, <1>3
<1> QED
  BY <1>1, <1>2, <1>4

(* No reference of a select list is hidden or replaced. *)
LEMMA SelectUses ==
  ASSUME NEW q, NEW i, NEW ref \in SelectReads(q, i)
  PROVE  /\ Use("select", ref) \in Uses(q, i)
         /\ ~Hidden(q, i, Use("select", ref))
         /\ ref \in OwnReads(q, i)
<1>1. PICK use : use = Use("select", ref)
  OBVIOUS
<1>2. use.clause = "select" /\ use.ref = ref
  BY <1>1 DEF Use
<1>3. use \in Uses(q, i)
  BY <1>1 DEF Uses
<1>4. ~Hidden(q, i, use)
  BY <1>2 DEF Hidden, TakenForOutput
<1>5. ref \in OwnReads(q, i)
  BY <1>2, <1>3, <1>4 DEF OwnReads
<1> QED
  BY <1>1, <1>3, <1>4, <1>5

-----------------------------------------------------------------------------
(* Sequences *)

LEMMA ElementsFinite ==
  ASSUME NEW T, NEW s \in Seq(T)
  PROVE  /\ IsFiniteSet(ToSet(s))
         /\ Cardinality(ToSet(s)) <= Len(s)
         /\ \A e : e \in ToSet(s) <=> \E n \in 1 .. Len(s) : e = s[n]
<1>1. Len(s) \in Nat /\ DOMAIN s = 1 .. Len(s)
  OBVIOUS
<1>2. \A e : e \in ToSet(s) <=> \E n \in 1 .. Len(s) : e = s[n]
  BY <1>1 DEF ToSet
<1>3. IsFiniteSet(1 .. Len(s)) /\ Cardinality(1 .. Len(s)) = Len(s)
  <2>1. /\ IsFiniteSet(1 .. Len(s))
        /\ Cardinality(1 .. Len(s)) = IF 1 > Len(s) THEN 0 ELSE Len(s) - 1 + 1
    BY <1>1, FS_Interval
  <2> QED
    BY <1>1, <2>1
<1>4. s \in Surjection(1 .. Len(s), ToSet(s))
  BY <1>1, <1>2 DEF Surjection
<1>5. IsFiniteSet(ToSet(s)) /\ Cardinality(ToSet(s)) <= Cardinality(1 .. Len(s))
  BY <1>3, <1>4, FS_Surjection
<1> QED
  BY <1>2, <1>3, <1>5

(* SetToSeq loses no element of a finite set. *)
LEMMA SetToSeqIs ==
  ASSUME NEW S, IsFiniteSet(S)
  PROVE  SetToSeq(S) \in Seq(S) /\ \A e \in S : \E n \in 1 .. Len(SetToSeq(S)) : SetToSeq(S)[n] = e
<1> DEFINE c == Cardinality(S)
           s == SetToSeq(S)
<1>1. c \in Nat /\ ExistsBijection(1 .. c, S)
  BY FS_CardinalityType
<1>2. \E f \in [1 .. c -> S] : IsInjective(f)
  BY <1>1 DEF ExistsBijection, Bijection, Injection
<1>3. s \in [1 .. c -> S] /\ IsInjective(s)
  BY <1>2 DEF SetToSeq
<1> HIDE DEF s, c
<1>4. s \in Injection(1 .. c, S)
  BY <1>3 DEF Injection
<1>5. IsFiniteSet(1 .. c) /\ Cardinality(1 .. c) = c
  <2>1. /\ IsFiniteSet(1 .. c)
        /\ Cardinality(1 .. c) = IF 1 > c THEN 0 ELSE c - 1 + 1
    BY <1>1, FS_Interval
  <2> QED
    BY <1>1, <2>1
<1>6. s \in Surjection(1 .. c, S)
  BY <1>4, <1>5, FS_Injection DEF c
<1>7. \A e \in S : \E n \in 1 .. c : s[n] = e
  BY <1>6 DEF Surjection
<1>8. s \in Seq(S) /\ Len(s) = c
  BY <1>1, <1>3
<1> QED
  BY <1>7, <1>8 DEF s

(* the n-th concatenation *)
Glue(seqs, f, n)   == IF n = 1 THEN seqs[n] ELSE f[n - 1] \o seqs[n]
Glued(seqs, f)     == f = [n \in 1 .. Len(seqs) |-> Glue(seqs, f, n)]

LEMMA GluedExists ==
  ASSUME NEW seqs, Len(seqs) \in Nat
  PROVE  \E f : Glued(seqs, f)
<1> DEFINE n == Len(seqs)
           Done(f, m) == \A i \in 1 .. n : i <= m => f[i] = Glue(seqs, f, i)
           Bad == {m \in 0 .. n : ~ \E f : Done(f, m)}
<1>1. ASSUME NEW f, NEW g, NEW i, i # 1 => f[i - 1] = g[i - 1]
      PROVE  Glue(seqs, f, i) = Glue(seqs, g, i)
  BY <1>1 DEF Glue
<1> HIDE DEF n
<1>2. CASE Bad = {}
  <2>1. n \in 0 .. n
    BY DEF n
  <2>2. PICK f : Done(f, n)
    BY <1>2, <2>1
  <2> DEFINE g == [i \in 1 .. n |-> f[i]]
  <2>3. \A i \in 1 .. n : g[i] = f[i] /\ f[i] = Glue(seqs, f, i)
    BY <2>2, <2>1
  <2>4. \A i \in 1 .. n : i # 1 => f[i - 1] = g[i - 1]
    BY <2>1
  <2>5. \A i \in 1 .. n : Glue(seqs, f, i) = Glue(seqs, g, i)
    BY <1>1, <2>4
  <2>6. g = [i \in 1 .. n |-> Glue(seqs, g, i)]
    BY <2>3, <2>5
  <2> QED
    BY <2>6 DEF Glued, n
<1>3. CASE Bad # {}
  <2>1. Bad \in SUBSET Nat
    BY DEF n
  <2>2. PICK m \in Bad : \A y \in Bad : m <= y
    BY <1>3, <2>1, LeastExists
  <2>3. m \in 0 .. n /\ ~ (\E f : Done(f, m)) /\ n \in Nat
    BY DEF n
  <2>4. m # 0
    <3>1. Done(<<>>, 0)
      BY <2>3
    <3> QED
      BY <2>3, <3>1
  <2>5. m - 1 \in 0 .. n /\ ~(m <= m - 1)
    BY <2>3, <2>4
  <2>6. PICK f : Done(f, m - 1)
    BY <2>2, <2>5
  <2> DEFINE g == [i \in 1 .. n |-> IF i = m THEN Glue(seqs, f, i) ELSE f[i]]
  <2>7. ASSUME NEW i \in 1 .. n, i <= m
        PROVE  g[i] = Glue(seqs, g, i)
    <3>1. i # 1 => f[i - 1] = g[i - 1]
      BY <2>3, <2>7
    <3>2. g[i] = Glue(seqs, f, i)
      <4>1. CASE i = m
        BY <4>1
      <4>2. CASE i # m
        <5>1. i <= m - 1
          BY <2>3, <2>7, <4>2
        <5> QED
          BY <2>6, <4>2, <5>1
      <4> QED
        BY <4>1, <4>2
    <3> HIDE DEF g
    <3>3. Glue(seqs, f, i) = Glue(seqs, g, i)
      BY <1>1, <3>1
    <3> QED
      BY <3>2, <3>3
  <2>8. Done(g, m)
    BY <2>7
  <2> QED
    BY <2>3, <2>8
<1> QED
  BY <1>2, <1>3

LEMMA ConcatHas ==
  ASSUME NEW T, NEW s \in Seq(T), NEW t \in Seq(T)
  PROVE  s \o t \in Seq(T) /\ ToSet(s \o t) = ToSet(s) \cup ToSet(t)
<1>1. PICK u \in Seq(T) : u = s \o t
  <2>1. s \o t \in Seq(T)
    OBVIOUS
  <2> QED
    BY <2>1, Zenon
<1>2. /\ Len(u) = Len(s) + Len(t) /\ Len(s) \in Nat /\ Len(t) \in Nat
      /\ \A n \in 1 .. Len(s) : u[n] = s[n]
      /\ \A n \in 1 .. Len(t) : u[Len(s) + n] = t[n]
  BY <1>1
<1>3. ASSUME NEW e \in ToSet(u) PROVE e \in ToSet(s) \cup ToSet(t)
  <2>1. PICK n \in 1 .. Len(u) : e = u[n]
    BY ElementsFinite
  <2>2. CASE n <= Len(s)
    <3>1. n \in 1 .. Len(s) /\ e = s[n]
      BY <1>2, <2>1, <2>2
    <3> QED
      BY <3>1, ElementsFinite
  <2>3. CASE n > Len(s)
    <3>1. n - Len(s) \in 1 .. Len(t) /\ Len(s) + (n - Len(s)) = n
      BY <1>2, <2>3
    <3>2. e = t[n - Len(s)]
      BY <1>2, <2>1, <3>1
    <3> QED
      BY <3>1, <3>2, ElementsFinite
  <2> QED
    BY <1>2, <2>2, <2>3
<1>4. ASSUME NEW e \in ToSet(s) PROVE e \in ToSet(u)
  <2>1. PICK n \in 1 .. Len(s) : e = s[n]
    BY ElementsFinite
  <2>2. n \in 1 .. Len(u) /\ e = u[n]
    BY <1>2, <2>1
  <2> QED
    BY <2>2, ElementsFinite
<1>5. ASSUME NEW e \in ToSet(t) PROVE e \in ToSet(u)
  <2>1. PICK n \in 1 .. Len(t) : e = t[n]
    BY ElementsFinite
  <2>2. Len(s) + n \in 1 .. Len(u) /\ e = u[Len(s) + n]
    BY <1>2, <2>1
  <2> QED
    BY <2>2, ElementsFinite
<1> QED
  BY <1>1, <1>3, <1>4, <1>5

(* Flattening loses no element. *)
LEMMA FlattenIs ==
  ASSUME NEW T, NEW seqs \in Seq(Seq(T))
  PROVE  /\ FlattenSeq(seqs) \in Seq(T)
         /\ \A k \in 1 .. Len(seqs) : ToSet(seqs[k]) \subseteq ToSet(FlattenSeq(seqs))
<1>1. Len(seqs) \in Nat /\ \A k \in 1 .. Len(seqs) : seqs[k] \in Seq(T)
  OBVIOUS
<1>2. CASE Len(seqs) = 0
  <2>1. seqs = <<>> /\ <<>> \in Seq(T)
    BY <1>2
  <2>2. FlattenSeq(seqs) = seqs
    BY <1>2 DEF FlattenSeq
  <2>3. FlattenSeq(seqs) \in Seq(T)
    BY <2>1, <2>2
  <2>4. 1 .. Len(seqs) = {}
    BY <1>2
  <2> QED
    BY <2>3, <2>4
<1>3. CASE Len(seqs) # 0
  <2> DEFINE F == CHOOSE f : Glued(seqs, f)
             Ok(m) == /\ F[m] \in Seq(T)
                      /\ \A k \in 1 .. m : ToSet(seqs[k]) \subseteq ToSet(F[m])
             Bad == {m \in 1 .. Len(seqs) : ~Ok(m)}
  <2>1. Glued(seqs, F)
    BY <1>1, GluedExists
  <2>2. FlattenSeq(seqs) = F[Len(seqs)]
    BY <1>3 DEF FlattenSeq, Glued, Glue
  <2>3. \A m \in 1 .. Len(seqs) : F[m] = IF m = 1 THEN seqs[m] ELSE F[m - 1] \o seqs[m]
    BY <2>1 DEF Glued, Glue
  <2> HIDE DEF F
  <2>4. ASSUME Bad # {} PROVE FALSE
    <3>1. Bad \in SUBSET Nat
      OBVIOUS
    <3>2. PICK m \in Bad : \A y \in Bad : m <= y
      BY <2>4, <3>1, LeastExists
    <3>3. m \in 1 .. Len(seqs) /\ ~Ok(m)
      OBVIOUS
    <3>4. CASE m = 1
      <4>1. F[m] = seqs[1]
        BY <2>3, <3>3, <3>4
      <4>2. \A k \in 1 .. m : k = 1
        BY <3>4
      <4> QED
        BY <1>1, <3>3, <3>4, <4>1, <4>2
    <3>5. CASE m # 1
      <4>1. m - 1 \in 1 .. Len(seqs) /\ ~(m <= m - 1)
        BY <1>1, <3>3, <3>5
      <4>2. Ok(m - 1)
        BY <3>2, <4>1
      <4>3. F[m] = F[m - 1] \o seqs[m]
        BY <2>3, <3>3, <3>5
      <4>4. F[m - 1] \in Seq(T) /\ seqs[m] \in Seq(T)
        BY <1>1, <3>3, <4>2
      <4>5. F[m] \in Seq(T) /\ ToSet(F[m]) = ToSet(F[m - 1]) \cup ToSet(seqs[m])
        BY <4>3, <4>4, ConcatHas
      <4>6. \A k \in 1 .. m : k = m \/ k \in 1 .. m - 1
        BY <3>3
      <4>7. \A k \in 1 .. m : ToSet(seqs[k]) \subseteq ToSet(F[m])
        BY <4>2, <4>5, <4>6
      <4> QED
        BY <3>3, <4>5, <4>7
    <3> QED
      BY <3>4, <3>5
  <2>5. Ok(Len(seqs))
    <3>1. Len(seqs) \in 1 .. Len(seqs)
      BY <1>1, <1>3
    <3> QED
      BY <2>4, <3>1
  <2> QED
    BY <2>2, <2>5
<1> QED
  BY <1>2, <1>3

LEMMA ImageFinite ==
  ASSUME NEW S, IsFiniteSet(S), NEW f
  PROVE  IsFiniteSet({f[x] : x \in S})
<1> DEFINE T == {f[x] : x \in S}
           g == [x \in S |-> f[x]]
<1>1. g \in Surjection(S, T)
  BY DEF Surjection
<1> QED
  BY <1>1, FS_Surjection

-----------------------------------------------------------------------------
(* What each scope offers *)

FiniteSchema(known) ==
  /\ IsFiniteSet(DOMAIN known)
  /\ \A table \in DOMAIN known : IsFiniteSet(known[table])

(* the names of one scope, when those of the scopes inside it are known *)
Offer(q, known, f, src) == IF src.at = 0 THEN ColumnsIn(known, src.table) ELSE f[src.at]
Offered(q, known, f, i) ==
  Named(q, i) \cup
  IF ~q[i].star THEN {} ELSE UNION {Offer(q, known, f, src) : src \in SourcesOf(q, i)}

LEMMA SourcesAre ==
  ASSUME NEW q, WellFormed(q), NEW i \in Scopes(q)
  PROVE  /\ IsFiniteSet(SourcesOf(q, i)) /\ IsFiniteSet(ToSet(q[i].select))
         /\ q[i].sources \in Seq(SourcesOf(q, i)) /\ q[i].select \in Seq(ToSet(q[i].select))
         /\ \A src \in SourcesOf(q, i) :
              /\ src.as # Unqualified
              /\ src.at # 0 => src.at \in Scopes(q) /\ src.at < i
<1>1. /\ q[i].sources \in Seq(SourcesOf(q, i)) /\ q[i].select \in Seq(ToSet(q[i].select))
      /\ \A src \in SourcesOf(q, i) :
           /\ src.as # Unqualified
           /\ src.at # 0 => src.at \in 1 .. i - 1
  BY DEF WellFormed
<1>2. IsFiniteSet(SourcesOf(q, i))
  BY <1>1, ElementsFinite DEF SourcesOf
<1>3. IsFiniteSet(ToSet(q[i].select))
  BY <1>1, ElementsFinite
<1>4. Scopes(q) = 1 .. Len(q) /\ Len(q) \in Nat
  BY Shape DEF Nested
<1>5. \A src \in SourcesOf(q, i) : src.at # 0 => src.at \in Scopes(q) /\ src.at < i
  BY <1>1, <1>4
<1> QED
  BY <1>1, <1>2, <1>3, <1>5

LEMMA OutputsExist ==
  ASSUME NEW q, WellFormed(q), NEW known
  PROVE  \E f : f = [i \in Scopes(q) |-> Offered(q, known, f, i)]
<1> DEFINE n == Len(q)
           Done(f, m) == \A i \in 1 .. n : i <= m => f[i] = Offered(q, known, f, i)
           Bad == {m \in 0 .. n : ~ \E f : Done(f, m)}
<1>1. n \in Nat /\ Scopes(q) = 1 .. n
  BY Shape DEF Nested
<1>2. ASSUME NEW f, NEW g, NEW i \in Scopes(q),
             \A k \in Scopes(q) : k < i => f[k] = g[k]
      PROVE  Offered(q, known, f, i) = Offered(q, known, g, i)
  <2>1. \A src \in SourcesOf(q, i) : Offer(q, known, f, src) = Offer(q, known, g, src)
    BY <1>2, SourcesAre DEF Offer
  <2> QED
    BY <2>1 DEF Offered
<1> HIDE DEF n
<1>3. CASE Bad = {}
  <2>1. n \in 0 .. n
    BY <1>1
  <2>2. PICK f : Done(f, n)
    BY <1>3, <2>1
  <2> DEFINE g == [i \in Scopes(q) |-> f[i]]
  <2>3. \A i \in Scopes(q) : g[i] = f[i] /\ f[i] = Offered(q, known, f, i)
    BY <1>1, <2>2
  <2>4. \A i \in Scopes(q) : Offered(q, known, f, i) = Offered(q, known, g, i)
    BY <1>2, <2>3
  <2>5. g = [i \in Scopes(q) |-> Offered(q, known, g, i)]
    BY <2>3, <2>4
  <2> QED
    BY <2>5
<1>4. CASE Bad # {}
  <2>1. Bad \in SUBSET Nat
    BY <1>1
  <2>2. PICK m \in Bad : \A y \in Bad : m <= y
    BY <1>4, <2>1, LeastExists
  <2>3. m \in 0 .. n /\ ~ \E f : Done(f, m)
    OBVIOUS
  <2>4. m # 0
    <3>1. Done(<<>>, 0)
      BY <1>1
    <3> QED
      BY <2>3, <3>1
  <2>5. m - 1 \in 0 .. n /\ ~(m <= m - 1) /\ m \in Scopes(q)
    BY <1>1, <2>3, <2>4
  <2>6. PICK f : Done(f, m - 1)
    BY <2>2, <2>5
  <2> DEFINE g == [i \in 1 .. n |-> IF i = m THEN Offered(q, known, f, i) ELSE f[i]]
  <2>7. ASSUME NEW i \in 1 .. n, i <= m
        PROVE  g[i] = Offered(q, known, g, i)
    <3>1. \A k \in Scopes(q) : k < i => f[k] = g[k]
      BY <1>1, <2>3, <2>7
    <3>2. g[i] = Offered(q, known, f, i)
      <4>1. CASE i = m
        BY <4>1
      <4>2. CASE i # m
        <5>1. i <= m - 1
          BY <1>1, <2>3, <2>7, <4>2
        <5> QED
          BY <2>6, <4>2, <5>1
      <4> QED
        BY <4>1, <4>2
    <3> HIDE DEF g
    <3>3. Offered(q, known, f, i) = Offered(q, known, g, i)
      BY <1>1, <1>2, <3>1
    <3> QED
      BY <3>2, <3>3
  <2>8. Done(g, m)
    BY <2>7
  <2> QED
    BY <2>3, <2>8
<1> QED
  BY <1>3, <1>4

(* A scope offers finitely many names. *)
LEMMA OutputsFinite ==
  ASSUME NEW q, WellFormed(q), NEW known, FiniteSchema(known)
  PROVE  \A i \in Scopes(q) : IsFiniteSet(Outputs(q, known)[i])
<1> DEFINE Rec(f) == f = [k \in Scopes(q) |-> Offered(q, known, f, k)]
           F == CHOOSE f : Rec(f)
           Bad == {m \in Scopes(q) : ~IsFiniteSet(F[m])}
<1>1. \E f : Rec(f)
  BY OutputsExist
<1>2. Outputs(q, known) = F
  BY DEF Outputs, Offered, Offer
<1>3. Rec(F)
  BY <1>1
<1>4. \A i \in Scopes(q) : F[i] = Offered(q, known, F, i)
  BY <1>3
<1> HIDE DEF F
<1>5. Scopes(q) \in SUBSET Nat
  BY Shape DEF Nested
<1>6. ASSUME Bad # {} PROVE FALSE
  <2>1. Bad \in SUBSET Nat
    BY <1>5
  <2>2. PICK m \in Bad : \A y \in Bad : m <= y
    BY <1>6, <2>1, LeastExists
  <2>3. m \in Scopes(q) /\ ~IsFiniteSet(F[m]) /\ m \in Nat
    BY <1>5
  <2>4. \A k \in Scopes(q) : k < m => IsFiniteSet(F[k])
    BY <1>5, <2>2, <2>3
  <2>5. IsFiniteSet({item.as : item \in ToSet(q[m].select)})
    <3> DEFINE g == [item \in ToSet(q[m].select) |-> item.as]
    <3>1. IsFiniteSet({g[item] : item \in ToSet(q[m].select)})
      <4> HIDE DEF g
      <4> QED
        BY <2>3, SourcesAre, ImageFinite
    <3>2. {g[item] : item \in ToSet(q[m].select)} = {item.as : item \in ToSet(q[m].select)}
      OBVIOUS
    <3> QED
      BY <3>1, <3>2
  <2>6. IsFiniteSet(UNION {Offer(q, known, F, src) : src \in SourcesOf(q, m)})
    <3> DEFINE g == [src \in SourcesOf(q, m) |-> Offer(q, known, F, src)]
    <3>1. IsFiniteSet({g[src] : src \in SourcesOf(q, m)})
      <4> HIDE DEF g
      <4> QED
        BY <2>3, SourcesAre, ImageFinite
    <3>2. {g[src] : src \in SourcesOf(q, m)} = {Offer(q, known, F, src) : src \in SourcesOf(q, m)}
      OBVIOUS
    <3>3. \A src \in SourcesOf(q, m) : IsFiniteSet(Offer(q, known, F, src))
      BY <2>3, <2>4, SourcesAre, FS_EmptySet DEF Offer, ColumnsIn, FiniteSchema
    <3>4. \A T \in {g[src] : src \in SourcesOf(q, m)} : IsFiniteSet(T)
      BY <3>3
    <3> HIDE DEF g
    <3>5. IsFiniteSet(UNION {g[src] : src \in SourcesOf(q, m)})
      BY <3>1, <3>4, FS_UNION
    <3> QED
      BY <3>2, <3>5
  <2>7. IsFiniteSet(Offered(q, known, F, m))
    <3> DEFINE N == {item.as : item \in ToSet(q[m].select)}
               U == UNION {Offer(q, known, F, src) : src \in SourcesOf(q, m)}
    <3>1. Offered(q, known, F, m) = N \cup (IF ~q[m].star THEN {} ELSE U)
      BY DEF Offered, Named
    <3> HIDE DEF N, U
    <3>2. IsFiniteSet(N) /\ IsFiniteSet(U)
      BY <2>5, <2>6 DEF N, U
    <3>3. IsFiniteSet(N \cup U) /\ IsFiniteSet(N \cup {})
      BY <3>2, FS_EmptySet, FS_Union
    <3> QED
      BY <3>1, <3>3
  <2> QED
    BY <1>4, <2>3, <2>7
<1> QED
  BY <1>2, <1>6

-----------------------------------------------------------------------------
(* What qualify makes of a query *)

BoundItems(q, known, i) ==
  [n \in DOMAIN q[i].select |->
     [q[i].select[n] EXCEPT !.reads = {Bound(q, known, i, Use("select", r)) : r \in @}]]

BoundUses(q, known, i) ==
  {Rewritten(q, known, i, use) : use \in {u \in q[i].uses : ~Replaced(q, known, i, u)}}

StarredItems(q, known, i) == BoundItems(q, known, i) \o StarItems(q, known, i)

(* Nothing but the references and the star of a scope changes. *)
LEMMA QualifiedFields ==
  ASSUME NEW q, WellFormed(q), NEW known, NEW i \in Scopes(q)
  PROVE  /\ Qualified(q, known)[i].parent = q[i].parent
         /\ Qualified(q, known)[i].closed = q[i].closed
         /\ Qualified(q, known)[i].sources = q[i].sources
         /\ Qualified(q, known)[i].uses = BoundUses(q, known, i)
         /\ ~Expandable(q, known, i) =>
              /\ Qualified(q, known)[i].select = BoundItems(q, known, i)
              /\ Qualified(q, known)[i].star = q[i].star
         /\ Expandable(q, known, i) =>
              /\ Qualified(q, known)[i].select = StarredItems(q, known, i)
              /\ ~Qualified(q, known)[i].star
<1> DEFINE Q == Qualified(q, known)
           After == IF Expandable(q, known, i)
                    THEN [q[i] EXCEPT !.select = StarredItems(q, known, i),
                                      !.star = FALSE, !.uses = BoundUses(q, known, i)]
                    ELSE [q[i] EXCEPT !.select = BoundItems(q, known, i),
                                      !.uses = BoundUses(q, known, i)]
<1>1. Q[i] = After
  BY DEF Qualified, BoundItems, BoundUses, StarredItems
<1>2. q[i] = [parent |-> q[i].parent, closed |-> q[i].closed, sources |-> q[i].sources,
              select |-> q[i].select, star |-> q[i].star, uses |-> q[i].uses]
  BY DEF WellFormed
<1>3. PICK r, B, S, U : r = q[i] /\ B = BoundItems(q, known, i) /\ U = BoundUses(q, known, i)
                          /\ S = StarredItems(q, known, i)
  OBVIOUS
<1>4. r = [parent |-> r.parent, closed |-> r.closed, sources |-> r.sources,
           select |-> r.select, star |-> r.star, uses |-> r.uses]
  BY <1>2, <1>3
<1>5. After = IF Expandable(q, known, i) THEN [r EXCEPT !.select = S, !.star = FALSE, !.uses = U]
              ELSE [r EXCEPT !.select = B, !.uses = U]
  BY <1>3
<1> HIDE DEF Q, After
<1>6. CASE Expandable(q, known, i)
  <2>1. PICK t : t = [r EXCEPT !.select = S, !.star = FALSE, !.uses = U] /\ t = After
    BY <1>5, <1>6
  <2>2. /\ t.parent = r.parent /\ t.closed = r.closed /\ t.sources = r.sources
        /\ t.select = S /\ ~t.star /\ t.uses = U
    BY <1>4, <2>1
  <2> QED
    BY <1>1, <1>3, <1>6, <2>1, <2>2 DEF Q
<1>7. CASE ~Expandable(q, known, i)
  <2>1. PICK t : t = [r EXCEPT !.select = B, !.uses = U] /\ t = After
    BY <1>5, <1>7
  <2>2. /\ t.parent = r.parent /\ t.closed = r.closed /\ t.sources = r.sources
        /\ t.select = B /\ t.star = r.star /\ t.uses = U
    BY <1>4, <2>1
  <2> QED
    BY <1>1, <1>3, <1>7, <2>1, <2>2 DEF Q
<1> QED
  BY <1>6, <1>7

LEMMA QualifiedScopes ==
  ASSUME NEW q, NEW known PROVE Scopes(Qualified(q, known)) = Scopes(q)
BY DEF Qualified, Scopes

LEMMA QualifiedKeeps ==
  ASSUME NEW q, WellFormed(q), NEW known
  PROVE  /\ Scopes(Qualified(q, known)) = Scopes(q)
         /\ \A i \in Scopes(q) :
              /\ Qualified(q, known)[i].parent = q[i].parent
              /\ Qualified(q, known)[i].closed = q[i].closed
              /\ Qualified(q, known)[i].sources = q[i].sources
              /\ ~Expandable(q, known, i) =>
                   /\ Qualified(q, known)[i].select = BoundItems(q, known, i)
                   /\ Qualified(q, known)[i].star = q[i].star
              /\ Expandable(q, known, i) =>
                   /\ Qualified(q, known)[i].select = StarredItems(q, known, i)
                   /\ ~Qualified(q, known)[i].star
<1>1. ASSUME NEW i \in Scopes(q)
      PROVE  /\ Qualified(q, known)[i].parent = q[i].parent
             /\ Qualified(q, known)[i].closed = q[i].closed
             /\ Qualified(q, known)[i].sources = q[i].sources
  BY QualifiedFields
<1>2. ASSUME NEW i \in Scopes(q), ~Expandable(q, known, i)
      PROVE  /\ Qualified(q, known)[i].select = BoundItems(q, known, i)
             /\ Qualified(q, known)[i].star = q[i].star
  BY <1>2, QualifiedFields
<1>3. ASSUME NEW i \in Scopes(q), Expandable(q, known, i)
      PROVE  /\ Qualified(q, known)[i].select = StarredItems(q, known, i)
             /\ ~Qualified(q, known)[i].star
  <2>1. PICK E : E = StarredItems(q, known, i)
    OBVIOUS
  <2>2. Qualified(q, known)[i].select = E
    BY <1>3, <2>1, QualifiedFields
  <2>3. ~Qualified(q, known)[i].star
    BY <1>3, QualifiedFields
  <2> QED
    BY <2>1, <2>2, <2>3
<1> QED
  BY <1>1, <1>2, <1>3, QualifiedScopes

(* The scopes stay nested as they were, with the same names in each. *)
LEMMA QualifiedNests ==
  ASSUME NEW q, WellFormed(q), NEW known
  PROVE  /\ Nested(Qualified(q, known))
         /\ Visible(Qualified(q, known)) = Visible(q)
         /\ Ancestry(Qualified(q, known)) = Ancestry(q)
         /\ \A i \in Scopes(q) : SourcesOf(Qualified(q, known), i) = SourcesOf(q, i)
<1>1. PICK Q : Q = Qualified(q, known)
  OBVIOUS
<1>2. /\ Scopes(Q) = Scopes(q)
      /\ \A i \in Scopes(q) : /\ Q[i].parent = q[i].parent
                              /\ Q[i].closed = q[i].closed
                              /\ Q[i].sources = q[i].sources
  BY <1>1, QualifiedKeeps
<1>3. Nested(q)
  BY Shape
<1>4. Len(Q) = Len(q)
  <2>1. Q = [i \in Scopes(q) |-> Q[i]]
    BY <1>1 DEF Qualified
  <2>2. Q \in [1 .. Len(q) -> {Q[i] : i \in 1 .. Len(q)}]
    BY <1>3, <2>1 DEF Nested
  <2> QED
    BY <1>3, <2>2 DEF Nested
<1>5. Nested(Q)
  BY <1>2, <1>3, <1>4 DEF Nested
<1> DEFINE Sight(p, f) == f = [i \in Scopes(p) |-> IF p[i].parent = 0 \/ p[i].closed THEN <<i>>
                                                 ELSE <<i>> \o f[p[i].parent]]
           Around(p, f) == f = [i \in Scopes(p) |-> IF p[i].parent = 0 THEN <<i>>
                                                   ELSE <<i>> \o f[p[i].parent]]
<1>6. Visible(Q) = Visible(q)
  <2>1. \A f : Sight(Q, f) <=> Sight(q, f)
    BY <1>2
  <2>2. Visible(Q) = (CHOOSE f : Sight(Q, f)) /\ Visible(q) = CHOOSE f : Sight(q, f)
    BY DEF Visible
  <2> HIDE DEF Sight
  <2>3. (CHOOSE f : Sight(Q, f)) = CHOOSE f : Sight(q, f)
    BY <2>1
  <2> QED
    BY <2>2, <2>3
<1>7. Ancestry(Q) = Ancestry(q)
  <2>1. \A f : Around(Q, f) <=> Around(q, f)
    BY <1>2
  <2>2. Ancestry(Q) = (CHOOSE f : Around(Q, f)) /\ Ancestry(q) = CHOOSE f : Around(q, f)
    BY DEF Ancestry
  <2> HIDE DEF Around
  <2>3. (CHOOSE f : Around(Q, f)) = CHOOSE f : Around(q, f)
    BY <2>1
  <2> QED
    BY <2>2, <2>3
<1>8. \A i \in Scopes(q) : SourcesOf(Q, i) = SourcesOf(q, i)
  BY <1>2 DEF SourcesOf
<1> QED
  BY <1>1, <1>5, <1>6, <1>7, <1>8

LEMMA ColumnsFinite ==
  ASSUME NEW q, WellFormed(q), NEW known, FiniteSchema(known),
         NEW i \in Scopes(q), NEW src \in SourcesOf(q, i)
  PROVE  IsFiniteSet(ColumnsOf(q, known, src))
<1>1. CASE src.at = 0
  BY <1>1, FS_EmptySet DEF ColumnsOf, ColumnsIn, FiniteSchema
<1>2. CASE src.at # 0
  <2>1. src.at \in Scopes(q)
    BY <1>2, SourcesAre
  <2> QED
    BY <1>2, <2>1, OutputsFinite DEF ColumnsOf
<1> QED
  BY <1>1, <1>2

(* the items that stand for a star, of one source, and of one column *)
StarItem(src, col) == [as |-> col, reads |-> {[qual |-> src.as, name |-> col]}]
StarRow(q, known, src) ==
  LET cols == SetToSeq(ColumnsOf(q, known, src))
  IN  [m \in DOMAIN cols |-> StarItem(src, cols[m])]

LEMMA StarRowIs ==
  ASSUME NEW q, WellFormed(q), NEW known, FiniteSchema(known),
         NEW i \in Scopes(q), NEW src \in SourcesOf(q, i)
  PROVE  /\ StarRow(q, known, src) \in Seq(ToSet(StarRow(q, known, src)))
         /\ \A col \in ColumnsOf(q, known, src) : StarItem(src, col) \in ToSet(StarRow(q, known, src))
         /\ \A item \in ToSet(StarRow(q, known, src)) :
              \E col \in ColumnsOf(q, known, src) : item = StarItem(src, col)
<1> DEFINE cols == SetToSeq(ColumnsOf(q, known, src))
           row  == StarRow(q, known, src)
<1>1. /\ cols \in Seq(ColumnsOf(q, known, src))
      /\ \A e \in ColumnsOf(q, known, src) : \E n \in 1 .. Len(cols) : cols[n] = e
  BY ColumnsFinite, SetToSeqIs
<1>2. row = [m \in DOMAIN cols |-> StarItem(src, cols[m])]
  BY DEF StarRow
<1> HIDE DEF cols, row
<1>3. DOMAIN cols = 1 .. Len(cols) /\ Len(cols) \in Nat
  BY <1>1
<1>4. row = [m \in 1 .. Len(cols) |-> StarItem(src, cols[m])]
  BY <1>2, <1>3
<1>5. DOMAIN row = 1 .. Len(cols) /\ \A m \in 1 .. Len(cols) : row[m] = StarItem(src, cols[m])
  BY <1>4
<1>6. ToSet(row) = {row[m] : m \in 1 .. Len(cols)}
  BY <1>5 DEF ToSet
<1>7. row \in [1 .. Len(cols) -> ToSet(row)]
  BY <1>4, <1>5, <1>6
<1>8. row \in Seq(ToSet(row))
  BY <1>3, <1>7
<1>9. ASSUME NEW col \in ColumnsOf(q, known, src) PROVE StarItem(src, col) \in ToSet(row)
  <2>1. PICK n \in 1 .. Len(cols) : cols[n] = col
    BY <1>1
  <2> QED
    BY <1>5, <1>6, <2>1
<1>10. ASSUME NEW item \in ToSet(row)
       PROVE  \E col \in ColumnsOf(q, known, src) : item = StarItem(src, col)
  <2>1. PICK m \in 1 .. Len(cols) : item = row[m]
    BY <1>6
  <2>2. cols[m] \in ColumnsOf(q, known, src)
    BY <1>1
  <2> QED
    BY <1>5, <2>1, <2>2
<1> QED
  BY <1>8, <1>9, <1>10 DEF row

IsStarItem(q, known, i, item) ==
  \E src \in SourcesOf(q, i) : \E col \in ColumnsOf(q, known, src) : item = StarItem(src, col)

(* A star becomes one item per column of each source. *)
LEMMA StarItemsAre ==
  ASSUME NEW q, WellFormed(q), NEW known, FiniteSchema(known), NEW i \in Scopes(q)
  PROVE  \E T : /\ StarItems(q, known, i) \in Seq(T)
                /\ \A item \in T : IsStarItem(q, known, i, item)
                /\ \A src \in SourcesOf(q, i) : \A col \in ColumnsOf(q, known, src) :
                     StarItem(src, col) \in ToSet(StarItems(q, known, i))
<1> DEFINE srcs == q[i].sources
           rows == [n \in DOMAIN srcs |-> StarRow(q, known, srcs[n])]
           T == UNION {ToSet(StarRow(q, known, src)) : src \in SourcesOf(q, i)}
<1>1. srcs \in Seq(SourcesOf(q, i))
  BY SourcesAre
<1>2. StarItems(q, known, i) = FlattenSeq(rows)
  BY DEF StarItems, StarRow, StarItem
<1> HIDE DEF srcs
<1>3. DOMAIN srcs = 1 .. Len(srcs) /\ Len(srcs) \in Nat
  BY <1>1
<1>4. \A src \in SourcesOf(q, i) : StarRow(q, known, src) \in Seq(T)
  <2> SUFFICES ASSUME NEW src \in SourcesOf(q, i) PROVE StarRow(q, known, src) \in Seq(T)
    OBVIOUS
  <2>1. PICK row : row = StarRow(q, known, src)
    OBVIOUS
  <2>2. row \in Seq(ToSet(row))
    BY <2>1, StarRowIs
  <2>3. ToSet(row) \subseteq T
    BY <2>1
  <2> HIDE DEF T
  <2>4. row \in Seq(T)
    <3>1. PICK S : S = ToSet(row)
      OBVIOUS
    <3> QED
      BY <2>2, <2>3, <3>1
  <2> QED
    BY <2>1, <2>4
<1> HIDE DEF T
<1>5. \A n \in 1 .. Len(srcs) : srcs[n] \in SourcesOf(q, i)
  BY <1>1
<1>6. rows \in [1 .. Len(srcs) -> Seq(T)]
  BY <1>3, <1>4, <1>5
<1>7. rows \in Seq(Seq(T)) /\ Len(rows) = Len(srcs)
  BY <1>3, <1>6
<1>8. /\ FlattenSeq(rows) \in Seq(T)
      /\ \A n \in 1 .. Len(srcs) : ToSet(rows[n]) \subseteq ToSet(FlattenSeq(rows))
  <2> HIDE DEF rows
  <2> QED
    BY <1>7, FlattenIs
<1>9. ASSUME NEW src \in SourcesOf(q, i), NEW col \in ColumnsOf(q, known, src)
      PROVE  StarItem(src, col) \in ToSet(FlattenSeq(rows))
  <2>1. PICK n \in 1 .. Len(srcs) : srcs[n] = src
    BY <1>1, ElementsFinite DEF SourcesOf, srcs
  <2>2. rows[n] = StarRow(q, known, src)
    BY <1>3, <2>1
  <2> HIDE DEF rows
  <2>3. StarItem(src, col) \in ToSet(rows[n])
    BY <2>2, StarRowIs
  <2> QED
    BY <1>8, <2>3
<1>10. ASSUME NEW item \in T PROVE IsStarItem(q, known, i, item)
  <2>1. PICK src \in SourcesOf(q, i) : item \in ToSet(StarRow(q, known, src))
    BY DEF T
  <2>2. PICK col \in ColumnsOf(q, known, src) : item = StarItem(src, col)
    BY <2>1, StarRowIs
  <2> QED
    BY <2>2 DEF IsStarItem
<1> HIDE DEF rows
<1> QED
  BY <1>2, <1>8, <1>9, <1>10

LEMMA BoundItemsAre ==
  ASSUME NEW q, WellFormed(q), NEW known, NEW i \in Scopes(q)
  PROVE  /\ BoundItems(q, known, i) \in Seq(ToSet(BoundItems(q, known, i)))
         /\ \A ref \in SelectReads(q, i) :
              \E item \in ToSet(BoundItems(q, known, i)) :
                Bound(q, known, i, Use("select", ref)) \in item.reads
         /\ \A item \in ToSet(BoundItems(q, known, i)) : \A ref \in item.reads :
              \E r \in SelectReads(q, i) : ref = Bound(q, known, i, Use("select", r))
<1> DEFINE sel == q[i].select
           items == BoundItems(q, known, i)
           Rebound(item) == [item EXCEPT !.reads = {Bound(q, known, i, Use("select", r)) : r \in @}]
<1>1. sel \in Seq(ToSet(sel)) /\ \A item \in ToSet(sel) : item = [as |-> item.as, reads |-> item.reads]
  BY SourcesAre DEF WellFormed
<1>2. items = [n \in DOMAIN sel |-> Rebound(sel[n])]
  BY DEF BoundItems
<1>3. SelectReads(q, i) = UNION {item.reads : item \in ToSet(sel)}
  BY DEF SelectReads
<1>4. ASSUME NEW item \in ToSet(sel)
      PROVE  /\ \A r \in item.reads : Bound(q, known, i, Use("select", r)) \in Rebound(item).reads
             /\ \A ref \in Rebound(item).reads : \E r \in item.reads : ref = Bound(q, known, i, Use("select", r))
  <2>1. item = [as |-> item.as, reads |-> item.reads]
    BY <1>1
  <2>2. PICK B : B = {Bound(q, known, i, Use("select", r)) : r \in item.reads}
    OBVIOUS
  <2>3. Rebound(item) = [item EXCEPT !.reads = B]
    BY <2>2
  <2>4. Rebound(item).reads = B
    BY <2>1, <2>3
  <2> HIDE DEF Rebound
  <2> QED
    BY <2>2, <2>4
<1> HIDE DEF sel, items, Rebound
<1>5. DOMAIN sel = 1 .. Len(sel) /\ Len(sel) \in Nat
  BY <1>1
<1>6. items = [n \in 1 .. Len(sel) |-> Rebound(sel[n])]
  BY <1>2, <1>5
<1>7. DOMAIN items = 1 .. Len(sel) /\ \A n \in 1 .. Len(sel) : items[n] = Rebound(sel[n])
  BY <1>6
<1>8. ToSet(items) = {items[n] : n \in 1 .. Len(sel)}
  BY <1>7 DEF ToSet
<1>9. items \in [1 .. Len(sel) -> ToSet(items)]
  BY <1>6, <1>7, <1>8
<1>10. items \in Seq(ToSet(items))
  BY <1>5, <1>9
<1>11. ASSUME NEW ref \in SelectReads(q, i)
       PROVE  \E item \in ToSet(items) : Bound(q, known, i, Use("select", ref)) \in item.reads
  <2>1. PICK item \in ToSet(sel) : ref \in item.reads
    BY <1>3
  <2>2. PICK n \in 1 .. Len(sel) : sel[n] = item
    BY <1>1, ElementsFinite
  <2>3. items[n] = Rebound(item) /\ items[n] \in ToSet(items)
    BY <1>7, <1>8, <2>2
  <2> QED
    BY <1>4, <2>1, <2>3
<1>12. ASSUME NEW item \in ToSet(items), NEW ref \in item.reads
       PROVE  \E r \in SelectReads(q, i) : ref = Bound(q, known, i, Use("select", r))
  <2>1. PICK n \in 1 .. Len(sel) : item = items[n]
    BY <1>8
  <2>2. sel[n] \in ToSet(sel) /\ item = Rebound(sel[n])
    BY <1>1, <1>7, <2>1, ElementsFinite
  <2>3. PICK r \in sel[n].reads : ref = Bound(q, known, i, Use("select", r))
    BY <1>4, <2>2
  <2>4. r \in SelectReads(q, i)
    BY <1>3, <2>2
  <2> QED
    BY <2>3, <2>4
<1> QED
  BY <1>10, <1>11, <1>12 DEF items

(* The optimizer loses no reference of a select list: each is bound, and a *)
(* star it replaces becomes a reference to each column it stands for.      *)
LEMMA QualifiedSelects ==
  ASSUME NEW q, WellFormed(q), NEW known, FiniteSchema(known), NEW i \in Scopes(q)
  PROVE  /\ \A ref \in SelectReads(q, i) :
              Bound(q, known, i, Use("select", ref)) \in SelectReads(Qualified(q, known), i)
         /\ Expandable(q, known, i) =>
              \A src \in SourcesOf(q, i) : \A col \in ColumnsOf(q, known, src) :
                [qual |-> src.as, name |-> col] \in SelectReads(Qualified(q, known), i)
<1>1. PICK Q, B, S : Q = Qualified(q, known) /\ B = BoundItems(q, known, i) /\ S = StarItems(q, known, i)
  OBVIOUS
<1>2. /\ ~Expandable(q, known, i) => Q[i].select = B
      /\ Expandable(q, known, i) => Q[i].select = B \o S
  BY <1>1, QualifiedKeeps DEF StarredItems
<1>3. /\ B \in Seq(ToSet(B))
      /\ \A ref \in SelectReads(q, i) : \E item \in ToSet(B) :
           Bound(q, known, i, Use("select", ref)) \in item.reads
  BY <1>1, BoundItemsAre
<1>4. PICK T : /\ S \in Seq(T)
               /\ \A src \in SourcesOf(q, i) : \A col \in ColumnsOf(q, known, src) :
                    StarItem(src, col) \in ToSet(S)
  BY <1>1, StarItemsAre
<1>5. PICK E : E = ToSet(Q[i].select)
  OBVIOUS
<1>6. SelectReads(Q, i) = UNION {item.reads : item \in E}
  BY <1>5 DEF SelectReads
<1>7. ToSet(B) \subseteq E /\ (Expandable(q, known, i) => ToSet(S) \subseteq E)
  <2>1. CASE Expandable(q, known, i)
    <3>1. PICK U : U = ToSet(B) \cup T
      OBVIOUS
    <3>2. B \in Seq(U) /\ S \in Seq(U)
      <4>1. PICK V : V = ToSet(B)
        OBVIOUS
      <4>2. V \subseteq U /\ T \subseteq U /\ B \in Seq(V)
        BY <1>3, <3>1, <4>1
      <4> QED
        BY <1>4, <4>2
    <3>3. ToSet(B \o S) = ToSet(B) \cup ToSet(S)
      BY <3>2, ConcatHas
    <3> QED
      BY <1>2, <1>5, <2>1, <3>3
  <2>2. CASE ~Expandable(q, known, i)
    BY <1>2, <1>5, <2>2
  <2> QED
    BY <2>1, <2>2
<1>8. ASSUME NEW ref \in SelectReads(q, i)
      PROVE  Bound(q, known, i, Use("select", ref)) \in SelectReads(Q, i)
  <2>1. PICK item \in ToSet(B) : Bound(q, known, i, Use("select", ref)) \in item.reads
    BY <1>3
  <2> QED
    BY <1>6, <1>7, <2>1
<1>9. ASSUME Expandable(q, known, i), NEW src \in SourcesOf(q, i), NEW col \in ColumnsOf(q, known, src)
      PROVE  [qual |-> src.as, name |-> col] \in SelectReads(Q, i)
  <2>1. StarItem(src, col) \in E
    BY <1>4, <1>7, <1>9
  <2>2. [qual |-> src.as, name |-> col] \in StarItem(src, col).reads
    BY DEF StarItem
  <2> QED
    BY <1>6, <2>1, <2>2
<1> QED
  BY <1>1, <1>8, <1>9

(* Nor does it lose a use that it does not replace, and what it makes of a *)
(* use that is seen is among the references of the scope.                  *)
LEMMA QualifiedUses ==
  ASSUME NEW q, WellFormed(q), NEW known, FiniteSchema(known), NEW i \in Scopes(q),
         NEW use \in Uses(q, i), ~Replaced(q, known, i, use)
  PROVE  Rewritten(q, known, i, use) \in Uses(Qualified(q, known), i)
<1>1. PICK Q : Q = Qualified(q, known)
  OBVIOUS
<1>2. Q[i].uses = BoundUses(q, known, i)
  BY <1>1, QualifiedFields
<1>3. CASE use \in q[i].uses
  <2>1. Rewritten(q, known, i, use) \in BoundUses(q, known, i)
    BY <1>3 DEF BoundUses
  <2> QED
    BY <1>1, <1>2, <2>1 DEF Uses
<1>4. CASE use \notin q[i].uses
  <2>1. PICK ref \in SelectReads(q, i) : use = Use("select", ref)
    BY <1>4 DEF Uses
  <2>2. Bound(q, known, i, use) \in SelectReads(Q, i)
    BY <1>1, <2>1, QualifiedSelects
  <2>3. use.clause = "select"
    BY <2>1 DEF Use
  <2> QED
    BY <1>1, <2>2, <2>3 DEF Rewritten, Uses
<1> QED
  BY <1>3, <1>4

LEMMA QualifiedReads ==
  ASSUME NEW q, WellFormed(q), NEW known, FiniteSchema(known), NEW i \in Scopes(q)
  PROVE  /\ \A use \in Seen(q, known, i, TRUE) :
              Bound(q, known, i, use) \in OwnReads(Qualified(q, known), i)
         /\ Expandable(q, known, i) =>
              \A src \in SourcesOf(q, i) : \A col \in ColumnsOf(q, known, src) :
                [qual |-> src.as, name |-> col] \in OwnReads(Qualified(q, known), i)
<1>1. PICK Q : Q = Qualified(q, known)
  OBVIOUS
<1>2. ASSUME NEW use \in Seen(q, known, i, TRUE) PROVE Bound(q, known, i, use) \in OwnReads(Q, i)
  <2>1. /\ use \in Uses(q, i) /\ ~Replaced(q, known, i, use)
        /\ ~Hidden(Q, i, Rewritten(q, known, i, use))
    BY <1>1 DEF Seen
  <2>2. Rewritten(q, known, i, use) \in Uses(Q, i)
    BY <1>1, <2>1, QualifiedUses
  <2>3. Rewritten(q, known, i, use).ref = Bound(q, known, i, use)
    BY DEF Rewritten, Use
  <2> QED
    BY <2>1, <2>2, <2>3 DEF OwnReads
<1>3. ASSUME Expandable(q, known, i), NEW src \in SourcesOf(q, i), NEW col \in ColumnsOf(q, known, src)
      PROVE  [qual |-> src.as, name |-> col] \in OwnReads(Q, i)
  <2>1. [qual |-> src.as, name |-> col] \in SelectReads(Q, i)
    BY <1>1, <1>3, QualifiedSelects
  <2> QED
    BY <2>1, SelectUses
<1> QED
  BY <1>1, <1>2, <1>3

(* a reference that stands for a star *)
OfStar(q, known, i, ref) ==
  \E src \in SourcesOf(q, i) : \E col \in ColumnsOf(q, known, src) :
    ref = [qual |-> src.as, name |-> col]

(* And it invents none.                                                    *)
LEMMA QualifiedSelectsOnly ==
  ASSUME NEW q, WellFormed(q), NEW known, FiniteSchema(known), NEW i \in Scopes(q),
         NEW ref \in SelectReads(Qualified(q, known), i)
  PROVE  \/ \E r \in SelectReads(q, i) : ref = Bound(q, known, i, Use("select", r))
         \/ Expandable(q, known, i) /\ OfStar(q, known, i, ref)
<1>1. PICK Q, B, S : Q = Qualified(q, known) /\ B = BoundItems(q, known, i) /\ S = StarItems(q, known, i)
  OBVIOUS
<1>2. /\ ~Expandable(q, known, i) => Q[i].select = B
      /\ Expandable(q, known, i) => Q[i].select = B \o S
  BY <1>1, QualifiedKeeps DEF StarredItems
<1>3. /\ B \in Seq(ToSet(B))
      /\ \A item \in ToSet(B) : \A x \in item.reads :
           \E r \in SelectReads(q, i) : x = Bound(q, known, i, Use("select", r))
  BY <1>1, BoundItemsAre
<1>4. PICK T : S \in Seq(T) /\ \A x \in T : IsStarItem(q, known, i, x)
  BY <1>1, StarItemsAre
<1>5. PICK item \in ToSet(Q[i].select) : ref \in item.reads
  BY <1>1 DEF SelectReads
<1>6. CASE item \in ToSet(B)
  BY <1>3, <1>5, <1>6
<1>7. CASE item \notin ToSet(B)
  <2>1. Expandable(q, known, i)
    BY <1>2, <1>5, <1>7
  <2>2. item \in ToSet(B \o S)
    BY <1>2, <1>5, <2>1
  <2>3. PICK U, V : V = ToSet(B) /\ U = V \cup T
    OBVIOUS
  <2>4. B \in Seq(U) /\ S \in Seq(U)
    <3>1. V \subseteq U /\ T \subseteq U /\ B \in Seq(V)
      BY <1>3, <2>3
    <3> QED
      BY <1>4, <3>1
  <2>5. item \in ToSet(S)
    BY <1>7, <2>2, <2>4, ConcatHas
  <2>6. item \in T
    <3>1. PICK n \in 1 .. Len(S) : item = S[n]
      BY <1>4, <2>5, ElementsFinite
    <3> QED
      BY <1>4, <3>1
  <2>7. PICK src \in SourcesOf(q, i) : \E col \in ColumnsOf(q, known, src) : item = StarItem(src, col)
    BY <1>4, <2>6 DEF IsStarItem
  <2>8. PICK col \in ColumnsOf(q, known, src) : item = StarItem(src, col)
    BY <2>7
  <2>9. ref = [qual |-> src.as, name |-> col]
    BY <1>5, <2>8 DEF StarItem
  <2> QED
    BY <2>1, <2>9 DEF OfStar
<1> QED
  BY <1>6, <1>7

LEMMA QualifiedReadsOnly ==
  ASSUME NEW q, WellFormed(q), NEW known, FiniteSchema(known), NEW i \in Scopes(q),
         NEW ref \in OwnReads(Qualified(q, known), i)
  PROVE  \/ \E use \in Seen(q, known, i, TRUE) : ref = Bound(q, known, i, use)
         \/ Expandable(q, known, i) /\ OfStar(q, known, i, ref)
<1>1. PICK Q : Q = Qualified(q, known)
  OBVIOUS
<1>2. PICK new \in Uses(Q, i) : ~Hidden(Q, i, new) /\ new.ref = ref
  BY <1>1 DEF OwnReads
<1>3. ASSUME NEW use \in Uses(q, i), ~Replaced(q, known, i, use), new = Rewritten(q, known, i, use)
      PROVE  use \in Seen(q, known, i, TRUE) /\ ref = Bound(q, known, i, use)
  <2>1. use \in Seen(q, known, i, TRUE)
    BY <1>1, <1>2, <1>3 DEF Seen
  <2>2. Rewritten(q, known, i, use).ref = Bound(q, known, i, use)
    BY DEF Rewritten, Use
  <2> QED
    BY <1>2, <1>3, <2>1, <2>2
<1>4. CASE new \in Q[i].uses
  <2>1. PICK use \in q[i].uses : ~Replaced(q, known, i, use) /\ new = Rewritten(q, known, i, use)
    <3>1. Q[i].uses = BoundUses(q, known, i)
      BY <1>1, QualifiedFields
    <3> QED
      BY <1>4, <3>1 DEF BoundUses
  <2>2. use \in Uses(q, i)
    BY DEF Uses
  <2> QED
    BY <1>3, <2>1, <2>2
<1>5. CASE new \notin Q[i].uses
  <2>1. PICK x \in SelectReads(Q, i) : new = Use("select", x)
    BY <1>2, <1>5 DEF Uses
  <2>2. x = ref
    BY <1>2, <2>1 DEF Use
  <2>3. CASE \E r \in SelectReads(q, i) : ref = Bound(q, known, i, Use("select", r))
    <3>1. PICK r \in SelectReads(q, i) : ref = Bound(q, known, i, Use("select", r))
      BY <2>3
    <3>2. PICK use : use = Use("select", r)
      OBVIOUS
    <3>3. use \in Uses(q, i) /\ use.clause = "select"
      BY <3>2, SelectUses DEF Use
    <3>4. ~Replaced(q, known, i, use)
      BY <3>3 DEF Replaced
    <3>5. new = Rewritten(q, known, i, use)
      BY <2>1, <2>2, <3>1, <3>2, <3>3 DEF Rewritten
    <3> QED
      BY <1>3, <3>3, <3>4, <3>5
  <2> QED
    BY <1>1, <2>1, <2>2, <2>3, QualifiedSelectsOnly
<1> QED
  BY <1>4, <1>5

-----------------------------------------------------------------------------
(* What a reference resolves to *)

(* An alias names one source of a scope. *)
OneEach(q) ==
  \A i \in Scopes(q) : \A s, t \in SourcesOf(q, i) : s.as = t.as => s = t

LEMMA UniqueAlias ==
  ASSUME NEW q, WellFormed(q), ~DuplicateAlias(q)
  PROVE  OneEach(q)
<1> SUFFICES ASSUME NEW i \in Scopes(q),
                    NEW s \in SourcesOf(q, i), NEW t \in SourcesOf(q, i), s.as = t.as
             PROVE  s = t
  BY DEF OneEach
<1> DEFINE S == SourcesOf(q, i)
           A == Aliases(q, i)
           g == [src \in S |-> src.as]
<1>1. IsFiniteSet(S) /\ Cardinality(S) <= Len(q[i].sources) /\ Len(q[i].sources) \in Nat
  <2>1. q[i].sources \in Seq(S)
    BY SourcesAre
  <2> QED
    BY <2>1, ElementsFinite DEF SourcesOf
<1>2. g \in Surjection(S, A)
  BY DEF Surjection, Aliases
<1>3. ~(Cardinality(A) < Len(q[i].sources))
  BY DEF DuplicateAlias
<1> HIDE DEF S, A, g
<1>4. /\ IsFiniteSet(A) /\ Cardinality(A) <= Cardinality(S)
      /\ Cardinality(A) = Cardinality(S) <=> g \in Injection(S, A)
  BY <1>1, <1>2, FS_Surjection
<1>5. Cardinality(A) \in Nat /\ Cardinality(S) \in Nat
  BY <1>1, <1>4, FS_CardinalityType
<1>6. Cardinality(A) = Cardinality(S)
  BY <1>1, <1>3, <1>4, <1>5
<1>7. g \in Injection(S, A)
  BY <1>4, <1>6
<1>8. \A x, y \in S : g[x] = g[y] => x = y
  BY <1>7 DEF Injection, IsInjective
<1>9. g[s] = g[t]
  BY DEF g, S
<1> QED
  BY <1>8, <1>9 DEF S

LEMMA SourceAsIs ==
  ASSUME NEW q, OneEach(q), NEW i \in Scopes(q), NEW src \in SourcesOf(q, i)
  PROVE  SourceAs(q, i, src.as) = src
<1>1. \A s \in SourcesOf(q, i) : s.as = src.as => s = src
  BY DEF OneEach
<1> QED
  BY <1>1 DEF SourceAs

(* resolved as one to this source, of the n-th visible scope               *)
FoundAt(q, known, i, ref, src, n) ==
  /\ n = 1 => /\ SourceAs(q, i, ref.qual) = src
              /\ Resolve(q, known, i, ref) = ResolveLocal(q, known, i, ref)
  /\ n # 1 => Resolve(q, known, i, ref) =
                IF src.at = 0 THEN ResolvedTo(<<src.table, ref.name>>) ELSE ResolvedElsewhere

(* A qualified reference resolves in the innermost visible scope that has  *)
(* its alias.                                                              *)
LEMMA NamedFound ==
  ASSUME NEW q, Nested(q), OneEach(q), NEW known, NEW i \in Scopes(q),
         NEW ref, ref.qual # Unqualified,
         NEW n \in 1 .. Len(Visible(q)[i]),
         NEW src \in SourcesOf(q, Visible(q)[i][n]), src.as = ref.qual,
         \A m \in 1 .. n - 1 : ref.qual \notin Aliases(q, Visible(q)[i][m])
  PROVE  FoundAt(q, known, i, ref, src, n)
<1> DEFINE V == Visible(q)[i]
           A == Ancestry(q)[i]
<1>1. /\ V \in Seq(Scopes(q)) /\ A \in Seq(Scopes(q))
      /\ 1 <= Len(V) /\ Len(V) <= Len(A)
      /\ V[1] = i
      /\ \A m \in 1 .. Len(V) : V[m] = A[m]
  BY ChainsAre DEF Chained
<1>2. /\ src \in SourcesOf(q, V[n]) /\ n \in 1 .. Len(V)
      /\ \A m \in 1 .. n - 1 : ref.qual \notin Aliases(q, V[m])
  OBVIOUS
<1> HIDE DEF V
<1>3. V[n] \in Scopes(q)
  BY <1>1, <1>2
<1>4. SourceAs(q, V[n], ref.qual) = src /\ ref.qual \in Aliases(q, V[n])
  BY <1>2, <1>3, SourceAsIs DEF Aliases
<1>5. CASE n = 1
  <2>1. V[n] = i
    BY <1>1, <1>5
  <2>2. ref.qual \in Aliases(q, i) /\ SourceAs(q, i, ref.qual) = src
    BY <1>4, <2>1
  <2>3. Resolve(q, known, i, ref) = ResolveLocal(q, known, i, ref)
    BY <2>2 DEF Resolve
  <2> QED
    BY <1>5, <2>2, <2>3 DEF FoundAt
<1>6. CASE n # 1
  <2> DEFINE around == Tail(A)
             homes  == {m \in DOMAIN around : ref.qual \in Aliases(q, around[m])}
  <2>1. ref.qual \notin Aliases(q, i)
    BY <1>1, <1>2, <1>6
  <2>2. Resolve(q, known, i, ref) = ResolveCorrelated(q, i, ref)
    BY <2>1 DEF Resolve
  <2> HIDE DEF A
  <2>3. Len(A) \in Nat /\ Len(A) >= 2 /\ Len(V) \in Nat
    BY <1>1, <1>2, <1>6
  <2>4. DOMAIN around = 1 .. Len(A) - 1 /\ \A m \in 1 .. Len(A) - 1 : around[m] = A[m + 1]
    BY <1>1, <2>3
  <2> HIDE DEF around
  <2>5. n - 1 \in 1 .. Len(A) - 1 /\ (n - 1) + 1 = n
    BY <1>1, <1>2, <1>6, <2>3
  <2>6. around[n - 1] = V[n]
    BY <1>1, <1>2, <2>4, <2>5
  <2>7. n - 1 \in homes /\ homes \in SUBSET Nat
    BY <1>4, <2>4, <2>5, <2>6
  <2>8. ASSUME NEW y \in homes PROVE n - 1 <= y
    <3> SUFFICES ASSUME ~(n - 1 <= y) PROVE FALSE
      OBVIOUS
    <3>1. y \in 1 .. Len(A) - 1 /\ ref.qual \in Aliases(q, A[y + 1])
      BY <2>4
    <3>2. y + 1 \in 1 .. n - 1 /\ y + 1 \in 1 .. Len(V)
      BY <1>2, <2>3, <2>8, <3>1
    <3>3. A[y + 1] = V[y + 1]
      BY <1>1, <3>2
    <3> QED
      BY <1>2, <3>1, <3>2, <3>3
  <2> HIDE DEF homes
  <2>9. Min(homes) = n - 1
    BY <2>7, <2>8, MinIsLeast
  <2>10. homes # {} /\ SourceAs(q, around[Min(homes)], ref.qual) = src
    BY <1>4, <2>6, <2>7, <2>9
  <2>11. ResolveCorrelated(q, i, ref) =
           IF homes = {} THEN Unresolved
           ELSE IF SourceAs(q, around[Min(homes)], ref.qual).at = 0
                THEN ResolvedTo(<<SourceAs(q, around[Min(homes)], ref.qual).table, ref.name>>)
                ELSE ResolvedElsewhere
    BY DEF ResolveCorrelated, homes, around, A
  <2> QED
    BY <1>6, <2>2, <2>10, <2>11 DEF FoundAt
<1> QED
  BY <1>5, <1>6

(* A qualified reference to a table of a visible scope, which no scope     *)
(* further in has a source of that name for, resolves to its column.       *)
LEMMA NamedResolves ==
  ASSUME NEW q, Nested(q), OneEach(q), NEW known, NEW i \in Scopes(q),
         NEW ref, ref.qual # Unqualified,
         NEW n \in 1 .. Len(Visible(q)[i]),
         NEW src \in SourcesOf(q, Visible(q)[i][n]),
         src.as = ref.qual, src.at = 0, src.table \in DOMAIN known,
         \A m \in 1 .. n - 1 : ref.qual \notin Aliases(q, Visible(q)[i][m])
  PROVE  Resolve(q, known, i, ref) = ResolvedTo(<<src.table, ref.name>>)
<1>1. FoundAt(q, known, i, ref, src, n)
  BY NamedFound
<1>2. CASE n = 1
  <2>1. SourceAs(q, i, ref.qual) = src /\ Resolve(q, known, i, ref) = ResolveLocal(q, known, i, ref)
    BY <1>1, <1>2 DEF FoundAt
  <2>2. ResolveLocal(q, known, i, ref) = ResolvedTo(<<src.table, ref.name>>)
    BY <2>1 DEF ResolveLocal
  <2> QED
    BY <2>1, <2>2
<1>3. CASE n # 1
  BY <1>1, <1>3 DEF FoundAt
<1> QED
  BY <1>2, <1>3

(* the column is the one the reference resolves to, or one of several it   *)
(* may be                                                                  *)
Reported(r, col) == r.canonical = col \/ col \in r.candidates

(* A bare reference to a column of a table of a visible scope is reported  *)
(* as that column, or as possibly that column.                             *)
LEMMA BareResolves ==
  ASSUME NEW q, Nested(q), NEW known, FiniteSchema(known), NEW i \in Scopes(q),
         NEW ref, ref.qual = Unqualified,
         NEW n \in 1 .. Len(Visible(q)[i]),
         NEW src \in SourcesOf(q, Visible(q)[i][n]),
         src.at = 0, ref.name \in ColumnsIn(known, src.table)
  PROVE  Reported(Resolve(q, known, i, ref), <<src.table, ref.name>>)
<1> DEFINE visible == UNION {BaseTables(q, k) : k \in ToSet(Ancestry(q)[i])}
           owners  == {table \in visible : ref.name \in ColumnsIn(known, table)}
           columns == {<<table, ref.name>> : table \in owners}
           col     == <<src.table, ref.name>>
<1>1. Visible(q)[i][n] \in ToSet(Ancestry(q)[i])
  <2>1. /\ Ancestry(q)[i] \in Seq(Scopes(q)) /\ Visible(q)[i] \in Seq(Scopes(q))
        /\ Len(Visible(q)[i]) <= Len(Ancestry(q)[i])
        /\ \A m \in 1 .. Len(Visible(q)[i]) : Visible(q)[i][m] = Ancestry(q)[i][m]
    BY ChainsAre DEF Chained
  <2>2. n \in 1 .. Len(Ancestry(q)[i]) /\ Visible(q)[i][n] = Ancestry(q)[i][n]
    BY <2>1
  <2> QED
    BY <2>1, <2>2, ElementsFinite
<1>2. src.table \in BaseTables(q, Visible(q)[i][n])
  BY DEF BaseTables
<1>3. src.table \in owners
  BY <1>1, <1>2
<1>4. owners \subseteq DOMAIN known
  BY DEF ColumnsIn
<1>5. IsFiniteSet(owners)
  BY <1>4, FS_Subset DEF FiniteSchema
<1> HIDE DEF owners
<1>6. IsFiniteSet(columns)
  <2> DEFINE g == [table \in owners |-> <<table, ref.name>>]
  <2>1. {g[table] : table \in owners} = columns
    OBVIOUS
  <2> HIDE DEF g
  <2>2. IsFiniteSet({g[table] : table \in owners})
    BY <1>5, ImageFinite
  <2> QED
    BY <2>1, <2>2
<1>7. col \in columns
  BY <1>3
<1>8. Resolve(q, known, i, ref) =
        IF columns = {} THEN ResolvedElsewhere
        ELSE IF Cardinality(columns) = 1 THEN ResolvedTo(CHOOSE column \in columns : TRUE)
        ELSE Ambiguous(columns)
  BY DEF Resolve, ResolveUnqualified, owners
<1> HIDE DEF columns, col
<1>9. CASE Cardinality(columns) = 1
  <2>1. PICK z : columns = {z}
    BY <1>6, <1>9, FS_Singleton
  <2>2. (CHOOSE column \in columns : TRUE) = col
    BY <1>7, <2>1
  <2>3. Resolve(q, known, i, ref) = ResolvedTo(col)
    BY <1>7, <1>8, <1>9, <2>2
  <2> QED
    BY <2>3 DEF Reported, ResolvedTo, Ref, col
<1>10. CASE Cardinality(columns) # 1
  <2>1. Resolve(q, known, i, ref) = Ambiguous(columns)
    BY <1>7, <1>8, <1>10
  <2> QED
    BY <1>7, <2>1 DEF Reported, Ambiguous, Ref, col
<1> QED
  BY <1>9, <1>10

-----------------------------------------------------------------------------
(* What a reference means, and how it is reported *)

(* the sources of a scope a reference may mean *)
NamedIn(q, known, k, ref) ==
  IF ref.qual = Unqualified THEN OwnersOf(q, known, k, ref.name)
  ELSE {src \in SourcesOf(q, k) : src.as = ref.qual}

(* the n-th visible scope is the innermost that has any *)
MeantAt(q, known, i, ref, src, n) ==
  /\ src \in SourcesOf(q, Visible(q)[i][n])
  /\ src \in NamedIn(q, known, Visible(q)[i][n], ref)
  /\ ref.name \in ColumnsOf(q, known, src)
  /\ \A m \in 1 .. n - 1 : NamedIn(q, known, Visible(q)[i][m], ref) = {}
  /\ Meant(q, known, i, ref) =
       {s \in NamedIn(q, known, Visible(q)[i][n], ref) : ref.name \in ColumnsOf(q, known, s)}

(* A reference that means a source means it in the innermost scope that    *)
(* has any for it.                                                         *)
LEMMA MeantIs ==
  ASSUME NEW q, WellFormed(q), NEW known, NEW i \in Scopes(q), NEW ref,
         NEW src \in Meant(q, known, i, ref)
  PROVE  \E n \in 1 .. Len(Visible(q)[i]) : MeantAt(q, known, i, ref, src, n)
<1> DEFINE V == Visible(q)[i]
           homes == {n \in DOMAIN V : NamedIn(q, known, V[n], ref) # {}}
<1>1. Meant(q, known, i, ref) =
        IF homes = {} THEN {}
        ELSE {s \in NamedIn(q, known, V[Min(homes)], ref) : ref.name \in ColumnsOf(q, known, s)}
  BY DEF Meant, NamedIn
<1>2. V \in Seq(Scopes(q))
  BY Shape, ChainsAre DEF Chained
<1> HIDE DEF V
<1>3. DOMAIN V = 1 .. Len(V) /\ Len(V) \in Nat
  BY <1>2
<1>4. homes \in SUBSET Nat
  BY <1>3
<1>5. homes # {}
  BY <1>1
<1>6. PICK n \in homes : \A y \in homes : n <= y
  BY <1>4, <1>5, LeastExists
<1>7. n \in 1 .. Len(V) /\ n \in Nat
  BY <1>3
<1>8. \A m \in 1 .. n - 1 : NamedIn(q, known, V[m], ref) = {}
  <2> SUFFICES ASSUME NEW m \in 1 .. n - 1, NamedIn(q, known, V[m], ref) # {} PROVE FALSE
    OBVIOUS
  <2>1. m \in homes /\ ~(n <= m)
    BY <1>3, <1>7
  <2> QED
    BY <1>6, <2>1
<1> HIDE DEF homes
<1>9. Min(homes) = n
  BY <1>4, <1>6, MinIsLeast
<1>10. Meant(q, known, i, ref) =
         {s \in NamedIn(q, known, V[n], ref) : ref.name \in ColumnsOf(q, known, s)}
  BY <1>1, <1>5, <1>9
<1>11. src \in NamedIn(q, known, V[n], ref) /\ ref.name \in ColumnsOf(q, known, src)
  BY <1>10
<1>12. src \in SourcesOf(q, V[n])
  BY <1>11 DEF NamedIn, OwnersOf
<1>13. MeantAt(q, known, i, ref, src, n)
  BY <1>7, <1>8, <1>10, <1>11, <1>12 DEF MeantAt, V
<1> QED
  BY <1>7, <1>13 DEF V

Requalified(ref, src) == [ref EXCEPT !.qual = src.as]

(* the n-th visible scope is the innermost with such a column, which only  *)
(* this source has there                                                   *)
HomeAt(q, known, i, ref, src, n) ==
  /\ OwnersOf(q, known, Visible(q)[i][n], ref.name) = {src}
  /\ \A m \in 1 .. n - 1 : OwnersOf(q, known, Visible(q)[i][m], ref.name) = {}

(* a scope further in has that alias too *)
Shadowed(q, i, src, n) == \E m \in 1 .. n - 1 : src.as \in Aliases(q, Visible(q)[i][m])

(* or the name does not get that far                                       *)
Barred(q, i, use, src, n) ==
  \/ Shadowed(q, i, src, n)
  \/ \E m \in 1 .. n : TakenForOutput(q, Visible(q)[i][m], use)
  \/ use.clause = "having" /\ n # 1

(* A bare reference that means one source is bound to its alias, unless an *)
(* inner scope has that alias too or the name is taken for an output.      *)
LEMMA BoundIs ==
  ASSUME NEW q, WellFormed(q), NEW known, NEW i \in Scopes(q),
         NEW use, use.ref.qual = Unqualified, NEW src,
         NEW n \in 1 .. Len(Visible(q)[i]), HomeAt(q, known, i, use.ref, src, n)
  PROVE  /\ Barred(q, i, use, src, n) => Bound(q, known, i, use) = use.ref
         /\ ~Barred(q, i, use, src, n) => Bound(q, known, i, use) = Requalified(use.ref, src)
<1> DEFINE V == Visible(q)[i]
           ref == use.ref
           lone(m) == IsLone(q, known, V[m], ref.name)
           homes == {m \in DOMAIN V : lone(m)}
           alias == (CHOOSE s \in OwnersOf(q, known, V[Min(homes)], ref.name) : TRUE).as
<1>1. Bound(q, known, i, use) =
        IF \/ homes = {}
           \/ \E m \in 1 .. Min(homes) - 1 : alias \in Aliases(q, V[m])
           \/ \E m \in 1 .. Min(homes) : TakenForOutput(q, V[m], use)
           \/ use.clause = "having" /\ Min(homes) # 1
        THEN ref ELSE [ref EXCEPT !.qual = alias]
  BY DEF Bound
<1>2. V \in Seq(Scopes(q))
  BY Shape, ChainsAre DEF Chained
<1>3. /\ OwnersOf(q, known, V[n], ref.name) = {src}
      /\ n \in 1 .. Len(V)
      /\ \A m \in 1 .. n - 1 : OwnersOf(q, known, V[m], ref.name) = {}
  BY DEF HomeAt
<1> HIDE DEF V
<1>4. DOMAIN V = 1 .. Len(V) /\ Len(V) \in Nat
  BY <1>2
<1>5. lone(n) /\ \A m \in 1 .. n - 1 : ~lone(m)
  BY <1>3, FS_Singleton, FS_EmptySet DEF IsLone
<1> HIDE DEF lone
<1>6. n \in homes /\ homes \in SUBSET Nat
  BY <1>3, <1>4, <1>5
<1>7. ASSUME NEW y \in homes PROVE n <= y
  <2>1. y \in 1 .. Len(V) /\ lone(y)
    BY <1>4
  <2>2. y \notin 1 .. n - 1
    BY <1>5, <2>1
  <2> QED
    BY <1>3, <1>4, <2>1, <2>2
<1> HIDE DEF homes
<1>8. Min(homes) = n
  BY <1>6, <1>7, MinIsLeast
<1>9. (CHOOSE s \in OwnersOf(q, known, V[Min(homes)], ref.name) : TRUE) = src
  BY <1>3, <1>8
<1>10. alias = src.as
  BY <1>9
<1>11. homes # {}
  BY <1>6
<1> HIDE DEF alias
<1> QED
  BY <1>1, <1>8, <1>10, <1>11 DEF V, Requalified, Shadowed, Barred

(* A name that its own scope takes for an output stays bare. *)
LEMMA TakenStaysBare ==
  ASSUME NEW q, WellFormed(q), NEW known, NEW i \in Scopes(q),
         NEW use, TakenForOutput(q, i, use)
  PROVE  Bound(q, known, i, use) = use.ref
<1> DEFINE V == Visible(q)[i]
           homes == {m \in DOMAIN V : IsLone(q, known, V[m], use.ref.name)}
           alias == (CHOOSE s \in OwnersOf(q, known, V[Min(homes)], use.ref.name) : TRUE).as
<1>1. Bound(q, known, i, use) =
        IF \/ use.ref.qual # Unqualified
           \/ homes = {}
           \/ \E m \in 1 .. Min(homes) - 1 : alias \in Aliases(q, V[m])
           \/ \E m \in 1 .. Min(homes) : TakenForOutput(q, V[m], use)
           \/ use.clause = "having" /\ Min(homes) # 1
        THEN use.ref ELSE [use.ref EXCEPT !.qual = alias]
  BY DEF Bound
<1>2. V \in Seq(Scopes(q)) /\ V[1] = i
  BY Shape, ChainsAre DEF Chained
<1> HIDE DEF V, alias
<1>3. DOMAIN V = 1 .. Len(V) /\ Len(V) \in Nat
  BY <1>2
<1>4. homes \in SUBSET (1 .. Len(V))
  BY <1>3
<1> HIDE DEF homes
<1>5. CASE homes = {}
  BY <1>1, <1>5
<1>6. CASE homes # {}
  <2>1. homes \in SUBSET Nat
    BY <1>3, <1>4
  <2>2. PICK m \in homes : \A y \in homes : m <= y
    BY <1>6, <2>1, LeastExists
  <2>3. Min(homes) = m
    BY <2>1, <2>2, MinIsLeast
  <2>4. 1 \in 1 .. m
    BY <1>3, <1>4
  <2>5. \E n \in 1 .. Min(homes) : TakenForOutput(q, V[n], use)
    BY <1>2, <2>3, <2>4
  <2> QED
    BY <1>1, <2>5
<1> QED
  BY <1>5, <1>6

(* A reference of a query that runs, to a column of a table, is reported   *)
(* as that column or as possibly that column, and when the optimizer left  *)
(* no bare name, as that column.                                           *)
LEMMA DirectIsReported ==
  ASSUME NEW q, WellFormed(q), NEW known, FiniteSchema(known), Runs(q, known),
         NEW i \in Scopes(q), NEW use \in Uses(q, i), Cardinality(Meant(q, known, i, use.ref)) = 1,
         NEW src \in Meant(q, known, i, use.ref), src.at = 0
  PROVE  /\ Reported(Resolve(q, known, i, use.ref), <<src.table, use.ref.name>>)
         /\ Reported(Resolve(Qualified(q, known), known, i, Bound(q, known, i, use)),
                     <<src.table, use.ref.name>>)
         /\ Bound(q, known, i, use).qual # Unqualified =>
              Resolve(Qualified(q, known), known, i, Bound(q, known, i, use)) =
                ResolvedTo(<<src.table, use.ref.name>>)
<1>00. PICK ref : ref = use.ref
  OBVIOUS
<1> DEFINE V == Visible(q)[i]
           col == <<src.table, ref.name>>
<1>1. PICK Q : Q = Qualified(q, known)
  OBVIOUS
<1>2. /\ Nested(q) /\ Nested(Q) /\ Visible(Q) = Visible(q) /\ Scopes(Q) = Scopes(q)
      /\ \A k \in Scopes(q) : SourcesOf(Q, k) = SourcesOf(q, k)
  BY <1>1, Shape, QualifiedNests, QualifiedKeeps
<1>3. OneEach(q)
  BY UniqueAlias DEF Runs
<1>4. OneEach(Q)
  BY <1>2, <1>3 DEF OneEach
<1>0. PICK n \in 1 .. Len(V) : MeantAt(q, known, i, ref, src, n)
  BY <1>00, MeantIs
<1>5. /\ src \in SourcesOf(q, V[n])
      /\ src \in NamedIn(q, known, V[n], ref)
      /\ ref.name \in ColumnsOf(q, known, src)
      /\ \A m \in 1 .. n - 1 : NamedIn(q, known, V[m], ref) = {}
      /\ Meant(q, known, i, ref) =
           {s \in NamedIn(q, known, V[n], ref) : ref.name \in ColumnsOf(q, known, s)}
  BY <1>0 DEF MeantAt
<1>6. V \in Seq(Scopes(q))
  BY <1>2, ChainsAre DEF Chained
<1>7. /\ \A m \in 1 .. Len(V) : V[m] \in Scopes(q)
      /\ \A m \in 1 .. n - 1 : m \in 1 .. Len(V)
  BY <1>6
<1>8. src.table \in DOMAIN known
  <2>1. src \in UNION {SourcesOf(q, k) : k \in Scopes(q)}
    BY <1>5, <1>7
  <2>2. src.table \in TablesOf(q)
    BY <2>1 DEF TablesOf
  <2> QED
    BY <2>2 DEF Runs
<1>9. \A m \in 1 .. Len(V) : /\ Aliases(Q, V[m]) = Aliases(q, V[m])
                             /\ SourcesOf(Q, V[m]) = SourcesOf(q, V[m])
  BY <1>2, <1>7 DEF Aliases
<1>10. ref = [qual |-> ref.qual, name |-> ref.name]
  BY <1>00, UsesAre
<1>11. CASE ref.qual # Unqualified
  <2>1. src.as = ref.qual
    BY <1>5, <1>11 DEF NamedIn
  <2>2. \A m \in 1 .. n - 1 : ref.qual \notin Aliases(q, V[m])
    BY <1>5, <1>11 DEF NamedIn, Aliases
  <2>3. Resolve(q, known, i, ref) = ResolvedTo(col)
    BY <1>2, <1>3, <1>5, <1>8, <1>11, <2>1, <2>2, NamedResolves
  <2>4. Resolve(Q, known, i, ref) = ResolvedTo(col)
    <3>1. \A m \in 1 .. n - 1 : ref.qual \notin Aliases(Q, Visible(Q)[i][m])
      BY <1>2, <1>7, <1>9, <2>2
    <3>2. n \in 1 .. Len(Visible(Q)[i]) /\ src \in SourcesOf(Q, Visible(Q)[i][n]) /\ i \in Scopes(Q)
      BY <1>2, <1>5, <1>9
    <3> QED
      BY <1>2, <1>4, <1>8, <1>11, <2>1, <3>1, <3>2, NamedResolves
  <2>5. Bound(q, known, i, use) = ref
    BY <1>00, <1>11 DEF Bound
  <2> QED
    BY <1>00, <1>1, <2>3, <2>4, <2>5 DEF Reported, ResolvedTo, Ref
<1>12. CASE ref.qual = Unqualified
  <2>1. /\ Meant(q, known, i, ref) = OwnersOf(q, known, V[n], ref.name)
        /\ \A m \in 1 .. n - 1 : OwnersOf(q, known, V[m], ref.name) = {}
    BY <1>5, <1>12 DEF NamedIn, OwnersOf
  <2>2. OwnersOf(q, known, V[n], ref.name) = {src}
    <3>1. IsFiniteSet(SourcesOf(q, V[n]))
      BY <1>7, SourcesAre
    <3>2. IsFiniteSet(OwnersOf(q, known, V[n], ref.name))
      BY <3>1, FS_Subset DEF OwnersOf
    <3>3. Cardinality(OwnersOf(q, known, V[n], ref.name)) = 1
      BY <1>00, <2>1
    <3>4. PICK z : OwnersOf(q, known, V[n], ref.name) = {z}
      BY <3>2, <3>3, FS_Singleton
    <3>5. src \in OwnersOf(q, known, V[n], ref.name)
      BY <1>00, <2>1
    <3> QED
      BY <3>4, <3>5
  <2>3. ref.name \in ColumnsIn(known, src.table)
    BY <1>5 DEF ColumnsOf
  <2>4. Reported(Resolve(q, known, i, ref), col)
    BY <1>2, <1>5, <1>12, <2>3, BareResolves
  <2>5. /\ Barred(q, i, use, src, n) => Bound(q, known, i, use) = ref
        /\ ~Barred(q, i, use, src, n) => Bound(q, known, i, use) = Requalified(ref, src)
    <3>1. HomeAt(q, known, i, ref, src, n)
      BY <2>1, <2>2 DEF HomeAt
    <3> QED
      BY <1>00, <1>12, <3>1, BoundIs
  <2>6. n \in 1 .. Len(Visible(Q)[i]) /\ src \in SourcesOf(Q, Visible(Q)[i][n]) /\ i \in Scopes(Q)
    BY <1>2, <1>5, <1>9
  <2>7. CASE Barred(q, i, use, src, n)
    <3>1. Bound(q, known, i, use) = ref
      BY <2>5, <2>7
    <3>2. Reported(Resolve(Q, known, i, ref), col)
      BY <1>2, <1>12, <2>3, <2>6, BareResolves
    <3> QED
      BY <1>00, <1>1, <1>12, <2>4, <3>1, <3>2
  <2>8. CASE ~Barred(q, i, use, src, n)
    <3>1. PICK new : new = Bound(q, known, i, use)
      OBVIOUS
    <3>2. new = Requalified(ref, src)
      BY <2>5, <2>8, <3>1
    <3>3. new.qual = src.as /\ new.name = ref.name
      BY <1>10, <3>2 DEF Requalified
    <3>4. src.as # Unqualified
      BY <1>5, <1>7, SourcesAre
    <3>5. \A m \in 1 .. n - 1 : new.qual \notin Aliases(Q, Visible(Q)[i][m])
      BY <1>2, <1>7, <1>9, <2>8, <3>3 DEF Shadowed, Barred
    <3>6. Resolve(Q, known, i, new) = ResolvedTo(<<src.table, new.name>>)
      BY <1>2, <1>4, <1>8, <2>6, <3>3, <3>4, <3>5, NamedResolves
    <3>7. Resolve(Q, known, i, new) = ResolvedTo(col)
      BY <3>3, <3>6
    <3> QED
      BY <1>00, <1>1, <2>4, <3>1, <3>7 DEF Reported, ResolvedTo, Ref
  <2> QED
    BY <2>7, <2>8
<1> QED
  BY <1>00, <1>11, <1>12

(* A star that the optimizer replaces is reported column by column. *)
LEMMA StarIsReported ==
  ASSUME NEW q, WellFormed(q), NEW known, FiniteSchema(known), Runs(q, known),
         NEW i \in Scopes(q), Expandable(q, known, i),
         NEW src \in SourcesOf(q, i), src.at = 0, NEW col \in ColumnsIn(known, src.table)
  PROVE  \E ref \in OwnReads(Qualified(q, known), i) :
           Resolve(Qualified(q, known), known, i, ref) = ResolvedTo(<<src.table, col>>)
<1>1. PICK Q : Q = Qualified(q, known)
  OBVIOUS
<1>2. PICK ref : ref = [qual |-> src.as, name |-> col]
  OBVIOUS
<1>3. ref \in OwnReads(Q, i)
  <2>1. col \in ColumnsOf(q, known, src)
    BY DEF ColumnsOf
  <2> QED
    BY <1>1, <1>2, <2>1, QualifiedReads
<1>4. /\ Nested(q) /\ Nested(Q) /\ Visible(Q) = Visible(q) /\ Scopes(Q) = Scopes(q)
      /\ \A k \in Scopes(q) : SourcesOf(Q, k) = SourcesOf(q, k)
  BY <1>1, Shape, QualifiedNests, QualifiedKeeps
<1>5. OneEach(Q)
  <2>1. OneEach(q)
    BY UniqueAlias DEF Runs
  <2> QED
    BY <1>4, <2>1 DEF OneEach
<1>6. src.table \in DOMAIN known
  BY DEF ColumnsIn
<1>7. Visible(Q)[i] \in Seq(Scopes(Q)) /\ 1 \in 1 .. Len(Visible(Q)[i]) /\ Visible(Q)[i][1] = i
  BY <1>4, ChainsAre DEF Chained
<1>8. ref.qual = src.as /\ ref.name = col /\ ref.qual # Unqualified
  BY <1>2, SourcesAre
<1>9. src \in SourcesOf(Q, Visible(Q)[i][1]) /\ i \in Scopes(Q)
  BY <1>4, <1>7
<1>10. \A m \in 1 .. 1 - 1 : ref.qual \notin Aliases(Q, Visible(Q)[i][m])
  OBVIOUS
<1>11. Resolve(Q, known, i, ref) = ResolvedTo(<<src.table, ref.name>>)
  BY <1>4, <1>5, <1>6, <1>7, <1>8, <1>9, <1>10, NamedResolves
<1> QED
  BY <1>1, <1>3, <1>8, <1>11

(* A column is read by reference, or by a star over its table. *)
LEMMA ReadHow ==
  ASSUME NEW q, NEW known, NEW pair \in ColumnsRead(q, known)
  PROVE  \E i \in Scopes(q) :
           \/ \E ref \in InputRefs(q, known, i) : \E src \in Meant(q, known, i, ref) :
                src.at = 0 /\ pair = <<src.table, ref.name>>
           \/ /\ q[i].star
              /\ \E src \in SourcesOf(q, i) : \E col \in ColumnsIn(known, src.table) :
                   src.at = 0 /\ pair = <<src.table, col>>
<1>1. PICK i \in Scopes(q) : pair \in ReadIn(q, known, i)
  BY DEF ColumnsRead
<1> DEFINE tables(srcs) == {src.table : src \in {s \in srcs : s.at = 0}}
<1>2. \/ \E ref \in InputRefs(q, known, i) : pair \in tables(Meant(q, known, i, ref)) \X {ref.name}
      \/ \E table \in (IF q[i].star THEN tables(SourcesOf(q, i)) ELSE {}) :
           pair \in {table} \X ColumnsIn(known, table)
  <2> DEFINE starred == IF q[i].star THEN tables(SourcesOf(q, i)) ELSE {}
             named == {tables(Meant(q, known, i, ref)) \X {ref.name} : ref \in InputRefs(q, known, i)}
             whole == {{table} \X ColumnsIn(known, table) : table \in starred}
  <2>1. ReadIn(q, known, i) = (UNION named) \cup (UNION whole)
    BY DEF ReadIn
  <2> HIDE DEF named, whole, tables, starred
  <2>5. pair \in UNION named \/ pair \in UNION whole
    BY <1>1, <2>1
  <2>2. (\E X \in named : pair \in X) \/ (\E X \in whole : pair \in X)
    BY <2>5
  <2>3. (\E X \in named : pair \in X) =>
          \E ref \in InputRefs(q, known, i) : pair \in tables(Meant(q, known, i, ref)) \X {ref.name}
    BY DEF named
  <2>4. (\E X \in whole : pair \in X) =>
            \E table \in starred : pair \in {table} \X ColumnsIn(known, table)
    BY DEF whole
  <2> QED
    BY <2>2, <2>3, <2>4 DEF starred
<1>3. CASE \E ref \in InputRefs(q, known, i) : pair \in tables(Meant(q, known, i, ref)) \X {ref.name}
  <2>1. PICK ref \in InputRefs(q, known, i) : pair \in tables(Meant(q, known, i, ref)) \X {ref.name}
    BY <1>3
  <2>2. PICK table \in tables(Meant(q, known, i, ref)) : pair = <<table, ref.name>>
    BY <2>1
  <2>3. PICK src \in Meant(q, known, i, ref) : src.at = 0 /\ table = src.table
    OBVIOUS
  <2> QED
    BY <2>2, <2>3
<1>4. CASE \E table \in (IF q[i].star THEN tables(SourcesOf(q, i)) ELSE {}) :
             pair \in {table} \X ColumnsIn(known, table)
  <2>1. q[i].star
    BY <1>4
  <2>2. PICK table \in tables(SourcesOf(q, i)) : pair \in {table} \X ColumnsIn(known, table)
    BY <1>4, <2>1
  <2>3. PICK col \in ColumnsIn(known, table) : pair = <<table, col>>
    BY <2>2
  <2>4. PICK src \in SourcesOf(q, i) : src.at = 0 /\ table = src.table
    OBVIOUS
  <2> QED
    BY <2>1, <2>3, <2>4
<1> QED
  BY <1>2, <1>3, <1>4

(* Every column a query reads is in the report on it: of the tree as it is *)
(* or as the optimizer left it, if no star is left there; and as a column  *)
(* it is proven to read, if the optimizer bound all names.                 *)
LEMMA ReadIsReported ==
  ASSUME NEW q, WellFormed(q), NEW known, FiniteSchema(known), Runs(q, known),
         NEW pair \in ColumnsRead(q, known)
  PROVE  /\ ~HasStar(q) /\ NamesAgree(q, known, FALSE) =>
              \E r \in Report(q, known, FALSE).refs : Reported(r, pair)
         /\ ~HasStar(Qualified(q, known)) /\ NamesAgree(q, known, TRUE) =>
              \E r \in Report(Qualified(q, known), known, TRUE).refs : Reported(r, pair)
         /\ /\ Bindable(q, known) /\ NamesAgree(q, known, TRUE)
            /\ \A i \in Scopes(q) : q[i].star => Expandable(q, known, i)
            => pair \in CanonicalOf(Report(Qualified(q, known), known, TRUE))
<1>1. PICK Q : Q = Qualified(q, known)
  OBVIOUS
<1>2. /\ Nested(q) /\ Nested(Q) /\ Scopes(Q) = Scopes(q)
      /\ \A k \in Scopes(q) : ~Expandable(q, known, k) => Q[k].star = q[k].star
  BY <1>1, Shape, QualifiedNests, QualifiedKeeps
<1>3. ASSUME NEW p, Nested(p), NEW k \in Scopes(p), NEW ref \in OwnReads(p, k), NEW opt
      PROVE  Resolve(p, known, k, ref) \in Report(p, known, opt).refs
  <2>1. PICK use \in Columns(p)[k] : use.ref = ref
    BY <1>3, OwnAreColumns
  <2>2. Report(p, known, opt).refs =
            UNION {{Resolve(p, known, n, x.ref) : x \in Columns(p)[n]} : n \in Scopes(p)}
    BY DEF Report
  <2> QED
    BY <2>1, <2>2
<1>5. ASSUME NEW r \in Report(Q, known, TRUE).refs, NEW t, NEW c, r = ResolvedTo(<<t, c>>)
      PROVE  <<t, c>> \in CanonicalOf(Report(Q, known, TRUE)) /\ Reported(r, <<t, c>>)
  <2>1. r.canonical = <<t, c>>
    BY <1>5 DEF ResolvedTo, Ref
  <2>2. <<t, c>> # NoColumn
    BY DEF NoColumn
  <2> QED
    BY <2>1, <2>2 DEF CanonicalOf, Reported
<1>6. PICK i \in Scopes(q) :
        \/ \E ref \in InputRefs(q, known, i) : \E src \in Meant(q, known, i, ref) :
             src.at = 0 /\ pair = <<src.table, ref.name>>
        \/ /\ q[i].star
           /\ \E src \in SourcesOf(q, i) : \E col \in ColumnsIn(known, src.table) :
                src.at = 0 /\ pair = <<src.table, col>>
  BY ReadHow
<1>7. CASE \E ref \in InputRefs(q, known, i) : \E src \in Meant(q, known, i, ref) :
             src.at = 0 /\ pair = <<src.table, ref.name>>
  <2>0. PICK ref \in InputRefs(q, known, i) : \E src \in Meant(q, known, i, ref) :
          src.at = 0 /\ pair = <<src.table, ref.name>>
    BY <1>7
  <2>1. PICK src \in Meant(q, known, i, ref) : src.at = 0 /\ pair = <<src.table, ref.name>>
    BY <2>0
  <2>2. ASSUME NEW opt, NamesAgree(q, known, opt)
        PROVE  \E use \in Seen(q, known, i, opt) :
                 /\ use \in Uses(q, i) /\ use.ref.name = ref.name
                 /\ src \in Meant(q, known, i, use.ref)
                 /\ Cardinality(Meant(q, known, i, use.ref)) = 1
    <3>1. PICK use \in Seen(q, known, i, opt) :
            use.ref.name = ref.name /\ Meant(q, known, i, use.ref) = Meant(q, known, i, ref)
      BY <2>2 DEF NamesAgree
    <3>2. Cardinality(Meant(q, known, i, ref)) = 1
      BY DEF Runs
    <3>3. use \in Uses(q, i)
      BY DEF Seen
    <3> QED
      BY <2>1, <3>1, <3>2, <3>3
  <2>3. ASSUME NamesAgree(q, known, FALSE)
        PROVE  \E r \in Report(q, known, FALSE).refs : Reported(r, pair)
    <3>1. PICK use \in Seen(q, known, i, FALSE) :
            /\ use \in Uses(q, i) /\ use.ref.name = ref.name
            /\ src \in Meant(q, known, i, use.ref)
            /\ Cardinality(Meant(q, known, i, use.ref)) = 1
      BY <2>2, <2>3
    <3>2. use.ref \in OwnReads(q, i)
      BY DEF Seen, OwnReads
    <3>3. Reported(Resolve(q, known, i, use.ref), pair)
      BY <2>1, <3>1, DirectIsReported
    <3> QED
      BY <1>2, <1>3, <3>2, <3>3
  <2>4. ASSUME NamesAgree(q, known, TRUE)
        PROVE  \E new \in OwnReads(Q, i) :
                 /\ Reported(Resolve(Q, known, i, new), pair)
                 /\ new.qual # Unqualified => Resolve(Q, known, i, new) = ResolvedTo(pair)
    <3>1. PICK use \in Seen(q, known, i, TRUE) :
            /\ use \in Uses(q, i) /\ use.ref.name = ref.name
            /\ src \in Meant(q, known, i, use.ref)
            /\ Cardinality(Meant(q, known, i, use.ref)) = 1
      BY <2>2, <2>4
    <3>2. PICK new : new = Bound(q, known, i, use)
      OBVIOUS
    <3>3. new \in OwnReads(Q, i)
      BY <1>1, <3>2, QualifiedReads
    <3>4. /\ Reported(Resolve(Q, known, i, new), pair)
          /\ new.qual # Unqualified => Resolve(Q, known, i, new) = ResolvedTo(pair)
      BY <1>1, <2>1, <3>1, <3>2, DirectIsReported
    <3> QED
      BY <3>3, <3>4
  <2>5. ASSUME NamesAgree(q, known, TRUE)
        PROVE  /\ \E r \in Report(Q, known, TRUE).refs : Reported(r, pair)
               /\ Bindable(q, known) => pair \in CanonicalOf(Report(Q, known, TRUE))
    <3>1. PICK new \in OwnReads(Q, i) :
            /\ Reported(Resolve(Q, known, i, new), pair)
            /\ new.qual # Unqualified => Resolve(Q, known, i, new) = ResolvedTo(pair)
      BY <2>4, <2>5
    <3>2. Resolve(Q, known, i, new) \in Report(Q, known, TRUE).refs
      BY <1>2, <1>3
    <3>3. ASSUME Bindable(q, known) PROVE pair \in CanonicalOf(Report(Q, known, TRUE))
      <4>1. new.qual # Unqualified
        BY <1>1, <3>3 DEF Bindable
      <4> QED
        BY <1>5, <2>1, <3>1, <3>2, <4>1
    <3> QED
      BY <3>1, <3>2, <3>3
  <2> QED
    BY <1>1, <2>3, <2>5
<1>8. CASE /\ q[i].star
           /\ \E src \in SourcesOf(q, i) : \E col \in ColumnsIn(known, src.table) :
                src.at = 0 /\ pair = <<src.table, col>>
  <2>0. PICK src \in SourcesOf(q, i) : \E col \in ColumnsIn(known, src.table) :
          src.at = 0 /\ pair = <<src.table, col>>
    BY <1>8
  <2>1. PICK col \in ColumnsIn(known, src.table) : src.at = 0 /\ pair = <<src.table, col>>
    BY <2>0
  <2>2. HasStar(q)
    BY <1>8 DEF HasStar
  <2>3. CASE ~Expandable(q, known, i)
    <3>1. HasStar(Q)
      BY <1>2, <1>8, <2>3 DEF HasStar
    <3> QED
      BY <1>1, <1>8, <2>2, <2>3, <3>1
  <2>4. CASE Expandable(q, known, i)
    <3>1. PICK ref \in OwnReads(Q, i) : Resolve(Q, known, i, ref) = ResolvedTo(pair)
      BY <1>1, <2>1, <2>4, StarIsReported
    <3>2. Resolve(Q, known, i, ref) \in Report(Q, known, TRUE).refs
      BY <1>2, <1>3
    <3>3. pair \in CanonicalOf(Report(Q, known, TRUE)) /\ Reported(Resolve(Q, known, i, ref), pair)
      BY <1>5, <2>1, <3>1, <3>2
    <3> QED
      BY <1>1, <2>2, <3>2, <3>3
  <2> QED
    BY <2>3, <2>4
<1> QED
  BY <1>6, <1>7, <1>8

-----------------------------------------------------------------------------
(* What a verdict means *)

LEMMA AllowedMeans ==
  ASSUME NEW pol, NEW rep, NEW known, NEW v \in Verdicts(pol, rep, known), v.status = "allowed"
  PROVE  /\ ~rep.multiple /\ rep.supported
         /\ RefusedTables(pol, rep, known) = {}
         /\ v = Explained("allowed", NoColumn, pol, rep)
         /\ \/ pol.deniedColumns = {}
            \/ ~rep.star /\ DeniedColumns(pol, rep) = {} /\ MaybeDenied(pol, rep) = {}
<1> DEFINE tables == RefusedTables(pol, rep, known)
           denied == DeniedColumns(pol, rep)
           told(status, about) == Explained(status, about, pol, rep)
<1>1. ASSUME NEW status, NEW about, NEW r, NEW d
      PROVE  Verdict(status, about, r, d).status = status
  BY DEF Verdict
<1>2. ASSUME NEW status, NEW about PROVE told(status, about).status = status
  BY <1>1 DEF Explained
<1>3. v \in IF rep.multiple THEN {Verdict("multiple_statements", NoColumn, {}, {})}
            ELSE IF ~rep.supported THEN {Verdict("unresolved", NoColumn, {}, {})}
            ELSE IF tables # {} THEN {Verdict("denied", <<table>>, {}, {}) : table \in tables}
            ELSE IF pol.deniedColumns = {} THEN {told("allowed", NoColumn)}
            ELSE IF rep.star THEN {told("unresolved", NoColumn)}
            ELSE IF denied # {} THEN {told("denied", column) : column \in denied}
            ELSE IF MaybeDenied(pol, rep) # {} THEN {told("ambiguous", NoColumn)}
            ELSE IF Unproven(rep) # {} THEN {told("unresolved", NoColumn)}
            ELSE {told("allowed", NoColumn)}
  BY DEF Verdicts
<1> HIDE DEF tables, denied, told
<1>4. ~rep.multiple
  BY <1>1, <1>3
<1>5. rep.supported
  BY <1>1, <1>3, <1>4
<1>6. tables = {}
  <2>1. \A table \in tables : Verdict("denied", <<table>>, {}, {}).status = "denied"
    BY <1>1
  <2> QED
    BY <1>3, <1>4, <1>5, <2>1
<1>7. \/ pol.deniedColumns = {} /\ v = told("allowed", NoColumn)
      \/ /\ pol.deniedColumns # {} /\ ~rep.star /\ denied = {} /\ MaybeDenied(pol, rep) = {}
         /\ v = told("allowed", NoColumn)
  <2>1. CASE pol.deniedColumns = {}
    BY <1>3, <1>4, <1>5, <1>6, <2>1
  <2>2. CASE pol.deniedColumns # {}
    <3>1. ~rep.star
      BY <1>2, <1>3, <1>4, <1>5, <1>6, <2>2
    <3>2. denied = {}
      <4>1. \A column \in denied : told("denied", column).status = "denied"
        BY <1>2
      <4> QED
        BY <1>3, <1>4, <1>5, <1>6, <2>2, <3>1, <4>1
    <3>3. MaybeDenied(pol, rep) = {}
      BY <1>2, <1>3, <1>4, <1>5, <1>6, <2>2, <3>1, <3>2
    <3>4. v = told("allowed", NoColumn)
      BY <1>2, <1>3, <1>4, <1>5, <1>6, <2>2, <3>1, <3>2, <3>3
    <3> QED
      BY <2>2, <3>1, <3>2, <3>3, <3>4
  <2> QED
    BY <2>1, <2>2
<1> QED
  BY <1>4, <1>5, <1>6, <1>7 DEF tables, denied, told

(* Of what is not one SELECT with an alias for each source there is no     *)
(* report to allow.                                                        *)
LEMMA Analyzed ==
  ASSUME NEW s, NEW known, NEW opt, Analyze(s, known, opt).supported
  PROVE  /\ s.parses /\ s.count # 0 /\ ~(s.count > 1) /\ s.root \in ReadRoots
         /\ ~DuplicateAlias(s.query)
         /\ opt => Analyze(s, known, opt) = Report(Qualified(s.query, known), known, TRUE)
         /\ ~opt => Analyze(s, known, opt) = Report(s.query, known, FALSE)
<1>1. ~Unsupported(TRUE).supported /\ ~Unsupported(FALSE).supported
  BY DEF Unsupported
<1>2. s.parses /\ s.count # 0
  BY <1>1 DEF Analyze
<1>3. ~(s.count > 1)
  BY <1>1, <1>2 DEF Analyze
<1>4. s.root \in ReadRoots /\ ~DuplicateAlias(s.query)
  BY <1>1, <1>2, <1>3 DEF Analyze
<1> QED
  BY <1>2, <1>3, <1>4 DEF Analyze

LEMMA TablesReported ==
  ASSUME NEW q, WellFormed(q), NEW known, NEW opt
  PROVE  /\ Report(q, known, opt).baseTables = TablesOf(q)
         /\ Report(Qualified(q, known), known, opt).baseTables = TablesOf(q)
<1>1. PICK Q : Q = Qualified(q, known)
  OBVIOUS
<1>2. Scopes(Q) = Scopes(q) /\ \A k \in Scopes(q) : SourcesOf(Q, k) = SourcesOf(q, k)
  BY <1>1, QualifiedNests, QualifiedKeeps
<1>3. ASSUME NEW p, Scopes(p) = Scopes(q), \A k \in Scopes(q) : SourcesOf(p, k) = SourcesOf(q, k)
      PROVE  Report(p, known, opt).baseTables = TablesOf(q)
  <2>1. Report(p, known, opt).baseTables = UNION {BaseTables(p, k) : k \in Scopes(p)}
    BY DEF Report
  <2>2. \A k \in Scopes(q) : BaseTables(p, k) = {src.table : src \in {x \in SourcesOf(q, k) : x.at = 0}}
    BY <1>3 DEF BaseTables
  <2>3. \A t : t \in UNION {BaseTables(p, k) : k \in Scopes(p)} <=>
                 \E k \in Scopes(q) : \E src \in SourcesOf(q, k) : src.at = 0 /\ t = src.table
    BY <1>3, <2>2
  <2>4. \A t : t \in TablesOf(q) <=>
                 \E k \in Scopes(q) : \E src \in SourcesOf(q, k) : src.at = 0 /\ t = src.table
    BY DEF TablesOf
  <2>5. UNION {BaseTables(p, k) : k \in Scopes(p)} = TablesOf(q)
    <3>1. PICK B, T : B = UNION {BaseTables(p, k) : k \in Scopes(p)} /\ T = TablesOf(q)
      OBVIOUS
    <3>2. \A t : t \in B <=> t \in T
      BY <2>3, <2>4, <3>1
    <3>3. B = UNION {B} /\ T = UNION {T}
      OBVIOUS
    <3> QED
      BY <3>1, <3>2, <3>3
  <2> QED
    BY <2>1, <2>5
<1> QED
  BY <1>1, <1>2, <1>3

(* Whatever the schema and the policy, and whether or not the optimizer    *)
(* gives up: of the statements on whose names optimizer and database       *)
(* agree, Policy.check allows no query that the database of that schema    *)
(* runs and that reads a denied column, by reference, by star or out of an *)
(* inner scope, or a table it must not.                                    *)
THEOREM AllowedReadsNothingDenied ==
  ASSUME NEW s, NEW known, NEW pol, NEW opt \in BOOLEAN,
         WellFormed(s.query), FiniteSchema(known), Runs(s.query, known),
         NamesAgree(s.query, known, opt),
         NEW v \in Check(pol, s, known, opt), v.status = "allowed"
  PROVE  /\ ColumnsRead(s.query, known) \cap pol.deniedColumns = {}
         /\ TablesOf(s.query) \cap pol.deniedTables = {}
         /\ pol.allowed # {} => TablesOf(s.query) \subseteq pol.allowed
<1>1. PICK q, rep : q = s.query /\ rep = Analyze(s, known, opt)
  OBVIOUS
<1>2. v \in Verdicts(pol, rep, known)
  BY <1>1 DEF Check
<1>3. /\ rep.supported /\ RefusedTables(pol, rep, known) = {}
      /\ \/ pol.deniedColumns = {}
         \/ ~rep.star /\ DeniedColumns(pol, rep) = {} /\ MaybeDenied(pol, rep) = {}
  BY <1>2, AllowedMeans
<1>4. /\ opt => rep = Report(Qualified(q, known), known, TRUE)
      /\ ~opt => rep = Report(q, known, FALSE)
  BY <1>1, <1>3, Analyzed
<1>5. rep.baseTables = TablesOf(q)
  <2>1. WellFormed(q)
    BY <1>1
  <2>2. /\ Report(q, known, FALSE).baseTables = TablesOf(q)
        /\ Report(Qualified(q, known), known, TRUE).baseTables = TablesOf(q)
    BY <2>1, TablesReported
  <2> QED
    BY <1>4, <2>2
<1>6. \A table \in TablesOf(q) :
        table \notin pol.deniedTables /\ (pol.allowed # {} => table \in pol.allowed)
  <2>1. TablesOf(q) \subseteq DOMAIN known
    BY <1>1 DEF Runs
  <2>2. \A table \in rep.baseTables :
          ~(\/ table \in pol.deniedTables
            \/ pol.allowed # {} /\ table \in DOMAIN known /\ table \notin pol.allowed)
    BY <1>3 DEF RefusedTables
  <2> QED
    BY <1>5, <2>1, <2>2
<1>7. ASSUME NEW pair \in ColumnsRead(q, known), pair \in pol.deniedColumns PROVE FALSE
  <2>1. ~rep.star /\ DeniedColumns(pol, rep) = {} /\ MaybeDenied(pol, rep) = {}
    BY <1>3, <1>7
  <2>2. \E r \in rep.refs : Reported(r, pair)
    <3>1. /\ ~HasStar(q) /\ NamesAgree(q, known, FALSE) =>
               \E r \in Report(q, known, FALSE).refs : Reported(r, pair)
          /\ ~HasStar(Qualified(q, known)) /\ NamesAgree(q, known, TRUE) =>
               \E r \in Report(Qualified(q, known), known, TRUE).refs : Reported(r, pair)
      BY <1>1, ReadIsReported
    <3>2. /\ Report(q, known, FALSE).star = HasStar(q)
          /\ Report(Qualified(q, known), known, TRUE).star = HasStar(Qualified(q, known))
      BY DEF Report
    <3>3. (opt = TRUE \/ opt = FALSE) /\ NamesAgree(q, known, opt)
      BY <1>1
    <3> QED
      BY <1>4, <2>1, <3>1, <3>2, <3>3
  <2>3. PICK r \in rep.refs : Reported(r, pair)
    BY <2>2
  <2>4. CASE r.canonical = pair
    <3>1. pair # NoColumn
      <4>1. PICK i \in Scopes(q) : pair \in ReadIn(q, known, i)
        BY DEF ColumnsRead
      <4>2. \E t, c : pair = <<t, c>>
        BY ReadHow
      <4> QED
        BY <4>2 DEF NoColumn
    <3>2. pair \in CanonicalOf(rep)
      BY <2>3, <2>4, <3>1 DEF CanonicalOf
    <3> QED
      BY <1>7, <2>1, <3>2 DEF DeniedColumns
  <2>5. CASE pair \in r.candidates
    BY <1>7, <2>1, <2>5 DEF MaybeDenied
  <2> QED
    BY <2>3, <2>4, <2>5 DEF Reported
<1> QED
  BY <1>1, <1>6, <1>7

(* And what the optimizer could bind of such a query, the report has: each *)
(* column read is listed among those the decision was based on.            *)
THEOREM AllowedReadsAreListed ==
  ASSUME NEW s, NEW known, NEW pol,
         WellFormed(s.query), FiniteSchema(known), Runs(s.query, known), Bindable(s.query, known),
         NamesAgree(s.query, known, TRUE),
         \A i \in Scopes(s.query) : s.query[i].star => Expandable(s.query, known, i),
         NEW v \in Check(pol, s, known, TRUE), v.status = "allowed"
  PROVE  ColumnsRead(s.query, known) \subseteq v.resolved
<1>1. PICK q, rep : q = s.query /\ rep = Analyze(s, known, TRUE)
  OBVIOUS
<1>2. v \in Verdicts(pol, rep, known)
  BY <1>1 DEF Check
<1>3. rep.supported /\ v = Explained("allowed", NoColumn, pol, rep)
  BY <1>2, AllowedMeans
<1>4. rep = Report(Qualified(q, known), known, TRUE)
  BY <1>1, <1>3, Analyzed
<1>5. v.resolved = CanonicalOf(rep) \ pol.deniedColumns
  BY <1>3 DEF Explained, Verdict
<1>6. ASSUME NEW pair \in ColumnsRead(q, known) PROVE pair \in CanonicalOf(rep)
  <2>1. \A i \in Scopes(q) : q[i].star => Expandable(q, known, i)
    BY <1>1
  <2> QED
    BY <1>1, <1>4, <2>1, ReadIsReported
<1>7. ColumnsRead(q, known) \cap pol.deniedColumns = {}
  <2>1. TRUE \in BOOLEAN
    OBVIOUS
  <2> QED
    BY <1>1, <2>1, AllowedReadsNothingDenied
<1> QED
  BY <1>1, <1>5, <1>6, <1>7

-----------------------------------------------------------------------------
(* Nothing is reported that is not read *)

LEMMA ReadByName ==
  ASSUME NEW q, NEW known, NEW i \in Scopes(q), NEW ref \in InputRefs(q, known, i),
         NEW src \in Meant(q, known, i, ref), src.at = 0
  PROVE  <<src.table, ref.name>> \in ColumnsRead(q, known)
<1> DEFINE tables(srcs) == {s.table : s \in {x \in srcs : x.at = 0}}
           named == {tables(Meant(q, known, i, r)) \X {r.name} : r \in InputRefs(q, known, i)}
<1>1. src.table \in tables(Meant(q, known, i, ref))
  OBVIOUS
<1>2. tables(Meant(q, known, i, ref)) \X {ref.name} \in named
  OBVIOUS
<1>3. UNION named \subseteq ReadIn(q, known, i)
  BY DEF ReadIn
<1> HIDE DEF tables, named
<1>4. <<src.table, ref.name>> \in tables(Meant(q, known, i, ref)) \X {ref.name}
  BY <1>1
<1>5. <<src.table, ref.name>> \in ReadIn(q, known, i)
  BY <1>2, <1>3, <1>4
<1> QED
  BY <1>5 DEF ColumnsRead

LEMMA ReadByStar ==
  ASSUME NEW q, NEW known, NEW i \in Scopes(q), q[i].star,
         NEW src \in SourcesOf(q, i), src.at = 0, NEW col \in ColumnsIn(known, src.table)
  PROVE  <<src.table, col>> \in ColumnsRead(q, known)
<1> DEFINE starred == {s.table : s \in {x \in SourcesOf(q, i) : x.at = 0}}
           whole == {{table} \X ColumnsIn(known, table) : table \in starred}
<1>1. {src.table} \X ColumnsIn(known, src.table) \in whole
  OBVIOUS
<1>2. UNION whole \subseteq ReadIn(q, known, i)
  BY DEF ReadIn
<1> HIDE DEF whole
<1>3. <<src.table, col>> \in {src.table} \X ColumnsIn(known, src.table)
  OBVIOUS
<1>4. <<src.table, col>> \in ReadIn(q, known, i)
  BY <1>1, <1>2, <1>3
<1> QED
  BY <1>4 DEF ColumnsRead

(* The n-th visible scope is the innermost with a source of that alias; it *)
(* has the column, and the query reads it, if it is one of a table.        *)
MeansAt(q, known, i, ref, src, n) ==
  /\ src \in SourcesOf(q, Visible(q)[i][n]) /\ src.as = ref.qual
  /\ \A m \in 1 .. n - 1 : ref.qual \notin Aliases(q, Visible(q)[i][m])
  /\ ref.name \in ColumnsOf(q, known, src)
  /\ src.at = 0 => <<src.table, ref.name>> \in ColumnsRead(q, known)
Means(q, known, i, ref) ==
  /\ ref.qual # Unqualified
  /\ \E n \in 1 .. Len(Visible(q)[i]) : \E src : MeansAt(q, known, i, ref, src, n)

(* The scopes a scope sees are scopes, itself the first. *)
LEMMA SeenAreScopes ==
  ASSUME NEW q, WellFormed(q), NEW i \in Scopes(q)
  PROVE  /\ Visible(q)[i] \in Seq(Scopes(q)) /\ Len(Visible(q)[i]) \in Nat
         /\ 1 \in 1 .. Len(Visible(q)[i]) /\ Visible(q)[i][1] = i
         /\ \A n \in 1 .. Len(Visible(q)[i]) : Visible(q)[i][n] \in Scopes(q)
<1>1. PICK V : V = Visible(q)[i]
  OBVIOUS
<1>2. V \in Seq(Scopes(q)) /\ 1 <= Len(V) /\ V[1] = i
  BY <1>1, Shape, ChainsAre DEF Chained
<1> QED
  BY <1>1, <1>2

(* Where the optimizer bound all names, a reference of the query it made   *)
(* of one that runs means a column, of a source that is in sight.          *)
LEMMA OwnMeans ==
  ASSUME NEW q, WellFormed(q), NEW known, FiniteSchema(known),
         Runs(q, known), Bindable(q, known),
         NEW k \in Scopes(q), NEW ref \in OwnReads(Qualified(q, known), k)
  PROVE  Means(q, known, k, ref)
<1>0. PICK V : V = Visible(q)[k]
  OBVIOUS
<1>1. ref.qual # Unqualified
  BY DEF Bindable
<1>2. /\ V \in Seq(Scopes(q)) /\ Len(V) \in Nat /\ 1 \in 1 .. Len(V) /\ V[1] = k
      /\ \A m \in 1 .. Len(V) : V[m] \in Scopes(q)
  BY <1>0, SeenAreScopes
<1>3. CASE Expandable(q, known, k) /\ OfStar(q, known, k, ref)
  <2>1. PICK src \in SourcesOf(q, k) : \E col \in ColumnsOf(q, known, src) :
          ref = [qual |-> src.as, name |-> col]
    BY <1>3 DEF OfStar
  <2>2. PICK col \in ColumnsOf(q, known, src) : ref = [qual |-> src.as, name |-> col]
    BY <2>1
  <2>3. ref.qual = src.as /\ ref.name = col
    BY <2>2
  <2>4. src.at = 0 => <<src.table, ref.name>> \in ColumnsRead(q, known)
    BY <1>3, <2>3, ReadByStar DEF Expandable, ColumnsOf
  <2>5. \A m \in 1 .. 1 - 1 : ref.qual \notin Aliases(q, V[m])
    OBVIOUS
  <2>6. MeansAt(q, known, k, ref, src, 1)
    BY <1>0, <1>2, <2>3, <2>4, <2>5 DEF MeansAt
  <2> QED
    BY <1>0, <1>1, <1>2, <2>6 DEF Means
<1>4. CASE \E use \in Seen(q, known, k, TRUE) : ref = Bound(q, known, k, use)
  <2>1. PICK use \in Seen(q, known, k, TRUE) : ref = Bound(q, known, k, use)
    BY <1>4
  <2>1a. PICK r : r = use.ref
    OBVIOUS
  <2>1b. use \in Uses(q, k) /\ ~Replaced(q, known, k, use)
    BY DEF Seen
  <2>1c. ~MeansOutput(q, known, k, use)
    <3> SUFFICES ASSUME MeansOutput(q, known, k, use) PROVE FALSE
      OBVIOUS
    <3>1. use.ref.qual = Unqualified /\ use.ref.name \in Named(q, k)
      BY DEF MeansOutput
    <3>2. CASE use.clause = "sort"
      <4>1. TakenForOutput(q, k, use)
        BY <3>1, <3>2 DEF TakenForOutput
      <4> QED
        BY <1>1, <2>1, <3>1, <4>1, TakenStaysBare
    <3>3. CASE use.clause = "group" /\ OwnersOf(q, known, k, use.ref.name) = {}
      <4>1. ~IsLone(q, known, k, use.ref.name)
        BY <3>3, FS_EmptySet DEF IsLone
      <4> QED
        BY <2>1b, <3>1, <3>3, <4>1 DEF Replaced
    <3> QED
      BY <3>2, <3>3 DEF MeansOutput
  <2>1d. r \in InputRefs(q, known, k)
    BY <2>1a, <2>1b, <2>1c DEF InputRefs
  <2>2. Cardinality(Meant(q, known, k, r)) = 1
    BY <2>1d DEF Runs
  <2>3. PICK src : src \in Meant(q, known, k, r)
    BY <2>2, FS_EmptySet
  <2>4. PICK n \in 1 .. Len(V) : MeantAt(q, known, k, r, src, n)
    BY <1>0, <2>3, MeantIs
  <2>5. /\ src \in SourcesOf(q, V[n]) /\ src \in NamedIn(q, known, V[n], r)
        /\ r.name \in ColumnsOf(q, known, src)
        /\ \A m \in 1 .. n - 1 : NamedIn(q, known, V[m], r) = {}
        /\ Meant(q, known, k, r) =
             {s \in NamedIn(q, known, V[n], r) : r.name \in ColumnsOf(q, known, s)}
    BY <1>0, <2>4 DEF MeantAt
  <2>6. src.at = 0 => <<src.table, r.name>> \in ColumnsRead(q, known)
    BY <2>1d, <2>3, ReadByName
  <2>7. CASE r.qual # Unqualified
    <3>1. ref = r
      BY <2>1, <2>1a, <2>7 DEF Bound
    <3>2. src.as = r.qual /\ \A m \in 1 .. n - 1 : r.qual \notin Aliases(q, V[m])
      BY <2>5, <2>7 DEF NamedIn, Aliases
    <3>3. MeansAt(q, known, k, ref, src, n)
      BY <1>0, <2>5, <2>6, <3>1, <3>2 DEF MeansAt
    <3> QED
      BY <1>0, <1>1, <3>3 DEF Means
  <2>8. CASE r.qual = Unqualified
    <3>1. /\ Meant(q, known, k, r) = OwnersOf(q, known, V[n], r.name)
          /\ \A m \in 1 .. n - 1 : OwnersOf(q, known, V[m], r.name) = {}
      BY <2>5, <2>8 DEF NamedIn, OwnersOf
    <3>2. OwnersOf(q, known, V[n], r.name) = {src}
      <4>1. IsFiniteSet(SourcesOf(q, V[n]))
        BY <1>2, SourcesAre
      <4>2. IsFiniteSet(OwnersOf(q, known, V[n], r.name))
        BY <4>1, FS_Subset DEF OwnersOf
      <4>3. PICK z : OwnersOf(q, known, V[n], r.name) = {z}
        BY <2>2, <3>1, <4>2, FS_Singleton
      <4> QED
        BY <2>3, <3>1, <4>3
    <3>3. HomeAt(q, known, k, r, src, n)
      BY <1>0, <3>1, <3>2 DEF HomeAt
    <3>4. /\ Barred(q, k, use, src, n) => ref = r
          /\ ~Barred(q, k, use, src, n) => ref = Requalified(r, src)
      BY <1>0, <2>1, <2>1a, <2>8, <3>3, BoundIs
    <3>5. ~Barred(q, k, use, src, n)
      BY <1>1, <2>8, <3>4
    <3>6. r = [qual |-> r.qual, name |-> r.name]
      BY <2>1a, <2>1b, UsesAre
    <3>7. ref.qual = src.as /\ ref.name = r.name
      BY <3>4, <3>5, <3>6 DEF Requalified
    <3>8. \A m \in 1 .. n - 1 : ref.qual \notin Aliases(q, V[m])
      BY <1>0, <3>5, <3>7 DEF Shadowed, Barred
    <3>9. MeansAt(q, known, k, ref, src, n)
      BY <1>0, <2>5, <2>6, <3>7, <3>8 DEF MeansAt
    <3> QED
      BY <1>0, <1>1, <3>9 DEF Means
  <2> QED
    BY <2>7, <2>8
<1> QED
  BY <1>3, <1>4, QualifiedReadsOnly

(* A reference of the k-th scope is handed up to its d-th visible scope:   *)
(* none on the way has its alias, and from there both see the same.        *)
HandedUp(q, k, d, i, ref) ==
  LET from == Visible(q)[k]
      to   == Visible(q)[i]
  IN  /\ d \in 1 .. Len(from) /\ from[d] = i
      /\ ref \in OwnReads(q, k)
      /\ \A m \in 1 .. d - 1 : ref.qual \notin Aliases(q, from[m])
      /\ Len(from) = d - 1 + Len(to)
      /\ \A m \in 1 .. Len(to) : from[d - 1 + m] = to[m]

Asked(q, i, ref) == \E k \in Scopes(q) : \E d \in Nat : HandedUp(q, k, d, i, ref)

(* What a scope inside is asked for and has no alias for, it hands up.     *)
LEMMA HandsUp ==
  ASSUME NEW q, Nested(q), NEW i \in Scopes(q), NEW n \in Scopes(q),
         q[n].parent = i, ~q[n].closed,
         NEW ref, ref.qual \notin Aliases(q, n), Asked(q, n, ref)
  PROVE  Asked(q, i, ref)
<1>1. PICK k \in Scopes(q), d \in Nat : HandedUp(q, k, d, n, ref)
  BY DEF Asked
<1>2. PICK F, G, T : F = Visible(q)[k] /\ G = Visible(q)[n] /\ T = Visible(q)[i]
  OBVIOUS
<1>3. /\ d \in 1 .. Len(F) /\ F[d] = n /\ ref \in OwnReads(q, k)
      /\ \A m \in 1 .. d - 1 : ref.qual \notin Aliases(q, F[m])
      /\ Len(F) = d - 1 + Len(G)
      /\ \A m \in 1 .. Len(G) : F[d - 1 + m] = G[m]
  BY <1>1, <1>2 DEF HandedUp
<1>4. /\ T \in Seq(Scopes(q)) /\ 1 <= Len(T) /\ T[1] = i
      /\ Len(T) \in Nat
  <2>1. T \in Seq(Scopes(q)) /\ 1 <= Len(T) /\ T[1] = i
    BY <1>2, ChainsAre DEF Chained
  <2> QED
    BY <2>1
<1>5. G = <<n>> \o T
  <2>1. i # 0
    BY DEF Nested
  <2> QED
    BY <1>2, <2>1, VisibleIs
<1>6. Len(G) = Len(T) + 1 /\ \A m \in 1 .. Len(T) : G[m + 1] = T[m]
  BY <1>4, <1>5, ConsIs
<1>7. Len(F) = d + Len(T) /\ d + 1 \in 1 .. Len(F)
  BY <1>3, <1>4, <1>6
<1>8. \A m \in 1 .. Len(T) : F[d + m] = T[m]
  <2> SUFFICES ASSUME NEW m \in 1 .. Len(T) PROVE F[d + m] = T[m]
    OBVIOUS
  <2>1. m + 1 \in 1 .. Len(G) /\ d - 1 + (m + 1) = d + m
    BY <1>4, <1>6
  <2>2. F[d - 1 + (m + 1)] = G[m + 1]
    BY <1>3, <2>1
  <2> QED
    BY <1>6, <2>1, <2>2
<1>9. F[d + 1] = i
  BY <1>4, <1>8
<1>10. \A m \in 1 .. (d + 1) - 1 : ref.qual \notin Aliases(q, F[m])
  <2> SUFFICES ASSUME NEW m \in 1 .. (d + 1) - 1 PROVE ref.qual \notin Aliases(q, F[m])
    OBVIOUS
  <2>1. m = d \/ m \in 1 .. d - 1
    OBVIOUS
  <2> QED
    BY <1>3, <2>1
<1>11. (d + 1) - 1 = d /\ d + 1 \in Nat
  OBVIOUS
<1>12. HandedUp(q, k, d + 1, i, ref)
  BY <1>2, <1>3, <1>7, <1>8, <1>9, <1>10, <1>11 DEF HandedUp
<1> QED
  BY <1>11, <1>12 DEF Asked

(* What a scope is asked for, it or a scope inside it has read.            *)
LEMMA ColumnsAreAsked ==
  ASSUME NEW q, Nested(q)
  PROVE  \A i \in Scopes(q) : \A use \in Columns(q)[i] : Asked(q, i, use.ref)
<1> DEFINE Bad == {i \in Scopes(q) : \E use \in Columns(q)[i] : ~Asked(q, i, use.ref)}
<1>1. Scopes(q) \in SUBSET Nat
  BY DEF Nested
<1>2. ASSUME Bad # {} PROVE FALSE
  <2>1. Bad \in SUBSET Nat
    BY <1>1
  <2>2. PICK i \in Bad : \A y \in Bad : i <= y
    BY <1>2, <2>1, LeastExists
  <2>3. i \in Scopes(q) /\ i \in Nat
    BY <1>1
  <2>4. PICK use \in Columns(q)[i] : ~Asked(q, i, use.ref)
    OBVIOUS
  <2>5. use \in Gathered(q, Columns(q), i)
    BY <2>3, <2>4, ColumnsIs
  <2>5a. PICK ref : ref = use.ref
    OBVIOUS
  <2>6. CASE use \in Uses(q, i)
    <3>0. ref \in OwnReads(q, i)
      BY <2>5, <2>5a, <2>6 DEF Gathered, OwnReads
    <3>1. PICK V : V = Visible(q)[i]
      OBVIOUS
    <3>2. V \in Seq(Scopes(q)) /\ 1 <= Len(V) /\ V[1] = i
      BY <2>3, <3>1, ChainsAre DEF Chained
    <3>3. Len(V) \in Nat /\ \A m \in 1 .. Len(V) : 1 - 1 + m = m
      BY <3>2
    <3>4. 1 \in 1 .. Len(V) /\ Len(V) = 1 - 1 + Len(V) /\ 1 .. 1 - 1 = {}
      BY <3>2, <3>3
    <3>5. HandedUp(q, i, 1, i, ref)
      BY <3>0, <3>1, <3>2, <3>3, <3>4 DEF HandedUp
    <3> QED
      BY <2>3, <2>4, <2>5a, <3>5 DEF Asked
  <2>7. CASE use \notin Uses(q, i)
    <3>1. PICK n \in {x \in Scopes(q) : q[x].parent = i /\ ~q[x].closed} :
            use \in Columns(q)[n] /\ ref.qual \notin Aliases(q, n)
      BY <2>5, <2>5a, <2>7 DEF Gathered
    <3>2. n \in Scopes(q) /\ q[n].parent = i /\ ~q[n].closed
      OBVIOUS
    <3>3. n < i
      BY <2>3, <3>2 DEF Nested
    <3>4. ~(i <= n)
      BY <1>1, <2>3, <3>2, <3>3
    <3>5. Asked(q, n, ref)
      BY <2>2, <2>5a, <3>1, <3>2, <3>4
    <3> QED
      BY <2>3, <2>4, <2>5a, <3>1, <3>2, <3>5, HandsUp
  <2> QED
    BY <2>6, <2>7
<1> QED
  BY <1>2

(* So what the resolver meets in the columns of a scope means the same     *)
(* there as where it stands.                                               *)
LEMMA AskedMeans ==
  ASSUME NEW q, WellFormed(q), NEW known, FiniteSchema(known),
         Runs(q, known), Bindable(q, known),
         NEW i \in Scopes(q), NEW use \in Columns(Qualified(q, known))[i]
  PROVE  Means(q, known, i, use.ref)
<1>0. PICK ref : ref = use.ref
  OBVIOUS
<1>1. PICK Q : Q = Qualified(q, known)
  OBVIOUS
<1>2. /\ Nested(Q) /\ Visible(Q) = Visible(q) /\ Scopes(Q) = Scopes(q)
      /\ \A k \in Scopes(q) : SourcesOf(Q, k) = SourcesOf(q, k)
  BY <1>1, QualifiedNests, QualifiedKeeps
<1>3. Asked(Q, i, ref)
  BY <1>0, <1>1, <1>2, ColumnsAreAsked
<1>4. PICK k \in Scopes(q), d \in Nat : HandedUp(Q, k, d, i, ref)
  BY <1>2, <1>3 DEF Asked
<1>5. PICK F, T : F = Visible(q)[k] /\ T = Visible(q)[i]
  OBVIOUS
<1>6. /\ F \in Seq(Scopes(q)) /\ Len(F) \in Nat
      /\ \A m \in 1 .. Len(F) : F[m] \in Scopes(q)
      /\ T \in Seq(Scopes(q)) /\ Len(T) \in Nat
  BY <1>5, SeenAreScopes
<1>7. /\ d \in 1 .. Len(F) /\ F[d] = i /\ ref \in OwnReads(Q, k)
      /\ \A m \in 1 .. d - 1 : ref.qual \notin Aliases(Q, F[m])
      /\ Len(F) = d - 1 + Len(T)
      /\ \A m \in 1 .. Len(T) : F[d - 1 + m] = T[m]
  BY <1>2, <1>4, <1>5 DEF HandedUp
<1>8. \A m \in 1 .. d - 1 : ref.qual \notin Aliases(q, F[m])
  BY <1>2, <1>6, <1>7 DEF Aliases
<1>9. Means(q, known, k, ref)
  BY <1>1, <1>7, OwnMeans
<1>10. PICK n \in 1 .. Len(F) : \E src : MeansAt(q, known, k, ref, src, n)
  BY <1>5, <1>9 DEF Means
<1>10a. PICK src : MeansAt(q, known, k, ref, src, n)
  BY <1>10
<1>11. /\ src \in SourcesOf(q, F[n]) /\ src.as = ref.qual
       /\ \A m \in 1 .. n - 1 : ref.qual \notin Aliases(q, F[m])
       /\ ref.name \in ColumnsOf(q, known, src)
       /\ src.at = 0 => <<src.table, ref.name>> \in ColumnsRead(q, known)
  BY <1>5, <1>10a DEF MeansAt
<1>12. n \notin 1 .. d - 1
  BY <1>8, <1>11 DEF Aliases
<1>13. PICK e : e = n - d + 1
  OBVIOUS
<1>14. e \in 1 .. Len(T) /\ d - 1 + e = n /\ F[n] = T[e]
  <2>1. n >= d
    BY <1>7, <1>12
  <2>2. e \in 1 .. Len(T) /\ d - 1 + e = n
    BY <1>6, <1>7, <1>13, <2>1
  <2> QED
    BY <1>7, <2>2
<1>15. ASSUME NEW m \in 1 .. e - 1 PROVE ref.qual \notin Aliases(q, T[m])
  <2>1. m \in 1 .. Len(T) /\ d - 1 + m \in 1 .. n - 1
    BY <1>6, <1>7, <1>14
  <2> QED
    BY <1>7, <1>11, <2>1
<1>16. MeansAt(q, known, i, ref, src, e)
  BY <1>5, <1>11, <1>14, <1>15 DEF MeansAt
<1> QED
  BY <1>0, <1>5, <1>9, <1>14, <1>16 DEF Means

-----------------------------------------------------------------------------
(* What the lineage traces *)

(* one reference, one name, and all names of one scope, when what the      *)
(* scopes inside it trace is known                                         *)
TracedRef(q, f, i, ref) ==
  LET src == SourceAs(q, i, ref.qual) IN
  IF src.at = 0 THEN {<<src.table, ref.name>>}
  ELSE IF ref.name \in DOMAIN f[src.at] THEN f[src.at][ref.name] ELSE {}
ItemAs(q, i, name) == q[i].select[Min({n \in DOMAIN q[i].select : q[i].select[n].as = name})]
TracedAs(q, f, i, name) ==
  IF \E ref \in ItemAs(q, i, name).reads : ref.qual \notin Aliases(q, i) THEN {}
  ELSE UNION {TracedRef(q, f, i, ref) : ref \in ItemAs(q, i, name).reads}
Traced(q, f, i) == [name \in {x.as : x \in ToSet(q[i].select)} |-> TracedAs(q, f, i, name)]

(* A derived table comes before the scope it is a source of. *)
Inward(q) ==
  \A i \in Scopes(q) : \A src \in SourcesOf(q, i) : src.at # 0 => src.at \in Scopes(q) /\ src.at < i

LEMMA AliasNames ==
  ASSUME NEW q, NEW i, NEW alias \in Aliases(q, i)
  PROVE  SourceAs(q, i, alias) \in SourcesOf(q, i) /\ SourceAs(q, i, alias).as = alias
BY DEF Aliases, SourceAs

LEMMA LineageExists ==
  ASSUME NEW q, Nested(q), Inward(q)
  PROVE  \E f : f = [i \in Scopes(q) |-> Traced(q, f, i)]
<1> DEFINE n == Len(q)
           Done(f, m) == \A i \in 1 .. n : i <= m => f[i] = Traced(q, f, i)
           Bad == {m \in 0 .. n : ~ \E f : Done(f, m)}
<1>1. n \in Nat /\ Scopes(q) = 1 .. n
  BY DEF Nested
<1>2. ASSUME NEW f, NEW g, NEW i \in Scopes(q),
             \A k \in Scopes(q) : k < i => f[k] = g[k]
      PROVE  Traced(q, f, i) = Traced(q, g, i)
  <2>1. ASSUME NEW ref, ref.qual \in Aliases(q, i)
        PROVE  TracedRef(q, f, i, ref) = TracedRef(q, g, i, ref)
    <3>1. PICK src : src = SourceAs(q, i, ref.qual)
      OBVIOUS
    <3>2. src.at # 0 => f[src.at] = g[src.at]
      BY <1>2, <2>1, <3>1, AliasNames DEF Inward
    <3> QED
      BY <3>1, <3>2 DEF TracedRef
  <2>2. ASSUME NEW name PROVE TracedAs(q, f, i, name) = TracedAs(q, g, i, name)
    <3>1. CASE \E ref \in ItemAs(q, i, name).reads : ref.qual \notin Aliases(q, i)
      BY <3>1 DEF TracedAs
    <3>2. CASE ~ \E ref \in ItemAs(q, i, name).reads : ref.qual \notin Aliases(q, i)
      <4>1. \A ref \in ItemAs(q, i, name).reads : TracedRef(q, f, i, ref) = TracedRef(q, g, i, ref)
        BY <2>1, <3>2
      <4> QED
        BY <4>1 DEF TracedAs
    <3> QED
      BY <3>1, <3>2
  <2> QED
    BY <2>2 DEF Traced
<1> HIDE DEF n
<1>3. CASE Bad = {}
  <2>1. n \in 0 .. n
    BY <1>1
  <2>2. PICK f : Done(f, n)
    BY <1>3, <2>1
  <2> DEFINE g == [i \in Scopes(q) |-> f[i]]
  <2>3. \A i \in Scopes(q) : g[i] = f[i] /\ f[i] = Traced(q, f, i)
    BY <1>1, <2>2
  <2>4. \A i \in Scopes(q) : Traced(q, f, i) = Traced(q, g, i)
    BY <1>2, <2>3
  <2>5. g = [i \in Scopes(q) |-> Traced(q, g, i)]
    BY <2>3, <2>4
  <2> QED
    BY <2>5
<1>4. CASE Bad # {}
  <2>1. Bad \in SUBSET Nat
    BY <1>1
  <2>2. PICK m \in Bad : \A y \in Bad : m <= y
    BY <1>4, <2>1, LeastExists
  <2>3. m \in 0 .. n /\ ~ \E f : Done(f, m)
    OBVIOUS
  <2>4. m # 0
    <3>1. Done(<<>>, 0)
      BY <1>1
    <3> QED
      BY <2>3, <3>1
  <2>5. m - 1 \in 0 .. n /\ ~(m <= m - 1) /\ m \in Scopes(q)
    BY <1>1, <2>3, <2>4
  <2>6. PICK f : Done(f, m - 1)
    BY <2>2, <2>5
  <2> DEFINE g == [i \in 1 .. n |-> IF i = m THEN Traced(q, f, i) ELSE f[i]]
  <2>7. ASSUME NEW i \in 1 .. n, i <= m
        PROVE  g[i] = Traced(q, g, i)
    <3>1. \A k \in Scopes(q) : k < i => f[k] = g[k]
      BY <1>1, <2>3, <2>7
    <3>2. g[i] = Traced(q, f, i)
      <4>1. CASE i = m
        BY <4>1
      <4>2. CASE i # m
        <5>1. i <= m - 1
          BY <1>1, <2>3, <2>7, <4>2
        <5> QED
          BY <2>6, <4>2, <5>1
      <4> QED
        BY <4>1, <4>2
    <3> HIDE DEF g
    <3>3. Traced(q, f, i) = Traced(q, g, i)
      BY <1>1, <1>2, <3>1
    <3> QED
      BY <3>2, <3>3
  <2>8. Done(g, m)
    BY <2>7
  <2> QED
    BY <2>3, <2>8
<1> QED
  BY <1>3, <1>4

LEMMA LineageIs ==
  ASSUME NEW q, Nested(q), Inward(q), NEW i \in Scopes(q)
  PROVE  Lineage(q)[i] = Traced(q, Lineage(q), i)
<1> DEFINE Rec(f) == f = [k \in Scopes(q) |-> Traced(q, f, k)]
<1>1. \E f : Rec(f)
  BY LineageExists
<1>2. Lineage(q) = CHOOSE f : Rec(f)
  BY DEF Lineage, Traced, TracedAs, TracedRef, ItemAs
<1>3. Rec(Lineage(q))
  BY <1>1, <1>2
<1> QED
  BY <1>3

LEMMA ItemAsIs ==
  ASSUME NEW q, NEW i, NEW S, q[i].select \in Seq(S),
         NEW name \in {x.as : x \in ToSet(q[i].select)}
  PROVE  ItemAs(q, i, name) \in ToSet(q[i].select)
<1> DEFINE items == q[i].select
           at == {n \in DOMAIN items : items[n].as = name}
<1>1. items \in Seq(S)
  OBVIOUS
<1>2. PICK item \in ToSet(items) : item.as = name
  OBVIOUS
<1> HIDE DEF items
<1>3. DOMAIN items = 1 .. Len(items) /\ Len(items) \in Nat
  BY <1>1
<1>4. PICK n \in 1 .. Len(items) : items[n] = item
  BY <1>1, <1>2, ElementsFinite
<1>5. n \in at /\ at \in SUBSET Nat
  BY <1>2, <1>3, <1>4
<1>6. PICK m \in at : \A y \in at : m <= y
  BY <1>5, LeastExists
<1>7. m \in 1 .. Len(items)
  BY <1>3
<1>8. Min(at) = m
  <2> HIDE DEF at
  <2> QED
    BY <1>5, <1>6, MinIsLeast
<1>9. ItemAs(q, i, name) = items[m]
  BY <1>8 DEF ItemAs, items
<1> QED
  BY <1>1, <1>7, <1>9, ElementsFinite DEF items

(* The query the optimizer made has lists for select lists, derived tables *)
(* before the scopes they are sources of, and an alias for each.           *)
LEMMA QualifiedIsSound ==
  ASSUME NEW q, WellFormed(q), NEW known, FiniteSchema(known), Runs(q, known)
  PROVE  /\ Inward(Qualified(q, known)) /\ OneEach(Qualified(q, known))
         /\ \A i \in Scopes(q) : \E S : Qualified(q, known)[i].select \in Seq(S)
<1>1. PICK Q : Q = Qualified(q, known)
  OBVIOUS
<1>2. /\ Scopes(Q) = Scopes(q)
      /\ \A i \in Scopes(q) : SourcesOf(Q, i) = SourcesOf(q, i)
  BY <1>1, QualifiedNests, QualifiedKeeps
<1>3. Inward(Q)
  BY <1>2, SourcesAre DEF Inward
<1>4. OneEach(Q)
  <2>1. OneEach(q)
    BY UniqueAlias DEF Runs
  <2> QED
    BY <1>2, <2>1 DEF OneEach
<1>5. ASSUME NEW i \in Scopes(q) PROVE \E S : Q[i].select \in Seq(S)
  <2>1. PICK B, V, R : B = BoundItems(q, known, i) /\ V = ToSet(B) /\ R = StarItems(q, known, i)
    OBVIOUS
  <2>2. /\ ~Expandable(q, known, i) => Q[i].select = B
        /\ Expandable(q, known, i) => Q[i].select = B \o R
    BY <1>1, <2>1, QualifiedKeeps DEF StarredItems
  <2>3. B \in Seq(V)
    BY <2>1, BoundItemsAre
  <2>4. PICK T : R \in Seq(T)
    BY <2>1, StarItemsAre
  <2>5. B \in Seq(V \cup T) /\ R \in Seq(V \cup T)
    <3>1. PICK U : U = V \cup T
      OBVIOUS
    <3>2. V \subseteq U /\ T \subseteq U
      BY <3>1
    <3> QED
      BY <2>3, <2>4, <3>1, <3>2
  <2>6. B \o R \in Seq(V \cup T)
    BY <2>5, ConcatHas
  <2> QED
    BY <2>2, <2>3, <2>6
<1> QED
  BY <1>1, <1>3, <1>4, <1>5

(* What a name of a scope is traced to, the query reads. *)
LEMMA TracedIsRead ==
  ASSUME NEW q, WellFormed(q), NEW known, FiniteSchema(known),
         Runs(q, known), Bindable(q, known)
  PROVE  \A i \in Scopes(q) : \A name \in DOMAIN Lineage(Qualified(q, known))[i] :
           Lineage(Qualified(q, known))[i][name] \subseteq ColumnsRead(q, known)
<1>1. PICK Q, F, R : Q = Qualified(q, known) /\ F = Lineage(Q) /\ R = ColumnsRead(q, known)
  OBVIOUS
<1> DEFINE Ok(i) == \A name \in DOMAIN F[i] : F[i][name] \subseteq R
           Bad == {i \in Scopes(q) : ~Ok(i)}
<1>2. /\ Nested(Q) /\ Visible(Q) = Visible(q) /\ Scopes(Q) = Scopes(q)
      /\ \A k \in Scopes(q) : SourcesOf(Q, k) = SourcesOf(q, k)
  BY <1>1, QualifiedNests, QualifiedKeeps
<1>3. /\ Inward(Q) /\ OneEach(Q)
      /\ \A i \in Scopes(q) : \E S : Q[i].select \in Seq(S)
  BY <1>1, QualifiedIsSound
<1>4. \A i \in Scopes(q) : F[i] = Traced(Q, F, i)
  BY <1>1, <1>2, <1>3, LineageIs
<1>5. Scopes(q) \in SUBSET Nat
  BY <1>2 DEF Nested
<1>6. ASSUME Bad # {} PROVE FALSE
  <2>1. Bad \in SUBSET Nat
    BY <1>5
  <2>2. PICK i \in Bad : \A y \in Bad : i <= y
    BY <1>6, <2>1, LeastExists
  <2>3. i \in Scopes(q) /\ i \in Nat /\ ~Ok(i)
    BY <1>5
  <2>4. \A k \in Scopes(q) : k < i => Ok(k)
    BY <1>5, <2>2, <2>3
  <2>5. F[i] = [name \in {x.as : x \in ToSet(Q[i].select)} |-> TracedAs(Q, F, i, name)]
    BY <1>4, <2>3 DEF Traced
  <2>6. PICK name \in {x.as : x \in ToSet(Q[i].select)} : ~(TracedAs(Q, F, i, name) \subseteq R)
    BY <2>3, <2>5
  <2>7. PICK item : item = ItemAs(Q, i, name)
    OBVIOUS
  <2>8. item \in ToSet(Q[i].select)
    BY <1>3, <2>3, <2>7, ItemAsIs
  <2>9. item.reads \subseteq OwnReads(Q, i)
    <3>1. item.reads \subseteq SelectReads(Q, i)
      BY <2>8 DEF SelectReads
    <3> QED
      BY <3>1, SelectUses
  <2>10. PICK col \in TracedAs(Q, F, i, name) : col \notin R
    BY <2>6
  <2>11. /\ \A ref \in item.reads : ref.qual \in Aliases(Q, i)
         /\ col \in UNION {TracedRef(Q, F, i, ref) : ref \in item.reads}
    BY <2>7, <2>10 DEF TracedAs
  <2>12. PICK ref \in item.reads : col \in TracedRef(Q, F, i, ref)
    BY <2>11
  <2>13. Means(q, known, i, ref)
    BY <1>1, <2>3, <2>9, OwnMeans
  <2>14. PICK V : V = Visible(q)[i]
    OBVIOUS
  <2>15. 1 \in 1 .. Len(V) /\ V[1] = i /\ Len(V) \in Nat
    BY <2>3, <2>14, SeenAreScopes
  <2>16. PICK n \in 1 .. Len(V) : \E src : MeansAt(q, known, i, ref, src, n)
    BY <2>13, <2>14 DEF Means
  <2>16a. PICK src : MeansAt(q, known, i, ref, src, n)
    BY <2>16
  <2>17. /\ src \in SourcesOf(q, V[n]) /\ src.as = ref.qual
         /\ \A m \in 1 .. n - 1 : ref.qual \notin Aliases(q, V[m])
         /\ src.at = 0 => <<src.table, ref.name>> \in R
    BY <1>1, <2>14, <2>16a DEF MeansAt
  <2>18. ref.qual \in Aliases(q, i)
    BY <1>2, <2>3, <2>11 DEF Aliases
  <2>19. n = 1
    <3> SUFFICES ASSUME n # 1 PROVE FALSE
      OBVIOUS
    <3>1. 1 \in 1 .. n - 1
      BY <2>15
    <3> QED
      BY <2>15, <2>17, <2>18, <3>1
  <2>20. src \in SourcesOf(Q, i)
    BY <1>2, <2>3, <2>15, <2>17, <2>19
  <2>21. SourceAs(Q, i, ref.qual) = src
    <3>1. SourceAs(Q, i, src.as) = src
      BY <1>2, <1>3, <2>3, <2>20, SourceAsIs
    <3> QED
      BY <2>17, <3>1
  <2>22. CASE src.at = 0
    BY <2>10, <2>12, <2>17, <2>21, <2>22 DEF TracedRef
  <2>23. CASE src.at # 0
    <3>1. src.at \in Scopes(q) /\ src.at < i
      BY <1>2, <1>3, <2>3, <2>20, <2>23 DEF Inward
    <3>2. Ok(src.at)
      BY <2>4, <3>1
    <3>3. col \in F[src.at][ref.name] /\ ref.name \in DOMAIN F[src.at]
      BY <2>12, <2>21, <2>23 DEF TracedRef
    <3> QED
      BY <2>10, <3>2, <3>3
  <2> QED
    BY <2>22, <2>23
<1>7. \A i \in Scopes(q) : Ok(i)
  BY <1>6
<1> QED
  BY <1>1, <1>7

-----------------------------------------------------------------------------
(* When the optimizer bound all names, every reference is proven: it is a  *)
(* column the query reads, or one it computes.                             *)
Proven(q, known, r) ==
  /\ r.status = "resolved" /\ r.candidates = {}
  /\ r.canonical = NoColumn \/ r.canonical \in ColumnsRead(q, known)

LEMMA ResolvedMeans ==
  ASSUME NEW q, WellFormed(q), NEW known, FiniteSchema(known),
         Runs(q, known), Bindable(q, known),
         NEW i \in Scopes(q), NEW use \in Columns(Qualified(q, known))[i], NEW ref, ref = use.ref
  PROVE  Proven(q, known, Resolve(Qualified(q, known), known, i, ref))
<1>1. PICK Q, V : Q = Qualified(q, known) /\ V = Visible(q)[i]
  OBVIOUS
<1>2. /\ Nested(Q) /\ Visible(Q) = Visible(q) /\ Scopes(Q) = Scopes(q)
      /\ \A k \in Scopes(q) : SourcesOf(Q, k) = SourcesOf(q, k)
  BY <1>1, QualifiedNests, QualifiedKeeps
<1>3. Inward(Q) /\ OneEach(Q)
  BY <1>1, QualifiedIsSound
<1>4. Means(q, known, i, ref)
  BY <1>1, AskedMeans
<1>5. PICK n \in 1 .. Len(V) : \E src : MeansAt(q, known, i, ref, src, n)
  BY <1>1, <1>4 DEF Means
<1>5a. PICK src : MeansAt(q, known, i, ref, src, n)
  BY <1>5
<1>6. /\ src \in SourcesOf(q, V[n]) /\ src.as = ref.qual /\ ref.qual # Unqualified
      /\ \A m \in 1 .. n - 1 : ref.qual \notin Aliases(q, V[m])
      /\ ref.name \in ColumnsOf(q, known, src)
      /\ src.at = 0 => <<src.table, ref.name>> \in ColumnsRead(q, known)
  BY <1>1, <1>4, <1>5a DEF MeansAt, Means
<1>7. /\ V \in Seq(Scopes(q)) /\ V[1] = i /\ Len(V) \in Nat
      /\ \A m \in 1 .. Len(V) : V[m] \in Scopes(q)
  BY <1>1, SeenAreScopes
<1>8. \A m \in 1 .. n - 1 : ref.qual \notin Aliases(Q, V[m])
  BY <1>2, <1>6, <1>7 DEF Aliases
<1>9. src \in SourcesOf(Q, V[n]) /\ i \in Scopes(Q)
  BY <1>2, <1>6, <1>7
<1>10. FoundAt(Q, known, i, ref, src, n)
  BY <1>1, <1>2, <1>3, <1>6, <1>8, <1>9, NamedFound
<1>11. src.at = 0 => Proven(q, known, ResolvedTo(<<src.table, ref.name>>))
  BY <1>6 DEF Proven, ResolvedTo, Ref
<1>12. Proven(q, known, ResolvedElsewhere)
  BY DEF Proven, ResolvedElsewhere, Ref
<1>13. CASE n # 1
  BY <1>1, <1>10, <1>11, <1>12, <1>13 DEF FoundAt
<1>14. CASE n = 1
  <2>1. SourceAs(Q, i, ref.qual) = src /\ Resolve(Q, known, i, ref) = ResolveLocal(Q, known, i, ref)
    BY <1>10, <1>14 DEF FoundAt
  <2>2. CASE src.at = 0
    <3>1. src.table \in DOMAIN known
      BY <1>6, <2>2 DEF ColumnsOf, ColumnsIn
    <3>2. ResolveLocal(Q, known, i, ref) = ResolvedTo(<<src.table, ref.name>>)
      BY <2>1, <2>2, <3>1 DEF ResolveLocal
    <3> QED
      BY <1>1, <1>11, <2>1, <2>2, <3>2
  <2>3. CASE src.at # 0
    <3>1. PICK lineage : lineage = IF ref.name \in DOMAIN Lineage(Q)[src.at]
                                   THEN Lineage(Q)[src.at][ref.name] ELSE {}
      OBVIOUS
    <3>2. src.at \in Scopes(q)
      BY <1>2, <1>3, <1>7, <1>9, <2>3 DEF Inward
    <3>3. lineage \subseteq ColumnsRead(q, known)
      BY <1>1, <3>1, <3>2, TracedIsRead
    <3>4. ResolveLocal(Q, known, i, ref) =
            IF Cardinality(lineage) = 1 THEN ResolvedTo(CHOOSE column \in lineage : TRUE)
            ELSE ResolvedElsewhere
      BY <2>1, <2>3, <3>1 DEF ResolveLocal
    <3>5. CASE Cardinality(lineage) = 1
      <4>1. lineage # {}
        <5>1. Cardinality({}) = 0
          BY FS_EmptySet
        <5>2. lineage = {} => Cardinality(lineage) = 0
          BY <5>1
        <5> QED
          BY <3>5, <5>2
      <4>2. PICK col : col = CHOOSE column \in lineage : TRUE
        OBVIOUS
      <4>3. col \in lineage
        BY <4>1, <4>2
      <4>4. Proven(q, known, ResolvedTo(col))
        BY <3>3, <4>3 DEF Proven, ResolvedTo, Ref
      <4> QED
        BY <1>1, <2>1, <3>4, <3>5, <4>2, <4>4
    <3>6. CASE Cardinality(lineage) # 1
      BY <1>1, <1>12, <2>1, <3>4, <3>6
    <3> QED
      BY <3>5, <3>6
  <2> QED
    BY <2>2, <2>3
<1> QED
  BY <1>13, <1>14

LEMMA ReportIsProven ==
  ASSUME NEW q, WellFormed(q), NEW known, FiniteSchema(known),
         Runs(q, known), Bindable(q, known),
         NEW r \in Report(Qualified(q, known), known, TRUE).refs
  PROVE  Proven(q, known, r)
<1>1. PICK Q : Q = Qualified(q, known)
  OBVIOUS
<1>2. Scopes(Q) = Scopes(q)
  BY <1>1, QualifiedKeeps
<1>3. Report(Q, known, TRUE).refs =
          UNION {{Resolve(Q, known, i, use.ref) : use \in Columns(Q)[i]} : i \in Scopes(Q)}
  BY DEF Report
<1>4. PICK i \in Scopes(Q) : r \in {Resolve(Q, known, i, use.ref) : use \in Columns(Q)[i]}
  <2>1. r \in Report(Q, known, TRUE).refs
    BY <1>1
  <2>2. r \in UNION {{Resolve(Q, known, i, use.ref) : use \in Columns(Q)[i]} : i \in Scopes(Q)}
    BY <1>3, <2>1
  <2> QED
    BY <2>2
<1>5. PICK use \in Columns(Q)[i] : r = Resolve(Q, known, i, use.ref)
  BY <1>4
<1> QED
  BY <1>1, <1>2, <1>5, ResolvedMeans

(* A query that runs, all of whose names the optimizer bound, the schema   *)
(* gate lets through.                                                      *)
LEMMA RunsValidates ==
  ASSUME NEW q, WellFormed(q), NEW known, FiniteSchema(known),
         Runs(q, known), Bindable(q, known)
  PROVE  Validated(q, known)
<1>1. PICK Q : Q = Qualified(q, known)
  OBVIOUS
<1>2. OneEach(q) /\ ~DuplicateAlias(q)
  BY UniqueAlias DEF Runs
<1>3. ASSUME NEW i \in Scopes(q), NEW ref \in OwnReads(Q, i)
      PROVE  LET chain == Visible(q)[i]
                 homes == {n \in DOMAIN chain : ref.qual \in Aliases(q, chain[n])}
                 cols  == ColumnsOf(q, known, SourceAs(q, chain[Min(homes)], ref.qual))
             IN  homes # {} /\ (cols = {} \/ ref.name \in cols)
  <2>1. PICK V : V = Visible(q)[i]
    OBVIOUS
  <2> DEFINE homes == {n \in DOMAIN V : ref.qual \in Aliases(q, V[n])}
             cols  == ColumnsOf(q, known, SourceAs(q, V[Min(homes)], ref.qual))
  <2>2. Means(q, known, i, ref)
    BY <1>1, OwnMeans
  <2>3. PICK n \in 1 .. Len(V) : \E src : MeansAt(q, known, i, ref, src, n)
    BY <2>1, <2>2 DEF Means
  <2>3a. PICK src : MeansAt(q, known, i, ref, src, n)
    BY <2>3
  <2>4. /\ src \in SourcesOf(q, V[n]) /\ src.as = ref.qual
        /\ \A m \in 1 .. n - 1 : ref.qual \notin Aliases(q, V[m])
        /\ ref.name \in ColumnsOf(q, known, src)
    BY <2>1, <2>3a DEF MeansAt
  <2>5. /\ V \in Seq(Scopes(q)) /\ Len(V) \in Nat
        /\ \A m \in 1 .. Len(V) : V[m] \in Scopes(q)
    BY <2>1, SeenAreScopes
  <2>6. DOMAIN V = 1 .. Len(V)
    BY <2>5
  <2>7. n \in homes /\ homes \in SUBSET Nat
    BY <2>4, <2>6 DEF Aliases
  <2>8. ASSUME NEW y \in homes PROVE n <= y
    <3>1. y \in 1 .. Len(V) /\ ref.qual \in Aliases(q, V[y])
      BY <2>6
    <3>2. y \notin 1 .. n - 1
      BY <2>4, <3>1
    <3> QED
      BY <2>5, <3>1, <3>2
  <2>9. Min(homes) = n
    <3> HIDE DEF homes
    <3> QED
      BY <2>7, <2>8, MinIsLeast
  <2>10. SourceAs(q, V[n], ref.qual) = src
    BY <1>2, <2>4, <2>5, SourceAsIs
  <2>11. homes # {} /\ (cols = {} \/ ref.name \in cols)
    BY <2>4, <2>7, <2>9, <2>10
  <2> QED
    BY <2>1, <2>11
<1> QED
  BY <1>1, <1>2, <1>3 DEF Validated

(* A verdict that names a denied column has it from the report. *)
LEMMA NamedIsReported ==
  ASSUME NEW pol, \A column \in pol.deniedColumns : Len(column) = 2,
         NEW rep, NEW known, NEW v \in Verdicts(pol, rep, known), v.about \in pol.deniedColumns
  PROVE  rep.supported /\ v.about \in DeniedColumns(pol, rep)
<1> DEFINE tables == RefusedTables(pol, rep, known)
           denied == DeniedColumns(pol, rep)
           told(status, about) == Explained(status, about, pol, rep)
<1>1. v \in IF rep.multiple THEN {Verdict("multiple_statements", NoColumn, {}, {})}
            ELSE IF ~rep.supported THEN {Verdict("unresolved", NoColumn, {}, {})}
            ELSE IF tables # {} THEN {Verdict("denied", <<table>>, {}, {}) : table \in tables}
            ELSE IF pol.deniedColumns = {} THEN {told("allowed", NoColumn)}
            ELSE IF rep.star THEN {told("unresolved", NoColumn)}
            ELSE IF denied # {} THEN {told("denied", column) : column \in denied}
            ELSE IF MaybeDenied(pol, rep) # {} THEN {told("ambiguous", NoColumn)}
            ELSE IF Unproven(rep) # {} THEN {told("unresolved", NoColumn)}
            ELSE {told("allowed", NoColumn)}
  BY DEF Verdicts
<1>2. ASSUME NEW status, NEW about, NEW r, NEW d PROVE Verdict(status, about, r, d).about = about
  BY DEF Verdict
<1>3. ASSUME NEW status, NEW about PROVE told(status, about).about = about
  BY <1>2 DEF Explained
<1>4. v.about # NoColumn /\ \A table : v.about # <<table>>
  <2>1. Len(v.about) = 2 /\ Len(NoColumn) = 0
    BY DEF NoColumn
  <2>2. \A table : Len(<<table>>) = 1
    OBVIOUS
  <2> QED
    BY <2>1, <2>2
<1> HIDE DEF tables, denied, told
<1>5. \/ \E status : v = Verdict(status, NoColumn, {}, {}) \/ v = told(status, NoColumn)
      \/ \E table : v = Verdict("denied", <<table>>, {}, {})
      \/ rep.supported /\ \E column \in denied : v = told("denied", column)
  BY <1>1
<1>6. rep.supported /\ \E column \in denied : v = told("denied", column)
  <2>1. \A status : v # Verdict(status, NoColumn, {}, {}) /\ v # told(status, NoColumn)
    BY <1>2, <1>3, <1>4
  <2>2. \A table : v # Verdict("denied", <<table>>, {}, {})
    BY <1>2, <1>4
  <2> QED
    BY <1>5, <2>1, <2>2
<1> QED
  BY <1>3, <1>6 DEF denied

(* Whatever the policy: Policy.check refuses a query whose names could all *)
(* be bound for a denied column only if the query reads that column.       *)
THEOREM NamedColumnsAreRead ==
  ASSUME NEW s, NEW known, NEW pol, \A column \in pol.deniedColumns : Len(column) = 2,
         WellFormed(s.query), FiniteSchema(known), Runs(s.query, known), Bindable(s.query, known),
         NEW v \in Check(pol, s, known, TRUE), v.about \in pol.deniedColumns
  PROVE  v.about \in ColumnsRead(s.query, known)
<1>1. PICK q, rep : q = s.query /\ rep = Analyze(s, known, TRUE)
  OBVIOUS
<1>2. v \in Verdicts(pol, rep, known)
  BY <1>1 DEF Check
<1>3. rep.supported /\ v.about \in DeniedColumns(pol, rep)
  BY <1>2, NamedIsReported
<1>4. rep = Report(Qualified(q, known), known, TRUE)
  BY <1>1, <1>3, Analyzed
<1>5. v.about \in CanonicalOf(rep)
  BY <1>3 DEF DeniedColumns
<1>6. PICK r \in rep.refs : v.about = r.canonical /\ v.about # NoColumn
  BY <1>5 DEF CanonicalOf
<1>7. Proven(q, known, r)
  BY <1>1, <1>4, <1>6, ReportIsProven
<1> QED
  BY <1>1, <1>6, <1>7 DEF Proven

(* A query with known columns behind each star has no star left. *)
LEMMA StarsGone ==
  ASSUME NEW q, WellFormed(q), NEW known,
         \A i \in Scopes(q) : q[i].star => Expandable(q, known, i)
  PROVE  ~HasStar(Qualified(q, known))
<1>1. Scopes(Qualified(q, known)) = Scopes(q)
  BY QualifiedKeeps
<1>2. ASSUME NEW i \in Scopes(q) PROVE ~Qualified(q, known)[i].star
  <2>1. CASE Expandable(q, known, i)
    BY <2>1, QualifiedKeeps
  <2>2. CASE ~Expandable(q, known, i)
    <3>1. Qualified(q, known)[i].star = q[i].star
      BY <2>2, QualifiedKeeps
    <3> QED
      BY <2>2, <3>1
  <2> QED
    BY <2>1, <2>2
<1> QED
  BY <1>1, <1>2 DEF HasStar

(* Whatever the policy: Policy.check and the schema gate let a query       *)
(* through that runs and reads nothing the policy denies, if all its names *)
(* can be bound and its stars expanded.                                    *)
THEOREM PermittedIsAllowed ==
  ASSUME NEW s, NEW known, NEW pol,
         s.parses, s.count = 1, s.root \in ReadRoots,
         WellFormed(s.query), FiniteSchema(known), Runs(s.query, known), Bindable(s.query, known),
         \A i \in Scopes(s.query) : s.query[i].star => Expandable(s.query, known, i),
         ColumnsRead(s.query, known) \cap pol.deniedColumns = {},
         TablesOf(s.query) \cap pol.deniedTables = {},
         pol.allowed # {} => TablesOf(s.query) \subseteq pol.allowed,
         NEW v \in Check(pol, s, known, TRUE)
  PROVE  v.status = "allowed" /\ Validated(s.query, known)
<1>1. PICK q, rep : q = s.query /\ rep = Report(Qualified(q, known), known, TRUE)
  OBVIOUS
<1>2. Analyze(s, known, TRUE) = rep
  <2>1. ~DuplicateAlias(s.query) /\ ~(1 > 1) /\ 1 # 0
    BY DEF Runs
  <2> QED
    BY <1>1, <2>1 DEF Analyze
<1>3. v \in Verdicts(pol, rep, known)
  BY <1>2 DEF Check
<1>4. rep.supported /\ ~rep.multiple
  BY <1>1 DEF Report
<1>5. rep.star = HasStar(Qualified(q, known)) /\ rep.baseTables = TablesOf(q)
  <2>1. WellFormed(q)
    BY <1>1
  <2>2. Report(Qualified(q, known), known, TRUE).baseTables = TablesOf(q)
    BY <2>1, TablesReported
  <2>3. Report(Qualified(q, known), known, TRUE).star = HasStar(Qualified(q, known))
    BY DEF Report
  <2> QED
    BY <1>1, <2>2, <2>3
<1>6. ~rep.star
  <2>1. WellFormed(q) /\ \A i \in Scopes(q) : q[i].star => Expandable(q, known, i)
    BY <1>1
  <2> QED
    BY <1>5, <2>1, StarsGone
<1>7. RefusedTables(pol, rep, known) = {}
  <2>1. \A table \in rep.baseTables :
          table \notin pol.deniedTables /\ (pol.allowed # {} => table \in pol.allowed)
    BY <1>1, <1>5
  <2> QED
    BY <2>1 DEF RefusedTables
<1>8. ASSUME NEW r \in rep.refs PROVE Proven(q, known, r)
  <2>1. /\ WellFormed(q) /\ Runs(q, known) /\ Bindable(q, known)
        /\ r \in Report(Qualified(q, known), known, TRUE).refs
    BY <1>1
  <2> QED
    BY <2>1, ReportIsProven
<1>9. DeniedColumns(pol, rep) = {}
  <2>1. \A col \in CanonicalOf(rep) : col \in ColumnsRead(q, known)
    BY <1>8 DEF CanonicalOf, Proven
  <2> QED
    BY <1>1, <2>1 DEF DeniedColumns
<1>10. MaybeDenied(pol, rep) = {} /\ Unproven(rep) = {}
  BY <1>8 DEF Proven, MaybeDenied, Unproven
<1>11. v = Explained("allowed", NoColumn, pol, rep)
  <2> DEFINE told(status, about) == Explained(status, about, pol, rep)
  <2>1. v \in IF rep.multiple THEN {Verdict("multiple_statements", NoColumn, {}, {})}
              ELSE IF ~rep.supported THEN {Verdict("unresolved", NoColumn, {}, {})}
              ELSE IF RefusedTables(pol, rep, known) # {}
              THEN {Verdict("denied", <<table>>, {}, {}) : table \in RefusedTables(pol, rep, known)}
              ELSE IF pol.deniedColumns = {} THEN {told("allowed", NoColumn)}
              ELSE IF rep.star THEN {told("unresolved", NoColumn)}
              ELSE IF DeniedColumns(pol, rep) # {}
              THEN {told("denied", column) : column \in DeniedColumns(pol, rep)}
              ELSE IF MaybeDenied(pol, rep) # {} THEN {told("ambiguous", NoColumn)}
              ELSE IF Unproven(rep) # {} THEN {told("unresolved", NoColumn)}
              ELSE {told("allowed", NoColumn)}
    BY <1>3 DEF Verdicts
  <2> HIDE DEF told
  <2>2. v = told("allowed", NoColumn)
    BY <1>4, <1>6, <1>7, <1>9, <1>10, <2>1
  <2> QED
    BY <2>2 DEF told
<1>12. v.status = "allowed"
  BY <1>11 DEF Explained, Verdict
<1>13. Validated(q, known)
  <2>1. WellFormed(q) /\ Runs(q, known) /\ Bindable(q, known)
    BY <1>1
  <2> QED
    BY <2>1, RunsValidates
<1> QED
  BY <1>1, <1>12, <1>13

-----------------------------------------------------------------------------
(* The gates *)

(* The gates keep the policy and the schema they were started with, and    *)
(* the database moves away from that schema once at most.                  *)
Fixed ==
  /\ statement \in Statements /\ policy \in Policies
  /\ schema = InitialSchema
  /\ live \in Migrations \cup {InitialSchema}

(* Who comes after a gate has passed it, and who is refused has not. *)
Passed ==
  /\ stage = "refused" => ~Accepted(statement)
  /\ stage \notin {"guardrails", "refused"} => Accepted(statement)
  /\ stage \in {"guardrails", "refused", "policy"} => verdict = NoVerdict
  /\ stage \in {"schema", "blocked", "execute", "answered", "failed"} =>
       verdict \in Check(policy, statement, schema, optimizes)
  /\ stage \in {"schema", "execute", "answered", "failed"} => verdict.status = "allowed"
  /\ stage = "blocked" => verdict.status # "allowed" \/ ~Validated(Query, schema)
  /\ stage \in {"execute", "answered", "failed"} => Validated(Query, schema)
  /\ stage = "answered" => Runs(Query, live)

IInv == TypeOK /\ Fixed /\ Passed

(* A verdict has a status, and nothing is both resolved and denied. *)
LEMMA VerdictTypes ==
  ASSUME NEW pol, NEW s, NEW known, NEW opt, NEW v \in Check(pol, s, known, opt)
  PROVE  /\ v.status \in {"allowed", "denied", "ambiguous", "unresolved", "multiple_statements"}
         /\ v.resolved \cap v.denied = {}
<1>1. PICK rep : rep = Analyze(s, known, opt) /\ v \in Verdicts(pol, rep, known)
  BY DEF Check
<1> DEFINE statuses == {"allowed", "denied", "ambiguous", "unresolved", "multiple_statements"}
           Good(x) == x.status \in statuses /\ x.resolved \cap x.denied = {}
<1>2. ASSUME NEW status \in statuses, NEW about PROVE Good(Verdict(status, about, {}, {}))
  BY DEF Verdict
<1>3. ASSUME NEW status \in statuses, NEW about PROVE Good(Explained(status, about, pol, rep))
  BY DEF Explained, Verdict
<1>4. v \in IF rep.multiple THEN {Verdict("multiple_statements", NoColumn, {}, {})}
            ELSE IF ~rep.supported THEN {Verdict("unresolved", NoColumn, {}, {})}
            ELSE IF RefusedTables(pol, rep, known) # {}
            THEN {Verdict("denied", <<table>>, {}, {}) : table \in RefusedTables(pol, rep, known)}
            ELSE IF pol.deniedColumns = {} THEN {Explained("allowed", NoColumn, pol, rep)}
            ELSE IF rep.star THEN {Explained("unresolved", NoColumn, pol, rep)}
            ELSE IF DeniedColumns(pol, rep) # {}
            THEN {Explained("denied", column, pol, rep) : column \in DeniedColumns(pol, rep)}
            ELSE IF MaybeDenied(pol, rep) # {} THEN {Explained("ambiguous", NoColumn, pol, rep)}
            ELSE IF Unproven(rep) # {} THEN {Explained("unresolved", NoColumn, pol, rep)}
            ELSE {Explained("allowed", NoColumn, pol, rep)}
  BY <1>1 DEF Verdicts
<1>5. \/ \E status \in statuses,
           about \in {NoColumn} \cup {<<table>> : table \in RefusedTables(pol, rep, known)} :
           v = Verdict(status, about, {}, {})
      \/ \E status \in statuses, about \in {NoColumn} \cup DeniedColumns(pol, rep) :
           v = Explained(status, about, pol, rep)
  BY <1>4
<1> HIDE DEF Good, statuses
<1>6. Good(v)
  BY <1>2, <1>3, <1>5
<1> QED
  BY <1>6 DEF Good, statuses

LEMMA InitHolds == Init => IInv
<1> SUFFICES ASSUME Init PROVE IInv
  OBVIOUS
<1>1. NoVerdict.status = "none" /\ NoVerdict.resolved \cap NoVerdict.denied = {}
  BY DEF NoVerdict, Verdict
<1>2. TypeOK
  BY <1>1 DEF Init, TypeOK
<1>3. Fixed
  BY DEF Init, Fixed
<1>4. Passed
  BY DEF Init, Passed
<1> QED
  BY <1>2, <1>3, <1>4 DEF IInv

LEMMA NextKeeps == IInv /\ [Next]_vars => IInv'
<1> SUFFICES ASSUME IInv, [Next]_vars PROVE IInv'
  OBVIOUS
<1>1. TypeOK /\ Fixed /\ Passed
  BY DEF IInv
<1>2. CASE Guardrails
  <2>1. TypeOK'
    BY <1>1, <1>2 DEF Guardrails, TypeOK
  <2>2. Fixed'
    BY <1>1, <1>2 DEF Guardrails, fixed, Fixed
  <2>3. Passed'
    BY <1>1, <1>2 DEF Guardrails, fixed, Passed, Accepted
  <2> QED
    BY <2>1, <2>2, <2>3 DEF IInv
<1>3. CASE PolicyGate
  <2>1. /\ stage = "policy" /\ optimizes' \in BOOLEAN
        /\ verdict' \in Check(policy, statement, schema, optimizes')
        /\ stage' = IF verdict'.status = "allowed" THEN "schema" ELSE "blocked"
        /\ UNCHANGED <<statement, policy, schema, live>>
    BY <1>3 DEF PolicyGate, fixed
  <2>2. /\ verdict'.status \in {"allowed", "denied", "ambiguous", "unresolved", "multiple_statements"}
        /\ verdict'.resolved \cap verdict'.denied = {}
    BY <2>1, VerdictTypes
  <2>3. TypeOK'
    BY <2>1, <2>2 DEF TypeOK
  <2>4. Fixed'
    BY <1>1, <2>1 DEF Fixed
  <2>5. Passed'
    BY <1>1, <2>1 DEF Passed
  <2> QED
    BY <2>3, <2>4, <2>5 DEF IInv
<1>4. CASE SchemaGate
  <2>1. TypeOK'
    BY <1>1, <1>4 DEF SchemaGate, TypeOK
  <2>2. Fixed'
    BY <1>1, <1>4 DEF SchemaGate, fixed, Fixed
  <2>3. Passed'
    BY <1>1, <1>4 DEF SchemaGate, fixed, Passed, Query
  <2> QED
    BY <2>1, <2>2, <2>3 DEF IInv
<1>5. CASE Execute
  <2>1. TypeOK'
    BY <1>1, <1>5 DEF Execute, TypeOK
  <2>2. Fixed'
    BY <1>1, <1>5 DEF Execute, fixed, Fixed
  <2>3. Passed'
    BY <1>1, <1>5 DEF Execute, fixed, Passed, Query
  <2> QED
    BY <2>1, <2>2, <2>3 DEF IInv
<1>6. CASE Migrate
  <2>1. TypeOK'
    BY <1>1, <1>6 DEF Migrate, TypeOK
  <2>2. Fixed'
    BY <1>1, <1>6 DEF Migrate, fixed, Fixed
  <2>3. Passed'
    BY <1>1, <1>6 DEF Migrate, fixed, Passed, Query
  <2> QED
    BY <2>1, <2>2, <2>3 DEF IInv
<1>7. CASE UNCHANGED vars
  BY <1>1, <1>7 DEF vars, IInv, TypeOK, Fixed, Passed, Query
<1> QED
  BY <1>2, <1>3, <1>4, <1>5, <1>6, <1>7 DEF Next

(* The inductive invariant: which gates a statement at each stage passed,  *)
(* and what each of them found.                                            *)
THEOREM GatesHold == Spec => []IInv
  BY InitHolds, NextKeeps, PTL DEF Spec

(* A verdict has one of the statuses of PolicyResult, and no column is     *)
(* both among the permitted and among the denied of its provenance.        *)
THEOREM TypesHold == Spec => []TypeOK
<1>1. IInv => TypeOK
  BY DEF IInv
<1> QED
  BY <1>1, GatesHold, PTL

(* What check_sql refuses for its structure, whatever the schema and the   *)
(* policy are, Policy.check would not allow either.                        *)
THEOREM StructureRefusedTwice == Spec => []RefusedTwice
<1>1. IInv => RefusedTwice
  <2> SUFFICES ASSUME IInv, stage = "refused", ~statement.forbidden,
                      NEW v \in Check(policy, statement, schema, TRUE), v.status = "allowed"
               PROVE  FALSE
    BY DEF RefusedTwice
  <2>1. PICK rep : rep = Analyze(statement, schema, TRUE) /\ v \in Verdicts(policy, rep, schema)
    BY DEF Check
  <2>2. rep.supported
    BY <2>1, AllowedMeans
  <2>3. /\ statement.parses /\ statement.count # 0 /\ ~(statement.count > 1)
        /\ statement.root \in ReadRoots
    BY <2>1, <2>2, Analyzed
  <2>4. statement.count \in Nat
    BY GovernanceAssumption DEF IInv, Fixed
  <2>5. Accepted(statement)
    BY <2>3, <2>4 DEF Accepted
  <2> QED
    BY <2>5 DEF IInv, Passed
<1> QED
  BY <1>1, GatesHold, PTL

(* For all schemas and policies and all statements of the modelled syntax  *)
(* on whose names the optimizer and the database agree: what was answered  *)
(* under the schema it was checked against reads no column and no table    *)
(* the policy denies.                                                      *)
THEOREM DeniedIsNeverRead == Spec => []NothingDeniedIsRead
<1>1. IInv => NothingDeniedIsRead
  <2> SUFFICES ASSUME IInv, stage = "answered", live = schema,
                      NamesAgree(Query, schema, optimizes)
               PROVE  Permits(Query, live)
    BY DEF NothingDeniedIsRead
  <2>1. /\ verdict.status = "allowed" /\ verdict \in Check(policy, statement, schema, optimizes)
        /\ Runs(Query, schema) /\ optimizes \in BOOLEAN
    BY DEF IInv, Passed, TypeOK
  <2>2. WellFormed(Query) /\ FiniteSchema(schema)
    BY GovernanceAssumption DEF IInv, Fixed, FiniteSchema, Query
  <2>3. /\ ColumnsRead(Query, schema) \cap policy.deniedColumns = {}
        /\ TablesOf(Query) \cap policy.deniedTables = {}
        /\ policy.allowed # {} => TablesOf(Query) \subseteq policy.allowed
    BY <2>1, <2>2, AllowedReadsNothingDenied DEF Query
  <2> QED
    BY <2>3 DEF Permits
<1> QED
  BY <1>1, GatesHold, PTL

(* every star of a statement that runs stands for known columns: there is  *)
(* no table without a column                                               *)
StarsExpand ==
  \A s \in Statements : Runs(s.query, InitialSchema) =>
    \A i \in Scopes(s.query) : s.query[i].star => Expandable(s.query, InitialSchema, i)

(* If no star is over a table without columns, then what was answered      *)
(* reads only columns that are among those its decision was based on, if   *)
(* it is of the modelled syntax and optimizer and database agree on its    *)
(* names: the provenance that goes to the audit trail is complete.         *)
THEOREM ProvenanceIsComplete == StarsExpand => (Spec => []ReadsAreReported)
<1>1. StarsExpand /\ IInv => ReadsAreReported
  <2> SUFFICES ASSUME StarsExpand, IInv, stage = "answered", live = schema, optimizes,
                      NamesAgree(Query, schema, TRUE)
               PROVE  Read \subseteq verdict.resolved
    BY DEF ReadsAreReported
  <2>1. /\ verdict.status = "allowed" /\ verdict \in Check(policy, statement, schema, TRUE)
        /\ Runs(Query, schema) /\ Validated(Query, schema)
    <3>1. optimizes = TRUE
      BY DEF IInv, TypeOK
    <3> QED
      BY <3>1 DEF IInv, Passed
  <2>2. WellFormed(Query) /\ FiniteSchema(schema)
    BY GovernanceAssumption DEF IInv, Fixed, FiniteSchema, Query
  <2>3. Bindable(Query, schema)
    BY <2>1 DEF Validated
  <2>4. \A i \in Scopes(Query) : Query[i].star => Expandable(Query, schema, i)
    BY <2>1 DEF StarsExpand, IInv, Fixed, Query
  <2>5. ColumnsRead(Query, schema) \subseteq verdict.resolved
    BY <2>1, <2>2, <2>3, <2>4, AllowedReadsAreListed DEF Query
  <2> QED
    BY <2>5 DEF Read
<1>2. ASSUME StarsExpand PROVE Spec => []ReadsAreReported
  <2>1. IInv => ReadsAreReported
    BY <1>1, <1>2
  <2> QED
    BY <2>1, GatesHold, PTL
<1> QED
  BY <1>2

(* For all statements, schemas and policies without a query whose names    *)
(* cannot be bound: a column is blamed only if the query reads it.         *)
THEOREM DenialsAreFair == Spec => []DenialsAreGrounded
<1>1. IInv => DenialsAreGrounded
  <2> SUFFICES ASSUME IInv, verdict.about \in policy.deniedColumns, optimizes,
                      Runs(Query, schema), Bindable(Query, schema)
               PROVE  verdict.about \in ColumnsRead(Query, schema)
    BY DEF DenialsAreGrounded
  <2>1. \A column \in policy.deniedColumns : Len(column) = 2
    BY GovernanceAssumption DEF IInv, Fixed
  <2>2. verdict # NoVerdict
    <3>1. NoVerdict.about = <<>>
      BY DEF NoVerdict, Verdict, NoColumn
    <3>2. Len(<<>>) = 0
      OBVIOUS
    <3> QED
      BY <2>1, <3>1, <3>2
  <2>3. stage \in {"schema", "blocked", "execute", "answered", "failed"}
    BY <2>2 DEF IInv, Passed, TypeOK
  <2>4. optimizes = TRUE
    BY DEF IInv, TypeOK
  <2>5. verdict \in Check(policy, statement, schema, TRUE)
    BY <2>3, <2>4 DEF IInv, Passed
  <2>6. WellFormed(Query) /\ FiniteSchema(schema)
    BY GovernanceAssumption DEF IInv, Fixed, FiniteSchema, Query
  <2> QED
    BY <2>1, <2>5, <2>6, NamedColumnsAreRead DEF Query
<1> QED
  BY <1>1, GatesHold, PTL

(* If no star is over a table without columns: a query that the database   *)
(* would run, whose names can all be bound, is stopped by no gate after    *)
(* the guardrails unless it reads what the policy denies.                  *)
THEOREM NothingPermittedIsBlocked == StarsExpand => (Spec => []PermittedRuns)
<1>1. StarsExpand /\ IInv => PermittedRuns
  <2> SUFFICES ASSUME StarsExpand, IInv, stage = "blocked", optimizes,
                      Runs(Query, schema), Bindable(Query, schema), Permits(Query, schema)
               PROVE  FALSE
    BY DEF PermittedRuns
  <2>1. optimizes = TRUE
    BY DEF IInv, TypeOK
  <2>2. /\ Accepted(statement) /\ verdict \in Check(policy, statement, schema, TRUE)
        /\ verdict.status # "allowed" \/ ~Validated(Query, schema)
    BY <2>1 DEF IInv, Passed
  <2>3. statement.parses /\ statement.count = 1 /\ statement.root \in ReadRoots
    BY <2>2 DEF Accepted
  <2>4. WellFormed(Query) /\ FiniteSchema(schema)
    BY GovernanceAssumption DEF IInv, Fixed, FiniteSchema, Query
  <2>5. \A i \in Scopes(Query) : Query[i].star => Expandable(Query, schema, i)
    BY DEF StarsExpand, IInv, Fixed, Query
  <2>6. /\ ColumnsRead(Query, schema) \cap policy.deniedColumns = {}
        /\ TablesOf(Query) \cap policy.deniedTables = {}
        /\ policy.allowed # {} => TablesOf(Query) \subseteq policy.allowed
    BY DEF Permits
  <2>7. verdict.status = "allowed" /\ Validated(Query, schema)
    BY <2>2, <2>3, <2>4, <2>5, <2>6, PermittedIsAllowed DEF Query
  <2> QED
    BY <2>2, <2>7
<1>2. ASSUME StarsExpand PROVE Spec => []PermittedRuns
  <2>1. IInv => PermittedRuns
    BY <1>1, <1>2
  <2> QED
    BY <2>1, GatesHold, PTL
<1> QED
  BY <1>2
=============================================================================
