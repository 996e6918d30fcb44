------------------------- MODULE Confidence_proofs -------------------------
(***************************************************************************)
(* The vote of confidence.consistency is well defined for every list of    *)
(* candidates: a winner exists, no form has more votes than its, and the   *)
(* share it reports is a fraction.  (The CHOOSE of Winner says nothing by  *)
(* itself; that a most voted form seen first exists is a minimum of a set  *)
(* of naturals, taken twice.)                                              *)
(***************************************************************************)
EXTENDS Confidence, TLAPS, FiniteSetTheorems, WellFoundedInduction

(* Every non-empty set of naturals has a least element. *)
LEMMA LeastExists ==
  ASSUME NEW S \in SUBSET Nat, S # {}
  PROVE  \E x \in S : \A y \in S : x <= y
<1>1. PICK x \in S : \A y \in S : ~ (<<y, x>> \in OpToRel(<, Nat))
  BY NatLessThanWellFounded, WFMin
<1>2. \A y \in S : ~(y < x)
  BY <1>1 DEF OpToRel
<1>3. S \subseteq Nat /\ x \in Nat
  OBVIOUS
<1>4. \A y \in S : x <= y
  BY <1>2, <1>3
<1> QED
  BY <1>4

(* Votes are counted among the candidates. *)
LEMMA VotesBounded ==
  ASSUME NEW n \in Nat, NEW candidates \in [1 .. n -> Drafts], NEW form
  PROVE  /\ Votes(candidates, form) \in Nat
         /\ Votes(candidates, form) <= n
<1> DEFINE V == {i \in Parsed(candidates) : Canonical[candidates[i]] = form}
<1>1. IsFiniteSet(1 .. n) /\ Cardinality(1 .. n) = n
  BY FS_Interval
<1>2. V \in SUBSET (1 .. n)
  BY DEF Parsed
<1>3. IsFiniteSet(V) /\ Cardinality(V) <= n
  BY <1>1, <1>2, FS_Subset
<1>4. Cardinality(V) \in Nat
  BY <1>3, FS_CardinalityType
<1> QED
  BY <1>3, <1>4 DEF Votes

(* If any candidate parses, Winner is the position of one that does, that  *)
(* nobody outnumbers, and, among equals, that came first.                  *)
THEOREM WinnerIsPlurality ==
  ASSUME NEW n \in Nat, NEW candidates \in [1 .. n -> Drafts],
         Parsed(candidates) # {}
  PROVE  /\ Winner(candidates) \in Parsed(candidates)
         /\ \A j \in Parsed(candidates) :
              LET mine  == Votes(candidates, Canonical[candidates[Winner(candidates)]])
                  other == Votes(candidates, Canonical[candidates[j]])
              IN  mine > other \/ (mine = other /\ Winner(candidates) <= j)
<1> DEFINE P      == Parsed(candidates)
           V(i)   == Votes(candidates, Canonical[candidates[i]])
           Short  == {n - V(i) : i \in P}
<1>1. P \subseteq 1 .. n
  BY DEF Parsed
<1>2. \A i \in P : V(i) \in Nat /\ V(i) <= n
  BY VotesBounded
<1> HIDE DEF V
<1>3. Short \in SUBSET Nat /\ Short # {}
  BY <1>2
<1>4. PICK s \in Short : \A y \in Short : s <= y
  BY <1>3, LeastExists
<1>5. PICK b \in P : s = n - V(b)
  BY <1>4
<1>6. \A j \in P : V(b) >= V(j)
  <2> SUFFICES ASSUME NEW j \in P PROVE V(b) >= V(j)
    OBVIOUS
  <2>1. n - V(j) \in Short
    OBVIOUS
  <2>2. n - V(b) <= n - V(j)
    BY <2>1, <1>4, <1>5
  <2>3. V(b) \in Nat /\ V(j) \in Nat
    BY <1>2
  <2> QED
    BY <2>2, <2>3
<1> DEFINE Best == {i \in P : V(i) = V(b)}
<1>7. Best \in SUBSET Nat /\ Best # {}
  BY <1>1, <1>5
<1>8. PICK w \in Best : \A y \in Best : w <= y
  BY <1>7, LeastExists
<1>9. \A j \in P : V(w) > V(j) \/ (V(w) = V(j) /\ w <= j)
  BY <1>2, <1>6, <1>8
<1>10. \E i \in P : \A j \in P : V(i) > V(j) \/ (V(i) = V(j) /\ i <= j)
  BY <1>8, <1>9
<1>11. Winner(candidates) =
         CHOOSE i \in P : \A j \in P : V(i) > V(j) \/ (V(i) = V(j) /\ i <= j)
  BY DEF Winner, V
<1> QED
  BY <1>10, <1>11 DEF V

(* A quotient is no more than what its dividend is at most n times.        *)
LEMMA ShareBounded ==
  ASSUME NEW n \in Nat \ {0}, NEW u \in Nat, NEW x \in Nat, x <= n * u
  PROVE  x \div n \in 0 .. u
<1> DEFINE q == x \div n
<1>1. q \in Int /\ n * q <= x /\ x < n * (q + 1)
  BY Z3
<1> HIDE DEF q
<1>2. n * q <= n * u
  BY <1>1, Z3
<1>3. q <= u
  BY <1>1, <1>2, Z3
<1>4. q >= 0
  BY <1>1, Z3
<1> QED
  BY <1>1, <1>3, <1>4 DEF q

(* The pair that consistency returns: a draft, and a share between nothing *)
(* and the whole: a score computed from it can rely on both bounds.        *)
THEOREM ConsistencyType ==
  ASSUME NEW n \in Nat \ {0}, NEW candidates \in [1 .. n -> Drafts]
  PROVE  Consistency(candidates) \in [chosen : Drafts, agreement : 0 .. Unit]
<1>1. candidates \in Seq(Drafts) /\ Len(candidates) = n
  OBVIOUS
<1>2. candidates # <<>> /\ candidates[1] \in Drafts
  BY <1>1
<1>3. CASE Parsed(candidates) = {}
  BY <1>2, <1>3, VoteAssumption DEF Consistency
<1>4. CASE Parsed(candidates) # {}
  <2> DEFINE best  == candidates[Winner(candidates)]
             votes == Votes(candidates, Canonical[best])
  <2>1. Winner(candidates) \in 1 .. n
    BY <1>4, WinnerIsPlurality DEF Parsed
  <2>2. best \in Drafts
    BY <2>1
  <2>3. votes \in Nat /\ votes <= n
    BY VotesBounded
  <2>4. Consistency(candidates) = [chosen |-> best, agreement |-> (votes * Unit) \div n]
    BY <1>1, <1>2, <1>4 DEF Consistency
  <2> HIDE DEF votes, best
  <2>5. votes * Unit \in Nat /\ votes * Unit <= n * Unit
    BY <2>3, VoteAssumption, Z3
  <2>6. (votes * Unit) \div n \in 0 .. Unit
    BY <2>5, VoteAssumption, ShareBounded
  <2> QED
    BY <2>2, <2>4, <2>6
<1> QED
  BY <1>3, <1>4
=============================================================================
