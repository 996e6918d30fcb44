----------------------- MODULE ConsistencyVote_proofs -----------------------
(***************************************************************************)
(* The loop of confidence.consistency computes the vote, whatever the      *)
(* candidates and however many: its two dictionaries always hold the votes *)
(* of the candidates read so far, keyed in order of first appearance, and  *)
(* so most_common returns the form whose first candidate Winner chooses.   *)
(***************************************************************************)
EXTENDS ConsistencyVote, Confidence_proofs

(* What a list of candidates is, and the canonical forms found in one. *)
Lists       == UNION {[1 .. n -> Drafts] : n \in Nat}
Forms(list) == {Canonical[list[i]] : i \in Parsed(list)}

(* the positions, and the first position, of the candidates of a form *)
Having(list, form) == {i \in Parsed(list) : Canonical[list[i]] = form}
First(list, form)  ==
  CHOOSE i \in Having(list, form) : \A j \in Having(list, form) : i <= j

(* those among the first p candidates *)
Read(list, p, form) == {i \in Having(list, form) : i <= p}

(* The keys of the two dictionaries are the forms read so far, each with   *)
(* its votes and the text that had it first, in order of first appearance. *)
KeysOK ==
  /\ DOMAIN counts = {f \in Forms(candidates) : First(candidates, f) <= pos}
  /\ DOMAIN canonToOriginal = DOMAIN counts
VotesOK ==
  \A f \in Forms(candidates) : Get(counts, f, 0) = Cardinality(Read(candidates, pos, f))
TextsOK ==
  \A f \in DOMAIN counts : canonToOriginal[f] = candidates[First(candidates, f)]
OrderOK ==
  /\ order \in Seq(Forms(candidates))
  /\ DOMAIN counts = {order[k] : k \in 1 .. Len(order)}
  /\ \A k, m \in 1 .. Len(order) :
       k < m => First(candidates, order[k]) < First(candidates, order[m])
OutcomeOK ==
  \/ outcome = NoOutcome
  \/ outcome = Consistency(candidates)

IInv ==
  /\ candidates \in Lists
  /\ pos \in 0 .. Len(candidates)
  /\ KeysOK /\ VotesOK /\ TextsOK /\ OrderOK /\ OutcomeOK

-----------------------------------------------------------------------------
(* A list of candidates is a sequence of drafts. *)
LEMMA ListsAreSequences ==
  ASSUME NEW list \in Lists
  PROVE  /\ Len(list) \in Nat
         /\ list \in [1 .. Len(list) -> Drafts]
         /\ Parsed(list) \in SUBSET (1 .. Len(list))
         /\ Parsed(list) \in SUBSET Nat
<1>1. PICK n \in Nat : list \in [1 .. n -> Drafts]
  BY DEF Lists
<1>2. Len(list) = n /\ DOMAIN list = 1 .. n
  BY <1>1
<1>3. Parsed(list) \in SUBSET (1 .. n)
  BY <1>2 DEF Parsed
<1> QED
  BY <1>1, <1>2, <1>3

(* Every form has a first candidate. *)
LEMMA FirstIsFirst ==
  ASSUME NEW list \in Lists, NEW f \in Forms(list)
  PROVE  /\ First(list, f) \in Parsed(list) /\ Canonical[list[First(list, f)]] = f
         /\ First(list, f) \in Nat /\ First(list, f) >= 1
         /\ \A i \in Having(list, f) : First(list, f) <= i
<1>1. Having(list, f) \in SUBSET Nat /\ Having(list, f) # {}
  BY ListsAreSequences DEF Forms, Having
<1>2. \E i \in Having(list, f) : \A j \in Having(list, f) : i <= j
  BY <1>1, LeastExists
<1>3. First(list, f) \in Having(list, f) /\ \A j \in Having(list, f) : First(list, f) <= j
  BY <1>2 DEF First
<1>4. First(list, f) \in 1 .. Len(list)
  BY <1>3, ListsAreSequences DEF Having
<1> QED
  BY <1>3, <1>4, ListsAreSequences DEF Having

(* Each position of a parsed candidate is that of a form, at or after its  *)
(* first.                                                                  *)
LEMMA FormOf ==
  ASSUME NEW list \in Lists, NEW i \in Parsed(list)
  PROVE  /\ Canonical[list[i]] \in Forms(list)
         /\ First(list, Canonical[list[i]]) <= i
<1>1. Canonical[list[i]] \in Forms(list)
  BY DEF Forms
<1>2. i \in Having(list, Canonical[list[i]])
  BY DEF Having
<1> QED
  BY <1>1, <1>2, FirstIsFirst

(* The positions read are finite in number. *)
LEMMA ReadFinite ==
  ASSUME NEW list \in Lists, NEW p, NEW f
  PROVE  /\ IsFiniteSet(Having(list, f)) /\ IsFiniteSet(Read(list, p, f))
         /\ IsFiniteSet(Parsed(list))
         /\ Cardinality(Read(list, p, f)) \in Nat
<1>1. IsFiniteSet(1 .. Len(list))
  BY ListsAreSequences, FS_Interval
<1>2. Parsed(list) \subseteq 1 .. Len(list)
  BY ListsAreSequences
<1>3. IsFiniteSet(Parsed(list))
  BY <1>1, <1>2, FS_Subset
<1>4. Having(list, f) \subseteq Parsed(list) /\ Read(list, p, f) \subseteq Parsed(list)
  BY DEF Having, Read
<1>5. IsFiniteSet(Having(list, f)) /\ IsFiniteSet(Read(list, p, f))
  BY <1>3, <1>4, FS_Subset
<1> QED
  BY <1>3, <1>5, FS_CardinalityType

-----------------------------------------------------------------------------
LEMMA InitInv == Init => IInv
<1> SUFFICES ASSUME Init PROVE IInv
  OBVIOUS
<1>1. candidates \in Lists
  BY SamplesAssumption DEF Init, Lists
<1>2. pos = 0 /\ pos \in 0 .. Len(candidates)
  BY <1>1, ListsAreSequences DEF Init
<1>3. \A f \in Forms(candidates) : ~(First(candidates, f) <= pos)
  BY <1>1, <1>2, FirstIsFirst
<1>4. DOMAIN counts = {} /\ DOMAIN canonToOriginal = {} /\ order = <<>>
  BY DEF Init, EmptyDict
<1>5. KeysOK
  BY <1>3, <1>4 DEF KeysOK
<1>6. VotesOK
  <2> SUFFICES ASSUME NEW f \in Forms(candidates)
               PROVE  Get(counts, f, 0) = Cardinality(Read(candidates, pos, f))
    BY DEF VotesOK
  <2>1. \A i \in Having(candidates, f) : i \in Nat /\ i >= 1
    BY <1>1, ListsAreSequences DEF Having
  <2>2. Read(candidates, pos, f) = {}
    BY <1>2, <2>1 DEF Read
  <2>3. Cardinality(Read(candidates, pos, f)) = 0
    BY <2>2, FS_EmptySet
  <2> QED
    BY <1>4, <2>3 DEF Get
<1>7. TextsOK
  BY <1>4 DEF TextsOK
<1>8. OrderOK
  BY <1>4 DEF OrderOK
<1>9. OutcomeOK
  BY DEF Init, OutcomeOK
<1> QED
  BY <1>1, <1>2, <1>5, <1>6, <1>7, <1>8, <1>9 DEF IInv

(* What reading one more candidate does to what has been read. *)
LEMMA ReadOneMore ==
  ASSUME NEW list \in Lists, NEW p \in 0 .. Len(list) - 1,
         NEW f \in Forms(list)
  PROVE  /\ p + 1 \in 1 .. Len(list)
         /\ Canonical[list[p + 1]] # f =>
              /\ First(list, f) <= p + 1 <=> First(list, f) <= p
              /\ Read(list, p + 1, f) = Read(list, p, f)
         /\ Canonical[list[p + 1]] = f /\ f # Unparseable =>
              /\ First(list, f) <= p + 1
              /\ First(list, f) <= p \/ First(list, f) = p + 1
              /\ Cardinality(Read(list, p + 1, f)) = Cardinality(Read(list, p, f)) + 1
<1>1. /\ Len(list) \in Nat /\ p \in Nat
      /\ \A i \in Having(list, f) : i \in Nat /\ i \in Parsed(list)
      /\ \A i \in Having(list, f) : Canonical[list[i]] = f
  BY ListsAreSequences DEF Having
<1>2. /\ First(list, f) \in Nat /\ Canonical[list[First(list, f)]] = f
      /\ \A i \in Having(list, f) : First(list, f) <= i
  BY FirstIsFirst
<1>3. p + 1 \in 1 .. Len(list)
  BY <1>1
<1>4. ASSUME Canonical[list[p + 1]] # f
      PROVE  /\ First(list, f) <= p + 1 <=> First(list, f) <= p
             /\ Read(list, p + 1, f) = Read(list, p, f)
  <2>1. First(list, f) # p + 1 /\ \A i \in Having(list, f) : i # p + 1
    BY <1>1, <1>2, <1>4
  <2>2. First(list, f) <= p + 1 <=> First(list, f) <= p
    BY <1>1, <1>2, <2>1
  <2>3. \A i \in Having(list, f) : i <= p + 1 <=> i <= p
    BY <1>1, <2>1
  <2> QED
    BY <2>2, <2>3 DEF Read
<1>5. ASSUME Canonical[list[p + 1]] = f, f # Unparseable
      PROVE  /\ First(list, f) <= p + 1
             /\ First(list, f) <= p \/ First(list, f) = p + 1
             /\ Cardinality(Read(list, p + 1, f)) = Cardinality(Read(list, p, f)) + 1
  <2>1. p + 1 \in Having(list, f)
    BY <1>3, <1>5, ListsAreSequences DEF Having, Parsed
  <2>2. First(list, f) <= p + 1
    BY <1>2, <2>1
  <2>3. First(list, f) <= p \/ First(list, f) = p + 1
    BY <1>1, <1>2, <2>2
  <2>4. Read(list, p + 1, f) = Read(list, p, f) \cup {p + 1}
    <3>1. \A i \in Having(list, f) : i <= p + 1 <=> i <= p \/ i = p + 1
      BY <1>1
    <3> QED
      BY <2>1, <3>1 DEF Read
  <2>5. p + 1 \notin Read(list, p, f)
    BY <1>1 DEF Read
  <2>6. IsFiniteSet(Read(list, p, f))
    BY ReadFinite
  <2>7. Cardinality(Read(list, p + 1, f)) = Cardinality(Read(list, p, f)) + 1
    BY <2>4, <2>5, <2>6, FS_AddElement
  <2> QED
    BY <2>2, <2>3, <2>7
<1> QED
  BY <1>3, <1>4, <1>5

(* One pass through the loop body. *)
LEMMA CountInv == IInv /\ Count => IInv'
<1> SUFFICES ASSUME IInv, Count PROVE IInv'
  OBVIOUS
<1> DEFINE p == pos + 1
           c == Canonical[candidates[p]]
<1>1. /\ candidates \in Lists /\ candidates' = candidates
      /\ pos \in Nat /\ pos \in 0 .. Len(candidates) - 1 /\ pos' = p
      /\ pos' \in 0 .. Len(candidates)
  BY ListsAreSequences DEF IInv, Count
<1>2. OutcomeOK'
  BY DEF IInv, Count, OutcomeOK
<1>3. CASE c = Unparseable
  <2>1. /\ counts' = counts /\ order' = order /\ canonToOriginal' = canonToOriginal
    BY <1>3 DEF Count
  <2>2. \A f \in Forms(candidates) : c # f
    BY <1>3 DEF Forms, Parsed
  <2>3. \A f \in Forms(candidates) :
          /\ First(candidates, f) <= pos' <=> First(candidates, f) <= pos
          /\ Read(candidates, pos', f) = Read(candidates, pos, f)
    BY <1>1, <2>2, ReadOneMore
  <2>4. KeysOK'
    BY <1>1, <2>1, <2>3 DEF IInv, KeysOK
  <2>5. VotesOK'
    BY <1>1, <2>1, <2>3 DEF IInv, VotesOK
  <2>6. TextsOK' /\ OrderOK'
    BY <1>1, <2>1 DEF IInv, TextsOK, OrderOK
  <2> QED
    BY <1>1, <1>2, <2>4, <2>5, <2>6 DEF IInv
<1>4. CASE c # Unparseable
  <2>1. /\ counts' = Put(counts, c, Get(counts, c, 0) + 1)
        /\ order' = IF c \in DOMAIN counts THEN order ELSE Append(order, c)
        /\ canonToOriginal' = Put(canonToOriginal, c, Get(canonToOriginal, c, candidates[p]))
    BY <1>4 DEF Count
  <2>2. c \in Forms(candidates)
    <3>1. p \in 1 .. Len(candidates)
      BY <1>1, ListsAreSequences
    <3>2. p \in Parsed(candidates)
      BY <1>1, <1>4, <3>1, ListsAreSequences DEF Parsed
    <3> QED
      BY <3>2 DEF Forms
  <2>3. /\ First(candidates, c) <= pos'
        /\ First(candidates, c) <= pos \/ First(candidates, c) = pos'
        /\ Cardinality(Read(candidates, pos', c)) = Cardinality(Read(candidates, pos, c)) + 1
    BY <1>1, <1>4, <2>2, ReadOneMore
  <2>4. \A f \in Forms(candidates) \ {c} :
          /\ First(candidates, f) <= pos' <=> First(candidates, f) <= pos
          /\ Read(candidates, pos', f) = Read(candidates, pos, f)
    BY <1>1, ReadOneMore
  <2>5. \A f \in Forms(candidates) : First(candidates, f) \in Nat
    BY <1>1, FirstIsFirst
  <2> HIDE DEF c, p
  <2>6. /\ DOMAIN counts' = DOMAIN counts \cup {c}
        /\ DOMAIN canonToOriginal' = DOMAIN canonToOriginal \cup {c}
    BY <2>1 DEF Put
  <2>7. c \in DOMAIN counts <=> First(candidates, c) <= pos
    BY <2>2 DEF IInv, KeysOK
  <2>8. KeysOK'
    BY <1>1, <2>2, <2>3, <2>4, <2>6 DEF IInv, KeysOK
  <2>9. VotesOK'
    <3>1. Get(counts', c, 0) = Get(counts, c, 0) + 1
      BY <2>1 DEF Put, Get
    <3>2. \A f : f # c => Get(counts', f, 0) = Get(counts, f, 0)
      BY <2>1 DEF Put, Get
    <3>3. \A f \in Forms(candidates) :
            Get(counts, f, 0) = Cardinality(Read(candidates, pos, f))
      BY DEF IInv, VotesOK
    <3>4. \A f \in Forms(candidates) :
            Get(counts', f, 0) = Cardinality(Read(candidates, pos', f))
      BY <2>2, <2>3, <2>4, <3>1, <3>2, <3>3
    <3> QED
      BY <1>1, <3>4 DEF VotesOK
  <2>10. TextsOK'
    <3>1. \A f \in DOMAIN counts : f # c => canonToOriginal'[f] = canonToOriginal[f]
      BY <2>1 DEF Put, IInv, KeysOK
    <3>2. canonToOriginal'[c] = Get(canonToOriginal, c, candidates[p])
      BY <2>1 DEF Put
    <3>3. canonToOriginal'[c] = candidates[First(candidates, c)]
      <4>1. CASE c \in DOMAIN counts
        BY <3>2, <4>1 DEF Get, IInv, KeysOK, TextsOK
      <4>2. CASE c \notin DOMAIN counts
        <5>1. First(candidates, c) = p
          BY <1>1, <2>3, <2>7, <4>2
        <5> QED
          BY <3>2, <4>2, <5>1 DEF Get, IInv, KeysOK
      <4> QED
        BY <4>1, <4>2
    <3> QED
      BY <1>1, <2>6, <3>1, <3>3 DEF IInv, TextsOK
  <2>11. OrderOK'
    <3>1. CASE c \in DOMAIN counts
      BY <1>1, <2>1, <2>6, <3>1 DEF IInv, OrderOK
    <3>2. CASE c \notin DOMAIN counts
      <4>1. order \in Seq(Forms(candidates)) /\ order' = Append(order, c)
        BY <2>1, <3>2 DEF IInv, OrderOK
      <4>2. /\ order' \in Seq(Forms(candidates)) /\ Len(order') = Len(order) + 1
            /\ Len(order) \in Nat
            /\ \A k \in 1 .. Len(order) : order'[k] = order[k]
            /\ order'[Len(order) + 1] = c
        BY <2>2, <4>1
      <4>3. \A f : f \in DOMAIN counts' <=> \E k \in 1 .. Len(order') : order'[k] = f
        <5>1. \A f : f \in DOMAIN counts <=> \E k \in 1 .. Len(order) : order[k] = f
          BY DEF IInv, OrderOK
        <5>2. 1 .. Len(order') = 1 .. Len(order) \cup {Len(order) + 1}
          BY <4>2
        <5> HIDE DEF c
        <5> QED
          BY <2>6, <4>2, <5>1, <5>2
      <4>4. First(candidates, c) = pos'
        BY <2>3, <2>7, <3>2
      <4>5. \A k \in 1 .. Len(order) :
              order[k] \in Forms(candidates) /\ First(candidates, order[k]) <= pos
        BY DEF IInv, KeysOK, OrderOK
      <4>6. ASSUME NEW k \in 1 .. Len(order'), NEW m \in 1 .. Len(order'), k < m
            PROVE  First(candidates, order'[k]) < First(candidates, order'[m])
        <5>1. k \in 1 .. Len(order)
          BY <4>2, <4>6
        <5>2. CASE m = Len(order) + 1
          <6>1. First(candidates, order'[m]) = pos + 1
            BY <1>1, <4>2, <4>4, <5>2 DEF p
          <6>2. First(candidates, order'[k]) <= pos /\ First(candidates, order'[k]) \in Nat
            BY <2>5, <4>2, <4>5, <5>1
          <6> QED
            BY <1>1, <6>1, <6>2
        <5>3. CASE m # Len(order) + 1
          <6>1. m \in 1 .. Len(order)
            BY <4>2, <5>3
          <6>2. First(candidates, order[k]) < First(candidates, order[m])
            BY <4>6, <5>1, <6>1 DEF IInv, OrderOK
          <6> QED
            BY <4>2, <5>1, <6>1, <6>2
        <5> QED
          BY <5>2, <5>3
      <4> QED
        BY <1>1, <4>2, <4>3, <4>6 DEF OrderOK
    <3> QED
      BY <3>1, <3>2
  <2> QED
    BY <1>1, <1>2, <2>8, <2>9, <2>10, <2>11 DEF IInv
<1> QED
  BY <1>3, <1>4

(* When every candidate is read the dictionaries hold the whole vote. *)
LEMMA AllRead ==
  ASSUME IInv, pos = Len(candidates)
  PROVE  /\ DOMAIN counts = Forms(candidates)
         /\ \A f \in Forms(candidates) : counts[f] = Votes(candidates, f)
<1>1. candidates \in Lists /\ pos \in Nat /\ Parsed(candidates) \in SUBSET (1 .. pos)
  BY ListsAreSequences DEF IInv
<1>2. \A f \in Forms(candidates) : First(candidates, f) <= pos
  BY <1>1, FirstIsFirst
<1>3. DOMAIN counts = Forms(candidates)
  BY <1>2 DEF IInv, KeysOK
<1>4. ASSUME NEW f \in Forms(candidates)
      PROVE  counts[f] = Votes(candidates, f)
  <2>1. Read(candidates, pos, f) = Having(candidates, f)
    BY <1>1 DEF Read, Having
  <2>2. counts[f] = Cardinality(Read(candidates, pos, f))
    BY <1>3 DEF IInv, VotesOK, Get
  <2> QED
    BY <2>1, <2>2 DEF Having, Votes
<1> QED
  BY <1>3, <1>4

(* Then most_common(1) is the form of the candidate that Winner chooses.   *)
LEMMA MostCommonWins ==
  ASSUME IInv, pos = Len(candidates), Parsed(candidates) # {}
  PROVE  /\ MostCommon = Canonical[candidates[Winner(candidates)]]
         /\ MostCommon \in DOMAIN counts
         /\ counts[MostCommon] = Votes(candidates, MostCommon)
         /\ canonToOriginal[MostCommon] = candidates[Winner(candidates)]
<1> DEFINE w == Winner(candidates)
           f == Canonical[candidates[w]]
           V(g) == Votes(candidates, g)
           At(k) == First(candidates, order[k])
           leads(k) == \A m \in 1 .. Len(order) : counts[order[k]] >= counts[order[m]]
           first(k) == leads(k) /\ \A m \in 1 .. k - 1 : ~leads(m)
<1>1. candidates \in Lists /\ candidates \in [1 .. Len(candidates) -> Drafts]
      /\ Len(candidates) \in Nat
  BY ListsAreSequences DEF IInv
<1>2. /\ w \in Parsed(candidates)
      /\ \A j \in Parsed(candidates) :
           V(f) > V(Canonical[candidates[j]])
             \/ (V(f) = V(Canonical[candidates[j]]) /\ w <= j)
  BY <1>1, WinnerIsPlurality
<1>3. \A g : V(g) \in Nat
  BY <1>1, VotesBounded
<1>4. /\ f \in Forms(candidates) /\ First(candidates, f) <= w /\ w \in Nat
  BY <1>1, <1>2, FormOf, ListsAreSequences
<1> HIDE DEF w, f, V
<1>5. \A g \in Forms(candidates) :
        V(f) > V(g) \/ (V(f) = V(g) /\ w <= First(candidates, g))
  BY <1>1, <1>2, FirstIsFirst
<1>6. First(candidates, f) = w
  <2>1. w <= First(candidates, f) /\ First(candidates, f) \in Nat
    BY <1>1, <1>3, <1>4, <1>5, FirstIsFirst
  <2> QED
    BY <1>4, <2>1
<1>7. /\ order \in Seq(Forms(candidates)) /\ Len(order) \in Nat
      /\ DOMAIN order = 1 .. Len(order)
      /\ \A k \in 1 .. Len(order) : order[k] \in Forms(candidates)
      /\ \A k, m \in 1 .. Len(order) : k < m => At(k) < At(m)
  BY DEF IInv, OrderOK
<1>8. /\ DOMAIN counts = Forms(candidates)
      /\ \A g \in Forms(candidates) : counts[g] = V(g)
  BY AllRead DEF V
<1>9. PICK k \in 1 .. Len(order) : order[k] = f
  BY <1>4, <1>8 DEF IInv, OrderOK
<1>10. \A m \in 1 .. Len(order) : At(m) \in Nat
  BY <1>1, <1>7, FirstIsFirst
<1> HIDE DEF At
<1>11. leads(k)
  BY <1>3, <1>5, <1>7, <1>8, <1>9
<1>12. ASSUME NEW m \in 1 .. Len(order), leads(m), m < k
       PROVE  FALSE
  <2>1. V(order[m]) = V(f)
    <3>1. V(order[m]) >= V(f)
      BY <1>7, <1>8, <1>9, <1>12
    <3>2. order[m] \in Forms(candidates)
      BY <1>7
    <3>3. V(f) >= V(order[m])
      BY <1>3, <1>5, <3>2
    <3> QED
      BY <1>3, <3>1, <3>3
  <2>2. w <= At(m)
    BY <1>3, <1>5, <1>7, <2>1 DEF At
  <2>3. At(m) < At(k) /\ At(k) = w
    BY <1>6, <1>7, <1>9, <1>12 DEF At
  <2> QED
    BY <1>4, <1>10, <2>2, <2>3
<1>13. \A m \in 1 .. k - 1 : m \in 1 .. Len(order) /\ m < k
  BY <1>7, <1>9
<1>14. first(k)
  BY <1>11, <1>12, <1>13
<1>15. ASSUME NEW n \in 1 .. Len(order), first(n) PROVE n = k
  <2>1. ~(n < k)
    BY <1>12, <1>15
  <2>2. ~(k < n)
    <3>1. SUFFICES ASSUME k < n PROVE FALSE
      OBVIOUS
    <3>2. k \in 1 .. n - 1
      BY <1>7, <1>9, <1>15, <3>1
    <3> QED
      BY <1>11, <1>15, <3>2
  <2> QED
    BY <1>7, <1>9, <2>1, <2>2
<1>16. MostCommon = order[CHOOSE n \in 1 .. Len(order) : first(n)]
  BY <1>7 DEF MostCommon
<1> HIDE DEF first
<1>17. (CHOOSE n \in 1 .. Len(order) : first(n)) = k
  BY <1>9, <1>14, <1>15
<1>18. MostCommon = f
  BY <1>9, <1>16, <1>17
<1>19. canonToOriginal[f] = candidates[w]
  BY <1>4, <1>6, <1>8 DEF IInv, TextsOK
<1> QED
  BY <1>4, <1>8, <1>18, <1>19 DEF f, w, V

(* The statements after the loop. *)
LEMMA ReturnInv == IInv /\ Return => IInv'
<1> SUFFICES ASSUME IInv, Return PROVE IInv'
  OBVIOUS
<1>1. /\ pos = Len(candidates)
      /\ UNCHANGED <<candidates, pos, order, counts, canonToOriginal>>
  BY DEF Return
<1>2. outcome' = Consistency(candidates)
  <2>1. CASE candidates = <<>>
    BY <2>1 DEF Return, Consistency
  <2>2. CASE candidates # <<>> /\ Parsed(candidates) = {}
    <3>1. Forms(candidates) = {}
      BY <2>2 DEF Forms
    <3>2. order = <<>>
      BY <3>1 DEF IInv, OrderOK
    <3> QED
      BY <2>2, <3>2 DEF Return, Consistency
  <2>3. CASE candidates # <<>> /\ Parsed(candidates) # {}
    <3>1. order # <<>>
      <4>1. MostCommon \in DOMAIN counts
        BY <1>1, <2>3, MostCommonWins
      <4>2. \E k \in 1 .. Len(order) : order[k] = MostCommon
        BY <4>1 DEF IInv, OrderOK
      <4> QED
        BY <4>2
    <3>2. outcome' = [chosen    |-> canonToOriginal[MostCommon],
                      agreement |-> (counts[MostCommon] * Unit) \div Len(candidates)]
      BY <2>3, <3>1 DEF Return, Voters
    <3> QED
      BY <1>1, <2>3, <3>2, MostCommonWins DEF Consistency
  <2> QED
    BY <2>1, <2>2, <2>3
<1>3. OutcomeOK'
  BY <1>1, <1>2 DEF OutcomeOK
<1>4. /\ (candidates \in Lists)' /\ (pos \in 0 .. Len(candidates))'
      /\ KeysOK' /\ VotesOK' /\ TextsOK' /\ OrderOK'
  BY <1>1 DEF IInv, KeysOK, VotesOK, TextsOK, OrderOK
<1> QED
  BY <1>3, <1>4 DEF IInv

(* The dictionaries of the loop, at every pass, hold the vote of the       *)
(* candidates read, and what it returns is what the vote means.            *)
THEOREM LoopInvariant == Spec => []IInv
<1>1. IInv /\ [Next]_vars => IInv'
  <2> SUFFICES ASSUME IInv, [Next]_vars PROVE IInv'
    OBVIOUS
  <2>1. CASE Count
    BY <2>1, CountInv
  <2>2. CASE Return
    BY <2>2, ReturnInv
  <2>3. CASE UNCHANGED vars
    BY <2>3 DEF vars, IInv, KeysOK, VotesOK, TextsOK, OrderOK, OutcomeOK
  <2> QED
    BY <2>1, <2>2, <2>3 DEF Next
<1> QED
  BY <1>1, InitInv, PTL DEF Spec

-----------------------------------------------------------------------------
(* What the vote returns, of an empty list too. *)
LEMMA ConsistencyOfAny ==
  ASSUME NEW list \in Lists
  PROVE  Consistency(list) \in [chosen : Drafts, agreement : 0 .. Unit]
<1>1. Len(list) \in Nat /\ list \in [1 .. Len(list) -> Drafts]
  BY ListsAreSequences
<1>2. CASE list = <<>>
  BY <1>2, VoteAssumption DEF Consistency
<1>3. CASE list # <<>>
  <2>1. Len(list) \in Nat \ {0}
    BY <1>1, <1>3
  <2> QED
    BY <1>1, <2>1, ConsistencyType
<1> QED
  BY <1>2, <1>3

(* Confidence.py returns a pair: the dictionaries of the loop have the     *)
(* same keys, and the pair is a candidate and a share of the votes.        *)
THEOREM VoteTypes == Spec => []TypeOK
<1>1. IInv => TypeOK
  <2> SUFFICES ASSUME IInv PROVE TypeOK
    OBVIOUS
  <2>1. ToSet(order) = DOMAIN counts
    <3>1. DOMAIN order = 1 .. Len(order)
      BY DEF IInv, OrderOK
    <3> QED
      BY <3>1 DEF IInv, OrderOK, ToSet
  <2>2. outcome.chosen \in Drafts /\ outcome.agreement \in -1 .. Unit
    <3>1. CASE outcome = NoOutcome
      BY <3>1, VoteAssumption DEF NoOutcome
    <3>2. CASE outcome = Consistency(candidates)
      <4>1. outcome.chosen \in Drafts /\ outcome.agreement \in 0 .. Unit
        BY <3>2, ConsistencyOfAny DEF IInv
      <4> QED
        BY <4>1, VoteAssumption
    <3> QED
      BY <3>1, <3>2 DEF IInv, OutcomeOK
  <2> QED
    BY <2>1, <2>2 DEF IInv, KeysOK, TypeOK
<1> QED
  BY <1>1, LoopInvariant, PTL

(* The loop over the two dictionaries, with the ties that most_common      *)
(* breaks by order of insertion, returns the winner of the vote.           *)
THEOREM LoopComputesTheVote == Spec => []VoteIsPlurality
<1>1. IInv => VoteIsPlurality
  BY DEF IInv, OutcomeOK, VoteIsPlurality, Returned
<1> QED
  BY <1>1, LoopInvariant, PTL

(* A form that most of the parsed candidates have wins: two forms cannot   *)
(* share the votes of one candidate.                                       *)
LEMMA MajorityOfList ==
  ASSUME NEW list \in Lists, NEW i \in Parsed(list),
         2 * Votes(list, Canonical[list[i]]) > Cardinality(Parsed(list))
  PROVE  Canonical[Consistency(list).chosen] = Canonical[list[i]]
<1> DEFINE w == Winner(list)
           A == Having(list, Canonical[list[w]])
           B == Having(list, Canonical[list[i]])
<1>1. Len(list) \in Nat /\ list \in [1 .. Len(list) -> Drafts] /\ list # <<>>
  BY ListsAreSequences
<1>2. Consistency(list).chosen = list[w]
  BY <1>1 DEF Consistency
<1>3. /\ w \in Parsed(list)
      /\ \/ Votes(list, Canonical[list[w]]) > Votes(list, Canonical[list[i]])
         \/ Votes(list, Canonical[list[w]]) = Votes(list, Canonical[list[i]])
  BY <1>1, WinnerIsPlurality
<1>4. /\ Votes(list, Canonical[list[w]]) = Cardinality(A)
      /\ Votes(list, Canonical[list[i]]) = Cardinality(B)
  BY DEF Votes, Having
<1>5. IsFiniteSet(A) /\ IsFiniteSet(B) /\ IsFiniteSet(Parsed(list))
  BY ReadFinite
<1>6. SUFFICES ASSUME Canonical[list[w]] # Canonical[list[i]] PROVE FALSE
  BY <1>2
<1>7. A \cap B = {} /\ (A \cup B) \subseteq Parsed(list)
  BY <1>6 DEF Having
<1> HIDE DEF A, B, w
<1>8. Cardinality(A) \in Nat /\ Cardinality(B) \in Nat /\ Cardinality(Parsed(list)) \in Nat
  BY <1>5, FS_CardinalityType
<1>9. Cardinality(A \cup B) = Cardinality(A) + Cardinality(B)
  <2>1. Cardinality(A \cup B) = Cardinality(A) + Cardinality(B) - Cardinality(A \cap B)
    BY <1>5, FS_Union
  <2>2. Cardinality(A \cap B) = 0
    BY <1>7, FS_EmptySet
  <2> QED
    BY <1>8, <2>1, <2>2
<1>10. Cardinality(A \cup B) <= Cardinality(Parsed(list))
  BY <1>5, <1>7, FS_Subset
<1> QED
  BY <1>3, <1>4, <1>8, <1>9, <1>10

(* The order in which the samples come back cannot take the choice from a  *)
(* form that more than half of the parsed ones have.                       *)
THEOREM MajorityDecides == Spec => []MajorityWins
<1>1. IInv => MajorityWins
  <2> SUFFICES ASSUME IInv, outcome = Consistency(candidates) PROVE MajorityWins
    BY DEF IInv, OutcomeOK, MajorityWins, Returned
  <2> QED
    BY MajorityOfList DEF IInv, MajorityWins
<1> QED
  BY <1>1, LoopInvariant, PTL

(* A share of the whole is a vote by every candidate. *)
LEMMA WholeShare ==
  ASSUME NEW n \in Nat \ {0}, NEW u \in Nat \ {0}, NEW x \in Nat, x <= n,
         (x * u) \div n = u
  PROVE  x = n
<1>1. x * u \in Int /\ n * ((x * u) \div n) <= x * u
  BY Z3
<1>2. n * u <= x * u
  BY <1>1
<1>3. SUFFICES ASSUME x < n PROVE FALSE
  OBVIOUS
<1>4. (x + 1) * u <= n * u
  BY <1>3, Z3
<1>5. (x + 1) * u = x * u + u
  BY Z3
<1> QED
  BY <1>1, <1>2, <1>4, <1>5, Z3

LEMMA UnanimousList ==
  ASSUME NEW list \in Lists, Consistency(list).agreement = Unit,
         NEW i \in DOMAIN list
  PROVE  /\ Canonical[list[i]] # Unparseable
         /\ Canonical[list[i]] = Canonical[Consistency(list).chosen]
<1> DEFINE f == Canonical[list[Winner(list)]]
           n == Len(list)
<1>1. n \in Nat /\ list \in [1 .. n -> Drafts] /\ Unit # 0 /\ Unit \in Nat \ {0}
  BY ListsAreSequences, VoteAssumption
<1>2. list # <<>> /\ Parsed(list) # {} /\ n \in Nat \ {0}
  BY <1>1 DEF Consistency
<1>3. /\ Consistency(list).chosen = list[Winner(list)]
      /\ Consistency(list).agreement = (Votes(list, f) * Unit) \div n
  BY <1>2 DEF Consistency
<1>4. Votes(list, f) \in Nat /\ Votes(list, f) <= n
  BY <1>1, VotesBounded
<1> HIDE DEF f
<1>5. (Votes(list, f) * Unit) \div n = Unit
  BY <1>3
<1>6. Votes(list, f) = n
  BY <1>1, <1>2, <1>4, <1>5, WholeShare
<1>7. Having(list, f) \subseteq 1 .. n /\ Cardinality(Having(list, f)) = n
  BY <1>6, ListsAreSequences DEF Having, Votes
<1>8. IsFiniteSet(1 .. n) /\ Cardinality(1 .. n) = n
  <2>1. IsFiniteSet(1 .. n) /\ Cardinality(1 .. n) = IF 1 > n THEN 0 ELSE n - 1 + 1
    BY <1>1, FS_Interval
  <2> QED
    BY <1>1, <2>1
<1>9. Having(list, f) = 1 .. n
  BY <1>7, <1>8, FS_Subset
<1>10. i \in Having(list, f)
  BY <1>1, <1>9
<1> QED
  BY <1>3, <1>10 DEF Having, Parsed, f

(* The agreement that lets the judge be skipped is reported only when each *)
(* candidate parsed and all of them say the same.                          *)
THEOREM UnanimityIsReal == Spec => []FullAgreementIsUnanimous
<1>1. IInv => FullAgreementIsUnanimous
  <2> SUFFICES ASSUME IInv, outcome = Consistency(candidates)
               PROVE  FullAgreementIsUnanimous
    BY DEF IInv, OutcomeOK, FullAgreementIsUnanimous, Returned
  <2> QED
    BY UnanimousList DEF IInv, FullAgreementIsUnanimous
<1> QED
  BY <1>1, LoopInvariant, PTL
=============================================================================
