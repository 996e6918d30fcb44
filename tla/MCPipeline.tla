----------------------------- MODULE MCPipeline -----------------------------
(* Instances of Pipeline.  The six drafts: two spellings of a harmless     *)
(* query, a query that runs under the first schema only and may get a dear *)
(* plan, one whose policy verdict changes with the schema and whose LIMIT  *)
(* is a product (read as 1, worth 9), a write, and text that does not      *)
(* parse.                                                                  *)
EXTENDS Pipeline, TLC

CONSTANTS r1, r2, r3,
          qNames, qNAMES, qTotals, qEmpty, qLong, fNames, fTotals, fEmpty, fLong,
          names, nameslc, totals, salaries, drop, broken, N, T, S, D, none,
          s1, s2

TwoRequests   == {r1, r2}
ThreeRequests == {r1, r2, r3}
Symmetry2     == Permutations(TwoRequests)
Symmetry3     == Permutations(ThreeRequests)

(* Two spellings that fold to one text may be exchanged, like requests. *)
Spellings     == Permutations({qNames, qNAMES})
AllSymmetry   == Symmetry2 \cup Spellings

AllQuestions == {qNames, qNAMES, qEmpty, qLong}
AllFold ==
  (qNames :> fNames @@ qNAMES :> fNames @@ qEmpty :> fEmpty @@ qLong :> fLong)
JustEmpty == {qEmpty}
JustLong  == {qLong}

AllDrafts == {names, nameslc, totals, salaries, drop, broken}
AllCanonical ==
  (names :> N @@ nameslc :> N @@ totals :> T @@ salaries :> S @@ drop :> D
     @@ broken :> none)
AllReadOnly == AllDrafts \ {drop, broken}
AllLimitRead == [d \in AllDrafts |-> IF d \in {nameslc, salaries} THEN 1 ELSE none]
AllLimitValue ==
  [d \in AllDrafts |-> IF d = nameslc THEN 1 ELSE IF d = salaries THEN 9 ELSE none]
AllPermitted ==
  {<<d, s>> \in AllDrafts \X {s1, s2} : d # salaries \/ s = s1}
AllWellFormed ==
  {<<d, s>> \in AllDrafts \X {s1, s2} : d # totals \/ s = s1}
AllPlans ==
  [d \in AllDrafts |-> {[cost |-> 5, rows |-> 5]} \cup
     (IF d = totals THEN {[cost |-> 6, rows |-> 5], [cost |-> 5, rows |-> 6]} ELSE {})]
AllMatching ==
  [d \in AllDrafts |-> IF d = names THEN {0, 4} ELSE IF d = salaries THEN {4} ELSE {2}]

(* nothing, a score far outside [0, 1], and none *)
AllJudgeScores == {0, 10, NaN}

(* A lean instance: one query, permitted under the first schema only, and text *)
(* that does not parse; one question in two spellings.                     *)
OneQuestion  == {qNames, qNAMES}
OneFold      == [q \in OneQuestion |-> fNames]
OneDrafts    == {salaries, broken}
OneCanonical == [d \in OneDrafts |-> AllCanonical[d]]
OneReadOnly  == {salaries}
OneLimit     == [d \in OneDrafts |-> none]
OnePermitted == {<<salaries, s1>>}
OneWellFormed == {salaries} \X {s1, s2}
OneSymmetry  == Symmetry3 \cup Spellings
OnePlans     == [d \in OneDrafts |-> {[cost |-> 5, rows |-> 5]}]
OneMatching  == [d \in OneDrafts |-> {2}]
=============================================================================
