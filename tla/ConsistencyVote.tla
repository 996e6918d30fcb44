-------------------------- MODULE ConsistencyVote --------------------------
(***************************************************************************)
(* The loop of confidence.consistency(), one iteration per step, over the  *)
(* two dictionaries it keeps: counts (canonical form -> votes) and         *)
(* canon_to_original (canonical form -> first text seen).  Both keep their *)
(* keys in order of insertion, which is what decides ties.                 *)
(*                                                                         *)
(* Its result is compared with Confidence!Consistency, which the pipeline  *)
(* model uses and which says what the vote means without a loop.           *)
(***************************************************************************)
EXTENDS Confidence, Dicts, SequencesExt

CONSTANT MaxSamples   \* bound: longest list of candidates

ASSUME SamplesAssumption == MaxSamples \in Nat

VARIABLES
  candidates,        \* the argument
  pos,               \* candidates consumed so far
  order,             \* the keys of counts in order of insertion
  counts,            \* Counter
  canonToOriginal,   \* dict filled with setdefault
  outcome            \* the returned pair, or NoOutcome while the loop runs

vars == <<candidates, pos, order, counts, canonToOriginal, outcome>>

NoOutcome == [chosen |-> NoDraft, agreement |-> 0 - 1]

Init ==
  /\ candidates \in UNION {[1 .. n -> Drafts] : n \in 0 .. MaxSamples}
  /\ pos = 0
  /\ order = <<>>
  /\ counts = EmptyDict
  /\ canonToOriginal = EmptyDict
  /\ outcome = NoOutcome

(* one pass through the loop body *)
Count ==
  /\ outcome = NoOutcome
  /\ pos < Len(candidates)
  /\ pos' = pos + 1
  /\ LET sql == candidates[pos + 1]
         c   == Canonical[sql]
     IN  IF c = Unparseable
         THEN UNCHANGED <<order, counts, canonToOriginal>>
         ELSE /\ counts' = Put(counts, c, Get(counts, c, 0) + 1)
              /\ order' = IF c \in DOMAIN counts THEN order ELSE Append(order, c)
              /\ canonToOriginal' = Put(canonToOriginal, c, Get(canonToOriginal, c, sql))
  /\ UNCHANGED <<candidates, outcome>>

(* Plausible bugs: ties go to the form seen last; the count is ignored. *)
MostCommonLast ==
  LET leads(n) == \A m \in DOMAIN order : counts[order[n]] >= counts[order[m]]
  IN  order[CHOOSE n \in DOMAIN order : leads(n) /\ \A m \in n + 1 .. Len(order) : ~leads(m)]
FirstSeen == order[1]

(* counts.most_common(1): the first key, in insertion order, that no other *)
(* key outnumbers                                                          *)
MostCommon ==
  LET leads(n) == \A m \in DOMAIN order : counts[order[n]] >= counts[order[m]]
  IN  order[CHOOSE n \in DOMAIN order : leads(n) /\ \A m \in 1 .. n - 1 : ~leads(m)]

(* Plausible bugs: shares of the parsed candidates, or of the forms. *)
ParsedVoters == Cardinality(Parsed(candidates))
FormsSeen    == Cardinality(DOMAIN counts)

(* len(candidates), the denominator of the share *)
Voters == Len(candidates)

(* the return statements after the loop, and the one before it *)
Return ==
  /\ outcome = NoOutcome
  /\ pos = Len(candidates)
  /\ outcome' =
       IF candidates = <<>> THEN [chosen |-> NoDraft, agreement |-> 0]
       ELSE IF order = <<>> THEN [chosen |-> candidates[1], agreement |-> 0]
       ELSE [chosen    |-> canonToOriginal[MostCommon],
             agreement |-> (counts[MostCommon] * Unit) \div Voters]
  /\ UNCHANGED <<candidates, pos, order, counts, canonToOriginal>>

Next == Count \/ Return

Spec == Init /\ [][Next]_vars

-----------------------------------------------------------------------------
Returned == outcome # NoOutcome

(* The dictionaries hold, at every pass, the votes of the candidates read  *)
(* so far, and tie-breaking order is order of first appearance.            *)
TypeOK ==
  /\ pos \in 0 .. Len(candidates)
  /\ ToSet(order) = DOMAIN counts
  /\ DOMAIN canonToOriginal = DOMAIN counts
  /\ outcome.chosen \in Drafts
  /\ outcome.agreement \in -1 .. Unit

(* The loop computes what the vote means: most votes first, ties to the    *)
(* form sampled first, shares counted over all candidates.                 *)
VoteIsPlurality == Returned => outcome = Consistency(candidates)

(* A form that more than half of the parsed candidates have is chosen      *)
(* whatever the order in which the samples came back.                      *)
MajorityWins ==
  Returned =>
    \A i \in Parsed(candidates) :
      2 * Votes(candidates, Canonical[candidates[i]]) > Cardinality(Parsed(candidates))
        => Canonical[outcome.chosen] = Canonical[candidates[i]]

(* Full agreement, the only case in which the default threshold skips the  *)
(* judge, means that every single candidate parsed and says the same.      *)
FullAgreementIsUnanimous ==
  Returned /\ outcome.agreement = Unit =>
    \A i \in DOMAIN candidates :
      /\ Canonical[candidates[i]] # Unparseable
      /\ Canonical[candidates[i]] = Canonical[outcome.chosen]
=============================================================================
