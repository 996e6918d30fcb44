---------------------------- MODULE Confidence ----------------------------
(***************************************************************************)
(* src/app/confidence.py: the self-consistency vote over the candidates    *)
(* the model sampled, and the confidence score.                            *)
(*                                                                         *)
(* Fractions (agreement, judge score, threshold) are counted in Unit-ths,  *)
(* Unit a multiple of the number of candidates, so that a share of the     *)
(* votes is exact; scores are counted in thousandths, the precision the    *)
(* code rounds them to (a tie rounds up).  A judge's score is whatever     *)
(* float() makes of its text: any number, or one that is none (NaN).       *)
(***************************************************************************)
EXTENDS Integers, FiniteSets, Sequences

CONSTANTS
  Drafts,      \* SQL texts the model may return
  Canonical,   \* canonicalize(): draft -> its canonical form, or Unparseable
  Unparseable, \* canonicalize() returned None
  NoDraft,     \* the empty text
  Unit,        \* denominator of fractions
  NaN          \* float("nan")

ASSUME VoteAssumption ==
  /\ NoDraft \in Drafts
  /\ DOMAIN Canonical = Drafts
  /\ Canonical[NoDraft] = Unparseable
  /\ Unit \in Nat \ {0}
  /\ NaN \notin Int

(* the candidates sqlglot parsed, by position *)
Parsed(candidates) ==
  {i \in DOMAIN candidates : Canonical[candidates[i]] # Unparseable}

Votes(candidates, form) ==
  Cardinality({i \in Parsed(candidates) : Canonical[candidates[i]] = form})

(* counts.most_common(1): the most votes, the first seen among equals; the *)
(* text returned is the first candidate that had the winning form.         *)
Winner(candidates) ==
  CHOOSE i \in Parsed(candidates) :
    LET mine == Votes(candidates, Canonical[candidates[i]]) IN
    \A j \in Parsed(candidates) :
      LET other == Votes(candidates, Canonical[candidates[j]]) IN
      mine > other \/ (mine = other /\ i <= j)

(* consistency(): the chosen candidate and the share of ALL candidates,    *)
(* parsed or not, that agree with it.                                      *)
Consistency(candidates) ==
  IF candidates = <<>> THEN [chosen |-> NoDraft, agreement |-> 0]
  ELSE IF Parsed(candidates) = {} THEN [chosen |-> candidates[1], agreement |-> 0]
  ELSE LET best == candidates[Winner(candidates)] IN
       [chosen    |-> best,
        agreement |-> (Votes(candidates, Canonical[best]) * Unit)
                        \div Len(candidates)]

(* round(x, 3) of x hundredths of a Unit *)
Thousandths(x) == (1000 * x + 50 * Unit) \div (100 * Unit)

(* c < t in floating point: false when c is no number *)
Below(c, t) == c # NaN /\ c < t

(* score(): a failed hard gate zeroes it, else 50% agreement, 35% judge,   *)
(* 15% execution.  Arithmetic on no number yields none.                    *)
Score(gatesPassed, executed, agreement, verdict) ==
  IF ~gatesPassed THEN 0
  ELSE IF verdict = NaN THEN NaN
  ELSE Thousandths(50 * agreement + 35 * verdict + (IF executed THEN 15 * Unit ELSE 0))
=============================================================================
