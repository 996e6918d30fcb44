------------------------- MODULE MCConsistencyVote -------------------------
(* Six texts: two spellings of one query, one spelling each of two others, *)
(* a broken one and the empty one; lists of up to four samples, so that    *)
(* twelve divides evenly by every length.                                  *)
EXTENDS ConsistencyVote, TLC

CONSTANTS names, namesLower, totals, tally, broken, empty, N, T, C, none

MCDrafts == {names, namesLower, totals, tally, broken, empty}
MCCanonical ==
  (names :> N @@ namesLower :> N @@ totals :> T @@ tally :> C
     @@ broken :> none @@ empty :> none)
=============================================================================
