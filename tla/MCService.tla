----------------------------- MODULE MCService -----------------------------
(* The instance of Service.  Of the ten stages those are kept that differ  *)
(* in what the worker does: one after which it may return unasked, and the *)
(* two that call the provider; the eight others are like the first.        *)
EXTENDS Service

FewStages == <<"cache", "generate", "judge">>
FewStops  == {1, 3}
=============================================================================
