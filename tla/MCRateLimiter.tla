--------------------------- MODULE MCRateLimiter ---------------------------
(* A small instance of RateLimiter: two tokens a minute, a tick of fifteen *)
(* seconds (half a token), two callers served by two threads.              *)
EXTENDS RateLimiter, TLC

CONSTANTS t1, t2, alice, bob

MCThreads     == {t1, t2}
MCPrincipals  == {alice, bob}
Symmetry      == Permutations(MCThreads) \cup Permutations(MCPrincipals)
=============================================================================
