-------------------------- MODULE MCQuoteService --------------------------
(***************************************************************************)
(* QuoteService on small instances.  Time is counted in units no shorter   *)
(* than the shortest delay in play.                                        *)
(***************************************************************************)
EXTENDS QuoteService

\* One clock per instance, the second one unit ahead.
SkewedClocks == CHOOSE f \in [Instances -> {0, 1}] : \E i, j \in Instances : f[i] # f[j]
=============================================================================
