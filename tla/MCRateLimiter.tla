--------------------------- MODULE MCRateLimiter ---------------------------
(***************************************************************************)
(* RateLimiter with a signed-in caller and an anonymous one behind one     *)
(* proxy, and the proxy itself as a caller: the last two share a key.      *)
(***************************************************************************)
EXTENDS RateLimiter

SignedIn == [uid |-> "u1", forwarded |-> "proxy", remote |-> "peer"]
Anonymous == [uid |-> "none", forwarded |-> "proxy", remote |-> "peer"]
Direct == [uid |-> "none", forwarded |-> "none", remote |-> "proxy"]

ThreeCallers == {SignedIn, Anonymous, Direct}
=============================================================================
