----------------------------- MODULE MCJwksCache -----------------------------
(* JwksCache for TLC: requests are alike, and so are key ids.              *)
EXTENDS JwksCache, TLC

Symmetric == Permutations(Proc) \cup Permutations(Kid)
=============================================================================
