----------------------------- MODULE MCUploads -----------------------------
(* Instances of Uploads for TLC.                                           *)
EXTENDS Uploads, TLC

CONSTANTS p1, p2, p3, i1, i2, a

\* The hash is collision-free: a digest is the content it names.
MCHash(s) == s

OneStripe == [i \in Id |-> CHOOSE s \in Stripe : TRUE]

OneByte == {<<a>>}
UpToOne == {<<a>>}
UpToTwo == {<<a>>, <<a, a>>}

Symmetric == Permutations({p1, p2}) \cup Permutations({i1, i2})
=============================================================================
