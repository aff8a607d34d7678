---------------------------- MODULE MCManifests ----------------------------
(* Instances of Manifests for TLC: an image and an attestation about it.   *)
EXTENDS Manifests, TLC

CONSTANTS img, att, p1, p2

ImageAndAttestation == {img, att}
Attached == [m \in Manifest |-> IF m = att THEN img ELSE None]

\* Everything but deletes, beside each other, with every fault or with none; every
\* kind of request, one at a time; repositories dropped beside pushes.
AllSettings ==
  {[traffic |-> {"put", "get", "untag", "tags", "referrers"},
    faults |-> {"crash", "fail"}, alone |-> FALSE],
   [traffic |-> {"put", "get", "untag", "referrers"}, faults |-> {}, alone |-> FALSE],
   [traffic |-> {"put", "get", "untag", "tags", "referrers", "delete", "drop"},
    faults |-> {}, alone |-> TRUE],
   [traffic |-> {"put", "delete", "drop"}, faults |-> {"fail"}, alone |-> FALSE]}
Symmetric == Permutations({p1, p2})
=============================================================================
