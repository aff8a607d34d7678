---------------------------- MODULE MCFederation ----------------------------
(* Instances of Federation for TLC.                                        *)
EXTENDS Federation, TLC

CONSTANTS p1, p2, first, second

\* Logins one at a time; and logins that overlap, with pins that fail.
AllSettings ==
  {[faults |-> {}, alone |-> TRUE, azp |-> TRUE],
   [faults |-> {"fail"}, alone |-> FALSE, azp |-> FALSE],
   [faults |-> {"nosub"}, alone |-> TRUE, azp |-> FALSE]}

Symmetric == Permutations({p1, p2}) \cup Permutations({first, second})
=============================================================================
