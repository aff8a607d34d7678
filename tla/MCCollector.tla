---------------------------- MODULE MCCollector ----------------------------
(* Instances of Collector for TLC: two manifests that share a layer.       *)
EXTENDS Collector, TLC

CONSTANTS img, att, base, app, g1, g2

ImageAndAttestation == {img, att}
NoSubject == [m \in Manifest |-> None]
Layers == {base, app}
SharedBase == [m \in Manifest |-> IF m = img THEN {base, app} ELSE {base}]

Setting(q, g, t, f) ==
  [traffic |-> t, faults |-> f, alone |-> FALSE, quiet |-> q, gc |-> g]

\* Two collections in quiet periods; one beside pushes and deletes; one with
\* files that can be neither read nor removed.
AllSettings ==
  {Setting(TRUE, {g1, g2}, {"put", "delete", "untag"}, {"crash"}),
   Setting(FALSE, {g1}, {"put", "delete"}, {}),
   Setting(TRUE, {g1}, {"put", "delete"}, {"fail"})}

Unreadable == {Setting(TRUE, {g1}, {"put"}, {"fail"})}
=============================================================================
