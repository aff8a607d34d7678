------------------------------- MODULE MCLogin -------------------------------
(* Instances of Login for TLC.                                             *)
EXTENDS Login

CONSTANTS r1, r2, front, realm

Setting(m, g, d, p, w) ==
  [managed |-> m, again |-> g, dirs |-> d, path |-> p, windows |-> w]

\* First runs for one registry: in a directory on PATH, in two of which one is not,
\* and on Windows; and later runs, in a directory behind another on PATH.
SomeSettings ==
  {Setting({r1}, FALSE, {1}, {1}, FALSE), Setting({r1}, FALSE, {1, 2}, {2}, FALSE),
   Setting({r1}, FALSE, {1}, {1}, TRUE), Setting({r1}, TRUE, {2}, {1, 2}, FALSE)}

Site(a, p, s) ==
  [armed |-> TRUE, url |-> front, audience |-> a, acceptsParty |-> p, stamps |-> s]

\* The audience may differ from the host of the registry's URL, the realm may
\* stamp it or something else, and the registry may do without.
SomeSites ==
  {Site(front, FALSE, {front}), Site(realm, FALSE, {front}), Site(realm, FALSE, {front, realm}),
   Site(realm, TRUE, {}), [Site(front, FALSE, {}) EXCEPT !.armed = FALSE]}
=============================================================================
