---------------------------- MODULE MCCredentialFile ----------------------------
(* Instances of CredentialFile for TLC.                                    *)
EXTENDS CredentialFile, TLC

CONSTANTS p1, p2, s1, s2, i1, i2, i3

Setting(t, x, n, w, k) ==
  [traffic |-> t, faults |-> x, turns |-> n, windows |-> w, tokens |-> k]

AnyFault == {"crash", "fail", "lost"}

\* Calls beside each other that do not overlap between refresh and rename, with
\* replies that get lost; beside each other, killed and failing, that do not
\* overlap while they save, on either platform; one call after the other, killed
\* and failing, on either platform; and for an issuer without refresh tokens.
AllSettings ==
  {Setting(Commands \ {"erase"}, {"lost"}, Changes, FALSE, TRUE),
   Setting({"get", "login", "logout"}, {"crash", "fail"}, Saves, FALSE, TRUE),
   Setting({"get", "login"}, {"crash", "fail"}, Saves, TRUE, TRUE),
   Setting(Commands \ {"logout"}, AnyFault, Stages \ {"idle"}, FALSE, TRUE),
   Setting({"get", "login", "store"}, AnyFault, Stages \ {"idle"}, TRUE, TRUE),
   Setting({"get", "login", "erase"}, AnyFault, Changes, FALSE, FALSE)}

Symmetric ==
  Permutations({p1, p2}) \cup Permutations({s1, s2}) \cup Permutations({i1, i2, i3})
=============================================================================
