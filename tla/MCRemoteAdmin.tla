---------------------------- MODULE MCRemoteAdmin ----------------------------
(* Instances of RemoteAdmin, and of Owners within it, for TLC.             *)
EXTENDS RemoteAdmin, TLC

CONSTANTS p1, p2, c1, c2, old, new

Setting(t, f, a, k, x) ==
  [traffic |-> t, faults |-> f, alone |-> a, commands |-> k, cuts |-> x]

Changes == {"create", "password", "permissions", "delete"}

Both == {"fail", "unread"}

\* Administrators on the registry's own disk or API, and logins beside them;
\* remote commands that take turns, and two that overlap and lose their
\* connections.
AllSettings ==
  {Setting(Changes \cup {"login"}, Both, FALSE, {}, FALSE),
   Setting(Changes, Both, TRUE, {"add", "perms", "password", "delete"}, FALSE),
   Setting(Changes, {"fail"}, FALSE, {"add", "password", "delete"}, TRUE),
   Setting(Changes, {"unread"}, FALSE, {"perms", "delete"}, TRUE)}

\* One administrator who adds an owner and uses --full.
FullSettings == {Setting(Changes, {"fail"}, TRUE, {"add", "perms", "full"}, FALSE)}

Symmetric == Permutations({p1, p2}) \cup Permutations({c1, c2})
             \cup Permutations({old, new})
=============================================================================
