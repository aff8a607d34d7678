------------------------------ MODULE MCTokens ------------------------------
(* Instances of Tokens for TLC: alice's two repositories and one of bob's. *)
EXTENDS Tokens, TLC

CONSTANTS alice, bob, app, lib, tools, s1, s2

Repos == {app, lib, tools}
Owners == [r \in Repo |-> IF r = tools THEN bob ELSE alice]

\* A legacy owner, an owner who may push and read tools, a pull-only owner,
\* and a federated identity without a namespace.
SomeGrants ==
  {Principal(alice, Perms(TRUE, FALSE, {})),
   Principal(alice, Perms(FALSE, TRUE, {tools})),
   Principal(alice, Perms(FALSE, FALSE, {})),
   Principal(None, Perms(FALSE, FALSE, {lib}))}

\* A login without scopes, and a push that pulls from elsewhere.
SomeScopes == {{}, {<<app, "push">>, <<lib, "pull">>, <<tools, "push">>}}

Setting(c, r, a) == [changes |-> c, restarts |-> r, alone |-> a]

\* Credentials that change at servers that stay up; fixed credentials at
\* servers that crash and restart, taking turns to start or not.
SomeSettings == {Setting(TRUE, FALSE, TRUE), Setting(FALSE, TRUE, TRUE), Setting(FALSE, TRUE, FALSE)}

Symmetric == Permutations({s1, s2})
=============================================================================
