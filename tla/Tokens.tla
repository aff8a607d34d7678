------------------------------- MODULE Tokens -------------------------------
(***************************************************************************)
(* Who may do what: permissions (internal/store/store.go), the token       *)
(* service (internal/server/token.go, internal/token/signer.go), the       *)
(* checks and challenges of the data plane (internal/server/server.go),    *)
(* and the key that servers on one data directory sign with.               *)
(*                                                                         *)
(* A token is minted from a credential, an owner or a trust binding, that  *)
(* was read a moment before, and is from then on judged by its own claims  *)
(* alone, by any server that has the key.  Time counts in units of which   *)
(* TTL and Leeway are multiples; one call of /token takes less than a unit. *)
(***************************************************************************)
EXTENDS Naturals, FiniteSets

CONSTANTS Proc,        \* handlers of /token
          Server,      \* server processes on one data directory
          Credential,
          Namespace,
          Repo,
          OwnerOf,     \* repository -> its namespace
          Grants,      \* what an administrator may give a credential
          Scopes,      \* scope lists clients ask for without a challenge
          Settings,    \* what happens, see setting
          TTL, Leeway,
          MaxTime,     \* bound: the clock stops here
          MaxTokens,   \* bound: tokens minted in a run
          MaxKeys,     \* bound: keys generated in a run
          None

Action == {"pull", "push"}

ASSUME TokensAssumption ==
  /\ OwnerOf \in [Repo -> Namespace]
  /\ TTL \in Nat /\ Leeway \in Nat /\ MaxTime \in Nat /\ MaxKeys \in Nat
  /\ None \notin Namespace \cup Nat \cup (Repo \X Action)
  /\ \A x \in Settings : x.changes \in BOOLEAN /\ x.restarts \in BOOLEAN /\ x.alone \in BOOLEAN

\* A permission block; "full" is the nil block of legacy owners.  A pull scope
\* is a glob, here the repositories it matches.
Perms(f, u, s) == [full |-> f, push |-> u, pull |-> s]
PermsOK(m) == m.full \in BOOLEAN /\ m.push \in BOOLEAN /\ m.pull \in SUBSET Repo

\* A principal acts as a namespace; None for a binding that may only pull.
Principal(n, m) == [ns |-> n, perms |-> m]
Nobody == Principal(None, Perms(FALSE, FALSE, {}))

ASSUME GrantsAssumption ==
  /\ \A g \in Grants : g.ns \in Namespace \cup {None} /\ PermsOK(g.perms)
  /\ Scopes \subseteq SUBSET (Repo \X Action)

VARIABLES
  now,
  cred,       \* the principal each credential stands for
  pending,    \* a /token call that is to mint: principal, scopes, server
  tokens,     \* tokens ever minted
  keyfile,    \* token/signing.key, 0 for none
  keys,       \* number of keys generated so far
  srv,        \* each server: down, generating a key, or up with a key
  setting,    \* never changed: whether credentials change, whether servers
              \* stop and start, and whether starts take turns
  allowed     \* history: when each credential last permitted an access

tvars == <<now, cred, pending, tokens, keyfile, keys, srv, setting, allowed>>

NotPending == [of |-> None]
Token(q, a, e, k) ==
  [of |-> q.of, ns |-> q.who.ns, access |-> a, exp |-> e, key |-> k,
   asked |-> q.asked, permitted |-> q.permitted]
-----------------------------------------------------------------------------
CanPull(o, r) == o.perms.full \/ OwnerOf[r] = o.ns \/ r \in o.perms.pull

CanPush(o) == o.perms.full \/ o.perms.push

\* requireOwnerRead and requireOwnerWrite.
May(o, r, a) ==
  IF a = "pull" THEN CanPull(o, r) ELSE OwnerOf[r] = o.ns /\ CanPush(o)

GrantAccess(o, scopes) ==
  {x \in scopes : IF x[2] = "pull" THEN CanPull(o, x[1])
                  ELSE OwnerOf[x[1]] = o.ns /\ CanPush(o)}

\* Mutation: every challenge asks for a pull.
ChallengePull(r, a) == {<<r, "pull">>}

\* The scope named by the 401 to a request for a on r without credentials
\* (challengeScope) or with a token that does not cover it (requireOwnerRead,
\* denyWrite): a write asks for both.
Challenge(r, a) == {<<r, "pull">>} \cup {<<r, a>>}

\* Mutation: a token without any access is taken for a legacy owner's.
BearerOrLegacy(t) ==
  Principal(t.ns, Perms(t.access = {}, \E r \in Repo : <<r, "push">> \in t.access,
                        {r \in Repo : <<r, "pull">> \in t.access}))

\* bearerPrincipal: the access list becomes a permission block.
Bearer(t) ==
  Principal(t.ns, Perms(FALSE, \E r \in Repo : <<r, "push">> \in t.access,
                        {r \in Repo : <<r, "pull">> \in t.access}))

\* Verify; the tokens of this server are never too young for it.
Verifies(t) == now <= t.exp + Leeway

\* Server v lets the bearer of t do a on r.
Accepts(v, t, r, a) ==
  srv[v].pc = "up" /\ t.key = srv[v].key /\ Verifies(t) /\ May(Bearer(t), r, a)
-----------------------------------------------------------------------------
\* The clock is now n and credential c stands for v.
Permitted(v, n) ==
  [c \in Credential |->
     [x \in Repo \X Action |-> IF May(v[c], x[1], x[2]) THEN n ELSE allowed[c][x]]]

Down == [pc |-> "down", key |-> 0]
Up(k) == [pc |-> "up", key |-> k]

TInit ==
  /\ now = 0
  /\ cred \in [Credential -> Grants]
  /\ pending = [p \in Proc |-> NotPending]
  /\ tokens = {}
  /\ keyfile = 0
  /\ keys = 0
  /\ srv = [v \in Server |-> Down]
  /\ setting \in Settings
  /\ allowed = [c \in Credential |->
       [x \in Repo \X Action |-> IF May(cred[c], x[1], x[2]) THEN 0 ELSE None]]

\* Permissions are set, the owner or the binding is deleted or created again.
Change(c) ==
  /\ setting.changes
  /\ \E g \in Grants \cup {Nobody} : cred' = [cred EXCEPT ![c] = g]
  /\ allowed' = Permitted(cred', now)
  /\ UNCHANGED <<now, pending, tokens, keyfile, keys, srv, setting>>

\* resolvePrincipal: a deleted credential resolves to nobody.  The scopes are
\* those of a challenge, or others that a client thinks of.
Resolve(p, c, v) ==
  /\ srv[v].pc = "up"
  /\ pending[p] = NotPending
  /\ cred[c] # Nobody
  /\ \E x \in (Repo \X Action) \cup {None} :
       \E s \in IF x = None THEN Scopes ELSE {Challenge(x[1], x[2])} :
         pending' = [pending EXCEPT ![p] =
           [of |-> c, who |-> cred[c], scopes |-> s, at |-> v, asked |-> x,
            permitted |-> {y \in s \cup ({x} \ {None}) : May(cred[c], y[1], y[2])}]]
  /\ UNCHANGED <<now, cred, tokens, keyfile, keys, srv, setting, allowed>>

Mint(p) ==
  /\ pending[p] # NotPending
  /\ Cardinality(tokens) < MaxTokens
  /\ tokens' = tokens \cup
       {Token(pending[p], GrantAccess(pending[p].who, pending[p].scopes), now + TTL,
              srv[pending[p].at].key)}
  /\ pending' = [pending EXCEPT ![p] = NotPending]
  /\ UNCHANGED <<now, cred, keyfile, keys, srv, setting, allowed>>

\* The client gives up, or signing fails.
Abandon(p) ==
  /\ pending[p] # NotPending
  /\ pending' = [pending EXCEPT ![p] = NotPending]
  /\ UNCHANGED <<now, cred, tokens, keyfile, keys, srv, setting, allowed>>

Tick ==
  /\ now < MaxTime
  /\ \A p \in Proc : pending[p] = NotPending
  /\ now' = now + 1
  /\ allowed' = Permitted(cred, now')
  /\ UNCHANGED <<cred, pending, tokens, keyfile, keys, srv, setting>>
-----------------------------------------------------------------------------
(* LoadOrCreateSigningKey, when a server starts.                           *)

SetServer(v, x) ==
  /\ srv' = [srv EXCEPT ![v] = x]
  /\ UNCHANGED <<now, cred, tokens, setting, allowed>>

\* Mutation: a key that cannot be read is replaced.
ReadKeyAnyError(v) ==
  /\ srv[v].pc = "down"
  /\ setting.alone => \A u \in Server : srv[u].pc # "generate"
  /\ \/ keyfile # 0 /\ SetServer(v, Up(keyfile))
     \/ setting.restarts /\ SetServer(v, [pc |-> "generate", key |-> 0])
     \/ keyfile = 0 /\ SetServer(v, [pc |-> "generate", key |-> 0])
  /\ UNCHANGED <<pending, keyfile, keys>>

\* The key is read, there is none yet, or it cannot be read: then the server
\* does not start.
ReadKey(v) ==
  /\ srv[v].pc = "down"
  /\ setting.alone => \A u \in Server : srv[u].pc # "generate"
  /\ \/ keyfile # 0 /\ SetServer(v, Up(keyfile))
     \/ keyfile = 0 /\ SetServer(v, [pc |-> "generate", key |-> 0])
  /\ UNCHANGED <<pending, keyfile, keys>>

\* A key is generated, written to a temporary file and renamed.
WriteKey(v) ==
  /\ srv[v].pc = "generate"
  /\ keys < MaxKeys
  /\ keys' = keys + 1
  /\ keyfile' = keys'
  /\ SetServer(v, Up(keys'))
  /\ UNCHANGED pending

\* The server stops, at any step, and its calls with it; or writing fails.
Stop(v) ==
  /\ setting.restarts
  /\ srv[v].pc # "down"
  /\ SetServer(v, Down)
  /\ pending' = [p \in Proc |-> IF pending[p] # NotPending /\ pending[p].at = v
                                THEN NotPending ELSE pending[p]]
  /\ UNCHANGED <<keyfile, keys>>

TNext ==
  \/ \E c \in Credential : Change(c)
  \/ \E p \in Proc :
       Mint(p) \/ Abandon(p) \/ (\E c \in Credential, v \in Server : Resolve(p, c, v))
  \/ \E v \in Server : ReadKey(v) \/ WriteKey(v) \/ Stop(v)
  \/ Tick

TSpec == TInit /\ [][TNext]_tvars
-----------------------------------------------------------------------------
(* Properties                                                              *)

TTypeOK ==
  /\ now \in 0 .. MaxTime
  /\ cred \in [Credential -> Grants \cup {Nobody}]
  /\ \A p \in Proc : pending[p] # NotPending =>
       /\ pending[p].of \in Credential
       /\ pending[p].who \in Grants
       /\ srv[pending[p].at].pc = "up"
  /\ \A t \in tokens : /\ t.of \in Credential
                       /\ t.ns \in Namespace \cup {None}
                       /\ t.access \in SUBSET (Repo \X Action)
                       /\ t.exp \in TTL .. MaxTime + TTL
                       /\ t.key \in 1 .. keys
  /\ keyfile \in 0 .. keys /\ keys \in 0 .. MaxKeys
  /\ \A v \in Server : srv[v].key \in 0 .. keys /\ (srv[v].pc = "up" => srv[v].key # 0)
  /\ setting \in Settings
  /\ allowed \in [Credential -> [Repo \X Action -> 0 .. MaxTime \cup {None}]]

\* An access was permitted to c at most d units ago.
PermittedWithin(c, r, a, d) ==
  allowed[c][<<r, a>>] # None /\ now <= allowed[c][<<r, a>>] + d

\* No escalation, and revocation that works: whatever a token lets its bearer
\* do, the credential it was minted from permitted no longer than a token's
\* life ago, even when it is changed in the middle of a /token call.
AccessExpires ==
  \A v \in Server, t \in tokens, r \in Repo, a \in Action :
    Accepts(v, t, r, a) => PermittedWithin(t.of, r, a, TTL + Leeway)

\* What is granted is served: until it expires, a token lets its bearer do all
\* that was asked for and that the credential permitted when it was read.  And
\* a challenge leads in: the request that was challenged is let in with the
\* token exactly if the credential permitted it.  Challenge, scopes,
\* permissions, claims and the permissions made of the claims again are five
\* encodings of one access.
ChallengeLeadsIn ==
  \A v \in Server, t \in tokens :
    Verifies(t) /\ srv[v].pc = "up" /\ srv[v].key = t.key =>
      /\ \A x \in t.permitted : Accepts(v, t, x[1], x[2])
      /\ t.asked # None /\ Accepts(v, t, t.asked[1], t.asked[2]) => t.asked \in t.permitted

\* Servers on one data directory sign and verify with one key, through crashes
\* and restarts: a token is good at every server that is up.  (Unless two
\* servers start on an empty directory at once: then both generate a key, and
\* the one whose file was replaced goes on with a key that is on no disk.)
KeySurvives ==
  setting.alone => \A v \in Server, t \in tokens : srv[v].pc = "up" => t.key = srv[v].key
=============================================================================
