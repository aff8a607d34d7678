---------------------------- MODULE TokensProofs ----------------------------
(* Theorems about Tokens, for any credentials, permissions, scopes,        *)
(* servers and lifetimes.                                                  *)
EXTENDS Tokens, TLAPS

Accesses == Repo \X Action

Call == [of : Credential, who : Grants, scopes : SUBSET Accesses, at : Server,
         asked : Accesses \cup {None}, permitted : SUBSET Accesses]

Issued == [of : Credential, ns : Namespace \cup {None}, access : SUBSET Accesses, exp : Nat,
           key : Nat, asked : Accesses \cup {None}, permitted : SUBSET Accesses]

(***************************************************************************)
(* The inductive invariant.                                                *)
(***************************************************************************)
TT ==
  /\ now \in 0 .. MaxTime
  /\ cred \in [Credential -> Grants \cup {Nobody}]
  /\ pending \in [Proc -> Call \cup {NotPending}]
  /\ tokens \in SUBSET Issued
  /\ \A t \in tokens : t.exp \in TTL .. MaxTime + TTL /\ t.key \in 1 .. keys
  /\ keyfile \in 0 .. keys /\ keys \in 0 .. MaxKeys
  /\ srv \in [Server -> [pc : {"down", "generate", "up"}, key : Nat]]
  /\ \A v \in Server : srv[v].key \in 0 .. keys /\ (srv[v].pc = "up" => srv[v].key # 0)
  /\ setting \in Settings
  /\ allowed \in [Credential -> [Accesses -> (0 .. MaxTime) \cup {None}]]

\* A call under way is at a server that is up.
Served == \A p \in Proc : pending[p] # NotPending => srv[pending[p].at].pc = "up"

\* Who may do something may do it now, in a call under way too; a token lets
\* nobody do what was not permitted when it was minted, or later.
Fresh ==
  /\ \A c \in Credential, r \in Repo, a \in Action :
       /\ May(cred[c], r, a) => allowed[c][<<r, a>>] = now
       /\ allowed[c][<<r, a>>] \in (0 .. now) \cup {None}
  /\ \A p \in Proc : pending[p] # NotPending =>
       \A r \in Repo, a \in Action :
         May(pending[p].who, r, a) => allowed[pending[p].of][<<r, a>>] = now
  /\ \A t \in tokens, r \in Repo, a \in Action : May(Bearer(t), r, a) =>
       allowed[t.of][<<r, a>>] \in Nat /\ t.exp <= allowed[t.of][<<r, a>>] + TTL

\* What was asked for and permitted is in the scopes, and in the token.
CallLed(q) ==
  \A r \in Repo, a \in Action :
    /\ <<r, a>> \in q.permitted => <<r, a>> \in q.scopes /\ May(q.who, r, a)
    /\ q.asked = <<r, a>> /\ May(q.who, r, a) => <<r, a>> \in q.permitted

TokenLed(t) ==
  \A r \in Repo, a \in Action :
    /\ <<r, a>> \in t.permitted => May(Bearer(t), r, a)
    /\ t.asked = <<r, a>> /\ May(Bearer(t), r, a) => <<r, a>> \in t.permitted

Led ==
  /\ \A p \in Proc : pending[p] # NotPending => CallLed(pending[p])
  /\ \A t \in tokens : TokenLed(t)

\* Where starts take turns there is one key, once there is one.
OneKey ==
  setting.alone =>
    /\ \A u, v \in Server : srv[u].pc = "generate" /\ srv[v].pc = "generate" => u = v
    /\ \A v \in Server : srv[v].pc = "generate" => keyfile = 0
    /\ \A v \in Server : srv[v].pc = "up" => srv[v].key = keyfile
    /\ \A t \in tokens : t.key = keyfile

TInv == TT /\ Served /\ Fresh /\ Led /\ OneKey
-----------------------------------------------------------------------------
(* Helpers                                                                 *)

LEMMA Constants ==
  /\ OwnerOf \in [Repo -> Namespace] /\ None \notin Namespace \cup Nat \cup Accesses
  /\ TTL \in Nat /\ Leeway \in Nat /\ MaxTime \in Nat /\ MaxKeys \in Nat
  /\ \A g \in Grants : g.ns \in Namespace \cup {None}
  /\ Scopes \subseteq SUBSET Accesses
  BY TokensAssumption, GrantsAssumption DEF Accesses

\* A token lets its bearer do what its scopes name and its credential permits,
\* and nothing its credential does not permit.
LEMMA TokenIsGrant ==
  ASSUME NEW q \in Call, NEW e, NEW k, NEW r \in Repo, NEW a \in Action
  PROVE  LET t == Token(q, GrantAccess(q.who, q.scopes), e, k) IN
         /\ May(Bearer(t), r, a) => May(q.who, r, a)
         /\ <<r, a>> \in q.scopes /\ May(q.who, r, a) => May(Bearer(t), r, a)
<1> DEFINE A == GrantAccess(q.who, q.scopes)
           t == Token(q, A, e, k)
           b == Bearer(t)
           n == q.who.ns
<1>1. t.ns = n /\ t.access = A
  BY DEF Token
<1>2. \A s \in Repo : /\ <<s, "pull">> \in A <=> <<s, "pull">> \in q.scopes /\ CanPull(q.who, s)
                      /\ <<s, "push">> \in A <=> /\ <<s, "push">> \in q.scopes
                                                 /\ OwnerOf[s] = n /\ CanPush(q.who)
  BY DEF GrantAccess
<1> HIDE DEF A, t
<1>3. /\ b.ns = n /\ b.perms.full = FALSE
      /\ b.perms.push = (\E s \in Repo : <<s, "push">> \in A)
      /\ b.perms.pull = {s \in Repo : <<s, "pull">> \in A}
  BY <1>1 DEF Bearer, Principal, Perms
<1> HIDE DEF b
<1>4. /\ CanPush(b) <=> \E s \in Repo : <<s, "push">> \in A
      /\ CanPull(b, r) <=> OwnerOf[r] = n \/ <<r, "pull">> \in A
  BY <1>3 DEF CanPush, CanPull
<1>5. OwnerOf[r] = n => CanPull(q.who, r)
  BY DEF CanPull
<1>6. CASE a = "pull"
  <2>1. May(b, r, a) = CanPull(b, r) /\ May(q.who, r, a) = CanPull(q.who, r)
    BY <1>6 DEF May
  <2> QED
    BY <1>2, <1>4, <1>5, <1>6, <2>1 DEF b, t, A
<1>7. CASE a = "push"
  <2>1. /\ May(b, r, a) = (OwnerOf[r] = n /\ CanPush(b))
        /\ May(q.who, r, a) = (OwnerOf[r] = n /\ CanPush(q.who))
    BY <1>3, <1>7 DEF May
  <2> QED
    BY <1>2, <1>4, <1>7, <2>1 DEF b, t, A
<1> QED
  BY <1>6, <1>7 DEF Action

\* Permissions are noted at the present; what was noted before is kept.
LEMMA PermittedIs ==
  ASSUME TT, Fresh, NEW v \in [Credential -> Grants \cup {Nobody}], NEW n \in now .. MaxTime
  PROVE  LET w == Permitted(v, n) IN
         /\ w \in [Credential -> [Accesses -> (0 .. MaxTime) \cup {None}]]
         /\ \A c \in Credential, r \in Repo, a \in Action :
              /\ w[c][<<r, a>>] = IF May(v[c], r, a) THEN n ELSE allowed[c][<<r, a>>]
              /\ w[c][<<r, a>>] \in (0 .. n) \cup {None}
              /\ allowed[c][<<r, a>>] \in Nat =>
                   w[c][<<r, a>>] \in Nat /\ allowed[c][<<r, a>>] <= w[c][<<r, a>>]
<1> DEFINE w == Permitted(v, n)
<1>0. now \in Nat /\ MaxTime \in Nat /\ n \in 0 .. MaxTime /\ n \in Nat
  BY Constants DEF TT
<1>1. ASSUME NEW c \in Credential, NEW r \in Repo, NEW a \in Action
      PROVE  /\ w[c][<<r, a>>] = IF May(v[c], r, a) THEN n ELSE allowed[c][<<r, a>>]
             /\ allowed[c][<<r, a>>] \in (0 .. now) \cup {None}
  BY DEF Permitted, Fresh
<1>2. w \in [Credential -> [Accesses -> (0 .. MaxTime) \cup {None}]]
  BY <1>0 DEF Permitted, TT, Accesses
<1>3. ASSUME NEW c \in Credential, NEW r \in Repo, NEW a \in Action
      PROVE  /\ w[c][<<r, a>>] \in (0 .. n) \cup {None}
             /\ allowed[c][<<r, a>>] \in Nat =>
                  w[c][<<r, a>>] \in Nat /\ allowed[c][<<r, a>>] <= w[c][<<r, a>>]
  <2>1. PICK old : old = allowed[c][<<r, a>>]
    OBVIOUS
  <2>2. PICK new : new = w[c][<<r, a>>]
    OBVIOUS
  <2>3. (new = n \/ new = old) /\ old \in (0 .. now) \cup {None}
    BY <1>1, <1>3, <2>1, <2>2
  <2>4. now <= n /\ None \notin Nat
    BY <1>0, Constants
  <2>5. new \in (0 .. n) \cup {None} /\ (old \in Nat => new \in Nat /\ old <= new)
    BY <1>0, <2>3, <2>4
  <2> QED
    BY <2>1, <2>2, <2>5
<1> QED
  BY <1>1, <1>2, <1>3
-----------------------------------------------------------------------------
(* The actions                                                             *)

LEMMA Init0 == TInit => TInv
<1> SUFFICES ASSUME TInit PROVE TInv
  OBVIOUS
<1>1. TT
  BY Constants DEF TInit, TT, Down, Accesses
<1>2. Served /\ Led /\ OneKey
  BY DEF TInit, Served, Led, OneKey, Down
<1>3. Fresh
  BY DEF TInit, Fresh, Accesses
<1> QED
  BY <1>1, <1>2, <1>3 DEF TInv

LEMMA ChangeStep == ASSUME TInv, NEW c \in Credential, Change(c) PROVE TInv'
<1>1. PICK g \in Grants \cup {Nobody} : cred' = [cred EXCEPT ![c] = g]
  BY DEF Change
<1>2. /\ allowed' = Permitted(cred', now)
      /\ UNCHANGED <<now, pending, tokens, keyfile, keys, srv, setting>>
  BY DEF Change
<1>3. cred' \in [Credential -> Grants \cup {Nobody}]
  BY <1>1 DEF TInv, TT
<1>4. /\ allowed' \in [Credential -> [Accesses -> (0 .. MaxTime) \cup {None}]]
      /\ \A d \in Credential, r \in Repo, a \in Action :
           /\ allowed'[d][<<r, a>>] = IF May(cred'[d], r, a) THEN now ELSE allowed[d][<<r, a>>]
           /\ allowed'[d][<<r, a>>] \in (0 .. now) \cup {None}
           /\ allowed[d][<<r, a>>] \in Nat =>
                allowed'[d][<<r, a>>] \in Nat /\ allowed[d][<<r, a>>] <= allowed'[d][<<r, a>>]
  <2>1. now \in now .. MaxTime
    BY Constants DEF TInv, TT
  <2> QED
    BY <1>2, <1>3, <2>1, PermittedIs DEF TInv
<1>5. TT'
  BY <1>2, <1>3, <1>4 DEF TInv, TT
<1>6. Served' /\ Led' /\ OneKey'
  BY <1>2 DEF TInv, Served, Led, OneKey
<1>7. Fresh'
  <2>1. ASSUME NEW p \in Proc, pending[p] # NotPending, NEW r \in Repo, NEW a \in Action,
               May(pending[p].who, r, a)
        PROVE  allowed'[pending[p].of][<<r, a>>] = now
    BY <1>4, <2>1 DEF TInv, TT, Fresh, Call
  <2>2. ASSUME NEW t \in tokens, NEW r \in Repo, NEW a \in Action, May(Bearer(t), r, a)
        PROVE  /\ allowed'[t.of][<<r, a>>] \in Nat
               /\ t.exp <= allowed'[t.of][<<r, a>>] + TTL
    <3>1. /\ t.of \in Credential /\ t.exp \in Nat /\ TTL \in Nat
          /\ allowed[t.of][<<r, a>>] \in Nat /\ t.exp <= allowed[t.of][<<r, a>>] + TTL
      BY <2>2, Constants DEF TInv, TT, Fresh, Issued
    <3>2. allowed'[t.of][<<r, a>>] \in Nat /\ allowed[t.of][<<r, a>>] <= allowed'[t.of][<<r, a>>]
      BY <1>4, <3>1
    <3> QED
      BY <3>1, <3>2
  <2> QED
    BY <1>2, <1>4, <2>1, <2>2 DEF Fresh
<1> QED
  BY <1>5, <1>6, <1>7 DEF TInv

LEMMA TickStep == ASSUME TInv, Tick PROVE TInv'
<1>1. /\ now' = now + 1 /\ now < MaxTime /\ \A p \in Proc : pending[p] = NotPending
      /\ allowed' = Permitted(cred, now')
      /\ UNCHANGED <<cred, pending, tokens, keyfile, keys, srv, setting>>
  BY DEF Tick
<1>2. now \in Nat /\ MaxTime \in Nat /\ now' \in now .. MaxTime /\ now' \in 0 .. MaxTime
  BY <1>1, Constants DEF TInv, TT
<1>3. PICK n \in now .. MaxTime : n = now'
  BY <1>2
<1>4. /\ allowed' \in [Credential -> [Accesses -> (0 .. MaxTime) \cup {None}]]
      /\ \A d \in Credential, r \in Repo, a \in Action :
           /\ allowed'[d][<<r, a>>] = IF May(cred[d], r, a) THEN n ELSE allowed[d][<<r, a>>]
           /\ allowed'[d][<<r, a>>] \in (0 .. n) \cup {None}
           /\ allowed[d][<<r, a>>] \in Nat =>
                allowed'[d][<<r, a>>] \in Nat /\ allowed[d][<<r, a>>] <= allowed'[d][<<r, a>>]
  <2>1. cred \in [Credential -> Grants \cup {Nobody}] /\ allowed' = Permitted(cred, n)
    BY <1>1, <1>3 DEF TInv, TT
  <2> QED
    BY <2>1, PermittedIs DEF TInv
<1>5. TT'
  BY <1>1, <1>2, <1>4 DEF TInv, TT
<1>6. Served' /\ Led' /\ OneKey'
  BY <1>1 DEF TInv, Served, Led, OneKey
<1>7. Fresh'
  <2>1. ASSUME NEW t \in tokens, NEW r \in Repo, NEW a \in Action, May(Bearer(t), r, a)
        PROVE  /\ allowed'[t.of][<<r, a>>] \in Nat
               /\ t.exp <= allowed'[t.of][<<r, a>>] + TTL
    <3>1. /\ t.of \in Credential /\ t.exp \in Nat /\ TTL \in Nat
          /\ allowed[t.of][<<r, a>>] \in Nat /\ t.exp <= allowed[t.of][<<r, a>>] + TTL
      BY <2>1, Constants DEF TInv, TT, Fresh, Issued
    <3>2. allowed'[t.of][<<r, a>>] \in Nat /\ allowed[t.of][<<r, a>>] <= allowed'[t.of][<<r, a>>]
      BY <1>4, <3>1
    <3> QED
      BY <3>1, <3>2
  <2> QED
    BY <1>1, <1>3, <1>4, <2>1 DEF Fresh
<1> QED
  BY <1>5, <1>6, <1>7 DEF TInv

LEMMA ResolveStep ==
  ASSUME TInv, NEW p \in Proc, NEW c \in Credential, NEW v \in Server, Resolve(p, c, v)
  PROVE  TInv'
<1>1. /\ srv[v].pc = "up" /\ pending[p] = NotPending /\ cred[c] # Nobody
      /\ UNCHANGED <<now, cred, tokens, keyfile, keys, srv, setting, allowed>>
  BY DEF Resolve
<1>2. PICK x \in Accesses \cup {None}, s \in SUBSET Accesses :
        /\ x # None => x \in s
        /\ pending' = [pending EXCEPT ![p] =
             [of |-> c, who |-> cred[c], scopes |-> s, at |-> v, asked |-> x,
              permitted |-> {y \in s \cup ({x} \ {None}) : May(cred[c], y[1], y[2])}]]
  <2>0. PICK x \in Accesses \cup {None} :
          \E s \in IF x = None THEN Scopes ELSE {Challenge(x[1], x[2])} :
            pending' = [pending EXCEPT ![p] =
             [of |-> c, who |-> cred[c], scopes |-> s, at |-> v, asked |-> x,
              permitted |-> {y \in s \cup ({x} \ {None}) : May(cred[c], y[1], y[2])}]]
    BY DEF Resolve, Accesses
  <2>1. PICK s \in IF x = None THEN Scopes ELSE {Challenge(x[1], x[2])} :
          pending' = [pending EXCEPT ![p] =
             [of |-> c, who |-> cred[c], scopes |-> s, at |-> v, asked |-> x,
              permitted |-> {y \in s \cup ({x} \ {None}) : May(cred[c], y[1], y[2])}]]
    BY <2>0
  <2>2. x # None => x \in s /\ s \subseteq Accesses
    BY <2>1 DEF Challenge, Accesses, Action
  <2>3. x = None => s \subseteq Accesses
    BY <2>1, Constants
  <2> QED
    BY <2>1, <2>2, <2>3
<1> DEFINE q == [of |-> c, who |-> cred[c], scopes |-> s, at |-> v, asked |-> x,
                 permitted |-> {y \in s \cup ({x} \ {None}) : May(cred[c], y[1], y[2])}]
<1>3. q.permitted = {y \in s : May(cred[c], y[1], y[2])}
  BY <1>2
<1>4. q \in Call /\ q.who = cred[c] /\ q.of = c /\ q.at = v /\ q.scopes = s /\ q.asked = x
  BY <1>1, <1>2, <1>3 DEF TInv, TT, Call
<1>5. CallLed(q)
  <2> SUFFICES ASSUME NEW r \in Repo, NEW a \in Action
               PROVE  /\ <<r, a>> \in q.permitted => <<r, a>> \in q.scopes /\ May(q.who, r, a)
                      /\ q.asked = <<r, a>> /\ May(q.who, r, a) => <<r, a>> \in q.permitted
    BY DEF CallLed
  <2>1. <<r, a>> \in q.permitted <=> <<r, a>> \in s /\ May(cred[c], r, a)
    BY <1>3
  <2>2. x = <<r, a>> => <<r, a>> \in s
    BY <1>2, Constants DEF Accesses
  <2>3. May(q.who, r, a) <=> May(cred[c], r, a)
    OBVIOUS
  <2>4. q.asked = x /\ q.scopes = s
    OBVIOUS
  <2> HIDE DEF q
  <2> QED
    BY <2>1, <2>2, <2>3, <2>4, Zenon
<1>6. pending'[p] = q /\ \A o \in Proc \ {p} : pending'[o] = pending[o]
  BY <1>2 DEF TInv, TT
<1>7. pending' \in [Proc -> Call \cup {NotPending}]
  BY <1>2, <1>4 DEF TInv, TT
<1> HIDE DEF q
<1>8. TT'
  BY <1>1, <1>7 DEF TInv, TT
<1>9. Served' /\ OneKey'
  BY <1>1, <1>4, <1>6 DEF TInv, Served, OneKey
<1>10. Fresh'
  BY <1>1, <1>4, <1>6 DEF TInv, Fresh
<1>11. Led'
  BY <1>1, <1>5, <1>6 DEF TInv, Led
<1> QED
  BY <1>8, <1>9, <1>10, <1>11 DEF TInv

LEMMA MintStep == ASSUME TInv, NEW p \in Proc, Mint(p) PROVE TInv'
<1>1. PICK q \in Call : q = pending[p] /\ pending[p] # NotPending
  BY DEF TInv, TT, Mint
<1>2. PICK t : t = Token(q, GrantAccess(q.who, q.scopes), now + TTL, srv[q.at].key)
  OBVIOUS
<1>3. /\ tokens' = tokens \cup {t}
      /\ pending' = [pending EXCEPT ![p] = NotPending]
      /\ UNCHANGED <<now, cred, keyfile, keys, srv, setting, allowed>>
  BY <1>1, <1>2 DEF Mint
<1>4. \A r \in Repo, a \in Action :
        /\ May(Bearer(t), r, a) => May(q.who, r, a)
        /\ <<r, a>> \in q.scopes /\ May(q.who, r, a) => May(Bearer(t), r, a)
  BY <1>2, TokenIsGrant
<1>5. /\ t.of = q.of /\ t.asked = q.asked /\ t.permitted = q.permitted
      /\ t.exp = now + TTL /\ t.key = srv[q.at].key
  BY <1>2 DEF Token
<1>6. /\ q.at \in Server /\ srv[q.at].pc = "up" /\ t.key \in 1 .. keys /\ t.key \in Nat
      /\ now \in 0 .. MaxTime /\ now \in Nat /\ t.exp \in TTL .. MaxTime + TTL /\ t.exp \in Nat
  BY <1>1, <1>5, Constants DEF TInv, TT, Served, Call
<1>7. t \in Issued
  <2>1. GrantAccess(q.who, q.scopes) \in SUBSET Accesses /\ q.who.ns \in Namespace \cup {None}
    BY <1>1, Constants DEF GrantAccess, Call
  <2> QED
    BY <1>2, <1>5, <1>6, <2>1 DEF Issued, Token, Call
<1>8. TT'
  BY <1>3, <1>6, <1>7 DEF TInv, TT
<1>9. \A o \in Proc : pending'[o] = IF o = p THEN NotPending ELSE pending[o]
  BY <1>3 DEF TInv, TT
<1>10. Served' /\ OneKey'
  BY <1>3, <1>5, <1>6, <1>9 DEF TInv, Served, OneKey
<1>11. Fresh'
  <2>1. ASSUME NEW r \in Repo, NEW a \in Action, May(Bearer(t), r, a)
        PROVE  allowed[t.of][<<r, a>>] \in Nat /\ t.exp <= allowed[t.of][<<r, a>>] + TTL
    <3>1. allowed[q.of][<<r, a>>] = now
      BY <1>1, <1>4, <2>1 DEF TInv, Fresh
    <3> QED
      BY <1>5, <1>6, <3>1, Constants
  <2> QED
    BY <1>3, <1>9, <2>1 DEF TInv, Fresh
<1>12. Led'
  <2>1. TokenLed(t)
    BY <1>1, <1>4, <1>5 DEF TInv, Led, CallLed, TokenLed
  <2> QED
    BY <1>3, <1>9, <2>1 DEF TInv, Led
<1> QED
  BY <1>8, <1>10, <1>11, <1>12 DEF TInv

\* Steps after which some calls are gone and the keys are as OneKey has them.
LEMMA OtherStep ==
  ASSUME TInv, UNCHANGED <<now, cred, tokens, setting, allowed>>,
         \A p \in Proc : pending'[p] \in {pending[p], NotPending},
         pending' \in [Proc -> Call \cup {NotPending}],
         Served', OneKey', keyfile' \in 0 .. keys', keys' \in 0 .. MaxKeys, keys <= keys',
         srv' \in [Server -> [pc : {"down", "generate", "up"}, key : Nat]],
         \A v \in Server : srv'[v].key \in 0 .. keys' /\ (srv'[v].pc = "up" => srv'[v].key # 0)
  PROVE  TInv'
<1>1. \A t \in tokens : t.key \in 1 .. keys'
  BY Constants DEF TInv, TT
<1>2. TT'
  BY <1>1 DEF TInv, TT
<1>3. Fresh' /\ Led'
  BY DEF TInv, Fresh, Led
<1> QED
  BY <1>2, <1>3 DEF TInv

LEMMA AbandonStep == ASSUME TInv, NEW p \in Proc, Abandon(p) PROVE TInv'
<1>1. /\ pending' = [pending EXCEPT ![p] = NotPending]
      /\ UNCHANGED <<now, cred, tokens, keyfile, keys, srv, setting, allowed>>
  BY DEF Abandon
<1>2. /\ \A o \in Proc : pending'[o] \in {pending[o], NotPending}
      /\ pending' \in [Proc -> Call \cup {NotPending}]
  BY <1>1 DEF TInv, TT
<1>3. Served' /\ OneKey'
  BY <1>1, <1>2 DEF TInv, Served, OneKey
<1> QED
  BY <1>1, <1>2, <1>3, OtherStep, Constants DEF TInv, TT

LEMMA ReadKeyStep == ASSUME TInv, NEW v \in Server, ReadKey(v) PROVE TInv'
<1>1. PICK x : /\ srv' = [srv EXCEPT ![v] = x]
               /\ \/ keyfile # 0 /\ x = [pc |-> "up", key |-> keyfile]
                  \/ keyfile = 0 /\ x = [pc |-> "generate", key |-> 0]
  BY DEF ReadKey, SetServer, Up
<1>2. /\ srv[v].pc = "down" /\ (setting.alone => \A u \in Server : srv[u].pc # "generate")
      /\ UNCHANGED <<now, cred, tokens, setting, allowed, pending, keyfile, keys>>
  BY DEF ReadKey, SetServer
<1>3. /\ keys \in Nat /\ keyfile \in 0 .. keys /\ keyfile \in Nat
      /\ x \in [pc : {"down", "generate", "up"}, key : Nat]
      /\ x.key \in 0 .. keys /\ (x.pc = "up" => x.key # 0)
  BY <1>1, Constants DEF TInv, TT
<1>4. \A u \in Server : srv'[u] = IF u = v THEN x ELSE srv[u]
  BY <1>1 DEF TInv, TT
<1>5. Served'
  BY <1>2, <1>4 DEF TInv, TT, Served, Call
<1>6. OneKey'
  BY <1>1, <1>2, <1>4 DEF TInv, OneKey
<1> QED
  BY <1>1, <1>2, <1>3, <1>4, <1>5, <1>6, OtherStep, Constants DEF TInv, TT

LEMMA WriteKeyStep == ASSUME TInv, NEW v \in Server, WriteKey(v) PROVE TInv'
<1>1. /\ srv[v].pc = "generate" /\ keys < MaxKeys /\ keys' = keys + 1 /\ keyfile' = keys'
      /\ srv' = [srv EXCEPT ![v] = [pc |-> "up", key |-> keys']]
      /\ UNCHANGED <<now, cred, tokens, setting, allowed, pending>>
  BY DEF WriteKey, SetServer, Up
<1>2. /\ keys \in Nat /\ keys' \in 0 .. MaxKeys /\ keyfile' \in 0 .. keys' /\ keys' \in Nat
      /\ keys <= keys' /\ keys' # 0
  BY <1>1, Constants DEF TInv, TT
<1>3. \A u \in Server : srv'[u] = IF u = v THEN [pc |-> "up", key |-> keys'] ELSE srv[u]
  BY <1>1 DEF TInv, TT
<1>4. Served'
  BY <1>1, <1>3 DEF TInv, TT, Served, Call
<1>5. OneKey'
  <2> SUFFICES ASSUME setting.alone PROVE OneKey'
    BY <1>1 DEF OneKey
  <2>1. keyfile = 0 /\ \A u \in Server \ {v} : srv[u].pc \in {"down"}
    BY <1>1 DEF TInv, TT, OneKey
  <2>2. tokens = {}
    BY <2>1 DEF TInv, TT, OneKey
  <2> QED
    BY <1>1, <1>3, <2>1, <2>2 DEF OneKey
<1>6. /\ srv' \in [Server -> [pc : {"down", "generate", "up"}, key : Nat]]
      /\ \A u \in Server : srv'[u].key \in 0 .. keys' /\ (srv'[u].pc = "up" => srv'[u].key # 0)
  BY <1>1, <1>2, <1>3 DEF TInv, TT
<1> QED
  BY <1>1, <1>2, <1>4, <1>5, <1>6, OtherStep DEF TInv, TT

LEMMA StopStep == ASSUME TInv, NEW v \in Server, Stop(v) PROVE TInv'
<1>1. /\ srv' = [srv EXCEPT ![v] = [pc |-> "down", key |-> 0]]
      /\ pending' = [p \in Proc |-> IF pending[p] # NotPending /\ pending[p].at = v
                                    THEN NotPending ELSE pending[p]]
      /\ UNCHANGED <<now, cred, tokens, setting, allowed, keyfile, keys>>
  BY DEF Stop, SetServer, Down
<1>2. /\ \A p \in Proc : pending'[p] \in {pending[p], NotPending}
      /\ pending' \in [Proc -> Call \cup {NotPending}]
  BY <1>1 DEF TInv, TT
<1>3. \A u \in Server : srv'[u] = IF u = v THEN [pc |-> "down", key |-> 0] ELSE srv[u]
  BY <1>1 DEF TInv, TT
<1>4. Served'
  BY <1>1, <1>2, <1>3 DEF TInv, TT, Served, Call
<1>5. OneKey'
  BY <1>1, <1>3 DEF TInv, OneKey
<1>6. keys \in Nat /\ keyfile \in 0 .. keys /\ keys \in 0 .. MaxKeys
  BY Constants DEF TInv, TT
<1>7. /\ srv' \in [Server -> [pc : {"down", "generate", "up"}, key : Nat]]
      /\ \A u \in Server : srv'[u].key \in 0 .. keys /\ (srv'[u].pc = "up" => srv'[u].key # 0)
  BY <1>1, <1>3, <1>6 DEF TInv, TT
<1> QED
  BY <1>1, <1>2, <1>4, <1>5, <1>6, <1>7, OtherStep
-----------------------------------------------------------------------------
(* The theorems                                                            *)

LEMMA TInvStep == TInv /\ [TNext]_tvars => TInv'
<1> SUFFICES ASSUME TInv, [TNext]_tvars PROVE TInv'
  OBVIOUS
<1>1. CASE UNCHANGED tvars
  BY <1>1 DEF tvars, TInv, TT, Served, Fresh, Led, OneKey
<1> QED
  BY <1>1, ChangeStep, TickStep, ResolveStep, MintStep, AbandonStep, ReadKeyStep,
     WriteKeyStep, StopStep
  DEF TNext

LEMMA TInvariance == TSpec => []TInv
<1>1. TInit => TInv
  BY Init0
<1>2. TInv /\ [TNext]_tvars => TInv'
  BY TInvStep
<1> QED
  BY <1>1, <1>2, PTL DEF TSpec

\* Credentials, calls under way, tokens, servers and the key's file hold what
\* they are for, and calls run at servers that are up.
THEOREM TokensTyped == TSpec => []TTypeOK
<1>1. TInv => TTypeOK
  <2> SUFFICES ASSUME TInv PROVE TTypeOK
    OBVIOUS
  <2>1. ASSUME NEW p \in Proc, pending[p] # NotPending
        PROVE  pending[p].of \in Credential /\ pending[p].who \in Grants
    BY <2>1 DEF TInv, TT, Call
  <2>2. ASSUME NEW t \in tokens
        PROVE  /\ t.of \in Credential /\ t.ns \in Namespace \cup {None}
               /\ t.access \in SUBSET (Repo \X Action)
    BY <2>2 DEF TInv, TT, Issued, Accesses
  <2> QED
    BY <2>1, <2>2 DEF TInv, TT, Served, TTypeOK, Accesses
<1> QED
  BY <1>1, TInvariance, PTL

\* Revocation works: what a token lets its bearer do, its credential permitted
\* no longer ago than a token's life and the leeway.
THEOREM TokensExpire == TSpec => []AccessExpires
<1>1. TInv => AccessExpires
  <2> SUFFICES ASSUME TInv, NEW v \in Server, NEW t \in tokens, NEW r \in Repo,
                      NEW a \in Action, Accepts(v, t, r, a)
               PROVE  PermittedWithin(t.of, r, a, TTL + Leeway)
    BY DEF AccessExpires
  <2>1. now <= t.exp + Leeway /\ May(Bearer(t), r, a)
    BY DEF Accepts, Verifies
  <2>2. allowed[t.of][<<r, a>>] \in Nat /\ t.exp <= allowed[t.of][<<r, a>>] + TTL
    BY <2>1 DEF TInv, Fresh
  <2>3. now \in Nat /\ t.exp \in Nat /\ TTL \in Nat /\ Leeway \in Nat /\ t.of \in Credential
    BY Constants DEF TInv, TT, Issued
  <2>4. now <= allowed[t.of][<<r, a>>] + (TTL + Leeway)
    BY <2>1, <2>2, <2>3
  <2>5. allowed[t.of][<<r, a>>] # None
    BY <2>2, Constants
  <2> QED
    BY <2>4, <2>5 DEF PermittedWithin
<1> QED
  BY <1>1, TInvariance, PTL

\* What is granted is served, and a challenge leads in.
THEOREM ChallengesLeadIn == TSpec => []ChallengeLeadsIn
<1>1. TInv => ChallengeLeadsIn
  <2> SUFFICES ASSUME TInv, NEW v \in Server, NEW t \in tokens,
                      Verifies(t), srv[v].pc = "up", srv[v].key = t.key
               PROVE  /\ \A x \in t.permitted : Accepts(v, t, x[1], x[2])
                      /\ t.asked # None /\ Accepts(v, t, t.asked[1], t.asked[2]) =>
                           t.asked \in t.permitted
    BY DEF ChallengeLeadsIn
  <2>1. TokenLed(t) /\ t.permitted \subseteq Accesses /\ t.asked \in Accesses \cup {None}
    BY DEF TInv, TT, Led, Issued
  <2>2. ASSUME NEW x \in t.permitted PROVE Accepts(v, t, x[1], x[2])
    BY <2>1 DEF TokenLed, Accepts, Accesses
  <2>3. ASSUME t.asked # None, Accepts(v, t, t.asked[1], t.asked[2])
        PROVE  t.asked \in t.permitted
    BY <2>1, <2>3 DEF TokenLed, Accepts, Accesses
  <2> QED
    BY <2>2, <2>3
<1> QED
  BY <1>1, TInvariance, PTL

\* Where starts take turns, a token is good at every server that is up.
THEOREM KeySurvivesStarts == TSpec => []KeySurvives
<1>1. TInv => KeySurvives
  BY DEF TInv, OneKey, KeySurvives
<1> QED
  BY <1>1, TInvariance, PTL
=============================================================================
