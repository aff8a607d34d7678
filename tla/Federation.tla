----------------------------- MODULE Federation -----------------------------
(***************************************************************************)
(* Trust bindings: internal/store/federation.go, resolved by               *)
(* resolveFederated, resolveKeycloak and resolveAzure of                   *)
(* internal/server/token.go and managed by server/mgmt_federation.go.      *)
(*                                                                         *)
(* A token is routed by the issuer it claims to have, validated by that    *)
(* issuer's validator, and names an identity twice: by a name that can     *)
(* pass to somebody else (repository, username) and by an immutable id.  A *)
(* binding written with the name is pinned to the id of its first login    *)
(* (trust on first use): read, check, write back, with no lock around it.  *)
(***************************************************************************)
EXTENDS Naturals, FiniteSets

CONSTANTS Proc,       \* handlers of /token and of /v2 with a JWT
          Binding,    \* binding ids, numbered in the order of creation
          Kind,       \* binding kinds whose issuers are configured
          Name,       \* repositories, usernames, groups
          Identity,   \* immutable ids
          Env,        \* environments of a repository
          Settings,   \* what may happen beside a login, see setting
          None

ASSUME FederationAssumption ==
  /\ Binding \subseteq Nat /\ IsFiniteSet(Binding)
  /\ Kind \subseteq {"github", "user", "group", "azure"}
  /\ None \notin Name \cup Identity \cup Env
  /\ \A s \in Settings :
       s.faults \subseteq {"fail", "nosub"} /\ s.alone \in BOOLEAN /\ s.azp \in BOOLEAN

VARIABLES
  binding,    \* federation/<id>.json, or Gone
  used,       \* binding ids ever created
  fpc,        \* where each login is
  claims,     \* the validated claims of its token
  match,      \* the binding it is to pin, and the record it read for that
  holders,    \* history: identities each binding has let in, where logins
              \* come one at a time
  trusted,    \* history: records on file since the login arrived
  setting     \* of this run, never changed: the faults there are, whether logins
              \* come one at a time, and whether azp stands in for the audience

fvars == <<binding, used, fpc, claims, match, holders, trusted, setting>>

Faults == setting.faults
Alone == setting.alone

Gone == [kind |-> None, name |-> None, pin |-> None, env |-> None]
Record(k, n, i, e) == [kind |-> k, name |-> n, pin |-> i, env |-> e]
Exists(b) == binding[b].kind # None

Issuers == {"github", "keycloak", "azure"}
IssuerOf(k) == IF k \in {"user", "group"} THEN "keycloak" ELSE k
Configured == {IssuerOf(k) : k \in Kind}

\* What a validator returns of a token, with its true signer beside.
Claims == [by : Issuers, signer : Issuers \cup {"other"}, aud : {"us", "azp", "else"},
           name : Name, id : Identity \cup {None}, env : Env \cup {None},
           groups : SUBSET Name]
NoClaims == [by |-> None, name |-> None, id |-> None, env |-> None, groups |-> {}]
NoMatch == [id |-> None, record |-> Gone]

FInit ==
  /\ binding = [b \in Binding |-> Gone]
  /\ used = {}
  /\ fpc = [p \in Proc |-> "idle"]
  /\ claims = [p \in Proc |-> NoClaims]
  /\ match = [p \in Proc |-> NoMatch]
  /\ holders = [b \in Binding |-> {}]
  /\ trusted = [p \in Proc |-> {}]
  /\ setting \in Settings
-----------------------------------------------------------------------------
Pinned(r) == r.pin # None

Pinnable(r) == r.kind \in {"github", "user"}

\* Matches, MatchesUser, MatchesAzure: the name counts until there is a pin.
Matches(r, c) ==
  /\ IssuerOf(r.kind) = c.by
  /\ CASE r.kind = "group" -> r.name \in c.groups
       [] r.kind = "azure" -> c.id = r.pin
       [] OTHER -> IF Pinned(r) THEN c.id = r.pin ELSE c.name = r.name
  /\ r.env # None => c.env = r.env

\* A record appears on file; every login under way could still read it.
SetBinding(b, r) ==
  /\ binding' = [binding EXCEPT ![b] = r]
  /\ trusted' = [p \in Proc |-> IF fpc[p] = "idle" THEN {} ELSE trusted[p] \cup {r}]

\* What the CLI asks for.  federation add: a repository, perhaps with its id
\* and an environment; federation add-user, add-group: a name.
Added == {Record("github", n, i, e) :
            n \in Name, i \in Identity \cup {None}, e \in Env \cup {None}}
AddedIdentity == {Record(k, n, None, None) : k \in {"user", "group"}, n \in Name}

\* What the management API is sent: Azure's too, whole or not.  It is refused
\* where that issuer is not configured.
Posted ==
  {r \in Added \cup AddedIdentity \cup
         {Record("azure", n, i, None) : n \in Name, i \in Identity \cup {None}} :
     r.kind \in {"github"} \cup Kind}

Valid(r) == r.kind = "azure" => r.pin # None

CreateTrustBinding(b) ==
  /\ b \notin used
  /\ \A a \in Binding : a < b => a \in used
  /\ used' = used \cup {b}
  /\ \E r \in Added \cup AddedIdentity \cup Posted : Valid(r) /\ SetBinding(b, r)
  /\ UNCHANGED <<fpc, claims, match, holders, setting>>

DeleteTrustBinding(b) ==
  /\ Exists(b)
  /\ SetBinding(b, Gone)
  /\ UNCHANGED <<used, fpc, claims, match, holders, setting>>
-----------------------------------------------------------------------------
(* A login                                                                 *)

FEnd(p) ==
  /\ fpc' = [fpc EXCEPT ![p] = "idle"]
  /\ claims' = [claims EXCEPT ![p] = NoClaims]
  /\ match' = [match EXCEPT ![p] = NoMatch]
  /\ trusted' = [trusted EXCEPT ![p] = {}]

\* A token as it comes: an issuer states its own name and signs it; anybody
\* else may state any name.
Credential ==
  {t \in [iss : Issuers, signer : Issuers \cup {"other"}, aud : {"us", "azp", "else"},
          name : Name, id : Identity \cup {None}, env : Env \cup {None},
          groups : SUBSET Name] :
     /\ t.signer \in {t.iss, "other"}
     /\ t.id = None => t.iss = "keycloak" /\ "nosub" \in Faults
     /\ t.iss # "github" => t.env = None
     /\ t.iss # "keycloak" => t.groups = {}}

\* resolvePrincipal routes by the unverified iss, and falls back to GitHub's
\* validator; /v2 sends every JWT there.
Validator(door, iss) ==
  IF door = "token" /\ iss \in Configured THEN iss ELSE "github"

\* Mutation: the key is looked up, the signature is not checked.
VerifiesUnsigned(v, t) ==
  /\ t.iss = v
  /\ t.aud = "us" \/ (v = "keycloak" /\ setting.azp /\ t.aud = "azp")

\* Verify, with the audience check AcceptAuthorizedParty may have relaxed.
Verifies(v, t) ==
  /\ t.signer = v
  /\ t.iss = v
  /\ t.aud = "us" \/ (v = "keycloak" /\ setting.azp /\ t.aud = "azp")

\* Validate; a token that does not pass changes nothing.
Validated(p) ==
  /\ fpc[p] = "idle"
  /\ Alone => \A q \in Proc : fpc[q] = "idle"
  /\ fpc' = [fpc EXCEPT ![p] = "list"]
  /\ \E t \in Credential, door \in {"token", "v2"} :
       LET v == Validator(door, t.iss) IN
       /\ Verifies(v, t)
       /\ claims' = [claims EXCEPT ![p] =
            [by |-> v, signer |-> t.signer, aud |-> t.aud, name |-> t.name, id |-> t.id,
             env |-> t.env, groups |-> t.groups]]
  /\ trusted' = [trusted EXCEPT ![p] = {binding[b] : b \in Binding}]
  /\ UNCHANGED <<binding, used, match, holders, setting>>

Admit(p, b) ==
  /\ fpc' = [fpc EXCEPT ![p] = "accepted"]
  /\ holders' = IF Alone THEN [holders EXCEPT ![b] = @ \cup {claims[p].id}] ELSE holders
  /\ match' = [match EXCEPT ![p] = NoMatch]

\* The oldest binding that matches decides; a name that is not pinned yet is
\* pinned first.
Decide(p, hits) ==
  \/ hits = {} /\ FEnd(p) /\ UNCHANGED holders
  \/ \E b \in hits :
       /\ \A a \in hits : b <= a
       /\ IF ~Pinned(binding[b]) /\ Pinnable(binding[b])
            THEN /\ fpc' = [fpc EXCEPT ![p] = "pin"]
                 /\ match' = [match EXCEPT ![p] = [id |-> b, record |-> Gone]]
                 /\ UNCHANGED holders
            ELSE Admit(p, b)
       /\ UNCHANGED <<claims, trusted>>

\* Mutation: a pin is not looked at when a name matches.
ListMatchesByName(p) ==
  /\ fpc[p] = "list"
  /\ Decide(p, {b \in Binding :
                  Exists(b) /\ Matches([binding[b] EXCEPT !.pin = None], claims[p])})
  /\ UNCHANGED <<binding, used, setting>>

\* ListTrustBindings, and the first of them that matches.
ListMatches(p) ==
  /\ fpc[p] = "list"
  /\ Decide(p, {b \in Binding : Exists(b) /\ Matches(binding[b], claims[p])})
  /\ UNCHANGED <<binding, used, setting>>

\* PinTrustBinding reads the file again; nothing is written if the binding is
\* gone or pinned by now, or the token has no subject, and the login goes on
\* all the same.
PinRead(p) ==
  /\ fpc[p] = "pin"
  /\ LET b == match[p].id IN
       IF /\ Exists(b) /\ ~Pinned(binding[b]) /\ Pinnable(binding[b])
          /\ claims[p].id # None
         THEN /\ fpc' = [fpc EXCEPT ![p] = "write"]
              /\ match' = [match EXCEPT ![p] = [id |-> b, record |-> binding[b]]]
              /\ UNCHANGED holders
         ELSE Admit(p, b)
  /\ UNCHANGED <<binding, used, claims, trusted, setting>>

\* Mutation: the pin is set on a copy and never written back.
PinWriteNothing(p) ==
  /\ fpc[p] = "write"
  /\ Admit(p, match[p].id)
  /\ UNCHANGED <<binding, used, claims, trusted, setting>>

PinWrite(p) ==
  /\ fpc[p] = "write"
  /\ LET b == match[p].id IN
       /\ SetBinding(b, [match[p].record EXCEPT !.pin = claims[p].id])
       /\ Admit(p, b)
  /\ UNCHANGED <<used, claims, setting>>

\* A pin that cannot be written is logged, no more.
PinFails(p) ==
  /\ "fail" \in Faults
  /\ fpc[p] \in {"pin", "write"}
  /\ Admit(p, match[p].id)
  /\ UNCHANGED <<binding, used, claims, trusted, setting>>

Mint(p) ==
  /\ fpc[p] = "accepted"
  /\ FEnd(p)
  /\ UNCHANGED <<binding, used, holders, setting>>

FNext ==
  \/ \E b \in Binding : CreateTrustBinding(b) \/ DeleteTrustBinding(b)
  \/ \E p \in Proc :
       \/ Validated(p) \/ ListMatches(p) \/ PinRead(p) \/ PinWrite(p)
       \/ PinFails(p) \/ Mint(p)

FSpec == FInit /\ [][FNext]_fvars
-----------------------------------------------------------------------------
(* Properties                                                              *)

BindingRecord ==
  {Gone} \cup {r \in [kind : {"github", "user", "group", "azure"}, name : Name,
                     pin : Identity \cup {None}, env : Env \cup {None}] : Valid(r)}

FTypeOK ==
  /\ binding \in [Binding -> BindingRecord]
  /\ used \in SUBSET Binding
  /\ \A b \in Binding : Exists(b) => b \in used
  /\ fpc \in [Proc -> {"idle", "list", "pin", "write", "accepted"}]
  /\ claims \in [Proc -> Claims \cup {NoClaims}]
  /\ match \in [Proc -> [id : Binding \cup {None}, record : BindingRecord]]
  /\ holders \in [Binding -> SUBSET (Identity \cup {None})]
  /\ trusted \in [Proc -> SUBSET BindingRecord]
  /\ setting \in Settings

\* Trust on first use, the point of pinning: whoever takes over the name of a
\* repository or user is not let in through a binding another one has used,
\* when first logins do not overlap, the pin can be written and tokens have a
\* subject.  (Of two that overlap both are let in, and so is the next one when
\* it cannot.)  A binding is let go by deleting it.
OneHolder ==
  Alone /\ Faults = {} => \A b \in Binding :
    Exists(b) /\ Pinnable(binding[b]) => Cardinality(holders[b]) <= 1

\* A login is accepted only on a record that was on file at some time since it
\* arrived and that its claims satisfy, and only if the issuer of that record's
\* kind signed them for this registry: no grant outlives its binding or survives
\* a pin made before, whatever other logins and deletions do, and no token is
\* taken for one of another issuer, at whichever door it came.
AcceptedOnRecord ==
  \A p \in Proc : fpc[p] = "accepted" =>
    \E r \in trusted[p] :
      /\ Matches(r, claims[p])
      /\ claims[p].signer = IssuerOf(r.kind)
      /\ claims[p].aud = "us" \/ (setting.azp /\ IssuerOf(r.kind) = "keycloak")
=============================================================================
