-------------------------- MODULE FederationProofs --------------------------
(* Theorems about Federation, for any bindings, names, identities, logins  *)
(* and settings.                                                           *)
EXTENDS Federation, FiniteSetTheorems, TLAPS

(***************************************************************************)
(* The inductive invariant.                                                *)
(***************************************************************************)

\* A login under way has claims that their issuer signed for this registry.
ClaimsOK(p) ==
  fpc[p] # "idle" =>
    /\ claims[p] \in Claims
    /\ claims[p].signer = claims[p].by
    /\ claims[p].aud = "us" \/ (setting.azp /\ claims[p].by = "keycloak")
    /\ claims[p].id = None => "nosub" \in Faults

\* Before it looks, it trusts what is on file; afterwards it has a match.
TrustOK(p) ==
  /\ fpc[p] = "list" => \A b \in Binding : binding[b] \in trusted[p]
  /\ fpc[p] \in {"pin", "write", "accepted"} => \E r \in trusted[p] : Matches(r, claims[p])

\* What it is to pin was created once and can be pinned.
MatchOK(p) ==
  /\ fpc[p] \in {"pin", "write"} => match[p].id \in used
  /\ fpc[p] = "write" => /\ match[p].record.kind # None
                         /\ Pinnable(match[p].record) /\ ~Pinned(match[p].record)
                         /\ claims[p].id # None

LoginInv == \A p \in Proc : ClaimsOK(p) /\ TrustOK(p) /\ MatchOK(p)

\* Logins that take turns: nobody has used a binding that is to be pinned.
TurnOK(p) ==
  /\ \A q \in Proc : fpc[q] # "idle" => q = p
  /\ fpc[p] \in {"pin", "write"} => holders[match[p].id] = {}
  /\ fpc[p] = "pin" /\ Exists(match[p].id) =>
       Pinnable(binding[match[p].id]) /\ ~Pinned(binding[match[p].id])

\* A name's binding has let in the identity it is pinned to, or nobody.
HolderOK(b) ==
  /\ b \notin used => holders[b] = {}
  /\ Exists(b) /\ Pinnable(binding[b]) =>
       holders[b] \subseteq (IF Pinned(binding[b]) THEN {binding[b].pin} ELSE {})

HolderInv ==
  Alone /\ Faults = {} =>
    /\ \A p \in Proc : fpc[p] # "idle" => TurnOK(p)
    /\ \A b \in Binding : HolderOK(b)

FInv == FTypeOK /\ LoginInv /\ HolderInv
-----------------------------------------------------------------------------
(* Helpers                                                                 *)

LEMMA Constants ==
  /\ None \notin Name /\ None \notin Identity /\ None \notin Env
  /\ Kind \subseteq {"github", "user", "group", "azure"}
  BY FederationAssumption

LEMMA Records ==
  /\ Gone \in BindingRecord /\ Gone.kind = None
  /\ \A r \in Added \cup AddedIdentity \cup Posted : Valid(r) => r \in BindingRecord
  BY DEF BindingRecord, Gone, Added, AddedIdentity, Posted, Record

\* A pin turns a record on file into a record.
LEMMA Pins ==
  ASSUME NEW r \in BindingRecord, r.kind # None, Pinnable(r), NEW i \in Identity
  PROVE  /\ [r EXCEPT !.pin = i] \in BindingRecord
         /\ [r EXCEPT !.pin = i].pin = i /\ [r EXCEPT !.pin = i].kind = r.kind
  BY Records DEF BindingRecord, Pinnable, Valid

\* Who is under way has seen the new record, and what it saw before.
LEMMA BindingSet ==
  ASSUME FInv, NEW b \in Binding, NEW r \in BindingRecord, SetBinding(b, r)
  PROVE  /\ binding' \in [Binding -> BindingRecord] /\ binding'[b] = r
         /\ \A a \in Binding \ {b} : binding'[a] = binding[a]
         /\ trusted' \in [Proc -> SUBSET BindingRecord]
         /\ \A p \in Proc : fpc[p] # "idle" => trusted[p] \cup {r} \subseteq trusted'[p]
  BY DEF SetBinding, FInv, FTypeOK

\* A login that lets someone in.
LEMMA Admits ==
  ASSUME FInv, NEW p \in Proc, NEW b \in Binding, Admit(p, b)
  PROVE  /\ fpc' \in [Proc -> {"idle", "list", "pin", "write", "accepted"}]
         /\ match' \in [Proc -> [id : Binding \cup {None}, record : BindingRecord]]
         /\ fpc'[p] = "accepted"
         /\ \A q \in Proc \ {p} : fpc'[q] = fpc[q] /\ match'[q] = match[q]
         /\ \A a \in Binding \ {b} : holders'[a] = holders[a]
         /\ Alone => holders'[b] = holders[b] \cup {claims[p].id}
<1>1. NoMatch \in [id : Binding \cup {None}, record : BindingRecord]
  BY Records DEF NoMatch
<1> QED
  BY <1>1 DEF Admit, FInv, FTypeOK

LEMMA AdmitsTyped ==
  ASSUME FInv, NEW p \in Proc, NEW b \in Binding, Admit(p, b), fpc[p] # "idle"
  PROVE  holders' \in [Binding -> SUBSET (Identity \cup {None})]
<1>1. claims[p].id \in Identity \cup {None}
  BY DEF FInv, LoginInv, ClaimsOK, Claims
<1> QED
  BY <1>1 DEF Admit, FInv, FTypeOK
-----------------------------------------------------------------------------
(* The actions                                                             *)

LEMMA FederationInit == FInit => FInv
<1> SUFFICES ASSUME FInit PROVE FInv
  OBVIOUS
<1>1. NoMatch \in [id : Binding \cup {None}, record : BindingRecord]
  BY Records DEF NoMatch
<1>2. FTypeOK
  BY <1>1, Records DEF FInit, FTypeOK, Exists
<1>3. LoginInv
  BY DEF FInit, LoginInv, ClaimsOK, TrustOK, MatchOK
<1>4. HolderInv
  BY Records DEF FInit, HolderInv, HolderOK, Exists
<1> QED
  BY <1>2, <1>3, <1>4 DEF FInv

LEMMA CreateStep == ASSUME FInv, NEW b \in Binding, CreateTrustBinding(b) PROVE FInv'
<1>1. PICK r \in Added \cup AddedIdentity \cup Posted : Valid(r) /\ SetBinding(b, r)
  BY DEF CreateTrustBinding
<1>2. r \in BindingRecord
  BY <1>1, Records
<1>3. /\ b \notin used /\ used' = used \cup {b}
      /\ UNCHANGED <<fpc, claims, match, holders, setting, Alone, Faults>>
  BY DEF CreateTrustBinding, Alone, Faults
<1>4. /\ binding' \in [Binding -> BindingRecord] /\ binding'[b] = r
      /\ \A a \in Binding \ {b} : binding'[a] = binding[a]
      /\ trusted' \in [Proc -> SUBSET BindingRecord]
      /\ \A p \in Proc : fpc[p] # "idle" => trusted[p] \cup {r} \subseteq trusted'[p]
  BY <1>1, <1>2, BindingSet
<1>5. FTypeOK'
  BY <1>3, <1>4 DEF FInv, FTypeOK, Exists, Claims
<1>6. LoginInv'
  <2> SUFFICES ASSUME NEW p \in Proc PROVE ClaimsOK(p)' /\ TrustOK(p)' /\ MatchOK(p)'
    BY DEF LoginInv
  <2>1. ClaimsOK(p)'
    BY <1>3 DEF FInv, LoginInv, ClaimsOK, Claims
  <2>2. TrustOK(p)'
    BY <1>3, <1>4 DEF FInv, LoginInv, TrustOK
  <2>3. MatchOK(p)'
    BY <1>3 DEF FInv, LoginInv, MatchOK
  <2> QED
    BY <2>1, <2>2, <2>3
<1>7. HolderInv'
  <2> SUFFICES ASSUME Alone, Faults = {}
               PROVE  /\ \A p \in Proc : fpc[p] # "idle" => TurnOK(p)'
                      /\ \A a \in Binding : HolderOK(a)'
    BY <1>3 DEF HolderInv
  <2>1. \A a \in Binding : HolderOK(a)'
    BY <1>3, <1>4 DEF FInv, HolderInv, HolderOK, Exists
  <2>2. ASSUME NEW p \in Proc, fpc[p] # "idle" PROVE TurnOK(p)'
    <3>1. TurnOK(p) /\ (fpc[p] \in {"pin", "write"} => match[p].id \in used)
      BY <2>2 DEF FInv, HolderInv, LoginInv, MatchOK
    <3>2. fpc[p] \in {"pin", "write"} => match[p].id \in Binding \ {b}
      BY <1>3, <3>1 DEF FInv, FTypeOK
    <3> QED
      BY <1>3, <1>4, <3>1, <3>2 DEF TurnOK, Exists
  <2> QED
    BY <2>1, <2>2
<1> QED
  BY <1>5, <1>6, <1>7 DEF FInv

LEMMA DeleteStep == ASSUME FInv, NEW b \in Binding, DeleteTrustBinding(b) PROVE FInv'
<1>1. /\ SetBinding(b, Gone)
      /\ UNCHANGED <<used, fpc, claims, match, holders, setting, Alone, Faults>>
  BY DEF DeleteTrustBinding, Alone, Faults
<1>2. /\ binding' \in [Binding -> BindingRecord] /\ binding'[b] = Gone
      /\ \A a \in Binding \ {b} : binding'[a] = binding[a]
      /\ trusted' \in [Proc -> SUBSET BindingRecord]
      /\ \A p \in Proc : fpc[p] # "idle" => trusted[p] \cup {Gone} \subseteq trusted'[p]
  BY <1>1, Records, BindingSet
<1>3. FTypeOK'
  BY <1>1, <1>2, Records DEF FInv, FTypeOK, Exists, Claims
<1>4. LoginInv'
  <2> SUFFICES ASSUME NEW p \in Proc PROVE ClaimsOK(p)' /\ TrustOK(p)' /\ MatchOK(p)'
    BY DEF LoginInv
  <2>1. ClaimsOK(p)'
    BY <1>1 DEF FInv, LoginInv, ClaimsOK, Claims
  <2>2. TrustOK(p)'
    BY <1>1, <1>2 DEF FInv, LoginInv, TrustOK
  <2>3. MatchOK(p)'
    BY <1>1 DEF FInv, LoginInv, MatchOK
  <2> QED
    BY <2>1, <2>2, <2>3
<1>5. HolderInv'
  <2> SUFFICES ASSUME Alone, Faults = {}
               PROVE  /\ \A p \in Proc : fpc[p] # "idle" => TurnOK(p)'
                      /\ \A a \in Binding : HolderOK(a)'
    BY <1>1 DEF HolderInv
  <2>1. \A a \in Binding : HolderOK(a)'
    BY <1>1, <1>2, Records DEF FInv, HolderInv, HolderOK, Exists
  <2>2. ASSUME NEW p \in Proc, fpc[p] # "idle" PROVE TurnOK(p)'
    <3>1. TurnOK(p) /\ (fpc[p] \in {"pin", "write"} => match[p].id \in Binding)
      BY <2>2 DEF FInv, FTypeOK, HolderInv, LoginInv, MatchOK
    <3> QED
      BY <1>1, <1>2, <3>1, Records DEF TurnOK, Exists
  <2> QED
    BY <2>1, <2>2
<1> QED
  BY <1>3, <1>4, <1>5 DEF FInv

\* Ending a login leaves nothing of it, and the others as they are.
LEMMA Ends ==
  ASSUME FInv, NEW p \in Proc, FEnd(p)
  PROVE  /\ fpc' \in [Proc -> {"idle", "list", "pin", "write", "accepted"}]
         /\ claims' \in [Proc -> Claims \cup {NoClaims}]
         /\ match' \in [Proc -> [id : Binding \cup {None}, record : BindingRecord]]
         /\ trusted' \in [Proc -> SUBSET BindingRecord]
         /\ fpc'[p] = "idle"
         /\ \A q \in Proc \ {p} : /\ fpc'[q] = fpc[q] /\ claims'[q] = claims[q]
                                  /\ match'[q] = match[q] /\ trusted'[q] = trusted[q]
<1>1. NoMatch \in [id : Binding \cup {None}, record : BindingRecord]
  BY Records DEF NoMatch
<1> QED
  BY <1>1 DEF FEnd, FInv, FTypeOK

LEMMA EndStep ==
  ASSUME FInv, NEW p \in Proc, FEnd(p), UNCHANGED <<binding, used, holders, setting>>
  PROVE  FInv'
<1>1. UNCHANGED <<Alone, Faults>>
  BY DEF Alone, Faults
<1>2. FTypeOK'
  BY Ends DEF FInv, FTypeOK, Exists, Claims
<1>3. LoginInv'
  <2> SUFFICES ASSUME NEW q \in Proc PROVE ClaimsOK(q)' /\ TrustOK(q)' /\ MatchOK(q)'
    BY DEF LoginInv
  <2>1. ClaimsOK(q)'
    BY <1>1, Ends DEF FInv, LoginInv, ClaimsOK, Claims
  <2>2. TrustOK(q)'
    BY Ends DEF FInv, LoginInv, TrustOK
  <2>3. MatchOK(q)'
    BY Ends DEF FInv, LoginInv, MatchOK
  <2> QED
    BY <2>1, <2>2, <2>3
<1>4. HolderInv'
  <2> SUFFICES ASSUME Alone, Faults = {}
               PROVE  /\ \A q \in Proc : fpc'[q] # "idle" => TurnOK(q)'
                      /\ \A a \in Binding : HolderOK(a)'
    BY <1>1 DEF HolderInv
  <2>1. \A a \in Binding : HolderOK(a)'
    BY DEF FInv, HolderInv, HolderOK, Exists
  <2>2. ASSUME NEW q \in Proc, fpc'[q] # "idle" PROVE TurnOK(q)'
    BY <2>2, Ends DEF FInv, HolderInv, TurnOK, Exists
  <2> QED
    BY <2>1, <2>2
<1> QED
  BY <1>2, <1>3, <1>4 DEF FInv

LEMMA MintStep == ASSUME FInv, NEW p \in Proc, Mint(p) PROVE FInv'
  BY EndStep DEF Mint

LEMMA ValidatedStep == ASSUME FInv, NEW p \in Proc, Validated(p) PROVE FInv'
<1>1. PICK t \in Credential, door \in {"token", "v2"} :
        /\ Verifies(Validator(door, t.iss), t)
        /\ claims' = [claims EXCEPT ![p] =
             [by |-> Validator(door, t.iss), signer |-> t.signer, aud |-> t.aud,
              name |-> t.name, id |-> t.id, env |-> t.env, groups |-> t.groups]]
  BY DEF Validated
<1>2. /\ fpc[p] = "idle" /\ fpc' = [fpc EXCEPT ![p] = "list"]
      /\ Alone => \A q \in Proc : fpc[q] = "idle"
      /\ trusted' = [trusted EXCEPT ![p] = {binding[b] : b \in Binding}]
      /\ UNCHANGED <<binding, used, match, holders, setting, Alone, Faults>>
  BY DEF Validated, Alone, Faults
<1>3. /\ t.iss \in Issuers /\ t.aud \in {"us", "azp", "else"} /\ t.name \in Name
      /\ t.id \in Identity \cup {None} /\ t.env \in Env \cup {None}
      /\ t.groups \in SUBSET Name
      /\ t.id = None => "nosub" \in Faults
  BY DEF Credential
<1>4. /\ t.signer = t.iss /\ Validator(door, t.iss) = t.iss
      /\ t.aud = "us" \/ (setting.azp /\ t.iss = "keycloak")
  BY <1>1 DEF Verifies
<1>5. claims'[p] = [by |-> t.iss, signer |-> t.iss, aud |-> t.aud, name |-> t.name,
                    id |-> t.id, env |-> t.env, groups |-> t.groups]
  BY <1>1, <1>4 DEF FInv, FTypeOK
<1>6. claims'[p] \in Claims
  BY <1>3, <1>5 DEF Claims, Issuers
<1>7. FTypeOK'
  <2>1. claims' \in [Proc -> Claims \cup {NoClaims}]
    BY <1>1, <1>6, <1>5, <1>4 DEF FInv, FTypeOK
  <2>2. trusted' \in [Proc -> SUBSET BindingRecord]
    BY <1>2 DEF FInv, FTypeOK
  <2> QED
    BY <1>2, <2>1, <2>2 DEF FInv, FTypeOK, Exists
<1>8. LoginInv'
  <2> SUFFICES ASSUME NEW q \in Proc PROVE ClaimsOK(q)' /\ TrustOK(q)' /\ MatchOK(q)'
    BY DEF LoginInv
  <2>0. q # p => fpc'[q] = fpc[q] /\ claims'[q] = claims[q] /\ trusted'[q] = trusted[q]
    BY <1>1, <1>2 DEF FInv, FTypeOK
  <2>1. ClaimsOK(q)'
    <3>1. CASE q = p
      BY <3>1, <1>2, <1>3, <1>4, <1>5, <1>6 DEF ClaimsOK, Claims
    <3>2. CASE q # p
      BY <3>2, <2>0, <1>2 DEF FInv, LoginInv, ClaimsOK, Claims
    <3> QED
      BY <3>1, <3>2
  <2>2. TrustOK(q)'
    <3>1. CASE q = p
      BY <3>1, <1>2 DEF TrustOK, FInv, FTypeOK
    <3>2. CASE q # p
      BY <3>2, <2>0, <1>2 DEF FInv, LoginInv, TrustOK
    <3> QED
      BY <3>1, <3>2
  <2>3. MatchOK(q)'
    BY <1>2, <2>0 DEF FInv, FTypeOK, LoginInv, MatchOK
  <2> QED
    BY <2>1, <2>2, <2>3
<1>9. HolderInv'
  BY <1>2 DEF FInv, FTypeOK, HolderInv, HolderOK, TurnOK, Exists
<1> QED
  BY <1>7, <1>8, <1>9 DEF FInv
-----------------------------------------------------------------------------
\* A login that is let in on a binding it trusts: the other conjuncts of the
\* invariant are left to the callers.
LEMMA AdmitLogins ==
  ASSUME FInv, NEW p \in Proc, NEW b \in Binding, Admit(p, b), fpc[p] # "idle",
         UNCHANGED <<used, claims, setting>>,
         \A q \in Proc : fpc[q] # "idle" => trusted[q] \subseteq trusted'[q],
         \A q \in Proc : fpc[q] = "list" => \A a \in Binding : binding'[a] \in trusted'[q],
         \E r \in trusted[p] : Matches(r, claims[p])
  PROVE  LoginInv'
<1> SUFFICES ASSUME NEW q \in Proc PROVE ClaimsOK(q)' /\ TrustOK(q)' /\ MatchOK(q)'
  BY DEF LoginInv
<1>0. UNCHANGED Faults
  BY DEF Faults
<1>1. ClaimsOK(q)'
  BY <1>0, Admits DEF FInv, LoginInv, ClaimsOK, Claims
<1>2. TrustOK(q)'
  BY Admits DEF FInv, LoginInv, TrustOK
<1>3. MatchOK(q)'
  BY Admits DEF FInv, LoginInv, MatchOK
<1> QED
  BY <1>1, <1>2, <1>3

\* Let in without writing.
LEMMA AdmitStep ==
  ASSUME FInv, NEW p \in Proc, NEW b \in Binding, Admit(p, b), fpc[p] # "idle",
         UNCHANGED <<binding, used, claims, trusted, setting>>,
         b \in used,
         \E r \in trusted[p] : Matches(r, claims[p]),
         Alone /\ Faults = {} /\ Exists(b) /\ Pinnable(binding[b]) =>
           Pinned(binding[b]) /\ claims[p].id = binding[b].pin
  PROVE  FInv'
<1>1. UNCHANGED <<Alone, Faults>>
  BY DEF Alone, Faults
<1>2. FTypeOK'
  BY Admits, AdmitsTyped DEF FInv, FTypeOK, Exists, Claims
<1>3. LoginInv'
  BY AdmitLogins DEF FInv, LoginInv, TrustOK
<1>4. HolderInv'
  <2> SUFFICES ASSUME Alone, Faults = {}
               PROVE  /\ \A q \in Proc : fpc'[q] # "idle" => TurnOK(q)'
                      /\ \A a \in Binding : HolderOK(a)'
    BY <1>1 DEF HolderInv
  <2>1. ASSUME NEW a \in Binding PROVE HolderOK(a)'
    <3>1. CASE a = b
      BY <3>1, Admits DEF FInv, HolderInv, HolderOK, Exists
    <3>2. CASE a # b
      BY <3>2, Admits DEF FInv, HolderInv, HolderOK, Exists
    <3> QED
      BY <3>1, <3>2
  <2>2. ASSUME NEW q \in Proc, fpc'[q] # "idle" PROVE TurnOK(q)'
    BY <2>2, Admits DEF FInv, HolderInv, TurnOK
  <2> QED
    BY <2>1, <2>2
<1> QED
  BY <1>2, <1>3, <1>4 DEF FInv

LEMMA ListStep == ASSUME FInv, NEW p \in Proc, ListMatches(p) PROVE FInv'
<1> DEFINE hits == {b \in Binding : Exists(b) /\ Matches(binding[b], claims[p])}
<1>1. /\ fpc[p] = "list" /\ Decide(p, hits)
      /\ UNCHANGED <<binding, used, setting, Alone, Faults>>
  BY DEF ListMatches, Alone, Faults
<1>2. CASE FEnd(p) /\ UNCHANGED holders
  BY <1>1, <1>2, EndStep
<1>3. ASSUME NEW b \in hits,
             IF ~Pinned(binding[b]) /\ Pinnable(binding[b])
               THEN /\ fpc' = [fpc EXCEPT ![p] = "pin"]
                    /\ match' = [match EXCEPT ![p] = [id |-> b, record |-> Gone]]
                    /\ UNCHANGED holders
               ELSE Admit(p, b),
             UNCHANGED <<claims, trusted>>
      PROVE  FInv'
  <2>1. /\ b \in used /\ Exists(b) /\ binding[b] \in trusted[p]
        /\ Matches(binding[b], claims[p])
    BY <1>1, <1>3 DEF FInv, FTypeOK, LoginInv, TrustOK
  <2>2. CASE ~(~Pinned(binding[b]) /\ Pinnable(binding[b]))
    <3>1. Pinned(binding[b]) /\ Pinnable(binding[b]) => claims[p].id = binding[b].pin
      BY <2>1 DEF Matches, Pinnable
    <3> QED
      BY <1>1, <1>3, <2>1, <2>2, <3>1, AdmitStep
  <2>3. CASE ~Pinned(binding[b]) /\ Pinnable(binding[b])
    <3>1. /\ fpc' = [fpc EXCEPT ![p] = "pin"]
          /\ match' = [match EXCEPT ![p] = [id |-> b, record |-> Gone]]
          /\ UNCHANGED <<holders, claims, trusted>>
      BY <1>3, <2>3
    <3>2. FTypeOK'
      BY <1>1, <3>1, Records DEF FInv, FTypeOK, Exists, Claims
    <3>3. LoginInv'
      BY <1>1, <2>1, <3>1 DEF FInv, FTypeOK, LoginInv, ClaimsOK, TrustOK, MatchOK, Claims
    <3>4. HolderInv'
      <4> SUFFICES ASSUME Alone, Faults = {}
                   PROVE  /\ \A q \in Proc : fpc'[q] # "idle" => TurnOK(q)'
                          /\ \A a \in Binding : HolderOK(a)'
        BY <1>1 DEF HolderInv
      <4>1. \A a \in Binding : HolderOK(a)'
        BY <1>1, <3>1 DEF FInv, HolderInv, HolderOK, Exists
      <4>2. holders[b] = {}
        BY <2>1, <2>3 DEF FInv, HolderInv, HolderOK
      <4>3. TurnOK(p)'
        BY <1>1, <2>1, <2>3, <3>1, <4>2 DEF FInv, FTypeOK, HolderInv, TurnOK
      <4>4. \A q \in Proc : fpc'[q] # "idle" => q = p
        BY <1>1, <3>1 DEF FInv, FTypeOK, HolderInv, TurnOK
      <4> QED
        BY <4>1, <4>3, <4>4
    <3> QED
      BY <3>2, <3>3, <3>4 DEF FInv
  <2> QED
    BY <2>2, <2>3
<1> QED
  BY <1>1, <1>2, <1>3 DEF Decide

\* What a login that is to pin knows.
LEMMA Pinning ==
  ASSUME FInv, NEW p \in Proc, fpc[p] \in {"pin", "write"}
  PROVE  /\ match[p].id \in Binding /\ match[p].id \in used
         /\ claims[p] \in Claims
         /\ \E r \in trusted[p] : Matches(r, claims[p])
  BY DEF FInv, FTypeOK, LoginInv, MatchOK, TrustOK, ClaimsOK

LEMMA PinReadStep == ASSUME FInv, NEW p \in Proc, PinRead(p) PROVE FInv'
<1> DEFINE b == match[p].id
<1>1. /\ fpc[p] = "pin"
      /\ UNCHANGED <<binding, used, claims, trusted, setting, Alone, Faults>>
  BY DEF PinRead, Alone, Faults
<1>2. /\ b \in Binding /\ b \in used /\ claims[p] \in Claims
      /\ \E r \in trusted[p] : Matches(r, claims[p])
  BY <1>1, Pinning
<1>3. CASE Exists(b) /\ ~Pinned(binding[b]) /\ Pinnable(binding[b]) /\ claims[p].id # None
  <2>1. /\ fpc' = [fpc EXCEPT ![p] = "write"]
        /\ match' = [match EXCEPT ![p] = [id |-> b, record |-> binding[b]]]
        /\ UNCHANGED holders
    BY <1>3 DEF PinRead
  <2>2. FTypeOK'
    BY <1>1, <1>2, <2>1 DEF FInv, FTypeOK, Exists, Claims
  <2>3. LoginInv'
    BY <1>1, <1>2, <1>3, <2>1
    DEF FInv, FTypeOK, LoginInv, ClaimsOK, TrustOK, MatchOK, Claims, Exists
  <2>4. HolderInv'
    <3> SUFFICES ASSUME Alone, Faults = {}
                 PROVE  /\ \A q \in Proc : fpc'[q] # "idle" => TurnOK(q)'
                        /\ \A a \in Binding : HolderOK(a)'
      BY <1>1 DEF HolderInv
    <3>1. \A a \in Binding : HolderOK(a)'
      BY <1>1, <2>1 DEF FInv, HolderInv, HolderOK, Exists
    <3>2. \A q \in Proc : fpc'[q] # "idle" => q = p
      BY <1>1, <2>1 DEF FInv, FTypeOK, HolderInv, TurnOK
    <3>3. TurnOK(p)'
      BY <1>1, <2>1, <3>2 DEF FInv, FTypeOK, HolderInv, TurnOK
    <3> QED
      BY <3>1, <3>2, <3>3
  <2> QED
    BY <2>2, <2>3, <2>4 DEF FInv
<1>4. CASE ~(Exists(b) /\ ~Pinned(binding[b]) /\ Pinnable(binding[b]) /\ claims[p].id # None)
  <2>1. Admit(p, b)
    BY <1>4 DEF PinRead
  <2>2. Faults = {} => claims[p].id # None
    BY <1>1 DEF FInv, LoginInv, ClaimsOK
  <2>3. Alone /\ Faults = {} => ~Exists(b)
    BY <1>1, <1>4, <2>2 DEF FInv, HolderInv, TurnOK
  <2> QED
    BY <1>1, <1>2, <2>1, <2>3, AdmitStep
<1> QED
  BY <1>3, <1>4

LEMMA PinFailsStep == ASSUME FInv, NEW p \in Proc, PinFails(p) PROVE FInv'
<1>1. /\ match[p].id \in Binding /\ match[p].id \in used
      /\ \E r \in trusted[p] : Matches(r, claims[p])
  BY Pinning DEF PinFails
<1>2. /\ Admit(p, match[p].id) /\ fpc[p] # "idle" /\ Faults # {}
      /\ UNCHANGED <<binding, used, claims, trusted, setting>>
  BY DEF PinFails
<1> QED
  BY <1>1, <1>2, AdmitStep

LEMMA PinWriteStep == ASSUME FInv, NEW p \in Proc, PinWrite(p) PROVE FInv'
<1>0. PICK b \in Binding : b = match[p].id
  BY Pinning DEF PinWrite
<1> DEFINE s == match[p].record
           r == [s EXCEPT !.pin = claims[p].id]
<1>1. /\ fpc[p] = "write" /\ SetBinding(b, r) /\ Admit(p, b)
      /\ UNCHANGED <<used, claims, setting, Alone, Faults>>
  BY <1>0 DEF PinWrite, Alone, Faults
<1>2. /\ b \in Binding /\ b \in used /\ claims[p] \in Claims
      /\ \E m \in trusted[p] : Matches(m, claims[p])
  BY <1>0, <1>1, Pinning
<1>3. claims[p].id \in Identity
  BY <1>1, <1>2 DEF FInv, LoginInv, MatchOK, Claims
<1>4. r \in BindingRecord /\ r.pin = claims[p].id
  <2>1. s \in BindingRecord
    BY <1>1 DEF FInv, FTypeOK
  <2>2. s.kind # None /\ Pinnable(s)
    BY <1>1 DEF FInv, LoginInv, MatchOK
  <2> HIDE DEF s
  <2> QED
    BY <1>3, <2>1, <2>2, Pins
<1>5. /\ binding' \in [Binding -> BindingRecord] /\ binding'[b] = r
      /\ \A a \in Binding \ {b} : binding'[a] = binding[a]
      /\ trusted' \in [Proc -> SUBSET BindingRecord]
      /\ \A q \in Proc : fpc[q] # "idle" => trusted[q] \cup {r} \subseteq trusted'[q]
  BY <1>1, <1>2, <1>4, BindingSet
<1> HIDE DEF r, s
<1>6. FTypeOK'
  <2>1. \A a \in Binding : Exists(a)' => a \in used'
    BY <1>1, <1>2, <1>5 DEF FInv, FTypeOK, Exists
  <2>2. holders' \in [Binding -> SUBSET (Identity \cup {None})]
    BY <1>1, <1>2, AdmitsTyped
  <2>3. /\ fpc' \in [Proc -> {"idle", "list", "pin", "write", "accepted"}]
        /\ match' \in [Proc -> [id : Binding \cup {None}, record : BindingRecord]]
    BY <1>1, <1>2, Admits
  <2>4. UNCHANGED <<BindingRecord, Claims>>
    BY DEF Claims
  <2> QED
    BY <1>1, <1>5, <2>1, <2>2, <2>3, <2>4 DEF FInv, FTypeOK
<1>7. LoginInv'
  <2>1. \A q \in Proc : fpc[q] = "list" => \A a \in Binding : binding'[a] \in trusted'[q]
    BY <1>5 DEF FInv, LoginInv, TrustOK
  <2> QED
    BY <1>1, <1>2, <1>5, <2>1, AdmitLogins
<1>8. HolderInv'
  <2> SUFFICES ASSUME Alone, Faults = {}
               PROVE  /\ \A q \in Proc : fpc'[q] # "idle" => TurnOK(q)'
                      /\ \A a \in Binding : HolderOK(a)'
    BY <1>1 DEF HolderInv
  <2>1. holders'[b] = {claims[p].id}
    BY <1>0, <1>1, <1>2, Admits DEF FInv, HolderInv, TurnOK
  <2>2. \A a \in Binding : HolderOK(a)'
    <3>1. HolderOK(b)'
      BY <1>1, <1>2, <1>3, <1>4, <1>5, <2>1, Constants DEF HolderOK, Pinned
    <3>2. ASSUME NEW a \in Binding \ {b} PROVE HolderOK(a)'
      BY <1>1, <1>2, <1>5, Admits DEF FInv, HolderInv, HolderOK, Exists
    <3> QED
      BY <3>1, <3>2
  <2>3. ASSUME NEW q \in Proc, fpc'[q] # "idle" PROVE TurnOK(q)'
    BY <1>1, <1>2, <2>3, Admits DEF FInv, HolderInv, TurnOK
  <2> QED
    BY <2>2, <2>3
<1> QED
  BY <1>6, <1>7, <1>8 DEF FInv
-----------------------------------------------------------------------------
(* The theorems                                                            *)

LEMMA FInvStep == FInv /\ [FNext]_fvars => FInv'
<1> SUFFICES ASSUME FInv, [FNext]_fvars PROVE FInv'
  OBVIOUS
<1>1. CASE UNCHANGED fvars
  <2>1. FTypeOK'
    BY <1>1 DEF fvars, FInv, FTypeOK, Exists, Claims
  <2>2. LoginInv'
    BY <1>1 DEF fvars, FInv, LoginInv, ClaimsOK, TrustOK, MatchOK, Faults, Claims
  <2>3. HolderInv'
    BY <1>1 DEF fvars, FInv, HolderInv, HolderOK, TurnOK, Exists, Alone, Faults
  <2> QED
    BY <2>1, <2>2, <2>3 DEF FInv
<1>2. ASSUME NEW b \in Binding, CreateTrustBinding(b) \/ DeleteTrustBinding(b) PROVE FInv'
  BY <1>2, CreateStep, DeleteStep
<1>3. ASSUME NEW p \in Proc,
             \/ Validated(p) \/ ListMatches(p) \/ PinRead(p) \/ PinWrite(p)
             \/ PinFails(p) \/ Mint(p)
      PROVE  FInv'
  BY <1>3, ValidatedStep, ListStep, PinReadStep, PinWriteStep, PinFailsStep, MintStep
<1> QED
  BY <1>1, <1>2, <1>3 DEF FNext

LEMMA FInvariance == FSpec => []FInv
<1>1. FInit => FInv
  BY FederationInit
<1>2. FInv /\ [FNext]_fvars => FInv'
  BY FInvStep
<1> QED
  BY <1>1, <1>2, PTL DEF FSpec

\* Type correctness: every record on file, in a login's hands or once trusted
\* is one the API accepts.
THEOREM FederationTyped == FSpec => []FTypeOK
<1>1. FInv => FTypeOK
  BY DEF FInv
<1> QED
  BY <1>1, FInvariance, PTL

\* Nobody is let in but on a record that was on file while the login was under
\* way, matched its claims and is of the issuer who signed them for this
\* registry.
THEOREM LoginsOnRecord == FSpec => []AcceptedOnRecord
<1>1. FInv => AcceptedOnRecord
  <2> SUFFICES ASSUME FInv, NEW p \in Proc, fpc[p] = "accepted"
               PROVE  \E r \in trusted[p] :
                        /\ Matches(r, claims[p])
                        /\ claims[p].signer = IssuerOf(r.kind)
                        /\ \/ claims[p].aud = "us"
                           \/ setting.azp /\ IssuerOf(r.kind) = "keycloak"
    BY DEF AcceptedOnRecord
  <2>1. PICK r \in trusted[p] : Matches(r, claims[p])
    BY DEF FInv, LoginInv, TrustOK
  <2>2. /\ claims[p].signer = claims[p].by
        /\ claims[p].aud = "us" \/ (setting.azp /\ claims[p].by = "keycloak")
    BY DEF FInv, LoginInv, ClaimsOK
  <2>3. IssuerOf(r.kind) = claims[p].by
    BY <2>1 DEF Matches
  <2> QED
    BY <2>1, <2>2, <2>3
<1> QED
  BY <1>1, FInvariance, PTL

\* A name's binding lets in one identity as long as it is on file, when logins
\* come one at a time, pins can be written and tokens have a subject.
THEOREM OneHolderKept == FSpec => []OneHolder
<1>1. FInv => OneHolder
  <2> SUFFICES ASSUME FInv, Alone, Faults = {},
                      NEW b \in Binding, Exists(b), Pinnable(binding[b])
               PROVE  Cardinality(holders[b]) <= 1
    BY DEF OneHolder
  <2>1. holders[b] \subseteq (IF Pinned(binding[b]) THEN {binding[b].pin} ELSE {})
    BY DEF FInv, HolderInv, HolderOK
  <2>2. holders[b] = {} \/ holders[b] = {binding[b].pin}
    BY <2>1
  <2>3. Cardinality(holders[b]) \in {0, 1}
    BY <2>2, FS_EmptySet, FS_Singleton
  <2> QED
    BY <2>3
<1> QED
  BY <1>1, FInvariance, PTL
=============================================================================
