------------------------------ MODULE JwksCache ------------------------------
(***************************************************************************)
(* The signing keys of an external issuer: Verifier.keyFor and fetchJWKS   *)
(* of internal/oidc/verifier.go.                                           *)
(*                                                                         *)
(* A request takes the time before it takes the mutex, and the mutex is    *)
(* held while the keys are fetched over the network: a request that waits  *)
(* goes on with a time that has passed.  Time counts in units of which     *)
(* CacheTTL, MinGap and FetchTime are multiples.                           *)
(***************************************************************************)
EXTENDS Integers

CONSTANTS Proc,
          Kid,        \* key ids tokens carry
          CacheTTL,   \* jwksCacheTTL
          MinGap,     \* jwksRefetchMinGap
          FetchTime,  \* longest fetch: discovery and JWKS, jwksFetchTimeout each
          MaxTime,    \* bound: the clock stops here
          Faults,     \* {"fail"} if fetches may fail; in some behaviours none does
          None

ASSUME JwksAssumption ==
  /\ {CacheTTL, MinGap, FetchTime, MaxTime} \subseteq Nat
  /\ 0 < FetchTime /\ FetchTime <= MinGap /\ MinGap <= CacheTTL
  /\ None \notin Kid \cup Proc

VARIABLES
  now,
  published,   \* the keys the issuer signs with
  since,       \* history: since when each kid is published, or not
  jpc,         \* where each request is
  ask,         \* its kid, and the time it took on arrival
  mutex,       \* the request that holds v.mu
  keys, fetchedAt, lastAttempt,   \* the cache
  reply,       \* the keys in the issuer's answer, on its way
  begun,       \* history: when the last fetch was sent
  faults       \* the faults this behaviour meets: never changes

jvars == <<now, published, since, jpc, ask, mutex, keys, fetchedAt, lastAttempt, reply, begun, faults>>
cache == <<keys, fetchedAt, lastAttempt>>

Never == -CacheTTL - MinGap     \* the zero time.Time, long ago
Idle == [kid |-> None, at |-> Never]

JInit ==
  /\ now = 0
  /\ published \in (SUBSET Kid) \ {{}}
  /\ since = [k \in Kid |-> 0]
  /\ jpc = [p \in Proc |-> "idle"]
  /\ ask = [p \in Proc |-> Idle]
  /\ mutex = None
  /\ keys = {} /\ fetchedAt = Never /\ lastAttempt = Never
  /\ reply = {} /\ begun = Never
  /\ faults \in SUBSET Faults
-----------------------------------------------------------------------------
\* The issuer rotates its keys.
Rotate ==
  /\ \E s \in (SUBSET Kid) \ {{}, published} :
       /\ published' = s
       /\ since' = [k \in Kid |-> IF (k \in s) = (k \in published) THEN since[k] ELSE now]
  /\ UNCHANGED <<now, jpc, ask, mutex, cache, reply, begun>>

Fetching == {"fetch", "receive"}

\* Only a fetch takes time, and no more than its timeouts.
Tick ==
  /\ now < MaxTime
  /\ mutex # None => jpc[mutex] \in Fetching /\ now < begun + FetchTime
  /\ mutex = None => \A p \in Proc : jpc[p] # "lock"
  /\ now' = now + 1
  /\ UNCHANGED <<published, since, jpc, ask, mutex, cache, reply, begun>>

Arrive(p) ==
  /\ jpc[p] = "idle"
  /\ jpc' = [jpc EXCEPT ![p] = "lock"]
  /\ \E k \in Kid : ask' = [ask EXCEPT ![p] = [kid |-> k, at |-> now]]
  /\ UNCHANGED <<now, published, since, mutex, cache, reply, begun>>

Take(p) ==
  /\ jpc[p] = "lock"
  /\ mutex = None
  /\ mutex' = p
  /\ jpc' = [jpc EXCEPT ![p] = "look"]
  /\ UNCHANGED <<now, published, since, ask, cache, reply, begun>>

\* keyFor returns the key, or that there is none.
Found(p, ks) == jpc' = [jpc EXCEPT ![p] = IF ask[p].kid \in ks THEN "known" ELSE "refused"]

Fresh(t) == t - fetchedAt < CacheTTL
Limited(t) == t - lastAttempt < MinGap

\* Mutation: a request that is limited counts as an attempt.
LookLimitedCounts(p) ==
  /\ jpc[p] = "look"
  /\ \/ ask[p].kid \in keys /\ Fresh(ask[p].at)
     \/ Limited(ask[p].at)
  /\ Found(p, keys)
  /\ mutex' = None
  /\ lastAttempt' = ask[p].at
  /\ UNCHANGED <<now, published, since, ask, keys, fetchedAt, reply, begun>>

\* A fresh key, or the rate limit: answered from the cache, stale or not.
Look(p) ==
  /\ jpc[p] = "look"
  /\ \/ ask[p].kid \in keys /\ Fresh(ask[p].at)
     \/ Limited(ask[p].at)
  /\ Found(p, keys)
  /\ mutex' = None
  /\ UNCHANGED <<now, published, since, ask, cache, reply, begun>>

\* Mutation: an attempt is remembered nowhere.
SendFetchUncounted(p) ==
  /\ jpc[p] = "look"
  /\ ~(ask[p].kid \in keys /\ Fresh(ask[p].at))
  /\ ~Limited(ask[p].at)
  /\ begun' = now
  /\ jpc' = [jpc EXCEPT ![p] = "fetch"]
  /\ UNCHANGED <<now, published, since, ask, mutex, cache, reply>>

SendFetch(p) ==
  /\ jpc[p] = "look"
  /\ ~(ask[p].kid \in keys /\ Fresh(ask[p].at))
  /\ ~Limited(ask[p].at)
  /\ lastAttempt' = ask[p].at
  /\ begun' = now
  /\ jpc' = [jpc EXCEPT ![p] = "fetch"]
  /\ UNCHANGED <<now, published, since, ask, mutex, keys, fetchedAt, reply>>

\* The issuer's answer, which may take its time.
Reply(p) ==
  /\ jpc[p] = "fetch"
  /\ reply' = published
  /\ jpc' = [jpc EXCEPT ![p] = "receive"]
  /\ UNCHANGED <<now, published, since, ask, mutex, cache, begun>>

\* Mutation: keys are added to the cache and never dropped.
AnswerFetchAdds(p) ==
  /\ jpc[p] = "receive"
  /\ keys' = keys \cup reply
  /\ fetchedAt' = ask[p].at
  /\ Found(p, keys')
  /\ mutex' = None /\ reply' = {}
  /\ UNCHANGED <<now, published, since, ask, lastAttempt, begun>>

AnswerFetch(p) ==
  /\ jpc[p] = "receive"
  /\ keys' = reply
  /\ fetchedAt' = ask[p].at
  /\ Found(p, keys')
  /\ mutex' = None /\ reply' = {}
  /\ UNCHANGED <<now, published, since, ask, lastAttempt, begun>>

\* Mutation: an outage empties the cache.
FetchFailsClears(p) ==
  /\ "fail" \in faults
  /\ jpc[p] \in Fetching
  /\ keys' = {}
  /\ Found(p, keys')
  /\ mutex' = None /\ reply' = {}
  /\ UNCHANGED <<now, published, since, ask, fetchedAt, lastAttempt, begun>>

\* The issuer cannot be reached, or answers too late or without a usable key.
FetchFails(p) ==
  /\ "fail" \in faults
  /\ jpc[p] \in Fetching
  /\ Found(p, keys)
  /\ mutex' = None /\ reply' = {}
  /\ UNCHANGED <<now, published, since, ask, cache, begun>>

\* Verify checks the signature with the key, or fails.
Return(p) ==
  /\ jpc[p] \in {"known", "refused"}
  /\ jpc' = [jpc EXCEPT ![p] = "idle"]
  /\ ask' = [ask EXCEPT ![p] = Idle]
  /\ UNCHANGED <<now, published, since, mutex, cache, reply, begun>>

JHandle(p) ==
  \/ Take(p) \/ Look(p) \/ SendFetch(p)
  \/ Reply(p) \/ AnswerFetch(p) \/ FetchFails(p) \/ Return(p)

JNext ==
  /\ Rotate \/ Tick \/ \E p \in Proc : Arrive(p) \/ JHandle(p)
  /\ UNCHANGED faults

JSpec == JInit /\ [][JNext]_jvars
-----------------------------------------------------------------------------
(* Properties                                                              *)

JTypeOK ==
  /\ now \in 0 .. MaxTime
  /\ {published, keys, reply} \subseteq SUBSET Kid
  /\ since \in [Kid -> 0 .. MaxTime]
  /\ jpc \in [Proc -> {"idle", "lock", "look", "fetch", "receive", "known", "refused"}]
  /\ ask \in [Proc -> [kid : Kid \cup {None}, at : Never .. now]]
  /\ mutex \in Proc \cup {None}
  /\ \A p \in Proc : jpc[p] \in {"look"} \cup Fetching <=> mutex = p
  /\ {fetchedAt, lastAttempt, begun} \subseteq Never .. now
  /\ faults \subseteq Faults

\* "rate-limited to one attempt/minute so garbage kids cannot turn the registry
\* into a JWKS-fetch amplifier": the limit is kept on times that requests took
\* before they waited, and still two fetches are never sent within MinGap, as
\* long as a fetch may not last as long as MinGap.
OneFetchPerGap == [][begun' # begun => begun' - begun >= MinGap]_jvars

\* keyFor tells p in this step that there is a key, or that there is none.
Accepted(p) == jpc[p] # "known" /\ jpc'[p] = "known"
Refused(p) == jpc[p] # "refused" /\ jpc'[p] = "refused"

\* "serve stale on fetch error": a key the issuer has published since before
\* the keys were last fetched is never refused, whatever fails afterwards.
KnownKeyServed ==
  [][\A p \in Proc : LET k == ask[p].kid IN
       Refused(p) => ~(k \in published /\ since[k] < fetchedAt')]_jvars

\* Garbage kids cannot keep a new key out: unless fetches fail, a key that was
\* published MinGap before the request came is not refused.
NewKeyServed ==
  [][faults = {} => \A p \in Proc : LET k == ask[p].kid IN
       Refused(p) => ~(k \in published /\ since[k] + MinGap <= ask[p].at)]_jvars

\* Unless fetches fail, a key the issuer has withdrawn is not accepted from
\* requests that come after the cache's life.
WithdrawnKeyExpires ==
  [][faults = {} => \A p \in Proc : LET k == ask[p].kid IN
       Accepted(p) => k \in published \/ ask[p].at < since[k] + CacheTTL]_jvars
=============================================================================
