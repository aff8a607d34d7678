-------------------------- MODULE JwksCacheProofs --------------------------
(* Theorems about JwksCache, for any number of requests and keys and any   *)
(* cache life, rate limit and fetch timeout that JwksAssumption allows.    *)
EXTENDS JwksCache, TLAPS

(***************************************************************************)
(* The inductive invariant.                                                *)
(***************************************************************************)

\* The time of the last attempt is the time it was really sent, because a
\* request that had to wait for the mutex never sends one (WaitInv).
AttemptInv ==
  /\ begun = lastAttempt
  /\ \A p \in Proc : jpc[p] \in Fetching => ask[p].at = lastAttempt

\* A request whose time has passed waited for a fetch, and is limited by it.
WaitInv ==
  \A p \in Proc : jpc[p] \in {"lock", "look"} =>
    ask[p].at = now \/ ask[p].at < lastAttempt + MinGap

\* ks is what the issuer published at some time since t.
AsOf(ks, t) ==
  /\ \A k \in published : since[k] < t => k \in ks
  /\ \A k \in ks \ published : t <= since[k]

CacheInv == AsOf(keys, fetchedAt)
ReplyInv == \A p \in Proc : jpc[p] = "receive" => AsOf(reply, begun)

\* Unless fetches fail, the cache is what the last of them brought.
SettledInv ==
  faults = {} /\ (\A p \in Proc : jpc[p] \notin Fetching) => fetchedAt = lastAttempt

JInv ==
  /\ JTypeOK /\ AttemptInv /\ WaitInv /\ CacheInv /\ ReplyInv /\ SettledInv
-----------------------------------------------------------------------------
(* Types                                                                   *)

LEMMA Numbers ==
  /\ CacheTTL \in Nat /\ MinGap \in Nat /\ FetchTime \in Nat /\ MaxTime \in Nat
  /\ Never \in Int /\ Never <= 0
  BY JwksAssumption DEF Never

LEMMA TypeInit == JInit => JTypeOK
<1> SUFFICES ASSUME JInit PROVE JTypeOK
  OBVIOUS
<1>1. Idle \in [kid : Kid \cup {None}, at : Never .. now]
  BY Numbers DEF JInit, Idle
<1> QED
  BY <1>1, Numbers, JwksAssumption DEF JInit, JTypeOK, Fetching

\* A request that leaves the mutex.
LEMMA LeaveTyped ==
  ASSUME JTypeOK, NEW p \in Proc, NEW l \in {"known", "refused"},
         jpc[p] \in {"look"} \cup Fetching, jpc' = [jpc EXCEPT ![p] = l], mutex' = None
  PROVE  /\ jpc' \in [Proc -> {"idle", "lock", "look", "fetch", "receive", "known", "refused"}]
         /\ mutex' \in Proc \cup {None}
         /\ \A q \in Proc : jpc'[q] \in {"look"} \cup Fetching <=> mutex' = q
  BY JwksAssumption DEF JTypeOK, Fetching

\* A request that keeps it, or does not have it yet or any more.
LEMMA MoveTyped ==
  ASSUME JTypeOK, NEW p \in Proc,
         NEW l \in {"idle", "lock", "look", "fetch", "receive", "known", "refused"},
         jpc' = [jpc EXCEPT ![p] = l], mutex' = mutex,
         jpc[p] \in {"look"} \cup Fetching <=> l \in {"look"} \cup Fetching
  PROVE  /\ jpc' \in [Proc -> {"idle", "lock", "look", "fetch", "receive", "known", "refused"}]
         /\ mutex' \in Proc \cup {None}
         /\ \A q \in Proc : jpc'[q] \in {"look"} \cup Fetching <=> mutex' = q
  BY DEF JTypeOK, Fetching

LEMMA TypeStep == JTypeOK /\ [JNext]_jvars => JTypeOK'
<1> SUFFICES ASSUME JTypeOK, [JNext]_jvars PROVE JTypeOK'
  OBVIOUS
<1> USE Numbers
<1>1. CASE Rotate /\ UNCHANGED faults
  BY <1>1 DEF Rotate, cache, JTypeOK
<1>2. CASE Tick /\ UNCHANGED faults
  <2>1. now \in Nat /\ now' = now + 1 /\ now' \in 0 .. MaxTime
    BY <1>2 DEF Tick, JTypeOK
  <2>2. Never .. now \subseteq Never .. now'
    BY <2>1
  <2>3. ask' \in [Proc -> [kid : Kid \cup {None}, at : Never .. now']]
    BY <1>2, <2>2 DEF Tick, JTypeOK
  <2>4. {fetchedAt', lastAttempt', begun'} \subseteq Never .. now'
    BY <1>2, <2>2 DEF Tick, cache, JTypeOK
  <2> QED
    BY <1>2, <2>1, <2>3, <2>4 DEF Tick, cache, JTypeOK, Fetching
<1>3. ASSUME NEW p \in Proc, Arrive(p), UNCHANGED faults PROVE JTypeOK'
  <2>1. now \in Never .. now
    BY DEF JTypeOK
  <2>2. ask' \in [Proc -> [kid : Kid \cup {None}, at : Never .. now]]
    BY <1>3, <2>1 DEF Arrive, JTypeOK
  <2>3. jpc[p] = "idle" /\ jpc' = [jpc EXCEPT ![p] = "lock"] /\ mutex' = mutex
    BY <1>3 DEF Arrive
  <2> QED
    BY <1>3, <2>2, <2>3, MoveTyped DEF Arrive, cache, JTypeOK, Fetching
<1>4. ASSUME NEW p \in Proc, Take(p), UNCHANGED faults PROVE JTypeOK'
  BY <1>4, JwksAssumption DEF Take, cache, JTypeOK, Fetching
<1>5. ASSUME NEW p \in Proc, Look(p), UNCHANGED faults PROVE JTypeOK'
  <2>9. PICK l \in {"known", "refused"} : jpc' = [jpc EXCEPT ![p] = l]
    BY <1>5 DEF Look, Found
  <2>10. jpc[p] \in {"look"} \cup Fetching /\ mutex' = None
    BY <1>5 DEF Look, Fetching
  <2>11. /\ jpc' \in [Proc -> {"idle", "lock", "look", "fetch", "receive", "known", "refused"}]
         /\ mutex' \in Proc \cup {None}
         /\ \A q \in Proc : jpc'[q] \in {"look"} \cup Fetching <=> mutex' = q
    BY <2>9, <2>10, LeaveTyped
  <2> QED
    BY <1>5, <2>11 DEF Look, cache, JTypeOK
<1>6. ASSUME NEW p \in Proc, SendFetch(p), UNCHANGED faults PROVE JTypeOK'
  <2>1. now \in Never .. now /\ ask[p].at \in Never .. now
    BY DEF JTypeOK
  <2>2. jpc[p] = "look" /\ jpc' = [jpc EXCEPT ![p] = "fetch"] /\ mutex' = mutex
    BY <1>6 DEF SendFetch
  <2> QED
    BY <1>6, <2>1, <2>2, MoveTyped DEF SendFetch, JTypeOK, Fetching
<1>7. ASSUME NEW p \in Proc, Reply(p), UNCHANGED faults PROVE JTypeOK'
  <2>1. jpc[p] = "fetch" /\ jpc' = [jpc EXCEPT ![p] = "receive"] /\ mutex' = mutex
    BY <1>7 DEF Reply
  <2> QED
    BY <1>7, <2>1, MoveTyped DEF Reply, cache, JTypeOK, Fetching
<1>8. ASSUME NEW p \in Proc, AnswerFetch(p), UNCHANGED faults PROVE JTypeOK'
  <2>1. ask[p].at \in Never .. now
    BY DEF JTypeOK
  <2>9. PICK l \in {"known", "refused"} : jpc' = [jpc EXCEPT ![p] = l]
    BY <1>8 DEF AnswerFetch, Found
  <2>10. jpc[p] \in {"look"} \cup Fetching /\ mutex' = None
    BY <1>8 DEF AnswerFetch, Fetching
  <2>11. /\ jpc' \in [Proc -> {"idle", "lock", "look", "fetch", "receive", "known", "refused"}]
         /\ mutex' \in Proc \cup {None}
         /\ \A q \in Proc : jpc'[q] \in {"look"} \cup Fetching <=> mutex' = q
    BY <2>9, <2>10, LeaveTyped
  <2> QED
    BY <1>8, <2>1, <2>11 DEF AnswerFetch, cache, JTypeOK
<1>9. ASSUME NEW p \in Proc, FetchFails(p), UNCHANGED faults PROVE JTypeOK'
  <2>9. PICK l \in {"known", "refused"} : jpc' = [jpc EXCEPT ![p] = l]
    BY <1>9 DEF FetchFails, Found
  <2>10. jpc[p] \in {"look"} \cup Fetching /\ mutex' = None
    BY <1>9 DEF FetchFails, Fetching
  <2>11. /\ jpc' \in [Proc -> {"idle", "lock", "look", "fetch", "receive", "known", "refused"}]
         /\ mutex' \in Proc \cup {None}
         /\ \A q \in Proc : jpc'[q] \in {"look"} \cup Fetching <=> mutex' = q
    BY <2>9, <2>10, LeaveTyped
  <2> QED
    BY <1>9, <2>11 DEF FetchFails, cache, JTypeOK
<1>10. ASSUME NEW p \in Proc, Return(p), UNCHANGED faults PROVE JTypeOK'
  <2>1. Idle \in [kid : Kid \cup {None}, at : Never .. now]
    BY DEF Idle, JTypeOK
  <2>2. ask' \in [Proc -> [kid : Kid \cup {None}, at : Never .. now]]
    BY <1>10, <2>1 DEF Return, JTypeOK
  <2>3. jpc[p] \in {"known", "refused"} /\ jpc' = [jpc EXCEPT ![p] = "idle"] /\ mutex' = mutex
    BY <1>10 DEF Return
  <2> QED
    BY <1>10, <2>2, <2>3, MoveTyped DEF Return, cache, JTypeOK, Fetching
<1>11. CASE UNCHANGED jvars
  BY <1>11 DEF jvars, cache, JTypeOK
<1> QED
  BY <1>1, <1>2, <1>3, <1>4, <1>5, <1>6, <1>7, <1>8, <1>9, <1>10, <1>11
     DEF JNext, JHandle
-----------------------------------------------------------------------------
(* Times: nobody who waited fetches.                                       *)

LEMMA TimesInit == JInit => AttemptInv /\ WaitInv
  BY DEF JInit, AttemptInv, WaitInv, Fetching

LEMMA TimesStep ==
  ASSUME JTypeOK, AttemptInv, WaitInv, [JNext]_jvars PROVE AttemptInv' /\ WaitInv'
<1> USE Numbers DEF AttemptInv, WaitInv
<1>t. /\ now \in Int /\ lastAttempt \in Int /\ begun \in Int
      /\ \A p \in Proc : ask[p].at \in Int /\ ask[p].at <= now
  BY DEF JTypeOK
<1>1. CASE Rotate
  BY <1>1 DEF Rotate, cache
<1>2. CASE Tick
  <2>1. ASSUME NEW p \in Proc, jpc[p] \in {"lock", "look"}
        PROVE  ask[p].at < lastAttempt + MinGap
    <3>1. mutex # None
      BY <1>2, <2>1, JwksAssumption DEF Tick, JTypeOK
    <3>2. now < begun + FetchTime /\ FetchTime <= MinGap
      BY <1>2, <3>1, JwksAssumption DEF Tick
    <3> QED
      BY <1>t, <3>2
  <2> QED
    BY <1>2, <2>1 DEF Tick, cache
<1>3. ASSUME NEW p \in Proc, Arrive(p) PROVE AttemptInv' /\ WaitInv'
  <2>1. /\ ask' \in [Proc -> [kid : Kid \cup {None}, at : Int]]
        /\ ask'[p].at = now /\ \A q \in Proc \ {p} : ask'[q] = ask[q]
    BY <1>3, <1>t DEF Arrive, JTypeOK
  <2>2. jpc'[p] = "lock" /\ \A q \in Proc \ {p} : jpc'[q] = jpc[q]
    BY <1>3 DEF Arrive, JTypeOK
  <2> QED
    BY <1>3, <2>1, <2>2 DEF Arrive, cache, Fetching
<1>4. ASSUME NEW p \in Proc, Take(p) PROVE AttemptInv' /\ WaitInv'
  BY <1>4 DEF Take, cache, JTypeOK, Fetching
<1>5. ASSUME NEW p \in Proc, Look(p) PROVE AttemptInv' /\ WaitInv'
  BY <1>5 DEF Look, Found, cache, JTypeOK, Fetching
<1>6. ASSUME NEW p \in Proc, SendFetch(p) PROVE AttemptInv' /\ WaitInv'
  <2>1. ask[p].at >= lastAttempt + MinGap
    BY <1>6, <1>t DEF SendFetch, Limited
  <2>2. ask[p].at = now
    BY <1>6, <1>t, <2>1 DEF SendFetch
  <2>3. lastAttempt' = now /\ begun' = now /\ lastAttempt <= now
    BY <1>6, <1>t, <2>1, <2>2 DEF SendFetch
  <2>4. \A q \in Proc \ {p} : jpc[q] \notin Fetching
    BY <1>6 DEF SendFetch, JTypeOK, Fetching
  <2>5. jpc' = [jpc EXCEPT ![p] = "fetch"] /\ ask' = ask /\ now' = now
    BY <1>6 DEF SendFetch
  <2> QED
    BY <1>t, <2>2, <2>3, <2>4, <2>5 DEF JTypeOK, Fetching
<1>7. ASSUME NEW p \in Proc, Reply(p) PROVE AttemptInv' /\ WaitInv'
  BY <1>7 DEF Reply, cache, JTypeOK, Fetching
<1>8. ASSUME NEW p \in Proc, AnswerFetch(p) PROVE AttemptInv' /\ WaitInv'
  BY <1>8 DEF AnswerFetch, Found, JTypeOK, Fetching
<1>9. ASSUME NEW p \in Proc, FetchFails(p) PROVE AttemptInv' /\ WaitInv'
  BY <1>9 DEF FetchFails, Found, cache, JTypeOK, Fetching
<1>10. ASSUME NEW p \in Proc, Return(p) PROVE AttemptInv' /\ WaitInv'
  BY <1>10 DEF Return, cache, JTypeOK, Fetching
<1>11. CASE UNCHANGED jvars
  BY <1>11 DEF jvars, cache
<1> QED
  BY <1>1, <1>2, <1>3, <1>4, <1>5, <1>6, <1>7, <1>8, <1>9, <1>10, <1>11
     DEF JNext, JHandle
-----------------------------------------------------------------------------
(* Contents: the cache, and an answer on its way.                          *)

LEMMA ContentsInit == JInit => CacheInv /\ ReplyInv /\ SettledInv
<1> SUFFICES ASSUME JInit PROVE CacheInv /\ ReplyInv /\ SettledInv
  OBVIOUS
<1>1. Never <= 0 /\ Never \in Int
  BY Numbers
<1>2. \A k \in published : ~(since[k] < Never)
  BY <1>1 DEF JInit
<1> QED
  BY <1>2 DEF JInit, CacheInv, ReplyInv, SettledInv, AsOf

\* Keys that are published anew, or withdrawn, are so since now.
LEMMA RotateKeeps ==
  ASSUME JTypeOK, Rotate, NEW ks \in SUBSET Kid, NEW t \in Int, t <= now, AsOf(ks, t)
  PROVE  AsOf(ks, t)'
<1>1. PICK s \in (SUBSET Kid) \ {{}, published} :
        /\ published' = s
        /\ since' = [k \in Kid |-> IF (k \in s) = (k \in published) THEN since[k] ELSE now]
  BY DEF Rotate
<1>2. now \in Int /\ \A k \in Kid : since[k] \in Int
  BY DEF JTypeOK
<1> QED
  BY <1>1, <1>2 DEF AsOf

LEMMA ContentsStep ==
  ASSUME JTypeOK, AttemptInv, CacheInv, ReplyInv, [JNext]_jvars
  PROVE  CacheInv' /\ ReplyInv'
<1> USE DEF CacheInv, ReplyInv
<1>t. /\ now \in Int /\ lastAttempt \in Int /\ begun \in Int /\ fetchedAt \in Int
      /\ begun <= now /\ fetchedAt <= now /\ keys \in SUBSET Kid /\ reply \in SUBSET Kid
  BY Numbers DEF JTypeOK
<1>1. CASE Rotate
  <2>1. UNCHANGED <<cache, jpc, reply, begun>>
    BY <1>1 DEF Rotate
  <2>2. AsOf(keys, fetchedAt)'
    <3>1. AsOf(keys, fetchedAt) /\ keys' = keys /\ fetchedAt' = fetchedAt
      BY <2>1 DEF cache
    <3> QED
      BY <1>1, <1>t, <3>1, RotateKeeps DEF AsOf
  <2>3. ASSUME NEW p \in Proc, jpc[p] = "receive" PROVE AsOf(reply, begun)'
    BY <1>1, <1>t, <2>1, <2>3, RotateKeeps DEF AsOf
  <2> QED
    BY <2>1, <2>2, <2>3
<1>2. CASE Tick
  BY <1>2 DEF Tick, cache, AsOf
<1>3. ASSUME NEW p \in Proc, Arrive(p) PROVE CacheInv' /\ ReplyInv'
  BY <1>3 DEF Arrive, cache, JTypeOK, AsOf
<1>4. ASSUME NEW p \in Proc, Take(p) PROVE CacheInv' /\ ReplyInv'
  BY <1>4 DEF Take, cache, JTypeOK, AsOf
<1>5. ASSUME NEW p \in Proc, Look(p) PROVE CacheInv' /\ ReplyInv'
  BY <1>5 DEF Look, Found, cache, JTypeOK, AsOf
<1>6. ASSUME NEW p \in Proc, SendFetch(p) PROVE CacheInv' /\ ReplyInv'
  <2>1. \A q \in Proc : jpc'[q] # "receive"
    BY <1>6 DEF SendFetch, JTypeOK, Fetching
  <2> QED
    BY <1>6, <2>1 DEF SendFetch, AsOf
<1>7. ASSUME NEW p \in Proc, Reply(p) PROVE CacheInv' /\ ReplyInv'
  <2>1. \A k \in Kid : since[k] \in Int
    BY DEF JTypeOK
  <2> QED
    BY <1>7, <2>1 DEF Reply, cache, AsOf
<1>8. ASSUME NEW p \in Proc, AnswerFetch(p) PROVE CacheInv' /\ ReplyInv'
  <2>1. ask[p].at = begun /\ AsOf(reply, begun)
    BY <1>8 DEF AnswerFetch, AttemptInv, Fetching
  <2>2. \A q \in Proc : jpc'[q] # "receive"
    BY <1>8 DEF AnswerFetch, Found, JTypeOK, Fetching
  <2> QED
    BY <1>8, <2>1, <2>2 DEF AnswerFetch, AsOf
<1>9. ASSUME NEW p \in Proc, FetchFails(p) PROVE CacheInv' /\ ReplyInv'
  <2>1. \A q \in Proc : jpc'[q] # "receive"
    BY <1>9 DEF FetchFails, Found, JTypeOK, Fetching
  <2> QED
    BY <1>9, <2>1 DEF FetchFails, cache, AsOf
<1>10. ASSUME NEW p \in Proc, Return(p) PROVE CacheInv' /\ ReplyInv'
  BY <1>10 DEF Return, cache, JTypeOK, AsOf
<1>11. CASE UNCHANGED jvars
  BY <1>11 DEF jvars, cache, AsOf
<1> QED
  BY <1>1, <1>2, <1>3, <1>4, <1>5, <1>6, <1>7, <1>8, <1>9, <1>10, <1>11
     DEF JNext, JHandle

LEMMA SettledStep ==
  ASSUME JTypeOK, AttemptInv, SettledInv, [JNext]_jvars PROVE SettledInv'
<1> SUFFICES ASSUME faults' = {}, \A p \in Proc : jpc'[p] \notin Fetching
             PROVE  fetchedAt' = lastAttempt'
  BY DEF SettledInv
<1>0. faults = {}
  BY DEF JNext, jvars
<1>1. CASE Rotate \/ Tick \/ UNCHANGED jvars
  BY <1>0, <1>1 DEF Rotate, Tick, jvars, cache, SettledInv
<1>2. ASSUME NEW p \in Proc, Arrive(p) \/ Take(p) \/ Look(p) \/ Return(p)
      PROVE  fetchedAt' = lastAttempt'
  <2>1. \A q \in Proc : jpc[q] \notin Fetching
    BY <1>2 DEF Arrive, Take, Look, Return, JTypeOK, Fetching
  <2> QED
    BY <1>0, <1>2, <2>1 DEF Arrive, Take, Look, Return, cache, SettledInv
<1>3. ASSUME NEW p \in Proc PROVE ~SendFetch(p) /\ ~Reply(p)
  BY DEF SendFetch, Reply, JTypeOK, Fetching
<1>4. ASSUME NEW p \in Proc, AnswerFetch(p) PROVE fetchedAt' = lastAttempt'
  BY <1>4 DEF AnswerFetch, AttemptInv, Fetching
<1>5. ASSUME NEW p \in Proc PROVE ~FetchFails(p)
  BY <1>0 DEF FetchFails
<1> QED
  BY <1>1, <1>2, <1>3, <1>4, <1>5 DEF JNext, JHandle

LEMMA JInvariance == JSpec => []JInv
<1>1. JInit => JInv
  BY TypeInit, TimesInit, ContentsInit DEF JInv
<1>2. JInv /\ [JNext]_jvars => JInv'
  BY TypeStep, TimesStep, ContentsStep, SettledStep DEF JInv
<1> QED
  BY <1>1, <1>2, PTL DEF JSpec
-----------------------------------------------------------------------------
(* Theorems                                                                *)

\* The mutex is held by the request that looks or fetches, and every time and
\* every set of keys has its type.
THEOREM CacheTyped == JSpec => []JTypeOK
<1>1. JInv => JTypeOK
  BY DEF JInv
<1> QED
  BY <1>1, JInvariance, PTL

\* keyFor sends no two fetches within jwksRefetchMinGap, although the times it
\* compares were taken before it waited for the mutex.
THEOREM FetchesSpaced == JSpec => OneFetchPerGap
<1>1. ASSUME JInv, [JNext]_jvars PROVE begun' # begun => begun' - begun >= MinGap
  <2> SUFFICES ASSUME begun' # begun PROVE begun' - begun >= MinGap
    OBVIOUS
  <2>1. PICK p \in Proc : SendFetch(p)
    BY <1>1 DEF JNext, JHandle, Rotate, Tick, Arrive, Take, Look, Reply, AnswerFetch,
                FetchFails, Return, jvars
  <2>2. now \in Int /\ lastAttempt \in Int /\ ask[p].at \in Int /\ ask[p].at <= now
    BY <1>1, Numbers DEF JInv, JTypeOK
  <2>3. now - lastAttempt >= MinGap
    BY <2>1, <2>2, Numbers DEF SendFetch, Limited
  <2> QED
    BY <1>1, <2>1, <2>3 DEF SendFetch, JInv, AttemptInv
<1> QED
  BY <1>1, JInvariance, PTL DEF JSpec, OneFetchPerGap

\* How a request comes to its answer: from the cache as it leaves it.
LEMMA Outcome ==
  ASSUME JInv, [JNext]_jvars, NEW p \in Proc, Accepted(p) \/ Refused(p)
  PROVE  /\ Look(p) \/ AnswerFetch(p) \/ FetchFails(p)
         /\ published' = published /\ since' = since /\ AsOf(keys', fetchedAt')
         /\ keys' \in SUBSET Kid /\ fetchedAt' \in Int
         /\ Accepted(p) <=> ask[p].kid \in keys'
         /\ Refused(p) <=> ask[p].kid \notin keys'
<1>1. jpc \in [Proc -> {"idle", "lock", "look", "fetch", "receive", "known", "refused"}]
  BY DEF JInv, JTypeOK
<1>2. Look(p) \/ AnswerFetch(p) \/ FetchFails(p)
  BY <1>1 DEF Accepted, Refused, JNext, JHandle, Rotate, Tick, Arrive, Take, Look, SendFetch,
              Reply, AnswerFetch, FetchFails, Found, Return, jvars
<1>3. /\ published' = published /\ since' = since
      /\ jpc[p] \in {"look"} \cup Fetching
      /\ Found(p, keys')
  BY <1>2 DEF Look, AnswerFetch, FetchFails, Found, cache, Fetching
<1>4. AsOf(keys', fetchedAt')
  <2>1. CacheInv'
    BY ContentsStep DEF JInv
  <2> QED
    BY <1>3, <2>1 DEF CacheInv, AsOf
<1>5. keys' \in SUBSET Kid /\ fetchedAt' \in Int
  BY TypeStep, Numbers DEF JInv, JTypeOK
<1> QED
  BY <1>1, <1>2, <1>3, <1>4, <1>5 DEF Found, Accepted, Refused, Fetching

\* A key published since before the cache was filled is never refused, however
\* many fetches fail afterwards.
THEOREM KnownServed == JSpec => KnownKeyServed
<1>1. ASSUME JInv, [JNext]_jvars, NEW p \in Proc, Refused(p)
      PROVE  ~(ask[p].kid \in published /\ since[ask[p].kid] < fetchedAt')
  BY <1>1, Outcome DEF AsOf
<1>2. JInv /\ [JNext]_jvars =>
        \A p \in Proc : Refused(p) =>
          ~(ask[p].kid \in published /\ since[ask[p].kid] < fetchedAt')
  BY <1>1
<1> QED
  BY <1>2, JInvariance, PTL DEF JSpec, KnownKeyServed

\* What Look and AnswerFetch compare with when no fetch fails.
LEMMA SettledTimes ==
  ASSUME JInv, NEW p \in Proc
  PROVE  /\ Look(p) /\ faults = {} => fetchedAt = lastAttempt /\ fetchedAt' = fetchedAt
         /\ AnswerFetch(p) => fetchedAt' = ask[p].at
<1>1. Look(p) => \A q \in Proc : jpc[q] \notin Fetching
  BY DEF Look, JInv, JTypeOK, Fetching
<1> QED
  BY <1>1 DEF Look, AnswerFetch, JInv, SettledInv, cache

\* Unless fetches fail, garbage kids cannot keep out a key that was published
\* MinGap before the request.
THEOREM NewServed == JSpec => NewKeyServed
<1>1. ASSUME JInv, [JNext]_jvars, faults = {}, NEW p \in Proc, Refused(p)
      PROVE  ~(ask[p].kid \in published /\ since[ask[p].kid] + MinGap <= ask[p].at)
  <2> DEFINE k == ask[p].kid
             t == ask[p].at
  <2> SUFFICES ASSUME k \in published PROVE ~(since[k] + MinGap <= t)
    OBVIOUS
  <2>1. since[k] \in Int /\ t \in Int /\ MinGap \in Int /\ 0 < MinGap /\ fetchedAt' \in Int
    BY <1>1, Outcome, Numbers, JwksAssumption DEF JInv, JTypeOK
  <2>2. k \notin keys' /\ fetchedAt' <= since[k]
    BY <1>1, <2>1, Outcome DEF AsOf
  <2>3. CASE Look(p)
    <3>1. fetchedAt = lastAttempt /\ fetchedAt' = fetchedAt
      BY <1>1, <2>3, SettledTimes
    <3>2. t - lastAttempt < MinGap
      BY <2>2, <2>3 DEF Look, Limited, cache
    <3> QED
      BY <2>1, <2>2, <3>1, <3>2
  <2>4. CASE AnswerFetch(p)
    <3>1. fetchedAt' = t
      BY <1>1, <2>4, SettledTimes
    <3> QED
      BY <2>1, <2>2, <3>1
  <2> QED
    BY <1>1, <2>3, <2>4, Outcome DEF FetchFails
<1>2. JInv /\ [JNext]_jvars =>
        (faults = {} => \A p \in Proc : Refused(p) =>
          ~(ask[p].kid \in published /\ since[ask[p].kid] + MinGap <= ask[p].at))
  BY <1>1
<1> QED
  BY <1>2, JInvariance, PTL DEF JSpec, NewKeyServed

\* Unless fetches fail, a withdrawn key is accepted from no request that comes
\* jwksCacheTTL after the withdrawal.
THEOREM WithdrawnExpire == JSpec => WithdrawnKeyExpires
<1>1. ASSUME JInv, [JNext]_jvars, faults = {}, NEW p \in Proc, Accepted(p)
      PROVE  ask[p].kid \in published \/ ask[p].at < since[ask[p].kid] + CacheTTL
  <2> DEFINE k == ask[p].kid
             t == ask[p].at
  <2> SUFFICES ASSUME k \notin published PROVE t < since[k] + CacheTTL
    OBVIOUS
  <2>1. k \in keys' /\ k \in Kid /\ fetchedAt' <= since[k] /\ fetchedAt' \in Int
    BY <1>1, Outcome DEF AsOf
  <2>2. /\ since[k] \in Int /\ t \in Int /\ MinGap \in Int /\ CacheTTL \in Int
        /\ 0 < MinGap /\ MinGap <= CacheTTL
    BY <1>1, <2>1, Numbers, JwksAssumption DEF JInv, JTypeOK
  <2>3. CASE Look(p)
    <3>1. fetchedAt = lastAttempt /\ fetchedAt' = fetchedAt
      BY <1>1, <2>3, SettledTimes
    <3>2. t - fetchedAt < CacheTTL \/ t - lastAttempt < MinGap
      BY <2>3 DEF Look, Limited, Fresh
    <3> QED
      BY <2>1, <2>2, <3>1, <3>2
  <2>4. CASE AnswerFetch(p)
    <3>1. fetchedAt' = t
      BY <1>1, <2>4, SettledTimes
    <3> QED
      BY <2>1, <2>2, <3>1
  <2> QED
    BY <1>1, <2>3, <2>4, Outcome DEF FetchFails
<1>2. JInv /\ [JNext]_jvars =>
        (faults = {} => \A p \in Proc : Accepted(p) =>
          ask[p].kid \in published \/ ask[p].at < since[ask[p].kid] + CacheTTL)
  BY <1>1
<1> QED
  BY <1>2, JInvariance, PTL DEF JSpec, WithdrawnKeyExpires
=============================================================================
