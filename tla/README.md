# agent-registry in TLA+

These modules model `src/agent-registry`, a small OCI registry (blobs, manifests,
tags, referrers, garbage collection, owners, federated login, docker tokens)
together with the command line that administers it, signs people in and
configures docker. TLC checks every module on small instances; TLAPS proves every
safety property of the runs for all instances. Paths below are relative to
`src/agent-registry/internal/`; `PROJECT.json` maps each definition to the lines
it translates.

## 1. The system

The server is one Go process: `net/http` runs a goroutine per request. There is
no database. All state is files under one data directory, and apart from the 256
upload mutexes, the key cache's mutex and `rename(2)` nothing orders two
requests. The CLI is a process per command; some commands edit the server's files
directly or through HTTP, others edit `credentials.json` and docker's
`config.json` in the user's home.

| part | state | operations | what is hard | what makes it correct |
|---|---|---|---|---|
| blob uploads (`store/store.go` 340-520, `server/registry.go`) | `uploads/<id>`, `<id>.sha256` sidecar, `blobs/sha256/<digest>`, striped mutexes | POST, PATCH, PUT, DELETE of a session; GET, DELETE of a blob | retries overlap the call they retry; appends break off; crashes between two files; the inode outlives its name | bytes hash to their digest; the sidecar never lies; no session leaks |
| manifests, tags, referrers (`store.go` 570-835) | body, `.type` file, `tags/<tag>`, `referrers/<digest>/` of a repository | PUT, GET, DELETE, list | four files per push, no lock | a tag, or a 201, means a complete manifest; the index matches the store |
| garbage collection (`store.go` 837-893) | the same files | mark, sweep | pushes in between; files it cannot read; two at once | no image loses a blob; all garbage goes |
| owners (`store.go` 106-290, `server/mgmt.go`, `cli/cli.go`) | `owners/<name>.json` | create, password, permissions, delete, login | read-modify-write without a lock, from server and CLI | a change keeps the rest; a login is current |
| remote administration (`cli/cli.go`, `remote/client.go`) | none: one to four requests per command | add, perms, password, delete | other administrators between the requests; a connection that breaks or 30 seconds that run out while the handler goes on | exit status 0 means it was done; a command is one operation |
| federation (`store/federation.go`, `server/token.go`, `server/mgmt_federation.go`, `ghoidc`, `kcoidc`, `azoidc`) | `federation/<id>.json` | create, delete, login with pin on first use | the pin is written in the middle of a login; tokens of several issuers at two doors | one holder per name binding; a login is on record, with its own issuer |
| tokens (`server/token.go`, `token/signer.go`, `server/server.go`) | none: signed claims | challenge, mint at `/token`, check on each request | the grant changes afterwards; access lists are flattened and read back | revocation is bounded; a challenge leads in |
| signing key (`token/signer.go`) | `token/signing.key` | read or generate at start | several servers, crashes | every server takes every server's tokens |
| issuer keys (`oidc/verifier.go`) | key cache, its mutex, two times | `keyFor` | requests wait on a mutex with a time taken before | rate limit, stale keys in an outage, expiry of withdrawn keys |
| credential file (`login/credentials.go`, `session.go`, `device.go`, `cli/auth.go`) | `credentials.json`, `.tmp` | helper get/store/erase, login, refresh, logout | processes, kills, rotating refresh tokens, lost replies, Windows | never half written; a sign-in is kept; a logout lasts; a live session is not refused |
| sign-in (`login/session.go`, `loopback.go`, `device.go`) | one flow | loopback, fallback, device polling | human, browser, issuer and timers in any order | it ends; it polls no faster than allowed |
| discovery and login (`login/discovery.go`, `server/wellknown.go`, `cli/auth.go`) | the audience expected | discover, sign in, warn, install the helper | the audience goes through four programs | a login that says it worked did, or warned |
| docker config (`dockercfg/*.go`) | `config.json`, helper link in a directory | install, uninstall, again | other writers; kills; PATH | what others wrote is put back; the helper is there |

They interact through files (the collector reads what pushes write; the CLI writes
owner files the server reads), through calls (a login reads owners and bindings
and mints a token; a verifier asks for keys) and through docker (which runs the
helper on the credential file the CLI writes, because of the entry in
`config.json`).

## 2. The modules

| module | models | composes |
|---|---|---|
| `ContentStore` | what the store promises: sessions open, grow, close once; a blob has its digest | |
| `Uploads` | uploads and blobs, one action per file operation | refines `ContentStore` |
| `ManifestStore` | what the manifests promise while nobody deletes: pushes appear at once; pulls by tag and listings of referrers see one moment | |
| `Manifests` | manifests, tags, referrers, repository deletion | refines `ManifestStore` |
| `Collector` | mark and sweep, and clients that push images layer by layer | extends `Manifests`: collections run beside all of its actions |
| `Owners` | owner records and the login that reads one | |
| `RemoteAdmin` | the CLI's owner commands over HTTP, cut connections, the handlers' replies | extends `Owners`: the handlers are its operations; refines it |
| `Federation` | trust bindings, tokens of every issuer, the login that pins | |
| `Tokens` | challenges, grants, tokens, checks, the clock, servers and their key | |
| `JwksCache` | `keyFor`, the issuer's rotation, the clock | |
| `CredentialFile` | the CLI's processes beside each other on `credentials.json`, the issuer | |
| `SignIn` | one interactive sign-in and what surrounds it | |
| `DockerConfig` | install, uninstall and the other writers | |
| `Login` | a whole `agent-registry login`: discovery, sign-in, verdict on the audience, helper | extends `SignIn`, instantiates `DockerConfig` |

`UploadsProofs`, `FederationProofs`, `TokensProofs`, `JwksCacheProofs`,
`CredentialFileProofs` and `LoginProofs` each extend the module they are about.
`ManifestsProofs` extends `Collector` and has two parts, the second of which rests on the
first: `Manifests` by itself, and `Collector`. So has `OwnersProofs`, which extends
`RemoteAdmin`: `Owners`, then `RemoteAdmin`. `MC*` modules give constants their values for TLC and define the
symmetry sets and the settings (below). No module declares a RECURSIVE operator.

How state and actions correspond to code:

* **Uploads.** A goroutine `p` has a program counter `pc[p]`; each value is a
  point between two file operations of `StartUpload`, `AppendUpload`,
  `FinalizeUpload`, `AbortUpload` or `OpenBlob`. A session id stands for the
  upload file's name and for its inode: `Rename` moves the inode under the
  digest, so a writer that still has it open would go on writing into a blob,
  which is exactly what `lockUpload` must exclude. `CopyByte` is one write of
  `io.Copy`; `CopyBreaks` a body or disk that fails in the middle; `Restored` is
  `uploadDigest`: the saved hash state if the sidecar's size is the file's,
  otherwise the file read again. Handlers decide in `AfterAppend`,
  `AfterFinalize` and `Proceed` what follows (a PUT appends, releases the lock,
  and finalizes). A sidecar is written as `writeFileAtomic` does it: `SeedDigest` or
  `SaveDigest` makes the temporary file (`tmp[p]`), `SeedRename` or `SaveRename` renames
  it. A rename that fails leaves it in `uploads/` (`strays`), and `SeedFails` may leave the
  upload itself, since the error of that `os.Remove` is ignored; `leaked` is a history of
  the sessions to which a crash, a failing remove or a failing rename did such a thing.
  SHA-256 is a constant operator `Hash`; its running state is
  the bytes it has eaten. HTTP range checks (the offset of a PATCH) are absent
  because the code has none.
* **Manifests.** The files `body`, `mtype`, `index`, `tag` are written by
  separate actions in `PutManifest`'s order (body, type, referrer, tag) and
  removed in `DeleteManifest`'s. `writeFileAtomic` is `TmpTag`, `RenameTag`;
  a crash between them leaves a temporary file (`orphan`).
  Repository deletion removes what it listed file by file. A listing of tags reads the
  directory while others write, temporary files included. A file
  that cannot be read (`ReadFails`) ends a pull or is left out, as in the code. A directory
  is read in one step, which it is as long as its entries fit the 8 KiB buffer of
  `os.ReadDir` (about eighty referrers).
* **Collector.** `GcRead`/`GcReadFails` mark one manifest at a time, `GcVisit`
  removes one blob. A client asks with HEAD and skips blobs that are there,
  as docker does (external; the server only answers). `stable` and `held` are
  histories: the manifests there before the scan and ever since, and the blobs
  there were then.
* **Owners, Federation.** Each operation is its reads and its write, as separate
  steps; `during[p]`/`trusted[p]` collect what was on file while `p` ran. An owner's
  record that cannot be read or decoded is "no such owner" to `CreateOwner`, `PutOwner`
  and `CheckPassword` (`Found`, `Saw`), a 500 to `SetPermissions` and `GetOwner`, and
  passes `handleMgmtOwnerPassword`, which stops at `ErrNotFound` only. The history `clean`
  is the operations that could read whenever they tried and whose record nobody else
  has changed since they arrived: what the comments promise, they promise to those. A
  password is its own hash. The list of bindings is read in one step: a record
  that comes while the files are being listed is as if it came before or after.
* **RemoteAdmin.** `step[c]` is the request a command has sent or is to send, and
  `After` what it makes of the status. The handler of a request is `Find`,
  `ReadOwner`, `WriteOwner` of `Owners`; its reply goes to `serves[p]`, if that
  client still waits. `Cut` is the client's 30 seconds or a broken connection;
  the handler goes on. `blind` is the commands one of whose requests could not read the
  record. `done` is a history: the file has been as the command
  wants it since it began.
* **Federation.** A token has the issuer it claims and the one that signed it.
  `Validator` is the routing by the unverified claim, which `/token` does and
  `/v2` does not; `Verifies` is the signature, issuer and audience check, with
  `AcceptAuthorizedParty` as a setting. Names can pass from one identity to
  another. `Posted` are the bindings the management API takes.
* **Tokens.** A token is the record of its claims. `Challenge`, `GrantAccess`,
  `Bearer`, `CanPull`, `CanPush` and `May` are the pure functions of the code,
  `Accepts` composes them as the data plane does. `ReadKey`, `WriteKey` and `Stop` are
  servers that come and go on one data directory.
* **JwksCache.** A request takes `now` *before* it waits for the mutex
  (`ask[p].at`); the mutex is held while the keys are fetched. The issuer
  answers with the keys of the moment of `Reply`, which may be rotated before
  `AnswerFetch` stores them. Only a fetch takes time: what a goroutine does
  between `time.Now()` and the mutex, when nobody holds it, takes none.
* **CredentialFile.** The two path names point to inodes, so two processes that
  open the same `.tmp` share what is in it. Nothing in the code orders two processes.
  A behaviour says by `setting.turns` at which steps no two of them happen to be at
  once (`InTurn`), none, some or all. `RemoveOld` is Windows' removal of the file before
  the rename. The issuer rotates a token in `Refresh`, and in `RefreshLost` too, whose
  reply does not arrive or cannot be read; `lost` is a history of the sessions whose last
  token nobody has saved. An issuer that gives out no refresh tokens makes `Get` go on as
  if nobody were signed in. `Logout` at the issuer may fail; the file is changed anyway.
* **SignIn.** `select` is a choice among the cases that are ready. Time is a
  countdown per timer, in units of five seconds (the default poll interval and
  the increment of `slow_down`).
* **DockerConfig.** `config.json` is the three things the properties tell apart:
  `credsStore`, the helper of each registry, the logins. In each directory the helper's
  link is here, that of an older version or another program, or missing; on Windows the
  shim is written in place and can be empty. `OnPath` is docker's own lookup: the first
  helper in a directory on PATH, which need not be the one `--helper-dir` named. `found` is
  a history of the file as the command read it; `OthersWrite` changes the file at any
  moment, between that and the rename too.
* **Login.** `at` is the statement `runLogin` has reached. `site` is the registry
  and its realm: where it is, the audience it requires, the audiences the realm
  stamps. docker's configuration is chosen when it is first read, which keeps the
  states of the sign-in and of the installation from multiplying.

`ASSUME`s are only about types and bounds of constants (a stripe per session id;
`None` is none of the others, nor is it an audience, a command, an answer or a state of the
helper; directories are numbered in the order of PATH; a free
inode for each process; the two words for "by digest" and "not a valid tag"
are no tags), and in `JwksCache` `FetchTime <= MinGap <= CacheTTL`:
`verifier.go` 26-29 has two requests of 10 s, a minute and six hours.

**Settings.** Where a property holds only under some conditions (requests that
do not overlap, no failing writes, a quiet period), the module has a variable that
is chosen in the initial state and never changes: `setting` (kinds of request,
faults, whether they come one at a time, at which steps they do not overlap, the
platform) or `faults`. One run then covers all of
them, and each property names the condition it needs, or the history (`clean`, `blind`,
`leaked`, `lost`) that says in which behaviours it does not apply. So the condition is part
of the formula a reader sees and not hidden in a configuration. A configuration chooses
how many there are of each thing, and which settings are checked.

## 3. The runs

All runs are exhaustive. Deadlock is checked, except where the system stops by
itself: in `jwks_all` at the clock's bound, in `login_all` when the login is over.

| run | instance | shows |
|---|---|---|
| `uploads_safety` | 2 handlers, 2 sessions, one stripe, files up to 2 bytes, crashes, failing removes and renames, symmetric; 1.1 M states | types, 4 invariants; closed files never change; refinement of `ContentStore` |
| `uploads_live` | 3 handlers, 1 session, one stripe | every request is answered |
| `manifests_all` | image and attestation, 1 tag, 2 media types, 2 handlers; four settings; 2.4 M states | completeness of tags and acknowledged pushes; the referrers index; refinement of `ManifestStore` |
| `collector_all` | 2 manifests sharing a layer, 1 handler, up to 2 collections; three settings; 1.7 M states | images keep their blobs; garbage goes |
| `collector_unread` | one failing setting | **violation**: section 6 |
| `owners_all` | 1 owner, 2 passwords, 2 permission blocks, 2 handlers, 2 remote clients; records that cannot be read; four settings; 1.8 M states | changes and logins; remote commands |
| `owners_full` | one remote client, `--full` | **violation**: section 6 |
| `federation_all` | 2 bindings of all four kinds, 1 name, 2 identities, 1 environment, 2 logins; three settings; 0.7 M states | one holder; accepted on record |
| `tokens_safety` | 3 repositories of 2 owners, 4 grants, 2 servers, 3 keys, TTL 2, leeway 1, clock to 5; three settings; 0.6 M states | bounded revocation; challenges; the key |
| `jwks_all` | 2 requests, 2 key ids, TTL 4, gap 2, fetch 1, clock to 6 | rate limit, outage, rotation |
| `credentials_all` | 2 processes, 2 sessions, 1 rotation, 3 inodes, symmetric; six settings of commands, faults, turns, platform and issuer; 2.7 M states | the file, sign-in, logout, refresh |
| `login_all` | 5 registries with their realms; three sign-in modes, wait 2, code life 6, interval 0 or 2; the helper of 1 of 2 registries, in 2 directories, of which 1 or 2 are on PATH, first or again, on Unix and Windows; 1.8 M states | a login tells the truth; it ends; it does not hammer; docker's file |

Every run checks the safety of interleavings, faults and settings together; the
type invariants are proved instead, where the module has proofs (section 5).

Why the bounds are enough to be interesting. *Uploads:* two bytes make a file whose size
differs from its sidecar's, two sessions on one stripe make lock waits, two
handlers on one session make every overlap of a retry with its original; three
handlers are the least with which a waiter can be overtaken for ever.
*Manifests:* the attestation's subject is the image, so index and store can
disagree; two handlers make every pairwise overlap. *Collector:* a shared layer
is what HEAD skips; two collections make one scan before, one after a push.
*Owners:* two passwords and two blocks make a change that undoes another visible;
two clients with two handlers make a client that left beside one that came.
*Tokens:* the clock outlasts TTL and leeway of a token minted after a change;
two servers make a token of one be judged by the other, and a third key is one
more than any start should need.
*JwksCache:* the clock outlasts a cache life and a refetch. *CredentialFile:*
two sign-ins show that a new session does not lose the old file; one rotation
retires the token that was used; two processes make one read, refresh, log out or be
killed while the other saves, and three inodes are the file, the temporary file and a new one. The settings
are overlaps everywhere but between refresh and rename, with lost replies; kills and
failing writes with overlaps everywhere but in the save, on Unix and on Windows; every
fault with one process at a time, on both; an issuer without refresh tokens. *Federation:* the second identity is the one that takes the
name over; two bindings make the older one decide. *Login:* two host names make a
registry whose audience is not the host of its URL; the second of two directories is one
docker searches after another program's, or the only one it searches; the second registry is
the one whose keys must stay. `MaxSize`, `MaxTime`,
`MaxTokens`, `MaxKeys`, `MaxRotation`, `Wait` and `Lifetime` are the bounds on what would grow; each is a constant named in its
guard.

## 4. Fairness

* `uploads_live`: weak fairness of each handler's own steps (the Go scheduler
  runs every goroutine; a copy makes progress or fails) and strong fairness of
  `Lock`, because a `sync.Mutex` hands itself to a waiter that has starved for
  a millisecond. That a client sends its body or goes away is an assumption:
  `server/server.go` 85-86 sets no read timeout, so a client that just stalls
  holds its stripe. Nothing is assumed about arrivals or crashes.
* `login_all`: weak fairness of discovery, of the sign-in's own steps (`Step`)
  and of the clock (`Tick`): timers fire, and a request that is not answered is given up by
  the HTTP client's own timeout. Nothing is assumed about the human, the
  browser or what the issuer answers.

The other runs check safety only and assume no fairness.

## 5. What is proved

Each theorem holds for any values of the module's constants that satisfy its
`ASSUME`s: any numbers of handlers, clients, processes, manifests, owners, bindings
and so on, any times and any settings. Of the properties the passing runs check, all
are proved but the two that are liveness, `RequestsAnswered` of `Uploads` and
`SignInEnds` of `SignIn`.

| module | theorem | states |
|---|---|---|
| `UploadsProofs` | `TypeCorrect` | `Spec => []TypeOK` |
| | `BlobsMatchDigests` | `Spec => []BlobIntegrity` |
| | `SidecarsAreSound` | `Spec => []SidecarSound` |
| | `ReadersServed` | `Spec => []GetServesDigest` |
| | `ClosedFrozen` | `Spec => ClosedNeverWritten` |
| | `NothingElseLeaks` | `Spec => []OnlyCrashLeaks` |
| | `ContentStoreImplemented` | `Spec => ImplementsContentStore` |
| `ManifestsProofs` | `ManifestsTyped` | `MSpec => []MTypeOK` |
| | `TagsComplete` | `MSpec => []TagsNameCompleteManifests` |
| | `AckedComplete` | `MSpec => []AckedStaysComplete` |
| | `IndexMatches` | `MSpec => []IndexMatchesStore` |
| | `ManifestStoreImplemented` | `MSpec => ImplementsManifestStore` |
| | `CollectorTyped` | `CSpec => []CTypeOK` |
| | `SettledKept` | `CSpec => []ReadImagesKeepBlobs` |
| | `QuietKeepsWhole` | `CSpec => []ImagesWhole` |
| | `QuietCollectsAll` | `CSpec => GarbageCollected` |
| `OwnersProofs` | `OwnersTyped` | `OSpec => []OTypeOK` |
| | `LoginsCurrent` | `OSpec => []LoginIsCurrent` |
| | `CreatesKeep` | `OSpec => CreateNeverOverwrites` |
| | `ChangesKeep` | `OSpec => ChangesKeepTheRest` |
| | `DeletedStay` | `OSpec => DeletedStaysDeleted` |
| | `RemoteImplementsOwners` | `RSpec => OSpec` |
| | `RemoteKeepsPromises` | the four properties of `Owners`, of `RSpec` |
| | `OkIsDone` | `RSpec => []OkMeansDone` |
| | `CommandsAreOperations` | `RSpec => []CommandIsOneOperation` |
| `FederationProofs` | `FederationTyped` | `FSpec => []FTypeOK` |
| | `LoginsOnRecord` | `FSpec => []AcceptedOnRecord` |
| | `OneHolderKept` | `FSpec => []OneHolder` |
| `TokensProofs` | `TokensTyped` | `TSpec => []TTypeOK` |
| | `TokensExpire` | `TSpec => []AccessExpires` |
| | `ChallengesLeadIn` | `TSpec => []ChallengeLeadsIn` |
| | `KeySurvivesStarts` | `TSpec => []KeySurvives` |
| `JwksCacheProofs` | `CacheTyped` | `JSpec => []JTypeOK` |
| | `FetchesSpaced` | `JSpec => OneFetchPerGap` |
| | `KnownServed` | `JSpec => KnownKeyServed` |
| | `NewServed` | `JSpec => NewKeyServed` |
| | `WithdrawnExpire` | `JSpec => WithdrawnKeyExpires` |
| `CredentialFileProofs` | `CredentialsTyped` | `KSpec => []KTypeOK` |
| | `FilesWhole` | `KSpec => []NeverHalfWritten` |
| | `SignInsKept` | `KSpec => SignInKept` |
| | `LogoutsLast` | `KSpec => []LoggedOutStaysOut` |
| | `SessionsKeepWorking` | `KSpec => SessionKeepsWorking` |
| `LoginProofs` | `LoginsAreTrue` | `LSpec => []LoginTellsTheTruth` |
| | `HelpersStay` | `LSpec => []HelperBehindEntry` |
| | `PollsArePolite` | `LSpec => NeverHammers` |
| | `OtherKeysStay` | `LSpec => KeepsOtherKeys` |

None of the invariants is inductive as a run states it; the rest of this section
says by what each is strengthened.

**Uploads** (`IInv`). The key fact is mutual exclusion:
`LockInv` (whoever is between `Lock` and its return holds the stripe of its
session) makes the holder of a stripe the only handler inside any session of it (lemma
`Exclusive`). `HashInv`
says what a handler inside relies on: the session it opened is still open (no one
has renamed or removed it), and the running hash is that of the bytes in the
file; lemma `RestoredIsContent` says the restored state is the right one, which
needs `SidecarInv`. `PrivateInv` is the same for the one step outside a lock,
`StartUpload`'s write of the first sidecar: no client has been told the id yet.
`SidecarInv` is stronger than `SidecarSound`: a sidecar is also never ahead of
its file, so a file that grows cannot come to agree with an old one by size alone.
`BlobInv` says that a blob's inode is closed, so no writer can reach it, and
hashes to its name; `SendInv` carries that over to a reader whose blob may have been
unlinked. Their conjunction `IInv`, with the types, is inductive: `IInvInit`, and
`IInvStep` with one lemma per group of actions (`ReceiveStep`, `LockStep`, `CreateStep`, `SeedStep`,
`AppendStep`, `FinishStep`, `BlobStep`, `DeleteBlobStep`, `CrashStep`). Actions
that do not touch a session are dealt with once (`QuietStep`, `Preserved`).
`OnlyCrashLeaks` needs `LeakInv` as well, for it says that somebody is at work on
the session where it has to be somebody who will clean up (`Minds`: a handler that
starts a session, or is about to drop a sidecar). `OwnOK` makes a session being
started the business of that request alone, so nobody else can close it;
`OpOK` ties each step to the requests that reach it, so the one that must not
reply without an abort does not; `LeakOK` is the property for one session. A temporary file
is its handler's alone until it is renamed or becomes one of `strays`, and then its session
is in `leaked`. A
handler that changes one session disturbs the others' parts nowhere (`LeakBy`).
The refinement maps a session to unused, open or closed and a digest to the bytes
under it; `RefineStep` shows that every step is one of the abstract store's or a stutter.

**Manifests** (`MT`, `Kept`, `Paired`). `MT` adds to the types what a request holds
at each of its steps. `Kept` is for behaviours without deletes, whatever overlaps,
fails or crashes: a handler of a push past the write of the body, of the type, of
the referrer relies on that file being there (`StageOK`), and nothing but a delete
takes it away (lemma `Grows`); so when a tag is renamed into place, or a 201 is
sent, all of it is there. `Paired` is for requests that take turns without
failures: index and store agree about every manifest except the one the handler
at work is about (`TurnOK`, lemma `AtWork`).
The refinement maps the files to the set of complete manifests (`visible`) and a
request to what it has seen (`sights`): a pull by tag to the manifest it found in the tag, a
listing to the entries of the directory. A push takes effect with the write that
completes its manifest, and again with the rename of its tag; a read when it
reads tag or directory, and what it reads later adds nothing. `Kept` is what that
needs: what a pull found is complete, so the later reads succeed, and an index entry is there
only for a complete manifest, so a listing is of those. Where somebody deletes, `ManifestStore`
allows everything: a delete beside a pull is a 404 after the tag was found, or the default type.

**Collector** (`CT`, `Spared`, `Whole`). `Spared`: a manifest that was there when
the scan began is still to be read, or all its blobs are in `found`; in the sweep
it is the latter. Another collection that scanned earlier knows nothing of it,
hence the precondition of `ReadImagesKeepBlobs`. `Whole` is about quiet periods:
while any collection runs nobody writes, so every one of them finds exactly what
the stored manifests need, and what it has still to visit includes every blob it
has not found. The lemmas about handlers of `Manifests` (`HandlerBody`) rest on
that module's proofs.

**Owners** (`OInv`). `LoginInv` holds whatever overlaps: a login has seen the file as it
is now, and the copies it decides on are among what it has seen; that is
`LoginIsCurrent` once it is accepted, also if some read found nothing it could decode.
`CleanInv` is about the operations in `clean`, whatever else overlaps or fails: what such a
one has read is still what the file holds when it writes, and it has passed the checks
that its reads call for. An operation leaves `clean` in the step in which a read fails or
another one changes the file, so the invariant needs no turns. The action properties then
follow from `WriteOnly`, which says that only two steps change the file. Outside `clean`
they are false (section 6).

**RemoteAdmin** (`RInv`). The refinement is by the identity on the variables of
`Owners`: every step over HTTP is an operation of `Owners` or leaves its variables
alone (`StepIsOwners`), which needs `CmdInv`, that what a request carries is what
a request may carry. So every promise of `Owners` holds of a registry administered
from elsewhere. `OkMeansDone` needs more: a request on its way is the one its
client waits for, and what its handler is about to write is what the command
wants (`ServesInv`), so a reply 201 or 204 comes with a file that has just been as
wanted, and `done` notes it. A late handler of a client that has left can
change the file again at any time; that is why the property says "at some time
since it began". `CommandIsOneOperation` is about commands that take turns with
connections that hold (`SInv`) and that could read the record whenever they asked: then a handler at work has a client that waits for
it, so nobody is left behind by a command that is over, and `SoleOK` follows the
command: the file is what it was at the start, until the one write, and what was
wanted from then on. A password command that has seen the owner at its first GET
relies on that still being so at the later requests.

**Federation** (`FInv`). `LoginInv`: a login has claims that their issuer signed
for this registry; before it looks, all that is on file is in `trusted`;
afterwards some record in `trusted` matches its claims. Deletions and pins by
others only add to `trusted`. `HolderInv` is for logins that take turns: a binding
that is pinned has let in nobody but the identity of the pin, and one that is not
has let in nobody; an id is never used twice, so a new binding starts with nobody.

**Tokens** (`TInv`). `Fresh`: what a credential permits, and what the copy of it in
a call under way permits, was permitted at this very time unit, because a call
does not outlast one; so what a token permits (`TokenIsGrant`: no more than the copy did)
was permitted TTL before it expires, or later. `Led` compares the scopes asked for,
what was permitted and the claims. `OneKey` is for starts that take turns: whoever generates a key
is alone and there is none on disk, so whoever is up has the one on disk.

**JwksCache.** The rate limit compares times taken on arrival, so it could be
wrong by as long as a request waited. It is not (`AttemptInv`: `lastAttempt` is
when the last fetch was really sent), because whoever waits for the mutex waits
for a fetch, and `WaitInv` says that this fetch limits it: its own time is less
than `MinGap` after `lastAttempt`, as `FetchTime <= MinGap`. `CacheInv` and
`ReplyInv` say what cached and arriving keys are: those published at some
moment since the fetch was sent. `SettledInv` says that without faults the last
attempt is also the last success, which `NewServed` and `WithdrawnExpire` need.

**CredentialFile** (`KInv`). Which calls overlap decides what holds, so each part names
the steps at which they do not. `SaveOK` (`Saves` in turn) says that the call that
saves has the temporary name's inode to itself, from the truncation to the rename, by way of Windows' removal of the
file,
with what it means to write, and that what it changed is what is on file: so only whole files
are renamed into place (`NeverHalfWritten`), and no stale copy takes a sign-in
away (`SignInKept`). What a killed call leaves in `.tmp` is harmless because the next
one truncates it. `LogoutOK` (`Changes` in turn) says that after a logout not
only the file but no call either has a session that it could write back. For the refresh
tokens, `FileOK` says that the token on file is the issuer's last one, or the call
that has the last one is on its way to the file; `HeldOK` that the call that refreshes has what is on
file; `BegunOK` that an unused session is nowhere on disk, so that a sign-in
cannot revive a token. A fault between refresh and rename, or a lost reply, puts the
session into `lost`, and `FileOK` speaks of the others; `TokensOK` says that an issuer
without refresh tokens has none to refuse. A lock in the code would have to be held for
just these steps: the save for the first two, refresh or load to rename for the others.

**Login** (`LgInv`). `KnowsOK` follows the audience through the four programs: what
discovery said, what the realm stamped into the token, and whether the CLI warned. `PaceOK` is
that the pause between two polls is never shorter than what the issuer still asks for,
`slow_down` included. `DockerOK` and `InstallOK` say of a command on
`config.json` what it has in hand at each step, and that what it will say about PATH is so
(`FoundOrTold`, from lemma `PlacedIsFound`: what `Install` looks up is what docker will);
`EntryOK` that a file which has
the helper's entry, on disk or about to be, has a helper behind it in some directory, for
installation links before it edits and uninstallation edits before it unlinks; `ReadOK`
that the file a command is about to write differs from the one it read in the command's own
registry only, whoever has written since.

Only model-checked: `RequestsAnswered` and `SignInEnds`, since liveness under fairness
and ENABLED are beyond the prover. The type invariants `SITypeOK` of `SignIn` and
`DCTypeOK` of `DockerConfig` document the variables and belong to no run; what `LgInv` needs of
them is in its parts.

## 6. Where the code does not do what it says

Two runs find a disagreement.

`collector_unread`: `GC` "removes blobs not referenced by any manifest"
(`store.go` 839), but a manifest it cannot read counts as naming nothing and the
sweep goes on, so the layers of a stored manifest are removed. Every other
collector property therefore excludes failing reads by name.

`owners_full`: `owner perms --full` "restores full access" (`cli.go` 71). On the
registry's own disk it does. Through the remote client, `SetPermissions(name, nil)`
sends an empty permission block (`client.go` 147-151) and the handler stores it:
the owner loses every permission while the CLI prints "set to full access".
`OkMeansDone` excludes that command by name.

The conditions in the other properties stand for behaviour the models also have, when
the condition is taken away:

* *Uploads* (`leaked`): a crash, a remove that fails or a rename that fails in
  `writeFileAtomic` (`store.go` 946) leaves an upload or a `.tmp-*` in `uploads/`, and
  nothing ever collects it.
* *Owners* (`clean`), records that cannot be read: "never overwrites a live credential"
  (`store.go` 203-205), but `CreateOwner` takes any error of the read for "there is none"
  and writes; so does `PutOwner` (190), and a rotated password then comes without the
  permission block, which is full access. `SetPermissions` answers with an error.
* *Owners* (`clean`), overlaps: two creations both succeed and the second overwrites the
  first; a password change undoes a permission change that falls into it, and the
  other way round; a change can bring back an owner deleted meanwhile.
* *RemoteAdmin* (`Alone`): a password command whose owner is deleted after the
  CLI's first GET creates it anew, with the full access of legacy owners; one that
  timed out may still take effect later; an `add` repeated because its reply was
  lost says "already exists"; a password command reports failure if the owner
  vanishes before its last GET, although the password was changed.
* *Federation* (`Alone`, no faults): of two first logins both are let in and the
  later write moves the pin; a pin that meets a deletion writes the binding
  again; a pin that cannot be written lets the login through, and the next
  identity as well (`token.go` 161-163). A Keycloak token without `sub` is accepted
  and never pins its binding (`nosub`).
* *Manifests* (`Alone`): a listing of tags names the temporary file of a push that is under
  way. A push overlapping a delete of the same attestation
  leaves an index entry without manifest, or a manifest without entry. Temporary
  files of `writeFileAtomic` are listed as tags, after a crash for ever. A media type that
  cannot be read is no error, so the client is told "image manifest"; nor is a
  referrer's entry, which is then left out. A pull by digest
  between the body and the type of a first push gets the default type as well. A push
  that is refused because its reference is not a valid tag has stored its manifest.
* *Collector* (one collection, or quiet periods): a collection that scanned before
  a manifest came removes its blobs, also when a second one has since found it settled.
* *Tokens*: revocation takes TTL **plus leeway** (`signer.go` 175), which is what
  `AccessExpires` says; push on one repository in a token is push on every
  repository of the namespace (`token.go` 291-304), so that a token serves *no more*
  than it lists is not among the properties. Two servers that start at once on an
  empty data directory get different keys until one of them is started again.
* *JwksCache*: no new key can be relied on while fetches fail, and a withdrawn one lives
  as long as the outage.
* *CredentialFile* (`Saves`, `Changes` within `setting.turns`, no faults): two helpers
  that save at once share `credentials.json.tmp` and can rename a truncated or mixed
  file into place, or one writes back what it loaded before the other signed in; a
  helper that refreshes can write a session back after the logout, and two that
  refresh at once send the same refresh token, which an issuer that rotates refuses
  the second time. A refresh whose reply is lost (`device.go` 191-196, 207-210), or whose
  token cannot be saved, ends the session at the next refresh, where the issuer retires used
  tokens. On Windows a kill or a failing rename after `os.Remove` (`credentials.go` 121)
  loses every sign-in in the file, "write-then-rename" (112) notwithstanding.
* *SignIn*: when a denial and the end of the wait come together, `select`
  (`loopback.go` 140) may take the timeout, and the human is asked again by the device
  grant.
* *DockerConfig* (as it was read; one managed registry; a first run): `Write` "persists
  config.json, preserving every key it did not touch" (`config.go` 62), but what docker or the
  editor wrote between the command's read and its rename is lost, for nothing locks the
  file; on Windows a kill between removal and rename (82-84) loses the file. Uninstalling for
  one registry removes the binary that another is still registered for; a
  re-installation over what was there that stops half way leaves an entry without a
  helper, and on Windows one whose shim is empty.
* *Login*: with `REGISTRY_KEYCLOAK_ACCEPT_AZP` the CLI warns that the registry will refuse
  a token it accepts. On a Windows PATH with a second shim of ours before the one just
  installed, it says that docker will not find the helper, though it does.

Seen while reading, and not in any property: the management API records
GitHub's default issuer in a binding even where `REGISTRY_GH_OIDC_ISSUER` names
another one, and a binding's recorded issuer is not compared with the token's, so bindings made
for an earlier realm accept users of the next by name; a binding that may push for
an owner goes on working after the owner is deleted; a JWT of Keycloak or Azure as
a Basic password is taken by `/token` only, since `/v2` sends every JWT to GitHub's
validator.

## 7. Not modelled

* HTTP routing, status codes beyond those the remote client takes, error bodies,
  anonymous reads through a trusted proxy; the listings of owners, repositories and
  bindings; HEAD of a blob and upload status as requests of their own (HEAD appears
  where a client acts on it).
* JWT encoding, signatures, bcrypt, the time bounds of a federated token. Tokens are
  unforgeable (a forged one has another signer), passwords are their hashes. A
  token's `aud` is us, the CLI's `azp`, or another.
* Entra's two spellings of an issuer and its per-tenant verifiers: one issuer here.
* `repo`, `tag` and `gc` through the remote client: one request each, without state.
* How URLs, host names and names of files are spelled, printing, flags,
  environment variables.
* Two commands of the CLI on `config.json` at once; docker or the editor that reads
  `config.json` before our rename and writes its copy after it; file permissions.
* What `DeleteRepo` leaves when a push writes into the tree it removes: the model has
  it, and no promise of the code is about it.
* Durability below `rename`: the code calls `fsync` nowhere; a crash here is one
  of the process, not of the machine.

## 8. Plan

Done, core first: `ContentStore`, `Uploads` and its proofs, `Manifests`
(with `ManifestStore`), `Collector`, the identity side (`Owners`, `Federation`, `Tokens`, `JwksCache`), the
client side (`CredentialFile`, `SignIn`, `DockerConfig`), the compositions
(`RemoteAdmin`, `Login`), the proofs of every server module and of `RemoteAdmin`, and
those of the client side, with `CredentialFile`'s processes beside each other.

What is left: two commands of the CLI on `config.json` at once, and the CLI's own
reading of the credential file in `whoami` and `list`, which changes nothing.
