----------------------------- MODULE Collector -----------------------------
(***************************************************************************)
(* Garbage collection of blobs (Store.GC) against clients that push and    *)
(* delete images.  Manifests and their handlers are those of module        *)
(* Manifests; blobs are shared by every repository.                        *)
(*                                                                         *)
(* GC runs in the server (POST /_mgmt/gc) or in the CLI's own process, so  *)
(* several may run, beside any request: nothing excludes any of it.        *)
(***************************************************************************)
EXTENDS Manifests

CONSTANTS Blob,
          Needs,     \* manifest -> blobs its body names
          Gc         \* garbage collections that may run at a time

ASSUME CollectorAssumption ==
  /\ Needs \in [Manifest -> SUBSET Blob]
  /\ \A s \in Settings : s.quiet \in BOOLEAN /\ s.gc \subseteq Gc

VARIABLES
  blobs,     \* blobs/sha256
  have,      \* blobs the client pushing m has been told are stored
  gpc,       \* where each collection is
  left,      \* files of its last directory listing it has still to visit
  found,     \* its map "referenced"
  stable,    \* history: manifests stored ever since the scan began
  held       \* history: blobs stored when the scan began

\* Quiet: gc is only run as README.md asks, with no push or delete at work.
Quiet == setting.quiet

gvars == <<gpc, left, found, stable, held>>
cvars == <<mvars, blobs, have, gvars>>

CInit ==
  /\ MInit
  /\ blobs = {}
  /\ have = [m \in Manifest |-> {}]
  /\ gpc = [g \in Gc |-> "idle"]
  /\ left = [g \in Gc |-> {}]
  /\ found = [g \in Gc |-> {}]
  /\ stable = [g \in Gc |-> {}]
  /\ held = [g \in Gc |-> {}]

Collecting == \E g \in Gc : gpc[g] \in {"scan", "sweep"}

\* No client is in the middle of a push or of a delete.
NobodyWrites ==
  /\ \A m \in Manifest : have[m] = {}
  /\ \A p \in Proc : mpc[p] = "idle"

MayWrite == Quiet => ~Collecting
-----------------------------------------------------------------------------
(* A client pushes the blobs of m, then m.  It asks with HEAD first and     *)
(* uploads only what is missing.                                           *)

HeadBlob(m, d) ==
  /\ MayWrite
  /\ d \in Needs[m] \ have[m]
  /\ d \in blobs
  /\ have' = [have EXCEPT ![m] = @ \cup {d}]
  /\ UNCHANGED <<mvars, blobs, gvars>>

PushBlob(m, d) ==
  /\ MayWrite
  /\ d \in Needs[m] \ have[m]
  /\ blobs' = blobs \cup {d}
  /\ have' = [have EXCEPT ![m] = @ \cup {d}]
  /\ UNCHANGED <<mvars, gvars>>

\* The client gives up (or is done); what it uploaded stays.
Forget(m) ==
  /\ have[m] # {}
  /\ have' = [have EXCEPT ![m] = {}]
  /\ UNCHANGED <<mvars, blobs, gvars>>

PushManifest(p, m) ==
  /\ MayWrite
  /\ have[m] = Needs[m]
  /\ BeginPut(p, m)
  /\ UNCHANGED <<blobs, have, gvars>>

OtherRequest(p) ==
  /\ MayWrite
  /\ BeginOther(p)
  /\ UNCHANGED <<blobs, have, gvars>>

HandleManifest(p) ==
  /\ MHandle(p)
  /\ stable' = [g \in Gc |-> stable[g] \cap body']
  /\ UNCHANGED <<blobs, have, gpc, left, found, held>>
-----------------------------------------------------------------------------
(* GC                                                                      *)

\* WalkDir lists the manifests of a repository, then visits them.
GcList(g) ==
  /\ gpc[g] \in {"idle", "done"}
  /\ g \in setting.gc
  /\ Quiet => NobodyWrites
  /\ gpc' = [gpc EXCEPT ![g] = "scan"]
  /\ left' = [left EXCEPT ![g] = body]
  /\ found' = [found EXCEPT ![g] = {}]
  /\ stable' = [stable EXCEPT ![g] = body]
  /\ held' = [held EXCEPT ![g] = blobs]
  /\ UNCHANGED <<mvars, blobs, have>>

\* Mutation: only manifests a tag names keep their blobs.
GcReadTagged(g, m) ==
  /\ gpc[g] = "scan"
  /\ m \in left[g]
  /\ left' = [left EXCEPT ![g] = @ \ {m}]
  /\ found' = [found EXCEPT ![g] =
                 IF \E t \in Tag : tag[t] = m THEN @ \cup Needs[m] ELSE @]
  /\ UNCHANGED <<mvars, blobs, have, gpc, stable, held>>

\* The body is searched for digests (its own, which names no layer, counts as
\* referenced too and is left out here); one deleted since the listing is skipped.
GcRead(g, m) ==
  /\ gpc[g] = "scan"
  /\ m \in left[g]
  /\ left' = [left EXCEPT ![g] = @ \ {m}]
  /\ found' = [found EXCEPT ![g] = IF m \in body THEN @ \cup Needs[m] ELSE @]
  /\ UNCHANGED <<mvars, blobs, have, gpc, stable, held>>

\* An entry that cannot be visited or read (EMFILE, EIO) is skipped as well,
\* and the collection goes on as if it named nothing.
GcReadFails(g, m) ==
  /\ "fail" \in Faults
  /\ gpc[g] = "scan"
  /\ m \in left[g]
  /\ left' = [left EXCEPT ![g] = @ \ {m}]
  /\ UNCHANGED <<mvars, blobs, have, gpc, found, stable, held>>

\* Mutation: the sweep starts while manifests are still being read.
GcSweepEarly(g) ==
  /\ gpc[g] = "scan"
  /\ gpc' = [gpc EXCEPT ![g] = "sweep"]
  /\ left' = [left EXCEPT ![g] = @ \cup blobs]
  /\ UNCHANGED <<mvars, blobs, have, found, stable, held>>

GcSweep(g) ==
  /\ gpc[g] = "scan"
  /\ left[g] = {}
  /\ gpc' = [gpc EXCEPT ![g] = "sweep"]
  /\ left' = [left EXCEPT ![g] = blobs]
  /\ UNCHANGED <<mvars, blobs, have, found, stable, held>>

\* One blob file.  Directories are listed as the walk reaches them, so blobs
\* that arrive during the sweep may be visited too.
GcVisit(g, d) ==
  /\ gpc[g] = "sweep"
  /\ d \in left[g] \cup blobs
  /\ left' = [left EXCEPT ![g] = @ \ {d}]
  /\ blobs' = IF d \in found[g] THEN blobs ELSE blobs \ {d}
  /\ UNCHANGED <<mvars, have, gpc, found, stable, held>>

\* A blob that cannot be removed stays, and is not reported.
GcRemoveFails(g, d) ==
  /\ "fail" \in Faults
  /\ gpc[g] = "sweep"
  /\ d \in left[g]
  /\ left' = [left EXCEPT ![g] = @ \ {d}]
  /\ UNCHANGED <<mvars, blobs, have, gpc, found, stable, held>>

\* Mutation: the sweep stops at the first blob it has to keep.
GcEndEarly(g) ==
  /\ gpc[g] = "sweep"
  /\ \/ left[g] = {}
     \/ \E d \in left[g] : d \in found[g]
  /\ gpc' = [gpc EXCEPT ![g] = "done"]
  /\ left' = [left EXCEPT ![g] = {}]
  /\ UNCHANGED <<mvars, blobs, have, found, stable, held>>

GcEnd(g) ==
  /\ gpc[g] = "sweep"
  /\ left[g] = {}
  /\ gpc' = [gpc EXCEPT ![g] = "done"]
  /\ found' = [found EXCEPT ![g] = {}]
  /\ stable' = [stable EXCEPT ![g] = {}]
  /\ held' = [held EXCEPT ![g] = {}]
  /\ UNCHANGED <<mvars, blobs, have, left>>

\* The server dies: its handlers and the collection go, the files stay.
CCrash ==
  /\ MCrash
  /\ gpc' = [g \in Gc |-> "idle"]
  /\ left' = [g \in Gc |-> {}]
  /\ found' = [g \in Gc |-> {}]
  /\ stable' = [g \in Gc |-> {}]
  /\ held' = [g \in Gc |-> {}]
  /\ UNCHANGED <<blobs, have>>

CNext ==
  \/ \E m \in Manifest :
       \/ \E d \in Blob : HeadBlob(m, d) \/ PushBlob(m, d)
       \/ Forget(m)
       \/ \E p \in Proc : PushManifest(p, m)
  \/ \E p \in Proc : OtherRequest(p) \/ HandleManifest(p)
  \/ \E g \in Gc :
       \/ GcList(g) \/ GcSweep(g) \/ GcEnd(g)
       \/ \E m \in Manifest : GcRead(g, m) \/ GcReadFails(g, m)
       \/ \E d \in Blob : GcVisit(g, d) \/ GcRemoveFails(g, d)
  \/ CCrash

CSpec == CInit /\ [][CNext]_cvars
-----------------------------------------------------------------------------
(* Properties                                                              *)

CTypeOK ==
  /\ MTypeOK
  /\ blobs \in SUBSET Blob
  /\ have \in [Manifest -> SUBSET Blob]
  /\ gpc \in [Gc -> {"idle", "scan", "sweep", "done"}]
  /\ left \in [Gc -> SUBSET (Manifest \cup Blob)]
  /\ \A g \in Gc : left[g] \subseteq IF gpc[g] = "sweep" THEN Blob ELSE Manifest
  /\ found \in [Gc -> SUBSET Blob]
  /\ stable \in [Gc -> SUBSET Manifest]
  /\ held \in [Gc -> SUBSET Blob]

\* GC "removes blobs not referenced by any manifest in any repo": whatever is
\* pushed and deleted beside it, it never takes a blob from a manifest that
\* has been there since before its scan.
SettledImagesKeepBlobs ==
  \A g \in Gc : \A m \in stable[g] : Needs[m] \cap held[g] \subseteq blobs

\* So it is as long as every manifest can be read and, outside quiet periods,
\* one collection runs at a time: another one, which has scanned before a
\* manifest came, takes blobs of what is settled for the next.
ReadImagesKeepBlobs ==
  "fail" \notin Faults /\ (Quiet \/ \A g, h \in setting.gc : g = h) =>
    SettledImagesKeepBlobs

\* Run in quiet periods, as README.md asks, GC leaves every image that was
\* pushed whole: clients that HEAD blobs and skip them lose nothing.
ImagesWhole ==
  Quiet /\ "fail" \notin Faults => \A m \in body : Needs[m] \subseteq blobs

\* Run in quiet periods, GC collects all garbage: when it ends, every blob is
\* named by a stored manifest.
GarbageCollected ==
  [][Quiet /\ "fail" \notin Faults => \A g \in Gc :
       gpc[g] = "sweep" /\ gpc'[g] = "done" =>
         blobs \subseteq UNION {Needs[m] : m \in body}]_cvars
=============================================================================
