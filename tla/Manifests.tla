----------------------------- MODULE Manifests -----------------------------
(***************************************************************************)
(* Manifests, tags and the referrers index of one repository, as files:    *)
(* internal/store/store.go (PutManifest .. DeleteRepo) behind the manifest *)
(* handlers of internal/server/registry.go and server/mgmt.go.             *)
(*                                                                         *)
(* Nothing here is locked.  Every file is replaced by a rename, so one     *)
(* write or one remove is one step, but a request is a sequence of them    *)
(* and any two requests, or a crash, can fall in between.  Repositories    *)
(* share nothing, so one is enough.                                        *)
(***************************************************************************)
EXTENDS Naturals, FiniteSets

CONSTANTS Proc,        \* handler goroutines
          Manifest,    \* manifest bodies, each with its own digest
          Subject,     \* manifest -> digest it is attached to, or None
          Tag,
          MediaType,
          Settings,    \* what clients send and what may fail, see setting
          None

\* A reference in a request: a digest, a tag, or a name ValidName rejects.
ByDigest == "digest"
Invalid == "invalid"

ASSUME ManifestAssumption ==
  /\ Subject \in [Manifest -> Manifest \cup {None}]
  /\ None \notin Manifest \cup Tag \cup MediaType
  /\ {ByDigest, Invalid} \cap Tag = {}
  /\ \A s \in Settings :
       /\ s.traffic \subseteq {"put", "get", "delete", "untag", "drop", "tags", "referrers"}
       /\ s.faults \subseteq {"crash", "fail"}
       /\ s.alone \in BOOLEAN

VARIABLES
  body,        \* manifests whose body file exists
  mtype,       \* manifests/<hex>.mediatype, or None
  index,       \* media type in referrers/<subject>/<hex>.json, or None
  tag,         \* manifest a tag file names, or None
  tmp,         \* handlers with a temporary file in tags/
  orphan,      \* a temporary file in tags/ belongs to nobody any more
  mpc,         \* where each handler is
  mreq,        \* its request, and what it has read so far
  acked,       \* history: manifests whose PUT was answered 201
  setting      \* of this run, never changed: the kinds of request clients send,
               \* the faults there are, and whether requests come one at a time

store == <<body, mtype, index, tag, tmp, orphan>>
mvars == <<body, mtype, index, tag, tmp, orphan, mpc, mreq, acked, setting>>

Traffic == setting.traffic
Faults == setting.faults
Alone == setting.alone

MPC == {"idle",
        "writeBody", "writeType", "writeReferrer", "tmpTag", "renameTag",
        "readTag", "readBody", "readType", "served",
        "findSubject", "dropReferrer", "removeBody", "dropType",
        "removeTag", "removeAll", "listTags", "tagsListed",
        "listReferrers", "readReferrers", "referrersListed"}

MRequest == [man : Manifest \cup {None}, ref : Tag \cup {ByDigest, Invalid, None},
             type : MediaType \cup {None},
             names : SUBSET (Manifest \cup Tag \cup {None})]
MReq(m, r, t, n) == [man |-> m, ref |-> r, type |-> t, names |-> n]
NoMRequest == MReq(None, None, None, {})

MInit ==
  /\ body = {}
  /\ mtype = [m \in Manifest |-> None]
  /\ index = [m \in Manifest |-> None]
  /\ tag = [t \in Tag |-> None]
  /\ tmp = {}
  /\ orphan = FALSE
  /\ mpc = [p \in Proc |-> "idle"]
  /\ mreq = [p \in Proc |-> NoMRequest]
  /\ acked = {}
  /\ setting \in Settings
-----------------------------------------------------------------------------
MGoto(p, l) == mpc' = [mpc EXCEPT ![p] = l] /\ UNCHANGED mreq

MReply(p) ==
  /\ mpc' = [mpc EXCEPT ![p] = "idle"]
  /\ mreq' = [mreq EXCEPT ![p] = NoMRequest]

Begin(p, kind, r, l) ==
  /\ mpc[p] = "idle"
  /\ kind \in Traffic
  /\ Alone => \A q \in Proc : mpc[q] = "idle"
  /\ mpc' = [mpc EXCEPT ![p] = l]
  /\ mreq' = [mreq EXCEPT ![p] = r]
  /\ UNCHANGED <<store, acked, setting>>

BeginPut(p, m) ==
  \E r \in Tag \cup {ByDigest, Invalid}, t \in MediaType :
    Begin(p, "put", MReq(m, r, t, {}), "writeBody")

BeginOther(p) ==
  \/ \E t \in Tag :
       \/ Begin(p, "get", MReq(None, t, None, {}), "readTag")
       \/ Begin(p, "untag", MReq(None, t, None, {}), "removeTag")
  \/ \E m \in Manifest :
       \/ Begin(p, "get", MReq(m, ByDigest, None, {}), "readBody")
       \/ Begin(p, "delete", MReq(m, ByDigest, None, {}), "findSubject")
       \/ Begin(p, "referrers", MReq(m, None, None, {}), "listReferrers")
  \/ Begin(p, "drop", NoMRequest, "removeAll")
  \/ Begin(p, "tags", NoMRequest, "listTags")
-----------------------------------------------------------------------------
(* PutManifest: body, media type, referrers entry, tag, in this order.     *)

\* After the referrers entry: a tag is written, a digest needs none, and an
\* invalid name is only refused now (400), with everything else in place.
FinishPut(p) ==
  IF mreq[p].ref \in Tag
    THEN MGoto(p, "tmpTag") /\ UNCHANGED acked
    ELSE /\ MReply(p)
         /\ acked' = IF mreq[p].ref = ByDigest THEN acked \cup {mreq[p].man} ELSE acked

WriteBody(p) ==
  /\ mpc[p] = "writeBody"
  /\ body' = body \cup {mreq[p].man}
  /\ MGoto(p, "writeType")
  /\ UNCHANGED <<mtype, index, tag, tmp, orphan, acked, setting>>

\* Mutation: the referrers index is kept only for manifests pushed by tag.
WriteTypeTagsOnly(p) ==
  /\ mpc[p] = "writeType"
  /\ mtype' = [mtype EXCEPT ![mreq[p].man] = mreq[p].type]
  /\ IF Subject[mreq[p].man] # None /\ mreq[p].ref \in Tag
       THEN MGoto(p, "writeReferrer") /\ UNCHANGED acked
       ELSE FinishPut(p)
  /\ UNCHANGED <<body, index, tag, tmp, orphan, setting>>

WriteType(p) ==
  /\ mpc[p] = "writeType"
  /\ mtype' = [mtype EXCEPT ![mreq[p].man] = mreq[p].type]
  /\ IF Subject[mreq[p].man] # None
       THEN MGoto(p, "writeReferrer") /\ UNCHANGED acked
       ELSE FinishPut(p)
  /\ UNCHANGED <<body, index, tag, tmp, orphan, setting>>

WriteReferrer(p) ==
  /\ mpc[p] = "writeReferrer"
  /\ index' = [index EXCEPT ![mreq[p].man] = mreq[p].type]
  /\ FinishPut(p)
  /\ UNCHANGED <<body, mtype, tag, tmp, orphan, setting>>

\* writeFileAtomic on the tag: CreateTemp in tags/, then the rename.
TmpTag(p) ==
  /\ mpc[p] = "tmpTag"
  /\ tmp' = tmp \cup {p}
  /\ MGoto(p, "renameTag")
  /\ UNCHANGED <<body, mtype, index, tag, orphan, acked, setting>>

RenameTag(p) ==
  /\ mpc[p] = "renameTag"
  /\ p \in tmp
  /\ tmp' = tmp \ {p}
  /\ tag' = [tag EXCEPT ![mreq[p].ref] = mreq[p].man]
  /\ acked' = acked \cup {mreq[p].man}
  /\ MReply(p)
  /\ UNCHANGED <<body, mtype, index, orphan, setting>>

\* Mutation: the index entry of a manifest is written best-effort.
PutFailsIndexBestEffort(p) ==
  /\ "fail" \in Faults
  /\ mpc[p] = "writeReferrer"
  /\ FinishPut(p)
  /\ UNCHANGED <<store, setting>>

\* A failing write ends the request with 500 and undoes nothing; a failing
\* rename (DeleteRepo took the file away, or any other error) leaves the
\* temporary file where it is.
PutFails(p) ==
  /\ mpc[p] \in {"writeBody", "writeType", "writeReferrer", "tmpTag", "renameTag"}
  /\ "fail" \in Faults \/ (mpc[p] = "renameTag" /\ p \notin tmp)
  /\ orphan' = (orphan \/ p \in tmp)
  /\ tmp' = tmp \ {p}
  /\ MReply(p)
  /\ UNCHANGED <<body, mtype, index, tag, acked, setting>>
-----------------------------------------------------------------------------
(* GetManifest: tag, body and media type are three separate reads.         *)

ReadTag(p) ==
  /\ mpc[p] = "readTag"
  /\ IF tag[mreq[p].ref] = None
       THEN MReply(p)
       ELSE /\ mpc' = [mpc EXCEPT ![p] = "readBody"]
            /\ mreq' = [mreq EXCEPT ![p] = MReq(tag[@.ref], @.ref, None, {})]
  /\ UNCHANGED <<store, acked, setting>>

ReadBody(p) ==
  /\ mpc[p] = "readBody"
  /\ IF mreq[p].man \in body THEN MGoto(p, "readType") ELSE MReply(p)
  /\ UNCHANGED <<store, acked, setting>>

\* Mutation: the handler resolves the tag once more for the digest it answers.
ReadTypeResolves(p) ==
  /\ mpc[p] = "readType"
  /\ LET m == IF mreq[p].ref \in Tag /\ tag[mreq[p].ref] # None
              THEN tag[mreq[p].ref] ELSE mreq[p].man
     IN /\ mpc' = [mpc EXCEPT ![p] = "served"]
        /\ mreq' = [mreq EXCEPT ![p] = MReq(m, @.ref, mtype[m], {})]
  /\ UNCHANGED <<store, acked, setting>>

\* An unreadable media type is no error: the handler then claims an image
\* manifest, whatever the body is.
ReadType(p) ==
  /\ mpc[p] = "readType"
  /\ mpc' = [mpc EXCEPT ![p] = "served"]
  /\ mreq' = [mreq EXCEPT ![p] = MReq(@.man, @.ref, mtype[@.man], {})]
  /\ UNCHANGED <<store, acked, setting>>
-----------------------------------------------------------------------------
(* DeleteManifest, DeleteTag, DeleteRepo                                   *)

\* Mutation: DeleteManifest leaves the referrers index alone.
FindSubjectNever(p) ==
  /\ mpc[p] = "findSubject"
  /\ MGoto(p, "removeBody")
  /\ UNCHANGED <<store, acked, setting>>

FindSubject(p) ==
  /\ mpc[p] = "findSubject"
  /\ IF mreq[p].man \in body /\ Subject[mreq[p].man] # None
       THEN MGoto(p, "dropReferrer")
       ELSE MGoto(p, "removeBody")
  /\ UNCHANGED <<store, acked, setting>>

DropReferrer(p) ==
  /\ mpc[p] = "dropReferrer"
  /\ index' = [index EXCEPT ![mreq[p].man] = None]
  /\ MGoto(p, "removeBody")
  /\ UNCHANGED <<body, mtype, tag, tmp, orphan, acked, setting>>

RemoveBody(p) ==
  /\ mpc[p] = "removeBody"
  /\ body' = body \ {mreq[p].man}
  /\ IF mreq[p].man \in body THEN MGoto(p, "dropType") ELSE MReply(p)
  /\ UNCHANGED <<mtype, index, tag, tmp, orphan, acked, setting>>

DropType(p) ==
  /\ mpc[p] = "dropType"
  /\ mtype' = [mtype EXCEPT ![mreq[p].man] = None]
  /\ MReply(p)
  /\ UNCHANGED <<body, index, tag, tmp, orphan, acked, setting>>

\* A body that cannot be read skips the index, an entry that cannot be
\* removed is ignored, as is a media type; a body that cannot be removed
\* ends the request.
DeleteFails(p) ==
  /\ "fail" \in Faults
  /\ \/ mpc[p] \in {"findSubject", "dropReferrer"} /\ MGoto(p, "removeBody")
     \/ mpc[p] \in {"removeBody", "dropType", "removeTag"} /\ MReply(p)
  /\ UNCHANGED <<store, acked, setting>>

RemoveTag(p) ==
  /\ mpc[p] = "removeTag"
  /\ tag' = [tag EXCEPT ![mreq[p].ref] = None]
  /\ MReply(p)
  /\ UNCHANGED <<body, mtype, index, tmp, orphan, acked, setting>>

\* RemoveAll unlinks one file after the other, in no particular order.
RemoveOne(p) ==
  /\ mpc[p] = "removeAll"
  /\ \/ \E m \in body : body' = body \ {m} /\ UNCHANGED <<mtype, index, tag, tmp, orphan>>
     \/ \E m \in Manifest :
          \/ /\ mtype[m] # None
             /\ mtype' = [mtype EXCEPT ![m] = None]
             /\ UNCHANGED <<body, index, tag, tmp, orphan>>
          \/ /\ index[m] # None
             /\ index' = [index EXCEPT ![m] = None]
             /\ UNCHANGED <<body, mtype, tag, tmp, orphan>>
     \/ \E t \in Tag : /\ tag[t] # None
                       /\ tag' = [tag EXCEPT ![t] = None]
                       /\ UNCHANGED <<body, mtype, index, tmp, orphan>>
     \/ \E q \in tmp : tmp' = tmp \ {q} /\ UNCHANGED <<body, mtype, index, tag, orphan>>
     \/ orphan /\ orphan' = FALSE /\ UNCHANGED <<body, mtype, index, tag, tmp>>
  /\ UNCHANGED <<mpc, mreq, acked, setting>>

\* It ends when nothing is left, or fails: with an error of its own, or
\* because another request keeps filling the directories.
RemoveAllEnds(p) ==
  /\ mpc[p] = "removeAll"
  /\ \/ /\ body = {} /\ tmp = {} /\ ~orphan
        /\ \A m \in Manifest : mtype[m] = None /\ index[m] = None
        /\ \A t \in Tag : tag[t] = None
     \/ "fail" \in Faults
     \/ \E q \in Proc \ {p} : mpc[q] # "idle"
  /\ MReply(p)
  /\ UNCHANGED <<store, acked, setting>>
-----------------------------------------------------------------------------
(* Listings                                                                *)

\* Every file in tags/ is taken for a tag; None stands for the name of a
\* temporary file.
ListTags(p) ==
  /\ mpc[p] = "listTags"
  /\ mpc' = [mpc EXCEPT ![p] = "tagsListed"]
  /\ mreq' = [mreq EXCEPT ![p] =
        MReq(None, None, None,
             {t \in Tag : tag[t] # None}
               \cup (IF tmp # {} \/ orphan THEN {None} ELSE {}))]
  /\ UNCHANGED <<store, acked, setting>>

\* ListReferrers: the directory first (one getdents call, as long as its entries
\* fit in os.ReadDir's buffer), then the entries; one that is gone by then is
\* skipped.
ListReferrers(p) ==
  /\ mpc[p] = "listReferrers"
  /\ mpc' = [mpc EXCEPT ![p] = "readReferrers"]
  /\ mreq' = [mreq EXCEPT ![p] =
        MReq(@.man, None, None,
             {m \in Manifest : Subject[m] = @.man /\ index[m] # None})]
  /\ UNCHANGED <<store, acked, setting>>

ReadReferrers(p) ==
  /\ mpc[p] = "readReferrers"
  /\ mpc' = [mpc EXCEPT ![p] = "referrersListed"]
  /\ mreq' = [mreq EXCEPT ![p] =
        MReq(@.man, None, None, {m \in @.names : index[m] # None})]
  /\ UNCHANGED <<store, acked, setting>>

\* A tag, a body or a directory that cannot be read is a 500; a media type that
\* cannot be is left out, and so is an entry of a listing.
ReadFails(p) ==
  /\ "fail" \in Faults
  /\ \/ mpc[p] \in {"readTag", "readBody", "listTags", "listReferrers"} /\ MReply(p)
     \/ /\ mpc[p] = "readType"
        /\ mpc' = [mpc EXCEPT ![p] = "served"]
        /\ mreq' = [mreq EXCEPT ![p] = MReq(@.man, @.ref, None, {})]
     \/ /\ mpc[p] = "readReferrers"
        /\ mpc' = [mpc EXCEPT ![p] = "referrersListed"]
        /\ \E n \in SUBSET {m \in mreq[p].names : index[m] # None} :
             mreq' = [mreq EXCEPT ![p] = MReq(@.man, None, None, n)]
  /\ UNCHANGED <<store, acked, setting>>

Answer(p) ==
  /\ mpc[p] \in {"served", "tagsListed", "referrersListed"}
  /\ MReply(p)
  /\ UNCHANGED <<store, acked, setting>>
-----------------------------------------------------------------------------
MCrash ==
  /\ "crash" \in Faults
  /\ mpc' = [p \in Proc |-> "idle"]
  /\ mreq' = [p \in Proc |-> NoMRequest]
  /\ orphan' = (orphan \/ tmp # {})
  /\ tmp' = {}
  /\ UNCHANGED <<body, mtype, index, tag, acked, setting>>

MHandle(p) ==
  \/ WriteBody(p) \/ WriteType(p) \/ WriteReferrer(p) \/ TmpTag(p)
  \/ RenameTag(p) \/ PutFails(p)
  \/ ReadTag(p) \/ ReadBody(p) \/ ReadType(p)
  \/ FindSubject(p) \/ DropReferrer(p) \/ RemoveBody(p) \/ DropType(p)
  \/ DeleteFails(p) \/ RemoveTag(p) \/ RemoveOne(p) \/ RemoveAllEnds(p)
  \/ ListTags(p) \/ ListReferrers(p) \/ ReadReferrers(p) \/ ReadFails(p) \/ Answer(p)

MNext ==
  \/ \E p \in Proc : MHandle(p) \/ BeginOther(p)
  \/ \E p \in Proc, m \in Manifest : BeginPut(p, m)
  \/ MCrash

MSpec == MInit /\ [][MNext]_mvars
-----------------------------------------------------------------------------
(* Properties                                                              *)

MTypeOK ==
  /\ body \in SUBSET Manifest
  /\ mtype \in [Manifest -> MediaType \cup {None}]
  /\ index \in [Manifest -> MediaType \cup {None}]
  /\ tag \in [Tag -> Manifest \cup {None}]
  /\ tmp \in SUBSET Proc
  /\ orphan \in BOOLEAN
  /\ mpc \in [Proc -> MPC]
  /\ mreq \in [Proc -> MRequest]
  /\ acked \in SUBSET Manifest
  /\ setting \in Settings

\* Everything GetManifest and ListReferrers need to serve m is on disk.
Complete(m) ==
  /\ m \in body
  /\ mtype[m] # None
  /\ Subject[m] # None => index[m] # None

Deleting == Traffic \cap {"delete", "drop"} # {}

\* The order of PutManifest's writes: as long as nobody deletes, whatever a
\* tag names can be pulled with its media type and is in the referrers index,
\* through crashes and failing writes at any point.
TagsNameCompleteManifests ==
  ~Deleting => \A t \in Tag : tag[t] # None => Complete(tag[t])

\* A 201 (and the OCI-Subject header that tells the client the index was
\* updated) is sent only for a manifest that is complete, and it stays so.
AckedStaysComplete == ~Deleting => \A m \in acked : Complete(m)

\* What the request of p has been promised of the store so far, see ManifestStore.
Seeing(o, s, told) == [of |-> o, seen |-> s, told |-> told]

Sight(p) ==
  CASE mpc[p] \in {"readBody", "readType"} /\ mreq[p].ref \in Tag ->
         Seeing(mreq[p].ref, {mreq[p].man}, FALSE)
    [] mpc[p] = "served" /\ mreq[p].ref \in Tag /\ mreq[p].type # None ->
         Seeing(mreq[p].ref, {mreq[p].man}, TRUE)
    [] mpc[p] = "readReferrers" -> Seeing(mreq[p].man, mreq[p].names, FALSE)
    [] mpc[p] = "referrersListed" -> Seeing(mreq[p].man, mreq[p].names, TRUE)
    [] OTHER -> None

visible == {m \in Manifest : Complete(m)}
sights == [p \in Proc |-> Sight(p)]
promises == [deletes |-> Deleting, crashes |-> "crash" \in Faults,
             fails |-> "fail" \in Faults]

Abstract == INSTANCE ManifestStore WITH
  Client <- Proc, stored <- visible, tags <- tag, promised <- acked, reads <- sights,
  mode <- promises

\* While nobody deletes, every request looks like one step, whatever overlaps,
\* fails or crashes: PutManifest's files appear at once; a pull by tag is
\* served, with a media type it was pushed with, the manifest that the tag named
\* at one moment of the call, never a 404 or the handler's default type, though
\* it is read in three steps; a referrers listing is the index at one moment,
\* though entries are read one by one.  Files that cannot be read leave a client
\* with less, or nothing.  (A pull by digest is not in it: it may come between the
\* body of a push and its type.)
ImplementsManifestStore == Abstract!Spec

\* What handleReferrers promises: a manifest with a subject is stored if and
\* only if its entry is in the referrers index, whenever nobody is at work and
\* requests never overlapped.  (PutManifest and DeleteManifest each update both
\* without a lock: a push and a delete that overlap can leave one of the two.)
IndexMatchesStore ==
  Alone /\ Faults = {} /\ (\A p \in Proc : mpc[p] = "idle") =>
    \A m \in Manifest :
      Subject[m] # None => (index[m] # None <=> m \in body)
=============================================================================
