------------------------------ MODULE Uploads ------------------------------
(***************************************************************************)
(* Resumable blob uploads: internal/store/store.go (sessions and blobs)    *)
(* driven by the upload and blob handlers of internal/server/registry.go.  *)
(*                                                                         *)
(* A handler is a goroutine p of Proc that serves one request at a time.   *)
(* A session id stands for the upload file with that name AND for its      *)
(* inode: rename moves the inode from uploads/<id> to blobs/<digest>, so a *)
(* handler that still holds the file open would go on writing to the blob. *)
(*                                                                         *)
(* Bytes are abstract, the running SHA-256 is the sequence of bytes fed to *)
(* it, and Hash turns such a sequence into a digest.                       *)
(***************************************************************************)
EXTENDS Naturals, Sequences

CONSTANTS Proc,         \* handler goroutines
          Id,           \* names randomID can produce; one per session ever started
          Stripe,       \* the mutexes of Store.uploadLocks
          StripeOf,     \* session id -> stripe
          Byte,
          Bodies,       \* request bodies clients send
          Digest,
          Hash(_),
          MaxSize,      \* bound: a file cannot grow beyond this (disk full)
          None

ASSUME ConstantsAssumption ==
  /\ StripeOf \in [Id -> Stripe]
  /\ Bodies \subseteq Seq(Byte)
  /\ MaxSize \in Nat
  /\ None \notin Id /\ None \notin Digest /\ None \notin Proc

VARIABLES
  content,    \* bytes of each inode
  created,    \* ids that StartUpload has ever used
  sessions,   \* ids whose file uploads/<id> exists
  known,      \* ids a client was told in a Location header
  sidecar,    \* uploads/<id>.sha256: saved size and hash state, or None
  blob,       \* inode named by blobs/sha256/<digest>, or None
  lock,       \* holder of each stripe, or None
  pc,         \* where each handler is
  req,        \* the request it serves
  hash,       \* the running hash of the store call it is in
  tmp,        \* writeFileAtomic's temporary file of each handler, or None
  strays,     \* ids whose sidecar has left a uploads/.tmp-* that nobody holds
  leaked      \* history: ids whose files a crash, a failed remove or a failed
              \* rename left behind

disk == <<content, created, sessions, sidecar, blob, tmp, strays>>
vars == <<content, created, sessions, known, sidecar, blob,
          lock, pc, req, hash, tmp, strays, leaked>>

Ops == {"none", "post", "mono", "patch", "put", "delete", "get"}

\* Between mu.Lock() and the deferred unlock of one store call.
Locked == {"openAppend", "copy", "saveDigest", "saveRename", "checkDigest",
           "rename", "dropAfterRename", "removeFile", "dropAfterRemove"}
Waiting == {"lockAppend", "lockFinalize", "lockAbort"}
\* In writeFileAtomic, between creating the temporary file and its rename.
Renaming == {"seedRename", "saveRename"}
PC == {"idle", "create", "seedDigest", "seedRename", "openBlob", "send"}
        \cup Waiting \cup Locked

Request == [op : Ops, id : Id \cup {None}, body : Seq(Byte),
            digest : Digest \cup {None}]
Req(o, i, b, d) == [op |-> o, id |-> i, body |-> b, digest |-> d]
WithId(r, i) == Req(r.op, i, r.body, r.digest)
WithBody(r, b) == Req(r.op, r.id, b, r.digest)
NoRequest == Req("none", None, <<>>, None)

Sidecar == [size : Nat, state : Seq(Byte)]

Init ==
  /\ content = [i \in Id |-> <<>>]
  /\ created = {}
  /\ sessions = {}
  /\ known = {}
  /\ sidecar = [i \in Id |-> None]
  /\ blob = [d \in Digest |-> None]
  /\ lock = [s \in Stripe |-> None]
  /\ pc = [p \in Proc |-> "idle"]
  /\ req = [p \in Proc |-> NoRequest]
  /\ hash = [p \in Proc |-> <<>>]
  /\ tmp = [p \in Proc |-> None]
  /\ strays = {}
  /\ leaked = {}
-----------------------------------------------------------------------------
(* Requests arriving at an idle handler.                                   *)

Arrive(p, r, l) ==
  /\ pc[p] = "idle"
  /\ req' = [req EXCEPT ![p] = r]
  /\ pc' = [pc EXCEPT ![p] = l]
  /\ UNCHANGED <<disk, known, lock, hash, leaked>>

\* POST without a body starts a session, with ?digest= and a body it is a
\* monolithic upload.
RecvStart(p) ==
  \/ Arrive(p, Req("post", None, <<>>, None), "create")
  \/ \E b \in Bodies, d \in Digest :
       Arrive(p, Req("mono", None, b, d), "create")

RecvPatch(p) ==
  \E i \in known, b \in Bodies :
    Arrive(p, Req("patch", i, b, None), "lockAppend")

\* A PUT appends only a body of known, positive length; otherwise it goes
\* straight to FinalizeUpload.
RecvPut(p) ==
  \E i \in known, d \in Digest :
    \/ Arrive(p, Req("put", i, <<>>, d), "lockFinalize")
    \/ \E b \in Bodies \ {<<>>} : Arrive(p, Req("put", i, b, d), "lockAppend")

RecvAbort(p) ==
  \E i \in known : Arrive(p, Req("delete", i, <<>>, None), "lockAbort")

RecvGet(p) ==
  \E d \in Digest : Arrive(p, Req("get", None, <<>>, d), "openBlob")
-----------------------------------------------------------------------------
(* Control flow of the handlers: where a request goes when a store call    *)
(* returns.  "idle" is the reply.                                          *)

AfterAppend(p, ok) ==
  IF ok /\ req[p].op \in {"mono", "put"} THEN "lockFinalize"
  ELSE IF ~ok /\ req[p].op = "mono" THEN "lockAbort"
  ELSE "idle"

\* Mutation: a monolithic upload with a wrong digest is not aborted.
AfterFinalizeNoAbort(p, ok) == "idle"

AfterFinalize(p, ok) ==
  IF req[p].op = "mono" /\ ~ok THEN "lockAbort" ELSE "idle"

\* The handler moves on to l; replying ends the request.
Proceed(p, l) ==
  /\ pc' = [pc EXCEPT ![p] = l]
  /\ req' = [req EXCEPT ![p] = IF l = "idle" THEN NoRequest ELSE @]
  /\ hash' = [hash EXCEPT ![p] = <<>>]

\* A store call that holds its stripe returns: the deferred unlock runs.
Return(p, l) ==
  /\ Proceed(p, l)
  /\ lock' = [lock EXCEPT ![StripeOf[req[p].id]] = None]

Step(p, l) ==
  /\ pc' = [pc EXCEPT ![p] = l]
  /\ UNCHANGED <<req, lock>>
-----------------------------------------------------------------------------
(* StartUpload                                                             *)

Create(p) ==
  /\ pc[p] = "create"
  /\ \E i \in Id \ created :
       /\ created' = created \cup {i}
       /\ sessions' = sessions \cup {i}
       /\ req' = [req EXCEPT ![p] = WithId(@, i)]
  /\ pc' = [pc EXCEPT ![p] = "seedDigest"]
  /\ UNCHANGED <<content, known, sidecar, blob, tmp, strays, lock, hash, leaked>>

\* writeFileAtomic: the new sidecar goes to a temporary file first.
WriteTmp(p, c, l) ==
  /\ tmp' = [tmp EXCEPT ![p] = c]
  /\ Step(p, l)
  /\ UNCHANGED <<content, created, sessions, known, sidecar, blob, strays,
                 hash, leaked>>

\* Its rename replaces the sidecar.
RenameTmp(p) ==
  /\ sidecar' = [sidecar EXCEPT ![req[p].id] = tmp[p]]
  /\ tmp' = [tmp EXCEPT ![p] = None]

\* It fails.  Before the rename the temporary file is removed again, as far as
\* that works; after a failing rename nobody removes it.
TmpGone(p, kept) ==
  /\ pc[p] \in Renaming => kept
  /\ tmp' = [tmp EXCEPT ![p] = None]
  /\ strays' = IF kept THEN strays \cup {req[p].id} ELSE strays

\* The sidecar of the empty file.
SeedDigest(p) ==
  /\ pc[p] = "seedDigest"
  /\ WriteTmp(p, [size |-> 0, state |-> <<>>], "seedRename")

\* It is in place: the reply (POST) or the append (mono).
SeedRename(p) ==
  /\ pc[p] = "seedRename"
  /\ RenameTmp(p)
  /\ IF req[p].op = "mono"
       THEN Proceed(p, "lockAppend") /\ UNCHANGED known
       ELSE Proceed(p, "idle") /\ known' = known \cup {req[p].id}
  /\ UNCHANGED <<content, created, sessions, blob, strays, lock, leaked>>

\* saveUploadDigest failed: the upload file is removed again, if that does not
\* fail too, and the reply is 500.
SeedFails(p) ==
  /\ pc[p] \in {"seedDigest", "seedRename"}
  /\ \E kept, tmpKept \in BOOLEAN :
       /\ TmpGone(p, tmpKept)
       /\ sessions' = IF kept THEN sessions ELSE sessions \ {req[p].id}
       /\ leaked' = IF kept \/ tmpKept THEN leaked \cup {req[p].id} ELSE leaked
  /\ Proceed(p, "idle")
  /\ UNCHANGED <<content, created, known, sidecar, blob, lock>>

\* Mutation: the error of StartUpload is dropped and a Location is answered.
CreateFailsUnnoticed(p) ==
  /\ pc[p] = "create"
  /\ known' = known \cup {req[p].id}
  /\ Proceed(p, "idle")
  /\ UNCHANGED <<disk, lock, leaked>>

CreateFails(p) ==
  /\ pc[p] = "create"
  /\ Proceed(p, "idle")
  /\ UNCHANGED <<disk, known, lock, leaked>>
-----------------------------------------------------------------------------
(* lockUpload                                                              *)

EnterPC(l) == IF l = "lockAppend" THEN "openAppend"
              ELSE IF l = "lockFinalize" THEN "checkDigest" ELSE "removeFile"

\* Mutation: store calls on one session do not exclude each other.
LockNothing(p) ==
  /\ pc[p] \in Waiting
  /\ lock' = [lock EXCEPT ![StripeOf[req[p].id]] = p]
  /\ pc' = [pc EXCEPT ![p] = EnterPC(pc[p])]
  /\ UNCHANGED <<disk, known, req, hash, leaked>>

Lock(p) ==
  /\ pc[p] \in Waiting
  /\ lock[StripeOf[req[p].id]] = None
  /\ lock' = [lock EXCEPT ![StripeOf[req[p].id]] = p]
  /\ pc' = [pc EXCEPT ![p] = EnterPC(pc[p])]
  /\ UNCHANGED <<disk, known, req, hash, leaked>>

\* Mutation: a sidecar is trusted whatever size the file has.
RestoredBlindly(i) ==
  IF sidecar[i] # None THEN sidecar[i].state ELSE content[i]

\* uploadDigest: the saved state if it was saved at this very size, else one
\* full read of the file.
Restored(i) ==
  IF sidecar[i] # None /\ sidecar[i].size = Len(content[i])
    THEN sidecar[i].state
    ELSE content[i]
-----------------------------------------------------------------------------
(* AppendUpload                                                            *)

OpenAppend(p) ==
  /\ pc[p] = "openAppend"
  /\ IF req[p].id \in sessions
       THEN /\ Step(p, "copy")
            /\ hash' = [hash EXCEPT ![p] = Restored(req[p].id)]
       ELSE Return(p, AfterAppend(p, FALSE))
  /\ UNCHANGED <<disk, known, leaked>>

\* io.Copy through the MultiWriter: the file first, then the hash.  The body
\* arrives from the client while the stripe is held.
CopyByte(p) ==
  /\ pc[p] = "copy"
  /\ req[p].body # <<>>
  /\ Len(content[req[p].id]) < MaxSize
  /\ content' = [content EXCEPT ![req[p].id] = Append(@, Head(req[p].body))]
  /\ hash' = [hash EXCEPT ![p] = Append(@, Head(req[p].body))]
  /\ req' = [req EXCEPT ![p] = WithBody(@, Tail(@.body))]
  /\ UNCHANGED <<created, sessions, known, sidecar, blob, tmp, strays, lock, pc,
                 leaked>>

CopyDone(p) ==
  /\ pc[p] = "copy"
  /\ req[p].body = <<>>
  /\ Step(p, "saveDigest")
  /\ UNCHANGED <<disk, known, hash, leaked>>

\* A short write: bytes reached the file, the hash never saw them, and the
\* sidecar still describes the file as it was before the call.
CopyBreaks(p) ==
  /\ pc[p] = "copy"
  /\ req[p].body # <<>>
  /\ Len(content[req[p].id]) < MaxSize
  /\ content' = [content EXCEPT ![req[p].id] = Append(@, Head(req[p].body))]
  /\ Return(p, AfterAppend(p, FALSE))
  /\ UNCHANGED <<created, sessions, known, sidecar, blob, tmp, strays, leaked>>

SaveDigest(p) ==
  /\ pc[p] = "saveDigest"
  /\ WriteTmp(p, [size |-> Len(content[req[p].id]), state |-> hash[p]], "saveRename")

SaveRename(p) ==
  /\ pc[p] = "saveRename"
  /\ RenameTmp(p)
  /\ Return(p, AfterAppend(p, TRUE))
  /\ UNCHANGED <<content, created, sessions, known, blob, strays, leaked>>

\* saveUploadDigest fails and its temporary file stays.
SaveFails(p) ==
  /\ pc[p] \in {"saveDigest", "saveRename"}
  /\ TmpGone(p, TRUE)
  /\ leaked' = leaked \cup {req[p].id}
  /\ Return(p, AfterAppend(p, FALSE))
  /\ UNCHANGED <<content, created, sessions, known, sidecar, blob>>

\* Mutation: an early return of AppendUpload forgets the unlock.
AppendFailsLocked(p) ==
  /\ pc[p] \in {"openAppend", "copy", "saveDigest"}
  /\ Proceed(p, AfterAppend(p, FALSE))
  /\ UNCHANGED <<disk, known, lock, leaked>>

\* Any other error of the append: stat, read, the client hanging up in the
\* middle of the body, a temporary file that is not written and is removed.
AppendFails(p) ==
  /\ pc[p] \in {"openAppend", "copy", "saveDigest"}
  /\ Return(p, AfterAppend(p, FALSE))
  /\ UNCHANGED <<disk, known, leaked>>
-----------------------------------------------------------------------------
(* FinalizeUpload                                                          *)

\* Mutation: the digest of the file is not compared with the client's.
CheckDigestNever(p) ==
  /\ pc[p] = "checkDigest"
  /\ IF req[p].id \in sessions
       THEN Step(p, "rename") /\ UNCHANGED hash
       ELSE Return(p, AfterFinalize(p, FALSE))
  /\ UNCHANGED <<disk, known, leaked>>

CheckDigest(p) ==
  /\ pc[p] = "checkDigest"
  /\ LET i == req[p].id IN
       IF i \in sessions /\ Hash(Restored(i)) = req[p].digest
         THEN Step(p, "rename") /\ UNCHANGED hash
         ELSE Return(p, AfterFinalize(p, FALSE))
  /\ UNCHANGED <<disk, known, leaked>>

\* Mutation: the blob is a hard link and the session stays open.
RenameByLink(p) ==
  /\ pc[p] = "rename"
  /\ blob' = [blob EXCEPT ![req[p].digest] = req[p].id]
  /\ Step(p, "dropAfterRename")
  /\ UNCHANGED <<content, created, sessions, known, sidecar, tmp, strays, hash,
                 leaked>>

Rename(p) ==
  /\ pc[p] = "rename"
  /\ sessions' = sessions \ {req[p].id}
  /\ blob' = [blob EXCEPT ![req[p].digest] = req[p].id]
  /\ Step(p, "dropAfterRename")
  /\ UNCHANGED <<content, created, known, sidecar, tmp, strays, hash, leaked>>

FinalizeFails(p) ==
  /\ pc[p] \in {"checkDigest", "rename"}
  /\ Return(p, AfterFinalize(p, FALSE))
  /\ UNCHANGED <<disk, known, leaked>>

\* Removing the sidecar, whose error is ignored by both callers.
DropSidecar(p) ==
  /\ pc[p] \in {"dropAfterRename", "dropAfterRemove"}
  /\ \/ /\ sidecar' = [sidecar EXCEPT ![req[p].id] = None]
        /\ UNCHANGED leaked
     \/ /\ leaked' = leaked \cup {req[p].id}
        /\ UNCHANGED sidecar
  /\ Return(p, "idle")
  /\ UNCHANGED <<content, created, sessions, known, blob, tmp, strays>>
-----------------------------------------------------------------------------
(* AbortUpload                                                             *)

RemoveFile(p) ==
  /\ pc[p] = "removeFile"
  /\ IF req[p].id \in sessions
       THEN /\ Step(p, "dropAfterRemove")
            /\ sessions' = sessions \ {req[p].id}
            /\ UNCHANGED hash
       ELSE /\ Return(p, "idle")
            /\ UNCHANGED sessions
  /\ UNCHANGED <<content, created, known, sidecar, blob, tmp, strays, leaked>>

\* Any error but "does not exist" still drops the sidecar.
RemoveFails(p) ==
  /\ pc[p] = "removeFile"
  /\ req[p].id \in sessions
  /\ leaked' = leaked \cup {req[p].id}
  /\ Step(p, "dropAfterRemove")
  /\ UNCHANGED <<disk, known, hash>>
-----------------------------------------------------------------------------
(* Blobs                                                                   *)

OpenBlob(p) ==
  /\ pc[p] = "openBlob"
  /\ IF blob[req[p].digest] = None
       THEN Proceed(p, "idle")
       ELSE /\ req' = [req EXCEPT ![p] = WithId(@, blob[@.digest])]
            /\ pc' = [pc EXCEPT ![p] = "send"]
            /\ UNCHANGED hash
  /\ UNCHANGED <<disk, known, lock, leaked>>

Send(p) ==
  /\ pc[p] = "send"
  /\ Proceed(p, "idle")
  /\ UNCHANGED <<disk, known, lock, leaked>>

\* DELETE of a blob, and the sweep of the garbage collector.
DeleteBlob(d) ==
  /\ blob[d] # None
  /\ blob' = [blob EXCEPT ![d] = None]
  /\ UNCHANGED <<content, created, sessions, known, sidecar, lock, pc, req,
                 hash, tmp, strays, leaked>>
-----------------------------------------------------------------------------
\* The process dies and is restarted on the same data directory: files stay,
\* handlers and locks are gone.  Files that only the dead handlers knew of
\* are never looked at again, nor are their temporary files.
Crash ==
  /\ pc' = [p \in Proc |-> "idle"]
  /\ req' = [p \in Proc |-> NoRequest]
  /\ hash' = [p \in Proc |-> <<>>]
  /\ lock' = [s \in Stripe |-> None]
  /\ tmp' = [p \in Proc |-> None]
  /\ strays' = strays \cup {req[p].id : p \in {q \in Proc : pc[q] \in Renaming}}
  /\ leaked' = leaked \cup
       {i \in created : \E p \in Proc :
          /\ req[p].id = i
          /\ \/ req[p].op \in {"post", "mono"}
             \/ pc[p] \in {"dropAfterRename", "dropAfterRemove"} \cup Renaming}
  /\ UNCHANGED <<content, created, sessions, known, sidecar, blob>>

Receive(p) == RecvStart(p) \/ RecvPatch(p) \/ RecvPut(p) \/ RecvAbort(p) \/ RecvGet(p)

Handle(p) ==
  \/ Create(p) \/ SeedDigest(p) \/ SeedRename(p) \/ SeedFails(p) \/ CreateFails(p)
  \/ OpenAppend(p) \/ CopyByte(p) \/ CopyDone(p) \/ CopyBreaks(p)
  \/ SaveDigest(p) \/ SaveRename(p) \/ SaveFails(p) \/ AppendFails(p)
  \/ CheckDigest(p) \/ Rename(p) \/ FinalizeFails(p) \/ DropSidecar(p)
  \/ RemoveFile(p) \/ RemoveFails(p)
  \/ OpenBlob(p) \/ Send(p)

Next ==
  \/ \E p \in Proc : Receive(p) \/ Lock(p) \/ Handle(p)
  \/ \E d \in Digest : DeleteBlob(d)
  \/ Crash

Spec == Init /\ [][Next]_vars

(***************************************************************************)
(* Fairness: a runnable goroutine is scheduled, and sync.Mutex hands the   *)
(* lock to a waiter that keeps failing to get it (its starvation mode), so *)
(* Lock is strongly fair.  Handle includes CopyByte: that a client goes on *)
(* sending or hangs up is assumed, the server itself sets no read timeout. *)
(***************************************************************************)
Fairness == \A p \in Proc : WF_vars(Handle(p)) /\ SF_vars(Lock(p))

FairSpec == Spec /\ Fairness
-----------------------------------------------------------------------------
(* Properties                                                              *)

TypeOK ==
  /\ content \in [Id -> Seq(Byte)]
  /\ created \in SUBSET Id
  /\ sessions \in SUBSET created
  /\ known \in SUBSET created
  /\ sidecar \in [Id -> Sidecar \cup {None}]
  /\ blob \in [Digest -> created \cup {None}]
  /\ lock \in [Stripe -> Proc \cup {None}]
  /\ pc \in [Proc -> PC]
  /\ req \in [Proc -> Request]
  /\ hash \in [Proc -> Seq(Byte)]
  /\ tmp \in [Proc -> Sidecar \cup {None}]
  /\ strays \in SUBSET created
  /\ leaked \in SUBSET created

\* Content addressing (FinalizeUpload): the bytes stored under a digest hash
\* to that digest, whatever retries, overlapping appends, short writes and
\* restarts came before the rename, and whoever still had the file open.
BlobIntegrity ==
  \A d \in Digest : blob[d] # None => Hash(content[blob[d]]) = d

\* The incremental digest (uploadDigest, saveUploadDigest): a sidecar that
\* claims the file's present size holds the state of exactly its bytes, so
\* trusting it instead of re-reading the file is right, after a crash too.
SidecarSound ==
  \A i \in Id :
    sidecar[i] # None /\ sidecar[i].size = Len(content[i])
      => sidecar[i].state = content[i]

\* A GET that has opened a blob sends bytes of the digest it was asked for to
\* the end, although the blob may be deleted, replaced or collected meanwhile.
GetServesDigest ==
  \A p \in Proc : pc[p] = "send" => Hash(content[req[p].id]) = req[p].digest

\* Cleaning up (handleUploadStart's aborts, StartUpload's remove,
\* writeFileAtomic's removes): a file left in uploads/, the temporary file of a
\* sidecar included, belongs to a session some client can resume or to a request
\* still running; only a crash, a failing remove or a failing rename of a
\* temporary file leaves others.
OnlyCrashLeaks ==
  \A i \in created \ leaked :
    /\ i \notin strays
    /\ \/ i \in known /\ i \in sessions
       \/ i \notin sessions /\ sidecar[i] = None
       \/ \E p \in Proc : pc[p] # "idle" /\ req[p].id = i

\* AppendUpload writes only to open sessions: the bytes of a file that was
\* finalized or aborted never change again.
ClosedNeverWritten ==
  [][\A i \in created \ sessions : content'[i] = content[i]]_vars

\* Every request is answered: no handler waits for a stripe forever.
RequestsAnswered == \A p \in Proc : pc[p] # "idle" ~> pc[p] = "idle"

\* The store implements the abstract content store: sessions close once, grow
\* only while open, and become a blob only under their own digest.
status == [i \in Id |-> IF i \notin created THEN "unused"
                        ELSE IF i \in sessions THEN "open" ELSE "closed"]
blobs == [d \in Digest |-> IF blob[d] = None THEN None ELSE content[blob[d]]]

Abstract == INSTANCE ContentStore WITH data <- content

ImplementsContentStore == Abstract!Spec
=============================================================================
