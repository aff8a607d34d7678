--------------------------- MODULE UploadsProofs ---------------------------
(* Theorems about Uploads, for every set of handlers, sessions and bodies. *)
EXTENDS Uploads, TLAPS

(***************************************************************************)
(* The inductive invariant.                                                *)
(***************************************************************************)

\* Where a handler has a session or an inode in its hands.
HasId == Waiting \cup Locked \cup {"seedDigest", "seedRename", "send"}

RequestInv ==
  \A p \in Proc :
    /\ req[p].id \in created \cup {None}
    /\ pc[p] \in HasId => req[p].id \in created
    /\ pc[p] = "openBlob" => req[p].digest \in Digest

\* Inside a store call the handler is the holder of its session's stripe.
LockInv ==
  \A p \in Proc : pc[p] \in Locked => lock[StripeOf[req[p].id]] = p

\* A session that is being started is nobody else's.
Seeding == {"seedDigest", "seedRename"}
PrivateOK(p) ==
  pc[p] \in Seeding =>
    /\ req[p].id \in sessions
    /\ req[p].id \notin known
    /\ \A q \in Proc : pc[q] \in HasId /\ req[q].id = req[p].id => q = p
PrivateInv == \A p \in Proc : PrivateOK(p)

\* The running hash has seen exactly the bytes of the open file, and so has a
\* sidecar about to be renamed into place.
HashOK(p) ==
  /\ pc[p] \in {"copy", "saveDigest"} =>
       req[p].id \in sessions /\ hash[p] = content[req[p].id]
  /\ pc[p] = "saveRename" =>
       /\ req[p].id \in sessions
       /\ tmp[p] = [size |-> Len(content[req[p].id]), state |-> content[req[p].id]]
  /\ pc[p] = "seedRename" => tmp[p] = [size |-> 0, state |-> <<>>]
  /\ pc[p] = "rename" =>
       req[p].id \in sessions /\ Hash(content[req[p].id]) = req[p].digest
HashInv == \A p \in Proc : HashOK(p)

\* A sidecar never runs ahead of its file.
SidecarOK(i) ==
  sidecar[i] # None =>
    /\ sidecar[i].size <= Len(content[i])
    /\ sidecar[i].size = Len(content[i]) => sidecar[i].state = content[i]
SidecarInv == \A i \in Id : SidecarOK(i)

\* Inodes that blobs or readers refer to are closed.
BlobOK(d) ==
  blob[d] # None => blob[d] \notin sessions /\ Hash(content[blob[d]]) = d
BlobInv == \A d \in Digest : BlobOK(d)
SendOK(p) ==
  pc[p] = "send" =>
    req[p].id \notin sessions /\ Hash(content[req[p].id]) = req[p].digest
SendInv == \A p \in Proc : SendOK(p)

Typed == TypeOK /\ RequestInv
IInv ==
  /\ Typed /\ LockInv /\ PrivateInv /\ HashInv
  /\ SidecarInv /\ BlobInv /\ SendInv

-----------------------------------------------------------------------------
LEMMA NoRequestType == NoRequest \in Request
  BY DEF NoRequest, Req, Request, Ops

\* Updating one field of a request.
LEMMA RequestUpdate ==
  ASSUME NEW r \in Request
  PROVE  /\ \A i \in Id : /\ WithId(r, i) \in Request
                          /\ WithId(r, i).id = i
                          /\ WithId(r, i).digest = r.digest
         /\ r.body # <<>> => /\ WithBody(r, Tail(r.body)) \in Request
                             /\ WithBody(r, Tail(r.body)).id = r.id
                             /\ WithBody(r, Tail(r.body)).digest = r.digest
  BY DEF Request, WithId, WithBody, Req

\* One handler moves to l with request r.
LEMMA MoveTyped ==
  ASSUME Typed, NEW p \in Proc, NEW r \in Request, NEW l \in PC,
         req' = [req EXCEPT ![p] = r], pc' = [pc EXCEPT ![p] = l],
         created \subseteq created',
         r.id \in created' \cup {None},
         l \in HasId => r.id \in created',
         l = "openBlob" => r.digest \in Digest
  PROVE  RequestInv' /\ req' \in [Proc -> Request] /\ pc' \in [Proc -> PC]
  BY DEF Typed, TypeOK, RequestInv

\* Every label a handler can proceed to is either the reply or a wait for a
\* stripe, and its request still has its session.
LEMMA ProceedTyped ==
  ASSUME Typed, NEW p \in Proc, NEW l \in Waiting \cup {"idle"}, Proceed(p, l),
         created' = created, l # "idle" => req[p].id \in created
  PROVE  /\ RequestInv' /\ req' \in [Proc -> Request] /\ pc' \in [Proc -> PC]
         /\ hash' \in [Proc -> Seq(Byte)]
<1> DEFINE r == IF l = "idle" THEN NoRequest ELSE req[p]
<1>1. r \in Request /\ r.id \in created \cup {None} /\ (l # "idle" => r.id \in created)
  BY NoRequestType DEF Typed, TypeOK, RequestInv, NoRequest, Req
<1>2. l \in PC /\ l # "openBlob" /\ (l = "idle" => l \notin HasId)
  BY DEF PC, Waiting, HasId, Locked
<1>3. req' = [req EXCEPT ![p] = r] /\ pc' = [pc EXCEPT ![p] = l]
  BY DEF Proceed, Typed, TypeOK
<1>4. hash' \in [Proc -> Seq(Byte)]
  BY DEF Proceed, Typed, TypeOK
<1> HIDE DEF r
<1> QED
  BY <1>1, <1>2, <1>3, <1>4, MoveTyped

LEMMA AfterTyped ==
  ASSUME NEW p \in Proc, NEW ok \in BOOLEAN
  PROVE  /\ AfterAppend(p, ok) \in Waiting \cup {"idle"}
         /\ AfterFinalize(p, ok) \in Waiting \cup {"idle"}
  BY DEF AfterAppend, AfterFinalize, Waiting

\* A locked handler returns from its store call.
LEMMA ReturnTyped ==
  ASSUME Typed, NEW p \in Proc, NEW l \in Waiting \cup {"idle"}, Return(p, l),
         created' = created, pc[p] \in Locked
  PROVE  /\ RequestInv' /\ req' \in [Proc -> Request] /\ pc' \in [Proc -> PC]
         /\ hash' \in [Proc -> Seq(Byte)] /\ lock' \in [Stripe -> Proc \cup {None}]
<1>1. req[p].id \in created
  BY DEF Typed, RequestInv, HasId
<1> QED
  BY <1>1, ProceedTyped DEF Return, Typed, TypeOK

\* A locked handler takes its next step inside the store call.
LEMMA StepTyped ==
  ASSUME Typed, NEW p \in Proc, NEW l \in Locked, Step(p, l),
         created' = created, pc[p] \in Locked
  PROVE  /\ RequestInv' /\ req' \in [Proc -> Request] /\ pc' \in [Proc -> PC]
         /\ lock' \in [Stripe -> Proc \cup {None}]
<1>1. l \in PC /\ l # "openBlob"
  BY DEF PC, Locked
<1>2. req[p] \in Request /\ req[p].id \in created /\ req' = [req EXCEPT ![p] = req[p]]
  BY DEF Typed, TypeOK, RequestInv, HasId, Step
<1> QED
  BY <1>1, <1>2, MoveTyped DEF Step, Typed, TypeOK

\* A request arrives at a handler.
LEMMA ArriveTyped ==
  ASSUME Typed, NEW p \in Proc, NEW r \in Request, NEW l \in PC, Arrive(p, r, l),
         r.id \in known \cup {None},
         l \in HasId => r.id # None,
         l = "openBlob" => r.digest \in Digest
  PROVE  Typed'
<1>1. RequestInv' /\ req' \in [Proc -> Request] /\ pc' \in [Proc -> PC]
  BY MoveTyped DEF Arrive, disk, Typed, TypeOK
<1> QED
  BY <1>1 DEF Arrive, disk, Typed, TypeOK

LEMMA ReceiveTyped == ASSUME Typed, NEW p \in Proc, Receive(p) PROVE Typed'
<1>1. <<>> \in Seq(Byte) /\ Bodies \subseteq Seq(Byte) /\ known \subseteq Id /\ None \notin Id
  BY ConstantsAssumption DEF Typed, TypeOK
<1>2. /\ {"create", "openBlob", "lockAppend", "lockFinalize", "lockAbort"} \subseteq PC
      /\ "create" \notin HasId /\ "openBlob" \notin HasId
  BY DEF PC, HasId, Waiting, Locked
<1>3. CASE RecvStart(p)
  <2>1. CASE Arrive(p, Req("post", None, <<>>, None), "create")
    <3>1. Req("post", None, <<>>, None) \in Request /\ Req("post", None, <<>>, None).id = None
      BY <1>1 DEF Req, Request, Ops
    <3> QED
      BY <1>2, <2>1, <3>1, ArriveTyped
  <2>2. ASSUME NEW b \in Bodies, NEW d \in Digest,
               Arrive(p, Req("mono", None, b, d), "create")
        PROVE  Typed'
    <3>1. Req("mono", None, b, d) \in Request /\ Req("mono", None, b, d).id = None
      BY <1>1 DEF Req, Request, Ops
    <3> QED
      BY <1>2, <2>2, <3>1, ArriveTyped
  <2> QED
    BY <1>3, <2>1, <2>2 DEF RecvStart
<1>4. CASE RecvPatch(p)
  <2>1. PICK i \in known, b \in Bodies :
          Arrive(p, Req("patch", i, b, None), "lockAppend")
    BY <1>4 DEF RecvPatch
  <2>2. Req("patch", i, b, None) \in Request /\ Req("patch", i, b, None).id = i
    BY <1>1 DEF Req, Request, Ops
  <2> QED
    BY <1>1, <1>2, <2>1, <2>2, ArriveTyped
<1>5. CASE RecvPut(p)
  <2>1. PICK i \in known, d \in Digest :
          \/ Arrive(p, Req("put", i, <<>>, d), "lockFinalize")
          \/ \E b \in Bodies \ {<<>>} : Arrive(p, Req("put", i, b, d), "lockAppend")
    BY <1>5 DEF RecvPut
  <2>2. \A b \in Seq(Byte) : Req("put", i, b, d) \in Request /\ Req("put", i, b, d).id = i
    BY <1>1 DEF Req, Request, Ops
  <2>3. CASE Arrive(p, Req("put", i, <<>>, d), "lockFinalize")
    BY <1>1, <1>2, <2>2, <2>3, ArriveTyped
  <2>4. ASSUME NEW b \in Bodies, Arrive(p, Req("put", i, b, d), "lockAppend")
        PROVE  Typed'
    BY <1>1, <1>2, <2>2, <2>4, ArriveTyped
  <2> QED
    BY <2>1, <2>3, <2>4
<1>6. CASE RecvAbort(p)
  <2>1. PICK i \in known : Arrive(p, Req("delete", i, <<>>, None), "lockAbort")
    BY <1>6 DEF RecvAbort
  <2>2. Req("delete", i, <<>>, None) \in Request /\ Req("delete", i, <<>>, None).id = i
    BY <1>1 DEF Req, Request, Ops
  <2> QED
    BY <1>1, <1>2, <2>1, <2>2, ArriveTyped
<1>7. CASE RecvGet(p)
  <2>1. PICK d \in Digest : Arrive(p, Req("get", None, <<>>, d), "openBlob")
    BY <1>7 DEF RecvGet
  <2>2. /\ Req("get", None, <<>>, d) \in Request
        /\ Req("get", None, <<>>, d).id = None /\ Req("get", None, <<>>, d).digest = d
    BY <1>1 DEF Req, Request, Ops
  <2> QED
    BY <1>2, <2>1, <2>2, ArriveTyped
<1> QED
  BY <1>3, <1>4, <1>5, <1>6, <1>7 DEF Receive

LEMMA LockTyped == ASSUME Typed, NEW p \in Proc, Lock(p) PROVE Typed'
<1>1. EnterPC(pc[p]) \in PC /\ EnterPC(pc[p]) # "openBlob"
  BY DEF EnterPC, PC, Locked
<1>2. req[p] \in Request /\ req[p].id \in created /\ req' = [req EXCEPT ![p] = req[p]]
  BY DEF Typed, TypeOK, RequestInv, HasId, Lock
<1>3. RequestInv' /\ req' \in [Proc -> Request] /\ pc' \in [Proc -> PC]
  BY <1>1, <1>2, MoveTyped DEF Lock, disk
<1> QED
  BY <1>3 DEF Lock, disk, Typed, TypeOK

LEMMA StartTyped ==
  ASSUME Typed, NEW p \in Proc,
         Create(p) \/ SeedDigest(p) \/ SeedRename(p) \/ SeedFails(p) \/ CreateFails(p)
  PROVE  Typed'
<1> USE DEF Typed, TypeOK
<1>1. CASE Create(p)
  <2>1. PICK i \in Id \ created :
          /\ created' = created \cup {i}
          /\ sessions' = sessions \cup {i}
          /\ req' = [req EXCEPT ![p] = WithId(@, i)]
    BY <1>1 DEF Create
  <2>2. WithId(req[p], i) \in Request /\ WithId(req[p], i).id = i
    BY RequestUpdate
  <2>3. "seedDigest" \in PC
    BY DEF PC
  <2>4. RequestInv' /\ req' \in [Proc -> Request] /\ pc' \in [Proc -> PC]
    BY <1>1, <2>1, <2>2, <2>3, MoveTyped DEF Create
  <2> QED
    BY <1>1, <2>1, <2>4 DEF Create
<1>2. CASE SeedDigest(p)
  <2>1. [size |-> 0, state |-> <<>>] \in Sidecar
    BY DEF Sidecar
  <2>2. "seedRename" \in PC \cap HasId /\ "seedDigest" \in HasId /\ "seedRename" # "openBlob"
    BY DEF PC, HasId
  <2>3. req[p] \in Request /\ req[p].id \in created /\ req' = [req EXCEPT ![p] = req[p]]
    BY <1>2, <2>2 DEF SeedDigest, WriteTmp, Step, RequestInv
  <2>4. RequestInv' /\ req' \in [Proc -> Request] /\ pc' \in [Proc -> PC]
    BY <1>2, <2>2, <2>3, MoveTyped DEF SeedDigest, WriteTmp, Step
  <2> QED
    BY <1>2, <2>1, <2>4 DEF SeedDigest, WriteTmp, Step
<1>3. CASE SeedRename(p)
  <2>1. req[p].id \in created
    BY <1>3 DEF SeedRename, RequestInv, HasId
  <2>2. /\ RequestInv' /\ req' \in [Proc -> Request] /\ pc' \in [Proc -> PC]
        /\ hash' \in [Proc -> Seq(Byte)]
    BY <1>3, <2>1, ProceedTyped DEF SeedRename, Waiting
  <2>3. /\ sidecar' \in [Id -> Sidecar \cup {None}]
        /\ tmp' \in [Proc -> Sidecar \cup {None}]
    BY <1>3 DEF SeedRename, RenameTmp
  <2>4. known' \in SUBSET created
    BY <1>3, <2>1 DEF SeedRename
  <2>5. UNCHANGED <<content, created, sessions, blob, strays, lock, leaked>>
    BY <1>3 DEF SeedRename
  <2> QED
    BY <2>2, <2>3, <2>4, <2>5
<1>4. CASE SeedFails(p)
  <2>1. req[p].id \in created
    BY <1>4 DEF SeedFails, RequestInv, HasId
  <2>2. /\ RequestInv' /\ req' \in [Proc -> Request] /\ pc' \in [Proc -> PC]
        /\ hash' \in [Proc -> Seq(Byte)]
    BY <1>4, ProceedTyped DEF SeedFails
  <2>3. /\ sessions' \in SUBSET created /\ leaked' \in SUBSET created
        /\ strays' \in SUBSET created /\ tmp' \in [Proc -> Sidecar \cup {None}]
    BY <1>4, <2>1 DEF SeedFails, TmpGone
  <2> QED
    BY <1>4, <2>2, <2>3 DEF SeedFails
<1>5. CASE CreateFails(p)
  BY <1>5, ProceedTyped DEF CreateFails, disk
<1> QED
  BY <1>1, <1>2, <1>3, <1>4, <1>5

LEMMA RestoredType ==
  ASSUME Typed, NEW i \in Id PROVE Restored(i) \in Seq(Byte)
  BY DEF Restored, Typed, TypeOK, Sidecar

LEMMA AppendTyped ==
  ASSUME Typed, NEW p \in Proc,
         \/ OpenAppend(p) \/ CopyByte(p) \/ CopyDone(p) \/ CopyBreaks(p)
         \/ SaveDigest(p) \/ SaveRename(p) \/ SaveFails(p) \/ AppendFails(p)
  PROVE  Typed'
<1> USE DEF Typed, TypeOK
<1>1. /\ pc[p] \in {"openAppend", "copy", "saveDigest", "saveRename"} => pc[p] \in Locked
      /\ {"copy", "saveDigest", "saveRename"} \subseteq Locked
  BY DEF Locked
<1>2. pc[p] \in Locked => req[p].id \in created /\ req[p].id \in Id
  BY DEF RequestInv, HasId
<1>3. AfterAppend(p, TRUE) \in Waiting \cup {"idle"} /\ AfterAppend(p, FALSE) \in Waiting \cup {"idle"}
  BY AfterTyped
<1>4. CASE OpenAppend(p)
  <2>1. CASE req[p].id \in sessions
    <3>1. Step(p, "copy") /\ hash' = [hash EXCEPT ![p] = Restored(req[p].id)]
      BY <1>4, <2>1 DEF OpenAppend
    <3>2. hash' \in [Proc -> Seq(Byte)]
      BY <1>1, <1>2, <1>4, <3>1, RestoredType DEF OpenAppend
    <3> QED
      BY <1>1, <1>4, <3>1, <3>2, StepTyped DEF OpenAppend, disk
  <2>2. CASE req[p].id \notin sessions
    BY <1>1, <1>3, <1>4, <2>2, ReturnTyped DEF OpenAppend, disk
  <2> QED
    BY <2>1, <2>2
<1>5. ASSUME pc[p] = "copy", req[p].body # <<>>
      PROVE  /\ [content EXCEPT ![req[p].id] = Append(@, Head(req[p].body))] \in [Id -> Seq(Byte)]
             /\ [hash EXCEPT ![p] = Append(@, Head(req[p].body))] \in [Proc -> Seq(Byte)]
  <2>1. req[p].body \in Seq(Byte)
    BY DEF Request
  <2>2. Head(req[p].body) \in Byte
    BY <1>5, <2>1
  <2> QED
    BY <1>1, <1>2, <1>5, <2>2
<1>6. CASE CopyByte(p)
  <2>1. RequestInv' /\ req' \in [Proc -> Request]
    <3>1. WithBody(req[p], Tail(req[p].body)) \in Request
          /\ WithBody(req[p], Tail(req[p].body)).id = req[p].id
      BY <1>6, RequestUpdate DEF CopyByte
    <3>2. "copy" \in PC
      BY DEF PC, Locked
    <3>3. pc' = [pc EXCEPT ![p] = "copy"] /\ created' = created
      BY <1>6 DEF CopyByte
    <3> QED
      BY <1>1, <1>2, <1>6, <3>1, <3>2, <3>3, MoveTyped DEF CopyByte
  <2> QED
    BY <1>5, <1>6, <2>1 DEF CopyByte
<1>7. CASE CopyDone(p)
  BY <1>1, <1>7, StepTyped DEF CopyDone, disk
<1>8. CASE CopyBreaks(p)
  BY <1>1, <1>3, <1>5, <1>8, ReturnTyped DEF CopyBreaks
<1>9. CASE SaveDigest(p)
  <2>1. [size |-> Len(content[req[p].id]), state |-> hash[p]] \in Sidecar
    BY <1>1, <1>2, <1>9 DEF SaveDigest, Sidecar
  <2>2. tmp' \in [Proc -> Sidecar \cup {None}]
    BY <1>9, <2>1 DEF SaveDigest, WriteTmp
  <2> QED
    BY <1>1, <1>9, <2>2, StepTyped DEF SaveDigest, WriteTmp
<1>10. CASE SaveRename(p)
  <2>1. /\ sidecar' \in [Id -> Sidecar \cup {None}]
        /\ tmp' \in [Proc -> Sidecar \cup {None}]
    BY <1>10 DEF SaveRename, RenameTmp
  <2> QED
    BY <1>1, <1>3, <1>10, <2>1, ReturnTyped DEF SaveRename
<1>11. CASE SaveFails(p)
  <2>1. /\ strays' \in SUBSET created /\ leaked' \in SUBSET created
        /\ tmp' \in [Proc -> Sidecar \cup {None}]
    BY <1>1, <1>2, <1>11 DEF SaveFails, TmpGone
  <2> QED
    BY <1>1, <1>3, <1>11, <2>1, ReturnTyped DEF SaveFails
<1>12. CASE AppendFails(p)
  BY <1>1, <1>3, <1>12, ReturnTyped DEF AppendFails, disk
<1> QED
  BY <1>4, <1>6, <1>7, <1>8, <1>9, <1>10, <1>11, <1>12

LEMMA FinishTyped ==
  ASSUME Typed, NEW p \in Proc,
         \/ CheckDigest(p) \/ Rename(p) \/ FinalizeFails(p)
         \/ DropSidecar(p) \/ RemoveFile(p) \/ RemoveFails(p)
  PROVE  Typed'
<1> USE DEF Typed, TypeOK
<1>1. /\ pc[p] \in {"checkDigest", "rename", "dropAfterRename", "removeFile", "dropAfterRemove"}
           => pc[p] \in Locked
      /\ {"rename", "dropAfterRename", "dropAfterRemove"} \subseteq Locked
  BY DEF Locked
<1>2. pc[p] \in Locked => req[p].id \in created /\ req[p].id \in Id
  BY DEF RequestInv, HasId
<1>3. AfterFinalize(p, FALSE) \in Waiting \cup {"idle"}
  BY AfterTyped
<1>4. CASE CheckDigest(p)
  <2>1. CASE Step(p, "rename") /\ UNCHANGED hash
    BY <1>1, <1>4, <2>1, StepTyped DEF CheckDigest, disk
  <2>2. CASE Return(p, AfterFinalize(p, FALSE))
    BY <1>1, <1>3, <1>4, <2>2, ReturnTyped DEF CheckDigest, disk
  <2> QED
    BY <1>4, <2>1, <2>2 DEF CheckDigest
<1>5. CASE Rename(p)
  BY <1>1, <1>2, <1>5, StepTyped DEF Rename
<1>6. CASE FinalizeFails(p)
  BY <1>1, <1>3, <1>6, ReturnTyped DEF FinalizeFails, disk
<1>7. CASE DropSidecar(p)
  <2>1. sidecar' \in [Id -> Sidecar \cup {None}] /\ leaked' \in SUBSET created
    BY <1>1, <1>2, <1>7 DEF DropSidecar
  <2> QED
    BY <1>1, <1>7, <2>1, ReturnTyped DEF DropSidecar
<1>8. CASE RemoveFile(p)
  <2>1. CASE req[p].id \in sessions
    BY <1>1, <1>8, <2>1, StepTyped DEF RemoveFile
  <2>2. CASE req[p].id \notin sessions
    BY <1>1, <1>8, <2>2, ReturnTyped DEF RemoveFile
  <2> QED
    BY <2>1, <2>2
<1>9. CASE RemoveFails(p)
  BY <1>1, <1>2, <1>9, StepTyped DEF RemoveFails, disk
<1> QED
  BY <1>4, <1>5, <1>6, <1>7, <1>8, <1>9

LEMMA BlobTyped ==
  ASSUME Typed, NEW p \in Proc, OpenBlob(p) \/ Send(p) PROVE Typed'
<1> USE DEF Typed, TypeOK
<1>1. CASE OpenBlob(p)
  <2>1. CASE blob[req[p].digest] = None
    BY <1>1, <2>1, ProceedTyped DEF OpenBlob, disk
  <2>2. CASE blob[req[p].digest] # None
    <3>1. blob[req[p].digest] \in created
      BY <1>1, <2>2 DEF OpenBlob, RequestInv
    <3>2. /\ WithId(req[p], blob[req[p].digest]) \in Request
          /\ WithId(req[p], blob[req[p].digest]).id \in created
      BY <3>1, RequestUpdate
    <3>3. "send" \in PC
      BY DEF PC
    <3>4. RequestInv' /\ req' \in [Proc -> Request] /\ pc' \in [Proc -> PC]
      BY <1>1, <2>2, <3>2, <3>3, MoveTyped DEF OpenBlob, disk
    <3> QED
      BY <1>1, <2>2, <3>4 DEF OpenBlob, disk
  <2> QED
    BY <2>1, <2>2
<1>2. CASE Send(p)
  BY <1>2, ProceedTyped DEF Send, disk
<1> QED
  BY <1>1, <1>2

LEMMA CrashTyped == ASSUME Typed, Crash PROVE Typed'
<1>1. req' \in [Proc -> Request] /\ (\A p \in Proc : req'[p].id = None)
  BY NoRequestType DEF Crash, NoRequest, Req
<1>2. "idle" \in PC /\ "idle" \notin HasId /\ Renaming \subseteq HasId
  BY DEF PC, HasId, Waiting, Locked, Renaming
<1>3. /\ strays' \in SUBSET created /\ leaked' \in SUBSET created
      /\ tmp' \in [Proc -> Sidecar \cup {None}]
  BY <1>2 DEF Crash, Typed, TypeOK, RequestInv
<1> QED
  BY <1>1, <1>2, <1>3 DEF Crash, Typed, TypeOK, RequestInv

LEMMA TypedInit == Init => Typed
<1>1. "idle" \in PC /\ "idle" \notin HasId
  BY DEF PC, HasId, Waiting, Locked
<1>2. NoRequest.id = None
  BY DEF NoRequest, Req
<1> QED
  BY <1>1, <1>2, NoRequestType DEF Init, Typed, TypeOK, RequestInv

LEMMA TypedStep == Typed /\ [Next]_vars => Typed'
<1> SUFFICES ASSUME Typed, [Next]_vars PROVE Typed'
  OBVIOUS
<1>1. ASSUME NEW p \in Proc, Handle(p) PROVE Typed'
  BY <1>1, StartTyped, AppendTyped, FinishTyped, BlobTyped DEF Handle
<1>2. ASSUME NEW d \in Digest, DeleteBlob(d) PROVE Typed'
  BY <1>2 DEF DeleteBlob, Typed, TypeOK, RequestInv
<1>3. CASE UNCHANGED vars
  BY <1>3 DEF vars, Typed, TypeOK, RequestInv
<1> QED
  BY <1>1, <1>2, <1>3, ReceiveTyped, LockTyped, CrashTyped DEF Next

\* Type correctness: every variable keeps its type, whatever the constants.
THEOREM TypeCorrect == Spec => []TypeOK
<1>1. Typed => TypeOK
  BY DEF Typed
<1> QED
  BY <1>1, TypedInit, TypedStep, PTL DEF Spec
-----------------------------------------------------------------------------
(* What one step of one handler can touch.                                 *)

OthersSame(p) ==
  \A q \in Proc \ {p} : /\ pc'[q] = pc[q] /\ req'[q] = req[q]
                         /\ hash'[q] = hash[q] /\ tmp'[q] = tmp[q]

\* The handler neither enters, leaves nor is inside a store call's lock.
Unlocked(p) == pc[p] \notin Locked /\ pc'[p] \notin Locked /\ lock' = lock

Acquires(p) ==
  /\ lock[StripeOf[req[p].id]] = None /\ req[p].id \in Id
  /\ lock' = [lock EXCEPT ![StripeOf[req[p].id]] = p]
  /\ req'[p] = req[p]

Releases(p) ==
  /\ pc[p] \in Locked /\ pc'[p] \notin Locked
  /\ lock' = [lock EXCEPT ![StripeOf[req[p].id]] = None]

Inside(p) ==
  pc[p] \in Locked /\ pc'[p] \in Locked /\ lock' = lock /\ req'[p].id = req[p].id

Quiet == content' = content /\ created' = created /\ sessions' = sessions
         /\ sidecar' = sidecar /\ blob' = blob

LEMMA ReturnReleases ==
  ASSUME Typed, NEW p \in Proc, NEW l \in Waiting \cup {"idle"}, Return(p, l),
         pc[p] \in Locked, \A q \in Proc \ {p} : tmp'[q] = tmp[q]
  PROVE  OthersSame(p) /\ Releases(p) /\ pc'[p] = l
<1>1. l \notin Locked
  BY DEF Waiting, Locked
<1> QED
  BY <1>1 DEF Return, Proceed, OthersSame, Releases, Typed, TypeOK

LEMMA StepInside ==
  ASSUME Typed, NEW p \in Proc, NEW l \in Locked, Step(p, l), pc[p] \in Locked,
         \A q \in Proc \ {p} : hash'[q] = hash[q] /\ tmp'[q] = tmp[q]
  PROVE  OthersSame(p) /\ Inside(p) /\ pc'[p] = l
  BY DEF Step, OthersSame, Inside, Typed, TypeOK

LEMMA ProceedUnlocked ==
  ASSUME Typed, NEW p \in Proc, NEW l \in Waiting \cup {"idle"}, Proceed(p, l),
         pc[p] \notin Locked, lock' = lock, \A q \in Proc \ {p} : tmp'[q] = tmp[q]
  PROVE  OthersSame(p) /\ Unlocked(p) /\ pc'[p] = l
<1>1. l \notin Locked
  BY DEF Waiting, Locked
<1> QED
  BY <1>1 DEF Proceed, OthersSame, Unlocked, Typed, TypeOK

LEMMA ArriveShape ==
  ASSUME Typed, NEW p \in Proc, NEW r, NEW l \in Waiting \cup {"create", "openBlob"},
         Arrive(p, r, l)
  PROVE  /\ OthersSame(p) /\ Unlocked(p) /\ Quiet /\ known' = known
         /\ pc'[p] \in Waiting \cup {"create", "openBlob"}
         /\ req'[p] = r
<1>1. "idle" \notin Locked /\ l \notin Locked
  BY DEF Locked, Waiting
<1> QED
  BY <1>1 DEF Arrive, Quiet, disk, Typed, TypeOK, OthersSame, Unlocked

\* An arriving request changes nothing but its own handler, and can only name
\* a session its client was told of.
LEMMA ReceiveShape ==
  ASSUME Typed, NEW p \in Proc, Receive(p)
  PROVE  /\ OthersSame(p) /\ Unlocked(p) /\ Quiet /\ known' = known
         /\ pc'[p] \in Waiting \cup {"create", "openBlob"}
         /\ req'[p].id \in known \cup {None}
<1>1. \A o, i, b, d : Req(o, i, b, d).id = i
  BY DEF Req
<1>2. {"create", "openBlob", "lockAppend", "lockFinalize", "lockAbort"}
        \subseteq Waiting \cup {"create", "openBlob"}
  BY DEF Waiting
<1>3. CASE RecvStart(p)
  BY <1>1, <1>2, <1>3, ArriveShape DEF RecvStart
<1>4. CASE RecvPatch(p)
  BY <1>1, <1>2, <1>4, ArriveShape DEF RecvPatch
<1>5. CASE RecvPut(p)
  BY <1>1, <1>2, <1>5, ArriveShape DEF RecvPut
<1>6. CASE RecvAbort(p)
  BY <1>1, <1>2, <1>6, ArriveShape DEF RecvAbort
<1>7. CASE RecvGet(p)
  BY <1>1, <1>2, <1>7, ArriveShape DEF RecvGet
<1> QED
  BY <1>3, <1>4, <1>5, <1>6, <1>7 DEF Receive

LEMMA LockShape ==
  ASSUME Typed, NEW p \in Proc, Lock(p)
  PROVE  /\ OthersSame(p) /\ Acquires(p) /\ Quiet /\ known' = known
         /\ pc[p] \in Waiting
         /\ pc'[p] \in {"openAppend", "checkDigest", "removeFile"}
<1>1. EnterPC(pc[p]) \in {"openAppend", "checkDigest", "removeFile"}
  BY DEF EnterPC
<1>2. req[p].id \in Id
  BY DEF Lock, Typed, TypeOK, RequestInv, HasId
<1> QED
  BY <1>1, <1>2 DEF Lock, OthersSame, Acquires, Quiet, disk, Typed, TypeOK

\* A step of a handler inside or outside its lock keeps the locks in order.
LEMMA LockKept ==
  ASSUME Typed, LockInv, NEW p \in Proc, OthersSame(p),
         Unlocked(p) \/ Acquires(p) \/ Releases(p) \/ Inside(p)
  PROVE  LockInv'
<1>1. \A q \in Proc : pc[q] \in Locked => StripeOf[req[q].id] \in Stripe
  BY ConstantsAssumption DEF Typed, TypeOK, RequestInv, HasId
<1>0. /\ lock \in [Stripe -> Proc \cup {None}] /\ None \notin Proc
      /\ \A q \in Proc \ {p} : pc'[q] = pc[q] /\ req'[q] = req[q]
      /\ StripeOf \in [Id -> Stripe]
  BY ConstantsAssumption DEF Typed, TypeOK, OthersSame
<1> USE <1>0 DEF LockInv
<1>2. CASE Unlocked(p)
  BY <1>2 DEF Unlocked
<1>3. CASE Acquires(p)
  <2>1. StripeOf[req[p].id] \in Stripe
    BY <1>3 DEF Acquires
  <2>2. \A q \in Proc \ {p} : pc[q] \in Locked => StripeOf[req[q].id] # StripeOf[req[p].id]
    BY <1>3 DEF Acquires
  <2> QED
    BY <1>1, <1>3, <2>1, <2>2 DEF Acquires
<1>4. CASE Releases(p)
  <2>1. \A q \in Proc \ {p} : pc[q] \in Locked => StripeOf[req[q].id] # StripeOf[req[p].id]
    BY <1>4 DEF Releases
  <2> QED
    BY <1>1, <1>4, <2>1 DEF Releases
<1>5. CASE Inside(p)
  BY <1>5 DEF Inside
<1> QED
  BY <1>2, <1>3, <1>4, <1>5

\* Two handlers are never at work on the same session file.
LEMMA Exclusive ==
  ASSUME Typed, LockInv, PrivateInv, NEW p \in Proc, NEW q \in Proc,
         pc[p] \in Locked \cup Seeding, pc[q] \in Locked \cup Seeding,
         req[p].id = req[q].id
  PROVE  p = q
<1>1. CASE pc[p] \in Seeding \/ pc[q] \in Seeding
  BY <1>1 DEF PrivateInv, PrivateOK, HasId, Seeding
<1>2. CASE pc[p] \in Locked /\ pc[q] \in Locked
  BY <1>2 DEF LockInv
<1> QED
  BY <1>1, <1>2

\* What a step of p may do to the files, to be checked action by action.
OnlyItsOwn(p) ==
  /\ \A i \in Id : content'[i] # content[i] => pc[p] = "copy" /\ i = req[p].id
  /\ \A i \in sessions \ sessions' :
       pc[p] \in Seeding \cup {"rename", "removeFile"} /\ i = req[p].id
  /\ \A i \in created : i \in sessions' => i \in sessions
  /\ \A i \in known' \ known : pc[p] \in Seeding /\ i = req[p].id
  /\ pc'[p] \in HasId =>
       \/ pc[p] \in HasId /\ req'[p].id = req[p].id
       \/ req'[p].id \in known
       \/ req'[p].id \notin sessions

LEMMA Preserved ==
  ASSUME IInv, Typed', NEW p \in Proc, OthersSame(p),
         Unlocked(p) \/ Acquires(p) \/ Releases(p) \/ Inside(p),
         created \subseteq created',
         OnlyItsOwn(p),
         PrivateOK(p)', HashOK(p)', SendOK(p)', SidecarInv',
         \A d \in Digest : blob'[d] # blob[d] => BlobOK(d)'
  PROVE  IInv'
<1> USE DEF IInv
<1>1. LockInv'
  BY LockKept
<1>2. {"copy", "saveDigest", "saveRename", "rename", "removeFile"} \subseteq Locked
      /\ Locked \cup Seeding \cup {"send"} \subseteq HasId
  BY DEF Locked, HasId, Seeding
<1>3. ASSUME NEW q \in Proc \ {p} PROVE HashOK(q)'
  <2>1. CASE pc[q] \in {"copy", "saveDigest", "saveRename", "rename"}
    <3>1. req[q].id \in Id /\ req[q].id \in sessions
      BY <1>2, <2>1 DEF Typed, TypeOK, RequestInv, HashInv, HashOK
    <3>2. ~(pc[p] \in Locked \cup Seeding /\ req[p].id = req[q].id)
      BY <1>2, <2>1, Exclusive
    <3>3. content'[req[q].id] = content[req[q].id] /\ req[q].id \in sessions'
      BY <1>2, <3>1, <3>2 DEF OnlyItsOwn
    <3> QED
      BY <3>3 DEF HashInv, HashOK, OthersSame
  <2>2. CASE pc[q] \notin {"copy", "saveDigest", "saveRename", "rename"}
    BY <2>2 DEF HashInv, HashOK, OthersSame
  <2> QED
    BY <2>1, <2>2
<1>4. ASSUME NEW q \in Proc \ {p} PROVE PrivateOK(q)'
  <2> SUFFICES ASSUME pc[q] \in Seeding PROVE PrivateOK(q)'
    BY DEF PrivateOK, OthersSame
  <2>1. /\ req[q].id \in sessions /\ req[q].id \notin known
        /\ \A r \in Proc : pc[r] \in HasId /\ req[r].id = req[q].id => r = q
    BY DEF PrivateInv, PrivateOK
  <2>2. ~(pc[p] \in HasId /\ req[p].id = req[q].id)
    BY <2>1
  <2>3. req[q].id \in sessions' /\ req[q].id \notin known'
    BY <1>2, <2>1, <2>2 DEF OnlyItsOwn
  <2>4. \A r \in Proc : pc'[r] \in HasId /\ req'[r].id = req[q].id => r = q
    BY <2>1, <2>2 DEF OnlyItsOwn, OthersSame
  <2> QED
    BY <2>3, <2>4 DEF PrivateOK, OthersSame
<1>5. ASSUME NEW i \in created, i \notin sessions
      PROVE  i \notin sessions' /\ content'[i] = content[i]
  <2>1. i \in Id
    BY DEF Typed, TypeOK
  <2>2. pc[p] = "copy" => req[p].id \in sessions
    BY DEF HashInv, HashOK
  <2> QED
    BY <1>5, <2>1, <2>2 DEF OnlyItsOwn
<1>6. ASSUME NEW q \in Proc \ {p} PROVE SendOK(q)'
  <2> SUFFICES ASSUME pc[q] = "send" PROVE SendOK(q)'
    BY DEF SendOK, OthersSame
  <2>1. req[q].id \in created /\ req[q].id \notin sessions
    BY <1>2 DEF Typed, RequestInv, SendInv, SendOK
  <2> QED
    BY <1>5, <2>1 DEF SendInv, SendOK, OthersSame
<1>7. ASSUME NEW d \in Digest PROVE BlobOK(d)'
  <2>1. CASE blob'[d] = blob[d] /\ blob[d] # None
    <3>1. blob[d] \in created /\ blob[d] \notin sessions
      BY <2>1 DEF Typed, TypeOK, BlobInv, BlobOK
    <3> QED
      BY <1>5, <2>1, <3>1 DEF BlobInv, BlobOK
  <2>2. CASE blob'[d] = blob[d] /\ blob[d] = None
    BY <2>2 DEF BlobOK
  <2> QED
    BY <2>1, <2>2
<1> QED
  BY <1>1, <1>3, <1>4, <1>6, <1>7 DEF HashInv, PrivateInv, SendInv, BlobInv

-----------------------------------------------------------------------------
(* The invariant, action by action.                                        *)

\* The incremental digest is the digest of the file: what makes it sound to
\* trust a sidecar instead of reading the upload again.
LEMMA RestoredIsContent ==
  ASSUME SidecarInv, NEW i \in Id PROVE Restored(i) = content[i]
  BY DEF SidecarInv, SidecarOK, Restored

\* Where the invariant says more of a handler than its locks.
Busy == Seeding \cup {"copy", "saveDigest", "saveRename", "rename", "send"}

\* A step that leaves the disk alone and lets the handler wait, reply, or
\* stay outside.
LEMMA QuietStep ==
  ASSUME IInv, Typed', NEW p \in Proc, OthersSame(p),
         Unlocked(p) \/ Acquires(p) \/ Releases(p) \/ Inside(p),
         Quiet, known' = known,
         pc'[p] \notin Busy,
         pc'[p] \in HasId =>
           \/ pc[p] \in HasId /\ req'[p].id = req[p].id
           \/ req'[p].id \in known
  PROVE  IInv'
<1>1. PrivateOK(p)' /\ HashOK(p)' /\ SendOK(p)'
  BY DEF PrivateOK, HashOK, SendOK, Busy, Seeding
<1>2. SidecarInv'
  BY DEF Quiet, IInv, SidecarInv, SidecarOK
<1>3. OnlyItsOwn(p)
  BY DEF OnlyItsOwn, Quiet
<1> QED
  BY <1>1, <1>2, <1>3, Preserved DEF Quiet

LEMMA ReceiveStep == ASSUME IInv, NEW p \in Proc, Receive(p) PROVE IInv'
<1>1. Typed /\ Typed'
  BY ReceiveTyped DEF IInv
<1>2. /\ OthersSame(p) /\ Unlocked(p) /\ Quiet /\ known' = known
      /\ pc'[p] \in Waiting \cup {"create", "openBlob"}
      /\ req'[p].id \in known \cup {None}
  BY <1>1, ReceiveShape
<1>3. pc'[p] \notin Busy
  BY <1>2 DEF Waiting, Busy, Seeding
<1>4. pc'[p] \in HasId => req'[p].id \in known
  BY <1>1, <1>2, ConstantsAssumption DEF Typed, TypeOK, RequestInv
<1> QED
  BY <1>1, <1>2, <1>3, <1>4, QuietStep

LEMMA LockStep == ASSUME IInv, NEW p \in Proc, Lock(p) PROVE IInv'
<1>1. Typed /\ Typed'
  BY LockTyped DEF IInv
<1>2. /\ OthersSame(p) /\ Acquires(p) /\ Quiet /\ known' = known
      /\ pc[p] \in Waiting
      /\ pc'[p] \in {"openAppend", "checkDigest", "removeFile"}
  BY <1>1, LockShape
<1>3. pc[p] \in HasId /\ req'[p].id = req[p].id
  BY <1>2 DEF HasId, Acquires
<1>4. pc'[p] \notin Busy
  BY <1>2 DEF Busy, Seeding
<1> QED
  BY <1>1, <1>2, <1>3, <1>4, QuietStep

\* A handler that returns from a store call without having changed a file.
LEMMA QuietReturn ==
  ASSUME IInv, Typed', NEW p \in Proc, NEW l \in Waiting \cup {"idle"},
         Return(p, l), pc[p] \in Locked, Quiet, known' = known,
         \A q \in Proc \ {p} : tmp'[q] = tmp[q]
  PROVE  IInv'
<1>1. OthersSame(p) /\ Releases(p) /\ pc'[p] = l
  BY ReturnReleases DEF IInv
<1>2. pc[p] \in HasId /\ (l # "idle" => req'[p].id = req[p].id)
  BY DEF HasId, Return, Proceed, IInv, Typed, TypeOK
<1>3. "idle" \notin HasId
      /\ l \notin Busy
  BY DEF HasId, Waiting, Locked, Busy, Seeding
<1> QED
  BY <1>1, <1>2, <1>3, QuietStep

LEMMA QuietProceed ==
  ASSUME IInv, Typed', NEW p \in Proc, Proceed(p, "idle"), pc[p] \notin Locked,
         Quiet, known' = known, lock' = lock, \A q \in Proc \ {p} : tmp'[q] = tmp[q]
  PROVE  IInv'
<1>1. OthersSame(p) /\ Unlocked(p) /\ pc'[p] = "idle"
  BY ProceedUnlocked DEF IInv
<1>2. "idle" \notin HasId /\ "idle" \notin Busy
  BY DEF HasId, Waiting, Locked, Busy, Seeding
<1> QED
  BY <1>1, <1>2, QuietStep

LEMMA CreateStep == ASSUME IInv, NEW p \in Proc, Create(p) PROVE IInv'
<1> USE DEF IInv
<1>1. Typed'
  BY StartTyped
<1>2. PICK i \in Id \ created :
        /\ created' = created \cup {i}
        /\ sessions' = sessions \cup {i}
        /\ req' = [req EXCEPT ![p] = WithId(@, i)]
  BY DEF Create
<1>3. req'[p].id = i /\ pc'[p] = "seedDigest" /\ OthersSame(p)
  BY <1>2, RequestUpdate DEF Create, OthersSame, Typed, TypeOK
<1>4. Unlocked(p)
  BY <1>3 DEF Unlocked, Create, Locked
<1>5. i \notin sessions /\ i \notin known
      /\ \A q \in Proc : pc[q] \in HasId => req[q].id # i
  BY DEF Typed, TypeOK, RequestInv
<1>6. PrivateOK(p)'
  BY <1>2, <1>3, <1>5 DEF PrivateOK, Seeding, OthersSame, Create
<1>7. HashOK(p)' /\ SendOK(p)'
  BY <1>3 DEF HashOK, SendOK
<1>8. SidecarInv'
  BY DEF Create, SidecarInv, SidecarOK
<1>9. OnlyItsOwn(p)
  BY <1>2, <1>3, <1>5 DEF OnlyItsOwn, Create
<1> QED
  BY <1>1, <1>2, <1>3, <1>4, <1>6, <1>7, <1>8, <1>9, Preserved DEF Create

LEMMA SeedStep ==
  ASSUME IInv, NEW p \in Proc, SeedDigest(p) PROVE IInv'
<1> USE DEF IInv
<1>1. Typed'
  BY StartTyped
<1>2. /\ pc[p] = "seedDigest" /\ pc' = [pc EXCEPT ![p] = "seedRename"]
      /\ tmp' = [tmp EXCEPT ![p] = [size |-> 0, state |-> <<>>]]
      /\ UNCHANGED <<content, created, sessions, known, sidecar, blob, req, lock, hash>>
  BY DEF SeedDigest, WriteTmp, Step
<1>3. {"seedDigest", "seedRename"} \subseteq HasId \ Locked
  BY DEF HasId, Locked
<1>4. OthersSame(p) /\ Unlocked(p) /\ pc'[p] = "seedRename"
      /\ tmp'[p] = [size |-> 0, state |-> <<>>]
  BY <1>2, <1>3 DEF OthersSame, Unlocked, Typed, TypeOK
<1>5. PrivateOK(p)'
  BY <1>2, <1>3, <1>4 DEF PrivateInv, PrivateOK, Seeding, OthersSame
<1>6. HashOK(p)' /\ SendOK(p)'
  BY <1>4 DEF HashOK, SendOK
<1>7. OnlyItsOwn(p)
  BY <1>2, <1>3 DEF OnlyItsOwn
<1>8. SidecarInv'
  BY <1>2 DEF SidecarInv, SidecarOK
<1> QED
  BY <1>1, <1>2, <1>4, <1>5, <1>6, <1>7, <1>8, Preserved

LEMMA SeedEnds ==
  ASSUME IInv, NEW p \in Proc, SeedRename(p) \/ SeedFails(p) PROVE IInv'
<1> USE DEF IInv
<1>1. /\ Typed' /\ pc[p] \in Seeding /\ pc[p] \notin Locked /\ lock' = lock
      /\ \A q \in Proc \ {p} : tmp'[q] = tmp[q]
  BY StartTyped DEF SeedRename, RenameTmp, SeedFails, TmpGone, Locked, Seeding, Typed, TypeOK
<1>2. PICK l \in {"lockAppend", "idle"} :
        /\ Proceed(p, l)
        /\ known' \subseteq known \cup {req[p].id}
  BY DEF SeedRename, SeedFails
<1>3. /\ UNCHANGED <<content, created, blob>>
      /\ sessions' \in {sessions, sessions \ {req[p].id}}
  BY DEF SeedRename, SeedFails
<1>4. l \in Waiting \cup {"idle"} /\ "idle" \notin HasId
      /\ l \notin Busy
  BY DEF Waiting, HasId, Locked, Busy, Seeding
<1>5. OthersSame(p) /\ Unlocked(p) /\ pc'[p] = l
  BY <1>1, <1>2, <1>4, ProceedUnlocked
<1>6. PrivateOK(p)' /\ HashOK(p)' /\ SendOK(p)'
  BY <1>4, <1>5 DEF PrivateOK, HashOK, SendOK, Busy, Seeding
<1>7. pc[p] \in HasId /\ (l # "idle" => req'[p].id = req[p].id)
  BY <1>1, <1>2 DEF HasId, Proceed, Typed, TypeOK, Seeding
<1>8. OnlyItsOwn(p)
  BY <1>1, <1>2, <1>3, <1>4, <1>5, <1>7 DEF OnlyItsOwn
<1>9. SidecarInv'
  <2>1. CASE SeedFails(p)
    BY <2>1 DEF SeedFails, SidecarInv, SidecarOK
  <2>2. CASE SeedRename(p)
    <3>1. sidecar' = [sidecar EXCEPT ![req[p].id] = [size |-> 0, state |-> <<>>]]
      BY <2>2 DEF SeedRename, RenameTmp, HashInv, HashOK
    <3>2. \A i \in Id : content[i] \in Seq(Byte)
      BY DEF Typed, TypeOK
    <3>3. \A i \in Id : 0 <= Len(content[i]) /\ (0 = Len(content[i]) => content[i] = <<>>)
      BY <3>2
    <3>4. ASSUME NEW i \in Id PROVE SidecarOK(i)'
      <4>1. CASE i = req[p].id
        <5>1. sidecar'[i] = [size |-> 0, state |-> <<>>]
          BY <3>1, <4>1 DEF Typed, TypeOK
        <5>2. sidecar'[i].size = 0 /\ sidecar'[i].state = <<>>
          BY <5>1
        <5> QED
          BY <1>3, <3>3, <5>2 DEF SidecarOK
      <4>2. CASE i # req[p].id
        BY <1>3, <3>1, <4>2 DEF SidecarInv, SidecarOK, Typed, TypeOK
      <4> QED
        BY <4>1, <4>2
    <3> QED
      BY <3>4 DEF SidecarInv
  <2> QED
    BY <2>1, <2>2
<1> QED
  BY <1>1, <1>3, <1>5, <1>6, <1>8, <1>9, Preserved

LEMMA AppendStep ==
  ASSUME IInv, NEW p \in Proc,
         \/ OpenAppend(p) \/ CopyByte(p) \/ CopyDone(p) \/ CopyBreaks(p)
         \/ SaveDigest(p) \/ SaveRename(p) \/ SaveFails(p) \/ AppendFails(p)
  PROVE  IInv'
<1> USE DEF IInv
<1>1. Typed'
  BY AppendTyped
<1>2. /\ {"openAppend", "copy", "saveDigest", "saveRename"} \subseteq Locked
      /\ Locked \subseteq HasId
      /\ "lockAppend" \notin Locked
  BY DEF Locked, HasId, Waiting
<1>3. /\ AfterAppend(p, TRUE) \in Waiting \cup {"idle"}
      /\ AfterAppend(p, FALSE) \in Waiting \cup {"idle"}
  BY AfterTyped
<1>4. pc[p] \in {"openAppend", "copy", "saveDigest", "saveRename"}
  BY DEF OpenAppend, CopyByte, CopyDone, CopyBreaks, SaveDigest, SaveRename, SaveFails,
         AppendFails
<1>5. req[p].id \in Id /\ req[p].id \in created /\ pc[p] \in Locked
  BY <1>2, <1>4 DEF Typed, TypeOK, RequestInv
<1>6. ASSUME NEW l, pc'[p] = l, l \in {"copy", "saveDigest"},
             Inside(p), OthersSame(p), sidecar' = sidecar,
             UNCHANGED <<created, sessions, known, blob>>,
             content' = content \/
               (pc[p] = "copy" /\ \E y \in Byte :
                  content' = [content EXCEPT ![req[p].id] = Append(@, y)]),
             req[p].id \in sessions, hash'[p] = content'[req[p].id]
      PROVE  IInv'
  <2>1. PrivateOK(p)' /\ HashOK(p)' /\ SendOK(p)'
    BY <1>6 DEF PrivateOK, HashOK, SendOK, Inside, Seeding
  <2>2. SidecarInv'
    <3>1. CASE content' = content
      BY <1>6, <3>1 DEF SidecarInv, SidecarOK
    <3>2. ASSUME NEW y \in Byte,
                 content' = [content EXCEPT ![req[p].id] = Append(@, y)],
                 NEW i \in Id
          PROVE  SidecarOK(i)'
      <4>1. content[i] \in Seq(Byte) /\ (sidecar[i] # None => sidecar[i].size \in Nat)
        BY DEF Typed, TypeOK, Sidecar
      <4>2. Len(Append(content[i], y)) = Len(content[i]) + 1
        BY <4>1
      <4>3. content'[i] = content[i] \/ content'[i] = Append(content[i], y)
        BY <3>2 DEF Typed, TypeOK
      <4>4. Len(content[i]) \in Nat
        BY <4>1
      <4> QED
        BY <1>6, <4>1, <4>2, <4>3, <4>4 DEF SidecarInv, SidecarOK
    <3> QED
      BY <1>6, <3>1, <3>2 DEF SidecarInv
  <2>3. OnlyItsOwn(p)
    BY <1>2, <1>5, <1>6 DEF OnlyItsOwn, Typed, TypeOK, Inside
  <2> QED
    BY <1>1, <1>6, <2>1, <2>2, <2>3, Preserved
<1>7. CASE OpenAppend(p)
  <2>1. CASE req[p].id \in sessions
    <3>1. Step(p, "copy") /\ hash' = [hash EXCEPT ![p] = Restored(req[p].id)]
          /\ UNCHANGED <<content, created, sessions, known, blob, sidecar>>
      BY <1>7, <2>1 DEF OpenAppend, disk
    <3>2. OthersSame(p) /\ Inside(p) /\ pc'[p] = "copy"
      BY <1>2, <1>5, <1>7, <3>1, StepInside DEF OpenAppend, disk, Typed, TypeOK
    <3>3. hash'[p] = content'[req[p].id]
      BY <1>5, <3>1, RestoredIsContent DEF Typed, TypeOK
    <3> QED
      BY <1>6, <2>1, <3>1, <3>2, <3>3
  <2>2. CASE req[p].id \notin sessions
    BY <1>1, <1>3, <1>5, <1>7, <2>2, QuietReturn DEF OpenAppend, disk, Quiet
  <2> QED
    BY <2>1, <2>2
<1>8. ASSUME pc[p] = "copy", req[p].body # <<>>
      PROVE  Head(req[p].body) \in Byte
  BY <1>8 DEF Typed, TypeOK, Request
<1>9. CASE CopyByte(p)
  <2>1. /\ pc'[p] = "copy" /\ req'[p].id = req[p].id
        /\ OthersSame(p) /\ Inside(p)
    BY <1>2, <1>9, RequestUpdate DEF CopyByte, OthersSame, Inside, Typed, TypeOK
  <2>2. req[p].id \in sessions /\ hash[p] = content[req[p].id]
    BY <1>9 DEF CopyByte, HashInv, HashOK
  <2>3. hash'[p] = content'[req[p].id]
    BY <1>5, <1>9, <2>2 DEF CopyByte, Typed, TypeOK
  <2>4. UNCHANGED <<created, sessions, known, blob, sidecar>>
        /\ pc[p] = "copy"
        /\ content' = [content EXCEPT ![req[p].id] = Append(@, Head(req[p].body))]
    BY <1>9 DEF CopyByte
  <2>5. Head(req[p].body) \in Byte
    BY <1>8, <1>9 DEF CopyByte
  <2> QED
    BY <1>6, <2>1, <2>2, <2>3, <2>4, <2>5
<1>10. CASE CopyDone(p)
  <2>1. OthersSame(p) /\ Inside(p) /\ pc'[p] = "saveDigest"
    BY <1>2, <1>5, <1>10, StepInside DEF CopyDone, disk
  <2>2. req[p].id \in sessions /\ hash[p] = content[req[p].id]
    BY <1>10 DEF CopyDone, HashInv, HashOK
  <2>3. UNCHANGED <<created, sessions, known, blob, sidecar, content, hash>>
    BY <1>10 DEF CopyDone, disk
  <2> QED
    BY <1>6, <2>1, <2>2, <2>3
<1>11. CASE SaveDigest(p)
  <2> DEFINE s == [size |-> Len(content[req[p].id]), state |-> hash[p]]
  <2>1. /\ pc[p] = "saveDigest" /\ Step(p, "saveRename") /\ tmp' = [tmp EXCEPT ![p] = s]
        /\ UNCHANGED <<content, created, sessions, known, sidecar, blob, hash>>
    BY <1>11 DEF SaveDigest, WriteTmp
  <2>2. req[p].id \in sessions /\ hash[p] = content[req[p].id]
    BY <2>1 DEF HashInv, HashOK
  <2>3. /\ OthersSame(p) /\ Inside(p) /\ pc'[p] = "saveRename" /\ req' = req
        /\ tmp'[p] = s
    BY <1>2, <1>5, <2>1, StepInside DEF Step, Typed, TypeOK
  <2>4. PrivateOK(p)' /\ HashOK(p)' /\ SendOK(p)'
    BY <2>1, <2>2, <2>3 DEF PrivateOK, HashOK, SendOK, Seeding
  <2>5. OnlyItsOwn(p)
    BY <1>2, <1>5, <2>1, <2>3 DEF OnlyItsOwn
  <2>6. SidecarInv'
    BY <2>1 DEF SidecarInv, SidecarOK
  <2> QED
    BY <1>1, <2>1, <2>3, <2>4, <2>5, <2>6, Preserved
<1>12. CASE CopyBreaks(p) \/ SaveRename(p)
  <2>1. PICK l \in Waiting \cup {"idle"} : Return(p, l)
    BY <1>3, <1>12 DEF CopyBreaks, SaveRename
  <2>2. OthersSame(p) /\ Releases(p) /\ pc'[p] = l
    <3>1. \A r \in Proc \ {p} : tmp'[r] = tmp[r]
      BY <1>12 DEF CopyBreaks, SaveRename, RenameTmp, Typed, TypeOK
    <3> QED
      BY <1>5, <2>1, <3>1, ReturnReleases
  <2>3. l \notin Busy
        /\ "idle" \notin HasId
    BY DEF Waiting, HasId, Locked, Busy, Seeding
  <2>4. PrivateOK(p)' /\ HashOK(p)' /\ SendOK(p)'
    BY <2>2, <2>3 DEF PrivateOK, HashOK, SendOK, Busy, Seeding
  <2>5. UNCHANGED <<created, sessions, known, blob>>
    BY <1>12 DEF CopyBreaks, SaveRename
  <2>6. \A i \in Id : content'[i] # content[i] => pc[p] = "copy" /\ i = req[p].id
    BY <1>5, <1>12 DEF CopyBreaks, SaveRename, Typed, TypeOK
  <2>7. pc'[p] \in HasId => pc[p] \in HasId /\ req'[p].id = req[p].id
    BY <1>2, <1>5, <2>1, <2>2, <2>3 DEF Return, Proceed, Typed, TypeOK
  <2>8. OnlyItsOwn(p)
    BY <2>5, <2>6, <2>7 DEF OnlyItsOwn
  <2>9. ASSUME NEW i \in Id PROVE SidecarOK(i)'
    <3>1. content[i] \in Seq(Byte) /\ (sidecar[i] # None => sidecar[i].size \in Nat)
      BY DEF Typed, TypeOK, Sidecar
    <3>2. CASE CopyBreaks(p)
      <4> DEFINE y == Head(req[p].body)
      <4>1. content' = [content EXCEPT ![req[p].id] = Append(@, y)] /\ sidecar' = sidecar
            /\ y \in Byte
        BY <1>8, <3>2 DEF CopyBreaks
      <4> HIDE DEF y
      <4>2. Len(Append(content[i], y)) = Len(content[i]) + 1 /\ Len(content[i]) \in Nat
        BY <3>1, <4>1
      <4>3. content'[i] = content[i] \/ content'[i] = Append(content[i], y)
        BY <4>1 DEF Typed, TypeOK
      <4> QED
        BY <3>1, <4>1, <4>2, <4>3 DEF SidecarInv, SidecarOK
    <3>3. CASE SaveRename(p)
      <4> DEFINE s == [size |-> Len(content[req[p].id]), state |-> content[req[p].id]]
      <4>1. s.size = Len(content[req[p].id]) /\ s.state = content[req[p].id]
        OBVIOUS
      <4>2. sidecar' = [sidecar EXCEPT ![req[p].id] = s] /\ content' = content
        BY <3>3 DEF SaveRename, RenameTmp, HashInv, HashOK
      <4> HIDE DEF s
      <4>3. CASE i = req[p].id
        <5>1. sidecar'[i] = s
          BY <4>2, <4>3 DEF Typed, TypeOK
        <5> QED
          BY <3>1, <4>1, <4>2, <4>3, <5>1 DEF SidecarOK
      <4>4. CASE i # req[p].id
        BY <4>2, <4>4 DEF SidecarInv, SidecarOK, Typed, TypeOK
      <4> QED
        BY <4>3, <4>4
    <3> QED
      BY <1>12, <3>2, <3>3
  <2>10. SidecarInv'
    BY <2>9 DEF SidecarInv
  <2> QED
    BY <1>1, <2>2, <2>4, <2>5, <2>8, <2>10, Preserved
<1>13. CASE AppendFails(p)
  BY <1>1, <1>3, <1>5, <1>13, QuietReturn DEF AppendFails, disk, Quiet
<1>14. CASE SaveFails(p)
  <2>1. \A r \in Proc \ {p} : tmp'[r] = tmp[r]
    BY <1>14 DEF SaveFails, TmpGone, Typed, TypeOK
  <2> QED
    BY <1>1, <1>3, <1>5, <1>14, <2>1, QuietReturn DEF SaveFails, Quiet
<1> QED
  BY <1>7, <1>9, <1>10, <1>11, <1>12, <1>13, <1>14

LEMMA FinishStep ==
  ASSUME IInv, NEW p \in Proc,
         \/ CheckDigest(p) \/ Rename(p) \/ FinalizeFails(p)
         \/ DropSidecar(p) \/ RemoveFile(p) \/ RemoveFails(p)
  PROVE  IInv'
<1> USE DEF IInv
<1>1. Typed'
  BY FinishTyped
<1>2. /\ {"checkDigest", "rename", "dropAfterRename", "removeFile", "dropAfterRemove"}
           \subseteq Locked
      /\ Locked \subseteq HasId /\ "idle" \notin HasId
  BY DEF Locked, HasId, Waiting
<1>3. AfterFinalize(p, FALSE) \in Waiting \cup {"idle"}
  BY AfterTyped
<1>4. pc[p] \in {"checkDigest", "rename", "dropAfterRename", "removeFile",
                 "dropAfterRemove"}
  BY DEF CheckDigest, Rename, FinalizeFails, DropSidecar, RemoveFile, RemoveFails
<1>5. req[p].id \in Id /\ req[p].id \in created /\ pc[p] \in Locked /\ pc[p] \in HasId
  BY <1>2, <1>4 DEF Typed, TypeOK, RequestInv
<1>6. CASE CheckDigest(p)
  <2>1. CASE Step(p, "rename") /\ UNCHANGED hash
             /\ req[p].id \in sessions /\ Hash(Restored(req[p].id)) = req[p].digest
    <3>1. OthersSame(p) /\ Inside(p) /\ pc'[p] = "rename" /\ req' = req
      BY <1>2, <1>5, <1>6, <2>1, StepInside DEF CheckDigest, disk, Step
    <3>2. UNCHANGED <<content, created, sessions, known, blob, sidecar>>
      BY <1>6 DEF CheckDigest, disk
    <3>3. PrivateOK(p)' /\ HashOK(p)' /\ SendOK(p)'
      BY <1>5, <2>1, <3>1, <3>2, RestoredIsContent
         DEF PrivateOK, HashOK, SendOK, Seeding
    <3>4. OnlyItsOwn(p)
      BY <1>5, <3>1, <3>2 DEF OnlyItsOwn
    <3>5. SidecarInv'
      BY <3>2 DEF SidecarInv, SidecarOK
    <3> QED
      BY <1>1, <3>1, <3>2, <3>3, <3>4, <3>5, Preserved
  <2>2. CASE Return(p, AfterFinalize(p, FALSE))
    BY <1>1, <1>3, <1>5, <1>6, <2>2, QuietReturn DEF CheckDigest, disk, Quiet
  <2> QED
    BY <1>6, <2>1, <2>2 DEF CheckDigest
<1>7. CASE Rename(p)
  <2>1. OthersSame(p) /\ Inside(p) /\ pc'[p] = "dropAfterRename" /\ req' = req
    BY <1>2, <1>5, <1>7, StepInside DEF Rename, Step
  <2>2. /\ UNCHANGED <<content, created, known, sidecar>>
        /\ sessions' = sessions \ {req[p].id}
        /\ blob' = [blob EXCEPT ![req[p].digest] = req[p].id]
        /\ pc[p] = "rename"
    BY <1>7 DEF Rename
  <2>3. PrivateOK(p)' /\ HashOK(p)' /\ SendOK(p)'
    BY <2>1 DEF PrivateOK, HashOK, SendOK, Seeding
  <2>4. OnlyItsOwn(p)
    BY <1>5, <2>1, <2>2 DEF OnlyItsOwn
  <2>5. SidecarInv'
    BY <2>2 DEF SidecarInv, SidecarOK
  <2>6. Hash(content[req[p].id]) = req[p].digest
    BY <2>2 DEF HashInv, HashOK
  <2>7. \A d \in Digest : blob'[d] # blob[d] => BlobOK(d)'
    BY <2>2, <2>6 DEF BlobOK, Typed, TypeOK
  <2> QED
    BY <1>1, <2>1, <2>2, <2>3, <2>4, <2>5, <2>7, Preserved
<1>8. CASE FinalizeFails(p)
  BY <1>1, <1>3, <1>5, <1>8, QuietReturn DEF FinalizeFails, disk, Quiet
<1>9. CASE DropSidecar(p)
  <2>1. OthersSame(p) /\ Releases(p) /\ pc'[p] = "idle"
    BY <1>5, <1>9, ReturnReleases DEF DropSidecar
  <2>2. UNCHANGED <<content, created, sessions, known, blob>>
    BY <1>9 DEF DropSidecar
  <2>3. PrivateOK(p)' /\ HashOK(p)' /\ SendOK(p)'
    BY <2>1 DEF PrivateOK, HashOK, SendOK, Seeding
  <2>4. OnlyItsOwn(p)
    BY <1>2, <2>1, <2>2 DEF OnlyItsOwn
  <2>5. sidecar' = [sidecar EXCEPT ![req[p].id] = None] \/ sidecar' = sidecar
    BY <1>9 DEF DropSidecar
  <2>6. SidecarInv'
    BY <2>2, <2>5 DEF SidecarInv, SidecarOK, Typed, TypeOK
  <2> QED
    BY <1>1, <2>1, <2>2, <2>3, <2>4, <2>6, Preserved
<1>10. CASE Step(p, "dropAfterRemove") /\ UNCHANGED hash
            /\ (RemoveFile(p) \/ RemoveFails(p))
  <2>1. OthersSame(p) /\ Inside(p) /\ pc'[p] = "dropAfterRemove" /\ req' = req
    BY <1>2, <1>5, <1>10, StepInside DEF RemoveFile, RemoveFails, disk, Step
  <2>2. /\ UNCHANGED <<content, created, known, sidecar, blob>>
        /\ pc[p] = "removeFile"
        /\ sessions' \in {sessions, sessions \ {req[p].id}}
    BY <1>10 DEF RemoveFile, RemoveFails, disk
  <2>3. PrivateOK(p)' /\ HashOK(p)' /\ SendOK(p)'
    BY <2>1 DEF PrivateOK, HashOK, SendOK, Seeding
  <2>4. OnlyItsOwn(p)
    BY <1>5, <2>1, <2>2 DEF OnlyItsOwn
  <2>5. SidecarInv'
    BY <2>2 DEF SidecarInv, SidecarOK
  <2> QED
    BY <1>1, <2>1, <2>2, <2>3, <2>4, <2>5, Preserved
<1>11. CASE RemoveFile(p) /\ Return(p, "idle") /\ UNCHANGED sessions
  BY <1>1, <1>5, <1>11, QuietReturn DEF RemoveFile, Quiet
<1> QED
  BY <1>6, <1>7, <1>8, <1>9, <1>10, <1>11 DEF RemoveFile, RemoveFails

LEMMA BlobStep ==
  ASSUME IInv, NEW p \in Proc, OpenBlob(p) \/ Send(p) \/ CreateFails(p)
  PROVE  IInv'
<1> USE DEF IInv
<1>1. Typed'
  BY BlobTyped, StartTyped
<1>2. UNCHANGED <<content, created, sessions, known, blob, sidecar, lock, tmp>>
  BY DEF OpenBlob, Send, CreateFails, disk
<1>3. pc[p] \notin Locked
  BY DEF OpenBlob, Send, CreateFails, Locked
<1>4. CASE Proceed(p, "idle")
  BY <1>1, <1>2, <1>3, <1>4, QuietProceed DEF Quiet
<1>5. CASE OpenBlob(p) /\ blob[req[p].digest] # None
  <2>1. /\ req' = [req EXCEPT ![p] = WithId(@, blob[req[p].digest])]
        /\ pc' = [pc EXCEPT ![p] = "send"] /\ hash' = hash
        /\ req[p].digest \in Digest
    BY <1>5 DEF OpenBlob, Typed, RequestInv
  <2>2. blob[req[p].digest] \in created /\ blob[req[p].digest] \in Id
    BY <1>5, <2>1 DEF Typed, TypeOK
  <2>3. /\ req'[p].id = blob[req[p].digest] /\ req'[p].digest = req[p].digest
        /\ pc'[p] = "send" /\ OthersSame(p)
    BY <1>2, <2>1, <2>2, RequestUpdate DEF OthersSame, Typed, TypeOK
  <2>4. Unlocked(p)
    BY <1>2, <1>3, <2>3 DEF Unlocked, Locked
  <2>5. blob[req[p].digest] \notin sessions
        /\ Hash(content[blob[req[p].digest]]) = req[p].digest
    BY <1>5, <2>1 DEF BlobInv, BlobOK
  <2>6. PrivateOK(p)' /\ HashOK(p)' /\ SendOK(p)'
    BY <1>2, <2>3, <2>5 DEF PrivateOK, HashOK, SendOK, Seeding
  <2>7. OnlyItsOwn(p)
    BY <1>2, <2>3, <2>5 DEF OnlyItsOwn
  <2>8. SidecarInv'
    BY <1>2 DEF SidecarInv, SidecarOK
  <2> QED
    BY <1>1, <1>2, <2>3, <2>4, <2>6, <2>7, <2>8, Preserved
<1> QED
  BY <1>4, <1>5 DEF OpenBlob, Send, CreateFails

LEMMA DeleteBlobStep == ASSUME IInv, NEW d \in Digest, DeleteBlob(d) PROVE IInv'
<1> USE DEF IInv
<1>1. Typed'
  BY DEF DeleteBlob, Typed, TypeOK, RequestInv
<1>2. LockInv' /\ PrivateInv' /\ HashInv' /\ SidecarInv' /\ SendInv'
  BY DEF DeleteBlob, LockInv, PrivateInv, PrivateOK, HashInv, HashOK, SidecarInv,
         SidecarOK, SendInv, SendOK
<1>3. BlobInv'
  BY DEF DeleteBlob, BlobInv, BlobOK, Typed, TypeOK
<1> QED
  BY <1>1, <1>2, <1>3

\* A restart: the files are as they were and nobody is at work.
LEMMA CrashStep == ASSUME IInv, Crash PROVE IInv'
<1> USE DEF IInv
<1>1. Typed'
  BY CrashTyped
<1>2. UNCHANGED <<content, created, sessions, sidecar, blob>>
      /\ \A p \in Proc : pc'[p] = "idle"
  BY DEF Crash
<1>3. LockInv' /\ PrivateInv' /\ HashInv' /\ SendInv'
  BY <1>2 DEF LockInv, PrivateInv, PrivateOK, Seeding, HashInv, HashOK, SendInv, SendOK,
              Locked
<1>4. SidecarInv' /\ BlobInv'
  BY <1>2 DEF SidecarInv, SidecarOK, BlobInv, BlobOK
<1> QED
  BY <1>1, <1>3, <1>4

LEMMA IInvInit == Init => IInv
<1> SUFFICES ASSUME Init PROVE IInv
  OBVIOUS
<1>1. \A p \in Proc : pc[p] = "idle"
  BY DEF Init
<1>2. LockInv /\ PrivateInv /\ HashInv /\ SendInv
  BY <1>1 DEF LockInv, PrivateInv, PrivateOK, Seeding, HashInv, HashOK, SendInv, SendOK,
              Locked
<1>3. SidecarInv /\ BlobInv
  BY DEF Init, SidecarInv, SidecarOK, BlobInv, BlobOK
<1> QED
  BY <1>2, <1>3, TypedInit DEF IInv

LEMMA IInvStep == IInv /\ [Next]_vars => IInv'
<1> SUFFICES ASSUME IInv, [Next]_vars PROVE IInv'
  OBVIOUS
<1>1. ASSUME NEW p \in Proc, Handle(p) PROVE IInv'
  BY <1>1, CreateStep, SeedStep, SeedEnds, AppendStep, FinishStep, BlobStep DEF Handle
<1>2. CASE UNCHANGED vars
  <2>1. Typed'
    BY <1>2 DEF vars, IInv, Typed, TypeOK, RequestInv
  <2>2. LockInv' /\ PrivateInv' /\ HashInv'
    BY <1>2 DEF vars, IInv, LockInv, PrivateInv, PrivateOK, HashInv, HashOK
  <2>3. SidecarInv' /\ BlobInv' /\ SendInv'
    BY <1>2 DEF vars, IInv, SidecarInv, SidecarOK, BlobInv, BlobOK, SendInv, SendOK
  <2> QED
    BY <2>1, <2>2, <2>3 DEF IInv
<1> QED
  BY <1>1, <1>2, ReceiveStep, LockStep, DeleteBlobStep, CrashStep DEF Next

LEMMA Invariance == Spec => []IInv
  BY IInvInit, IInvStep, PTL DEF Spec

-----------------------------------------------------------------------------
\* Content addressing holds for any number of handlers, sessions, stripes and
\* bytes, any hash, and any assignment of sessions to stripes.
THEOREM BlobsMatchDigests == Spec => []BlobIntegrity
<1>1. IInv => BlobIntegrity
  BY DEF IInv, BlobInv, BlobOK, BlobIntegrity
<1> QED
  BY <1>1, Invariance, PTL

\* A sidecar of the right size is never wrong about the bytes.
THEOREM SidecarsAreSound == Spec => []SidecarSound
<1>1. IInv => SidecarSound
  BY DEF IInv, SidecarInv, SidecarOK, SidecarSound
<1> QED
  BY <1>1, Invariance, PTL

\* A reader is served the digest it asked for, to the last byte.
THEOREM ReadersServed == Spec => []GetServesDigest
<1>1. IInv => GetServesDigest
  BY DEF IInv, SendInv, SendOK, GetServesDigest
<1> QED
  BY <1>1, Invariance, PTL

-----------------------------------------------------------------------------
(* The files only an open session's handler can write.                     *)

\* Every step either leaves contents alone or appends one byte to one open
\* session.
LEMMA ContentStep ==
  ASSUME IInv, Next
  PROVE  \/ content' = content
         \/ \E i \in sessions, y \in Byte :
              /\ content' = [content EXCEPT ![i] = Append(@, y)]
              /\ UNCHANGED <<created, sessions, blob>>
<1> USE DEF IInv
<1>1. ASSUME NEW p \in Proc, CopyByte(p) \/ CopyBreaks(p)
      PROVE  \E i \in sessions, y \in Byte :
               /\ content' = [content EXCEPT ![i] = Append(@, y)]
               /\ UNCHANGED <<created, sessions, blob>>
  <2>1. pc[p] = "copy" /\ req[p].body # <<>>
        /\ content' = [content EXCEPT ![req[p].id] = Append(@, Head(req[p].body))]
        /\ UNCHANGED <<created, sessions, blob>>
    BY <1>1 DEF CopyByte, CopyBreaks
  <2>2. req[p].id \in sessions
    BY <2>1 DEF HashInv, HashOK
  <2>3. Head(req[p].body) \in Byte
    BY <2>1 DEF Typed, TypeOK, Request
  <2> QED
    BY <2>1, <2>2, <2>3
<1>2. ASSUME NEW p \in Proc, Handle(p), ~(CopyByte(p) \/ CopyBreaks(p))
      PROVE  content' = content
  BY <1>2 DEF Handle, Create, SeedDigest, SeedRename, SeedFails, CreateFails, OpenAppend,
     CopyDone, SaveDigest, SaveRename, SaveFails, WriteTmp, AppendFails, CheckDigest, Rename, FinalizeFails,
     DropSidecar, RemoveFile, RemoveFails, OpenBlob, Send, disk
<1>3. ASSUME NEW p \in Proc, Receive(p) \/ Lock(p) PROVE content' = content
  BY <1>3, ReceiveShape DEF Lock, disk, Quiet
<1>4. ASSUME NEW d \in Digest, DeleteBlob(d) PROVE content' = content
  BY <1>4 DEF DeleteBlob
<1>5. CASE Crash
  BY <1>5 DEF Crash
<1> QED
  BY <1>1, <1>2, <1>3, <1>4, <1>5 DEF Next

\* Once finalized or aborted, the bytes of an upload never change.
THEOREM ClosedFrozen == Spec => ClosedNeverWritten
<1>1. IInv /\ [Next]_vars => [\A i \in created \ sessions : content'[i] = content[i]]_vars
  <2> SUFFICES ASSUME IInv, Next
               PROVE  \A i \in created \ sessions : content'[i] = content[i]
    OBVIOUS
  <2> QED
    BY ContentStep DEF IInv, Typed, TypeOK
<1> QED
  BY <1>1, Invariance, PTL DEF Spec, ClosedNeverWritten

-----------------------------------------------------------------------------
(* Nothing but a crash, a failing remove or a failing rename leaves files. *)

Starting == {"post", "mono"}
Drops == {"dropAfterRename", "dropAfterRemove"}

\* A handler that will finish, abort or hand out its session, or that is about
\* to drop a sidecar: the files are in good hands.
Minds(p) == req[p].op \in Starting \/ pc[p] \in Drops

\* Where each kind of request can be.
OpOK(p) ==
  /\ pc[p] = "idle" => req[p] = NoRequest
  /\ pc[p] = "create" => req[p].id = None
  /\ pc[p] \in {"create"} \cup Seeding => req[p].op \in Starting
  /\ req[p].op = "post" => pc[p] \in {"create"} \cup Seeding
  /\ pc[p] \in {"openBlob", "send"} <=> req[p].op = "get"
  /\ pc[p] \in Seeding => sidecar[req[p].id] = None
  /\ pc[p] \in Drops => req[p].id \notin sessions \/ req[p].id \in leaked

\* A session that one request starts and uses is nobody else's.
OwnOK(p) ==
  req[p].op \in Starting /\ req[p].id # None =>
    /\ req[p].id \notin known
    /\ pc[p] \notin Drops => req[p].id \in sessions
    /\ \A q \in Proc \ {p} : req[q].id = req[p].id => req[q].op = "get"

LeakOK(i) ==
  i \in created \ leaked =>
    \/ i \in known /\ i \in sessions
    \/ i \notin sessions /\ sidecar[i] = None
    \/ \E p \in Proc : Minds(p) /\ req[p].id = i

LeakInv ==
  /\ \A p \in Proc : OpOK(p) /\ OwnOK(p)
  /\ \A i \in Id : LeakOK(i)
  /\ \A i \in Id \ created : sidecar[i] = None
  /\ strays \subseteq leaked

LInv == IInv /\ LeakInv

PublicFiles == <<created, sessions, known, sidecar, strays, leaked>>

LEMMA OwnSession ==
  ASSUME LInv, NEW p \in Proc, pc[p] \in HasId \ {"send"}
  PROVE  /\ req[p].id \in created /\ req[p].id \in Id /\ req[p].id # None
         /\ req[p].op # "get"
<1>1. req[p].id \in created /\ created \in SUBSET Id /\ None \notin Id
  BY ConstantsAssumption DEF LInv, IInv, Typed, TypeOK, RequestInv
<1>2. pc[p] \notin {"openBlob", "send"}
  BY DEF HasId, Waiting, Locked
<1> QED
  BY <1>1, <1>2 DEF LInv, LeakInv, OpOK

\* A handler at work on its session, with nobody else's in its hands.
LEMMA LeakBy ==
  ASSUME LInv, NEW p \in Proc, pc[p] \in HasId \ {"send"},
         \A q \in Proc \ {p} : pc'[q] = pc[q] /\ req'[q] = req[q],
         created' = created, leaked \subseteq leaked', strays' \subseteq leaked',
         known \subseteq known', known' \subseteq known \cup {req[p].id},
         sessions' \subseteq sessions, sessions \subseteq sessions' \cup {req[p].id},
         \A i \in Id \ {req[p].id} : sidecar'[i] = sidecar[i],
         OpOK(p)',
         req'[p].id \in {None, req[p].id},
         req'[p].op \in Starting =>
           /\ req[p].op \in Starting /\ req'[p].id = req[p].id /\ known' = known
           /\ pc'[p] \notin Drops => req[p].id \in sessions',
         \A i \in {req[p].id} : LeakOK(i)'
  PROVE  LeakInv'
<1>1. req[p].id \in created /\ req[p].id \in Id /\ req[p].id # None /\ req[p].op # "get"
  BY OwnSession
<1>2. ASSUME NEW q \in Proc \ {p}, req[q].op \in Starting, req[q].id # None
      PROVE  req[q].id # req[p].id
  BY <1>1, <1>2 DEF LInv, LeakInv, OwnOK
<1>3. ASSUME NEW q \in Proc \ {p} PROVE OpOK(q)'
  <2>1. pc[q] \in Seeding => /\ req[q].op \in Starting /\ req[q].id # None
                             /\ req[q].id \in Id /\ sidecar[req[q].id] = None
    BY OwnSession DEF LInv, LeakInv, OpOK, HasId, Seeding
  <2>2. pc[q] \in Seeding => sidecar'[req[q].id] = None
    BY <1>2, <2>1
  <2> QED
    BY <2>2 DEF LInv, LeakInv, OpOK
<1>4. ASSUME NEW q \in Proc \ {p} PROVE OwnOK(q)'
  <2> SUFFICES ASSUME req[q].op \in Starting, req[q].id # None
               PROVE  /\ req[q].id \notin known'
                      /\ pc[q] \notin Drops => req[q].id \in sessions'
                      /\ \A o \in Proc \ {q} : req'[o].id = req[q].id => req'[o].op = "get"
    BY DEF OwnOK
  <2>1. req[q].id # req[p].id
    BY <1>2
  <2>2. /\ req[q].id \notin known
        /\ pc[q] \notin Drops => req[q].id \in sessions
        /\ \A o \in Proc \ {q} : req[o].id = req[q].id => req[o].op = "get"
    BY DEF LInv, LeakInv, OwnOK
  <2> QED
    BY <2>1, <2>2
<1>5. OwnOK(p)'
  BY DEF LInv, LeakInv, OwnOK
<1>6. ASSUME NEW i \in Id, i # req[p].id PROVE LeakOK(i)'
  <2>1. (i \in known <=> i \in known') /\ (i \in sessions <=> i \in sessions')
        /\ sidecar'[i] = sidecar[i]
    BY <1>6
  <2>2. ASSUME NEW q \in Proc, Minds(q), req[q].id = i PROVE Minds(q)' /\ req'[q].id = i
    BY <1>6, <2>2 DEF Minds
  <2> QED
    BY <2>1, <2>2 DEF LInv, LeakInv, LeakOK
<1>7. \A i \in Id \ created : sidecar'[i] = None
  BY <1>1 DEF LInv, LeakInv
<1> QED
  BY <1>3, <1>4, <1>5, <1>6, <1>7 DEF LeakInv

\* It goes from one step to another, and the files stay as they are.
LEMMA LeakGoesOn ==
  ASSUME LInv, NEW p \in Proc,
         pc[p] \in (Waiting \cup Locked) \ Drops, pc'[p] \in (Waiting \cup Locked) \ Drops,
         \A q \in Proc \ {p} : pc'[q] = pc[q] /\ req'[q] = req[q],
         req'[p].id = req[p].id, req'[p].op = req[p].op,
         UNCHANGED PublicFiles
  PROVE  LeakInv'
<1>1. req[p].id \in created /\ req[p].id \in Id /\ req[p].id # None /\ req[p].op # "get"
  BY OwnSession DEF HasId, Waiting, Locked
<1>2. /\ pc[p] \notin {"idle", "create", "openBlob", "send"} \cup Seeding
      /\ pc'[p] \notin {"idle", "create", "openBlob", "send"} \cup Seeding
  BY DEF Waiting, Locked, Seeding
<1>3. OpOK(p)' /\ (req[p].op \in Starting => req[p].id \in sessions)
  BY <1>1, <1>2 DEF LInv, LeakInv, OpOK, OwnOK
<1>4. \A i \in {req[p].id} : LeakOK(i)'
  BY <1>1 DEF LInv, LeakInv, LeakOK, Minds, PublicFiles
<1> QED
  BY <1>1, <1>3, <1>4, LeakBy DEF LInv, LeakInv, PublicFiles, HasId, Waiting, Locked

LEMMA IdleOp ==
  /\ NoRequest.op \notin Starting \cup {"post", "mono", "get"}
  /\ NoRequest.id = None
  /\ "idle" \notin {"create", "openBlob", "send"} \cup Seeding \cup Drops
  BY DEF NoRequest, Req, Starting, Seeding, Drops

\* It replies, or waits for its stripe again.
LEMMA LeakReturns ==
  ASSUME LInv, NEW p \in Proc, NEW l \in Waiting \cup {"idle"}, Proceed(p, l),
         pc[p] \in Locked \ Drops, l = "idle" => req[p].op \notin Starting,
         UNCHANGED PublicFiles
  PROVE  LeakInv'
<1>1. \A q \in Proc \ {p} : pc'[q] = pc[q] /\ req'[q] = req[q]
  BY DEF Proceed, LInv, IInv, Typed, TypeOK
<1>2. pc'[p] = l /\ req'[p] = IF l = "idle" THEN NoRequest ELSE req[p]
  BY DEF Proceed, LInv, IInv, Typed, TypeOK
<1>3. CASE l # "idle"
  BY <1>1, <1>2, <1>3, LeakGoesOn DEF Waiting, Drops
<1>4. CASE l = "idle"
  <2>1. OpOK(p)'
    BY <1>2, <1>4, IdleOp DEF OpOK, Drops
  <2>2. \A i \in {req[p].id} : LeakOK(i)'
    <3>1. req[p].id \in Id /\ ~Minds(p)
      BY <1>4, OwnSession DEF Minds, HasId, Locked
    <3> QED
      BY <1>1, <3>1 DEF LInv, LeakInv, LeakOK, Minds, PublicFiles
  <2> QED
    BY <1>1, <1>2, <1>4, <2>1, <2>2, IdleOp, LeakBy
       DEF LInv, LeakInv, PublicFiles, HasId, Locked
<1> QED
  BY <1>3, <1>4

\* A handler that has no session: requests that come, and readers of blobs.
LEMMA LeakBeside ==
  ASSUME LInv, NEW p \in Proc, ~Minds(p) \/ req[p].id = None,
         \A q \in Proc \ {p} : pc'[q] = pc[q] /\ req'[q] = req[q],
         UNCHANGED PublicFiles, OpOK(p)',
         req'[p].op \in Starting => req'[p].id = None,
         req'[p].id \in known \cup {None} \/ req'[p].op = "get"
  PROVE  LeakInv'
<1>0. None \notin Id
  BY ConstantsAssumption
<1>1. ASSUME NEW q \in Proc \ {p} PROVE OpOK(q)' /\ OwnOK(q)'
  BY DEF LInv, LeakInv, OpOK, OwnOK, PublicFiles
<1>2. OwnOK(p)'
  BY DEF OwnOK
<1>3. ASSUME NEW i \in Id PROVE LeakOK(i)'
  BY <1>0 DEF LInv, LeakInv, LeakOK, Minds, PublicFiles
<1> QED
  BY <1>1, <1>2, <1>3 DEF LInv, LeakInv, PublicFiles

LEMMA LeakReceive == ASSUME LInv, NEW p \in Proc, Receive(p) PROVE LeakInv'
<1>1. /\ OthersSame(p) /\ Quiet /\ known' = known /\ req'[p].id \in known \cup {None}
  BY ReceiveShape DEF LInv, IInv
<1>2. pc[p] = "idle" /\ leaked' = leaked /\ strays' = strays
  BY DEF Receive, RecvStart, RecvPatch, RecvPut, RecvAbort, RecvGet, Arrive, disk
<1>3. ~Minds(p)
  BY <1>2, IdleOp DEF LInv, LeakInv, OpOK, Minds, Drops
<1>4. PICK r, l : /\ pc'[p] = l /\ req'[p] = r
                  /\ \/ r.op \in Starting /\ r.id = None /\ l = "create"
                     \/ r.op \in {"patch", "put", "delete"} /\ l \in Waiting
                     \/ r.op = "get" /\ l = "openBlob"
  BY DEF Receive, RecvStart, RecvPatch, RecvPut, RecvAbort, RecvGet, Arrive, Req, Starting,
         Waiting, LInv, IInv, Typed, TypeOK
<1>5. OpOK(p)' /\ (r.op \in Starting => r.id = None)
  BY <1>4 DEF OpOK, Drops, Waiting, Starting, Seeding
<1> QED
  BY <1>1, <1>2, <1>3, <1>4, <1>5, LeakBeside DEF OthersSame, Quiet, PublicFiles

LEMMA LeakLock == ASSUME LInv, NEW p \in Proc, Lock(p) PROVE LeakInv'
<1>1. /\ OthersSame(p) /\ Quiet /\ known' = known /\ req'[p] = req[p]
      /\ pc[p] \in Waiting /\ pc'[p] \in {"openAppend", "checkDigest", "removeFile"}
  BY LockShape DEF LInv, IInv, Acquires
<1>2. leaked' = leaked /\ strays' = strays
  BY DEF Lock, disk
<1> QED
  BY <1>1, <1>2, LeakGoesOn DEF OthersSame, Quiet, PublicFiles, Waiting, Locked, Drops

LEMMA LeakStart ==
  ASSUME LInv, NEW p \in Proc,
         Create(p) \/ SeedDigest(p) \/ SeedRename(p) \/ SeedFails(p) \/ CreateFails(p)
  PROVE  LeakInv'
<1> USE DEF LInv, IInv, Typed, TypeOK
<1>1. CASE Create(p)
  <2>1. PICK i \in Id \ created :
          /\ created' = created \cup {i} /\ sessions' = sessions \cup {i}
          /\ req' = [req EXCEPT ![p] = WithId(@, i)]
    BY <1>1 DEF Create
  <2>2. /\ pc[p] = "create" /\ pc' = [pc EXCEPT ![p] = "seedDigest"]
        /\ UNCHANGED <<known, sidecar, strays, leaked>>
    BY <1>1 DEF Create
  <2>3. req'[p].id = i /\ req'[p].op = req[p].op /\ req[p].op \in Starting /\ req[p].id = None
    BY <2>1, <2>2 DEF WithId, Req, LeakInv, OpOK
  <2>4. i # None /\ \A q \in Proc : req[q].id # i
    BY <2>1, ConstantsAssumption DEF RequestInv
  <2>5. \A q \in Proc \ {p} : pc'[q] = pc[q] /\ req'[q] = req[q]
    BY <2>1, <2>2
  <2>6. ASSUME NEW q \in Proc PROVE OpOK(q)'
    <3>1. CASE q = p
      BY <2>1, <2>2, <2>3, <3>1 DEF LeakInv, OpOK, Starting, Drops, Seeding
    <3>2. CASE q # p
      BY <2>1, <2>2, <2>4, <2>5, <3>2 DEF LeakInv, OpOK
    <3> QED
      BY <3>1, <3>2
  <2>7. ASSUME NEW q \in Proc PROVE OwnOK(q)'
    <3>1. CASE q = p
      BY <2>1, <2>2, <2>3, <2>4, <2>5, <3>1 DEF OwnOK
    <3>2. CASE q # p
      BY <2>1, <2>2, <2>3, <2>4, <2>5, <3>2 DEF LeakInv, OwnOK
    <3> QED
      BY <3>1, <3>2
  <2>8. ASSUME NEW j \in Id PROVE LeakOK(j)'
    <3>1. CASE j = i
      BY <2>3, <3>1 DEF LeakOK, Minds
    <3>2. CASE j # i
      <4>1. \A q \in Proc : Minds(q) /\ req[q].id = j => q # p
        BY <2>3, ConstantsAssumption
      <4> QED
        BY <2>1, <2>2, <2>5, <3>2, <4>1 DEF LeakInv, LeakOK, Minds
    <3> QED
      BY <3>1, <3>2
  <2> QED
    BY <2>1, <2>2, <2>6, <2>7, <2>8 DEF LeakInv
<1>2. CASE SeedDigest(p)
  <2>1. /\ pc[p] = "seedDigest" /\ pc' = [pc EXCEPT ![p] = "seedRename"] /\ req' = req
        /\ UNCHANGED PublicFiles
    BY <1>2 DEF SeedDigest, WriteTmp, Step, PublicFiles
  <2>2. pc'[p] = "seedRename" /\ \A q \in Proc \ {p} : pc'[q] = pc[q] /\ req'[q] = req[q]
    BY <2>1
  <2>3. /\ OpOK(p)
        /\ req[p].op \in Starting /\ req[p].id # None /\ req[p].id \in Id
    BY <2>1, OwnSession DEF LeakInv, OpOK, HasId, Seeding
  <2>4. OpOK(p)'
    BY <2>1, <2>2, <2>3 DEF OpOK, Seeding, Drops, PublicFiles
  <2>5. req[p].id \in sessions
    BY <2>1 DEF PrivateInv, PrivateOK, Seeding
  <2>6. \A i \in {req[p].id} : LeakOK(i)'
    BY <2>1, <2>3 DEF LeakOK, Minds
  <2> QED
    BY <2>1, <2>2, <2>3, <2>4, <2>5, <2>6, LeakBy DEF HasId, LeakInv, PublicFiles
<1>3. CASE SeedRename(p)
  <2>1. pc[p] = "seedRename" /\ req[p].op \in Starting /\ req[p].id \in sessions
    BY <1>3 DEF SeedRename, LeakInv, OpOK, PrivateInv, PrivateOK, Seeding
  <2>2. req[p].id \in Id /\ req[p].id # None
    BY <2>1, OwnSession DEF HasId
  <2>3. /\ UNCHANGED <<created, sessions, strays, leaked>>
        /\ \A i \in Id \ {req[p].id} : sidecar'[i] = sidecar[i]
    BY <1>3 DEF SeedRename, RenameTmp
  <2>4. CASE req[p].op = "mono"
    <3>1. Proceed(p, "lockAppend") /\ known' = known
      BY <1>3, <2>4 DEF SeedRename
    <3>2. /\ pc'[p] = "lockAppend" /\ req'[p] = req[p]
          /\ \A q \in Proc \ {p} : pc'[q] = pc[q] /\ req'[q] = req[q]
      BY <3>1 DEF Proceed
    <3>3. OpOK(p)' /\ \A i \in {req[p].id} : LeakOK(i)'
      BY <2>4, <3>2 DEF OpOK, LeakOK, Minds, Starting, Drops, Seeding
    <3> QED
      BY <2>1, <2>3, <3>1, <3>2, <3>3, LeakBy DEF HasId, LeakInv
  <2>5. CASE req[p].op # "mono"
    <3>1. Proceed(p, "idle") /\ known' = known \cup {req[p].id}
      BY <1>3, <2>5 DEF SeedRename
    <3>2. /\ pc'[p] = "idle" /\ req'[p] = NoRequest
          /\ \A q \in Proc \ {p} : pc'[q] = pc[q] /\ req'[q] = req[q]
      BY <3>1 DEF Proceed
    <3>3. OpOK(p)' /\ \A i \in {req[p].id} : LeakOK(i)'
      BY <2>1, <2>3, <3>1, <3>2, IdleOp DEF OpOK, LeakOK, Drops
    <3> QED
      BY <2>1, <2>3, <3>1, <3>2, <3>3, IdleOp, LeakBy DEF HasId, LeakInv
  <2> QED
    BY <2>4, <2>5
<1>4. CASE SeedFails(p)
  <2>1. /\ pc[p] \in Seeding /\ Proceed(p, "idle")
        /\ UNCHANGED <<created, known, sidecar>>
        /\ leaked' \in {leaked, leaked \cup {req[p].id}}
        /\ sessions' \in {sessions, sessions \ {req[p].id}}
        /\ strays' \in {strays, strays \cup {req[p].id}}
    BY <1>4 DEF SeedFails, TmpGone, Seeding
  <2>2. /\ pc'[p] = "idle" /\ req'[p] = NoRequest
        /\ \A q \in Proc \ {p} : pc'[q] = pc[q] /\ req'[q] = req[q]
    BY <2>1 DEF Proceed
  <2>3. /\ req[p].id \in leaked' \/ (req[p].id \notin sessions' /\ strays' = strays)
        /\ strays' \subseteq leaked'
    BY <1>4 DEF SeedFails, TmpGone, LeakInv
  <2>4. OpOK(p)' /\ \A i \in {req[p].id} : LeakOK(i)'
    BY <2>1, <2>2, <2>3, IdleOp DEF LeakInv, OpOK, LeakOK, Drops
  <2> QED
    BY <2>1, <2>2, <2>3, <2>4, IdleOp, LeakBy DEF HasId, Seeding
<1>5. CASE CreateFails(p)
  <2>1. /\ pc[p] = "create" /\ Proceed(p, "idle")
        /\ UNCHANGED PublicFiles
    BY <1>5 DEF CreateFails, disk, PublicFiles
  <2>2. /\ pc'[p] = "idle" /\ req'[p] = NoRequest
        /\ \A q \in Proc \ {p} : pc'[q] = pc[q] /\ req'[q] = req[q]
    BY <2>1 DEF Proceed
  <2>3. OpOK(p)' /\ req[p].id = None
    BY <2>1, <2>2, IdleOp DEF LeakInv, OpOK, Drops
  <2> QED
    BY <2>1, <2>2, <2>3, IdleOp, LeakBeside
<1> QED
  BY <1>1, <1>2, <1>3, <1>4, <1>5

LEMMA LeakAppend ==
  ASSUME LInv, NEW p \in Proc,
         \/ OpenAppend(p) \/ CopyByte(p) \/ CopyDone(p) \/ CopyBreaks(p)
         \/ SaveDigest(p) \/ SaveRename(p) \/ SaveFails(p) \/ AppendFails(p)
  PROVE  LeakInv'
<1> USE DEF LInv, IInv, Typed, TypeOK
<1>1. pc[p] \in {"openAppend", "copy", "saveDigest", "saveRename"}
  BY DEF OpenAppend, CopyByte, CopyDone, CopyBreaks, SaveDigest, SaveRename, SaveFails,
         AppendFails
<1>2. /\ pc[p] \in Locked \ Drops
      /\ {"copy", "saveDigest", "saveRename"} \subseteq Locked \ Drops
      /\ req[p].op # "post" /\ req[p].id \in Id
  BY <1>1, OwnSession DEF LeakInv, OpOK, Locked, Drops, HasId, Seeding
<1>3. \A ok \in BOOLEAN : /\ AfterAppend(p, ok) \in Waiting \cup {"idle"}
                          /\ AfterAppend(p, ok) = "idle" => req[p].op \notin Starting
  BY <1>2 DEF AfterAppend, Waiting, Starting
<1>4. CASE OpenAppend(p)
  <2>1. UNCHANGED PublicFiles
    BY <1>4 DEF OpenAppend, disk, PublicFiles
  <2>2. CASE Step(p, "copy")
    BY <1>2, <2>1, <2>2, LeakGoesOn DEF Step
  <2>3. CASE Return(p, AfterAppend(p, FALSE))
    BY <1>2, <1>3, <2>1, <2>3, LeakReturns DEF Return
  <2> QED
    BY <1>4, <2>2, <2>3 DEF OpenAppend
<1>5. CASE CopyByte(p)
  <2>1. /\ UNCHANGED PublicFiles /\ pc' = pc
        /\ req' = [req EXCEPT ![p] = WithBody(@, Tail(@.body))]
    BY <1>5 DEF CopyByte, PublicFiles
  <2>2. /\ req'[p].id = req[p].id /\ req'[p].op = req[p].op
        /\ \A q \in Proc \ {p} : req'[q] = req[q]
    BY <2>1 DEF WithBody, Req
  <2> QED
    BY <1>2, <2>1, <2>2, LeakGoesOn
<1>6. CASE CopyDone(p)
  <2>1. UNCHANGED PublicFiles /\ Step(p, "saveDigest")
    BY <1>6 DEF CopyDone, disk, PublicFiles
  <2> QED
    BY <1>2, <2>1, LeakGoesOn DEF Step
<1>7. CASE CopyBreaks(p) \/ AppendFails(p)
  <2>1. UNCHANGED PublicFiles /\ Proceed(p, AfterAppend(p, FALSE))
    BY <1>7 DEF CopyBreaks, AppendFails, disk, PublicFiles, Return
  <2> QED
    BY <1>2, <1>3, <2>1, LeakReturns
<1>8. CASE SaveDigest(p)
  <2>1. UNCHANGED PublicFiles /\ Step(p, "saveRename")
    BY <1>8 DEF SaveDigest, WriteTmp, PublicFiles
  <2> QED
    BY <1>2, <2>1, LeakGoesOn DEF Step
<1>9. CASE SaveRename(p) \/ SaveFails(p)
  <2>1. PICK l \in Waiting \cup {"idle"} :
          Proceed(p, l) /\ (l = "idle" => req[p].op \notin Starting)
    BY <1>3, <1>9 DEF SaveRename, SaveFails, Return
  <2>2. /\ UNCHANGED <<created, sessions, known>> /\ pc[p] \in {"saveDigest", "saveRename"}
        /\ leaked \subseteq leaked' /\ strays' \subseteq leaked'
        /\ \A i \in Id \ {req[p].id} : sidecar'[i] = sidecar[i]
    BY <1>9 DEF SaveRename, SaveFails, RenameTmp, TmpGone, LeakInv
  <2>3. /\ pc'[p] = l /\ req'[p] = (IF l = "idle" THEN NoRequest ELSE req[p])
        /\ \A q \in Proc \ {p} : pc'[q] = pc[q] /\ req'[q] = req[q]
    BY <2>1 DEF Proceed
  <2>4. req[p].id \in sessions
    BY <2>2 DEF HashInv, HashOK
  <2>5. OpOK(p)'
    <3>1. CASE l = "idle"
      BY <2>3, <3>1, IdleOp DEF OpOK, Drops
    <3>2. CASE l # "idle"
      BY <1>2, <2>2, <2>3, <3>2 DEF LeakInv, OpOK, Waiting, Drops, Seeding
    <3> QED
      BY <3>1, <3>2
  <2>6. \A i \in {req[p].id} : LeakOK(i)'
    <3>1. req[p].op \in Starting => Minds(p)' /\ req'[p].id = req[p].id
      BY <2>1, <2>3 DEF Minds
    <3>2. req[p].op \notin Starting => ~Minds(p)
      BY <1>2 DEF Minds
    <3>3. CASE req[p].op \in Starting
      BY <3>1, <3>3 DEF LeakOK
    <3>4. CASE req[p].op \notin Starting
      <4>1. \A q \in Proc : Minds(q) /\ req[q].id = req[p].id =>
              Minds(q)' /\ req'[q].id = req[p].id
        BY <2>3, <3>2, <3>4 DEF Minds
      <4>2. LeakOK(req[p].id)
        BY <1>2 DEF LeakInv
      <4> QED
        BY <2>2, <2>4, <4>1, <4>2 DEF LeakOK
    <3> QED
      BY <3>3, <3>4
  <2> QED
    BY <2>2, <2>3, <2>4, <2>5, <2>6, IdleOp, LeakBy DEF HasId, Locked
<1> QED
  BY <1>4, <1>5, <1>6, <1>7, <1>8, <1>9

LEMMA LeakFinish ==
  ASSUME LInv, NEW p \in Proc,
         \/ CheckDigest(p) \/ Rename(p) \/ FinalizeFails(p) \/ DropSidecar(p)
         \/ RemoveFile(p) \/ RemoveFails(p)
  PROVE  LeakInv'
<1> USE DEF LInv, IInv, Typed, TypeOK
<1>1. pc[p] \in {"checkDigest", "rename", "removeFile"} \cup Drops
  BY DEF CheckDigest, Rename, FinalizeFails, DropSidecar, RemoveFile, RemoveFails, Drops
<1>2. /\ pc[p] \in HasId \ {"send"} /\ req[p].op \notin {"post", "get"}
      /\ req[p].id \in Id /\ req[p].id # None
  <2>1. pc[p] \in HasId \ {"send"} /\ pc[p] \notin {"create"} \cup Seeding
    BY <1>1 DEF HasId, Locked, Drops, Seeding
  <2> QED
    BY <2>1, OwnSession DEF LeakInv, OpOK
<1>3. CASE CheckDigest(p) \/ FinalizeFails(p)
  <2>1. UNCHANGED PublicFiles /\ pc[p] \in Locked \ Drops /\ "rename" \in Locked \ Drops
    BY <1>3 DEF CheckDigest, FinalizeFails, disk, PublicFiles, Locked, Drops
  <2>2. CASE Step(p, "rename")
    BY <2>1, <2>2, LeakGoesOn DEF Step
  <2>3. CASE Return(p, AfterFinalize(p, FALSE))
    <3>1. /\ AfterFinalize(p, FALSE) \in Waiting \cup {"idle"}
          /\ AfterFinalize(p, FALSE) = "idle" => req[p].op \notin Starting
      BY <1>2 DEF AfterFinalize, Waiting, Starting
    <3> QED
      BY <2>1, <2>3, <3>1, LeakReturns DEF Return
  <2> QED
    BY <1>3, <2>2, <2>3 DEF CheckDigest, FinalizeFails
<1>4. CASE Rename(p) \/ RemoveFails(p) \/ (RemoveFile(p) /\ req[p].id \in sessions)
  <2>1. PICK l \in Drops : Step(p, l)
    BY <1>4 DEF Rename, RemoveFails, RemoveFile, Drops
  <2>2. /\ pc'[p] = l /\ req' = req /\ \A q \in Proc \ {p} : pc'[q] = pc[q]
        /\ l \notin {"idle", "create", "openBlob", "send"} \cup Seeding
    BY <2>1 DEF Step, Drops, Seeding
  <2>3. /\ UNCHANGED <<created, known, sidecar, strays>> /\ leaked \subseteq leaked'
        /\ sessions' \subseteq sessions /\ sessions \subseteq sessions' \cup {req[p].id}
        /\ req[p].id \notin sessions' \/ req[p].id \in leaked'
    BY <1>4 DEF Rename, RemoveFails, RemoveFile, disk
  <2>4. OpOK(p)' /\ \A i \in {req[p].id} : LeakOK(i)'
    BY <1>2, <2>2, <2>3 DEF OpOK, LeakOK, Minds
  <2> QED
    BY <1>2, <2>2, <2>3, <2>4, LeakBy DEF LeakInv
<1>5. CASE RemoveFile(p) /\ req[p].id \notin sessions
  <2>1. UNCHANGED PublicFiles /\ Return(p, "idle") /\ pc[p] = "removeFile"
    BY <1>5 DEF RemoveFile, PublicFiles
  <2>2. req[p].op \notin Starting /\ pc[p] \in Locked \ Drops
    BY <1>2, <1>5, <2>1 DEF LeakInv, OwnOK, Locked, Drops
  <2> QED
    BY <2>1, <2>2, LeakReturns DEF Return
<1>6. CASE DropSidecar(p)
  <2>1. /\ pc[p] \in Drops /\ Proceed(p, "idle")
        /\ UNCHANGED <<created, sessions, known, strays>> /\ leaked \subseteq leaked'
        /\ \A i \in Id \ {req[p].id} : sidecar'[i] = sidecar[i]
        /\ sidecar'[req[p].id] = None \/ req[p].id \in leaked'
    BY <1>2, <1>6 DEF DropSidecar, Return, Drops
  <2>2. /\ pc'[p] = "idle" /\ req'[p] = NoRequest
        /\ \A q \in Proc \ {p} : pc'[q] = pc[q] /\ req'[q] = req[q]
    BY <2>1 DEF Proceed
  <2>3. req[p].id \notin sessions \/ req[p].id \in leaked
    BY <2>1 DEF LeakInv, OpOK
  <2>4. OpOK(p)' /\ \A i \in {req[p].id} : LeakOK(i)'
    BY <2>1, <2>2, <2>3, IdleOp DEF OpOK, LeakOK, Drops
  <2> QED
    BY <1>2, <2>1, <2>2, <2>4, IdleOp, LeakBy DEF LeakInv
<1> QED
  BY <1>3, <1>4, <1>5, <1>6

LEMMA LeakBlob ==
  ASSUME LInv, NEW p \in Proc, OpenBlob(p) \/ Send(p)
  PROVE  LeakInv'
<1> USE DEF LInv, IInv, Typed, TypeOK
<1>1. /\ pc[p] \in {"openBlob", "send"} /\ req[p].op = "get" /\ UNCHANGED PublicFiles
      /\ ~Minds(p)
  BY DEF OpenBlob, Send, LeakInv, OpOK, Minds, Drops, Starting, disk, PublicFiles
<1>2. /\ \A q \in Proc \ {p} : pc'[q] = pc[q] /\ req'[q] = req[q]
      /\ \/ pc'[p] = "idle" /\ req'[p] = NoRequest
         \/ pc'[p] = "send" /\ req'[p].op = "get"
  <2>1. \A i : WithId(req[p], i).op = req[p].op
    BY DEF WithId, Req
  <2> QED
    BY <1>1, <2>1 DEF OpenBlob, Send, Proceed
<1>3. OpOK(p)'
  BY <1>2, IdleOp DEF OpOK, Drops, Starting, Seeding
<1> QED
  BY <1>1, <1>2, <1>3, IdleOp, LeakBeside DEF Starting

LEMMA LeakCrash == ASSUME LInv, Crash PROVE LeakInv'
<1> USE DEF LInv, IInv, Typed, TypeOK
<1>1. \A p \in Proc : pc'[p] = "idle" /\ req'[p] = NoRequest
  BY DEF Crash
<1>2. /\ UNCHANGED <<created, sessions, known, sidecar>> /\ leaked \subseteq leaked'
      /\ strays' \subseteq leaked'
  <2>1. \A p \in Proc : pc[p] \in Renaming => req[p].id \in created
    BY DEF RequestInv, HasId, Locked, Renaming
  <2> QED
    BY <2>1 DEF Crash, LeakInv
<1>3. \A i \in created \ leaked' : ~\E p \in Proc : Minds(p) /\ req[p].id = i
  BY DEF Crash, Minds, Starting, Drops
<1>4. \A p \in Proc : OpOK(p)' /\ OwnOK(p)'
  BY <1>1, IdleOp DEF OpOK, OwnOK, Drops
<1>5. \A i \in Id : LeakOK(i)'
  BY <1>2, <1>3 DEF LeakInv, LeakOK
<1> QED
  BY <1>2, <1>4, <1>5 DEF LeakInv

LEMMA LeakSame ==
  ASSUME LInv, UNCHANGED <<pc, req>>, UNCHANGED PublicFiles PROVE LeakInv'
  BY DEF LInv, LeakInv, OpOK, OwnOK, LeakOK, Minds, PublicFiles

LEMMA LInvInit == Init => LInv
<1> SUFFICES ASSUME Init PROVE LInv
  OBVIOUS
<1>1. LeakInv
  BY IdleOp DEF Init, LeakInv, OpOK, OwnOK, LeakOK, Drops
<1> QED
  BY <1>1, IInvInit DEF LInv

LEMMA LInvStep == LInv /\ [Next]_vars => LInv'
<1> SUFFICES ASSUME LInv, [Next]_vars PROVE LeakInv'
  BY IInvStep DEF LInv
<1>2. ASSUME NEW p \in Proc, Handle(p) PROVE LeakInv'
  BY <1>2, LeakStart, LeakAppend, LeakFinish, LeakBlob DEF Handle
<1>3. CASE UNCHANGED vars \/ \E d \in Digest : DeleteBlob(d)
  <2>1. UNCHANGED <<pc, req>> /\ UNCHANGED PublicFiles
    BY <1>3 DEF vars, PublicFiles, DeleteBlob
  <2> QED
    BY <2>1, LeakSame
<1>4. CASE \E p \in Proc : Receive(p) \/ Lock(p)
  BY <1>4, LeakReceive, LeakLock
<1>5. CASE Crash
  BY <1>5, LeakCrash
<1> QED
  BY <1>2, <1>3, <1>4, <1>5 DEF Next

\* Every other error path cleans up after itself: whatever fails and overlaps,
\* only a crash, a failing remove or a failing rename of a temporary file leaves
\* temporary files or the files of a session nobody can resume.
THEOREM NothingElseLeaks == Spec => []OnlyCrashLeaks
<1>1. LInv => OnlyCrashLeaks
  <2> SUFFICES ASSUME LInv, NEW i \in created \ leaked
               PROVE  /\ i \notin strays
                      /\ \/ i \in known /\ i \in sessions
                         \/ i \notin sessions /\ sidecar[i] = None
                         \/ \E p \in Proc : pc[p] # "idle" /\ req[p].id = i
    BY DEF OnlyCrashLeaks
  <2>1. i \in Id /\ LeakOK(i) /\ i \notin strays
    BY DEF LInv, LeakInv, IInv, Typed, TypeOK
  <2>2. ASSUME NEW p \in Proc, Minds(p) PROVE pc[p] # "idle"
    BY <2>2, IdleOp DEF LInv, LeakInv, OpOK, Minds, Drops
  <2> QED
    BY <2>1, <2>2 DEF LeakOK
<1>2. LInv /\ [Next]_vars => LInv'
  BY LInvStep
<1> QED
  BY <1>1, <1>2, LInvInit, PTL DEF Spec

-----------------------------------------------------------------------------
(* Refinement of the abstract content store.                               *)

LEMMA RefineInit == Init => Abstract!Init
<1> SUFFICES ASSUME Init PROVE Abstract!Init
  OBVIOUS
<1>1. status = [i \in Id |-> "unused"] /\ blobs = [d \in Digest |-> None]
  BY DEF Init, status, blobs
<1> QED
  BY <1>1 DEF Init, Abstract!Init

\* Steps that leave files, sessions and blobs alone are invisible.
LEMMA Stutter ==
  ASSUME UNCHANGED <<content, created, sessions, blob>>
  PROVE  UNCHANGED Abstract!vars
  BY DEF Abstract!vars, status, blobs

\* A session file that disappears without a blob closes its session.
LEMMA Discards ==
  ASSUME Typed, NEW i \in sessions, sessions' = sessions \ {i},
         UNCHANGED <<content, created, blob>>
  PROVE  Abstract!Next
<1>1. i \in Id /\ i \in created
  BY DEF Typed, TypeOK
<1>2. status[i] = "open" /\ status' = [status EXCEPT ![i] = "closed"]
  BY <1>1 DEF status
<1>3. blobs' = blobs
  BY DEF blobs
<1>4. Abstract!Discard(i)
  BY <1>2, <1>3 DEF Abstract!Discard
<1> QED
  BY <1>1, <1>4 DEF Abstract!Next

LEMMA RefineStep == IInv /\ [Next]_vars => [Abstract!Next]_(Abstract!vars)
<1> SUFFICES ASSUME IInv, [Next]_vars PROVE [Abstract!Next]_(Abstract!vars)
  OBVIOUS
<1> USE DEF IInv
<1>1. CASE UNCHANGED <<content, created, sessions, blob>>
  BY <1>1, Stutter
<1>2. CASE Next /\ content' # content
  <2>1. PICK i \in sessions, y \in Byte :
          /\ content' = [content EXCEPT ![i] = Append(@, y)]
          /\ UNCHANGED <<created, sessions, blob>>
    BY <1>2, ContentStep
  <2>2. i \in Id /\ status[i] = "open" /\ status' = status
    BY <2>1 DEF status, Typed, TypeOK
  <2>3. \A d \in Digest : blob[d] # None => content'[blob[d]] = content[blob[d]]
    BY <2>1 DEF BlobInv, BlobOK, Typed, TypeOK
  <2>4. blobs' = blobs
    BY <2>1, <2>3 DEF blobs
  <2>5. Abstract!Extend(i, y)
    BY <2>1, <2>2, <2>4 DEF Abstract!Extend
  <2> QED
    BY <2>2, <2>5 DEF Abstract!Next
<1>3. ASSUME NEW p \in Proc, Create(p) PROVE Abstract!Next
  <2>1. PICK i \in Id \ created :
          created' = created \cup {i} /\ sessions' = sessions \cup {i}
    BY <1>3 DEF Create
  <2>2. status[i] = "unused" /\ status' = [status EXCEPT ![i] = "open"]
    BY <2>1 DEF status, Typed, TypeOK
  <2>3. blobs' = blobs /\ content' = content
    BY <1>3 DEF blobs, Create
  <2>4. Abstract!Begin(i)
    BY <2>2, <2>3 DEF Abstract!Begin
  <2> QED
    BY <2>4 DEF Abstract!Next
<1>4. ASSUME NEW p \in Proc, SeedFails(p) \/ RemoveFile(p), sessions' # sessions
      PROVE  Abstract!Next
  <2>1. req[p].id \in sessions /\ sessions' = sessions \ {req[p].id}
        /\ UNCHANGED <<content, created, blob>>
    BY <1>4 DEF SeedFails, RemoveFile, PrivateInv, PrivateOK
  <2> QED
    BY <2>1, Discards
<1>5. ASSUME NEW p \in Proc, Rename(p) PROVE Abstract!Next
  <2> DEFINE i == req[p].id
             d == req[p].digest
  <2>1. /\ i \in sessions /\ Hash(content[i]) = d /\ sessions' = sessions \ {i}
        /\ blob' = [blob EXCEPT ![d] = i] /\ UNCHANGED <<content, created>>
    BY <1>5 DEF Rename, HashInv, HashOK
  <2>2. i \in Id /\ i \in created /\ i # None
    BY <2>1, ConstantsAssumption DEF Typed, TypeOK
  <2> HIDE DEF i, d
  <2>3. CASE d \in Digest
    <3>1. status[i] = "open" /\ status' = [status EXCEPT ![i] = "closed"]
      BY <2>1, <2>2 DEF status
    <3>2. blobs' = [blobs EXCEPT ![d] = content[i]]
      BY <2>1, <2>2, <2>3 DEF blobs, Typed, TypeOK
    <3>3. Abstract!Commit(i, d)
      BY <2>1, <3>1, <3>2 DEF Abstract!Commit
    <3> QED
      BY <2>2, <2>3, <3>3 DEF Abstract!Next
  <2>4. CASE d \notin Digest
    <3>1. blob' = blob
      BY <2>1, <2>4 DEF Typed, TypeOK
    <3> QED
      BY <2>1, <3>1, Discards
  <2> QED
    BY <2>3, <2>4
<1>6. ASSUME NEW d \in Digest, DeleteBlob(d) PROVE Abstract!Next
  <2>1. blobs' = [blobs EXCEPT ![d] = None]
    BY <1>6 DEF DeleteBlob, blobs, Typed, TypeOK
  <2>2. status' = status /\ content' = content
    BY <1>6 DEF DeleteBlob, status
  <2>3. Abstract!Remove(d)
    BY <2>1, <2>2 DEF Abstract!Remove
  <2> QED
    BY <2>3 DEF Abstract!Next
<1>7. CASE Next /\ content' = content /\ ~UNCHANGED <<content, created, sessions, blob>>
  <2>1. ASSUME NEW p \in Proc, Receive(p) \/ Lock(p) PROVE FALSE
    BY <1>7, <2>1, ReceiveShape DEF Lock, disk, Quiet
  <2>2. ~Crash
    BY <1>7 DEF Crash
  <2>3. ASSUME NEW p \in Proc, Handle(p)
        PROVE  Create(p) \/ Rename(p) \/ ((SeedFails(p) \/ RemoveFile(p)) /\ sessions' # sessions)
    BY <1>7, <2>3 DEF Handle, SeedDigest, SeedRename, SeedFails, CreateFails, OpenAppend, CopyByte,
       CopyDone, CopyBreaks, SaveDigest, SaveRename, SaveFails, WriteTmp, AppendFails,
       CheckDigest, FinalizeFails, DropSidecar, RemoveFile, RemoveFails, OpenBlob, Send, disk
  <2> QED
    BY <1>3, <1>4, <1>5, <1>6, <1>7, <2>1, <2>2, <2>3 DEF Next
<1> QED
  BY <1>1, <1>2, <1>7 DEF vars

\* The registry's files, locks and handlers implement the abstract store.
THEOREM ContentStoreImplemented == Spec => ImplementsContentStore
  BY RefineInit, RefineStep, Invariance, PTL DEF Spec, ImplementsContentStore, Abstract!Spec
=============================================================================
