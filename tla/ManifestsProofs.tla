-------------------------- MODULE ManifestsProofs --------------------------
(* Theorems about Manifests and Collector, for any manifests, tags, media   *)
(* types, blobs, handlers, collections and settings: first pushes, reads    *)
(* and deletes among themselves, then with collections beside them.         *)
EXTENDS Collector, TLAPS

(***************************************************************************)
(* Types: what a request holds at each of its steps.                       *)
(***************************************************************************)
Writing == {"writeBody", "writeType", "writeReferrer", "tmpTag", "renameTag"}

Digesting == {"readBody", "readType", "findSubject", "dropReferrer", "removeBody",
              "dropType", "listReferrers", "readReferrers"}

ReqOK(p) ==
  /\ mpc[p] \in Writing => mreq[p].man \in Manifest /\ mreq[p].type \in MediaType
  /\ mpc[p] \in Digesting => mreq[p].man \in Manifest
  /\ mpc[p] \in {"tmpTag", "renameTag", "readTag", "removeTag"} => mreq[p].ref \in Tag
  /\ mpc[p] \in {"writeReferrer", "dropReferrer"} => Subject[mreq[p].man] # None
  /\ mpc[p] \in {"findSubject", "dropReferrer", "removeBody", "dropType"} =>
       "delete" \in Traffic
  /\ mpc[p] = "removeAll" => "drop" \in Traffic
  /\ p \in tmp => mpc[p] = "renameTag"

\* The files and the history, without the handlers' own.
FilesOK ==
  /\ body \in SUBSET Manifest
  /\ mtype \in [Manifest -> MediaType \cup {None}]
  /\ index \in [Manifest -> MediaType \cup {None}]
  /\ tag \in [Tag -> Manifest \cup {None}]
  /\ orphan \in BOOLEAN
  /\ acked \in SUBSET Manifest
  /\ setting \in Settings

MT == MTypeOK /\ \A p \in Proc : ReqOK(p)
-----------------------------------------------------------------------------
(* Helpers                                                                 *)

LEMMA Constants ==
  /\ Subject \in [Manifest -> Manifest \cup {None}]
  /\ None \notin Manifest /\ None \notin Tag /\ None \notin MediaType
  /\ ByDigest \notin Tag /\ Invalid \notin Tag
  BY ManifestAssumption

\* A handler goes to a step with a request, the others stay where they are.
Moves(p, l, r) ==
  /\ mpc' = [mpc EXCEPT ![p] = l]
  /\ mreq' = [mreq EXCEPT ![p] = r]

LEMMA Moved ==
  ASSUME MT, NEW p \in Proc, NEW l \in MPC, NEW r \in MRequest, Moves(p, l, r)
  PROVE  /\ mpc' \in [Proc -> MPC] /\ mpc'[p] = l
         /\ mreq' \in [Proc -> MRequest] /\ mreq'[p] = r
         /\ \A q \in Proc \ {p} : mpc'[q] = mpc[q] /\ mreq'[q] = mreq[q]
  BY DEF MT, MTypeOK, Moves

LEMMA Requests ==
  /\ NoMRequest \in MRequest
  /\ \A m \in Manifest \cup {None}, r \in Tag \cup {ByDigest, Invalid, None},
        t \in MediaType \cup {None}, n \in SUBSET (Manifest \cup Tag \cup {None}) :
       /\ MReq(m, r, t, n) \in MRequest
       /\ MReq(m, r, t, n).man = m /\ MReq(m, r, t, n).ref = r
       /\ MReq(m, r, t, n).type = t /\ MReq(m, r, t, n).names = n
  BY DEF NoMRequest, MReq, MRequest

\* Its own request is all a step of a handler can spoil.
LEMMA OthersKept ==
  ASSUME MT, NEW p \in Proc, NEW l \in MPC, NEW r \in MRequest, Moves(p, l, r),
         tmp' \subseteq tmp \cup {p}, UNCHANGED setting, ReqOK(p)'
  PROVE  \A q \in Proc : ReqOK(q)'
<1>1. ASSUME NEW q \in Proc \ {p} PROVE ReqOK(q)'
  <2>1. UNCHANGED <<Traffic, mpc[q], mreq[q]>> /\ (q \in tmp' => q \in tmp)
    BY <1>1, Moved DEF Traffic
  <2> QED
    BY <2>1 DEF MT, ReqOK, Writing, Digesting
<1> QED
  BY <1>1

LEMMA Typed ==
  ASSUME MT, NEW p \in Proc, NEW l \in MPC, NEW r \in MRequest, Moves(p, l, r),
         FilesOK', tmp' \subseteq tmp \cup {p}, UNCHANGED setting, ReqOK(p)'
  PROVE  MT'
<1>1. \A q \in Proc : ReqOK(q)'
  BY OthersKept
<1>2. MTypeOK'
  BY Moved DEF MT, MTypeOK, FilesOK, MPC, MRequest
<1> QED
  BY <1>1, <1>2 DEF MT

\* The two ways a step ends: at the next step with the same request, or idle.
LEMMA GotoTyped ==
  ASSUME MT, NEW p \in Proc, NEW l \in MPC, MGoto(p, l),
         FilesOK', tmp' \subseteq tmp \cup {p}, UNCHANGED setting,
         mpc'[p] = l /\ mreq'[p] = mreq[p] => ReqOK(p)'
  PROVE  MT'
<1>1. Moves(p, l, mreq[p]) /\ mreq[p] \in MRequest
  BY DEF MT, MTypeOK, MGoto, Moves
<1> QED
  BY <1>1, Moved, Typed

LEMMA ReplyTyped ==
  ASSUME MT, NEW p \in Proc, MReply(p),
         FilesOK', tmp' \subseteq tmp, p \notin tmp', UNCHANGED setting
  PROVE  MT'
<1>1. Moves(p, "idle", NoMRequest) /\ "idle" \in MPC /\ NoMRequest \in MRequest
  BY Requests DEF MReply, Moves, MPC
<1>2. ReqOK(p)'
  BY <1>1, Moved DEF ReqOK, Writing, Digesting
<1> QED
  BY <1>1, <1>2, Typed

LEMMA NotRenaming ==
  ASSUME MT, NEW p \in Proc, mpc[p] # "renameTag"
  PROVE  p \notin tmp
  BY DEF MT, ReqOK
-----------------------------------------------------------------------------
(* Types: the actions                                                      *)

LEMMA BeginTyped ==
  ASSUME MT, NEW p \in Proc, NEW k, NEW r \in MRequest, NEW l \in MPC, Begin(p, k, r, l),
         k \in Traffic => (mpc'[p] = l /\ mreq'[p] = r /\ p \notin tmp' => ReqOK(p)')
  PROVE  MT'
<1>1. /\ mpc[p] = "idle" /\ k \in Traffic /\ Moves(p, l, r)
      /\ UNCHANGED <<store, acked, setting>>
  BY DEF Begin, Moves
<1>2. ReqOK(p)'
  BY <1>1, Moved, NotRenaming DEF store
<1>3. FilesOK'
  BY <1>1 DEF store, MT, MTypeOK, FilesOK
<1> QED
  BY <1>1, <1>2, <1>3, Typed DEF store

LEMMA BeginsTyped ==
  ASSUME MT, NEW p \in Proc, BeginOther(p) \/ \E m \in Manifest : BeginPut(p, m)
  PROVE  MT'
<1> USE Requests DEF ReqOK, Writing, Digesting, MPC
<1>0. UNCHANGED setting => UNCHANGED Traffic
  BY DEF Traffic
<1>1. ASSUME NEW m \in Manifest, NEW r \in Tag \cup {ByDigest, Invalid}, NEW t \in MediaType,
             Begin(p, "put", MReq(m, r, t, {}), "writeBody")
      PROVE  MT'
  BY <1>1, BeginTyped
<1>2. ASSUME NEW t \in Tag,
             \/ Begin(p, "get", MReq(None, t, None, {}), "readTag")
             \/ Begin(p, "untag", MReq(None, t, None, {}), "removeTag")
      PROVE  MT'
  BY <1>2, BeginTyped
<1>3. ASSUME NEW m \in Manifest,
             \/ Begin(p, "get", MReq(m, ByDigest, None, {}), "readBody")
             \/ Begin(p, "referrers", MReq(m, None, None, {}), "listReferrers")
      PROVE  MT'
  BY <1>3, BeginTyped
<1>4. ASSUME NEW m \in Manifest, Begin(p, "delete", MReq(m, ByDigest, None, {}), "findSubject")
      PROVE  MT'
  <2>1. UNCHANGED Traffic
    BY <1>0, <1>4 DEF Begin
  <2> QED
    BY <1>4, <2>1, BeginTyped
<1>5. CASE Begin(p, "drop", NoMRequest, "removeAll")
  BY <1>0, <1>5, BeginTyped DEF Begin
<1>6. CASE Begin(p, "tags", NoMRequest, "listTags")
  BY <1>6, BeginTyped
<1> QED
  BY <1>1, <1>2, <1>3, <1>4, <1>5, <1>6 DEF BeginOther, BeginPut
LEMMA FinishTyped ==
  ASSUME MT, NEW p \in Proc, mpc[p] \in {"writeType", "writeReferrer"}, FinishPut(p),
         body' = body, tag' = tag, orphan' = orphan,
         mtype' \in [Manifest -> MediaType \cup {None}],
         index' \in [Manifest -> MediaType \cup {None}],
         tmp' = tmp, UNCHANGED setting
  PROVE  MT'
<1>1. p \notin tmp /\ mreq[p].man \in Manifest /\ mreq[p].type \in MediaType
  BY NotRenaming DEF MT, ReqOK, Writing
<1>2. FilesOK'
  BY <1>1 DEF FinishPut, FilesOK, MT, MTypeOK
<1>3. CASE mreq[p].ref \in Tag
  BY <1>1, <1>2, <1>3, GotoTyped DEF FinishPut, MPC, ReqOK, Writing, Digesting
<1>4. CASE mreq[p].ref \notin Tag
  BY <1>1, <1>2, <1>4, ReplyTyped DEF FinishPut
<1> QED
  BY <1>3, <1>4

LEMMA PutTyped ==
  ASSUME MT, NEW p \in Proc,
         \/ WriteBody(p) \/ WriteType(p) \/ WriteReferrer(p) \/ TmpTag(p)
         \/ RenameTag(p) \/ PutFails(p)
  PROVE  MT'
<1>0. mpc[p] \in Writing => mreq[p].man \in Manifest /\ mreq[p].type \in MediaType
  BY DEF MT, ReqOK
<1>1. CASE WriteBody(p)
  <2>1. FilesOK'
    BY <1>0, <1>1 DEF WriteBody, FilesOK, MT, MTypeOK, Writing
  <2> QED
    BY <1>0, <1>1, <2>1, GotoTyped, NotRenaming
    DEF WriteBody, MPC, ReqOK, Writing, Digesting
<1>2. CASE WriteType(p)
  <2>1. mtype' \in [Manifest -> MediaType \cup {None}]
    BY <1>0, <1>2 DEF WriteType, MT, MTypeOK, Writing
  <2>2. CASE Subject[mreq[p].man] # None
    <3>1. FilesOK'
      BY <1>2, <2>1, <2>2 DEF WriteType, FilesOK, MT, MTypeOK
    <3> QED
      BY <1>0, <1>2, <2>2, <3>1, GotoTyped, NotRenaming
      DEF WriteType, MPC, ReqOK, Writing, Digesting
  <2>3. CASE Subject[mreq[p].man] = None
    BY <1>2, <2>1, <2>3, FinishTyped DEF WriteType, MT, MTypeOK
  <2> QED
    BY <2>2, <2>3
<1>3. CASE WriteReferrer(p)
  <2>1. index' \in [Manifest -> MediaType \cup {None}]
    BY <1>0, <1>3 DEF WriteReferrer, MT, MTypeOK, Writing
  <2> QED
    BY <1>3, <2>1, FinishTyped DEF WriteReferrer, MT, MTypeOK
<1>4. CASE TmpTag(p)
  <2>1. FilesOK'
    BY <1>4 DEF TmpTag, FilesOK, MT, MTypeOK
  <2>2. mreq[p].ref \in Tag
    BY <1>4 DEF TmpTag, MT, ReqOK
  <2> QED
    BY <1>0, <1>4, <2>1, <2>2, GotoTyped DEF TmpTag, MPC, ReqOK, Writing, Digesting
<1>5. CASE RenameTag(p)
  <2>1. mreq[p].man \in Manifest /\ mreq[p].ref \in Tag
    BY <1>0, <1>5 DEF RenameTag, MT, ReqOK, Writing
  <2>2. FilesOK'
    BY <1>5, <2>1 DEF RenameTag, FilesOK, MT, MTypeOK
  <2> QED
    BY <1>5, <2>2, ReplyTyped DEF RenameTag
<1>6. CASE PutFails(p)
  <2>1. FilesOK'
    BY <1>6 DEF PutFails, FilesOK, MT, MTypeOK
  <2> QED
    BY <1>6, <2>1, ReplyTyped DEF PutFails
<1> QED
  BY <1>1, <1>2, <1>3, <1>4, <1>5, <1>6

LEMMA ReadTyped ==
  ASSUME MT, NEW p \in Proc,
         \/ ReadTag(p) \/ ReadBody(p) \/ ReadType(p) \/ ReadFails(p) \/ Answer(p)
         \/ ListTags(p) \/ ListReferrers(p) \/ ReadReferrers(p)
  PROVE  MT'
<1>0. FilesOK' /\ p \notin tmp /\ tmp' = tmp /\ UNCHANGED setting
  BY NotRenaming
  DEF ReadTag, ReadBody, ReadType, ReadFails, Answer, ListTags, ListReferrers, ReadReferrers,
      store, FilesOK, MT, MTypeOK
<1>1. mpc[p] \in Digesting => mreq[p].man \in Manifest
  BY DEF MT, ReqOK
<1>2. mreq[p] \in MRequest
  BY DEF MT, MTypeOK
<1>3. CASE ReadTag(p)
  <2>1. mreq[p].ref \in Tag /\ tag[mreq[p].ref] \in Manifest \cup {None}
    BY <1>3 DEF ReadTag, MT, MTypeOK, ReqOK
  <2>2. CASE tag[mreq[p].ref] = None
    BY <1>0, <1>3, <2>2, ReplyTyped DEF ReadTag
  <2>3. CASE tag[mreq[p].ref] # None
    <3> DEFINE r == MReq(tag[mreq[p].ref], mreq[p].ref, None, {})
    <3>1. Moves(p, "readBody", r)
      BY <1>3, <2>3 DEF ReadTag, Moves
    <3>2. r \in MRequest /\ r.man \in Manifest
      BY <1>2, <2>1, <2>3 DEF MReq, MRequest
    <3> HIDE DEF r
    <3>3. ReqOK(p)'
      BY <1>0, <3>1, <3>2, Moved DEF ReqOK, Writing, Digesting, MPC
    <3> QED
      BY <1>0, <3>1, <3>2, <3>3, Typed DEF MPC
  <2> QED
    BY <2>2, <2>3
<1>4. CASE ReadBody(p)
  <2>1. CASE mreq[p].man \in body
    BY <1>0, <1>1, <1>4, <2>1, GotoTyped DEF ReadBody, MPC, ReqOK, Writing, Digesting
  <2>2. CASE mreq[p].man \notin body
    BY <1>0, <1>4, <2>2, ReplyTyped DEF ReadBody
  <2> QED
    BY <2>1, <2>2
<1>5. CASE ReadType(p)
  <2> DEFINE r == MReq(mreq[p].man, mreq[p].ref, mtype[mreq[p].man], {})
  <2>1. Moves(p, "served", r)
    BY <1>5 DEF ReadType, Moves
  <2>2. r \in MRequest
    <3>1. mreq[p].man \in Manifest /\ mtype[mreq[p].man] \in MediaType \cup {None}
      BY <1>1, <1>5 DEF ReadType, Digesting, MT, MTypeOK
    <3> QED
      BY <1>2, <3>1 DEF MReq, MRequest
  <2> HIDE DEF r
  <2>3. ReqOK(p)'
    BY <1>0, <2>1, <2>2, Moved DEF ReqOK, Writing, Digesting, MPC
  <2> QED
    BY <1>0, <2>1, <2>2, <2>3, Typed DEF MPC
<1>6. CASE Answer(p)
  BY <1>0, <1>6, ReplyTyped DEF Answer
<1>7. CASE ListTags(p)
  <2> DEFINE r == MReq(None, None, None,
                {t \in Tag : tag[t] # None} \cup (IF tmp # {} \/ orphan THEN {None} ELSE {}))
  <2>1. Moves(p, "tagsListed", r)
    BY <1>7 DEF ListTags, Moves
  <2>2. r \in MRequest
    BY Requests
  <2> HIDE DEF r
  <2>3. ReqOK(p)'
    BY <1>0, <2>1, <2>2, Moved DEF ReqOK, Writing, Digesting, MPC
  <2> QED
    BY <1>0, <2>1, <2>2, <2>3, Typed DEF MPC
<1>8. CASE ListReferrers(p)
  <2> DEFINE r == MReq(mreq[p].man, None, None,
                       {m \in Manifest : Subject[m] = mreq[p].man /\ index[m] # None})
  <2>1. Moves(p, "readReferrers", r)
    BY <1>8 DEF ListReferrers, Moves
  <2>2. r \in MRequest /\ r.man \in Manifest
    BY <1>1, <1>8, Requests DEF ListReferrers, Digesting
  <2> HIDE DEF r
  <2>3. ReqOK(p)'
    BY <1>0, <2>1, <2>2, Moved DEF ReqOK, Writing, Digesting, MPC
  <2> QED
    BY <1>0, <2>1, <2>2, <2>3, Typed DEF MPC
<1>9. CASE ReadReferrers(p)
  <2> DEFINE r == MReq(mreq[p].man, None, None, {m \in mreq[p].names : index[m] # None})
  <2>1. Moves(p, "referrersListed", r)
    BY <1>9 DEF ReadReferrers, Moves
  <2>2. r \in MRequest
    BY <1>1, <1>2, <1>9 DEF ReadReferrers, Digesting, MReq, MRequest
  <2> HIDE DEF r
  <2>3. ReqOK(p)'
    BY <1>0, <2>1, <2>2, Moved DEF ReqOK, Writing, Digesting, MPC
  <2> QED
    BY <1>0, <2>1, <2>2, <2>3, Typed DEF MPC
<1>10. CASE ReadFails(p)
  <2>1. ASSUME NEW l \in {"served", "referrersListed"}, NEW r \in MRequest, Moves(p, l, r)
        PROVE  MT'
    <3>1. ReqOK(p)'
      BY <1>0, <2>1, Moved DEF ReqOK, Writing, Digesting, MPC
    <3> QED
      BY <1>0, <2>1, <3>1, Typed DEF MPC
  <2>2. CASE MReply(p)
    BY <1>0, <2>2, ReplyTyped
  <2>3. CASE mpc[p] = "readType" /\ mpc' = [mpc EXCEPT ![p] = "served"]
    <3> DEFINE r == MReq(mreq[p].man, mreq[p].ref, None, {})
    <3>1. Moves(p, "served", r)
      BY <1>10, <2>3 DEF ReadFails, MReply, Moves
    <3>2. r \in MRequest
      BY <1>2 DEF MReq, MRequest
    <3> QED
      BY <2>1, <3>1, <3>2
  <2>4. CASE mpc[p] = "readReferrers" /\ mpc' = [mpc EXCEPT ![p] = "referrersListed"]
    <3>1. PICK n \in SUBSET mreq[p].names : Moves(p, "referrersListed", MReq(mreq[p].man, None, None, n))
      BY <1>10, <2>4 DEF ReadFails, MReply, Moves
    <3>2. MReq(mreq[p].man, None, None, n) \in MRequest
      BY <1>1, <1>2, <2>4 DEF Digesting, MReq, MRequest
    <3> QED
      BY <2>1, <3>1, <3>2
  <2> QED
    BY <1>10, <2>2, <2>3, <2>4 DEF ReadFails
<1> QED
  BY <1>3, <1>4, <1>5, <1>6, <1>7, <1>8, <1>9, <1>10

LEMMA RemoveTyped ==
  ASSUME MT, NEW p \in Proc,
         \/ FindSubject(p) \/ DropReferrer(p) \/ RemoveBody(p) \/ DropType(p)
         \/ DeleteFails(p) \/ RemoveTag(p) \/ RemoveAllEnds(p)
  PROVE  MT'
<1>0. /\ p \notin tmp /\ tmp' = tmp /\ UNCHANGED <<setting, Traffic>>
      /\ mpc[p] \in Digesting => mreq[p].man \in Manifest
      /\ mpc[p] \in {"findSubject", "dropReferrer", "removeBody", "dropType"} =>
           "delete" \in Traffic
  BY NotRenaming
  DEF FindSubject, DropReferrer, RemoveBody, DropType, DeleteFails, RemoveTag,
      RemoveAllEnds, store, Traffic, MT, ReqOK
<1>1. FilesOK'
  BY DEF FindSubject, DropReferrer, RemoveBody, DropType, DeleteFails, RemoveTag,
         RemoveAllEnds, store, FilesOK, MT, MTypeOK
<1>2. ASSUME MReply(p) PROVE MT'
  BY <1>0, <1>1, <1>2, ReplyTyped
<1>3. CASE FindSubject(p)
  BY <1>0, <1>1, <1>3, GotoTyped DEF FindSubject, MPC, ReqOK, Writing, Digesting
<1>4. CASE DropReferrer(p)
  BY <1>0, <1>1, <1>4, GotoTyped DEF DropReferrer, MPC, ReqOK, Writing, Digesting
<1>5. CASE RemoveBody(p)
  BY <1>0, <1>1, <1>2, <1>5, GotoTyped DEF RemoveBody, MPC, ReqOK, Writing, Digesting
<1>6. CASE DeleteFails(p)
  BY <1>0, <1>1, <1>2, <1>6, GotoTyped DEF DeleteFails, MPC, ReqOK, Writing, Digesting
<1> QED
  BY <1>2, <1>3, <1>4, <1>5, <1>6 DEF DropType, RemoveTag, RemoveAllEnds

LEMMA RemoveOneTyped == ASSUME MT, NEW p \in Proc, RemoveOne(p) PROVE MT'
<1>1. UNCHANGED <<mpc, mreq, setting, Traffic>> /\ tmp' \subseteq tmp
  BY DEF RemoveOne, Traffic
<1>2. \A q \in Proc : ReqOK(q)'
  BY <1>1 DEF MT, ReqOK, Writing, Digesting
<1>3. MTypeOK'
  BY <1>1 DEF RemoveOne, MT, MTypeOK, MPC, MRequest
<1> QED
  BY <1>2, <1>3 DEF MT

LEMMA CrashTyped == ASSUME MT, MCrash PROVE MT'
<1>1. \A p \in Proc : ReqOK(p)'
  BY DEF MCrash, ReqOK, Writing, Digesting
<1>2. MTypeOK'
  BY Requests DEF MCrash, MT, MTypeOK, MPC, MRequest
<1> QED
  BY <1>1, <1>2 DEF MT

LEMMA InitTyped == MInit => MT
<1> SUFFICES ASSUME MInit PROVE MT
  OBVIOUS
<1>1. \A p \in Proc : ReqOK(p)
  BY DEF MInit, ReqOK, Writing, Digesting
<1>2. MTypeOK
  BY Requests DEF MInit, MTypeOK, MPC
<1> QED
  BY <1>1, <1>2 DEF MT

LEMMA StepTyped == MT /\ [MNext]_mvars => MT'
<1> SUFFICES ASSUME MT, [MNext]_mvars PROVE MT'
  OBVIOUS
<1>1. CASE UNCHANGED mvars
  <2>1. UNCHANGED Traffic
    BY <1>1 DEF mvars, Traffic
  <2> QED
    BY <1>1, <2>1 DEF mvars, MT, MTypeOK, ReqOK, MPC, MRequest, Writing, Digesting
<1>2. ASSUME NEW p \in Proc, MHandle(p) PROVE MT'
  BY <1>2, PutTyped, ReadTyped, RemoveTyped, RemoveOneTyped DEF MHandle
<1> QED
  BY <1>1, <1>2, BeginsTyped, CrashTyped DEF MNext

LEMMA SettingKept == [MNext]_mvars => UNCHANGED setting
  BY DEF MNext, mvars, MHandle, BeginOther, BeginPut, Begin, MCrash, WriteBody, WriteType,
         WriteReferrer, TmpTag, RenameTag, PutFails, ReadTag, ReadBody, ReadType, FindSubject,
         DropReferrer, RemoveBody, DropType, DeleteFails, RemoveTag, RemoveOne, RemoveAllEnds,
         ListTags, ListReferrers, ReadReferrers, ReadFails, Answer
-----------------------------------------------------------------------------
(***************************************************************************)
(* Where nobody deletes: what each step of a push has behind it.           *)
(***************************************************************************)
StageOK(p) ==
  /\ mpc[p] \in {"writeType", "writeReferrer"} => mreq[p].man \in body
  /\ mpc[p] = "writeReferrer" => mtype[mreq[p].man] # None
  /\ mpc[p] \in {"tmpTag", "renameTag"} => Complete(mreq[p].man)
  /\ mpc[p] \in {"readBody", "readType"} /\ mreq[p].ref \in Tag => Complete(mreq[p].man)
  /\ mpc[p] = "served" => mreq[p].man \in Manifest
  /\ mpc[p] = "readReferrers" => \A m \in mreq[p].names : m \in Manifest /\ index[m] # None
  /\ mpc[p] = "referrersListed" => mreq[p].man \in Manifest /\ mreq[p].names \subseteq Manifest

Kept ==
  ~Deleting =>
    /\ \A m \in Manifest : index[m] # None => Complete(m)
    /\ \A t \in Tag : tag[t] # None => Complete(tag[t])
    /\ \A m \in acked : Complete(m)
    /\ \A p \in Proc : StageOK(p)

\* Only handlers that delete take anything away.
LEMMA Grows ==
  ASSUME MT, ~Deleting, NEW p \in Proc,
         MHandle(p) \/ BeginOther(p) \/ \E m \in Manifest : BeginPut(p, m)
  PROVE  \A m \in Manifest :
           /\ m \in body => m \in body'
           /\ mtype[m] # None => mtype'[m] # None
           /\ index[m] # None => index'[m] # None
           /\ Complete(m) => Complete(m)'
<1>1. mpc[p] \notin {"findSubject", "dropReferrer", "removeBody", "dropType", "removeAll"}
  BY DEF MT, ReqOK, Deleting
<1>2. mpc[p] \in Writing => mreq[p].man \in Manifest /\ mreq[p].type # None
  BY Constants DEF MT, ReqOK
<1> SUFFICES ASSUME NEW m \in Manifest
             PROVE  /\ m \in body => m \in body'
                    /\ mtype[m] # None => mtype'[m] # None
                    /\ index[m] # None => index'[m] # None
  BY DEF Complete
<1>3. CASE UNCHANGED <<body, mtype, index>>
  BY <1>3
<1>4. CASE WriteBody(p)
  BY <1>4 DEF WriteBody
<1>5. CASE WriteType(p)
  BY <1>2, <1>5 DEF WriteType, Writing, MT, MTypeOK
<1>6. CASE WriteReferrer(p)
  BY <1>2, <1>6 DEF WriteReferrer, Writing, MT, MTypeOK
<1>7. CASE RemoveOne(p) \/ DropReferrer(p) \/ RemoveBody(p) \/ DropType(p)
  BY <1>1, <1>7 DEF RemoveOne, DropReferrer, RemoveBody, DropType
<1>8. CASE \/ TmpTag(p) \/ RenameTag(p) \/ PutFails(p) \/ ReadTag(p) \/ ReadBody(p)
           \/ ReadType(p) \/ FindSubject(p) \/ DeleteFails(p) \/ RemoveTag(p)
           \/ RemoveAllEnds(p) \/ ListTags(p) \/ ListReferrers(p) \/ ReadReferrers(p)
           \/ ReadFails(p) \/ Answer(p)
  BY <1>3, <1>8
  DEF TmpTag, RenameTag, PutFails, ReadTag, ReadBody, ReadType, FindSubject, DeleteFails,
      RemoveTag, RemoveAllEnds, ListTags, ListReferrers, ReadReferrers, ReadFails, Answer,
      store
<1>9. CASE BeginOther(p) \/ \E n \in Manifest : BeginPut(p, n)
  BY <1>3, <1>9 DEF BeginOther, BeginPut, Begin, store
<1> QED
  BY <1>4, <1>5, <1>6, <1>7, <1>8, <1>9 DEF MHandle

LEMMA OthersWait ==
  ASSUME MT, NEW p \in Proc,
         MHandle(p) \/ BeginOther(p) \/ \E m \in Manifest : BeginPut(p, m)
  PROVE  \A q \in Proc \ {p} : mpc'[q] = mpc[q] /\ mreq'[q] = mreq[q]
<1> USE DEF MT, MTypeOK, MGoto, MReply
<1>1. CASE BeginOther(p) \/ \E m \in Manifest : BeginPut(p, m)
  BY <1>1 DEF BeginOther, BeginPut, Begin
<1>2. CASE \/ WriteBody(p) \/ WriteType(p) \/ WriteReferrer(p) \/ TmpTag(p)
           \/ RenameTag(p) \/ PutFails(p)
  BY <1>2 DEF WriteBody, WriteType, WriteReferrer, TmpTag, RenameTag, PutFails, FinishPut
<1>3. CASE \/ ReadTag(p) \/ ReadBody(p) \/ ReadType(p) \/ ListTags(p)
           \/ ListReferrers(p) \/ ReadReferrers(p) \/ ReadFails(p) \/ Answer(p)
  BY <1>3 DEF ReadTag, ReadBody, ReadType, ListTags, ListReferrers, ReadReferrers, ReadFails,
              Answer
<1>4. CASE \/ FindSubject(p) \/ DropReferrer(p) \/ RemoveBody(p) \/ DropType(p)
           \/ DeleteFails(p) \/ RemoveTag(p) \/ RemoveOne(p) \/ RemoveAllEnds(p)
  BY <1>4 DEF FindSubject, DropReferrer, RemoveBody, DropType, DeleteFails, RemoveTag,
              RemoveOne, RemoveAllEnds
<1> QED
  BY <1>1, <1>2, <1>3, <1>4 DEF MHandle

\* What is left to show of a step: its own stage, the tags and the acks.
LEMMA KeptBy ==
  ASSUME MT, Kept, ~Deleting, NEW p \in Proc, UNCHANGED setting,
         MHandle(p) \/ BeginOther(p) \/ \E m \in Manifest : BeginPut(p, m),
         MT',
         StageOK(p)',
         index' = index \/ \A m \in Manifest : index'[m] # index[m] => Complete(m)',
         \A t \in Tag : tag'[t] \in {tag[t], None} \/ Complete(tag[t])',
         \A m \in acked' : m \in acked \/ Complete(m)'
  PROVE  Kept'
<1>1. \A m \in Manifest : /\ m \in body => m \in body'
                          /\ mtype[m] # None => mtype'[m] # None
                          /\ index[m] # None => index'[m] # None
                          /\ Complete(m) => Complete(m)'
  BY Grows
<1>2. ASSUME NEW q \in Proc \ {p} PROVE StageOK(q)'
  <2>1. mpc'[q] = mpc[q] /\ mreq'[q] = mreq[q] /\ StageOK(q)
    BY <1>2, OthersWait DEF Kept
  <2>2. mpc[q] \in {"writeType", "writeReferrer", "tmpTag", "renameTag", "readBody",
                    "readType"} => mreq[q].man \in Manifest
    BY DEF MT, ReqOK, Writing, Digesting
  <2> DEFINE n == mreq[q].man
  <2>3. mpc[q] \in {"writeType", "writeReferrer"} => n \in body'
    BY <1>1, <2>1, <2>2 DEF StageOK
  <2>4. mpc[q] = "writeReferrer" => mtype'[n] # None
    BY <1>1, <2>1, <2>2 DEF StageOK
  <2>5. /\ mpc[q] \in {"tmpTag", "renameTag"} => Complete(n)
        /\ mpc[q] \in {"readBody", "readType"} /\ mreq[q].ref \in Tag => Complete(n)
    BY <2>1 DEF StageOK
  <2>6. mreq'[q].man = n
    BY <2>1
  <2>7. \A m \in Manifest : m = n /\ Complete(m) => Complete(mreq[q].man)'
    BY <1>1, <2>6 DEF Complete
  <2>8. mpc[q] = "readReferrers" => \A m \in mreq[q].names : m \in Manifest /\ index'[m] # None
    BY <1>1, <2>1 DEF StageOK
  <2> QED
    BY <2>1, <2>2, <2>3, <2>4, <2>5, <2>7, <2>8 DEF StageOK
<1>3. ASSUME NEW t \in Tag, tag'[t] # None PROVE Complete(tag[t])'
  <2>1. CASE tag'[t] = tag[t]
    <3>1. Complete(tag[t]) /\ tag[t] \in Manifest
      BY <1>3, <2>1 DEF Kept, MT, MTypeOK
    <3> QED
      BY <1>1, <2>1, <3>1 DEF Complete
  <2> QED
    BY <1>3, <2>1
<1>4. ASSUME NEW m \in acked' PROVE Complete(m)'
  BY <1>1, <1>4 DEF Kept, MT, MTypeOK
<1>5. ASSUME NEW m \in Manifest, index'[m] # None PROVE Complete(m)'
  BY <1>1, <1>5 DEF Kept
<1> QED
  BY <1>2, <1>3, <1>4, <1>5 DEF Kept

\* The end of a push, once the manifest is complete.
LEMMA KeptByFinish ==
  ASSUME MT, Kept, ~Deleting, MT', NEW p \in Proc, mpc[p] \in Writing,
         NEW m \in Manifest, m = mreq[p].man,
         MHandle(p), FinishPut(p), UNCHANGED <<tag, setting>>, Complete(m)',
         \A n \in Manifest : n # m => index'[n] = index[n]
  PROVE  Kept'
<1>1. CASE mreq[p].ref \in Tag
  <2>1. mpc'[p] = "tmpTag" /\ mreq' = mreq /\ acked' = acked
    BY <1>1 DEF FinishPut, MGoto, MT, MTypeOK
  <2>2. StageOK(p)'
    BY <2>1 DEF StageOK
  <2> QED
    BY <2>1, <2>2, KeptBy
<1>2. CASE mreq[p].ref \notin Tag
  <2>1. mpc'[p] = "idle" /\ acked' \subseteq acked \cup {m}
    BY <1>2 DEF FinishPut, MReply, MT, MTypeOK
  <2>2. StageOK(p)'
    BY <2>1 DEF StageOK
  <2> QED
    BY <2>1, <2>2, KeptBy
<1> QED
  BY <1>1, <1>2

LEMMA KeptByPut ==
  ASSUME MT, Kept, ~Deleting, MT', NEW p \in Proc,
         \/ WriteBody(p) \/ WriteType(p) \/ WriteReferrer(p) \/ TmpTag(p)
         \/ RenameTag(p) \/ PutFails(p)
  PROVE  Kept'
<1>m. PICK m : m = mreq[p].man
  OBVIOUS
<1>0. /\ mpc[p] \in Writing => m \in Manifest /\ mreq[p].type # None /\ m # None
      /\ mpc[p] \in Writing => mreq[p].type \in MediaType
      /\ StageOK(p)
  BY <1>m, Constants DEF MT, ReqOK, Kept
<1>1. CASE WriteBody(p)
  <2>1. mpc'[p] = "writeType" /\ mreq' = mreq /\ m \in body'
    BY <1>m, <1>1 DEF WriteBody, MGoto, MT, MTypeOK
  <2>2. StageOK(p)'
    BY <1>m, <2>1 DEF StageOK
  <2> QED
    BY <1>m, <1>1, <2>2, KeptBy DEF WriteBody, MHandle
<1>2. CASE WriteType(p)
  <2>1. /\ m \in body' /\ mtype'[m] # None /\ UNCHANGED <<tag, index, setting>>
    BY <1>m, <1>0, <1>2 DEF WriteType, StageOK, Writing, MT, MTypeOK
  <2>2. CASE Subject[m] # None
    <3>1. mpc'[p] = "writeReferrer" /\ mreq' = mreq /\ acked' = acked
      BY <1>m, <1>2, <2>2 DEF WriteType, MGoto, MT, MTypeOK
    <3>2. StageOK(p)'
      BY <1>m, <2>1, <3>1 DEF StageOK
    <3> QED
      BY <1>m, <1>2, <2>1, <3>1, <3>2, KeptBy DEF MHandle
  <2>3. CASE Subject[m] = None
    <3>1. Complete(m)'
      BY <2>1, <2>3 DEF Complete
    <3> QED
      BY <1>m, <1>0, <1>2, <2>1, <2>3, <3>1, KeptByFinish DEF WriteType, MHandle, Writing
  <2> QED
    BY <2>2, <2>3
<1>3. CASE WriteReferrer(p)
  <2>1. /\ Complete(m)' /\ UNCHANGED <<tag, setting>>
        /\ \A n \in Manifest : n # m => index'[n] = index[n]
    BY <1>m, <1>0, <1>3 DEF WriteReferrer, StageOK, Writing, MT, MTypeOK, Complete
  <2> QED
    BY <1>m, <1>0, <1>3, <2>1, KeptByFinish DEF WriteReferrer, MHandle, Writing
<1>4. CASE TmpTag(p)
  <2>1. mpc'[p] = "renameTag" /\ mreq' = mreq /\ Complete(m)
    BY <1>m, <1>0, <1>4 DEF TmpTag, MGoto, MT, MTypeOK, StageOK
  <2>2. Complete(m)'
    BY <1>m, <1>4, <2>1 DEF TmpTag, Complete
  <2>3. StageOK(p)'
    BY <1>m, <2>1, <2>2 DEF StageOK
  <2> QED
    BY <1>m, <1>4, <2>3, KeptBy DEF TmpTag, MHandle
<1>5. CASE RenameTag(p)
  <2>1. mpc'[p] = "idle" /\ Complete(m) /\ mreq[p].ref \in Tag /\ m \in Manifest
    BY <1>m, <1>0, <1>5 DEF RenameTag, MReply, MT, MTypeOK, StageOK, ReqOK, Writing
  <2>2. Complete(m)'
    BY <1>m, <1>5, <2>1 DEF RenameTag, Complete
  <2>3. StageOK(p)'
    BY <1>m, <2>1 DEF StageOK
  <2>4. \A t \in Tag : tag'[t] = IF t = mreq[p].ref THEN m ELSE tag[t]
    BY <1>m, <1>5, <2>1 DEF RenameTag, MT, MTypeOK
  <2>5. \A t \in Tag : tag'[t] = tag[t] \/ Complete(tag[t])'
    BY <1>m, <1>5, <2>1, <2>4 DEF RenameTag, Complete
  <2>6. UNCHANGED <<body, mtype, index, setting>> /\ acked' = acked \cup {m}
    BY <1>m, <1>5 DEF RenameTag
  <2>7. \A n \in acked' : n \in acked \/ Complete(n)'
    BY <2>1, <2>6 DEF Complete
  <2> QED
    BY <1>m, <1>5, <2>3, <2>5, <2>6, <2>7, KeptBy DEF MHandle
<1>6. CASE PutFails(p)
  <2>1. StageOK(p)'
    BY <1>m, <1>6 DEF PutFails, MReply, MT, MTypeOK, StageOK
  <2> QED
    BY <1>m, <1>6, <2>1, KeptBy DEF PutFails, MHandle
<1> QED
  BY <1>1, <1>2, <1>3, <1>4, <1>5, <1>6

LEMMA KeptByRead ==
  ASSUME MT, Kept, ~Deleting, MT', NEW p \in Proc,
         \/ ReadTag(p) \/ ReadBody(p) \/ ReadType(p) \/ ReadFails(p) \/ Answer(p)
         \/ ListTags(p) \/ ListReferrers(p) \/ ReadReferrers(p)
  PROVE  Kept'
<1>0. UNCHANGED <<body, mtype, index, tag, acked, setting>> /\ StageOK(p)
  BY DEF ReadTag, ReadBody, ReadType, ReadFails, Answer, ListTags, ListReferrers, ReadReferrers,
         store, Kept
<1>1. ASSUME StageOK(p)' PROVE Kept'
  BY <1>0, <1>1, KeptBy DEF MHandle
<1>2. CASE ReadTag(p)
  <2>1. CASE tag[mreq[p].ref] = None
    <3>1. StageOK(p)'
      BY <1>2, <2>1 DEF ReadTag, MReply, MT, MTypeOK, StageOK
    <3> QED
      BY <1>1, <3>1
  <2>2. CASE tag[mreq[p].ref] # None
    <3>1. Complete(tag[mreq[p].ref])
      BY <1>2, <2>2 DEF ReadTag, MT, ReqOK, Kept
    <3>2. mpc'[p] = "readBody" /\ mreq'[p].man = tag[mreq[p].ref]
      BY <1>2, <2>2 DEF ReadTag, MT, MTypeOK, MReq
    <3>3. Complete(mreq[p].man)'
      BY <1>0, <3>1, <3>2 DEF Complete
    <3>4. StageOK(p)'
      BY <3>2, <3>3 DEF StageOK
    <3> QED
      BY <1>1, <3>4
  <2> QED
    BY <2>1, <2>2
<1>3. CASE ReadBody(p)
  <2>1. CASE mreq[p].man \notin body
    <3>1. StageOK(p)'
      BY <1>3, <2>1 DEF ReadBody, MReply, MT, MTypeOK, StageOK
    <3> QED
      BY <1>1, <3>1
  <2>2. CASE mreq[p].man \in body
    <3>1. mpc'[p] = "readType" /\ mreq'[p] = mreq[p]
      BY <1>3, <2>2 DEF ReadBody, MGoto, MT, MTypeOK
    <3>2. mreq[p].ref \in Tag => Complete(mreq[p].man)'
      BY <1>0, <1>3, <3>1 DEF ReadBody, StageOK, Complete
    <3>3. StageOK(p)'
      BY <3>1, <3>2 DEF StageOK
    <3> QED
      BY <1>1, <3>3
  <2> QED
    BY <2>1, <2>2
<1>4. CASE ReadType(p)
  <2>1. mpc'[p] = "served" /\ mreq'[p].man = mreq[p].man /\ mreq[p].man \in Manifest
    BY <1>4 DEF ReadType, MT, MTypeOK, MReq, ReqOK, Digesting
  <2>2. StageOK(p)'
    BY <2>1 DEF StageOK
  <2> QED
    BY <1>1, <2>2
<1>5. CASE Answer(p) \/ ListTags(p)
  <2>1. mpc'[p] \in {"idle", "tagsListed"}
    BY <1>5 DEF Answer, MReply, ListTags, MT, MTypeOK
  <2>2. StageOK(p)'
    BY <2>1 DEF StageOK
  <2> QED
    BY <1>1, <2>2
<1>6. CASE ListReferrers(p)
  <2>1. /\ mpc'[p] = "readReferrers"
        /\ mreq'[p].names = {m \in Manifest : Subject[m] = mreq[p].man /\ index[m] # None}
    BY <1>6 DEF ListReferrers, MT, MTypeOK, MReq
  <2>2. StageOK(p)'
    BY <1>0, <2>1 DEF StageOK
  <2> QED
    BY <1>1, <2>2
<1>7. CASE ReadReferrers(p)
  <2>1. /\ mpc'[p] = "referrersListed" /\ mreq'[p].man = mreq[p].man
        /\ mreq'[p].names = {m \in mreq[p].names : index[m] # None}
    BY <1>7 DEF ReadReferrers, MT, MTypeOK, MReq
  <2>2. mreq[p].man \in Manifest /\ mreq[p].names \subseteq Manifest
    BY <1>0, <1>7 DEF ReadReferrers, StageOK, MT, ReqOK, Digesting
  <2>3. StageOK(p)'
    BY <2>1, <2>2 DEF StageOK
  <2> QED
    BY <1>1, <2>3
<1>8. CASE ReadFails(p)
  <2>1. CASE MReply(p)
    <3>1. StageOK(p)'
      BY <2>1 DEF MReply, MT, MTypeOK, StageOK
    <3> QED
      BY <1>1, <3>1
  <2>2. CASE mpc[p] = "readType" /\ mpc' = [mpc EXCEPT ![p] = "served"]
    <3>1. mpc'[p] = "served" /\ mreq'[p].man = mreq[p].man /\ mreq[p].man \in Manifest
      BY <1>8, <2>2 DEF ReadFails, MReply, MT, MTypeOK, MReq, ReqOK, Digesting
    <3>2. StageOK(p)'
      BY <3>1 DEF StageOK
    <3> QED
      BY <1>1, <3>2
  <2>3. CASE mpc[p] = "readReferrers" /\ mpc' = [mpc EXCEPT ![p] = "referrersListed"]
    <3>1. /\ mpc'[p] = "referrersListed" /\ mreq'[p].man = mreq[p].man
          /\ mreq'[p].names \subseteq mreq[p].names
      BY <1>8, <2>3 DEF ReadFails, MReply, MT, MTypeOK, MReq
    <3>2. mreq[p].man \in Manifest /\ mreq[p].names \subseteq Manifest
      BY <1>0, <2>3 DEF StageOK, MT, ReqOK, Digesting
    <3>3. StageOK(p)'
      BY <3>1, <3>2 DEF StageOK
    <3> QED
      BY <1>1, <3>3
  <2> QED
    BY <1>8, <2>1, <2>2, <2>3 DEF ReadFails
<1> QED
  BY <1>2, <1>3, <1>4, <1>5, <1>6, <1>7, <1>8

LEMMA KeptByRemove ==
  ASSUME MT, Kept, ~Deleting, MT', NEW p \in Proc,
         \/ FindSubject(p) \/ DropReferrer(p) \/ RemoveBody(p) \/ DropType(p)
         \/ DeleteFails(p) \/ RemoveTag(p) \/ RemoveOne(p) \/ RemoveAllEnds(p)
  PROVE  Kept'
<1>1. mpc[p] \notin {"findSubject", "dropReferrer", "removeBody", "dropType", "removeAll"}
  BY DEF MT, ReqOK, Deleting
<1>2. /\ mpc'[p] = "idle" /\ UNCHANGED <<index, acked, setting>>
      /\ \A t \in Tag : tag'[t] \in {tag[t], None}
  BY <1>1 DEF FindSubject, DropReferrer, RemoveBody, DropType, DeleteFails, RemoveTag,
              RemoveOne, RemoveAllEnds, MReply, store, MT, MTypeOK
<1>3. StageOK(p)'
  BY <1>2 DEF StageOK
<1> QED
  BY <1>2, <1>3, KeptBy DEF MHandle

LEMMA KeptByBegin ==
  ASSUME MT, Kept, ~Deleting, MT', NEW p \in Proc,
         BeginOther(p) \/ \E m \in Manifest : BeginPut(p, m)
  PROVE  Kept'
<1>1. PICK k, r, l : Begin(p, k, r, l) /\ (l = "readBody" => r.ref = ByDigest)
                     /\ l \in {"writeBody", "readTag", "removeTag", "readBody",
                               "findSubject", "listReferrers", "removeAll", "listTags"}
  BY DEF BeginOther, BeginPut, MReq
<1>2. /\ mpc'[p] = l /\ mreq'[p] = r
      /\ UNCHANGED <<index, tag, acked, setting>>
  BY <1>1 DEF Begin, store, MT, MTypeOK
<1>3. StageOK(p)'
  BY <1>1, <1>2, Constants DEF StageOK
<1> QED
  BY <1>2, <1>3, KeptBy

LEMMA KeptByCrash == ASSUME MT, Kept, ~Deleting, MCrash PROVE Kept'
<1>1. UNCHANGED <<body, mtype, index, tag, acked>> /\ \A p \in Proc : mpc'[p] = "idle"
  BY DEF MCrash
<1>2. \A p \in Proc : StageOK(p)'
  BY <1>1 DEF StageOK
<1> QED
  BY <1>1, <1>2 DEF Kept, Complete

LEMMA KeptInit == MInit => Kept
  BY Constants DEF MInit, Kept, StageOK

LEMMA KeptStep == MT /\ Kept /\ [MNext]_mvars => Kept'
<1> SUFFICES ASSUME MT, Kept, [MNext]_mvars, ~Deleting PROVE Kept'
  BY SettingKept DEF Kept, Deleting, Traffic
<1>0. MT'
  BY StepTyped
<1>1. CASE UNCHANGED mvars
  BY <1>1 DEF mvars, Kept, StageOK, Complete, Deleting, Traffic
<1>2. ASSUME NEW p \in Proc, MHandle(p) PROVE Kept'
  BY <1>0, <1>2, KeptByPut, KeptByRead, KeptByRemove DEF MHandle
<1> QED
  BY <1>0, <1>1, <1>2, KeptByBegin, KeptByCrash DEF MNext
-----------------------------------------------------------------------------
(***************************************************************************)
(* Where requests come one at a time and nothing fails: the index is off    *)
(* only by the manifest the one request at work is at.                      *)
(***************************************************************************)
Calm == Alone /\ Faults = {}

\* A request at work may have one manifest half in or half out of the index.
At(p, m) ==
  \/ mpc[p] \in {"writeType", "writeReferrer", "removeBody"} /\ mreq[p].man = m
  \/ mpc[p] = "removeAll"

TurnOK(p) ==
  /\ \A q \in Proc : mpc[q] # "idle" => q = p
  /\ mpc[p] \in {"writeType", "writeReferrer"} => mreq[p].man \in body
  /\ mpc[p] = "renameTag" => p \in tmp
  /\ mpc[p] = "removeBody" /\ Subject[mreq[p].man] # None => index[mreq[p].man] = None

Paired ==
  Calm =>
    /\ \A p \in Proc : mpc[p] # "idle" => TurnOK(p)
    /\ \A m \in Manifest : Subject[m] # None /\ (\A p \in Proc : ~At(p, m)) =>
         (index[m] # None <=> m \in body)

LEMMA AtWork == ASSUME MT, NEW p \in Proc, Paired, Calm, mpc[p] # "idle"
                PROVE  /\ \A q \in Proc \ {p} : mpc[q] = "idle" /\ q \notin tmp
                       /\ TurnOK(p)
  BY DEF Paired, TurnOK, MT, ReqOK

\* What is left to show of a step of the one at work.
LEMMA PairedBy ==
  ASSUME MT, Paired, Calm, NEW p \in Proc, MHandle(p), mpc[p] # "idle",
         mpc'[p] # "idle" =>
           /\ mpc'[p] \in {"writeType", "writeReferrer"} => mreq'[p].man \in body'
           /\ mpc'[p] = "renameTag" => p \in tmp'
           /\ mpc'[p] = "removeBody" /\ Subject[mreq'[p].man] # None =>
                index'[mreq'[p].man] = None,
         \A m \in Manifest : Subject[m] # None /\ ~At(p, m)' => (index'[m] # None <=> m \in body')
  PROVE  Paired'
<1>1. \A q \in Proc \ {p} : mpc'[q] = "idle"
  BY AtWork, OthersWait
<1>2. ASSUME NEW q \in Proc, mpc'[q] # "idle" PROVE TurnOK(q)'
  BY <1>1, <1>2 DEF TurnOK
<1>3. ASSUME NEW m \in Manifest, Subject[m] # None, \A q \in Proc : ~At(q, m)'
      PROVE  index'[m] # None <=> m \in body'
  BY <1>3
<1> QED
  BY <1>2, <1>3 DEF Paired

\* Before the step, likewise.
LEMMA PairedNow ==
  ASSUME MT, Paired, Calm, NEW p \in Proc, mpc[p] # "idle", mpc[p] # "removeAll",
         NEW m \in Manifest, Subject[m] # None,
         mpc[p] \in {"writeType", "writeReferrer", "removeBody"} => mreq[p].man # m
  PROVE  index[m] # None <=> m \in body
  BY AtWork DEF Paired, At

LEMMA PairedPut ==
  ASSUME MT, Paired, Calm, NEW p \in Proc,
         \/ WriteBody(p) \/ WriteType(p) \/ WriteReferrer(p) \/ TmpTag(p)
         \/ RenameTag(p) \/ PutFails(p)
  PROVE  Paired'
<1>0. /\ mpc[p] \in Writing /\ mreq[p].man \in Manifest /\ mreq[p].type # None
      /\ mpc[p] # "idle" /\ mpc[p] # "removeAll" /\ TurnOK(p) /\ Faults = {}
  BY Constants, AtWork
  DEF WriteBody, WriteType, WriteReferrer, TmpTag, RenameTag, PutFails, Writing, MT, ReqOK,
      Paired, Calm
<1>m. PICK n \in Manifest : n = mreq[p].man
  BY <1>0
<1>1. CASE WriteBody(p)
  <2>1. /\ mpc'[p] = "writeType" /\ mreq' = mreq /\ n \in body'
        /\ body' = body \cup {n} /\ index' = index
    BY <1>m, <1>1 DEF WriteBody, MGoto, MT, MTypeOK
  <2>2. ASSUME NEW m \in Manifest, Subject[m] # None, ~At(p, m)'
        PROVE  index'[m] # None <=> m \in body'
    BY <1>m, <1>0, <1>1, <2>1, <2>2, PairedNow DEF At, WriteBody
  <2> QED
    BY <1>m, <1>0, <1>1, <2>1, <2>2, PairedBy DEF MHandle
<1>2. CASE WriteType(p) /\ Subject[n] # None
  <2>1. /\ mpc'[p] = "writeReferrer" /\ mreq' = mreq /\ UNCHANGED <<body, index>>
        /\ n \in body
    BY <1>m, <1>0, <1>2 DEF WriteType, MGoto, MT, MTypeOK, TurnOK
  <2>2. ASSUME NEW m \in Manifest, Subject[m] # None, ~At(p, m)'
        PROVE  index'[m] # None <=> m \in body'
    BY <1>m, <1>0, <1>2, <2>1, <2>2, PairedNow DEF At
  <2> QED
    BY <1>m, <1>0, <1>2, <2>1, <2>2, PairedBy DEF MHandle
<1>3. CASE WriteType(p) /\ Subject[n] = None
  <2>1. /\ mpc'[p] \in {"tmpTag", "idle"} /\ UNCHANGED <<body, index>>
    BY <1>m, <1>0, <1>3 DEF WriteType, FinishPut, MGoto, MReply, MT, MTypeOK
  <2>2. ASSUME NEW m \in Manifest, Subject[m] # None
        PROVE  index'[m] # None <=> m \in body'
    BY <1>m, <1>0, <1>3, <2>1, <2>2, PairedNow
  <2> QED
    BY <1>m, <1>0, <1>3, <2>1, <2>2, PairedBy DEF MHandle
<1>4. CASE WriteReferrer(p)
  <2>1. /\ mpc'[p] \in {"tmpTag", "idle"} /\ body' = body
        /\ n \in body /\ index'[n] # None
        /\ \A m \in Manifest \ {n} : index'[m] = index[m]
    BY <1>m, <1>0, <1>4
    DEF WriteReferrer, FinishPut, MGoto, MReply, MT, MTypeOK, TurnOK
  <2>2. ASSUME NEW m \in Manifest, Subject[m] # None
        PROVE  index'[m] # None <=> m \in body'
    <3>1. CASE m = n
      BY <2>1, <3>1
    <3>2. CASE m # n
      BY <1>m, <1>0, <2>1, <2>2, <3>2, PairedNow
    <3> QED
      BY <3>1, <3>2
  <2> QED
    BY <1>m, <1>0, <1>4, <2>1, <2>2, PairedBy DEF MHandle
<1>5. CASE TmpTag(p) \/ RenameTag(p)
  <2>1. /\ mpc'[p] \in {"renameTag", "idle"} /\ UNCHANGED <<body, index>>
        /\ mpc[p] \in {"tmpTag", "renameTag"} /\ (mpc'[p] = "renameTag" => p \in tmp')
    BY <1>5 DEF TmpTag, RenameTag, MGoto, MReply, MT, MTypeOK
  <2>2. ASSUME NEW m \in Manifest, Subject[m] # None
        PROVE  index'[m] # None <=> m \in body'
    BY <1>0, <2>1, <2>2, PairedNow
  <2>3. MHandle(p)
    BY <1>5 DEF MHandle
  <2> QED
    BY <1>0, <2>1, <2>2, <2>3, PairedBy
<1>6. CASE PutFails(p)
  BY <1>0, <1>6 DEF PutFails, TurnOK
<1> QED
  BY <1>1, <1>2, <1>3, <1>4, <1>5, <1>6

LEMMA PairedRead ==
  ASSUME MT, Paired, Calm, NEW p \in Proc,
         \/ ReadTag(p) \/ ReadBody(p) \/ ReadType(p) \/ ReadFails(p) \/ Answer(p)
         \/ ListTags(p) \/ ListReferrers(p) \/ ReadReferrers(p)
  PROVE  Paired'
<1>1. /\ UNCHANGED <<body, index>>
      /\ mpc[p] \in {"readTag", "readBody", "readType", "served", "tagsListed",
                     "referrersListed", "listTags", "listReferrers", "readReferrers"}
      /\ ~ReadFails(p)
  BY DEF Calm, ReadFails, ReadTag, ReadBody, ReadType, Answer, ListTags, ListReferrers, ReadReferrers, store
<1>2. mpc'[p] \in {"idle", "readBody", "readType", "served", "tagsListed",
                   "readReferrers", "referrersListed"}
  BY <1>1 DEF ReadTag, ReadBody, ReadType, Answer, ListTags, ListReferrers, ReadReferrers,
         MGoto, MReply, MT, MTypeOK
<1>3. ASSUME NEW m \in Manifest, Subject[m] # None
      PROVE  index'[m] # None <=> m \in body'
  BY <1>1, <1>3, PairedNow
<1> QED
  BY <1>1, <1>2, <1>3, PairedBy DEF MHandle

LEMMA PairedRemove ==
  ASSUME MT, Paired, Calm, NEW p \in Proc,
         \/ FindSubject(p) \/ DropReferrer(p) \/ RemoveBody(p) \/ DropType(p)
         \/ DeleteFails(p) \/ RemoveTag(p)
  PROVE  Paired'
<1>0. /\ mpc[p] \in {"findSubject", "dropReferrer", "removeBody", "dropType", "removeTag"}
      /\ TurnOK(p) /\ Faults = {}
      /\ mpc[p] # "removeTag" => mreq[p].man \in Manifest
  BY AtWork
  DEF FindSubject, DropReferrer, RemoveBody, DropType, DeleteFails, RemoveTag, store, MT,
      ReqOK, Digesting, Paired, Calm
<1>1. CASE FindSubject(p)
  <2>1. PICK n \in Manifest : n = mreq[p].man
    BY <1>0, <1>1 DEF FindSubject
  <2>2. /\ mreq' = mreq /\ UNCHANGED <<body, index>>
        /\ mpc'[p] \in {"dropReferrer", "removeBody"}
        /\ mpc'[p] = "removeBody" => n \notin body \/ Subject[n] = None
    BY <1>1, <2>1 DEF FindSubject, MGoto, store, MT, MTypeOK
  <2>3. ASSUME NEW m \in Manifest, Subject[m] # None
        PROVE  index'[m] # None <=> m \in body'
    BY <1>1, <2>2, <2>3, PairedNow DEF FindSubject
  <2> QED
    BY <1>0, <1>1, <2>1, <2>2, <2>3, PairedBy DEF MHandle
<1>2. CASE DropReferrer(p)
  <2>1. PICK n \in Manifest : n = mreq[p].man
    BY <1>0, <1>2 DEF DropReferrer
  <2>2. /\ mreq' = mreq /\ body' = body /\ mpc'[p] = "removeBody" /\ index'[n] = None
        /\ \A m \in Manifest \ {n} : index'[m] = index[m]
    BY <1>2, <2>1 DEF DropReferrer, MGoto, MT, MTypeOK
  <2>3. ASSUME NEW m \in Manifest, Subject[m] # None, ~At(p, m)'
        PROVE  index'[m] # None <=> m \in body'
    BY <1>2, <2>1, <2>2, <2>3, PairedNow DEF DropReferrer, At
  <2> QED
    BY <1>0, <1>2, <2>1, <2>2, <2>3, PairedBy DEF MHandle
<1>3. CASE RemoveBody(p)
  <2>1. PICK n \in Manifest : n = mreq[p].man
    BY <1>0, <1>3 DEF RemoveBody
  <2>2. /\ index' = index /\ body' = body \ {n} /\ mpc'[p] \in {"dropType", "idle"}
        /\ Subject[n] # None => index[n] = None
    BY <1>0, <1>3, <2>1 DEF RemoveBody, MGoto, MReply, MT, MTypeOK, TurnOK
  <2>3. ASSUME NEW m \in Manifest, Subject[m] # None
        PROVE  index'[m] # None <=> m \in body'
    BY <1>3, <2>1, <2>2, <2>3, PairedNow DEF RemoveBody
  <2> QED
    BY <1>0, <1>3, <2>2, <2>3, PairedBy DEF MHandle
<1>4. CASE DropType(p) \/ RemoveTag(p)
  <2>1. /\ UNCHANGED <<body, index>> /\ mpc'[p] = "idle" /\ mpc[p] \in {"dropType", "removeTag"}
    BY <1>4 DEF DropType, RemoveTag, MReply, MT, MTypeOK
  <2>2. ASSUME NEW m \in Manifest, Subject[m] # None
        PROVE  index'[m] # None <=> m \in body'
    BY <2>1, <2>2, PairedNow
  <2> QED
    BY <1>0, <1>4, <2>1, <2>2, PairedBy DEF MHandle
<1>5. CASE DeleteFails(p)
  BY <1>0, <1>5 DEF DeleteFails
<1> QED
  BY <1>1, <1>2, <1>3, <1>4, <1>5

LEMMA PairedDrop ==
  ASSUME MT, Paired, Calm, NEW p \in Proc, RemoveOne(p) \/ RemoveAllEnds(p)
  PROVE  Paired'
<1>0. mpc[p] = "removeAll" /\ Faults = {}
  BY DEF RemoveOne, RemoveAllEnds, store, Paired, Calm
<1>1. CASE RemoveOne(p)
  <2>1. mpc'[p] = "removeAll"
    BY <1>0, <1>1 DEF RemoveOne
  <2> QED
    BY <1>0, <1>1, <2>1, PairedBy DEF MHandle, At
<1>2. CASE RemoveAllEnds(p)
  <2>1. \A q \in Proc \ {p} : mpc[q] = "idle"
    BY <1>0, AtWork
  <2>2. /\ mpc'[p] = "idle" /\ body' = {}
        /\ \A m \in Manifest : index'[m] = None
    BY <1>0, <1>2, <2>1 DEF RemoveAllEnds, MReply, store, MT, MTypeOK
  <2> QED
    BY <1>0, <1>2, <2>2, PairedBy DEF MHandle
<1> QED
  BY <1>1, <1>2

LEMMA PairedBegin ==
  ASSUME MT, Paired, Calm, NEW p \in Proc,
         BeginOther(p) \/ \E m \in Manifest : BeginPut(p, m)
  PROVE  Paired'
<1>1. PICK k, r, l : /\ Begin(p, k, r, l)
                     /\ l \in {"writeBody", "readTag", "removeTag", "readBody",
                               "findSubject", "listReferrers", "removeAll", "listTags"}
  BY DEF BeginOther, BeginPut
<1>2. /\ mpc[p] = "idle" /\ mpc'[p] = l /\ \A q \in Proc : mpc[q] = "idle"
      /\ UNCHANGED <<body, index>>
  BY <1>1 DEF Begin, store, MT, MTypeOK, Calm
<1>3. \A q \in Proc \ {p} : mpc'[q] = "idle"
  BY <1>2, OthersWait
<1>4. ASSUME NEW q \in Proc, mpc'[q] # "idle" PROVE TurnOK(q)'
  BY <1>1, <1>2, <1>3, <1>4 DEF TurnOK
<1>5. ASSUME NEW m \in Manifest, Subject[m] # None PROVE index'[m] # None <=> m \in body'
  BY <1>2, <1>5 DEF Paired, At
<1> QED
  BY <1>4, <1>5 DEF Paired

LEMMA PairedInit == MInit => Paired
  BY DEF MInit, Paired, TurnOK, At

LEMMA PairedStep == MT /\ Paired /\ [MNext]_mvars => Paired'
<1> SUFFICES ASSUME MT, Paired, [MNext]_mvars, Calm PROVE Paired'
  BY SettingKept DEF Paired, Calm, Alone, Faults
<1>1. CASE UNCHANGED mvars
  BY <1>1 DEF mvars, Paired, TurnOK, At, Calm, Alone, Faults
<1>2. ASSUME NEW p \in Proc, MHandle(p) PROVE Paired'
  BY <1>2, PairedPut, PairedRead, PairedRemove, PairedDrop DEF MHandle
<1>3. CASE MCrash
  BY <1>3 DEF MCrash, Calm
<1> QED
  BY <1>1, <1>2, <1>3, PairedBegin DEF MNext
-----------------------------------------------------------------------------
(* The theorems                                                            *)

LEMMA MInvariance == MSpec => [](MT /\ Kept /\ Paired)
<1>1. MInit => MT /\ Kept /\ Paired
  BY InitTyped, KeptInit, PairedInit
<1>2. MT /\ Kept /\ Paired /\ [MNext]_mvars => (MT /\ Kept /\ Paired)'
  BY StepTyped, KeptStep, PairedStep
<1> QED
  BY <1>1, <1>2, PTL DEF MSpec

\* Type correctness: beside any number of requests, and through any failures,
\* files and requests hold what they are for.
THEOREM ManifestsTyped == MSpec => []MTypeOK
<1>1. MT => MTypeOK
  BY DEF MT
<1> QED
  BY <1>1, MInvariance, PTL

\* Where nobody deletes, a tag names a manifest that can be pulled with its
\* media type and is in the referrers index, whatever overlaps or fails.
THEOREM TagsComplete == MSpec => []TagsNameCompleteManifests
<1>1. Kept => TagsNameCompleteManifests
  BY DEF Kept, TagsNameCompleteManifests
<1> QED
  BY <1>1, MInvariance, PTL

\* Where nobody deletes, a push that was answered 201 is complete for good.
THEOREM AckedComplete == MSpec => []AckedStaysComplete
<1>1. Kept => AckedStaysComplete
  BY DEF Kept, AckedStaysComplete
<1> QED
  BY <1>1, MInvariance, PTL

\* Where requests come one at a time and nothing fails, the referrers index
\* and the manifests agree whenever nobody is at work.
THEOREM IndexMatches == MSpec => []IndexMatchesStore
<1>1. Paired => IndexMatchesStore
  BY DEF Paired, At, Calm, IndexMatchesStore
<1> QED
  BY <1>1, MInvariance, PTL
-----------------------------------------------------------------------------
(***************************************************************************)
(* Where nobody deletes, the manifest store of ManifestStore is             *)
(* implemented: every step is one of its steps, or none.                   *)
(***************************************************************************)
LEMMA PromisesKept == [MNext]_mvars => UNCHANGED promises
  BY SettingKept DEF promises, Deleting, Traffic, Faults

\* Only its own request shows in what a handler has seen.
LEMMA OwnSight ==
  ASSUME MT, NEW p \in Proc,
         MHandle(p) \/ BeginOther(p) \/ \E m \in Manifest : BeginPut(p, m)
  PROVE  sights' = [sights EXCEPT ![p] = Sight(p)']
  BY OthersWait DEF sights, Sight

LEMMA SightKept ==
  ASSUME MT, NEW p \in Proc, Sight(p)' = Sight(p),
         MHandle(p) \/ BeginOther(p) \/ \E m \in Manifest : BeginPut(p, m)
  PROVE  UNCHANGED sights
  BY OwnSight DEF sights

\* The files of one manifest are written: it becomes visible, or it does not.
LEMMA VisibleBy ==
  ASSUME MT, Kept, ~Deleting, NEW p \in Proc, NEW m \in Manifest,
         WriteBody(p) \/ WriteType(p) \/ WriteReferrer(p), m = mreq[p].man
  PROVE  visible' = visible \/ visible' = visible \cup {m}
<1>1. \A n \in Manifest : Complete(n) => Complete(n)'
  BY Grows DEF MHandle
<1>2. \A n \in Manifest : n # m =>
        (n \in body' <=> n \in body) /\ mtype'[n] = mtype[n] /\ index'[n] = index[n]
  BY DEF WriteBody, WriteType, WriteReferrer, MT, MTypeOK
<1>3. \A n \in Manifest : n # m => (Complete(n)' <=> Complete(n))
  BY <1>2 DEF Complete
<1> QED
  BY <1>1, <1>3 DEF visible

LEMMA VisibleKept == UNCHANGED <<body, mtype, index>> => UNCHANGED visible
  BY DEF visible, Complete

LEMMA RefinePut ==
  ASSUME MT, Kept, ~Deleting, Kept', UNCHANGED promises, UNCHANGED setting, NEW p \in Proc,
         \/ WriteBody(p) \/ WriteType(p) \/ WriteReferrer(p) \/ TmpTag(p)
         \/ RenameTag(p) \/ PutFails(p)
  PROVE  [Abstract!Next]_(Abstract!vars)
<1>1. mpc[p] \in Writing /\ mpc'[p] \in Writing \cup {"idle"}
  BY DEF WriteBody, WriteType, WriteReferrer, TmpTag, RenameTag, PutFails, FinishPut, MGoto,
         MReply, Writing, MT, MTypeOK
<1>2. UNCHANGED sights
  <2>1. Sight(p) = None /\ Sight(p)' = None
    BY <1>1 DEF Sight, Writing
  <2> QED
    BY <2>1, SightKept DEF MHandle
<1>m. PICK m \in Manifest : m = mreq[p].man
  BY <1>1 DEF MT, ReqOK
<1>3. CASE WriteBody(p) \/ WriteType(p) \/ WriteReferrer(p)
  <2>1. visible' = visible \/ visible' = visible \cup {m}
    BY <1>3, <1>m, VisibleBy
  <2>2. acked' \in {acked, acked \cup {m}} /\ UNCHANGED tag
    BY <1>3, <1>m DEF WriteBody, WriteType, WriteReferrer, FinishPut
  <2>3. ~Deleting'
    BY DEF Deleting, Traffic
  <2>4. acked' = acked \/ m \in visible'
    BY <2>2, <2>3 DEF Kept, visible
  <2>5. CASE m \in visible'
    <3>1. visible' = visible \cup {m}
      BY <2>1, <2>5
    <3>2. Abstract!Push(m)
      BY <1>2, <2>2, <3>1 DEF Abstract!Push
    <3> QED
      BY <3>2 DEF Abstract!Next
  <2>6. CASE m \notin visible'
    BY <1>2, <2>1, <2>2, <2>4, <2>6 DEF Abstract!vars
  <2> QED
    BY <2>5, <2>6
<1>4. CASE RenameTag(p)
  <2>1. visible' = visible
    BY <1>4, VisibleKept DEF RenameTag
  <2>2. Complete(m) /\ mreq[p].ref \in Tag
    BY <1>4, <1>m DEF RenameTag, Kept, StageOK, MT, ReqOK
  <2>3. Abstract!Point(mreq[p].ref, m)
    BY <1>2, <1>4, <1>m, <2>1, <2>2 DEF RenameTag, Abstract!Point, visible
  <2> QED
    BY <2>2, <2>3 DEF Abstract!Next
<1>5. CASE TmpTag(p) \/ PutFails(p)
  <2>1. UNCHANGED <<body, mtype, index, tag, acked>>
    BY <1>5 DEF TmpTag, PutFails
  <2> QED
    BY <1>2, <2>1, VisibleKept DEF Abstract!vars
<1> QED
  BY <1>3, <1>4, <1>5

\* A step of a read, by what it does to what its client has seen.
LEMMA RefineRead ==
  ASSUME MT, Kept, ~Deleting, Kept', UNCHANGED promises, NEW p \in Proc,
         \/ ReadTag(p) \/ ReadBody(p) \/ ReadType(p) \/ ReadFails(p) \/ Answer(p)
         \/ ListTags(p) \/ ListReferrers(p) \/ ReadReferrers(p)
  PROVE  [Abstract!Next]_(Abstract!vars)
<1>1. UNCHANGED <<visible, tag, acked>>
  BY VisibleKept DEF ReadTag, ReadBody, ReadType, ReadFails, Answer, ListTags, ListReferrers,
                     ReadReferrers, store
<1>2. sights' = [sights EXCEPT ![p] = Sight(p)'] /\ sights[p] = Sight(p)
  BY OwnSight DEF MHandle, sights
<1>3. ASSUME Sight(p)' = Sight(p) PROVE Abstract!vars' = Abstract!vars
  BY <1>1, <1>2, <1>3 DEF Abstract!vars, sights
<1>4. StageOK(p) /\ ReqOK(p)
  BY DEF Kept, MT
<1>5. CASE ReadTag(p)
  <2> DEFINE t == mreq[p].ref
  <2>1. t \in Tag /\ Sight(p) = None
    BY <1>4, <1>5 DEF ReadTag, ReqOK, Sight
  <2>2. CASE tag[t] = None
    <3>1. Sight(p)' = None
      BY <1>5, <2>2 DEF ReadTag, MReply, Sight, MT, MTypeOK
    <3> QED
      BY <1>3, <2>1, <3>1
  <2>3. CASE tag[t] # None
    <3>1. /\ mpc'[p] = "readBody"
          /\ mreq'[p].ref = t /\ mreq'[p].man = tag[t]
      BY <1>5, <2>3 DEF ReadTag, MReq, MT, MTypeOK
    <3>2. Sight(p)' = Seeing(t, {tag[t]}, FALSE)
      BY <2>1, <3>1 DEF Sight, Seeing
    <3>3. Abstract!Pull(p, t)
      BY <1>1, <1>2, <2>1, <2>3, <3>2
      DEF Abstract!Pull, Abstract!See, Abstract!Sight, Seeing
    <3> QED
      BY <2>1, <3>3 DEF Abstract!Next
  <2> QED
    BY <2>2, <2>3
<1>6. CASE ReadBody(p)
  <2>1. mpc[p] = "readBody"
    BY <1>6 DEF ReadBody
  <2>2. CASE mreq[p].man \in body
    <3>1. mpc'[p] = "readType" /\ mreq' = mreq
      BY <1>6, <2>2 DEF ReadBody, MGoto, MT, MTypeOK
    <3>2. Sight(p)' = Sight(p)
      BY <2>1, <3>1 DEF Sight
    <3> QED
      BY <1>3, <3>2
  <2>3. CASE mreq[p].man \notin body
    <3>1. mpc'[p] = "idle" /\ mreq[p].ref \notin Tag
      BY <1>4, <1>6, <2>3 DEF ReadBody, MReply, StageOK, Complete, MT, MTypeOK
    <3>2. Sight(p) = None /\ Sight(p)' = None
      BY <2>1, <3>1 DEF Sight
    <3> QED
      BY <1>3, <3>2
  <2> QED
    BY <2>2, <2>3
<1>7. CASE ReadType(p)
  <2>1. /\ mpc[p] = "readType" /\ mpc'[p] = "served"
        /\ mreq'[p].ref = mreq[p].ref /\ mreq'[p].man = mreq[p].man
        /\ mreq'[p].type = mtype[mreq[p].man]
        /\ mreq[p].man \in Manifest
    BY <1>4, <1>7 DEF ReadType, MReq, ReqOK, Digesting, MT, MTypeOK
  <2>2. CASE mreq[p].ref \in Tag
    <3>1. mreq'[p].type # None
      BY <1>4, <2>1, <2>2 DEF StageOK, Complete
    <3>2. /\ Sight(p) = Seeing(mreq[p].ref, {mreq[p].man}, FALSE)
          /\ Sight(p)' = Seeing(mreq[p].ref, {mreq[p].man}, TRUE)
      BY <2>1, <2>2, <3>1 DEF Sight, Seeing
    <3>3. Abstract!Tell(p, mreq[p].ref, {mreq[p].man}, {mreq[p].man})
      BY <1>1, <1>2, <3>2 DEF Abstract!Tell, Abstract!Sight, Seeing
    <3> QED
      BY <2>1, <2>2, <3>3 DEF Abstract!Next
  <2>3. CASE mreq[p].ref \notin Tag
    <3>1. Sight(p) = None /\ Sight(p)' = None
      BY <2>1, <2>3 DEF Sight
    <3> QED
      BY <1>3, <3>1
  <2> QED
    BY <2>2, <2>3
<1>8. CASE Answer(p)
  <2>1. Sight(p)' = None
    BY <1>8 DEF Answer, MReply, Sight, MT, MTypeOK
  <2>2. \/ Sight(p) = None
        \/ \E o \in Tag \cup Manifest, s \in SUBSET Manifest : Sight(p) = Seeing(o, s, TRUE)
    <3>1. mpc[p] \in {"served", "tagsListed", "referrersListed"}
      BY <1>8 DEF Answer
    <3>2. CASE mpc[p] = "served" /\ mreq[p].ref \in Tag
      <4>1. Sight(p) \in {None, Seeing(mreq[p].ref, {mreq[p].man}, TRUE)}
        BY <3>2 DEF Sight
      <4> QED
        BY <1>4, <3>2, <4>1 DEF StageOK
    <3>3. CASE mpc[p] = "referrersListed"
      <4>1. Sight(p) = Seeing(mreq[p].man, mreq[p].names, TRUE)
        BY <3>3 DEF Sight
      <4> QED
        BY <1>4, <3>3, <4>1 DEF StageOK
    <3>4. CASE mpc[p] = "tagsListed" \/ (mpc[p] = "served" /\ mreq[p].ref \notin Tag)
      BY <3>4 DEF Sight
    <3> QED
      BY <3>1, <3>2, <3>3, <3>4
  <2>3. CASE Sight(p) = None
    BY <1>3, <2>1, <2>3
  <2>4. CASE \E o \in Tag \cup Manifest, s \in SUBSET Manifest : Sight(p) = Seeing(o, s, TRUE)
    <3>1. Abstract!Leave(p)
      BY <1>1, <1>2, <2>1, <2>4 DEF Abstract!Leave, Abstract!Sight, Seeing
    <3> QED
      BY <3>1 DEF Abstract!Next
  <2> QED
    BY <2>2, <2>3, <2>4
<1>9. CASE ListTags(p)
  <2>1. mpc[p] = "listTags" /\ mpc'[p] = "tagsListed"
    BY <1>9 DEF ListTags, MT, MTypeOK
  <2>2. Sight(p) = None /\ Sight(p)' = None
    BY <2>1 DEF Sight
  <2> QED
    BY <1>3, <2>2
<1>10. CASE ListReferrers(p)
  <2> DEFINE d == mreq[p].man
             listed == {m \in Manifest : Subject[m] = d /\ index[m] # None}
  <2>1. /\ mpc[p] = "listReferrers" /\ mpc'[p] = "readReferrers"
        /\ mreq'[p].man = d /\ mreq'[p].names = listed /\ d \in Manifest
    BY <1>4, <1>10 DEF ListReferrers, MReq, ReqOK, Digesting, MT, MTypeOK
  <2>2. Sight(p) = None /\ Sight(p)' = Seeing(d, listed, FALSE)
    BY <2>1 DEF Sight, Seeing
  <2>3. listed = {m \in visible : Subject[m] = d}
    <3>1. ASSUME NEW m \in Manifest, Subject[m] = d PROVE index[m] # None <=> Complete(m)
      BY <2>1, <3>1, Constants DEF Kept, Complete
    <3> QED
      BY <3>1 DEF visible
  <2>4. Abstract!Referrers(p, d)
    BY <1>1, <1>2, <2>2, <2>3 DEF Abstract!Referrers, Abstract!See, Abstract!Sight, Seeing
  <2> QED
    BY <2>1, <2>4 DEF Abstract!Next
<1>11. CASE ReadReferrers(p)
  <2> DEFINE d == mreq[p].man
             s == mreq[p].names
  <2>1. s \subseteq Manifest /\ d \in Manifest /\ {m \in s : index[m] # None} = s
    BY <1>4, <1>11 DEF ReadReferrers, StageOK, ReqOK, Digesting
  <2>2. /\ mpc[p] = "readReferrers" /\ mpc'[p] = "referrersListed"
        /\ mreq'[p].man = d /\ mreq'[p].names = s
    BY <1>11, <2>1 DEF ReadReferrers, MReq, MT, MTypeOK
  <2>3. Sight(p) = Seeing(d, s, FALSE) /\ Sight(p)' = Seeing(d, s, TRUE)
    BY <2>2 DEF Sight, Seeing
  <2>4. Abstract!Tell(p, d, s, s)
    BY <1>1, <1>2, <2>3 DEF Abstract!Tell, Abstract!Sight, Seeing
  <2> QED
    BY <2>1, <2>4 DEF Abstract!Next
<1>12. CASE ReadFails(p)
  <2>1. promises.fails
    BY <1>12 DEF ReadFails, promises
  <2>2. ASSUME Sight(p)' = None PROVE Abstract!Next
    <3>1. Abstract!Lose(p)
      BY <1>1, <1>2, <2>1, <2>2 DEF Abstract!Lose
    <3> QED
      BY <3>1 DEF Abstract!Next
  <2>3. CASE MReply(p)
    <3>1. Sight(p)' = None
      BY <2>3 DEF MReply, Sight, MT, MTypeOK
    <3> QED
      BY <2>2, <3>1
  <2>4. CASE mpc[p] = "readType" /\ mpc' = [mpc EXCEPT ![p] = "served"]
    <3>1. mpc'[p] = "served" /\ mreq'[p].type = None
      BY <1>12, <2>4 DEF ReadFails, MReply, MReq, MT, MTypeOK
    <3>2. Sight(p)' = None
      BY <3>1 DEF Sight
    <3> QED
      BY <2>2, <3>2
  <2>5. CASE mpc[p] = "readReferrers" /\ mpc' = [mpc EXCEPT ![p] = "referrersListed"]
    <3> DEFINE d == mreq[p].man
               s == mreq[p].names
    <3>1. PICK u \in SUBSET s : /\ mpc'[p] = "referrersListed"
                               /\ mreq'[p].man = d /\ mreq'[p].names = u
      BY <1>12, <2>5 DEF ReadFails, MReply, MReq, MT, MTypeOK
    <3>2. s \subseteq Manifest /\ d \in Manifest
      BY <1>4, <2>5 DEF StageOK, ReqOK, Digesting
    <3>3. Sight(p) = Seeing(d, s, FALSE) /\ Sight(p)' = Seeing(d, u, TRUE)
      BY <2>5, <3>1 DEF Sight, Seeing
    <3>4. Abstract!Tell(p, d, s, u)
      BY <1>1, <1>2, <2>1, <3>3 DEF Abstract!Tell, Abstract!Sight, Seeing
    <3> QED
      BY <3>2, <3>4 DEF Abstract!Next
  <2> QED
    BY <1>12, <2>3, <2>4, <2>5 DEF ReadFails
<1> QED
  BY <1>5, <1>6, <1>7, <1>8, <1>9, <1>10, <1>11, <1>12

LEMMA RefineRest ==
  ASSUME MT, ~Deleting, UNCHANGED promises, NEW p \in Proc,
         \/ FindSubject(p) \/ DropReferrer(p) \/ RemoveBody(p) \/ DropType(p)
         \/ DeleteFails(p) \/ RemoveTag(p) \/ RemoveOne(p) \/ RemoveAllEnds(p)
         \/ BeginOther(p) \/ \E m \in Manifest : BeginPut(p, m)
  PROVE  [Abstract!Next]_(Abstract!vars)
<1>1. mpc[p] \notin {"findSubject", "dropReferrer", "removeBody", "dropType", "removeAll"}
  BY DEF MT, ReqOK, Deleting
<1>2. CASE BeginOther(p) \/ \E m \in Manifest : BeginPut(p, m)
  <2>1. PICK k, r, l : Begin(p, k, r, l) /\ (l = "readBody" => r.ref \notin Tag)
                       /\ l \in {"writeBody", "readTag", "removeTag", "readBody",
                                 "findSubject", "listReferrers", "removeAll", "listTags"}
    BY <1>2, Constants DEF BeginOther, BeginPut, MReq
  <2>2. /\ mpc[p] = "idle" /\ mpc'[p] = l /\ mreq'[p] = r
        /\ UNCHANGED <<body, mtype, index, tag, acked>>
    BY <2>1 DEF Begin, store, MT, MTypeOK
  <2>3. Sight(p) = None /\ Sight(p)' = None
    BY <2>1, <2>2 DEF Sight
  <2> QED
    BY <1>2, <2>2, <2>3, SightKept, VisibleKept DEF Abstract!vars
<1>3. CASE ~(BeginOther(p) \/ \E m \in Manifest : BeginPut(p, m))
  <2>1. /\ mpc[p] = "removeTag" /\ mpc'[p] = "idle"
        /\ UNCHANGED <<body, mtype, index, acked>>
        /\ tag' \in {tag, [tag EXCEPT ![mreq[p].ref] = None]}
    BY <1>1, <1>3 DEF FindSubject, DropReferrer, RemoveBody, DropType, DeleteFails, RemoveTag,
                      RemoveOne, RemoveAllEnds, MReply, store, MT, MTypeOK
  <2>2. Sight(p) = None /\ Sight(p)' = None
    BY <2>1 DEF Sight
  <2>3. UNCHANGED <<sights, visible>>
    BY <1>3, <2>1, <2>2, SightKept, VisibleKept DEF MHandle
  <2>4. mreq[p].ref \in Tag
    BY <2>1 DEF MT, ReqOK
  <2>5. CASE tag' = tag
    BY <2>1, <2>3, <2>5 DEF Abstract!vars
  <2>6. CASE tag' = [tag EXCEPT ![mreq[p].ref] = None]
    <3>1. Abstract!Untag(mreq[p].ref)
      BY <2>1, <2>3, <2>6 DEF Abstract!Untag
    <3> QED
      BY <2>4, <3>1 DEF Abstract!Next
  <2> QED
    BY <2>1, <2>5, <2>6
<1> QED
  BY <1>2, <1>3

LEMMA RefineCrash ==
  ASSUME MCrash, UNCHANGED promises
  PROVE  [Abstract!Next]_(Abstract!vars)
<1>1. UNCHANGED <<body, mtype, index, tag, acked>> /\ promises.crashes
  BY DEF MCrash, promises
<1>2. sights' = [p \in Proc |-> None]
  BY DEF MCrash, sights, Sight
<1>3. Abstract!Crash
  BY <1>1, <1>2, VisibleKept DEF Abstract!Crash
<1> QED
  BY <1>3 DEF Abstract!Next

LEMMA RefineStores == MT /\ Kept /\ [MNext]_mvars => [Abstract!Next]_(Abstract!vars)
<1> SUFFICES ASSUME MT, Kept, [MNext]_mvars PROVE [Abstract!Next]_(Abstract!vars)
  OBVIOUS
<1>1. UNCHANGED promises /\ UNCHANGED setting /\ Kept'
  BY PromisesKept, SettingKept, KeptStep
<1>2. CASE Deleting
  BY <1>1, <1>2 DEF Abstract!Next, promises
<1>3. CASE ~Deleting
  <2>1. CASE UNCHANGED mvars
    BY <1>1, <2>1 DEF mvars, Abstract!vars, visible, Complete, sights, Sight
  <2>2. ASSUME NEW p \in Proc, MHandle(p) PROVE [Abstract!Next]_(Abstract!vars)
    BY <1>1, <1>3, <2>2, RefinePut, RefineRead, RefineRest DEF MHandle
  <2> QED
    BY <1>1, <1>3, <2>1, <2>2, RefineRest, RefineCrash DEF MNext
<1> QED
  BY <1>2, <1>3

LEMMA RefineStart == MInit => Abstract!Init
<1> SUFFICES ASSUME MInit PROVE Abstract!Init
  OBVIOUS
<1>1. visible = {} /\ sights = [p \in Proc |-> None]
  BY DEF MInit, visible, Complete, sights, Sight
<1>2. promises \in [deletes : BOOLEAN, crashes : BOOLEAN, fails : BOOLEAN]
  BY DEF promises, Deleting
<1> QED
  BY <1>1, <1>2 DEF MInit, Abstract!Init

\* Where nobody deletes, pushes, pulls by tag and listings of referrers are those
\* of a store whose operations are single steps, whatever overlaps, fails or
\* crashes.
THEOREM ManifestStoreImplemented == MSpec => ImplementsManifestStore
  BY RefineStart, RefineStores, MInvariance, PTL
  DEF MSpec, ImplementsManifestStore, Abstract!Spec
-----------------------------------------------------------------------------
(***************************************************************************)
(* Collector: the inductive invariant, in three parts.                     *)
(***************************************************************************)
CT == MT /\ CTypeOK /\ \A g \in Gc : gpc[g] # "idle" => g \in setting.gc

Running(g) == gpc[g] \in {"scan", "sweep"}

\* What a collection spares: manifests stored since its scan began are read by
\* it or still to be read.
Spares(g) ==
  /\ stable[g] \subseteq body /\ (~Running(g) => stable[g] = {})
  /\ gpc[g] = "scan" => \A m \in stable[g] : m \in left[g] \/ Needs[m] \subseteq found[g]
  /\ gpc[g] = "sweep" => \A m \in stable[g] : Needs[m] \subseteq found[g]

OneGc == \A g, h \in setting.gc : g = h

Spared ==
  "fail" \notin Faults =>
    /\ \A g \in Gc : Spares(g)
    /\ OneGc => SettledImagesKeepBlobs

\* In quiet periods: while a collection runs nothing comes or goes but through
\* it, and it has found what the manifests need and nothing else.
Finds(g) ==
  /\ Running(g) => found[g] \subseteq UNION {Needs[m] : m \in body}
  /\ gpc[g] = "scan" => \A m \in body : m \in left[g] \/ Needs[m] \subseteq found[g]
  /\ gpc[g] = "sweep" => /\ \A m \in body : Needs[m] \subseteq found[g]
                         /\ blobs \subseteq found[g] \cup left[g]

Whole ==
  Quiet /\ "fail" \notin Faults =>
    /\ Collecting => NobodyWrites
    /\ \A m \in Manifest : have[m] \subseteq blobs
    /\ \A p \in Proc : mpc[p] = "writeBody" => Needs[mreq[p].man] \subseteq blobs
    /\ \A m \in body : Needs[m] \subseteq blobs
    /\ \A g \in Gc : Finds(g)

CInv == CT /\ Spared /\ Whole
-----------------------------------------------------------------------------
(* Helpers                                                                 *)

\* A handler of module Manifests brings in no manifest but the one it pushes.
LEMMA HandlerBody ==
  ASSUME MT, NEW p \in Proc, MHandle(p)
  PROVE  /\ MT'
         /\ mpc[p] # "idle" /\ mpc'[p] # "writeBody"
         /\ \A n \in body' : n \in body \/ (mpc[p] = "writeBody" /\ n = mreq[p].man)
         /\ \A q \in Proc \ {p} : mpc'[q] = mpc[q] /\ mreq'[q] = mreq[q]
         /\ UNCHANGED setting
<1>1. MT' /\ UNCHANGED setting
  BY PutTyped, ReadTyped, RemoveTyped, RemoveOneTyped, SettingKept DEF MHandle, MNext
<1>2. \A q \in Proc \ {p} : mpc'[q] = mpc[q] /\ mreq'[q] = mreq[q]
  BY OthersWait
<1>3. mpc[p] # "idle" /\ mpc'[p] # "writeBody"
  <2> USE DEF MT, MTypeOK, MGoto, MReply
  <2>1. CASE \/ WriteBody(p) \/ WriteType(p) \/ WriteReferrer(p) \/ TmpTag(p)
             \/ RenameTag(p) \/ PutFails(p)
    BY <2>1 DEF WriteBody, WriteType, WriteReferrer, TmpTag, RenameTag, PutFails, FinishPut
  <2>2. CASE \/ ReadTag(p) \/ ReadBody(p) \/ ReadType(p) \/ ListTags(p)
             \/ ListReferrers(p) \/ ReadReferrers(p) \/ ReadFails(p) \/ Answer(p)
    BY <2>2 DEF ReadTag, ReadBody, ReadType, ListTags, ListReferrers, ReadReferrers, ReadFails,
                Answer
  <2>3. CASE \/ FindSubject(p) \/ DropReferrer(p) \/ RemoveBody(p) \/ DropType(p)
             \/ DeleteFails(p) \/ RemoveTag(p) \/ RemoveOne(p) \/ RemoveAllEnds(p)
    BY <2>3 DEF FindSubject, DropReferrer, RemoveBody, DropType, DeleteFails, RemoveTag,
                RemoveOne, RemoveAllEnds
  <2> QED
    BY <2>1, <2>2, <2>3 DEF MHandle
<1>4. \A n \in body' : n \in body \/ (mpc[p] = "writeBody" /\ n = mreq[p].man)
  BY DEF MHandle, WriteBody, WriteType, WriteReferrer, TmpTag, RenameTag, PutFails, ReadTag,
         ReadBody, ReadType, FindSubject, DropReferrer, RemoveBody, DropType, DeleteFails,
         RemoveTag, RemoveOne, RemoveAllEnds, ListTags, ListReferrers, ReadReferrers, ReadFails,
         Answer, store
<1> QED
  BY <1>1, <1>2, <1>3, <1>4

LEMMA Needed == Needs \in [Manifest -> SUBSET Blob]
  BY CollectorAssumption

\* A step that leaves the collections and the manifests alone, and takes no
\* blob away.
LEMMA Beside ==
  ASSUME CInv, UNCHANGED gvars, MT', UNCHANGED <<body, setting>>,
         blobs \subseteq blobs', blobs' \in SUBSET Blob, have' \in [Manifest -> SUBSET Blob],
         Quiet /\ "fail" \notin Faults =>
           /\ Collecting => NobodyWrites' /\ blobs' = blobs
           /\ \A m \in Manifest : have'[m] \subseteq blobs'
           /\ \A p \in Proc : mpc'[p] = "writeBody" => Needs[mreq'[p].man] \subseteq blobs'
  PROVE  CInv'
<1>1. UNCHANGED <<Faults, Quiet, Collecting, OneGc>> /\ UNCHANGED <<gpc, left, found, stable, held>>
  BY DEF Faults, Quiet, gvars, Collecting, OneGc
<1>2. CT'
  BY <1>1 DEF CInv, CT, CTypeOK, MT
<1>3. Spared'
  BY <1>1 DEF CInv, Spared, Spares, Running, SettledImagesKeepBlobs
<1>4. Whole'
  <2>1. \A g \in Gc : Running(g) => Collecting
    BY DEF Running, Collecting
  <2> QED
    BY <1>1, <2>1 DEF CInv, Whole, Finds, Running
<1> QED
  BY <1>2, <1>3, <1>4 DEF CInv
-----------------------------------------------------------------------------
(* Clients and handlers                                                    *)

LEMMA ClientStep ==
  ASSUME CInv, NEW m \in Manifest,
         (\E d \in Blob : HeadBlob(m, d) \/ PushBlob(m, d)) \/ Forget(m)
  PROVE  CInv'
<1>1. UNCHANGED mvars /\ UNCHANGED gvars /\ blobs \subseteq blobs' /\ blobs' \in SUBSET Blob
  BY DEF HeadBlob, PushBlob, Forget, CInv, CT, CTypeOK
<1>2. /\ have' \in [Manifest -> SUBSET Blob]
      /\ \A n \in Manifest : have'[n] \subseteq have[n] \cup blobs'
  BY DEF HeadBlob, PushBlob, Forget, CInv, CT, CTypeOK
<1>3. Quiet /\ Collecting => have' = [have EXCEPT ![m] = {}] /\ blobs' = blobs
  BY DEF HeadBlob, PushBlob, Forget, MayWrite
<1>4. MT' /\ UNCHANGED <<body, setting, mpc, mreq>>
  BY <1>1, StepTyped DEF CInv, CT, mvars
<1>5. ASSUME Quiet, "fail" \notin Faults
      PROVE  /\ Collecting => NobodyWrites' /\ blobs' = blobs
             /\ \A n \in Manifest : have'[n] \subseteq blobs'
             /\ \A p \in Proc : mpc'[p] = "writeBody" => Needs[mreq'[p].man] \subseteq blobs'
  BY <1>1, <1>2, <1>3, <1>4, <1>5 DEF CInv, CT, CTypeOK, Whole, NobodyWrites
<1> QED
  BY <1>1, <1>2, <1>4, <1>5, Beside

LEMMA RequestStep ==
  ASSUME CInv, NEW p \in Proc, OtherRequest(p) \/ \E m \in Manifest : PushManifest(p, m)
  PROVE  CInv'
<1>1. UNCHANGED <<blobs, have, gvars>> /\ (Quiet => ~Collecting)
  BY DEF OtherRequest, PushManifest, MayWrite
<1>2. BeginOther(p) \/ \E m \in Manifest : have[m] = Needs[m] /\ BeginPut(p, m)
  BY DEF OtherRequest, PushManifest
<1>3. MT' /\ UNCHANGED <<body, setting>>
  BY <1>2, BeginsTyped DEF CInv, CT, BeginOther, BeginPut, Begin, store
<1>4. \A q \in Proc \ {p} : mpc'[q] = mpc[q] /\ mreq'[q] = mreq[q]
  BY <1>2, OthersWait DEF CInv, CT
<1>5. mpc'[p] = "writeBody" =>
        \E m \in Manifest : mreq'[p].man = m /\ have[m] = Needs[m]
  BY <1>2 DEF BeginOther, BeginPut, Begin, MReq, CInv, CT, MT, MTypeOK
<1>6. ASSUME Quiet, "fail" \notin Faults
      PROVE  /\ Collecting => NobodyWrites' /\ blobs' = blobs
             /\ \A n \in Manifest : have'[n] \subseteq blobs'
             /\ \A q \in Proc : mpc'[q] = "writeBody" => Needs[mreq'[q].man] \subseteq blobs'
  BY <1>1, <1>4, <1>5, <1>6 DEF CInv, Whole
<1> QED
  BY <1>1, <1>3, <1>6, Beside DEF CInv, CT, CTypeOK

LEMMA HandlerStep == ASSUME CInv, NEW p \in Proc, HandleManifest(p) PROVE CInv'
<1>1. /\ MHandle(p) /\ stable' = [g \in Gc |-> stable[g] \cap body']
      /\ UNCHANGED <<blobs, have, gpc, left, found, held>>
  BY DEF HandleManifest
<1>2. /\ MT' /\ mpc[p] # "idle" /\ mpc'[p] # "writeBody"
      /\ \A n \in body' : n \in body \/ (mpc[p] = "writeBody" /\ n = mreq[p].man)
      /\ \A q \in Proc \ {p} : mpc'[q] = mpc[q] /\ mreq'[q] = mreq[q]
      /\ UNCHANGED <<setting, Faults, Quiet, Collecting, OneGc>>
  BY <1>1, HandlerBody DEF CInv, CT, Faults, Quiet, Collecting, OneGc
<1>3. \A g \in Gc : stable'[g] \subseteq body' /\ stable'[g] \subseteq stable[g]
  BY <1>1
<1>4. CT'
  BY <1>1, <1>2 DEF CInv, CT, CTypeOK, MT
<1>5. Spared'
  BY <1>1, <1>2, <1>3 DEF CInv, Spared, Spares, Running, SettledImagesKeepBlobs
<1>6. Whole'
  <2> SUFFICES ASSUME Quiet, "fail" \notin Faults
               PROVE  /\ Collecting => NobodyWrites'
                      /\ \A m \in Manifest : have'[m] \subseteq blobs'
                      /\ \A q \in Proc : mpc'[q] = "writeBody" =>
                           Needs[mreq'[q].man] \subseteq blobs'
                      /\ \A m \in body' : Needs[m] \subseteq blobs'
                      /\ \A g \in Gc : Finds(g)'
    BY <1>2 DEF Whole
  <2>1. ~Collecting
    BY <1>2 DEF CInv, Whole, NobodyWrites
  <2>2. \A g \in Gc : Finds(g)'
    BY <1>1, <2>1 DEF Finds, Running, Collecting
  <2> QED
    BY <1>1, <1>2, <2>1, <2>2 DEF CInv, Whole
<1> QED
  BY <1>4, <1>5, <1>6 DEF CInv

LEMMA CrashStep == ASSUME CInv, CCrash PROVE CInv'
<1>1. /\ MT' /\ UNCHANGED <<body, setting, Faults, Quiet, OneGc>>
      /\ \A p \in Proc : mpc'[p] = "idle"
  BY CrashTyped DEF CInv, CT, CCrash, MCrash, Faults, Quiet, OneGc
<1>2. /\ UNCHANGED <<blobs, have>>
      /\ gpc' = [g \in Gc |-> "idle"] /\ left' = [g \in Gc |-> {}]
      /\ found' = [g \in Gc |-> {}] /\ stable' = [g \in Gc |-> {}]
      /\ held' = [g \in Gc |-> {}]
  BY DEF CCrash
<1>3. CT'
  BY <1>1, <1>2 DEF CInv, CT, CTypeOK, MT
<1>4. Spared'
  BY <1>1, <1>2 DEF Spared, Spares, Running, SettledImagesKeepBlobs
<1>5. Whole'
  BY <1>1, <1>2 DEF CInv, Whole, Finds, Running, Collecting
<1> QED
  BY <1>3, <1>4, <1>5 DEF CInv
-----------------------------------------------------------------------------
(* Collections                                                             *)

\* What a step of a collection leaves alone.
LEMMA Collects ==
  ASSUME CInv, UNCHANGED mvars, UNCHANGED have
  PROVE  /\ MT' /\ UNCHANGED <<body, setting, Faults, Quiet, OneGc, NobodyWrites>>
         /\ UNCHANGED <<mpc, mreq>> /\ MTypeOK'
  BY StepTyped DEF CInv, CT, MT, mvars, Faults, Quiet, OneGc, NobodyWrites

LEMMA ListStep == ASSUME CInv, NEW g \in Gc, GcList(g) PROVE CInv'
<1>1. /\ MT' /\ UNCHANGED <<body, setting, Faults, Quiet, OneGc, NobodyWrites>>
      /\ UNCHANGED <<mpc, mreq>> /\ MTypeOK'
  BY Collects DEF GcList
<1>2. /\ UNCHANGED <<blobs, have>> /\ g \in setting.gc /\ (Quiet => NobodyWrites)
      /\ gpc[g] \in {"idle", "done"}
      /\ gpc' = [gpc EXCEPT ![g] = "scan"] /\ left' = [left EXCEPT ![g] = body]
      /\ found' = [found EXCEPT ![g] = {}] /\ stable' = [stable EXCEPT ![g] = body]
      /\ held' = [held EXCEPT ![g] = blobs]
  BY DEF GcList
<1>3. CT'
  BY <1>1, <1>2 DEF CInv, CT, CTypeOK, MT, MTypeOK
<1>4. Spared'
  BY <1>1, <1>2
  DEF CInv, CT, CTypeOK, Spared, Spares, Running, SettledImagesKeepBlobs
<1>5. Whole'
  BY <1>1, <1>2 DEF CInv, CT, CTypeOK, Whole, Finds, Running, Collecting
<1> QED
  BY <1>3, <1>4, <1>5 DEF CInv

LEMMA ReadStep ==
  ASSUME CInv, NEW g \in Gc, NEW m \in Manifest, GcRead(g, m) \/ GcReadFails(g, m)
  PROVE  CInv'
<1>1. /\ MT' /\ UNCHANGED <<body, setting, Faults, Quiet, OneGc, NobodyWrites>>
      /\ UNCHANGED <<mpc, mreq>> /\ MTypeOK'
  BY Collects DEF GcRead, GcReadFails
<1>2. /\ UNCHANGED <<blobs, have, gpc, stable, held>> /\ gpc[g] = "scan" /\ m \in left[g]
      /\ left' = [left EXCEPT ![g] = @ \ {m}]
      /\ found' = [found EXCEPT ![g] = found'[g]]
      /\ found[g] \subseteq found'[g] /\ found'[g] \subseteq found[g] \cup Needs[m]
      /\ "fail" \notin Faults =>
           found'[g] = IF m \in body THEN found[g] \cup Needs[m] ELSE found[g]
  BY DEF GcRead, GcReadFails, CInv, CT, CTypeOK
<1>3. CT'
  BY <1>1, <1>2, Needed DEF CInv, CT, CTypeOK, MT
<1>4. Spared'
  BY <1>1, <1>2
  DEF CInv, CT, CTypeOK, Spared, Spares, Running, SettledImagesKeepBlobs
<1>5. Whole'
  BY <1>1, <1>2 DEF CInv, CT, CTypeOK, Whole, Finds, Running, Collecting
<1> QED
  BY <1>3, <1>4, <1>5 DEF CInv

LEMMA SweepStep == ASSUME CInv, NEW g \in Gc, GcSweep(g) PROVE CInv'
<1>1. /\ MT' /\ UNCHANGED <<body, setting, Faults, Quiet, OneGc, NobodyWrites>>
      /\ UNCHANGED <<mpc, mreq>> /\ MTypeOK'
  BY Collects DEF GcSweep
<1>2. /\ UNCHANGED <<blobs, have, found, stable, held>> /\ gpc[g] = "scan" /\ left[g] = {}
      /\ gpc' = [gpc EXCEPT ![g] = "sweep"] /\ left' = [left EXCEPT ![g] = blobs]
  BY DEF GcSweep
<1>3. CT'
  BY <1>1, <1>2 DEF CInv, CT, CTypeOK, MT
<1>4. Spared'
  BY <1>1, <1>2
  DEF CInv, CT, CTypeOK, Spared, Spares, Running, SettledImagesKeepBlobs
<1>5. Whole'
  BY <1>1, <1>2 DEF CInv, CT, CTypeOK, Whole, Finds, Running, Collecting
<1> QED
  BY <1>3, <1>4, <1>5 DEF CInv

LEMMA VisitStep ==
  ASSUME CInv, NEW g \in Gc, NEW d \in Blob, GcVisit(g, d) \/ GcRemoveFails(g, d)
  PROVE  CInv'
<1>1. /\ MT' /\ UNCHANGED <<body, setting, Faults, Quiet, OneGc, NobodyWrites>>
      /\ UNCHANGED <<mpc, mreq>> /\ MTypeOK'
  BY Collects DEF GcVisit, GcRemoveFails
<1>2. /\ UNCHANGED <<have, gpc, found, stable, held>> /\ gpc[g] = "sweep"
      /\ left' = [left EXCEPT ![g] = @ \ {d}]
      /\ blobs' \subseteq blobs /\ blobs \subseteq blobs' \cup {d}
      /\ d \in found[g] => blobs' = blobs
      /\ "fail" \notin Faults => blobs' = IF d \in found[g] THEN blobs ELSE blobs \ {d}
  BY DEF GcVisit, GcRemoveFails
<1>3. CT'
  BY <1>1, <1>2 DEF CInv, CT, CTypeOK, MT
<1>4. Spared'
  <2> SUFFICES ASSUME "fail" \notin Faults
               PROVE  /\ \A h \in Gc : Spares(h)'
                      /\ OneGc => SettledImagesKeepBlobs'
    BY <1>1 DEF Spared
  <2>1. \A h \in Gc : Spares(h)'
    BY <1>1, <1>2 DEF CInv, CT, CTypeOK, Spared, Spares, Running
  <2>2. ASSUME OneGc, NEW h \in Gc, NEW m \in stable[h]
        PROVE  Needs[m] \cap held[h] \subseteq blobs'
    <3>1. Running(h) /\ g = h
      BY <1>2, <2>2 DEF CInv, CT, Spared, Spares, OneGc, Running
    <3>2. Needs[m] \subseteq found[g] /\ Needs[m] \cap held[h] \subseteq blobs
      BY <1>2, <2>2, <3>1 DEF CInv, Spared, Spares, SettledImagesKeepBlobs
    <3> QED
      BY <1>2, <3>2
  <2> QED
    BY <1>2, <2>1, <2>2 DEF SettledImagesKeepBlobs
<1>5. Whole'
  <2> SUFFICES ASSUME Quiet, "fail" \notin Faults
               PROVE  /\ Collecting' => NobodyWrites'
                      /\ \A m \in Manifest : have'[m] \subseteq blobs'
                      /\ \A q \in Proc : mpc'[q] = "writeBody" =>
                           Needs[mreq'[q].man] \subseteq blobs'
                      /\ \A m \in body' : Needs[m] \subseteq blobs'
                      /\ \A h \in Gc : Finds(h)'
    BY <1>1 DEF Whole
  <2>1. NobodyWrites
    BY <1>2 DEF CInv, Whole, Collecting
  <2>2. \A m \in body : Needs[m] \subseteq found[g] /\ Needs[m] \subseteq blobs
    BY <1>2 DEF CInv, Whole, Finds
  <2>3. \A h \in Gc : Finds(h)'
    BY <1>1, <1>2 DEF CInv, CT, CTypeOK, Whole, Finds, Running
  <2> QED
    BY <1>1, <1>2, <2>1, <2>2, <2>3 DEF NobodyWrites
<1> QED
  BY <1>3, <1>4, <1>5 DEF CInv

LEMMA EndStep == ASSUME CInv, NEW g \in Gc, GcEnd(g) PROVE CInv'
<1>1. /\ MT' /\ UNCHANGED <<body, setting, Faults, Quiet, OneGc, NobodyWrites>>
      /\ UNCHANGED <<mpc, mreq>> /\ MTypeOK'
  BY Collects DEF GcEnd
<1>2. /\ UNCHANGED <<blobs, have, left>> /\ gpc[g] = "sweep" /\ left[g] = {}
      /\ gpc' = [gpc EXCEPT ![g] = "done"] /\ found' = [found EXCEPT ![g] = {}]
      /\ stable' = [stable EXCEPT ![g] = {}] /\ held' = [held EXCEPT ![g] = {}]
  BY DEF GcEnd
<1>3. CT'
  BY <1>1, <1>2 DEF CInv, CT, CTypeOK, MT
<1>4. Spared'
  BY <1>1, <1>2
  DEF CInv, CT, CTypeOK, Spared, Spares, Running, SettledImagesKeepBlobs
<1>5. Whole'
  BY <1>1, <1>2 DEF CInv, CT, CTypeOK, Whole, Finds, Running, Collecting
<1> QED
  BY <1>3, <1>4, <1>5 DEF CInv
-----------------------------------------------------------------------------
(* The theorems                                                            *)

LEMMA CInvInit == CInit => CInv
<1> SUFFICES ASSUME CInit PROVE CInv
  OBVIOUS
<1>1. MT /\ body = {} /\ \A p \in Proc : mpc[p] = "idle"
  BY InitTyped DEF CInit, MInit
<1>2. CT
  BY <1>1 DEF CInit, CT, CTypeOK, MT
<1>3. Spared /\ Whole
  BY <1>1 DEF CInit, Spared, Spares, SettledImagesKeepBlobs, Whole, Finds, Running, Collecting
<1> QED
  BY <1>2, <1>3 DEF CInv

LEMMA CInvStep == CInv /\ [CNext]_cvars => CInv'
<1> SUFFICES ASSUME CInv, [CNext]_cvars PROVE CInv'
  OBVIOUS
<1>1. CASE UNCHANGED cvars
  <2>1. /\ UNCHANGED <<mvars, blobs, have, gvars, body, setting, mpc, mreq>>
    BY <1>1 DEF cvars, mvars
  <2>2. MT'
    BY <2>1, StepTyped DEF CInv, CT
  <2>3. "fail" \notin Faults /\ Quiet => (Collecting => NobodyWrites')
    BY <2>1 DEF CInv, Whole, NobodyWrites
  <2> QED
    BY <2>1, <2>2, <2>3, Beside DEF CInv, CT, CTypeOK, Whole
<1>2. ASSUME NEW g \in Gc,
             \/ GcList(g) \/ GcSweep(g) \/ GcEnd(g)
             \/ \E m \in Manifest : GcRead(g, m) \/ GcReadFails(g, m)
             \/ \E d \in Blob : GcVisit(g, d) \/ GcRemoveFails(g, d)
      PROVE  CInv'
  BY <1>2, ListStep, ReadStep, SweepStep, VisitStep, EndStep
<1> QED
  BY <1>1, <1>2, ClientStep, RequestStep, HandlerStep, CrashStep DEF CNext

LEMMA CInvariance == CSpec => []CInv
<1>1. CInit => CInv
  BY CInvInit
<1>2. CInv /\ [CNext]_cvars => CInv'
  BY CInvStep
<1> QED
  BY <1>1, <1>2, PTL DEF CSpec

\* Type correctness of a collection beside clients and handlers.
THEOREM CollectorTyped == CSpec => []CTypeOK
<1>1. CInv => CTypeOK
  BY DEF CInv, CT
<1> QED
  BY <1>1, CInvariance, PTL

\* Unless a manifest cannot be read, a collection takes no blob from a manifest
\* stored since before its scan, whatever is pushed and deleted beside it.
THEOREM SettledKept == CSpec => []ReadImagesKeepBlobs
<1>1. CInv => ReadImagesKeepBlobs
  <2>1. CInv /\ "fail" \notin Faults /\ OneGc => SettledImagesKeepBlobs
    BY DEF CInv, Spared
  <2>2. CInv /\ "fail" \notin Faults /\ Quiet => SettledImagesKeepBlobs
    BY DEF CInv, Spared, Spares, Whole, SettledImagesKeepBlobs
  <2> QED
    BY <2>1, <2>2 DEF ReadImagesKeepBlobs, OneGc
<1> QED
  BY <1>1, CInvariance, PTL

\* In quiet periods collections leave every image whole.
THEOREM QuietKeepsWhole == CSpec => []ImagesWhole
<1>1. CInv => ImagesWhole
  BY DEF CInv, Whole, ImagesWhole
<1> QED
  BY <1>1, CInvariance, PTL

\* In quiet periods a collection that ends has left nothing but what some
\* manifest names.
THEOREM QuietCollectsAll == CSpec => GarbageCollected
<1>1. CInv /\ [CNext]_cvars =>
        [Quiet /\ "fail" \notin Faults => \A g \in Gc :
           gpc[g] = "sweep" /\ gpc'[g] = "done" =>
             blobs \subseteq UNION {Needs[m] : m \in body}]_cvars
  <2> SUFFICES ASSUME CInv, CNext, Quiet, "fail" \notin Faults, NEW g \in Gc,
                      gpc[g] = "sweep", gpc'[g] = "done"
               PROVE  blobs \subseteq UNION {Needs[m] : m \in body}
    OBVIOUS
  <2>1. left[g] = {}
    BY DEF CNext, HeadBlob, PushBlob, Forget, PushManifest, OtherRequest, HandleManifest,
           GcList, GcRead, GcReadFails, GcSweep, GcVisit, GcRemoveFails, GcEnd, CCrash,
           gvars, CInv, CT, CTypeOK
  <2> QED
    BY <2>1 DEF CInv, Whole, Finds, Running
<1> QED
  BY <1>1, CInvariance, PTL DEF CSpec, GarbageCollected
=============================================================================
