---------------------------- MODULE OwnersProofs ----------------------------
(* Theorems about Owners and RemoteAdmin, for any clients, callers,        *)
(* passwords, permission blocks and settings.  First the operations on the *)
(* owner's file by themselves; then the commands over HTTP: what their     *)
(* requests do to the file is what Owners allows, exit status 0 means that *)
(* it was done, and one command at a time is one operation.                *)
EXTENDS RemoteAdmin, TLAPS

(***************************************************************************)
(* The inductive invariant.                                                *)
(***************************************************************************)

\* What a request of each kind brings, and where it can be.
RequestOK(p) ==
  /\ opc[p] \in {"check", "load", "accepted"} => oreq[p].op = "login"
  /\ opc[p] \in {"read", "write"} => oreq[p].op \in {"create", "password", "permissions"}
  /\ opc[p] = "find" => oreq[p].op \in {"password", "permissions", "login"}
  /\ opc[p] # "idle" /\ oreq[p].op \in {"create", "password"} => oreq[p].password \in Password
  /\ opc[p] \in {"write", "accepted"} => copy[p].password \in Password
RequestInv == \A p \in Proc : RequestOK(p)

\* A login has seen the file as it is now, and what it decided on.
LoginOK(p) ==
  /\ opc[p] # "idle" /\ oreq[p].op = "login" => file \in during[p]
  /\ opc[p] \in {"load", "accepted"} =>
       \E o \in during[p] : Exists(o) /\ o.password = oreq[p].password
  /\ opc[p] = "accepted" => copy[p] \in during[p]
LoginInv == \A p \in Proc : LoginOK(p)

\* What an operation has read is what the file holds, if it could read it and
\* nobody has changed it since.
CleanOK(p) ==
  /\ opc[p] = "write" /\ oreq[p].op = "create" => ~Exists(file)
  /\ opc[p] \in {"read", "write"} /\ oreq[p].op = "password" => Exists(file)
  /\ opc[p] = "write" /\ oreq[p].op = "permissions" =>
       Exists(file) /\ copy[p].password = file.password
  /\ opc[p] = "write" /\ oreq[p].op = "password" => copy[p].perms = file.perms
CleanInv == \A p \in clean : CleanOK(p)

OInv == OTypeOK /\ RequestInv /\ LoginInv /\ CleanInv
-----------------------------------------------------------------------------
(* Helpers                                                                 *)

LEMMA Constants ==
  /\ None \notin Password /\ None \notin Perms
  /\ \A s \in Settings :
       s.traffic \subseteq {"create", "password", "permissions", "delete", "login"}
  BY OwnersAssumption

\* A record on file is one of an owner, or there is none.
LEMMA Records ==
  /\ Absent \in OwnerRecord /\ ~Exists(Absent) /\ Absent.perms = None
  /\ \A o \in OwnerRecord : Exists(o) <=> o.password \in Password
  /\ \A o \in OwnerRecord : o.perms \in Perms \cup {None}
  /\ \A w \in Password, m \in Perms \cup {None} :
       /\ Owner(w, m) \in OwnerRecord /\ Exists(Owner(w, m))
       /\ Owner(w, m).password = w /\ Owner(w, m).perms = m
  BY Constants DEF OwnerRecord, Absent, Owner, Exists

LEMMA Requests ==
  ASSUME NEW o \in Traffic \cup {"none"}, NEW w \in Password \cup {None},
         NEW m \in Perms \cup {None}
  PROVE  /\ OReq(o, w, m) \in ORequest
         /\ OReq(o, w, m).op = o /\ OReq(o, w, m).password = w
  BY DEF OReq, ORequest

\* What a read that may fail finds.
LEMMA Readings ==
  ASSUME OInv, NEW ok \in Reads
  PROVE  /\ Found(ok) \in OwnerRecord
         /\ ok => Found(ok) = file
         /\ Exists(Found(ok)) => ok
  BY Records DEF Found, Reads, OInv, OTypeOK

\* A call that ends without writing.
LEMMA ReplyKeeps ==
  ASSUME OInv, NEW p \in Proc, OReply(p), UNCHANGED <<file, during, setting>>,
         clean' = clean \ {p}
  PROVE  OInv'
<1>1. /\ opc' = [opc EXCEPT ![p] = "idle"] /\ oreq' = [oreq EXCEPT ![p] = NoORequest]
      /\ copy' = [copy EXCEPT ![p] = Absent]
      /\ NoORequest \in ORequest
      /\ UNCHANGED Traffic
  BY Requests DEF OReply, NoORequest, OInv, OTypeOK, Traffic
<1>2. OTypeOK'
  BY <1>1, Records DEF OInv, OTypeOK, OPC, ORequest
<1>3. \A q \in Proc \ {p} : opc'[q] = opc[q] /\ oreq'[q] = oreq[q] /\ copy'[q] = copy[q]
  BY <1>1 DEF OInv, OTypeOK
<1>4. opc'[p] = "idle"
  BY <1>1 DEF OInv, OTypeOK
<1>5. RequestInv'
  BY <1>3, <1>4 DEF OInv, RequestInv, RequestOK
<1>6. LoginInv'
  BY <1>3, <1>4 DEF OInv, LoginInv, LoginOK
<1>7. CleanInv'
  BY <1>3 DEF OInv, OTypeOK, CleanInv, CleanOK
<1> QED
  BY <1>2, <1>5, <1>6, <1>7 DEF OInv

\* A call that goes on and leaves the file alone.
LEMMA GotoKeeps ==
  ASSUME OInv, NEW p \in Proc, NEW l \in OPC, OGoto(p, l), l # "idle", opc[p] # "idle",
         UNCHANGED <<file, during, setting>>,
         copy' \in [Proc -> OwnerRecord],
         \A q \in Proc \ {p} : copy'[q] = copy[q],
         clean' \subseteq clean,
         RequestOK(p)', LoginOK(p)', p \in clean' => CleanOK(p)'
  PROVE  OInv'
<1>1. /\ opc' = [opc EXCEPT ![p] = l] /\ oreq' = oreq /\ UNCHANGED Traffic
  BY DEF OGoto, Traffic
<1>2. opc'[p] = l /\ \A q \in Proc \ {p} : opc'[q] = opc[q] /\ copy'[q] = copy[q]
  BY <1>1 DEF OInv, OTypeOK
<1>3. OTypeOK'
  BY <1>1 DEF OInv, OTypeOK, ORequest
<1>4. RequestInv'
  BY <1>1, <1>2 DEF OInv, RequestInv, RequestOK
<1>5. LoginInv'
  BY <1>1, <1>2 DEF OInv, LoginInv, LoginOK
<1>6. CleanInv'
  <2> SUFFICES ASSUME NEW q \in clean' \ {p} PROVE CleanOK(q)'
    BY DEF CleanInv
  <2> QED
    BY <1>1, <1>2 DEF OInv, OTypeOK, CleanInv, CleanOK
<1> QED
  BY <1>3, <1>4, <1>5, <1>6 DEF OInv
-----------------------------------------------------------------------------
(* The actions                                                             *)

LEMMA OwnersInit == OInit => OInv
<1> SUFFICES ASSUME OInit PROVE OInv
  OBVIOUS
<1>1. NoORequest \in ORequest
  BY Requests DEF NoORequest
<1>2. OTypeOK
  BY <1>1, Records DEF OInit, OTypeOK, OPC
<1> QED
  BY <1>2 DEF OInit, OInv, RequestInv, RequestOK, LoginInv, LoginOK, CleanInv

LEMMA BeginStep ==
  ASSUME OInv, NEW p \in Proc, NEW r \in ORequest, NEW l \in {"find", "read"}, OBegin(p, r, l),
         l = "read" => r.op \in {"create", "permissions"},
         l = "find" => r.op \in {"password", "permissions", "login"},
         r.op \in {"create", "password"} => r.password \in Password
  PROVE  OInv'
<1>1. /\ opc[p] = "idle"
      /\ opc' = [opc EXCEPT ![p] = l] /\ oreq' = [oreq EXCEPT ![p] = r]
      /\ during' = [during EXCEPT ![p] = IF r.op = "login" THEN {file} ELSE {}]
      /\ file' = file /\ copy' = copy /\ setting' = setting
      /\ UNCHANGED Traffic
      /\ clean' = clean \cup {p}
  BY DEF OBegin, Traffic
<1>2. /\ opc'[p] = l /\ oreq'[p] = r
      /\ r.op = "login" => file \in during'[p]
      /\ \A q \in Proc \ {p} : opc'[q] = opc[q] /\ oreq'[q] = oreq[q] /\ during'[q] = during[q]
  BY <1>1 DEF OInv, OTypeOK
<1>3. OTypeOK'
  <2>1. l \in OPC
    BY DEF OPC
  <2>2. (IF r.op = "login" THEN {file} ELSE {}) \in SUBSET OwnerRecord
    BY DEF OInv, OTypeOK
  <2>3. during' \in [Proc -> SUBSET OwnerRecord]
    BY <1>1, <2>2 DEF OInv, OTypeOK
  <2>4. opc' \in [Proc -> OPC] /\ oreq' \in [Proc -> ORequest] /\ ORequest' = ORequest
    BY <1>1, <2>1 DEF OInv, OTypeOK, ORequest
  <2> QED
    BY <1>1, <2>3, <2>4 DEF OInv, OTypeOK
<1>4. RequestInv'
  BY <1>1, <1>2 DEF OInv, RequestInv, RequestOK
<1>5. LoginInv'
  BY <1>1, <1>2 DEF OInv, LoginInv, LoginOK
<1>6. CleanInv'
  BY <1>1, <1>2 DEF OInv, OTypeOK, CleanInv, CleanOK
<1> QED
  BY <1>3, <1>4, <1>5, <1>6 DEF OInv

LEMMA ReceiveOwnerStep == ASSUME OInv, NEW p \in Proc, OReceive(p) PROVE OInv'
<1>1. \A o, w, m : OReq(o, w, m).op = o /\ OReq(o, w, m).password = w
  BY DEF OReq
<1>2. ASSUME NEW o, NEW w \in Password \cup {None}, NEW m \in Perms \cup {None}, NEW l,
             OBegin(p, OReq(o, w, m), l)
      PROVE  OReq(o, w, m) \in ORequest
  <2>1. o \in Traffic
    BY <1>1, <1>2 DEF OBegin
  <2> QED
    BY <2>1, Requests
<1>3. ASSUME NEW w \in Password, NEW m \in Perms \cup {None},
             OBegin(p, OReq("create", w, m), "read")
      PROVE  OInv'
  BY <1>1, <1>2, <1>3, BeginStep
<1>4. ASSUME NEW w \in Password, OBegin(p, OReq("password", w, None), "find") PROVE OInv'
  BY <1>1, <1>2, <1>4, BeginStep
<1>5. ASSUME NEW w \in Password, OBegin(p, OReq("login", w, None), "find") PROVE OInv'
  BY <1>1, <1>2, <1>5, BeginStep
<1>6. ASSUME NEW m \in Perms, OBegin(p, OReq("permissions", None, m), "find") PROVE OInv'
  BY <1>1, <1>2, <1>6, BeginStep
<1>7. ASSUME NEW m \in Perms \cup {None}, OBegin(p, OReq("permissions", None, m), "read")
      PROVE  OInv'
  BY <1>1, <1>2, <1>7, BeginStep
<1> QED
  BY <1>3, <1>4, <1>5, <1>6, <1>7 DEF OReceive

LEMMA FindStep == ASSUME OInv, NEW p \in Proc, NEW ok \in Reads, Find(p, ok) PROVE OInv'
<1> DEFINE gone == IF oreq[p].op = "login" THEN ~Exists(Found(ok)) ELSE ok /\ ~Exists(file)
<1>1. CASE gone
  BY <1>1, ReplyKeeps DEF Find
<1>2. CASE ~gone
  <2> DEFINE l == IF oreq[p].op = "login" THEN "check" ELSE "read"
  <2>1. /\ opc[p] = "find" /\ OGoto(p, l) /\ copy' = copy
        /\ UNCHANGED <<file, during, setting>> /\ Saw(p, ok)
    BY <1>2 DEF Find
  <2>2. l \in {"check", "read"} /\ opc'[p] = l /\ oreq' = oreq
    BY <2>1 DEF OGoto, OInv, OTypeOK
  <2>3. RequestOK(p)'
    BY <2>1, <2>2 DEF OInv, RequestInv, RequestOK
  <2>4. LoginOK(p)'
    BY <2>1, <2>2 DEF OInv, LoginInv, LoginOK
  <2>5. clean' \subseteq clean /\ (p \in clean' => CleanOK(p)')
    BY <1>2, <2>1, <2>2 DEF CleanOK, Saw, Reads
  <2>6. copy' \in [Proc -> OwnerRecord] /\ \A q \in Proc \ {p} : copy'[q] = copy[q]
    BY <2>1 DEF OInv, OTypeOK
  <2>7. l \in OPC /\ l # "idle" /\ opc[p] # "idle"
    BY <2>1 DEF OPC
  <2> QED
    BY <2>1, <2>3, <2>4, <2>5, <2>6, <2>7, GotoKeeps
<1> QED
  BY <1>1, <1>2

\* What is going to be written is a record of an owner.
LEMMA NewRecords ==
  ASSUME OInv, NEW p \in Proc, opc[p] = "read", NEW o \in OwnerRecord, ~Refused(oreq[p], o)
  PROVE  LET n == NewRecord(oreq[p], o) IN
         /\ n \in OwnerRecord /\ n.password \in Password
         /\ oreq[p].op = "password" => n.perms = o.perms
         /\ oreq[p].op = "permissions" => Exists(o) /\ n.password = o.password
         /\ oreq[p].op = "create" => ~Exists(o)
<1>1. oreq[p].perms \in Perms \cup {None}
  BY DEF OInv, OTypeOK, ORequest
<1>2. /\ oreq[p].op \in {"create", "password", "permissions"}
      /\ oreq[p].op \in {"create", "password"} => oreq[p].password \in Password
  BY DEF OInv, RequestInv, RequestOK
<1>3. oreq[p].op = "permissions" => o.password \in Password
  BY Records DEF Refused
<1> QED
  BY <1>1, <1>2, <1>3, Records DEF NewRecord, Refused

LEMMA ReadStep == ASSUME OInv, NEW p \in Proc, NEW ok \in Reads, ReadOwner(p, ok) PROVE OInv'
<1>0. Found(ok) \in OwnerRecord /\ (ok => Found(ok) = file)
  BY Readings
<1>1. CASE Refused(oreq[p], Found(ok))
  BY <1>1, ReplyKeeps DEF ReadOwner
<1>2. CASE ~Refused(oreq[p], Found(ok))
  <2> DEFINE n == NewRecord(oreq[p], Found(ok))
  <2>1. /\ opc[p] = "read" /\ OGoto(p, "write") /\ copy' = [copy EXCEPT ![p] = n]
        /\ UNCHANGED <<file, during, setting>> /\ Saw(p, ok)
    BY <1>2 DEF ReadOwner
  <2>2. opc'[p] = "write" /\ oreq' = oreq
    BY <2>1 DEF OGoto, OInv, OTypeOK
  <2>3. /\ n \in OwnerRecord /\ n.password \in Password
        /\ oreq[p].op = "password" => n.perms = Found(ok).perms
        /\ oreq[p].op = "permissions" => Exists(Found(ok)) /\ n.password = Found(ok).password
        /\ oreq[p].op = "create" => ~Exists(Found(ok))
    BY <1>0, <1>2, <2>1, NewRecords
  <2> HIDE DEF n
  <2>4. /\ copy' \in [Proc -> OwnerRecord] /\ copy'[p] = n
        /\ \A q \in Proc \ {p} : copy'[q] = copy[q]
    BY <2>1, <2>3 DEF OInv, OTypeOK
  <2>5. RequestOK(p)'
    BY <2>1, <2>2, <2>3, <2>4 DEF OInv, RequestInv, RequestOK
  <2>6. LoginOK(p)'
    BY <2>1, <2>2 DEF OInv, LoginInv, LoginOK
  <2>7. clean' \subseteq clean /\ (p \in clean' => CleanOK(p)')
    <3>1. p \in clean' => p \in clean /\ ok
      BY <2>1 DEF Saw, Reads
    <3> QED
      BY <1>0, <2>1, <2>2, <2>3, <2>4, <3>1 DEF CleanInv, CleanOK, Saw, OInv
  <2>8. "write" \in OPC
    BY DEF OPC
  <2> QED
    BY <2>1, <2>4, <2>5, <2>6, <2>7, <2>8, GotoKeeps
<1> QED
  BY <1>1, <1>2

\* Whoever is logging in has seen the new contents, too.
LEMMA FileChanges ==
  ASSUME OInv, NEW o \in OwnerRecord, SetFile(o)
  PROVE  /\ file' \in OwnerRecord /\ during' \in [Proc -> SUBSET OwnerRecord]
         /\ \A q \in Proc : oreq[q].op = "login" => file' \in during'[q]
         /\ \A q \in Proc : during[q] \subseteq during'[q]
  BY DEF SetFile, OInv, OTypeOK

LEMMA WriteStep == ASSUME OInv, NEW p \in Proc, WriteOwner(p) PROVE OInv'
<1>1. /\ opc[p] = "write" /\ SetFile(copy[p]) /\ OReply(p) /\ setting' = setting
      /\ copy[p] \in OwnerRecord /\ clean' \subseteq Proc
  BY DEF WriteOwner, OInv, OTypeOK
<1>2. /\ opc' = [opc EXCEPT ![p] = "idle"] /\ oreq' = [oreq EXCEPT ![p] = NoORequest]
      /\ copy' = [copy EXCEPT ![p] = Absent]
      /\ NoORequest \in ORequest
      /\ UNCHANGED Traffic
  BY <1>1, Requests DEF OReply, NoORequest, Traffic
<1>3. OTypeOK'
  BY <1>1, <1>2, Records, FileChanges DEF OInv, OTypeOK, OPC, ORequest
<1>4. /\ opc'[p] = "idle"
      /\ \A q \in Proc \ {p} : opc'[q] = opc[q] /\ oreq'[q] = oreq[q] /\ copy'[q] = copy[q]
  BY <1>2 DEF OInv, OTypeOK
<1>5. RequestInv'
  BY <1>4 DEF OInv, RequestInv, RequestOK
<1>6. LoginInv'
  BY <1>1, <1>4, FileChanges DEF OInv, LoginInv, LoginOK
<1>7. CleanInv'
  <2>1. /\ \A q \in clean' : q \in clean \ {p} /\ file' = file
        /\ clean' \subseteq Proc
    BY DEF WriteOwner, SetFile, OInv, OTypeOK
  <2> QED
    BY <1>4, <2>1 DEF OInv, OTypeOK, CleanInv, CleanOK
<1> QED
  BY <1>3, <1>5, <1>6, <1>7 DEF OInv

LEMMA DeleteStep == ASSUME OInv, DeleteOwner PROVE OInv'
<1>1. /\ SetFile(Absent) /\ UNCHANGED <<opc, oreq, copy, setting, Traffic>>
      /\ clean' = {}
  BY DEF DeleteOwner, Traffic
<1>2. OTypeOK'
  BY <1>1, Records, FileChanges DEF OInv, OTypeOK, ORequest
<1>3. RequestInv'
  BY <1>1 DEF OInv, RequestInv, RequestOK
<1>4. LoginInv'
  BY <1>1, Records, FileChanges DEF OInv, LoginInv, LoginOK
<1>5. CleanInv'
  BY <1>1 DEF CleanInv
<1> QED
  BY <1>2, <1>3, <1>4, <1>5 DEF OInv

LEMMA CheckStep == ASSUME OInv, NEW p \in Proc, NEW ok \in Reads, CheckPassword(p, ok) PROVE OInv'
<1>1. CASE ~(Exists(Found(ok)) /\ file.password = oreq[p].password)
  BY <1>1, ReplyKeeps DEF CheckPassword
<1>2. CASE Exists(Found(ok)) /\ file.password = oreq[p].password
  <2>0. Exists(file)
    BY <1>2, Readings
  <2>1. /\ opc[p] = "check" /\ OGoto(p, "load")
        /\ UNCHANGED <<file, copy, during, clean, setting>>
    BY <1>2 DEF CheckPassword
  <2>2. opc'[p] = "load" /\ oreq' = oreq
    BY <2>1 DEF OGoto, OInv, OTypeOK
  <2>3. RequestOK(p)'
    BY <2>1, <2>2 DEF OInv, RequestInv, RequestOK
  <2>4. file \in during[p]
    BY <2>1 DEF OInv, RequestInv, RequestOK, LoginInv, LoginOK
  <2>5. LoginOK(p)'
    BY <1>2, <2>0, <2>1, <2>2, <2>4 DEF LoginOK
  <2>6. CleanOK(p)'
    BY <2>2 DEF CleanOK
  <2>7. "load" \in OPC /\ copy' \in [Proc -> OwnerRecord]
    BY <2>1 DEF OPC, OInv, OTypeOK
  <2> QED
    BY <2>1, <2>3, <2>5, <2>6, <2>7, GotoKeeps
<1> QED
  BY <1>1, <1>2

LEMMA LoadStep == ASSUME OInv, NEW p \in Proc, NEW ok \in Reads, LoadOwner(p, ok) PROVE OInv'
<1>1. CASE ~Exists(Found(ok))
  BY <1>1, ReplyKeeps DEF LoadOwner
<1>2. CASE Exists(Found(ok))
  <2>0. Exists(file)
    BY <1>2, Readings
  <2>1. /\ opc[p] = "load" /\ OGoto(p, "accepted") /\ copy' = [copy EXCEPT ![p] = file]
        /\ UNCHANGED <<file, during, clean, setting>>
    BY <1>2 DEF LoadOwner
  <2>2. opc'[p] = "accepted" /\ oreq' = oreq
    BY <2>1 DEF OGoto, OInv, OTypeOK
  <2>3. /\ copy' \in [Proc -> OwnerRecord] /\ copy'[p] = file
        /\ \A q \in Proc \ {p} : copy'[q] = copy[q]
        /\ file.password \in Password
    BY <2>0, <2>1, Records DEF OInv, OTypeOK
  <2>4. oreq[p].op = "login" /\ file \in during[p]
    BY <2>1 DEF OInv, RequestInv, RequestOK, LoginInv, LoginOK
  <2>5. RequestOK(p)'
    BY <2>1, <2>2, <2>3, <2>4 DEF RequestOK
  <2>6. LoginOK(p)'
    BY <2>1, <2>2, <2>3, <2>4 DEF OInv, LoginInv, LoginOK
  <2>7. CleanOK(p)'
    BY <2>2 DEF CleanOK
  <2>8. "accepted" \in OPC
    BY DEF OPC
  <2> QED
    BY <2>1, <2>3, <2>5, <2>6, <2>7, <2>8, GotoKeeps
<1> QED
  BY <1>1, <1>2

LEMMA OInvStep == OInv /\ [ONext]_ovars => OInv'
<1> SUFFICES ASSUME OInv, [ONext]_ovars PROVE OInv'
  OBVIOUS
<1>1. ASSUME NEW p \in Proc, WriteFails(p) \/ Serve(p) PROVE OInv'
  BY <1>1, ReplyKeeps DEF WriteFails, Serve
<1>2. CASE UNCHANGED ovars
  BY <1>2 DEF ovars, OInv, OTypeOK, RequestInv, RequestOK, LoginInv, LoginOK, CleanInv, CleanOK,
              Traffic, ORequest
<1> QED
  BY <1>1, <1>2, ReceiveOwnerStep, FindStep, ReadStep, WriteStep, DeleteStep, CheckStep, LoadStep
     DEF ONext, OHandle, Login

LEMMA OInvariance == OSpec => []OInv
  BY OwnersInit, OInvStep, PTL DEF OSpec
-----------------------------------------------------------------------------
(* Theorems                                                                *)

\* The owner file is a record or absent, and what every call holds has its type.
THEOREM OwnersTyped == OSpec => []OTypeOK
<1>1. OInv => OTypeOK
  BY DEF OInv
<1> QED
  BY <1>1, OInvariance, PTL

\* A login that is let in had a password, and runs with a record, that was on
\* file since it arrived, whatever is changed or deleted meanwhile.
THEOREM LoginsCurrent == OSpec => []LoginIsCurrent
<1>1. OInv => LoginIsCurrent
  BY DEF OInv, LoginInv, LoginOK, LoginIsCurrent
<1> QED
  BY <1>1, OInvariance, PTL

\* Only a call's own write takes it from there to its reply with a new record.
LEMMA WriteOnly ==
  ASSUME OInv, [ONext]_ovars, NEW p \in clean, NEW o, Writes(p, o)
  PROVE  oreq[p].op \in o /\ opc[p] = "write" /\ CleanOK(p) /\ file' = copy[p]
<1>1. opc[p] = "write" /\ opc'[p] = "idle" /\ oreq[p].op \in o /\ file' # file /\ p \in Proc
  BY DEF Writes, OInv, OTypeOK
<1>2. opc' # opc
  BY <1>1
<1>3. ~DeleteOwner /\ ~UNCHANGED ovars
  BY <1>2 DEF DeleteOwner, ovars
<1>4. PICK q \in Proc : WriteOwner(q)
  BY <1>1, <1>3 DEF ONext, OHandle, OReceive, OBegin, Find, ReadOwner, WriteFails, Login,
                    CheckPassword, LoadOwner, Serve
<1>5. q = p
  BY <1>1, <1>4 DEF WriteOwner, OReply, OInv, OTypeOK
<1> QED
  BY <1>1, <1>4, <1>5 DEF WriteOwner, SetFile, OInv, CleanInv

\* CreateOwner never overwrites a credential that it could read and that nobody
\* else has changed since the request arrived.
THEOREM CreatesKeep == OSpec => CreateNeverOverwrites
<1>1. ASSUME OInv, [ONext]_ovars, NEW p \in clean, Writes(p, {"create"})
      PROVE  ~Exists(file)
  BY <1>1, WriteOnly DEF CleanOK
<1>2. OInv /\ [ONext]_ovars => \A p \in clean : Writes(p, {"create"}) => ~Exists(file)
  BY <1>1
<1> QED
  BY <1>2, OInvariance, PTL DEF OSpec, CreateNeverOverwrites

\* PutOwner keeps the permissions and SetPermissions the password of a record
\* they could read and that nobody else has changed since the request arrived.
THEOREM ChangesKeep == OSpec => ChangesKeepTheRest
<1>1. ASSUME OInv, [ONext]_ovars, NEW p \in clean, Writes(p, {"password"})
      PROVE  file'.perms = file.perms
  BY <1>1, WriteOnly DEF CleanOK
<1>2. ASSUME OInv, [ONext]_ovars, NEW p \in clean, Writes(p, {"permissions"})
      PROVE  file'.password = file.password
  BY <1>2, WriteOnly DEF CleanOK
<1>3. OInv /\ [ONext]_ovars =>
        \A p \in clean : Exists(file) =>
          /\ Writes(p, {"password"}) => file'.perms = file.perms
          /\ Writes(p, {"permissions"}) => file'.password = file.password
  BY <1>1, <1>2
<1> QED
  BY <1>3, OInvariance, PTL DEF OSpec, ChangesKeepTheRest

\* Neither brings a deleted owner back, under the same condition.
THEOREM DeletedStay == OSpec => DeletedStaysDeleted
<1>1. ASSUME OInv, [ONext]_ovars, NEW p \in clean, Writes(p, {"password", "permissions"})
      PROVE  Exists(file)
  BY <1>1, WriteOnly DEF CleanOK
<1>2. OInv /\ [ONext]_ovars =>
        \A p \in clean : Writes(p, {"password", "permissions"}) => Exists(file)
  BY <1>1
<1> QED
  BY <1>2, OInvariance, PTL DEF OSpec, DeletedStaysDeleted
-----------------------------------------------------------------------------
(***************************************************************************)
(* RemoteAdmin: the inductive invariant.                                   *)
(***************************************************************************)

\* What a command has been given when its request needs it.
CmdOK(c) ==
  /\ step[c] \in {"find", "prompt", "rotate", "confirm"} =>
       cmd[c].name = "password" /\ cmd[c].password \in Password
  /\ step[c] = "post" =>
       /\ cmd[c].name \in {"add", "password"} /\ cmd[c].password \in Password
       /\ cmd[c].perms \in Perms \cup {None}
  /\ step[c] = "permissions" =>
       /\ cmd[c].name \in {"perms", "full"}
       /\ cmd[c].name = "perms" => cmd[c].perms \in Perms
  /\ step[c] = "delete" => cmd[c].name = "delete"
CmdInv == \A c \in Client : CmdOK(c)

\* A request on its way is the one its client is waiting for, and what its
\* handler is about to write is what the client asked for.
ServesOK(p) ==
  LET c == serves[p] IN
  /\ opc[p] \in {"find", "read", "write"}
  /\ \/ step[c] = "post" /\ oreq[p] = OReq("create", cmd[c].password, cmd[c].perms)
     \/ step[c] = "rotate" /\ oreq[p] = OReq("password", cmd[c].password, None)
     \/ step[c] = "permissions" /\ oreq[p] = OReq("permissions", None, Body(cmd[c]))
  /\ \A q \in Proc : serves[q] = c => q = p
  /\ opc[p] = "write" =>
       /\ step[c] = "post" => copy[p] = Owner(cmd[c].password, cmd[c].perms)
       /\ step[c] = "rotate" => copy[p].password = cmd[c].password
       /\ step[c] = "permissions" => copy[p].perms = Body(cmd[c])
ServesInv == \A p \in Proc : serves[p] # None => ServesOK(p)

\* From the reply that says so, the command has seen it done.
DoneOK(c) ==
  /\ step[c] = "confirm" => done[c]
  /\ step[c] = "ok" /\ cmd[c].name # "full" => done[c]
DoneInv == \A c \in Client : DoneOK(c)

RTyped ==
  /\ cmd \in [Client -> [name : {"none", "add", "perms", "full", "password", "delete"},
                         password : Password \cup {None}, perms : Perms \cup {None}]]
  /\ step \in [Client -> {"idle", "find", "prompt", "post", "rotate", "confirm",
                          "permissions", "delete", "ok", "failed"}]
  /\ serves \in [Proc -> Client \cup {None}]
  /\ done \in [Client -> BOOLEAN]

RInv == OInv /\ RTyped /\ CmdInv /\ ServesInv /\ DoneInv
-----------------------------------------------------------------------------
(* Helpers                                                                 *)

LEMMA RemoteConstants == NoAccess \in Perms /\ None \notin Client
  BY RemoteAssumption

\* A block that is sent is a block.
LEMMA BodySent ==
  ASSUME RInv, NEW c \in Client, step[c] = "permissions"
  PROVE  Body(cmd[c]) \in Perms
  BY RemoteConstants DEF RInv, CmdInv, CmdOK, Body

\* What the commands have seen done.
LEMMA SeenKept ==
  ASSUME RInv, See, NEW c \in Client
  PROVE  /\ done' \in [Client -> BOOLEAN]
         /\ step'[c] # "idle" => (done[c] \/ AsWanted(cmd'[c], file') => done'[c])
  BY DEF See

LEMMA DoneKept ==
  ASSUME RInv, See, NEW c \in Client, step'[c] = step[c], cmd'[c] = cmd[c]
  PROVE  DoneOK(c)'
  BY SeenKept DEF RInv, DoneInv, DoneOK

\* A request is on its way only for a client that waits for it.
LEMMA Waits ==
  ASSUME RInv, NEW p \in Proc, serves[p] # None
  PROVE  /\ serves[p] \in Client /\ ServesOK(p)
         /\ step[serves[p]] \in {"post", "rotate", "permissions"}
  BY DEF RInv, RTyped, ServesInv, ServesOK

\* A request that is on its way, and that nobody touches.
LEMMA ServesKept ==
  ASSUME RInv, NEW p \in Proc, serves'[p] # None, serves'[p] = serves[p],
         opc'[p] = opc[p], oreq'[p] = oreq[p], copy'[p] = copy[p],
         step'[serves[p]] = step[serves[p]], cmd'[serves[p]] = cmd[serves[p]],
         \A q \in Proc : serves'[q] = serves[p] => q = p
  PROVE  ServesOK(p)'
  BY Waits DEF ServesOK

\* A step of a client that has no request on its way.
LEMMA ClientKeeps ==
  ASSUME RInv, See, OInv', NEW c \in Client, ~Waiting(c),
         cmd' \in [Client -> [name : {"none", "add", "perms", "full", "password", "delete"},
                             password : Password \cup {None}, perms : Perms \cup {None}]],
         step' \in [Client -> {"idle", "find", "prompt", "post", "rotate", "confirm",
                              "permissions", "delete", "ok", "failed"}],
         \A d \in Client \ {c} : step'[d] = step[d] /\ cmd'[d] = cmd[d],
         UNCHANGED <<opc, oreq, copy, serves>>,
         CmdOK(c)', DoneOK(c)'
  PROVE  RInv'
<1>1. RTyped'
  BY SeenKept DEF RInv, RTyped
<1>2. CmdInv'
  BY DEF RInv, CmdInv, CmdOK
<1>3. ServesInv'
  <2> SUFFICES ASSUME NEW p \in Proc, serves'[p] # None PROVE ServesOK(p)'
    BY DEF ServesInv
  <2>1. serves[p] # None /\ serves[p] \in Client \ {c}
    BY Waits DEF Waiting
  <2> QED
    BY <2>1, ServesKept, Waits DEF ServesOK
<1>4. DoneInv'
  BY DoneKept DEF DoneInv
<1> QED
  BY <1>1, <1>2, <1>3, <1>4 DEF RInv

\* Whoever has no request on its way can be told by where it is.
LEMMA NotWaiting ==
  ASSUME RInv, NEW c \in Client, step[c] \notin {"post", "rotate", "permissions"}
  PROVE  ~Waiting(c)
  BY Waits, RemoteConstants DEF Waiting
-----------------------------------------------------------------------------
(* Every request does what Owners says.                                    *)

LEMMA SendIsReceive ==
  ASSUME RInv, NEW c \in Client, NEW p \in Proc,
         Post(c, p) \/ PutPassword(c, p) \/ PutPermissions(c, p)
  PROVE  OReceive(p)
<1>1. CASE Post(c, p)
  BY <1>1 DEF Post, OReceive, RInv, CmdInv, CmdOK
<1>2. CASE PutPassword(c, p)
  BY <1>2 DEF PutPassword, OReceive, RInv, CmdInv, CmdOK
<1>3. CASE PutPermissions(c, p)
  BY <1>3, BodySent DEF PutPermissions, OReceive
<1> QED
  BY <1>1, <1>2, <1>3

LEMMA StepIsOwners == RInv /\ [RNext]_rvars => [ONext]_ovars
<1> SUFFICES ASSUME RInv, RAct PROVE [ONext]_ovars
  BY DEF RNext, rvars
<1>1. ASSUME NEW c \in Client, RunOwner(c) \/ ReadPassword(c) \/ GetOwner(c) \/ Exit(c) \/ Cut(c)
      PROVE  UNCHANGED ovars
  BY <1>1 DEF RunOwner, ReadPassword, GetOwner, Exit, Cut
<1>2. ASSUME NEW c \in Client, Delete(c) \/ DeleteUnanswered(c) PROVE [ONext]_ovars
  BY <1>2 DEF Delete, DeleteUnanswered, ONext
<1>3. ASSUME NEW c \in Client, NEW p \in Proc, Send(c, p) PROVE ONext
  BY <1>3, SendIsReceive DEF Send, ONext
<1>4. ASSUME NEW p \in Proc, NEW ok \in Reads, HandleFind(p, ok) \/ HandleRead(p, ok)
      PROVE  ONext
  BY <1>4 DEF HandleFind, HandleRead, ONext, OHandle
<1>5. ASSUME NEW p \in Proc, HandleWrite(p) \/ HandleFails(p) PROVE ONext
  BY <1>5 DEF HandleWrite, HandleFails, ONext, OHandle
<1>6. CASE Others
  BY <1>6 DEF Others, ONext, OHandle
<1> QED
  BY <1>1, <1>2, <1>3, <1>4, <1>5, <1>6 DEF RAct
-----------------------------------------------------------------------------
(* The clients' own steps                                                  *)

LEMMA RemoteInit == RInit => RInv
  BY OwnersInit DEF RInit, NoCmd, Cmd, RInv, RTyped, CmdInv, CmdOK, ServesInv, DoneInv, DoneOK

LEMMA RunOwnerStep == ASSUME RInv, See, OInv', NEW c \in Client, RunOwner(c) PROVE RInv'
<1>1. PICK x \in Commands : /\ cmd' = [cmd EXCEPT ![c] = x]
                            /\ step' = [step EXCEPT ![c] = First(x.name)]
  BY DEF RunOwner
<1>2. /\ step[c] = "idle" /\ UNCHANGED <<ovars, serves>>
  BY DEF RunOwner, Idle
<1>3. /\ x \in [name : {"none", "add", "perms", "full", "password", "delete"},
                password : Password \cup {None}, perms : Perms \cup {None}]
      /\ x.name \in {"add", "password"} => x.password \in Password
      /\ x.name = "perms" => x.perms \in Perms
      /\ x.name \in {"add", "perms", "full", "password", "delete"}
  <2>1. setting \in Settings
    BY DEF RInv, OInv, OTypeOK
  <2>2. setting.commands \subseteq {"add", "perms", "full", "password", "delete"}
    BY <2>1, RemoteAssumption
  <2> QED
    BY <2>2, <1>1 DEF Commands
<1>4. /\ First(x.name) \in {"post", "find", "delete", "permissions"}
      /\ First(x.name) = "post" <=> x.name = "add"
      /\ First(x.name) = "find" <=> x.name = "password"
      /\ First(x.name) = "delete" <=> x.name = "delete"
      /\ First(x.name) = "permissions" <=> x.name \in {"perms", "full"}
  BY <1>3 DEF First
<1>5. /\ cmd'[c] = x /\ step'[c] = First(x.name)
      /\ \A d \in Client \ {c} : step'[d] = step[d] /\ cmd'[d] = cmd[d]
  BY <1>1 DEF RInv, RTyped
<1>6. CmdOK(c)'
  BY <1>3, <1>4, <1>5 DEF CmdOK
<1>7. DoneOK(c)'
  BY <1>4, <1>5 DEF DoneOK
<1>8. ~Waiting(c)
  BY <1>2, NotWaiting
<1>9. /\ cmd' \in [Client -> [name : {"none", "add", "perms", "full", "password", "delete"},
                             password : Password \cup {None}, perms : Perms \cup {None}]]
      /\ step' \in [Client -> {"idle", "find", "prompt", "post", "rotate", "confirm",
                               "permissions", "delete", "ok", "failed"}]
  BY <1>1, <1>3, <1>4 DEF RInv, RTyped
<1> QED
  BY <1>2, <1>5, <1>6, <1>7, <1>8, <1>9, ClientKeeps DEF ovars

\* A step that moves one client and leaves its command.
LEMMA MoveKeeps ==
  ASSUME RInv, See, OInv', NEW c \in Client,
         NEW l \in {"idle", "find", "prompt", "post", "rotate", "confirm",
                    "permissions", "delete", "ok", "failed"},
         step' = [step EXCEPT ![c] = l], UNCHANGED <<opc, oreq, copy, serves, cmd>>,
         ~Waiting(c), CmdOK(c)', DoneOK(c)'
  PROVE  RInv'
<1>1. /\ step' \in [Client -> {"idle", "find", "prompt", "post", "rotate", "confirm",
                               "permissions", "delete", "ok", "failed"}]
      /\ \A d \in Client \ {c} : step'[d] = step[d]
  BY DEF RInv, RTyped
<1>2. cmd' \in [Client -> [name : {"none", "add", "perms", "full", "password", "delete"},
                          password : Password \cup {None}, perms : Perms \cup {None}]]
  BY DEF RInv, RTyped
<1> QED
  BY <1>1, <1>2, ClientKeeps

LEMMA PromptStep == ASSUME RInv, See, OInv', NEW c \in Client, ReadPassword(c) PROVE RInv'
<1>1. /\ step[c] = "prompt" /\ step' = [step EXCEPT ![c] = "post"]
      /\ UNCHANGED <<ovars, cmd, serves>>
  BY DEF ReadPassword
<1>2. step'[c] = "post"
  BY <1>1 DEF RInv, RTyped
<1>3. CmdOK(c)'
  BY <1>1, <1>2 DEF RInv, RTyped, CmdInv, CmdOK
<1>4. DoneOK(c)'
  BY <1>2 DEF DoneOK
<1>5. ~Waiting(c)
  BY <1>1, NotWaiting
<1> QED
  BY <1>1, <1>3, <1>4, <1>5, MoveKeeps DEF ovars

LEMMA ExitStep == ASSUME RInv, See, OInv', NEW c \in Client, Exit(c) PROVE RInv'
<1>1. /\ step[c] \in {"ok", "failed"} /\ UNCHANGED <<ovars, serves>>
      /\ step' = [step EXCEPT ![c] = "idle"] /\ cmd' = [cmd EXCEPT ![c] = NoCmd]
  BY DEF Exit, Exits
<1>2. NoCmd \in [name : {"none", "add", "perms", "full", "password", "delete"},
                 password : Password \cup {None}, perms : Perms \cup {None}]
  BY DEF NoCmd, Cmd
<1>3. /\ cmd' \in [Client -> [name : {"none", "add", "perms", "full", "password", "delete"},
                             password : Password \cup {None}, perms : Perms \cup {None}]]
      /\ step' \in [Client -> {"idle", "find", "prompt", "post", "rotate", "confirm",
                               "permissions", "delete", "ok", "failed"}]
      /\ step'[c] = "idle"
      /\ \A d \in Client \ {c} : step'[d] = step[d] /\ cmd'[d] = cmd[d]
  BY <1>1, <1>2 DEF RInv, RTyped
<1>4. CmdOK(c)' /\ DoneOK(c)'
  BY <1>3 DEF CmdOK, DoneOK
<1>5. ~Waiting(c)
  BY <1>1, NotWaiting
<1> QED
  BY <1>1, <1>3, <1>4, <1>5, ClientKeeps DEF ovars

\* After GET: the password command asks for the password, or is over.
LEMMA GetStep == ASSUME RInv, See, OInv', NEW c \in Client, GetOwner(c) PROVE RInv'
<1>1. PICK s \in {200, 404, 500} :
        /\ step[c] \in {"find", "confirm"} /\ UNCHANGED <<ovars, cmd, serves>>
        /\ step' = [step EXCEPT ![c] = After(c, s)]
  BY DEF GetOwner, Receives
<1>2. /\ After(c, s) \in {"prompt", "ok", "failed"}
      /\ After(c, s) = "prompt" => step[c] = "find"
      /\ After(c, s) = "ok" => step[c] = "confirm"
  BY <1>1 DEF After
<1>3. step'[c] = After(c, s)
  BY <1>1 DEF RInv, RTyped
<1>4. CmdOK(c)'
  BY <1>1, <1>2, <1>3 DEF RInv, CmdInv, CmdOK
<1>5. DoneOK(c)'
  BY <1>1, <1>2, <1>3, SeenKept DEF RInv, DoneInv, DoneOK
<1>6. ~Waiting(c)
  BY <1>1, NotWaiting
<1> QED
  BY <1>1, <1>2, <1>4, <1>5, <1>6, MoveKeeps DEF ovars

LEMMA DeleteOwnerStep ==
  ASSUME RInv, See, OInv', NEW c \in Client, Delete(c) \/ DeleteUnanswered(c)
  PROVE  RInv'
<1>1. /\ step[c] = "delete" /\ cmd[c].name = "delete" /\ UNCHANGED <<opc, oreq, copy, cmd, serves>>
  BY DEF Delete, DeleteUnanswered, DeleteOwner, ovars, RInv, CmdInv, CmdOK
<1>2. PICK l \in {"ok", "failed"} : /\ step' = [step EXCEPT ![c] = l]
                                    /\ l = "ok" => file' = Absent
  <2>1. After(c, 204) = "ok" /\ After(c, 404) = "failed" /\ After(c, 500) = "failed"
    BY <1>1 DEF After
  <2> QED
    BY <2>1 DEF Delete, DeleteUnanswered, Receives, DeleteOwner, SetFile
<1>3. step'[c] = l /\ cmd'[c] = cmd[c]
  BY <1>1, <1>2 DEF RInv, RTyped
<1>4. CmdOK(c)'
  BY <1>3 DEF CmdOK
<1>5. l = "ok" => AsWanted(cmd'[c], file')
  BY <1>1, <1>2, <1>3, Records DEF AsWanted
<1>6. DoneOK(c)'
  BY <1>3, <1>5, SeenKept DEF DoneOK
<1>7. ~Waiting(c)
  BY <1>1, NotWaiting
<1> QED
  BY <1>1, <1>2, <1>4, <1>6, <1>7, MoveKeeps

LEMMA CutStep == ASSUME RInv, See, OInv', NEW c \in Client, Cut(c) PROVE RInv'
<1>1. /\ step' = [step EXCEPT ![c] = "failed"] /\ UNCHANGED <<ovars, cmd>>
      /\ serves' = [p \in Proc |-> IF serves[p] = c THEN None ELSE serves[p]]
  BY DEF Cut
<1>2. /\ step'[c] = "failed" /\ \A d \in Client \ {c} : step'[d] = step[d]
  BY <1>1 DEF RInv, RTyped
<1>3. RTyped'
  BY <1>1, SeenKept DEF RInv, RTyped
<1>4. CmdInv'
  BY <1>1, <1>2 DEF RInv, CmdInv, CmdOK
<1>5. ServesInv'
  <2> SUFFICES ASSUME NEW p \in Proc, serves'[p] # None PROVE ServesOK(p)'
    BY DEF ServesInv
  <2>1. serves'[p] = serves[p] /\ serves[p] \in Client \ {c}
    BY <1>1, Waits
  <2>2. \A q \in Proc : serves'[q] = serves[p] => q = p
    BY <1>1, <2>1, Waits, RemoteConstants DEF ServesOK
  <2> QED
    BY <1>1, <1>2, <2>1, <2>2, ServesKept DEF ovars
<1>6. DoneInv'
  <2>1. DoneOK(c)'
    BY <1>2 DEF DoneOK
  <2> QED
    BY <1>1, <1>2, <2>1, DoneKept DEF DoneInv
<1> QED
  BY <1>3, <1>4, <1>5, <1>6 DEF RInv
-----------------------------------------------------------------------------
(* The requests and their handlers                                         *)

LEMMA SendStep ==
  ASSUME RInv, See, OInv', NEW c \in Client, NEW p \in Proc, Send(c, p)
  PROVE  RInv'
<1>1. /\ ~Waiting(c) /\ UNCHANGED <<cmd, step>>
      /\ serves' = [serves EXCEPT ![p] = c]
  BY DEF Send
<1>2. PICK r, l :
        /\ OBegin(p, r, l) /\ l \in {"find", "read"}
        /\ \/ step[c] = "post" /\ r = OReq("create", cmd[c].password, cmd[c].perms)
           \/ step[c] = "rotate" /\ r = OReq("password", cmd[c].password, None)
           \/ step[c] = "permissions" /\ r = OReq("permissions", None, Body(cmd[c]))
  <2>1. CASE Post(c, p)
    BY <2>1, Zenon DEF Post
  <2>2. CASE PutPassword(c, p)
    BY <2>2, Zenon DEF PutPassword
  <2>3. CASE PutPermissions(c, p)
    BY <2>3, Zenon DEF PutPermissions
  <2> QED
    BY <2>1, <2>2, <2>3 DEF Send
<1>3. /\ opc'[p] = l /\ oreq'[p] = r /\ copy' = copy /\ opc[p] = "idle"
      /\ \A q \in Proc \ {p} : opc'[q] = opc[q] /\ oreq'[q] = oreq[q]
  BY <1>2 DEF OBegin, RInv, OInv, OTypeOK
<1>4. serves'[p] = c /\ \A q \in Proc \ {p} : serves'[q] = serves[q] /\ serves[q] # c
  BY <1>1 DEF RInv, RTyped, Waiting
<1>5. RTyped'
  BY <1>1, SeenKept DEF RInv, RTyped
<1>6. CmdInv'
  BY <1>1 DEF RInv, CmdInv, CmdOK
<1>7. ServesInv'
  <2>1. ServesOK(p)'
    BY <1>1, <1>2, <1>3, <1>4 DEF ServesOK, Body
  <2>2. ASSUME NEW q \in Proc \ {p}, serves'[q] # None PROVE ServesOK(q)'
    <3>1. \A o \in Proc : serves'[o] = serves[q] => o = q
      BY <1>4, <2>2, Waits DEF ServesOK
    <3> QED
      BY <1>1, <1>3, <1>4, <2>2, <3>1, ServesKept
  <2> QED
    BY <2>1, <2>2 DEF ServesInv
<1>8. DoneInv'
  BY <1>1, DoneKept DEF DoneInv
<1> QED
  BY <1>5, <1>6, <1>7, <1>8 DEF RInv

\* A handler's step that answers nobody.
LEMMA GoesOn ==
  ASSUME RInv, See, OInv', NEW p \in Proc, UNCHANGED <<cmd, step, serves>>,
         \A q \in Proc \ {p} : opc'[q] = opc[q] /\ oreq'[q] = oreq[q] /\ copy'[q] = copy[q],
         serves[p] # None => ServesOK(p)'
  PROVE  RInv'
<1>1. RTyped'
  BY DEF See, RInv, RTyped
<1>2. CmdInv'
  BY DEF RInv, CmdInv, CmdOK
<1>3. ServesInv'
  <2> SUFFICES ASSUME NEW q \in Proc \ {p}, serves'[q] # None PROVE ServesOK(q)'
    BY DEF ServesInv
  <2> QED
    BY ServesKept, Waits DEF ServesOK
<1>4. DoneInv'
  BY DoneKept DEF DoneInv
<1> QED
  BY <1>1, <1>2, <1>3, <1>4 DEF RInv

Statuses == {201, 204, 404, 409, 500}

\* What each status means to the client that waits for it.
LEMMA Replies ==
  ASSUME RInv, NEW p \in Proc, serves[p] # None, NEW s \in Statuses
  PROVE  LET c == serves[p] IN
         /\ After(c, s) \in {"rotate", "confirm", "ok", "failed"}
         /\ After(c, s) = "rotate" => step[c] = "post" /\ cmd[c].name = "password"
         /\ After(c, s) = "confirm" => step[c] = "rotate" /\ s = 204
         /\ After(c, s) = "ok" => s \in {201, 204}
  BY Waits DEF After, Statuses

\* A handler's answer.
LEMMA AnswerKeeps ==
  ASSUME RInv, See, OInv', NEW p \in Proc, NEW s \in Statuses, Answers(p, s),
         \A q \in Proc \ {p} : opc'[q] = opc[q] /\ oreq'[q] = oreq[q] /\ copy'[q] = copy[q],
         serves[p] # None /\ s \in {201, 204} =>
           cmd[serves[p]].name = "full" \/ AsWanted(cmd[serves[p]], file')
  PROVE  RInv'
<1>1. CASE serves[p] = None
  <2>1. UNCHANGED <<cmd, step, serves>>
    BY <1>1 DEF Answers, RInv, RTyped
  <2> QED
    BY <1>1, <2>1, GoesOn
<1>2. CASE serves[p] # None
  <2>0. PICK c \in Client : c = serves[p]
    BY <1>2, Waits
  <2> DEFINE l == After(c, s)
  <2>1. /\ step' = [step EXCEPT ![c] = l] /\ UNCHANGED cmd
        /\ serves' = [serves EXCEPT ![p] = None]
    BY <1>2, <2>0 DEF Answers, Receives
  <2>2. /\ l \in {"rotate", "confirm", "ok", "failed"}
        /\ l = "rotate" => step[c] = "post" /\ cmd[c].name = "password"
        /\ l = "confirm" => step[c] = "rotate" /\ s = 204
        /\ l = "ok" => s \in {201, 204}
    BY <1>2, <2>0, Replies
  <2>3. \A q \in Proc \ {p} : serves'[q] = serves[q] /\ serves[q] # c
    BY <1>2, <2>0, <2>1, Waits DEF RInv, RTyped, ServesOK
  <2>4. serves'[p] = None
    BY <2>1 DEF RInv, RTyped
  <2> HIDE DEF l
  <2>5. step'[c] = l /\ \A d \in Client \ {c} : step'[d] = step[d]
    BY <2>1 DEF RInv, RTyped
  <2>6. RTyped'
    BY <2>1, <2>2, SeenKept DEF RInv, RTyped
  <2>7. CmdInv'
    BY <2>1, <2>2, <2>5 DEF RInv, CmdInv, CmdOK
  <2>8. ServesInv'
    <3> SUFFICES ASSUME NEW q \in Proc, serves'[q] # None PROVE ServesOK(q)'
      BY DEF ServesInv
    <3>1. q # p /\ serves[q] # None /\ serves[q] \in Client \ {c}
      BY <2>3, <2>4, Waits
    <3>2. \A o \in Proc : serves'[o] = serves[q] => o = q
      BY <2>3, <2>4, <3>1, Waits DEF ServesOK
    <3> QED
      BY <2>1, <2>3, <2>5, <3>1, <3>2, ServesKept
  <2>9. DoneInv'
    <3>1. l \in {"confirm", "ok"} /\ cmd[c].name # "full" => AsWanted(cmd'[c], file')
      BY <1>2, <2>0, <2>1, <2>2
    <3>2. cmd'[c] = cmd[c] /\ (l = "confirm" => cmd[c].name # "full")
      BY <2>1, <2>2 DEF RInv, CmdInv, CmdOK
    <3>3. DoneOK(c)'
      BY <2>1, <2>5, <3>1, <3>2, SeenKept DEF DoneOK
    <3> QED
      BY <2>1, <2>5, <3>3, DoneKept DEF DoneInv
  <2> QED
    BY <2>6, <2>7, <2>8, <2>9 DEF RInv
<1> QED
  BY <1>1, <1>2

LEMMA HandleFindStep ==
  ASSUME RInv, See, OInv', NEW p \in Proc, NEW ok \in Reads, HandleFind(p, ok)
  PROVE  RInv'
<1> DEFINE gone == IF oreq[p].op = "login" THEN ~Exists(Found(ok)) ELSE ok /\ ~Exists(file)
<1>1. /\ opc[p] = "find" /\ file' = file /\ AnswersIfEnded(p, 404)
      /\ \A q \in Proc \ {p} : opc'[q] = opc[q] /\ oreq'[q] = oreq[q] /\ copy'[q] = copy[q]
  BY DEF HandleFind, Find, OReply, OGoto, RInv, OInv, OTypeOK
<1>2. CASE gone
  <2>1. opc'[p] = "idle"
    BY <1>2 DEF HandleFind, Find, OReply, RInv, OInv, OTypeOK
  <2>2. Answers(p, 404)
    BY <1>1, <2>1 DEF AnswersIfEnded
  <2> QED
    BY <1>1, <2>2, AnswerKeeps DEF Statuses
<1>3. CASE ~gone
  <2>1. /\ opc'[p] = IF oreq[p].op = "login" THEN "check" ELSE "read"
        /\ oreq' = oreq
    BY <1>3 DEF HandleFind, Find, OGoto, RInv, OInv, OTypeOK
  <2>2. UNCHANGED <<cmd, step, serves>>
    BY <1>1, <2>1 DEF AnswersIfEnded
  <2>3. serves[p] # None => oreq[p].op # "login"
    <3>1. \A o, w, m : OReq(o, w, m).op = o
      BY DEF OReq
    <3> QED
      BY <3>1, Waits DEF ServesOK
  <2>4. serves[p] # None => ServesOK(p)'
    BY <2>1, <2>2, <2>3, Waits DEF ServesOK
  <2> QED
    BY <1>1, <2>2, <2>4, GoesOn
<1> QED
  BY <1>2, <1>3

LEMMA HandleReadStep ==
  ASSUME RInv, See, OInv', NEW p \in Proc, NEW ok \in Reads, HandleRead(p, ok)
  PROVE  RInv'
<1> DEFINE s == IF oreq[p].op = "create" THEN 409 ELSE 500
<1>1. /\ opc[p] = "read" /\ file' = file /\ AnswersIfEnded(p, s)
      /\ \A q \in Proc \ {p} : opc'[q] = opc[q] /\ oreq'[q] = oreq[q] /\ copy'[q] = copy[q]
  BY DEF HandleRead, ReadOwner, OReply, OGoto, RInv, OInv, OTypeOK
<1>2. CASE Refused(oreq[p], Found(ok))
  <2>1. opc'[p] = "idle"
    BY <1>2 DEF HandleRead, ReadOwner, OReply, RInv, OInv, OTypeOK
  <2>2. Answers(p, s)
    BY <1>1, <2>1 DEF AnswersIfEnded
  <2>3. s \in Statuses /\ s \notin {201, 204}
    BY DEF Statuses
  <2> QED
    BY <1>1, <2>2, <2>3, AnswerKeeps
<1>3. CASE ~Refused(oreq[p], Found(ok))
  <2>1. /\ opc'[p] = "write" /\ oreq' = oreq
        /\ copy'[p] = NewRecord(oreq[p], Found(ok))
    BY <1>3 DEF HandleRead, ReadOwner, OGoto, RInv, OInv, OTypeOK
  <2>2. UNCHANGED <<cmd, step, serves>>
    BY <1>1, <2>1 DEF AnswersIfEnded
  <2>3. serves[p] # None => ServesOK(p)'
    BY <2>1, <2>2, Waits DEF ServesOK, NewRecord, Owner, OReq, Body
  <2> QED
    BY <1>1, <2>2, <2>3, GoesOn
<1> QED
  BY <1>2, <1>3

LEMMA HandleWriteStep == ASSUME RInv, See, OInv', NEW p \in Proc, HandleWrite(p) PROVE RInv'
<1> DEFINE s == IF oreq[p].op = "create" THEN 201 ELSE 204
<1>1. /\ opc[p] = "write" /\ file' = copy[p] /\ Answers(p, s) /\ s \in Statuses
      /\ \A q \in Proc \ {p} : opc'[q] = opc[q] /\ oreq'[q] = oreq[q] /\ copy'[q] = copy[q]
  BY DEF HandleWrite, WriteOwner, SetFile, OReply, RInv, OInv, OTypeOK, Statuses
<1>2. ASSUME serves[p] # None
      PROVE  cmd[serves[p]].name = "full" \/ AsWanted(cmd[serves[p]], file')
  <2> DEFINE c == serves[p]
  <2>1. c \in Client /\ ServesOK(p) /\ CmdOK(c)
    BY <1>2, Waits DEF RInv, CmdInv
  <2>2. Exists(copy[p])
    BY <1>1, Records DEF RInv, OInv, OTypeOK, RequestInv, RequestOK
  <2>3. CASE step[c] = "post"
    BY <1>1, <2>1, <2>3 DEF ServesOK, CmdOK, AsWanted, Owner
  <2>4. CASE step[c] = "rotate"
    BY <1>1, <2>1, <2>4 DEF ServesOK, CmdOK, AsWanted
  <2>5. CASE step[c] = "permissions"
    BY <1>1, <2>1, <2>2, <2>5 DEF ServesOK, CmdOK, AsWanted, Body
  <2> QED
    BY <2>1, <2>3, <2>4, <2>5 DEF ServesOK
<1> HIDE DEF s
<1> QED
  BY <1>1, <1>2, AnswerKeeps

LEMMA HandleFailsStep == ASSUME RInv, See, OInv', NEW p \in Proc, HandleFails(p) PROVE RInv'
<1>1. /\ Answers(p, 500) /\ 500 \in Statuses \ {201, 204}
      /\ \A q \in Proc \ {p} : opc'[q] = opc[q] /\ oreq'[q] = oreq[q] /\ copy'[q] = copy[q]
  BY DEF HandleFails, WriteFails, OReply, RInv, OInv, OTypeOK, Statuses
<1> QED
  BY <1>1, AnswerKeeps

LEMMA OthersStep == ASSUME RInv, See, OInv', Others PROVE RInv'
<1>1. UNCHANGED <<cmd, step, serves>>
  BY DEF Others
<1>2. CASE DeleteOwner
  <2>1. UNCHANGED <<opc, oreq, copy>>
    BY <1>2 DEF DeleteOwner
  <2>2. RTyped' /\ CmdInv'
    BY <1>1 DEF See, RInv, RTyped, CmdInv, CmdOK
  <2>3. ServesInv'
    BY <1>1, <2>1 DEF RInv, ServesInv, ServesOK, Body
  <2>4. DoneInv'
    BY <1>1, DoneKept DEF DoneInv
  <2> QED
    BY <2>2, <2>3, <2>4 DEF RInv
<1>3. ASSUME NEW p \in Proc, OReceive(p) \/ Login(p) \/ Serve(p) PROVE RInv'
  <2>1. opc[p] \in {"idle", "check", "load", "accepted"}
    BY <1>3 DEF OReceive, OBegin, Login, CheckPassword, LoadOwner, Serve
  <2>2. serves[p] = None
    BY <2>1, Waits DEF ServesOK
  <2>3. \A q \in Proc \ {p} : opc'[q] = opc[q] /\ oreq'[q] = oreq[q] /\ copy'[q] = copy[q]
    BY <1>3 DEF OReceive, OBegin, Login, CheckPassword, LoadOwner, Serve, OReply, OGoto,
                RInv, OInv, OTypeOK
  <2> QED
    BY <1>1, <2>2, <2>3, GoesOn
<1> QED
  BY <1>2, <1>3 DEF Others

LEMMA RInvStep == RInv /\ [RNext]_rvars => RInv'
<1> SUFFICES ASSUME RInv, [RNext]_rvars PROVE RInv'
  OBVIOUS
<1>1. OInv'
  BY StepIsOwners, OInvStep DEF RInv
<1>2. CASE UNCHANGED rvars
  BY <1>1, <1>2 DEF rvars, ovars, RInv, RTyped, CmdInv, CmdOK, ServesInv, ServesOK, Body, DoneInv, DoneOK
<1>3. CASE RNext
  BY <1>1, <1>3, RunOwnerStep, PromptStep, ExitStep, GetStep, DeleteOwnerStep, CutStep, SendStep,
     HandleFindStep, HandleReadStep, HandleWriteStep, HandleFailsStep, OthersStep DEF RNext, RAct
<1> QED
  BY <1>2, <1>3

LEMMA RInvariance == RSpec => []RInv
  BY RemoteInit, RInvStep, PTL DEF RSpec
-----------------------------------------------------------------------------
(* One command at a time is one operation.                                 *)

\* If its requests could read the record, the file is what it was when the
\* command began until the one write that makes it what was wanted.
SeeingOK(c) ==
  /\ \A p \in Proc : serves[p] = c => p \in clean
  /\ step[c] \notin {"confirm", "ok"} => file = start[c]
  /\ cmd[c].name = "password" /\ step[c] \in {"prompt", "post", "rotate", "confirm"} =>
       Exists(start[c])
  /\ step[c] = "confirm" => file = Wanted(cmd[c], start[c])
  /\ step[c] = "ok" /\ cmd[c].name # "full" =>
       /\ Exists(start[c]) <=> cmd[c].name # "add"
       /\ file = Wanted(cmd[c], start[c])

\* While a command runs alone, nobody else has a request, so that nobody else
\* changes the file between its handlers' steps.
SoleOK(c) ==
  /\ setting.commands # {}
  /\ \A d \in Client : step[d] # "idle" => d = c
  /\ c \notin blind => SeeingOK(c)
SoleInv ==
  /\ start \in [Client -> OwnerRecord]
  /\ Alone /\ ~setting.cuts =>
       /\ \A c \in Client : step[c] # "idle" => SoleOK(c)
       /\ \A p \in Proc : opc[p] # "idle" => serves[p] # None \/ setting.commands = {}

SInv == RInv /\ SoleInv

LEMMA SettingKept == ASSUME RInv, [RNext]_rvars PROVE setting' = setting
<1>1. [ONext]_ovars
  BY StepIsOwners
<1>2. ASSUME NEW p \in Proc, OReceive(p) \/ OHandle(p) PROVE setting' = setting
  BY <1>2 DEF OReceive, OBegin, OHandle, Find, ReadOwner, WriteOwner, WriteFails,
              Login, CheckPassword, LoadOwner, Serve
<1> QED
  BY <1>1, <1>2 DEF ONext, DeleteOwner, ovars

\* Nothing happens to the file, nobody begins, and whoever could read it still
\* could.
LEMMA SoleSame ==
  ASSUME SInv, UNCHANGED <<file, cmd, step, serves, start, setting>>, blind \subseteq blind',
         \A p \in Proc : opc'[p] # "idle" => opc[p] # "idle",
         Alone => \A p \in clean : serves[p] \in Client \ blind' => p \in clean'
  PROVE  SoleInv'
<1> SUFFICES ASSUME Alone, ~setting.cuts PROVE SoleInv'
  BY DEF SInv, SoleInv, Alone
<1>1. ASSUME NEW c \in Client, step'[c] # "idle" PROVE SoleOK(c)'
  <2>1. SoleOK(c)
    BY <1>1 DEF SInv, SoleInv
  <2>2. ASSUME c \notin blind' PROVE SeeingOK(c)'
    <3>1. SeeingOK(c)
      BY <2>1, <2>2 DEF SoleOK
    <3> QED
      BY <2>2, <3>1 DEF SeeingOK, Wanted
  <2> QED
    BY <2>1, <2>2 DEF SoleOK
<1> QED
  BY <1>1 DEF SInv, SoleInv

\* Where there are no commands, there is nothing to promise.
LEMMA SoleNobody ==
  ASSUME SInv, UNCHANGED <<step, start, setting>>, setting.commands = {}
  PROVE  SoleInv'
  BY DEF SInv, SoleInv, SoleOK, Alone

\* A step of the client that is alone.
LEMMA SoleMoves ==
  ASSUME SInv, NEW c \in Client,
         Alone /\ ~setting.cuts => step[c] # "idle" \/ \A d \in Client : step[d] = "idle",
         UNCHANGED <<opc, serves, setting>>,
         \A d \in Client \ {c} : step'[d] = step[d],
         start' \in [Client -> OwnerRecord],
         Alone /\ ~setting.cuts /\ step'[c] # "idle" =>
           setting.commands # {} /\ ((\A d \in Client : step'[d] # "idle" => d = c) => SoleOK(c)')
  PROVE  SoleInv'
<1> SUFFICES ASSUME Alone, ~setting.cuts
             PROVE  /\ \A d \in Client : step'[d] # "idle" => SoleOK(d)'
                    /\ \A p \in Proc : opc'[p] # "idle" => serves'[p] # None \/ setting'.commands = {}
  BY DEF SoleInv, Alone
<1>1. \A d \in Client \ {c} : step[d] = "idle"
  BY DEF SInv, SoleInv, SoleOK
<1>2. \A d \in Client : step'[d] # "idle" => d = c
  BY <1>1
<1>3. step'[c] # "idle" => SoleOK(c)'
  BY <1>2
<1> QED
  BY <1>2, <1>3 DEF SInv, SoleInv

LEMMA SoleClient ==
  ASSUME SInv, [RNext]_rvars, NEW c \in Client,
         RunOwner(c) \/ ReadPassword(c) \/ GetOwner(c) \/ Delete(c) \/ Exit(c)
           \/ Cut(c) \/ DeleteUnanswered(c)
  PROVE  SoleInv'
<1>0. /\ setting' = setting
      /\ start \in [Client -> OwnerRecord] /\ file \in OwnerRecord /\ Absent \in OwnerRecord
      /\ cmd \in [Client -> [name : {"none", "add", "perms", "full", "password", "delete"},
                             password : Password \cup {None}, perms : Perms \cup {None}]]
      /\ step \in [Client -> {"idle", "find", "prompt", "post", "rotate", "confirm",
                              "permissions", "delete", "ok", "failed"}]
  BY SettingKept, Records DEF SInv, RInv, RTyped, OInv, OTypeOK, SoleInv
<1>1. CASE RunOwner(c)
  <2>1. PICK x \in Commands : /\ cmd' = [cmd EXCEPT ![c] = x]
                              /\ step' = [step EXCEPT ![c] = First(x.name)]
    BY <1>1 DEF RunOwner
  <2>2. /\ step[c] = "idle" /\ UNCHANGED <<file, opc, serves>>
        /\ Alone => \A d \in Client : step[d] = "idle"
        /\ start' = [start EXCEPT ![c] = IF Alone THEN file ELSE Absent]
    BY <1>1 DEF RunOwner, Idle, ovars
  <2>3. x.name \in setting.commands /\ x.name \in {"add", "perms", "full", "password", "delete"}
    <3>1. setting \in Settings
      BY DEF SInv, RInv, OInv, OTypeOK
    <3> QED
      BY <2>1, <3>1, RemoteAssumption DEF Commands
  <2>4. /\ First(x.name) \in {"post", "find", "delete", "permissions"}
        /\ x.name = "password" => First(x.name) = "find"
    BY <2>3 DEF First
  <2>5. /\ step'[c] = First(x.name) /\ cmd'[c] = x
        /\ \A d \in Client \ {c} : step'[d] = step[d]
        /\ start' \in [Client -> OwnerRecord] /\ start'[c] = IF Alone THEN file ELSE Absent
    BY <1>0, <2>1, <2>2
  <2>6. Alone /\ (\A d \in Client : step'[d] # "idle" => d = c) => SoleOK(c)'
    <3>1. ~Waiting(c)
      BY <2>2, NotWaiting DEF SInv
    <3> QED
      BY <1>0, <2>2, <2>3, <2>4, <2>5, <3>1 DEF SoleOK, SeeingOK, Waiting
  <2> QED
    BY <1>0, <2>2, <2>3, <2>5, <2>6, SoleMoves
<1>2. CASE ReadPassword(c)
  <2>1. /\ step[c] = "prompt" /\ UNCHANGED <<file, opc, clean, cmd, serves, start, blind>>
        /\ step' = [step EXCEPT ![c] = "post"]
    BY <1>2 DEF ReadPassword, ovars, history
  <2>2. step'[c] = "post" /\ \A d \in Client \ {c} : step'[d] = step[d]
    BY <1>0, <2>1
  <2>3. Alone /\ ~setting.cuts => SoleOK(c)
    BY <2>1 DEF SInv, SoleInv
  <2>4. Alone /\ ~setting.cuts /\ (\A d \in Client : step'[d] # "idle" => d = c) => SoleOK(c)'
    BY <1>0, <2>1, <2>2, <2>3 DEF SoleOK, SeeingOK
  <2> QED
    BY <1>0, <2>1, <2>2, <2>3, <2>4, SoleMoves DEF SoleOK
<1>3. CASE GetOwner(c)
  <2>0. PICK ok \in Reads :
          /\ Receives(c, IF ~ok THEN 500 ELSE IF Exists(file) THEN 200 ELSE 404)
          /\ Told({c}, ok)
    BY <1>3 DEF GetOwner
  <2> DEFINE l == After(c, IF ~ok THEN 500 ELSE IF Exists(file) THEN 200 ELSE 404)
  <2>1. /\ step[c] \in {"find", "confirm"} /\ UNCHANGED <<file, opc, clean, cmd, serves, start>>
        /\ step' = [step EXCEPT ![c] = l]
        /\ Alone /\ c \notin blind' => ok /\ c \notin blind
    BY <1>3, <2>0, RemoteConstants DEF GetOwner, Receives, Told, ovars
  <2>2. /\ l \in {"prompt", "ok", "failed"}
        /\ l = "prompt" => step[c] = "find" /\ Exists(file)
        /\ l = "ok" => step[c] = "confirm"
        /\ l = "failed" => ~ok \/ ~Exists(file)
    BY <2>1 DEF After
  <2> HIDE DEF l
  <2>3. step'[c] = l /\ \A d \in Client \ {c} : step'[d] = step[d]
    BY <1>0, <2>1
  <2>4. cmd[c].name = "password" /\ cmd[c].password \in Password
    BY <2>1 DEF SInv, RInv, CmdInv, CmdOK
  <2>5. Exists(Wanted(cmd[c], start[c]))
    BY <1>0, <2>4, Records DEF Wanted
  <2>6. Alone /\ ~setting.cuts => SoleOK(c)
    BY <2>1 DEF SInv, SoleInv
  <2>7. ASSUME Alone, ~setting.cuts, \A d \in Client : step'[d] # "idle" => d = c
        PROVE  SoleOK(c)'
    <3>1. ASSUME c \notin blind' PROVE SeeingOK(c)'
      <4>1. ok /\ SeeingOK(c)
        BY <2>1, <2>6, <2>7, <3>1 DEF SoleOK
      <4> QED
        BY <1>0, <2>1, <2>2, <2>3, <2>4, <2>5, <4>1 DEF SeeingOK, Wanted
    <3> QED
      BY <1>0, <2>6, <2>7, <3>1 DEF SoleOK
  <2> QED
    BY <1>0, <2>1, <2>3, <2>6, <2>7, SoleMoves DEF SoleOK
<1>4. CASE Delete(c)
  <2>1. /\ step[c] = "delete" /\ UNCHANGED <<opc, cmd, serves, start, blind>>
        /\ \/ Exists(file) /\ file' = Absent /\ step' = [step EXCEPT ![c] = After(c, 204)]
           \/ \E s \in {404, 500} : file' = file /\ step' = [step EXCEPT ![c] = After(c, s)]
    BY <1>4 DEF Delete, DeleteOwner, SetFile, Receives, ovars, history
  <2>2. cmd[c].name = "delete" /\ ~Waiting(c)
    BY <2>1, NotWaiting DEF SInv, RInv, CmdInv, CmdOK
  <2>3. /\ \/ step'[c] = "ok" /\ Exists(file) /\ file' = Absent
           \/ step'[c] = "failed" /\ file' = file
        /\ \A d \in Client \ {c} : step'[d] = step[d]
    <3>1. /\ After(c, 204) = "ok"
          /\ \A s \in {404, 500} : After(c, s) = "failed"
      BY <2>1 DEF After
    <3> QED
      BY <1>0, <2>1, <3>1
  <2>4. Alone /\ ~setting.cuts => SoleOK(c)
    BY <2>1 DEF SInv, SoleInv
  <2>5. Alone /\ ~setting.cuts /\ (\A d \in Client : step'[d] # "idle" => d = c) => SoleOK(c)'
    BY <1>0, <2>1, <2>2, <2>3, <2>4 DEF SoleOK, SeeingOK, Wanted, Waiting
  <2> QED
    BY <1>0, <2>1, <2>3, <2>4, <2>5, SoleMoves DEF SoleOK
<1>5. CASE Exit(c)
  <2>1. /\ step[c] \in {"ok", "failed"} /\ UNCHANGED <<opc, serves>>
        /\ step' = [step EXCEPT ![c] = "idle"] /\ start' = [start EXCEPT ![c] = Absent]
    BY <1>5 DEF Exit, Exits, ovars
  <2>2. /\ step'[c] = "idle" /\ \A d \in Client \ {c} : step'[d] = step[d]
        /\ start' \in [Client -> OwnerRecord]
    BY <1>0, <2>1
  <2> QED
    BY <1>0, <2>1, <2>2, SoleMoves
<1>6. CASE Cut(c) \/ DeleteUnanswered(c)
  <2>1. setting.cuts /\ start' = start
    BY <1>6 DEF Cut, DeleteUnanswered, history
  <2> QED
    BY <1>0, <2>1 DEF SoleInv
<1> QED
  BY <1>1, <1>2, <1>3, <1>4, <1>5, <1>6

LEMMA SoleSends ==
  ASSUME SInv, [RNext]_rvars, NEW c \in Client, NEW p \in Proc, Send(c, p)
  PROVE  SoleInv'
<1>1. /\ step[c] \in {"post", "rotate", "permissions"}
      /\ UNCHANGED <<file, cmd, step, start, blind>> /\ clean' = clean \cup {p}
      /\ serves' = [serves EXCEPT ![p] = c] /\ setting' = setting
      /\ \A q \in Proc \ {p} : opc'[q] = opc[q]
  BY SettingKept
     DEF Send, Post, PutPassword, PutPermissions, OBegin, history, SInv, RInv, OInv, OTypeOK
<1>2. serves'[p] # None /\ \A q \in Proc \ {p} : serves'[q] = serves[q]
  BY <1>1, RemoteConstants DEF SInv, RInv, RTyped
<1>3. ASSUME Alone, ~setting.cuts, NEW d \in Client, step'[d] # "idle" PROVE SoleOK(d)'
  <2>1. SoleOK(d)
    BY <1>1, <1>3 DEF SInv, SoleInv
  <2>2. d \notin blind' => SeeingOK(d)'
    BY <1>1, <1>2, <2>1 DEF SoleOK, SeeingOK, Wanted
  <2> QED
    BY <1>1, <2>1, <2>2 DEF SoleOK
<1> QED
  BY <1>1, <1>2, <1>3 DEF SInv, SoleInv, Alone

\* The handler of the command that is alone answers.
LEMMA SoleAnswers ==
  ASSUME SInv, [RNext]_rvars, NEW p \in Proc, NEW s \in Statuses, Answers(p, s),
         start' = start, blind \subseteq blind',
         opc[p] # "idle", opc'[p] = "idle", \A q \in Proc \ {p} : opc'[q] = opc[q],
         Alone /\ ~setting.cuts /\ serves[p] \in Client \ blind' =>
           LET c == serves[p] IN
           /\ s = 204 => step[c] # "post"
           /\ s \notin {201, 204} => file' = file
           /\ s \in {201, 204} /\ cmd[c].name # "full" =>
                /\ Exists(start[c]) <=> cmd[c].name # "add"
                /\ file' = Wanted(cmd[c], start[c])
  PROVE  SoleInv'
<1>0. setting' = setting /\ cmd' = cmd
  BY SettingKept DEF Answers, SInv
<1> SUFFICES ASSUME Alone, ~setting.cuts PROVE SoleInv'
  BY <1>0 DEF SInv, SoleInv, Alone
<1>1. CASE serves[p] = None
  <2>1. step' = step /\ setting.commands = {}
    BY <1>1 DEF Answers, SInv, SoleInv
  <2> QED
    BY <1>0, <2>1, SoleNobody
<1>2. CASE serves[p] # None
  <2>0. PICK c \in Client : c = serves[p]
    BY <1>2, Waits DEF SInv
  <2> DEFINE l == After(c, s)
  <2>1. /\ step' = [step EXCEPT ![c] = l]
        /\ serves' = [serves EXCEPT ![p] = None]
    BY <1>2, <2>0 DEF Answers, Receives
  <2>2. /\ l \in {"rotate", "confirm", "ok", "failed"}
        /\ l = "rotate" => step[c] = "post" /\ cmd[c].name = "password"
        /\ l = "confirm" => step[c] = "rotate" /\ s = 204
        /\ l = "ok" => s \in {201, 204}
    BY <1>2, <2>0, Replies DEF SInv
  <2>3. /\ l = "failed" => s \notin {201, 204}
        /\ l = "rotate" => s # 201
    BY <1>2, <2>0, Waits DEF After, SInv
  <2> HIDE DEF l
  <2>4. /\ step[c] \in {"post", "rotate", "permissions"} /\ SoleOK(c) /\ CmdOK(c)
        /\ step'[c] = l /\ \A d \in Client \ {c} : step'[d] = step[d]
    BY <1>2, <2>0, <2>1, Waits DEF SInv, SoleInv, RInv, RTyped, CmdInv
  <2>5. \A q \in Proc : serves'[q] # c
    BY <1>2, <2>0, <2>1, Waits, RemoteConstants DEF SInv, RInv, RTyped, ServesOK
  <2>6. ASSUME c \notin blind' PROVE SeeingOK(c)'
    <3>0. SeeingOK(c) /\ c \in Client \ blind'
      BY <2>4, <2>6 DEF SoleOK
    <3>1. CASE l \in {"rotate", "failed"}
      <4>1. file' = file
        BY <2>0, <2>2, <2>3, <3>0, <3>1
      <4> QED
        BY <1>0, <2>2, <2>4, <2>5, <3>0, <3>1, <4>1 DEF SeeingOK
    <3>2. CASE l \in {"confirm", "ok"}
      BY <1>0, <2>0, <2>2, <2>4, <2>5, <3>0, <3>2 DEF SeeingOK, CmdOK
    <3> QED
      BY <2>2, <3>1, <3>2
  <2>7. \A d \in Client : step'[d] # "idle" => d = c
    BY <2>4 DEF SoleOK
  <2>8. \A q \in Proc : opc'[q] # "idle" => serves'[q] # None
    BY <2>1, <2>4 DEF SInv, RInv, RTyped, SoleInv, SoleOK
  <2>9. SoleOK(c)'
    BY <1>0, <2>4, <2>6, <2>7 DEF SoleOK
  <2> QED
    BY <1>0, <2>7, <2>8, <2>9 DEF SInv, SoleInv
<1> QED
  BY <1>1, <1>2

LEMMA SoleHandler ==
  ASSUME SInv, [RNext]_rvars, NEW p \in Proc,
         (\E ok \in Reads : HandleFind(p, ok) \/ HandleRead(p, ok))
           \/ HandleWrite(p) \/ HandleFails(p)
  PROVE  SoleInv'
<1> USE DEF SInv, RInv, OInv, OTypeOK
<1>0. setting' = setting
  BY SettingKept
<1>1. ASSUME NEW ok \in Reads, HandleFind(p, ok) \/ HandleRead(p, ok) PROVE SoleInv'
  <2>1. /\ opc[p] # "idle" /\ file' = file /\ start' = start /\ blind \subseteq blind'
        /\ \A q \in Proc \ {p} : opc'[q] = opc[q]
        /\ Alone /\ serves[p] \in Client \ blind' => ok
    BY <1>1, RemoteConstants DEF HandleFind, HandleRead, Find, ReadOwner, OReply, OGoto, Told
  <2>2. PICK s \in Statuses \ {201, 204} : AnswersIfEnded(p, s)
    BY <1>1 DEF HandleFind, HandleRead, Statuses
  <2>3. CASE opc'[p] = "idle"
    BY <2>1, <2>2, <2>3, SoleAnswers DEF AnswersIfEnded
  <2>4. CASE opc'[p] # "idle"
    <3>1. Saw(p, ok)
      BY <1>1, <2>4 DEF HandleFind, HandleRead, Find, ReadOwner, OReply
    <3>2. Alone => \A q \in clean : serves[q] \in Client \ blind' => q \in clean'
      BY <2>1, <3>1 DEF Saw
    <3>3. UNCHANGED <<cmd, step, serves>>
      BY <2>2, <2>4 DEF AnswersIfEnded
    <3> QED
      BY <1>0, <2>1, <2>4, <3>2, <3>3, SoleSame
  <2> QED
    BY <2>3, <2>4
<1>2. CASE HandleFails(p)
  BY <1>2, SoleAnswers DEF HandleFails, WriteFails, OReply, Statuses, history
<1>3. CASE HandleWrite(p)
  <2> DEFINE s == IF oreq[p].op = "create" THEN 201 ELSE 204
  <2>1. /\ opc[p] = "write" /\ file' = copy[p] /\ Answers(p, s)
        /\ s \in Statuses /\ s \in {201, 204} /\ UNCHANGED <<start, blind>>
        /\ opc'[p] = "idle" /\ \A q \in Proc \ {p} : opc'[q] = opc[q]
    BY <1>3 DEF HandleWrite, WriteOwner, SetFile, OReply, Statuses, history
  <2>2. ASSUME Alone, ~setting.cuts, serves[p] \in Client \ blind
        PROVE  LET c == serves[p] IN
               /\ s = 204 => step[c] # "post"
               /\ cmd[c].name # "full" => /\ Exists(start[c]) <=> cmd[c].name # "add"
                                          /\ copy[p] = Wanted(cmd[c], start[c])
    <3>0. PICK c \in Client \ blind : c = serves[p] /\ serves[p] # None
      BY <2>2, RemoteConstants
    <3>1. /\ ServesOK(p) /\ CmdOK(c) /\ SoleOK(c)
          /\ step[c] \in {"post", "rotate", "permissions"}
      BY <2>1, <2>2, <3>0, Waits DEF CmdInv, SoleInv
    <3>2. file = start[c] /\ CleanOK(p) /\ SeeingOK(c)
      BY <3>0, <3>1 DEF SoleOK, SeeingOK, CleanInv
    <3>3. copy[p] = Owner(copy[p].password, copy[p].perms)
      BY DEF OwnerRecord, Owner, Absent
    <3>4. \A o, w, m : OReq(o, w, m).op = o
      BY DEF OReq
    <3>5. CASE step[c] = "post"
      <4>1. oreq[p].op = "create" /\ copy[p] = Owner(cmd[c].password, cmd[c].perms)
        BY <2>1, <3>0, <3>1, <3>4, <3>5 DEF ServesOK
      <4>2. ~Exists(start[c]) /\ cmd[c].name = "add"
        BY <2>1, <3>1, <3>2, <3>5, <4>1 DEF CleanOK, SeeingOK, CmdOK
      <4> QED
        BY <3>0, <4>1, <4>2 DEF Wanted
    <3>6. CASE step[c] = "rotate"
      <4>1. oreq[p].op = "password" /\ copy[p].password = cmd[c].password
        BY <2>1, <3>0, <3>1, <3>4, <3>6 DEF ServesOK
      <4>2. Exists(start[c]) /\ cmd[c].name = "password" /\ copy[p].perms = start[c].perms
        BY <2>1, <3>1, <3>2, <3>6, <4>1 DEF CleanOK, SeeingOK, CmdOK
      <4> QED
        BY <3>0, <3>3, <3>6, <4>1, <4>2 DEF Wanted
    <3>7. CASE step[c] = "permissions"
      <4>1. oreq[p].op = "permissions" /\ copy[p].perms = Body(cmd[c])
        BY <2>1, <3>0, <3>1, <3>4, <3>7 DEF ServesOK
      <4>2. /\ Exists(start[c]) /\ copy[p].password = start[c].password
            /\ cmd[c].name \in {"perms", "full"}
        BY <2>1, <3>1, <3>2, <3>7, <4>1 DEF CleanOK, CmdOK
      <4> QED
        BY <3>0, <3>3, <3>7, <4>1, <4>2 DEF Wanted, Body
    <3> QED
      BY <3>0, <3>1, <3>5, <3>6, <3>7
  <2> HIDE DEF s
  <2> QED
    BY <2>1, <2>2, SoleAnswers
<1> QED
  BY <1>1, <1>2, <1>3

LEMMA SInvInit == RInit => SInv
<1> SUFFICES ASSUME RInit PROVE SInv
  OBVIOUS
<1>1. SoleInv
  BY Records DEF RInit, OInit, SoleInv
<1> QED
  BY <1>1, RemoteInit DEF SInv

LEMMA SInvStep == SInv /\ [RNext]_rvars => SInv'
<1> SUFFICES ASSUME SInv, [RNext]_rvars PROVE SoleInv'
  BY RInvStep DEF SInv
<1>1. CASE UNCHANGED rvars
  BY <1>1, SoleSame DEF rvars, ovars
<1>2. CASE Others
  BY <1>2, SettingKept, SoleNobody DEF Others, history, SInv
<1>3. CASE RAct /\ ~Others
  BY <1>3, SoleClient, SoleSends, SoleHandler DEF RAct
<1> QED
  BY <1>1, <1>2, <1>3 DEF RNext
-----------------------------------------------------------------------------
(* Theorems                                                                *)

\* The commands over HTTP, with whatever is cut off or overlaps, do to the
\* owner's file what the operations of Owners do.
THEOREM RemoteImplementsOwners == RSpec => OSpec
<1>1. RInit => OInit
  BY DEF RInit
<1> QED
  BY <1>1, StepIsOwners, RInvariance, PTL DEF RSpec, OSpec

\* What holds of the operations holds of the commands: an accepted login is
\* current, and operations that could read the record, and whose record nobody
\* else changed meanwhile, do what their comments say.
THEOREM RemoteKeepsPromises ==
  RSpec => /\ []LoginIsCurrent
           /\ CreateNeverOverwrites /\ ChangesKeepTheRest /\ DeletedStaysDeleted
  BY RemoteImplementsOwners, LoginsCurrent, CreatesKeep, ChangesKeep, DeletedStay

\* A command that exits 0 has seen done what it was told to do, whatever other
\* callers do and whenever connections break.
THEOREM OkIsDone == RSpec => []OkMeansDone
<1>1. RInv => OkMeansDone
  BY DEF RInv, DoneInv, DoneOK, OkMeansDone
<1> QED
  BY <1>1, RInvariance, PTL
\* One at a time, over connections that hold, the requests of a command are one
\* operation on the owner's file, whatever the commands, and whichever writes fail,
\* if their requests could read the record.
THEOREM CommandsAreOperations == RSpec => []CommandIsOneOperation
<1>1. SInv => CommandIsOneOperation
  BY DEF SInv, SoleInv, SoleOK, SeeingOK, CommandIsOneOperation
<1> QED
  BY <1>1, SInvInit, SInvStep, PTL DEF RSpec
=============================================================================
