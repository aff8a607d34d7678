------------------------------- MODULE Owners -------------------------------
(***************************************************************************)
(* The credential file of one owner: internal/store/store.go (CreateOwner, *)
(* PutOwner, SetPermissions, DeleteOwner, GetOwner, CheckPassword), the    *)
(* management handlers of internal/server/mgmt.go and the Basic login of   *)
(* internal/server/server.go.  The CLI runs the same store functions in a  *)
(* process of its own.                                                     *)
(*                                                                         *)
(* Every change is read, modify (bcrypt takes tens of milliseconds) and    *)
(* write back, and nothing locks the file in between.  A record that       *)
(* cannot be read or decoded is an error to some callers and a missing     *)
(* record to others.                                                       *)
(***************************************************************************)
EXTENDS Naturals

CONSTANTS Proc,        \* handlers and CLI processes
          Password,
          Perms,       \* explicit permission blocks; None is legacy full access
          Settings,    \* what is asked and what may fail, see setting
          None

ASSUME OwnersAssumption ==
  /\ None \notin Password \cup Perms
  /\ \A s \in Settings :
       /\ s.traffic \subseteq {"create", "password", "permissions", "delete", "login"}
       /\ s.faults \subseteq {"fail", "unread"}

VARIABLES
  file,      \* owners/<name>.json, or Absent
  opc,       \* where each operation is
  oreq,      \* its request
  copy,      \* the record it has read and will write or use
  during,    \* history: contents of the file while a login runs
  clean,     \* history: the operations under way that could read the record
             \* whenever they tried, and whose record nobody else has changed
  setting    \* of this run, never changed: the kinds of operation there are
             \* and the faults

ovars == <<file, opc, oreq, copy, during, clean, setting>>

Traffic == setting.traffic
Faults == setting.faults

Absent == [password |-> None, perms |-> None]
Owner(w, m) == [password |-> w, perms |-> m]
Exists(o) == o.password # None

\* Whether a read of the file can fail, and what store.go takes it for then:
\* CreateOwner, PutOwner and CheckPassword see no owner.
Reads == IF "unread" \in Faults THEN BOOLEAN ELSE {TRUE}
Found(ok) == IF ok THEN file ELSE Absent

OPC == {"idle", "find", "read", "write", "check", "load", "accepted"}
ORequest == [op : Traffic \cup {"none"}, password : Password \cup {None},
             perms : Perms \cup {None}]
OReq(o, w, m) == [op |-> o, password |-> w, perms |-> m]
NoORequest == OReq("none", None, None)

OInit ==
  /\ file = Absent
  /\ opc = [p \in Proc |-> "idle"]
  /\ oreq = [p \in Proc |-> NoORequest]
  /\ copy = [p \in Proc |-> Absent]
  /\ during = [p \in Proc |-> {}]
  /\ clean = {}
  /\ setting \in Settings
-----------------------------------------------------------------------------
\* The file now holds o; every login under way has seen it.
SetFile(o) ==
  /\ file' = o
  /\ during' = [p \in Proc |-> IF oreq[p].op = "login" THEN during[p] \cup {o}
                               ELSE during[p]]

OGoto(p, l) ==
  /\ opc' = [opc EXCEPT ![p] = l]
  /\ UNCHANGED oreq

\* p has read the file, or could not.
Saw(p, ok) == clean' = IF ok THEN clean ELSE clean \ {p}

OReply(p) ==
  /\ opc' = [opc EXCEPT ![p] = "idle"]
  /\ oreq' = [oreq EXCEPT ![p] = NoORequest]
  /\ copy' = [copy EXCEPT ![p] = Absent]

OBegin(p, r, l) ==
  /\ opc[p] = "idle"
  /\ r.op \in Traffic
  /\ opc' = [opc EXCEPT ![p] = l]
  /\ oreq' = [oreq EXCEPT ![p] = r]
  /\ during' = [during EXCEPT ![p] = IF r.op = "login" THEN {file} ELSE {}]
  /\ clean' = clean \cup {p}
  /\ UNCHANGED <<file, copy, setting>>

\* A password change, by the management API or the CLI, and permissions set by
\* the API look the owner up first; the CLI calls SetPermissions at once.
OReceive(p) ==
  \/ \E w \in Password :
       \/ \E m \in Perms \cup {None} : OBegin(p, OReq("create", w, m), "read")
       \/ OBegin(p, OReq("password", w, None), "find")
       \/ OBegin(p, OReq("login", w, None), "find")
  \/ \E m \in Perms : OBegin(p, OReq("permissions", None, m), "find")
  \/ \E m \in Perms \cup {None} : OBegin(p, OReq("permissions", None, m), "read")
-----------------------------------------------------------------------------
\* Mutation: the password handler does not look for the owner first.
FindAnybody(p, ok) ==
  /\ opc[p] = "find"
  /\ IF oreq[p].op # "password" /\ ok /\ ~Exists(file)
       THEN OReply(p) /\ clean' = clean \ {p}
       ELSE /\ OGoto(p, IF oreq[p].op = "login" THEN "check" ELSE "read")
            /\ Saw(p, ok)
            /\ UNCHANGED copy
  /\ UNCHANGED <<file, during, setting>>

\* The handlers' own GetOwner: 404 if there is none.  They go on if they cannot
\* tell; basicAuth denies the login.  (The CLI on the registry's disk stops.)
Find(p, ok) ==
  /\ opc[p] = "find"
  /\ IF IF oreq[p].op = "login" THEN ~Exists(Found(ok)) ELSE ok /\ ~Exists(file)
       THEN OReply(p) /\ clean' = clean \ {p}
       ELSE /\ OGoto(p, IF oreq[p].op = "login" THEN "check" ELSE "read")
            /\ Saw(p, ok)
            /\ UNCHANGED copy
  /\ UNCHANGED <<file, during, setting>>

\* Mutation: a password change starts from a fresh record.
NewRecordFresh(r, o) ==
  IF r.op = "permissions" THEN Owner(o.password, r.perms)
  ELSE Owner(r.password, r.perms)

\* The record to write: CreateOwner and PutOwner build a new one (PutOwner
\* with the permissions it finds), SetPermissions changes the one it finds.
NewRecord(r, o) ==
  IF r.op = "create" THEN Owner(r.password, r.perms)
  ELSE IF r.op = "permissions" THEN Owner(o.password, r.perms)
  ELSE Owner(r.password, o.perms)

\* Mutation: CreateOwner does not look.
RefusedNever(r, o) == r.op = "permissions" /\ ~Exists(o)

\* CreateOwner stops at an existing owner, SetPermissions at a missing one.
Refused(r, o) ==
  \/ r.op = "create" /\ Exists(o)
  \/ r.op = "permissions" /\ ~Exists(o)

ReadOwner(p, ok) ==
  /\ opc[p] = "read"
  /\ IF Refused(oreq[p], Found(ok))
       THEN OReply(p) /\ clean' = clean \ {p}
       ELSE /\ OGoto(p, "write")
            /\ copy' = [copy EXCEPT ![p] = NewRecord(oreq[p], Found(ok))]
            /\ Saw(p, ok)
  /\ UNCHANGED <<file, during, setting>>

WriteOwner(p) ==
  /\ opc[p] = "write"
  /\ SetFile(copy[p])
  /\ OReply(p)
  /\ clean' = IF copy[p] = file THEN clean \ {p} ELSE {}
  /\ UNCHANGED setting

WriteFails(p) ==
  /\ "fail" \in Faults
  /\ opc[p] = "write"
  /\ OReply(p)
  /\ clean' = clean \ {p}
  /\ UNCHANGED <<file, during, setting>>

DeleteOwner ==
  /\ "delete" \in Traffic
  /\ Exists(file)
  /\ SetFile(Absent)
  /\ clean' = {}
  /\ UNCHANGED <<opc, oreq, copy, setting>>
-----------------------------------------------------------------------------
(* basicAuth and resolvePrincipal: CheckPassword reads the file, GetOwner   *)
(* reads it again for the permissions the request will run with.           *)

\* Mutation: any password of an existing owner will do.
CheckNothing(p, ok) ==
  /\ opc[p] = "check"
  /\ OGoto(p, "load")
  /\ Saw(p, ok)
  /\ UNCHANGED <<file, copy, during, setting>>

CheckPassword(p, ok) ==
  /\ opc[p] = "check"
  /\ IF Exists(Found(ok)) /\ file.password = oreq[p].password
       THEN OGoto(p, "load") /\ UNCHANGED <<copy, clean>>
       ELSE OReply(p) /\ clean' = clean \ {p}
  /\ UNCHANGED <<file, during, setting>>

LoadOwner(p, ok) ==
  /\ opc[p] = "load"
  /\ IF Exists(Found(ok))
       THEN /\ OGoto(p, "accepted")
            /\ copy' = [copy EXCEPT ![p] = file]
            /\ UNCHANGED clean
       ELSE OReply(p) /\ clean' = clean \ {p}
  /\ UNCHANGED <<file, during, setting>>

Serve(p) ==
  /\ opc[p] = "accepted"
  /\ OReply(p)
  /\ clean' = clean \ {p}
  /\ UNCHANGED <<file, during, setting>>

Login(p) == \E ok \in Reads : CheckPassword(p, ok) \/ LoadOwner(p, ok)

OHandle(p) ==
  \/ \E ok \in Reads : Find(p, ok) \/ ReadOwner(p, ok)
  \/ WriteOwner(p) \/ WriteFails(p) \/ Login(p) \/ Serve(p)

ONext == DeleteOwner \/ \E p \in Proc : OReceive(p) \/ OHandle(p)

OSpec == OInit /\ [][ONext]_ovars
-----------------------------------------------------------------------------
(* Properties                                                              *)

OwnerRecord == [password : Password, perms : Perms \cup {None}] \cup {Absent}

OTypeOK ==
  /\ file \in OwnerRecord
  /\ opc \in [Proc -> OPC]
  /\ oreq \in [Proc -> ORequest]
  /\ copy \in [Proc -> OwnerRecord]
  /\ during \in [Proc -> SUBSET OwnerRecord]
  /\ clean \subseteq Proc
  /\ setting \in Settings

\* p's operation o writes the file in this step.
Writes(p, o) == opc[p] = "write" /\ opc'[p] = "idle" /\ oreq[p].op \in o /\ file' # file

\* CreateOwner "never overwrites a live credential", if it could read the file
\* and nobody else changed it meanwhile.  (Of two creations at once the second
\* overwrites the first, and so does one that cannot read the record.)
CreateNeverOverwrites ==
  [][\A p \in clean : Writes(p, {"create"}) => ~Exists(file)]_ovars

\* PutOwner preserves "metadata that a password change must not clobber", and
\* SetPermissions changes that "without touching its password", if they could
\* read the file and nobody else changed it meanwhile.  (Of two changes at once
\* the later write undoes the other, and a new password for a record that
\* cannot be read drops its permissions.)
ChangesKeepTheRest ==
  [][\A p \in clean : Exists(file) =>
       /\ Writes(p, {"password"}) => file'.perms = file.perms
       /\ Writes(p, {"permissions"}) => file'.password = file.password]_ovars

\* Rotating a password or setting permissions is for owners that exist: the
\* handlers answer 404 otherwise, so a deleted owner stays deleted, unless the
\* deletion falls into the change or the change could not read the file.
DeletedStaysDeleted ==
  [][\A p \in clean : Writes(p, {"password", "permissions"}) => Exists(file)]_ovars

\* A login that is accepted presented a password the owner had, and runs with
\* permissions the owner had, at some time since it arrived: a rotation or a
\* restriction that was answered before is never ignored.
LoginIsCurrent ==
  \A p \in Proc : opc[p] = "accepted" =>
    /\ copy[p] \in during[p]
    /\ \E o \in during[p] : Exists(o) /\ o.password = oreq[p].password
=============================================================================
