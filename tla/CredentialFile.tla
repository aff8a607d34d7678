--------------------------- MODULE CredentialFile ---------------------------
(***************************************************************************)
(* credentials.json of the CLI: load, save, Put, PutStatic and Forget of   *)
(* internal/login/credentials.go; AccessToken (session.go), Refresh and    *)
(* Logout (device.go); login, logout and docker's credential helper        *)
(* (internal/cli/auth.go), for one registry.                               *)
(*                                                                         *)
(* Every call is a process of its own; docker runs the helper for each     *)
(* image it pulls.  All of them write the same credentials.json.tmp, and   *)
(* rename it: the two paths are names of inodes.  Nothing locks the file.  *)
(* On Windows the old file is removed before the rename.                   *)
(***************************************************************************)
EXTENDS Naturals, FiniteSets

CONSTANTS Proc,
          Session,     \* sign-ins of a run
          MaxRotation, \* bound: refresh tokens issued per session
          Rotates,     \* TRUE: the issuer retires a refresh token that is used
          Inode,
          Settings,    \* what is called and what may happen, see setting
          None

\* What a process is run for, and what it can answer.
Commands == {"get", "login", "store", "erase", "logout"}
Answers == {"token", "static", "notfound", "broken", "expired", "ok", "error", "killed"}

\* Where a process can be; with the new file in hand; and with, or on its way to,
\* a new session in hand.
Stages == {"idle", "signin", "get", "static", "refresh", "end", "load",
           "create", "write", "remove", "rename", "done"}
Saves == {"create", "write", "remove", "rename"}
Changes == {"refresh", "load"} \cup Saves

ASSUME CredentialAssumption ==
  /\ Rotates \in BOOLEAN /\ MaxRotation \in Nat
  /\ Cardinality(Inode) > Cardinality(Proc)
  /\ None \notin Inode \cup (Session \X (0 .. MaxRotation)) \cup Commands \cup Answers
  /\ \A s \in Settings :
       /\ s.traffic \subseteq Commands
       /\ s.faults \subseteq {"crash", "fail", "lost"}
       /\ s.turns \subseteq Stages \ {"idle"}
       /\ {s.windows, s.tokens} \subseteq BOOLEAN

VARIABLES
  path, tmp,   \* the inode each name stands for, or None
  data,        \* what each inode holds
  kpc, op,     \* where each process is, and what it was run for
  copy,        \* the file it has loaded and changed
  desc,        \* the inode it has open
  live,        \* issuer: refresh tokens that work
  issued,      \* issuer: refresh tokens issued, per session
  spent,       \* credentials whose access token has expired
  answer,      \* what docker is told
  signedOut,   \* history: a logout has been answered, with no login at work or
               \* begun since
  lost,        \* history: sessions whose last refresh token nobody has saved
  setting      \* of this behaviour, never changed: the kinds of call there are,
               \* the faults, the steps where no two calls happen to be at once,
               \* the platform, and whether the issuer gives out refresh tokens

files == <<path, tmp, data>>
issuer == <<live, issued>>
kvars == <<files, kpc, op, copy, desc, issuer, spent, answer, signedOut, lost,
           setting>>

\* The OIDC credential (session and refresh token) and docker's own.
Content(c, s) == [kind |-> "json", oidc |-> c, static |-> s]
Credential == Session \X (0 .. MaxRotation)
Contents == [kind : {"json"}, oidc : Credential \cup {None}, static : BOOLEAN]
NoFile == Content(None, FALSE)
Empty == [kind |-> "empty", oidc |-> None, static |-> FALSE]  \* created or truncated
Torn == [kind |-> "torn", oidc |-> None, static |-> FALSE]    \* not JSON
Readable(f) == f.kind = "json"

KInit ==
  /\ path = None /\ tmp = None
  /\ data = [i \in Inode |-> Empty]
  /\ kpc = [p \in Proc |-> "idle"]
  /\ op = [p \in Proc |-> None]
  /\ copy = [p \in Proc |-> NoFile]
  /\ desc = [p \in Proc |-> None]
  /\ live = {} /\ issued = [s \in Session |-> 0]
  /\ spent = {}
  /\ answer = [p \in Proc |-> None]
  /\ signedOut = FALSE /\ lost = {}
  /\ setting \in Settings
-----------------------------------------------------------------------------
\* load: a missing file holds nothing.
Loaded == IF path = None THEN NoFile ELSE data[path]

KGoto(p, l) == kpc' = [kpc EXCEPT ![p] = l]

\* The process ends and docker, or the user, has its answer.
Exit(p, a) ==
  /\ KGoto(p, "done")
  /\ answer' = [answer EXCEPT ![p] = a]
  /\ copy' = [copy EXCEPT ![p] = NoFile]
  /\ desc' = [desc EXCEPT ![p] = None]
  /\ signedOut' = (signedOut \/ (op[p] \in {"erase", "logout"} /\ a = "ok"
                                  /\ "login" \notin {op[q] : q \in Proc}))

\* A refreshed token that only this call has.
Unsaved(p) == op[p] = "get" /\ kpc[p] \in {"load"} \cup Saves

\* The call ends and what it was to save goes with it.
Loses(p) == lost' = IF Unsaved(p) THEN lost \cup {copy[p].oidc[1]} ELSE lost

Run(p) ==
  /\ kpc[p] = "idle"
  /\ \E o \in setting.traffic :
       /\ op' = [op EXCEPT ![p] = o]
       /\ KGoto(p, CASE o = "get" -> "get" [] o = "login" -> "signin"
                     [] o = "logout" -> "end" [] OTHER -> "load")
       /\ signedOut' = (signedOut /\ o # "login")
  /\ UNCHANGED <<files, copy, desc, issuer, spent, answer, lost>>

\* The user signs in: a new session at the issuer, with a refresh token or without.
SignIn(p) ==
  /\ kpc[p] = "signin"
  /\ \E s \in Session :
       /\ issued[s] = 0
       /\ issued' = [issued EXCEPT ![s] = 1]
       /\ live' = live \cup (IF setting.tokens THEN {<<s, 0>>} ELSE {})
       /\ copy' = [copy EXCEPT ![p] = Content(<<s, 0>>, FALSE)]
  /\ KGoto(p, "load")
  /\ UNCHANGED <<files, op, desc, spent, answer, signedOut, lost>>

\* The sign-in is given up, or denied.
Cancel(p) ==
  /\ kpc[p] = "signin"
  /\ Exit(p, "error")
  /\ UNCHANGED <<files, op, issuer, spent, lost>>

\* AccessToken: Get, and nothing else if the access token is good.  A credential
\* that cannot be refreshed counts as none.
Get(p) ==
  /\ kpc[p] = "get"
  /\ LET f == Loaded IN
       \/ /\ ~Readable(f)
          /\ Exit(p, "broken")
       \/ /\ Readable(f)
          /\ f.oidc = None \/ (f.oidc \in spent /\ ~setting.tokens)
          /\ KGoto(p, "static")
          /\ UNCHANGED <<copy, desc, answer, signedOut>>
       \/ /\ f.oidc # None /\ f.oidc \notin spent
          /\ Exit(p, "token")
       \/ /\ f.oidc # None /\ f.oidc \in spent /\ setting.tokens
          /\ KGoto(p, "refresh")
          /\ copy' = [copy EXCEPT ![p] = f]
          /\ UNCHANGED <<desc, answer, signedOut>>
  /\ UNCHANGED <<files, op, issuer, spent, lost>>

\* Nobody is signed in: docker's own credential, from another load.
GetStatic(p) ==
  /\ kpc[p] = "static"
  /\ Exit(p, IF Readable(Loaded) /\ Loaded.static THEN "static" ELSE "notfound")
  /\ UNCHANGED <<files, op, issuer, spent, lost>>

\* What a refresh changes at the issuer: the next token of the session, instead of
\* the one that was used or beside it.
Renewed(c) == <<c[1], issued[c[1]]>>
Rotate(c) ==
  /\ c \in live
  /\ issued[c[1]] <= MaxRotation
  /\ issued' = [issued EXCEPT ![c[1]] = @ + 1]
  /\ live' = (IF Rotates THEN live \ {c} ELSE live) \cup {Renewed(c)}

\* Mutation: the refresh token that was used is kept.
RefreshKeepsOld(p) ==
  /\ kpc[p] = "refresh"
  /\ Rotate(copy[p].oidc)
  /\ KGoto(p, "load")
  /\ UNCHANGED <<files, op, copy, desc, spent, answer, signedOut, lost>>

\* Refresh, at an issuer that still knows the token ...
Refresh(p) ==
  /\ kpc[p] = "refresh"
  /\ Rotate(copy[p].oidc)
  /\ copy' = [copy EXCEPT ![p] = Content(Renewed(copy[p].oidc), FALSE)]
  /\ KGoto(p, "load")
  /\ UNCHANGED <<files, op, desc, spent, answer, signedOut, lost>>

\* ... whose reply is lost, or is not what was expected.
RefreshLost(p) ==
  /\ "lost" \in setting.faults
  /\ kpc[p] = "refresh"
  /\ Rotate(copy[p].oidc)
  /\ lost' = lost \cup {copy[p].oidc[1]}
  /\ Exit(p, "error")
  /\ UNCHANGED <<files, op, spent>>

\* The issuer refuses: sign in again.
RefreshRefused(p) ==
  /\ kpc[p] = "refresh"
  /\ copy[p].oidc \notin live
  /\ Exit(p, "expired")
  /\ UNCHANGED <<files, op, issuer, spent, lost>>

\* It cannot be reached, or fails before it has done anything.
RefreshFails(p) ==
  /\ kpc[p] = "refresh"
  /\ Exit(p, "error")
  /\ UNCHANGED <<files, op, issuer, spent, lost>>

\* logout: Get and Logout, then Forget, also if the session could not be ended.
EndSession(p) ==
  /\ kpc[p] = "end"
  /\ live' \in {live} \cup (IF Loaded.oidc = None THEN {}
                             ELSE {{c \in live : c[1] # Loaded.oidc[1]}})
  /\ KGoto(p, "load")
  /\ UNCHANGED <<files, op, copy, desc, issued, spent, answer, signedOut, lost>>

\* A Put that fails after a refresh is no error: the token is good.
PutFails(p) == Loses(p) /\ Exit(p, IF op[p] = "get" THEN "token" ELSE "error")

\* Mutation: docker logout forgets docker's own credential only.
LoadKeepsSession(p) ==
  /\ kpc[p] = "load"
  /\ LET f == Loaded IN
       \/ ~Readable(f) /\ PutFails(p)
       \/ /\ Readable(f) /\ op[p] \in {"erase", "logout"} /\ ~f.static
          /\ Exit(p, "ok") /\ UNCHANGED lost
       \/ /\ Readable(f)
          /\ op[p] \in {"erase", "logout"} => f.static
          /\ copy' = [copy EXCEPT ![p] =
               IF op[p] = "store" THEN Content(f.oidc, TRUE)
               ELSE IF op[p] \in {"erase", "logout"} THEN Content(f.oidc, FALSE)
               ELSE Content(@.oidc, f.static)]
          /\ KGoto(p, "create")
          /\ UNCHANGED <<desc, answer, signedOut, lost>>
  /\ UNCHANGED <<files, op, issuer, spent>>

\* Put, PutStatic, Forget: load the file and change the entry.
Load(p) ==
  /\ kpc[p] = "load"
  /\ LET f == Loaded IN
       \/ ~Readable(f) /\ PutFails(p)
       \/ /\ Readable(f) /\ op[p] \in {"erase", "logout"} /\ f = NoFile
          /\ Exit(p, "ok") /\ UNCHANGED lost
       \/ /\ Readable(f)
          /\ op[p] \in {"erase", "logout"} => f # NoFile
          /\ copy' = [copy EXCEPT ![p] =
               IF op[p] = "store" THEN Content(f.oidc, TRUE)
               ELSE IF op[p] \in {"erase", "logout"} THEN NoFile
               ELSE Content(@.oidc, f.static)]
          /\ KGoto(p, "create")
          /\ UNCHANGED <<desc, answer, signedOut, lost>>
  /\ UNCHANGED <<files, op, issuer, spent>>
-----------------------------------------------------------------------------
(* save                                                                    *)

\* Mutation: the file itself is written.
CreateTmpInPlace(p) ==
  /\ kpc[p] = "create"
  /\ \E i \in Inode :
       /\ IF path # None THEN i = path
          ELSE i \notin {tmp} \cup {desc[q] : q \in Proc}
       /\ path' = i
       /\ data' = [data EXCEPT ![i] = Empty]
       /\ desc' = [desc EXCEPT ![p] = i]
  /\ KGoto(p, "write")
  /\ UNCHANGED <<tmp, op, copy, issuer, spent, answer, signedOut, lost>>

\* os.WriteFile opens the temporary file with O_CREATE and O_TRUNC ...
CreateTmp(p) ==
  /\ kpc[p] = "create"
  /\ \E i \in Inode :
       /\ IF tmp # None THEN i = tmp
          ELSE i \notin {path} \cup {desc[q] : q \in Proc}
       /\ tmp' = i
       /\ data' = [data EXCEPT ![i] = Empty]
       /\ desc' = [desc EXCEPT ![p] = i]
  /\ KGoto(p, "write")
  /\ UNCHANGED <<path, op, copy, issuer, spent, answer, signedOut, lost>>

\* Mutation: the old file goes first on every platform.
WriteTmpRemoves(p) ==
  /\ kpc[p] = "write"
  /\ \E f \in {copy[p]} \cup (IF data[desc[p]] \in {Empty, copy[p]} THEN {} ELSE {Torn}) :
       data' = [data EXCEPT ![desc[p]] = f]
  /\ KGoto(p, "remove")
  /\ UNCHANGED <<path, tmp, op, copy, desc, issuer, spent, answer, signedOut, lost>>

\* ... and writes at the start of whatever that inode holds by then: over
\* longer contents, what is beyond the end stays.
WriteTmp(p) ==
  /\ kpc[p] = "write"
  /\ \E f \in {copy[p]} \cup (IF data[desc[p]] \in {Empty, copy[p]} THEN {} ELSE {Torn}) :
       data' = [data EXCEPT ![desc[p]] = f]
  /\ KGoto(p, IF setting.windows THEN "remove" ELSE "rename")
  /\ UNCHANGED <<path, tmp, op, copy, desc, issuer, spent, answer, signedOut, lost>>

\* On Windows the old file goes first; that it cannot be removed is ignored.
RemoveOld(p) ==
  /\ kpc[p] = "remove"
  /\ path' = None \/ ("fail" \in setting.faults /\ path' = path)
  /\ KGoto(p, "rename")
  /\ UNCHANGED <<tmp, data, op, copy, desc, issuer, spent, answer, signedOut, lost>>

\* Rename takes whatever has the temporary name; it may be gone.
RenameTmp(p) ==
  /\ kpc[p] = "rename"
  /\ IF tmp = None
       THEN PutFails(p) /\ UNCHANGED <<path, tmp>>
       ELSE /\ path' = tmp
            /\ tmp' = None
            /\ Exit(p, IF op[p] = "get" THEN "token" ELSE "ok")
            /\ UNCHANGED lost
  /\ UNCHANGED <<data, op, issuer, spent>>

\* The disk is full or read-only, or on Windows somebody has the file open; a
\* rename that fails removes the temporary file if it can, a write leaves it.
SaveFails(p) ==
  /\ "fail" \in setting.faults
  /\ \/ kpc[p] \in {"create", "write", "rename"} /\ UNCHANGED tmp
     \/ kpc[p] = "rename" /\ tmp' = None
  /\ PutFails(p)
  /\ UNCHANGED <<path, data, op, issuer, spent>>

\* The process is killed.
Kill(p) ==
  /\ "crash" \in setting.faults
  /\ kpc[p] \notin {"idle", "done"}
  /\ Exit(p, "killed") /\ Loses(p)
  /\ UNCHANGED <<files, op, issuer, spent>>

\* The answer has been seen.
Exited(p) ==
  /\ kpc[p] = "done"
  /\ KGoto(p, "idle")
  /\ op' = [op EXCEPT ![p] = None]
  /\ answer' = [answer EXCEPT ![p] = None]
  /\ UNCHANGED <<files, copy, desc, issuer, spent, signedOut, lost>>

\* An access token expires.
Expire ==
  /\ \E s \in Session, k \in 0 .. MaxRotation :
       /\ k < issued[s]
       /\ <<s, k>> \notin spent
       /\ spent' = spent \cup {<<s, k>>}
  /\ UNCHANGED <<files, kpc, op, copy, desc, issuer, answer, signedOut, lost>>

KHandle(p) ==
  \/ Run(p) \/ SignIn(p) \/ Cancel(p) \/ Get(p) \/ GetStatic(p) \/ Refresh(p)
  \/ RefreshLost(p) \/ RefreshRefused(p) \/ RefreshFails(p) \/ EndSession(p) \/ Load(p)
  \/ CreateTmp(p) \/ WriteTmp(p) \/ RemoveOld(p) \/ RenameTmp(p) \/ SaveFails(p)
  \/ Kill(p) \/ Exited(p)

\* At the steps of setting.turns, calls do not overlap.
InTurn == \A p, q \in Proc : {kpc[p], kpc[q]} \subseteq setting.turns => p = q

KNext ==
  /\ UNCHANGED setting
  /\ Expire \/ \E p \in Proc : KHandle(p)
  /\ InTurn'

KSpec == KInit /\ [][KNext]_kvars
-----------------------------------------------------------------------------
(* Properties                                                              *)

KTypeOK ==
  /\ {path, tmp} \subseteq Inode \cup {None}
  /\ path = None \/ path # tmp
  /\ data \in [Inode -> Contents \cup {Empty, Torn}]
  /\ kpc \in [Proc -> Stages]
  /\ op \in [Proc -> Commands \cup {None}]
  /\ copy \in [Proc -> Contents]
  /\ desc \in [Proc -> Inode \cup {None}]
  /\ live \in SUBSET Credential /\ spent \in SUBSET Credential
  /\ issued \in [Session -> 0 .. MaxRotation + 1]
  /\ answer \in [Proc -> Answers \cup {None}]
  /\ signedOut \in BOOLEAN /\ lost \subseteq Session /\ setting \in Settings

\* "a crash mid-write cannot leave a half-parsed file that locks the user out of
\* every registry at once": the file is there as a whole or not at all, if no two
\* calls save at once, wherever they are killed.
NeverHalfWritten ==
  Saves \subseteq setting.turns /\ path # None => Readable(data[path])

\* There is a session on file; or, on Windows, in the hands of a call that has
\* removed the file and is about to put its own there.
SignedIn ==
  \/ Loaded.oidc # None
  \/ /\ setting.windows /\ path = None
     /\ \E p \in Proc : kpc[p] = "rename" /\ copy[p].oidc # None

\* On Windows: the call that has removed the file ends before it has renamed.
LostBetween ==
  /\ setting.windows /\ path = None
  /\ \E p \in Proc : kpc[p] = "rename" /\ kpc'[p] = "done"

\* No crash, failed write or refresh loses a sign-in: the file that holds one
\* holds one in every later state, until somebody logs out, if no two calls save
\* at once.  On Windows, but only there, a call that is killed or fails between
\* the removal and the rename loses it.
SignInKept ==
  [][Saves \subseteq setting.turns /\ SignedIn
       => \/ SignedIn' \/ LostBetween
          \/ \E p \in Proc : op[p] \in {"erase", "logout"}]_kvars

\* "`docker logout` means logged out - including the OIDC session": after it
\* has answered, no session is on file until the user signs in again, if no
\* refresh is under way beside it.
LoggedOutStaysOut ==
  Changes \subseteq setting.turns /\ signedOut => Loaded.oidc = None

\* The refresh token on file is the last one: while the session lives, no refresh
\* is refused, if no two calls are between the refresh and the save; unless the
\* reply to an earlier refresh was lost, or what it brought could not be saved.
SessionKeepsWorking ==
  [][Changes \subseteq setting.turns =>
       \A p \in Proc : answer[p] # "expired" /\ answer'[p] = "expired"
         => LET s == copy[p].oidc[1] IN s \in lost \/ \A c \in live : c[1] # s]_kvars
=============================================================================
