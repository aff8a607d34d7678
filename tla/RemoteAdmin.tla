----------------------------- MODULE RemoteAdmin -----------------------------
(***************************************************************************)
(* The CLI's owner commands against a registry somewhere else:             *)
(* internal/cli/cli.go (runOwner), internal/remote/client.go, and the      *)
(* management handlers of internal/server/mgmt.go with the statuses they   *)
(* answer.  What the handlers do to the owner's file is module Owners.     *)
(*                                                                         *)
(* A command is one to four HTTP requests, each with a handler of its own, *)
(* and the client leaves after 30 seconds, or when the connection breaks,  *)
(* while the handler goes on.                                              *)
(***************************************************************************)
EXTENDS Owners

CONSTANTS Client,      \* CLI processes
          NoAccess     \* the block of &Permissions{}: no push, no pull scopes

ASSUME RemoteAssumption ==
  /\ NoAccess \in Perms
  /\ None \notin Client
  /\ \A s \in Settings : /\ s.commands \subseteq {"add", "perms", "full", "password", "delete"}
                         /\ s.alone \in BOOLEAN /\ s.cuts \in BOOLEAN

VARIABLES
  cmd,       \* the command each client runs
  step,      \* the request it has sent or is to send, or how it exited
  serves,    \* the client whose request a handler has, if it still waits
  start,     \* history: the file when the command began, if they take turns
  blind,     \* history: then, those one of whose requests could not read it
  done       \* history: the file has been as the command wants it since then

rvars == <<ovars, cmd, step, serves, start, blind, done>>

\* One command at a time.
Alone == setting.alone
history == <<start, blind>>

Cmd(k, w, m) == [name |-> k, password |-> w, perms |-> m]
NoCmd == Cmd("none", None, None)

\* The client's own steps: what it asks next, and its two ways to exit.
Exits == {"ok", "failed"}
Idle(c) == step[c] = "idle"
Waiting(c) == \E p \in Proc : serves[p] = c

RInit ==
  /\ OInit
  /\ cmd = [c \in Client |-> NoCmd]
  /\ step = [c \in Client |-> "idle"]
  /\ serves = [p \in Proc |-> None]
  /\ start = [c \in Client |-> Absent]
  /\ blind = {}
  /\ done = [c \in Client |-> FALSE]
-----------------------------------------------------------------------------
(* The command line.                                                       *)

\* Mutation: the password command does not look for the owner.
FirstNoLook(k) == CASE k = "add" -> "post" [] k = "password" -> "prompt"
                  [] k = "delete" -> "delete" [] OTHER -> "permissions"

First(k) == CASE k = "add" -> "post" [] k = "password" -> "find"
            [] k = "delete" -> "delete" [] OTHER -> "permissions"

Commands ==
  {x \in [name : setting.commands, password : Password \cup {None}, perms : Perms \cup {None}] :
     /\ x.password # None <=> x.name \in {"add", "password"}
     /\ x.perms # None => x.name \in {"add", "perms"}
     /\ x.name = "perms" => x.perms # None}

RunOwner(c) ==
  /\ Idle(c)
  /\ Alone => \A d \in Client : Idle(d)
  /\ \E x \in Commands :
       /\ cmd' = [cmd EXCEPT ![c] = x]
       /\ step' = [step EXCEPT ![c] = First(x.name)]
  /\ start' = [start EXCEPT ![c] = IF Alone THEN file ELSE Absent]
  /\ UNCHANGED <<ovars, serves, blind>>

ReadPassword(c) ==
  /\ step[c] = "prompt"
  /\ step' = [step EXCEPT ![c] = "post"]
  /\ UNCHANGED <<ovars, cmd, serves, history>>

Exit(c) ==
  /\ step[c] \in Exits
  /\ step' = [step EXCEPT ![c] = "idle"]
  /\ cmd' = [cmd EXCEPT ![c] = NoCmd]
  /\ start' = [start EXCEPT ![c] = Absent]
  /\ blind' = blind \ {c}
  /\ UNCHANGED <<ovars, serves>>
-----------------------------------------------------------------------------
(* Requests.                                                               *)

\* Mutation: a conflict means the owner is there, and that is all we wanted.
AfterConflictIsFine(c, s) ==
  CASE step[c] = "find" /\ s = 200 -> "prompt"
    [] step[c] = "post" /\ cmd[c].name = "password" /\ s \notin {201, 409} -> "rotate"
    [] step[c] = "rotate" /\ s = 204 -> "confirm"
    [] OTHER -> IF s \in {200, 201, 204, 409} THEN "ok" ELSE "failed"

\* What the client does with the status of a reply.  PutOwner takes anything
\* but 201 for "exists" and rotates, then asks for the record once more.
After(c, s) ==
  CASE step[c] = "find" /\ s = 200 -> "prompt"
    [] step[c] = "post" /\ cmd[c].name = "password" /\ s # 201 -> "rotate"
    [] step[c] = "rotate" /\ s = 204 -> "confirm"
    [] OTHER -> IF s \in {200, 201, 204} THEN "ok" ELSE "failed"

Receives(c, s) == step' = [step EXCEPT ![c] = After(c, s)]

\* The clients C have been told what the file holds, or nobody could tell.
Told(C, ok) ==
  /\ blind' = IF Alone /\ ~ok THEN blind \cup (C \ {None}) ELSE blind
  /\ UNCHANGED start

\* GET and DELETE are one file operation each, so request, handler and reply
\* are one step.
GetOwner(c) ==
  /\ step[c] \in {"find", "confirm"}
  /\ \E ok \in Reads :
       /\ Receives(c, IF ~ok THEN 500 ELSE IF Exists(file) THEN 200 ELSE 404)
       /\ Told({c}, ok)
  /\ UNCHANGED <<ovars, cmd, serves>>

Delete(c) ==
  /\ step[c] = "delete"
  /\ \/ DeleteOwner /\ Receives(c, 204)
     \/ ~Exists(file) /\ Receives(c, 404) /\ UNCHANGED ovars
     \/ "fail" \in Faults /\ Receives(c, 500) /\ UNCHANGED ovars
  /\ UNCHANGED <<cmd, serves, history>>

\* SetPermissions(name, nil) travels as the block of &Permissions{}.
Body(x) == IF x.name = "full" THEN NoAccess ELSE x.perms

Post(c, p) ==
  /\ step[c] = "post"
  /\ OBegin(p, OReq("create", cmd[c].password, cmd[c].perms), "read")

PutPassword(c, p) ==
  /\ step[c] = "rotate"
  /\ OBegin(p, OReq("password", cmd[c].password, None), "find")

PutPermissions(c, p) ==
  /\ step[c] = "permissions"
  /\ OBegin(p, OReq("permissions", None, Body(cmd[c])), "find")

Send(c, p) ==
  /\ ~Waiting(c)
  /\ Post(c, p) \/ PutPassword(c, p) \/ PutPermissions(c, p)
  /\ serves' = [serves EXCEPT ![p] = c]
  /\ UNCHANGED <<cmd, step, history>>

\* No connection, a reply that is lost, or the client's 30 seconds are over:
\* it exits with an error, and a handler that has the request goes on.
Cut(c) ==
  /\ setting.cuts
  /\ Waiting(c) \/ step[c] \in {"find", "post", "rotate", "confirm", "permissions", "delete"}
  /\ step' = [step EXCEPT ![c] = "failed"]
  /\ serves' = [p \in Proc |-> IF serves[p] = c THEN None ELSE serves[p]]
  /\ UNCHANGED <<ovars, cmd, history>>

\* The connection breaks after the deletion and before its reply.
DeleteUnanswered(c) ==
  /\ setting.cuts
  /\ step[c] = "delete"
  /\ DeleteOwner
  /\ step' = [step EXCEPT ![c] = "failed"]
  /\ UNCHANGED <<cmd, serves, history>>
-----------------------------------------------------------------------------
(* The handlers' replies.                                                  *)

Answers(p, s) ==
  /\ IF serves[p] = None THEN UNCHANGED step ELSE Receives(serves[p], s)
  /\ serves' = [serves EXCEPT ![p] = None]
  /\ UNCHANGED cmd

\* The handler answers if this step ended it, and goes on otherwise.
AnswersIfEnded(p, s) ==
  IF opc'[p] = "idle" THEN Answers(p, s) ELSE UNCHANGED <<cmd, step, serves>>

HandleFind(p, ok) == Find(p, ok) /\ AnswersIfEnded(p, 404) /\ Told({serves[p]}, ok)
HandleRead(p, ok) ==
  /\ ReadOwner(p, ok)
  /\ AnswersIfEnded(p, IF oreq[p].op = "create" THEN 409 ELSE 500)
  /\ Told({serves[p]}, ok)
HandleWrite(p) ==
  WriteOwner(p) /\ Answers(p, IF oreq[p].op = "create" THEN 201 ELSE 204) /\ UNCHANGED history
HandleFails(p) == WriteFails(p) /\ Answers(p, 500) /\ UNCHANGED history

\* Logins, other callers of the API and the CLI on the registry's own disk.
Others ==
  /\ setting.commands = {}
  /\ DeleteOwner \/ \E p \in Proc : OReceive(p) \/ Login(p) \/ Serve(p)
  /\ UNCHANGED <<cmd, step, serves, history>>

\* The record o is as the command x wants it.
AsWanted(x, o) ==
  CASE x.name = "add" -> o = Owner(x.password, x.perms)
    [] x.name = "password" -> o.password = x.password
    [] x.name \in {"perms", "full"} -> Exists(o) /\ o.perms = x.perms
    [] x.name = "delete" -> ~Exists(o)
    [] OTHER -> FALSE

\* Every command under way has seen what is on file.
See == done' = [c \in Client |-> step'[c] # "idle" /\ (done[c] \/ AsWanted(cmd'[c], file'))]

RAct ==
  \/ \E c \in Client :
       \/ RunOwner(c) \/ ReadPassword(c) \/ GetOwner(c) \/ Delete(c) \/ Exit(c)
       \/ Cut(c) \/ DeleteUnanswered(c)
       \/ \E p \in Proc : Send(c, p)
  \/ \E p \in Proc :
       \/ \E ok \in Reads : HandleFind(p, ok) \/ HandleRead(p, ok)
       \/ HandleWrite(p) \/ HandleFails(p)
  \/ Others

RNext == RAct /\ See

RSpec == RInit /\ [][RNext]_rvars
-----------------------------------------------------------------------------
(* Properties                                                              *)

\* Whatever else happens, a command that exits 0 found the file at some time
\* since it began as it was told to make it.
OkMeansDone == \A c \in Client : step[c] = "ok" /\ cmd[c].name # "full" => done[c]

\* What a command makes of the record, if it can, when nothing else runs.
Wanted(x, o) ==
  IF x.name = "delete" THEN Absent
  ELSE Owner(IF x.name = "perms" THEN o.password ELSE x.password,
             IF x.name = "password" THEN o.perms ELSE x.perms)

\* One at a time, over connections that hold, and with writes that may fail,
\* the requests of a command are one operation: it does what the same command
\* does on the registry's own disk and exits 0, or nothing and exits with an
\* error.  An owner is created by "add" only, and only if there is none.  That
\* is so of every command whose requests could read the record.
CommandIsOneOperation ==
  Alone /\ ~setting.cuts => \A c \in Client \ blind :
    /\ step[c] = "ok" /\ cmd[c].name # "full" =>
         /\ Exists(start[c]) <=> cmd[c].name # "add"
         /\ file = Wanted(cmd[c], start[c])
    /\ step[c] = "failed" => file = start[c]

\* "--full restores full access" (internal/cli/cli.go, usage).
FullRestoresFullAccess == \A c \in Client : step[c] = "ok" /\ cmd[c].name = "full" => done[c]
=============================================================================
