---------------------------- MODULE DockerConfig ----------------------------
(***************************************************************************)
(* docker's config.json as the CLI edits it: Read, Write, RegisterHelper   *)
(* and UnregisterHelper of internal/dockercfg/config.go, the helper binary *)
(* of install.go, and the install and uninstall commands that call them    *)
(* (internal/cli/auth.go).                                                 *)
(*                                                                         *)
(* Docker, and the editor that owns credsStore, change the same file, also *)
(* while a command is at work on it: nothing locks it.  Of the CLI one     *)
(* command runs at a time.                                                 *)
(***************************************************************************)
EXTENDS Naturals

CONSTANTS Registry,
          Dir,      \* directories for the helper, as numbers in the order of PATH
          Settings, \* what there was before and what is managed, see setting
          Store,    \* values of credsStore and of other people's settings
          Faults,   \* subset of {"kill", "fail"}
          None

\* LoginAssumption, in the module that gives these their values, has their types.

VARIABLES
  conf,    \* config.json
  part,    \* config.json.tmp, or None
  binary,  \* where docker-credential-agentics of each directory points: "here",
           \* "old", None, or "empty": a shim that is not written yet
  verb, reg, dir, cpc,
  mine,    \* the config a command has read and changed
  found,   \* history: the config as the command read it
  astray,  \* the command will warn that docker does not find the helper
  exit,    \* how the last command ended
  setting  \* never changed: the registries the CLI is run for, whether it was run
           \* for them before, the directories it is told to use, those of them
           \* that are on PATH, and whether this is Windows

command == <<verb, reg, dir, cpc, mine, found, astray, exit, setting>>
dcvars == <<conf, part, binary, command>>

\* A key that is not there is None.
Config == [store : Store \cup {None}, helpers : [Registry -> {None, "ours", "other"}],
           auths : SUBSET Registry]
NoConfig == [store |-> None, helpers |-> [r \in Registry |-> None], auths |-> {}]

\* A first run may find the helper of an earlier version, but no registration;
\* later ones find whatever was left.
FoundConfigs(s) == {c \in Config : s.again \/ \A r \in Registry : c.helpers[r] # "ours"}
FoundBinaries(s) ==
  [Dir -> {None, "old"} \cup (IF s.again THEN {"here"} ELSE {})
                        \cup (IF s.again /\ s.windows THEN {"empty"} ELSE {})]

\* exec.LookPath, docker's and the CLI's: the first on PATH, if there is one.
LookPath(b) ==
  {d \in setting.path : b[d] # None /\ \A e \in setting.path : b[e] # None => d <= e}

\* InstallResult.OnPath: that one is, or leads to, what was installed.
OnPath(b) ==
  \E d \in LookPath(b) : d = dir \/ (~setting.windows /\ b[d] = "here")

DCInit ==
  /\ setting \in Settings
  /\ conf \in FoundConfigs(setting)
  /\ binary \in FoundBinaries(setting)
  /\ part = None
  /\ verb = None /\ reg = None /\ dir = None /\ cpc = "idle" /\ mine = None
  /\ found = None /\ astray = FALSE /\ exit = None
-----------------------------------------------------------------------------
DGoto(l) ==
  cpc' = l /\ UNCHANGED <<verb, reg, dir, mine, found, astray, exit, setting>>

\* A command ends; one that ends well has given its warning.
Exits(x) ==
  /\ cpc' = "idle" /\ exit' = x
  /\ verb' = None /\ reg' = None /\ dir' = None /\ mine' = None /\ found' = None
  /\ UNCHANGED <<astray, setting>>

Return == Exits("ok")

Fails == "fail" \in Faults /\ Exits("failed")

\* Mutation: docker is told before there is a helper.
CallRegisterFirst ==
  /\ cpc = "idle"
  /\ verb' \in {"install", "uninstall"}
  /\ reg' \in setting.managed /\ dir' \in setting.dirs
  /\ cpc' = "edit"
  /\ exit' = None /\ astray' = FALSE
  /\ UNCHANGED <<conf, part, binary, mine, found, setting>>

\* installCredentialHelper: Install, then RegisterHelper.  uninstall: first
\* UnregisterHelper, then Uninstall.
Call ==
  /\ cpc = "idle"
  /\ verb' \in {"install", "uninstall"}
  /\ reg' \in setting.managed /\ dir' \in setting.dirs
  /\ cpc' = IF verb' = "install" THEN "install" ELSE "edit"
  /\ exit' = None /\ astray' = FALSE
  /\ UNCHANGED <<conf, part, binary, mine, found, setting>>

\* The helper is in its directory; whether docker finds it there is looked up now
\* and told in the end.
Placed ==
  /\ cpc' = "edit"
  /\ astray' = ~OnPath(binary')
  /\ UNCHANGED <<verb, reg, dir, mine, found, exit, setting>>

\* Install: the link is there, or whatever has its name is removed; on Windows the
\* shim is written anew every time, in place ...
Install ==
  /\ cpc = "install"
  /\ \/ binary[dir] = "here" /\ ~setting.windows /\ UNCHANGED binary /\ Placed
     \/ /\ binary[dir] # "here" \/ setting.windows
        /\ DGoto("link")
        /\ binary' = [binary EXCEPT ![dir] = IF setting.windows THEN "empty" ELSE None]
     \/ Fails /\ UNCHANGED binary
  /\ UNCHANGED <<conf, part>>

\* ... and the link is made, or the shim written.
Link ==
  /\ cpc = "link"
  /\ \/ binary' = [binary EXCEPT ![dir] = "here"] /\ Placed
     \/ Fails /\ UNCHANGED binary
  /\ UNCHANGED <<conf, part>>

\* Mutation: the registration is written from a model of the file that knows
\* the helpers only.
EditPartialModel ==
  /\ cpc = "edit"
  /\ \/ /\ verb = "install" /\ conf.helpers[reg] # "ours"
        /\ mine' = [NoConfig EXCEPT !.helpers = [conf.helpers EXCEPT ![reg] = "ours"]]
        /\ cpc' = "write" /\ found' = conf
        /\ UNCHANGED <<verb, reg, dir, astray, exit, setting>>
     \/ /\ verb = "uninstall" /\ conf.helpers[reg] = "ours"
        /\ mine' = [conf EXCEPT !.helpers[reg] = None]
        /\ cpc' = "write" /\ found' = conf
        /\ UNCHANGED <<verb, reg, dir, astray, exit, setting>>
     \/ verb = "install" /\ conf.helpers[reg] = "ours" /\ Return
     \/ verb = "uninstall" /\ conf.helpers[reg] # "ours" /\ DGoto("unlink")
     \/ Fails
  /\ UNCHANGED <<conf, part, binary>>

\* RegisterHelper, UnregisterHelper: Read, and the change, if there is one.
Edit ==
  /\ cpc = "edit"
  /\ \/ /\ verb = "install" /\ conf.helpers[reg] # "ours"
        /\ mine' = [conf EXCEPT !.helpers[reg] = "ours", !.auths = @ \ {reg}]
        /\ cpc' = "write" /\ found' = conf
        /\ UNCHANGED <<verb, reg, dir, astray, exit, setting>>
     \/ /\ verb = "uninstall" /\ conf.helpers[reg] = "ours"
        /\ mine' = [conf EXCEPT !.helpers[reg] = None]
        /\ cpc' = "write" /\ found' = conf
        /\ UNCHANGED <<verb, reg, dir, astray, exit, setting>>
     \/ verb = "install" /\ conf.helpers[reg] = "ours" /\ Return
     \/ verb = "uninstall" /\ conf.helpers[reg] # "ours" /\ DGoto("unlink")
     \/ Fails
  /\ UNCHANGED <<conf, part, binary>>

\* Write: the temporary file; one that fails is left behind.
WritePart ==
  /\ cpc = "write"
  /\ \/ part' = mine /\ DGoto(IF setting.windows THEN "remove" ELSE "rename")
     \/ Fails /\ UNCHANGED part
  /\ UNCHANGED <<conf, binary>>

\* Write, on Windows: the old file goes first, if it can be removed.
RemoveConfig ==
  /\ cpc = "remove"
  /\ conf' = NoConfig \/ ("fail" \in Faults /\ conf' = conf)
  /\ DGoto("rename")
  /\ UNCHANGED <<part, binary>>

\* Write: the rename, or the removal of the temporary file, if that can be done.
Replace ==
  /\ cpc = "rename"
  /\ \/ /\ conf' = part /\ part' = None
        /\ (IF verb = "install" THEN Return ELSE DGoto("unlink"))
     \/ Fails /\ UNCHANGED conf /\ part' \in {None, part}
  /\ UNCHANGED binary

\* Uninstall.
Unlink ==
  /\ cpc = "unlink"
  /\ \/ Return /\ binary' = [binary EXCEPT ![dir] = None]
     \/ Fails /\ UNCHANGED binary
  /\ UNCHANGED <<conf, part>>

Killed ==
  /\ "kill" \in Faults
  /\ cpc # "idle"
  /\ Exits("failed")
  /\ UNCHANGED <<conf, part, binary>>

\* The editor rewrites credsStore on reconnect; docker logs in or out of a registry;
\* somebody sets another helper, or none, for one that is not ours: at any moment.
OthersWrite ==
  /\ \/ \E s \in Store \cup {None} : conf' = [conf EXCEPT !.store = s]
     \/ \E r \in Registry :
          \/ \E l \in {{}, {r}} : conf' = [conf EXCEPT !.auths = (@ \ {r}) \cup l]
          \/ /\ conf.helpers[r] # "ours"
             /\ \E h \in {None, "other"} : conf' = [conf EXCEPT !.helpers[r] = h]
  /\ UNCHANGED <<part, binary, command>>

Work == Install \/ Link \/ Edit \/ WritePart \/ RemoveConfig \/ Replace \/ Unlink

DCNext == Call \/ Work \/ Killed \/ OthersWrite

DCSpec == DCInit /\ [][DCNext]_dcvars
-----------------------------------------------------------------------------
(* Properties                                                              *)

DCTypeOK ==
  /\ conf \in Config /\ part \in Config \cup {None}
  /\ binary \in [Dir -> {None, "here", "old", "empty"}]
  /\ cpc \in {"idle", "install", "link", "edit", "write", "remove", "rename", "unlink"}
  /\ (cpc = "idle") = (verb = None) /\ (cpc = "idle") = (reg = None)
  /\ reg \in setting.managed \cup {None} /\ dir \in setting.dirs \cup {None}
  /\ exit \in {None, "ok", "failed"} /\ astray \in BOOLEAN
  /\ cpc \in {"write", "remove", "rename"} => mine \in Config /\ found \in Config
  /\ cpc = "rename" => part # None

\* "preserving every key it did not touch": what a command puts into config.json
\* concerns its own registry; the credsStore, other helpers and other people's
\* logins are what they were when it read the file, whoever has written since.  (What
\* others wrote since is lost: nothing locks the file.)  On Windows the file is gone
\* between its removal and the rename.
OtherKeysKept ==
  \/ conf' = conf
  \/ setting.windows /\ cpc = "remove" /\ conf' = NoConfig
  \/ /\ conf'.store = found.store
     /\ \A r \in Registry \ {reg} :
          /\ conf'.helpers[r] = found.helpers[r]
          /\ r \in conf'.auths <=> r \in found.auths

\* Docker's lookup ends at this helper.
Finds == \E d \in LookPath(binary) : binary[d] = "here"

\* From a first run on, and for one registry, docker is never told to ask a
\* helper that is not installed anywhere, wherever a command was killed or failed
\* and whatever directories were named.  On Windows, where a re-installation writes
\* the shim anew, one that stops there leaves it empty.  (With two registries an
\* uninstall for one removes the link they share; and a re-installation over the
\* helper of another program that stops in between leaves none.)
HelperBehindEntry ==
  cpc = "idle" /\ ~setting.again /\ (\E r \in Registry : setting.managed = {r}) =>
    \A r \in Registry : conf.helpers[r] = "ours" =>
      \E d \in Dir : binary[d] = "here" \/ (setting.windows /\ binary[d] = "empty")
=============================================================================
