----------------------------- MODULE LoginProofs -----------------------------
(* Theorems about Login, for any registries, realms, docker configurations *)
(* and issuers, and any waits and lifetimes.                               *)
EXTENDS Login, TLAPS

(***************************************************************************)
(* The inductive invariant.                                                *)
(***************************************************************************)

\* The device grant: its poll waits as long as the issuer wants it to.
PaceOK ==
  at \in {"discover", "signin"} =>
    /\ {interval, pause, asks, rest} \subseteq Nat
    /\ pc = "pause" => rest <= pause
    /\ pc \in {"pause", "post"} => asks <= interval

\* What the login knows of the registry, and what it has saved.  A warning was
\* given for a reason.
KnowsOK ==
  /\ site \in Sites
  /\ at \in {"signin", "saved", "helper", "commands"} => expects = site.audience
  /\ at \in {"saved", "helper", "commands"} => cred = site.stamps
  /\ warned => cred = site.stamps /\ site.audience \notin cred
  /\ at \in {"saved", "helper", "commands"} => warned = Warns(site.stamps)

Writing == {"write", "remove", "rename"}

\* A command on docker's configuration: what it was told, and what it has made
\* of the file it read.
DockerOK ==
  at \in {"helper", "commands"} =>
    /\ conf \in DC!Config
    /\ binary \in [Dir -> {None, "here", "old", "empty"}]
    /\ setting \in Settings
    /\ cpc \in {"idle", "install", "link", "edit", "write", "remove", "rename", "unlink"}
    /\ cpc # "idle" => reg \in setting.managed /\ dir \in setting.dirs
    /\ cpc \in {"install", "link"} => verb = "install"
    /\ cpc # "idle" => verb \in {"install", "uninstall"}
    /\ cpc \in Writing =>
         /\ mine \in DC!Config
         /\ verb = "install" => mine.helpers[reg] = "ours"
         /\ verb = "uninstall" => mine.helpers[reg] # "ours"
    /\ cpc = "remove" => setting.windows
    /\ cpc \in {"remove", "rename"} => part = mine
    /\ cpc = "unlink" => conf.helpers[reg] # "ours"
    /\ cpc \in {"edit"} \cup Writing /\ verb = "install" => binary[dir] = "here"

QuietOK == at \notin {"helper", "commands"} => cpc = "idle"

\* The login's own command is an install; one that has succeeded has left the
\* helper and its registration there, and knows whether docker finds it.
FoundOrTold ==
  /\ DC!Finds \/ astray
  /\ astray /\ ~setting.windows => ~DC!Finds
InstallOK ==
  at = "helper" =>
    /\ cpc # "idle" => verb = "install" /\ cpc # "unlink"
    /\ cpc \in {"edit"} \cup Writing => FoundOrTold
    /\ cpc = "idle" /\ exit = "ok" =>
         /\ \E d \in Dir : binary[d] = "here"
         /\ \E r \in setting.managed : conf.helpers[r] = "ours"
         /\ FoundOrTold

\* Only registries that are managed have the helper, and it is there.
Behind(b) == \E d \in Dir : b[d] = "here" \/ (setting.windows /\ b[d] = "empty")
Entered(c) == \A r \in Registry : c.helpers[r] = "ours" => r \in setting.managed
EntryOK ==
  at \in {"helper", "commands"} /\ ~setting.again /\ (\E r \in Registry : setting.managed = {r}) =>
    /\ Entered(conf)
    /\ cpc \in Writing => Entered(mine)
    /\ \A r \in Registry : conf.helpers[r] = "ours" => Behind(binary)

\* What a command is about to write is what it read, but for its own registry.
SameBut(c, d) ==
  /\ c.store = d.store
  /\ \A r \in Registry \ {reg} :
       c.helpers[r] = d.helpers[r] /\ (r \in c.auths <=> r \in d.auths)
ReadOK ==
  at \in {"helper", "commands"} /\ cpc \in Writing => SameBut(mine, found)

LgInv == PaceOK /\ KnowsOK /\ QuietOK /\ DockerOK /\ InstallOK /\ EntryOK /\ ReadOK
-----------------------------------------------------------------------------
(* The sign-in                                                             *)

LEMMA PaceInit == LInit => PaceOK
  BY DEF LInit, SIInit, PaceOK, DefaultInterval

LEMMA PaceStep == PaceOK /\ [LNext]_lvars => PaceOK'
<1> SUFFICES ASSUME PaceOK, [LNext]_lvars, at' \in {"discover", "signin"}
             PROVE  /\ {interval', pause', asks', rest'} \subseteq Nat
                    /\ pc' = "pause" => rest' <= pause'
                    /\ pc' \in {"pause", "post"} => asks' <= interval'
  BY DEF PaceOK
<1>1. CASE UNCHANGED <<signin, at>>
  BY <1>1 DEF signin, sivars, device, PaceOK
<1>2. CASE Discover
  BY <1>2 DEF Discover, signin, sivars, device, PaceOK
<1>3. ASSUME at = "signin", Step \/ Tick \/ Interrupt \/ \E cb \in Callback : Browser(cb)
      PROVE  /\ {interval', pause', asks', rest'} \subseteq Nat
             /\ pc' = "pause" => rest' <= pause'
             /\ pc' \in {"pause", "post"} => asks' <= interval'
  <2>0. /\ interval \in Nat /\ pause \in Nat /\ asks \in Nat /\ rest \in Nat
        /\ pc = "pause" => rest <= pause
        /\ pc \in {"pause", "post"} => asks <= interval
    BY <1>3 DEF PaceOK
  <2>1. CASE UNCHANGED device /\ pc' \notin {"pause", "post"}
    BY <2>0, <2>1 DEF device
  <2>2. CASE UNCHANGED <<device, pc>>
    BY <2>0, <2>2 DEF device
  <2>3. CASE StartDevice
    <3>1. CASE UNCHANGED device /\ pc' = "done"
      BY <3>1, <2>1
    <3>2. CASE \E n \in Nat : interval' = n /\ pause' = n /\ asks' = n /\ rest' = n
      BY <3>2
    <3>3. CASE ~(UNCHANGED device /\ pc' = "done")
      <4>1. PICK i \in Announced :
              LET wanted == IF i = 0 THEN DefaultInterval ELSE i IN
              /\ interval' = wanted /\ pause' = wanted /\ asks' = wanted /\ rest' = wanted
        BY <2>3, <3>3 DEF StartDevice, Ends
      <4>2. i \in Nat
        BY SignInAssumption
      <4> QED
        BY <3>2, <4>1, <4>2 DEF DefaultInterval
    <3> QED
      BY <3>1, <3>3
  <2>4. CASE Poll
    BY <2>0, <2>4 DEF Poll, Ends, Goes, device
  <2>5. CASE Polled
    <3>1. CASE UNCHANGED device /\ pc' = "done"
      BY <3>1, <2>1
    <3>2. CASE Waits(interval) /\ rest' = asks /\ UNCHANGED asks
      BY <2>0, <2>5, <3>2 DEF Polled, Waits, Goes
    <3>3. CASE Waits(interval + SlowDown) /\ asks' = asks + SlowDown /\ rest' = asks'
      BY <2>0, <2>5, <3>3 DEF Polled, Waits, Goes, SlowDown
    <3> QED
      BY <2>5, <3>1, <3>2, <3>3 DEF Polled, Ends
  <2>6. CASE Tick
    <3>1. interval' = interval /\ asks' = asks /\ pc' = pc
      BY <2>6 DEF Tick
    <3>2. rest' = Down(rest) /\ rest' \in Nat
      BY <2>0, <2>6 DEF Tick, Down
    <3>3. pause' \in {pause, Down(pause)} /\ pause' \in Nat
      BY <2>0, <2>6 DEF Tick, Down
    <3>4. pc = "pause" => rest' <= pause'
      BY <2>0, <2>6, <3>2 DEF Tick, Down
    <3> QED
      BY <2>0, <3>1, <3>2, <3>3, <3>4
  <2>7. CASE Start \/ Listen \/ TakeResult \/ TimesOut \/ Judge \/ Exchange
    BY <2>7, <2>1 DEF Start, Listen, TakeResult, TimesOut, Judge, Exchange, Ends, Goes, FallsBack
  <2>8. CASE Interrupt \/ \E cb \in Callback : Browser(cb)
    BY <2>8, <2>2 DEF Interrupt, Browser
  <2> QED
    BY <1>3, <2>3, <2>4, <2>5, <2>6, <2>7, <2>8 DEF Step
<1> QED
  BY <1>1, <1>2, <1>3 DEF LNext, lvars, login, SigningIn, SignedIn, NoHelper, WithHelper,
     Installing, Returns, Commands
-----------------------------------------------------------------------------
(* The login                                                               *)

LEMMA KnowsInit == LInit => KnowsOK
  BY DEF LInit, KnowsOK

LEMMA KnowsStep == KnowsOK /\ [LNext]_lvars => KnowsOK'
<1> SUFFICES ASSUME KnowsOK, [LNext]_lvars PROVE KnowsOK'
  OBVIOUS
<1> USE DEF KnowsOK, Warns
<1>1. CASE UNCHANGED login
  BY <1>1 DEF login
<1>2. CASE Discover
  BY <1>2 DEF Discover, Expected, Document
<1>3. CASE SignedIn
  <2>1. CASE at' = "saved" /\ cred' = site.stamps /\ warned' = Warns(site.stamps)
    <3>1. at = "signin" /\ site' = site /\ expects' = expects /\ expects = site.audience
      BY <1>3 DEF SignedIn
    <3>2. warned' => site'.audience \notin cred'
      BY <2>1, <3>1
    <3> QED
      BY <2>1, <3>1, <3>2
  <2>2. CASE at' = "over" /\ UNCHANGED <<cred, warned>>
    BY <1>3, <2>2 DEF SignedIn
  <2> QED
    BY <1>3, <2>1, <2>2 DEF SignedIn
<1>4. CASE NoHelper
  BY <1>4 DEF NoHelper
<1>5. CASE WithHelper
  BY <1>5 DEF WithHelper
<1>6. CASE Returns
  BY <1>6 DEF Returns
<1> QED
  BY <1>1, <1>2, <1>3, <1>4, <1>5, <1>6 DEF LNext, lvars, SigningIn, Installing, Commands
-----------------------------------------------------------------------------
(* Docker's configuration                                                  *)

LEMMA DockerInit == LInit => QuietOK /\ DockerOK /\ InstallOK /\ EntryOK /\ ReadOK
  BY DEF LInit, DockerUnread, QuietOK, DockerOK, InstallOK, EntryOK, ReadOK

\* A helper that is entered or taken out: what the command makes of the file.
Enters(c, r) == [c EXCEPT !.helpers[r] = "ours", !.auths = @ \ {r}]
Leaves(c, r) == [c EXCEPT !.helpers[r] = None]

LEMMA EditTyped ==
  ASSUME NEW c \in DC!Config, NEW r \in Registry
  PROVE  /\ Enters(c, r) \in DC!Config /\ Enters(c, r).helpers[r] = "ours"
         /\ Leaves(c, r) \in DC!Config /\ Leaves(c, r).helpers[r] = None
         /\ \A d \in {Enters(c, r), Leaves(c, r)} :
              /\ d.store = c.store
              /\ \A q \in Registry \ {r} :
                   d.helpers[q] = c.helpers[q] /\ (q \in d.auths <=> q \in c.auths)
<1>1. c.helpers \in [Registry -> {None, "ours", "other"}]
  BY DEF DC!Config
<1>2. Enters(c, r) \in DC!Config /\ Leaves(c, r) \in DC!Config
  BY DEF DC!Config, Enters, Leaves
<1>3. /\ Enters(c, r).helpers = [c.helpers EXCEPT ![r] = "ours"]
      /\ Enters(c, r).auths = c.auths \ {r}
      /\ Enters(c, r).store = c.store
  BY DEF DC!Config, Enters
<1>4. /\ Leaves(c, r).helpers = [c.helpers EXCEPT ![r] = None]
      /\ Leaves(c, r).auths = c.auths
      /\ Leaves(c, r).store = c.store
  BY DEF DC!Config, Leaves
<1> QED
  BY <1>1, <1>2, <1>3, <1>4

\* What RegisterHelper and UnregisterHelper do.
Edited(d) ==
  /\ d \in DC!Config /\ SameBut(d, conf)
  /\ verb = "install" => d.helpers[reg] = "ours"
  /\ verb = "uninstall" => d.helpers[reg] # "ours"

LEMMA EditMakes ==
  ASSUME conf \in DC!Config, reg \in Registry, DC!Edit
  PROVE  \/ cpc' = "idle"
         \/ DC!DGoto("unlink") /\ conf.helpers[reg] # "ours"
         \/ /\ cpc' = "write" /\ UNCHANGED <<verb, reg, dir, astray, exit, setting>>
            /\ Edited(mine') /\ found' = conf
<1>1. verb = "install" => Edited(Enters(conf, reg))
  BY EditTyped DEF Edited, SameBut
<1>2. verb = "uninstall" => Edited(Leaves(conf, reg))
  BY EditTyped, LoginAssumption DEF Edited, SameBut
<1> QED
  BY <1>1, <1>2 DEF DC!Edit, DC!Return, DC!Fails, DC!Exits, Enters, Leaves

\* The registries that are managed are registries.
LEMMA Managed ==
  ASSUME DockerOK, at \in {"helper", "commands"}
  PROVE  /\ setting.managed \subseteq Registry /\ (cpc # "idle" => reg \in Registry)
         /\ setting.dirs \subseteq Dir /\ (cpc # "idle" => dir \in Dir)
  BY LoginAssumption DEF DockerOK

\* The helper installation begins.
LEMMA DockerFound ==
  ASSUME WithHelper
  PROVE  DockerOK' /\ InstallOK' /\ EntryOK' /\ ReadOK'
<1>1. /\ setting' \in Settings /\ conf' \in DC!Config /\ reg' \in setting'.managed
      /\ cpc' = "install" /\ verb' = "install" /\ at' = "helper"
      /\ setting'.again \/ \A r \in Registry : conf'.helpers[r] # "ours"
      /\ dir' \in setting'.dirs
  BY DEF WithHelper, DC!FoundConfigs
<1>2. binary' \in [Dir -> {None, "here", "old", "empty"}]
  BY DEF WithHelper, DC!FoundBinaries
<1> QED
  BY <1>1, <1>2 DEF DockerOK, InstallOK, EntryOK, Entered, ReadOK, Writing

LEMMA NoConfigTyped ==
  DC!NoConfig \in DC!Config /\ \A r \in Registry : DC!NoConfig.helpers[r] # "ours"
  BY LoginAssumption DEF DC!NoConfig, DC!Config

\* Nobody else enters our helper, or takes it out.
LEMMA OthersChange ==
  ASSUME conf \in DC!Config, DC!OthersWrite
  PROVE  /\ conf' \in DC!Config
         /\ \A r \in Registry : conf'.helpers[r] = "ours" <=> conf.helpers[r] = "ours"
<1>1. conf.helpers \in [Registry -> {None, "ours", "other"}]
  BY DEF DC!Config
<1>2. ASSUME NEW s \in Store \cup {None}, conf' = [conf EXCEPT !.store = s]
      PROVE  conf' \in DC!Config /\ conf'.helpers = conf.helpers
  BY <1>2 DEF DC!Config
<1>3. ASSUME NEW r \in Registry, NEW l \in {{}, {r}},
             conf' = [conf EXCEPT !.auths = (@ \ {r}) \cup l]
      PROVE  conf' \in DC!Config /\ conf'.helpers = conf.helpers
  BY <1>3 DEF DC!Config
<1>4. ASSUME NEW r \in Registry, NEW h \in {None, "other"}, conf.helpers[r] # "ours",
             conf' = [conf EXCEPT !.helpers[r] = h]
      PROVE  /\ conf' \in DC!Config
             /\ \A q \in Registry : conf'.helpers[q] = "ours" <=> conf.helpers[q] = "ours"
  <2>1. conf' \in DC!Config
    BY <1>4 DEF DC!Config
  <2>2. conf'.helpers = [conf.helpers EXCEPT ![r] = h]
    BY <1>4 DEF DC!Config
  <2>3. h # "ours"
    BY LoginAssumption
  <2> QED
    BY <1>1, <1>4, <2>1, <2>2, <2>3
<1> QED
  BY <1>2, <1>3, <1>4 DEF DC!OthersWrite

LEMMA DockerStep ==
  ASSUME DockerOK, at \in {"helper", "commands"}, at' \in {"helper", "commands"}, DC!DCNext
  PROVE  DockerOK'
<1> USE Managed, LoginAssumption DEF DockerOK, Writing
<1>1. CASE DC!Call
  BY <1>1 DEF DC!Call
<1>2. CASE DC!Install
  BY <1>2 DEF DC!Install, DC!Placed, DC!DGoto, DC!Fails, DC!Exits
<1>3. CASE DC!Link
  BY <1>3 DEF DC!Link, DC!Placed, DC!Fails, DC!Exits
<1>4. CASE DC!Edit
  <2>1. conf' = conf /\ part' = part /\ binary' = binary /\ setting' = setting /\ cpc = "edit"
    BY <1>4 DEF DC!Edit, DC!DGoto, DC!Return, DC!Fails, DC!Exits
  <2>2. CASE cpc' = "idle"
    BY <2>1, <2>2
  <2>3. CASE DC!DGoto("unlink") /\ conf.helpers[reg] # "ours"
    BY <2>1, <2>3 DEF DC!DGoto
  <2>4. CASE cpc' = "write" /\ UNCHANGED <<verb, reg, dir, exit, setting>> /\ Edited(mine')
    BY <2>1, <2>4 DEF Edited
  <2>5. conf \in DC!Config /\ reg \in Registry
    BY <2>1
  <2> QED
    BY <1>4, <2>2, <2>3, <2>4, <2>5, EditMakes
<1>5. CASE DC!WritePart
  BY <1>5 DEF DC!WritePart, DC!DGoto, DC!Fails, DC!Exits
<1>6. CASE DC!Replace
  BY <1>6 DEF DC!Replace, DC!Return, DC!DGoto, DC!Fails, DC!Exits
<1>7. CASE DC!Unlink
  BY <1>7 DEF DC!Unlink, DC!Return, DC!Fails, DC!Exits
<1>8. CASE DC!Killed
  BY <1>8 DEF DC!Killed, DC!Exits
<1>9. CASE DC!OthersWrite
  BY <1>9, OthersChange DEF DC!OthersWrite, DC!command
<1>10. CASE DC!RemoveConfig
  BY <1>10, NoConfigTyped DEF DC!RemoveConfig, DC!DGoto
<1> QED
  BY <1>1, <1>2, <1>3, <1>4, <1>5, <1>6, <1>7, <1>8, <1>9, <1>10 DEF DC!DCNext, DC!Work

\* Install looks for the helper the way docker does.
LEMMA PlacedIsFound ==
  ASSUME DC!Placed, setting' = setting, binary'[dir] = "here"
  PROVE  FoundOrTold'
<1>1. astray' = ~DC!OnPath(binary') /\ DC!LookPath(binary)' = DC!LookPath(binary')
  BY DEF DC!Placed, DC!LookPath
<1>2. DC!OnPath(binary') => \E d \in DC!LookPath(binary') : binary'[d] = "here"
  BY DEF DC!OnPath
<1>3. ~setting.windows /\ (\E d \in DC!LookPath(binary') : binary'[d] = "here") =>
        DC!OnPath(binary')
  BY DEF DC!OnPath
<1> QED
  BY <1>1, <1>2, <1>3 DEF FoundOrTold, DC!Finds

LEMMA InstallStep ==
  ASSUME DockerOK, InstallOK, at = "helper", at' = "helper",
         DC!Work \/ DC!Killed \/ DC!OthersWrite
  PROVE  InstallOK'
<1> USE DEF InstallOK, Writing
<1>a. ASSUME UNCHANGED <<binary, setting, astray>>, FoundOrTold
      PROVE  FoundOrTold'
  BY <1>a DEF FoundOrTold, DC!Finds, DC!LookPath
<1>b. ASSUME DC!Placed, setting' = setting, binary'[dir] = "here", dir \in Dir
      PROVE  FoundOrTold'
  BY <1>b, PlacedIsFound
<1>1. CASE DC!Install
  <2>1. CASE DC!DGoto("link") \/ DC!Fails
    BY <1>1, <2>1 DEF DC!Install, DC!DGoto, DC!Fails, DC!Exits, DockerOK
  <2>2. CASE DC!Placed /\ binary' = binary /\ binary[dir] = "here"
    <3>1. dir \in Dir /\ verb = "install" /\ setting' = setting
      BY <1>1, <2>2, Managed DEF DC!Install, DC!Placed
    <3>2. FoundOrTold'
      BY <1>b, <2>2, <3>1
    <3> QED
      BY <2>2, <3>1, <3>2 DEF DC!Placed
  <2> QED
    BY <1>1, <2>1, <2>2 DEF DC!Install
<1>2. CASE DC!Link
  <2>1. CASE DC!Fails
    BY <2>1 DEF DC!Fails, DC!Exits
  <2>2. CASE DC!Placed /\ binary' = [binary EXCEPT ![dir] = "here"]
    <3>1. dir \in Dir /\ verb = "install" /\ setting' = setting /\ binary'[dir] = "here"
      BY <1>2, <2>2, Managed DEF DC!Link, DC!Placed, DockerOK
    <3>2. FoundOrTold'
      BY <1>b, <2>2, <3>1
    <3> QED
      BY <2>2, <3>1, <3>2 DEF DC!Placed
  <2> QED
    BY <1>2, <2>1, <2>2 DEF DC!Link
<1>3. CASE DC!Edit
  <2>1. conf' = conf /\ UNCHANGED <<binary, setting, astray>> /\ cpc = "edit"
        /\ verb = "install" /\ binary[dir] = "here" /\ reg \in setting.managed /\ dir \in Dir
    BY <1>3, Managed DEF DC!Edit, DC!DGoto, DC!Return, DC!Fails, DC!Exits, DockerOK
  <2>2. FoundOrTold'
    BY <1>a, <2>1
  <2>3. CASE DC!Return /\ conf.helpers[reg] = "ours"
    BY <2>1, <2>2, <2>3 DEF DC!Return, DC!Exits
  <2>4. CASE DC!Fails
    BY <2>1, <2>4 DEF DC!Fails, DC!Exits
  <2>5. CASE cpc' = "write" /\ verb' = verb
    BY <2>1, <2>2, <2>5
  <2> QED
    BY <1>3, <2>1, <2>3, <2>4, <2>5 DEF DC!Edit
<1>4. CASE DC!WritePart \/ DC!RemoveConfig
  <2>1. (cpc' = "idle" /\ exit' = "failed") \/ (cpc' \in Writing /\ verb' = verb)
    BY <1>4 DEF DC!WritePart, DC!RemoveConfig, DC!DGoto, DC!Fails, DC!Exits
  <2>2. UNCHANGED <<binary, setting, astray>> /\ cpc \in Writing
    BY <1>4 DEF DC!WritePart, DC!RemoveConfig, DC!DGoto, DC!Fails, DC!Exits
  <2> QED
    BY <1>a, <2>1, <2>2
<1>5. CASE DC!Replace
  <2>1. /\ cpc = "rename" /\ verb = "install" /\ binary[dir] = "here" /\ dir \in Dir
        /\ UNCHANGED <<binary, setting, astray>>
        /\ part.helpers[reg] = "ours" /\ reg \in setting.managed
    BY <1>5, Managed DEF DC!Replace, DC!Return, DC!DGoto, DC!Fails, DC!Exits, DockerOK
  <2>2. FoundOrTold'
    BY <1>a, <2>1
  <2> QED
    BY <1>5, <2>1, <2>2 DEF DC!Replace, DC!Return, DC!Fails, DC!Exits
<1>6. CASE DC!Unlink
  BY <1>6 DEF DC!Unlink
<1>7. CASE DC!Killed
  BY <1>7 DEF DC!Killed, DC!Exits
<1>8. CASE DC!OthersWrite
  <2>1. UNCHANGED <<binary, verb, cpc, astray, exit, setting>>
    BY <1>8 DEF DC!OthersWrite, DC!command
  <2>2. \A r \in Registry : conf.helpers[r] = "ours" => conf'.helpers[r] = "ours"
    BY <1>8, OthersChange DEF DockerOK
  <2>3. setting.managed \subseteq Registry
    BY Managed
  <2> QED
    BY <1>a, <2>1, <2>2, <2>3
<1> QED
  BY <1>1, <1>2, <1>3, <1>4, <1>5, <1>6, <1>7, <1>8 DEF DC!Work

LEMMA EntryStep ==
  ASSUME DockerOK, EntryOK, at \in {"helper", "commands"}, at' \in {"helper", "commands"},
         DC!DCNext
  PROVE  EntryOK'
<1>0. setting' = setting
  BY DEF DC!DCNext, DC!Call, DC!Work, DC!Install, DC!Link, DC!Placed, DC!Edit, DC!WritePart,
     DC!RemoveConfig, DC!Replace, DC!Unlink, DC!Killed, DC!OthersWrite, DC!command, DC!DGoto,
     DC!Return, DC!Fails, DC!Exits
<1> SUFFICES ASSUME ~setting.again, NEW m \in Registry, setting.managed = {m}
             PROVE  /\ Entered(conf)'
                    /\ cpc' \in Writing => Entered(mine)'
                    /\ \A r \in Registry : conf'.helpers[r] = "ours" => Behind(binary)'
  BY <1>0 DEF EntryOK
<1>a. /\ Entered(conf)
      /\ cpc \in Writing => Entered(mine)
      /\ \A r \in Registry : conf.helpers[r] = "ours" => Behind(binary)
  BY DEF EntryOK
<1>b. ASSUME binary' = binary PROVE Behind(binary)' = Behind(binary)
  BY <1>0, <1>b DEF Behind
<1>c. ASSUME UNCHANGED <<conf, binary>>, cpc' \in Writing => cpc \in Writing /\ mine' = mine
      PROVE  /\ Entered(conf)'
             /\ cpc' \in Writing => Entered(mine)'
             /\ \A r \in Registry : conf'.helpers[r] = "ours" => Behind(binary)'
  BY <1>0, <1>a, <1>b, <1>c DEF Entered
<1>d. ASSUME NEW p \in {"here", "empty"}, p = "empty" => setting.windows,
             binary' = [binary EXCEPT ![dir] = p], dir \in Dir
      PROVE  Behind(binary)'
  <2>1. binary'[dir] = p
    BY <1>d DEF DockerOK
  <2> QED
    BY <1>0, <1>d, <2>1 DEF Behind
<1>1. CASE DC!Call \/ DC!WritePart \/ DC!Killed
  BY <1>1, <1>c DEF DC!Call, DC!WritePart, DC!Killed, DC!DGoto, DC!Fails, DC!Exits, Writing
<1>2. CASE DC!Install
  <2>1. conf' = conf /\ cpc' \notin Writing /\ dir \in Dir
    BY <1>2, Managed DEF DC!Install, DC!Placed, DC!DGoto, DC!Fails, DC!Exits, Writing
  <2>2. CASE binary' = binary
    BY <1>c, <2>1, <2>2
  <2>3. CASE setting.windows /\ binary' = [binary EXCEPT ![dir] = "empty"]
    BY <1>0, <1>a, <1>d, <2>1, <2>3 DEF Entered
  <2>4. CASE ~setting.windows /\ binary[dir] # "here" /\ binary' = [binary EXCEPT ![dir] = None]
    <3>1. Behind(binary) => Behind(binary)'
      BY <1>0, <2>1, <2>4 DEF Behind, DockerOK
    <3> QED
      BY <1>0, <1>a, <2>1, <3>1 DEF Entered
  <2> QED
    BY <1>2, <2>2, <2>3, <2>4 DEF DC!Install
<1>3. CASE DC!Link
  <2>1. conf' = conf /\ cpc' \notin Writing /\ dir \in Dir
    BY <1>3, Managed DEF DC!Link, DC!Placed, DC!Fails, DC!Exits, Writing
  <2>2. CASE binary' = binary
    BY <1>c, <2>1, <2>2
  <2>3. CASE binary' = [binary EXCEPT ![dir] = "here"]
    BY <1>0, <1>a, <1>d, <2>1, <2>3 DEF Entered
  <2> QED
    BY <1>3, <2>2, <2>3 DEF DC!Link
<1>4. CASE DC!Edit
  <2>1. /\ conf' = conf /\ binary' = binary /\ reg \in Registry /\ reg = m
        /\ conf \in DC!Config
    BY <1>4, Managed DEF DC!Edit, DockerOK
  <2>2. cpc' \in Writing => Edited(mine')
    BY <1>4, <2>1, EditMakes DEF DC!DGoto, Writing
  <2> QED
    BY <1>0, <1>a, <1>b, <2>1, <2>2 DEF Edited, SameBut, Entered
<1>5. CASE DC!RemoveConfig
  <2>1. /\ conf' = conf \/ conf' = DC!NoConfig
        /\ binary' = binary /\ mine' = mine /\ cpc \in Writing
    BY <1>5 DEF DC!RemoveConfig, DC!DGoto, Writing
  <2>2. CASE conf' = conf
    BY <1>c, <2>1, <2>2
  <2>3. CASE conf' = DC!NoConfig
    BY <1>0, <1>a, <2>1, <2>3, NoConfigTyped DEF Entered
  <2> QED
    BY <2>1, <2>2, <2>3
<1>6. CASE DC!Replace
  <2>1. cpc = "rename" /\ part = mine /\ binary' = binary /\ reg = m /\ dir \in Dir
    BY <1>6, Managed DEF DC!Replace, DockerOK
  <2>2. verb = "install" => Behind(binary)
    BY <2>1 DEF DockerOK, Behind, Writing
  <2>3. verb = "uninstall" => mine.helpers[m] # "ours"
    BY <2>1 DEF DockerOK, Writing
  <2>4. verb \in {"install", "uninstall"} /\ cpc' \notin Writing
    BY <1>6, <2>1 DEF DockerOK, DC!Replace, DC!DGoto, DC!Return, DC!Fails, DC!Exits, Writing
  <2>5. CASE conf' = conf
    BY <1>c, <2>1, <2>4, <2>5
  <2>6. CASE conf' = mine
    BY <1>0, <1>a, <1>b, <2>1, <2>2, <2>3, <2>4, <2>6 DEF Entered, Writing
  <2> QED
    BY <1>6, <2>1, <2>5, <2>6 DEF DC!Replace
<1>7. CASE DC!Unlink
  <2>1. cpc = "unlink" /\ conf' = conf /\ reg = m /\ conf.helpers[reg] # "ours"
    BY <1>7 DEF DC!Unlink, DockerOK
  <2>2. cpc' = "idle"
    BY <1>7 DEF DC!Unlink, DC!Return, DC!Fails, DC!Exits
  <2> QED
    BY <1>0, <1>a, <2>1, <2>2 DEF Entered, Writing
<1>8. CASE DC!OthersWrite
  <2>1. UNCHANGED <<binary, cpc, mine>>
    BY <1>8 DEF DC!OthersWrite, DC!command
  <2> QED
    BY <1>0, <1>a, <1>b, <1>8, <2>1, OthersChange DEF Entered, DockerOK
<1> QED
  BY <1>1, <1>2, <1>3, <1>4, <1>5, <1>6, <1>7, <1>8 DEF DC!DCNext, DC!Work

LEMMA ReadStep ==
  ASSUME DockerOK, ReadOK, at \in {"helper", "commands"}, at' \in {"helper", "commands"},
         DC!DCNext
  PROVE  ReadOK'
<1> SUFFICES ASSUME cpc' \in Writing
             PROVE  SameBut(mine, found)'
  BY DEF ReadOK
<1>1. CASE DC!Edit
  <2>1. conf \in DC!Config /\ reg \in Registry
    BY <1>1, Managed DEF DC!Edit, DockerOK
  <2>2. Edited(mine') /\ found' = conf /\ reg' = reg
    BY <1>1, <2>1, EditMakes DEF DC!DGoto, DC!Edit, Writing
  <2> QED
    BY <2>2 DEF Edited, SameBut
<1>2. CASE DC!WritePart \/ DC!RemoveConfig \/ DC!OthersWrite
  <2>1. SameBut(mine, found) /\ UNCHANGED <<mine, found, reg>>
    BY <1>2 DEF ReadOK, DC!WritePart, DC!RemoveConfig, DC!OthersWrite, DC!command, DC!DGoto,
       DC!Fails, DC!Exits, Writing
  <2> QED
    BY <2>1 DEF SameBut
<1>3. ~(DC!Call \/ DC!Install \/ DC!Link \/ DC!Replace \/ DC!Unlink \/ DC!Killed)
  BY DEF DC!Call, DC!Install, DC!Link, DC!Placed, DC!Replace, DC!Unlink, DC!Killed, DC!DGoto,
     DC!Return, DC!Fails, DC!Exits, Writing
<1> QED
  BY <1>1, <1>2, <1>3 DEF DC!DCNext, DC!Work
-----------------------------------------------------------------------------
(* The theorems                                                            *)

LEMMA LgInvInit == LInit => LgInv
  BY PaceInit, KnowsInit, DockerInit DEF LgInv

LEMMA LgInvStep == LgInv /\ [LNext]_lvars => LgInv'
<1> SUFFICES ASSUME LgInv, [LNext]_lvars PROVE LgInv'
  OBVIOUS
<1>0. QuietOK'
  BY DEF LgInv, QuietOK, LNext, lvars, docker, login, SigningIn, Discover, SignedIn, NoHelper,
     WithHelper, Installing, Returns, Commands
<1>1. PaceOK' /\ KnowsOK'
  BY PaceStep, KnowsStep DEF LgInv
<1>2. CASE UNCHANGED <<docker, at>>
  BY <1>0, <1>1, <1>2 DEF LgInv, docker, DockerOK, InstallOK, EntryOK, Entered, ReadOK, SameBut,
       FoundOrTold, Behind, DC!Finds, DC!LookPath
<1>3. CASE WithHelper
  BY <1>0, <1>1, <1>3, DockerFound DEF LgInv
<1>4. CASE Installing
  <2>1. at = "helper" /\ at' = "helper" /\ (DC!Work \/ DC!Killed \/ DC!OthersWrite)
    BY <1>4 DEF Installing, login
  <2>2. DC!DCNext
    BY <2>1 DEF DC!DCNext
  <2> QED
    BY <1>0, <1>1, <2>1, <2>2, DockerStep, InstallStep, EntryStep, ReadStep DEF LgInv
<1>5. CASE Commands
  <2>1. at = "commands" /\ at' = "commands" /\ DC!DCNext
    BY <1>5 DEF Commands, login
  <2> QED
    BY <1>0, <1>1, <2>1, DockerStep, EntryStep, ReadStep DEF LgInv, InstallOK
<1>6. CASE Returns
  <2>1. at = "helper" /\ at' = "commands" /\ UNCHANGED docker
    BY <1>6 DEF Returns
  <2> QED
    BY <1>0, <1>1, <2>1 DEF LgInv, docker, DockerOK, InstallOK, EntryOK, Entered, ReadOK, SameBut,
       FoundOrTold, Behind, DC!Finds, DC!LookPath
<1>7. CASE at' \notin {"helper", "commands"}
  BY <1>0, <1>1, <1>7 DEF LgInv, DockerOK, InstallOK, EntryOK, ReadOK
<1> QED
  BY <1>2, <1>3, <1>4, <1>5, <1>6, <1>7 DEF LNext, lvars, login, Discover, SignedIn, NoHelper,
     SigningIn

LEMMA Invariant == LSpec => []LgInv
  BY LgInvInit, LgInvStep, PTL DEF LSpec

\* runLogin: whatever the registry, its realm and docker's configuration are like, and
\* whatever directory the helper goes to, a login that ends well has saved a credential
\* and left the helper behind its entry, says so when docker will not find it there, and
\* warns of a token that would be refused, of no other.
THEOREM LoginsAreTrue == LSpec => []LoginTellsTheTruth
<1>1. LgInv => LoginTellsTheTruth
  <2> SUFFICES ASSUME LgInv PROVE LoginTellsTheTruth
    OBVIOUS
  <2>1. site.stamps # None
    BY LoginAssumption DEF LgInv, KnowsOK
  <2>2. ASSUME at = "helper", cpc = "idle", exit = "ok"
        PROVE  /\ cred # None
               /\ \E d \in Dir : binary[d] = "here"
               /\ \E r \in setting.managed : conf.helpers[r] = "ours"
               /\ FoundOrTold
               /\ RegistryAccepts(cred) \/ warned
    BY <2>1, <2>2 DEF LgInv, KnowsOK, InstallOK, Warns, RegistryAccepts
  <2>3. ASSUME warned, ~site.acceptsParty PROVE ~RegistryAccepts(cred)
    BY <2>3 DEF LgInv, KnowsOK, RegistryAccepts, Warns
  <2> QED
    BY <2>2, <2>3 DEF LoginTellsTheTruth, FoundOrTold
<1> QED
  BY <1>1, Invariant, PTL

\* Install and uninstall: however many commands run one after the other, wherever
\* they stop, in whatever directories and whatever docker writes, docker asks no helper
\* that is not there.
THEOREM HelpersStay == LSpec => []HelperBehindEntry
<1>1. LgInv => HelperBehindEntry
  BY LoginAssumption DEF LgInv, EntryOK, Behind, HelperBehindEntry, DC!HelperBehindEntry
<1> QED
  BY <1>1, Invariant, PTL

\* PollDevice: for any interval an issuer announces, and however often it asks for
\* more time, no poll comes before it may.
THEOREM PollsArePolite == LSpec => NeverHammers
<1>1. LgInv /\ [LNext]_lvars => [pc = "pause" /\ pc' = "post" => rest = 0]_sivars
  <2> SUFFICES ASSUME LgInv, [LNext]_lvars, pc = "pause", pc' = "post"
               PROVE  rest = 0
    OBVIOUS
  <2>1. at = "signin" /\ pause = 0
    BY DEF LNext, lvars, signin, sivars, SigningIn, Discover, SignedIn, NoHelper, WithHelper,
       Installing, Returns, Commands, SignInForgotten, Step, Start, Listen, TakeResult,
       TimesOut, Judge, Exchange, StartDevice, Poll, Polled, Tick, Interrupt, Browser, Ends, Goes
  <2> QED
    BY <2>1 DEF LgInv, PaceOK
<1> QED
  BY <1>1, Invariant, PTL DEF LSpec, NeverHammers

\* Read, RegisterHelper, UnregisterHelper, Write: for any file, any registries and
\* whoever else writes, every key that a command did not mean to change is put back as
\* the command found it (on Windows the file is gone in between).
THEOREM OtherKeysStay == LSpec => KeepsOtherKeys
<1>1. LgInv /\ [LNext]_lvars => [DC!Work => DC!OtherKeysKept]_lvars
  <2> SUFFICES ASSUME LgInv, [LNext]_lvars, ~UNCHANGED lvars, DC!Work
               PROVE  DC!OtherKeysKept
    OBVIOUS
  <2>1. CASE conf' = conf
    BY <2>1 DEF DC!OtherKeysKept
  <2>2. CASE conf' = part /\ cpc = "rename" /\ at \in {"helper", "commands"}
    BY <2>2 DEF LgInv, DockerOK, ReadOK, SameBut, Writing, DC!OtherKeysKept
  <2>3. CASE conf' = DC!NoConfig /\ cpc = "remove" /\ at \in {"helper", "commands"}
    BY <2>3 DEF LgInv, DockerOK, DC!OtherKeysKept
  <2>4. conf' # conf => WithHelper \/ at \in {"helper", "commands"}
    BY DEF LNext, lvars, docker, SigningIn, Discover, SignedIn, NoHelper, Installing, Returns,
       Commands
  <2>5. \/ conf' = conf
        \/ conf' = part /\ cpc = "rename"
        \/ conf' = DC!NoConfig /\ cpc = "remove"
    BY DEF DC!Work, DC!Install, DC!Link, DC!Edit, DC!WritePart, DC!RemoveConfig, DC!Replace,
       DC!Unlink
  <2> QED
    BY <2>1, <2>2, <2>3, <2>4, <2>5 DEF WithHelper, LgInv, QuietOK
<1> QED
  BY <1>1, Invariant, PTL DEF LSpec, KeepsOtherKeys
==============================================================================
