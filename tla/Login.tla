-------------------------------- MODULE Login --------------------------------
(***************************************************************************)
(* agent-registry login as a whole: runLogin of internal/cli/auth.go.  It  *)
(* asks the registry where to sign in (internal/login/discovery.go and     *)
(* internal/server/wellknown.go), signs in (module SignIn), saves the      *)
(* credential, judges whether the registry will take it, and installs the  *)
(* credential helper (module DockerConfig).  Afterwards the helper is      *)
(* installed and uninstalled again by commands of their own.               *)
(*                                                                         *)
(* Nothing reads docker's configuration before the helper is installed, so *)
(* what others have made of it is chosen then.                             *)
(***************************************************************************)
EXTENDS SignIn

CONSTANTS Registry, Dir, Settings, Store, Faults,  \* see DockerConfig
          Host,     \* names a registry may be known by
          Sites     \* registries and their realms, see site

ASSUME LoginAssumption ==
  /\ Dir \subseteq Nat
  /\ \A s \in Settings : /\ s.managed \in SUBSET Registry
                        /\ {s.dirs, s.path} \subseteq SUBSET Dir
                        /\ {s.again, s.windows} \subseteq BOOLEAN
  /\ Faults \subseteq {"kill", "fail"}
  /\ \A s \in Sites : /\ s.armed \in BOOLEAN /\ s.acceptsParty \in BOOLEAN
                      /\ {s.url, s.audience} \subseteq Host /\ s.stamps \subseteq Host
                      /\ s.stamps # None
  /\ None \notin {"here", "empty", "ours"}

VARIABLES
  conf, part, binary, verb, reg, dir, cpc, mine, found, astray, exit, setting,
             \* see DockerConfig
  at,        \* where the login is
  site,      \* never changed: whether sign-in is armed, the host of the public
             \* URL, the audience that is required, whether a token of the CLI's
             \* client will do without it, and the audiences the realm stamps
  expects,   \* the audience the registry's document names
  cred,      \* audiences of the credential that is saved, or None
  warned     \* the user was told that the token will be refused

DC == INSTANCE DockerConfig

signin == sivars
docker ==
  <<conf, part, binary, verb, reg, dir, cpc, mine, found, astray, exit, setting>>
login == <<at, site, expects, cred, warned>>
lvars == <<signin, docker, login>>

\* docker's side before anybody looks at it.
DockerUnread ==
  /\ conf = None /\ part = None /\ binary = None /\ verb = None /\ reg = None
  /\ dir = None /\ cpc = "idle" /\ mine = None /\ found = None /\ astray = FALSE
  /\ exit = None /\ setting = None

LInit ==
  /\ SIInit
  /\ DockerUnread
  /\ at = "discover"
  /\ site \in Sites
  /\ expects = None /\ cred = None /\ warned = FALSE

\* What is left of a sign-in that is over.
SignInForgotten ==
  /\ mode' = "none" /\ pc' = "done" /\ outcome' = "error"
  /\ results' = None /\ res' = None /\ left' = 0
  /\ interval' = 0 /\ pause' = 0 /\ ttl' = 0 /\ interrupted' = FALSE /\ asks' = 0 /\ rest' = 0
-----------------------------------------------------------------------------
\* handleProtectedResourceMetadata.
Document == [audience |-> site.audience, resource |-> site.url]

\* Mutation: the audience is guessed from the resource.
ExpectedResource(d) == d.resource

\* The resource's own word on what it requires beats guessing from its URL.
Expected(d) == d.audience

\* FetchDiscovery: the challenge names the document, or the well-known path
\* does; no answer, or none that is armed, ends the login.
Discover ==
  /\ at = "discover"
  /\ \/ site.armed /\ at' = "signin" /\ expects' = Expected(Document) /\ UNCHANGED signin
     \/ at' = "over" /\ SignInForgotten /\ UNCHANGED expects
  /\ UNCHANGED <<docker, site, cred, warned>>

\* One step of SignIn, of the clock or of those around it.
SigningIn(A) == at = "signin" /\ A /\ UNCHANGED <<docker, login>>

\* Not HasRegistryAudience.
Warns(auds) == expects \notin auds

\* The credential is saved; then its audiences are looked at.
SignedIn ==
  /\ at = "signin"
  /\ pc = "done"
  /\ \/ outcome = "signedin" /\ at' = "saved" /\ cred' = site.stamps /\ warned' = Warns(site.stamps)
     \/ at' = "over" /\ UNCHANGED <<cred, warned>>
  /\ SignInForgotten
  /\ UNCHANGED <<docker, site, expects>>

\* --no-helper, no terminal to ask on, or an answer that is no.
NoHelper ==
  /\ at = "saved"
  /\ at' = "over"
  /\ UNCHANGED <<signin, docker, site, expects, cred, warned>>

\* installCredentialHelper begins, in whatever configuration there is by now.
WithHelper ==
  /\ at = "saved"
  /\ at' = "helper"
  /\ setting' \in Settings
  /\ conf' \in DC!FoundConfigs(setting')
  /\ binary' \in DC!FoundBinaries(setting')
  /\ verb' = "install" /\ cpc' = "install"
  /\ reg' \in setting'.managed /\ dir' \in setting'.dirs
  /\ UNCHANGED <<signin, part, mine, found, astray, exit, site, expects, cred, warned>>

Installing ==
  /\ at = "helper"
  /\ DC!Work \/ DC!Killed \/ DC!OthersWrite
  /\ UNCHANGED <<signin, login>>

\* The login returns; credential-helper is run from now on.
Returns ==
  /\ at = "helper"
  /\ cpc = "idle"
  /\ at' = "commands"
  /\ UNCHANGED <<signin, docker, site, expects, cred, warned>>

Commands ==
  /\ at = "commands"
  /\ DC!DCNext
  /\ UNCHANGED <<signin, login>>

LNext ==
  \/ Discover \/ SignedIn \/ NoHelper \/ WithHelper \/ Installing \/ Returns \/ Commands
  \/ SigningIn(Step) \/ SigningIn(Tick) \/ SigningIn(Interrupt)
  \/ \E cb \in Callback : SigningIn(Browser(cb))

\* As in SignIn: the program is scheduled, timers fire, requests are answered or
\* given up; nothing is assumed of the human.
LSpec ==
  /\ LInit /\ [][LNext]_lvars
  /\ WF_lvars(SigningIn(Step)) /\ WF_lvars(SigningIn(Tick)) /\ WF_lvars(Discover)
-----------------------------------------------------------------------------
(* Properties                                                              *)

\* The verdict of the registry on the audience of a token (Verify with the
\* check that AcceptAuthorizedParty arms; azp is the CLI's client).
RegistryAccepts(auds) == site.audience \in auds \/ site.acceptsParty

\* A login that ends with "Try it: docker pull" has saved a credential, has
\* registered the helper and installed it; docker's lookup ends at it, or the user
\* was told that it does not; and the registry takes the token, or the user was
\* warned.  The warnings do not cry wolf (wellknown.go, install.go), unless the
\* registry was told to do without the audience, or another of our shims comes first
\* on a Windows PATH.
LoginTellsTheTruth ==
  /\ at = "helper" /\ cpc = "idle" /\ exit = "ok" =>
       /\ cred # None
       /\ \E d \in Dir : binary[d] = "here"
       /\ \E r \in setting.managed : conf.helpers[r] = "ours"
       /\ DC!Finds \/ astray
       /\ astray /\ ~setting.windows => ~DC!Finds
       /\ RegistryAccepts(cred) \/ warned
  /\ warned /\ ~site.acceptsParty => ~RegistryAccepts(cred)

\* See DockerConfig.
HelperBehindEntry == at \in {"helper", "commands"} => DC!HelperBehindEntry

\* See DockerConfig.
KeepsOtherKeys == [][DC!Work => DC!OtherKeysKept]_lvars
=============================================================================
