------------------------ MODULE CredentialFileProofs ------------------------
(* Theorems about CredentialFile, for any number of calls, sessions,       *)
(* rotations and inodes and any settings.                                  *)
EXTENDS CredentialFile, TLAPS

(***************************************************************************)
(* The inductive invariant.                                                *)
(***************************************************************************)

\* What a call is there for, by the step it is at; with a session to use or
\* to save there is one in its hands.
HandOK(p) ==
  /\ kpc[p] \in {"get", "static", "refresh"} => op[p] = "get"
  /\ kpc[p] = "signin" => op[p] = "login"
  /\ kpc[p] = "end" => op[p] = "logout"
  /\ kpc[p] \in {"load"} \cup Saves => op[p] \in Commands
  /\ \/ kpc[p] = "refresh"
     \/ kpc[p] \in {"load"} \cup Saves /\ op[p] \in {"get", "login"}
     => copy[p].oidc # None
HandsOK == \A p \in Proc : HandOK(p)

\* The call that saves has the temporary file to itself, and the file has not
\* changed since it was loaded, but for its removal on Windows.
TmpOK ==
  \A p \in Proc :
    /\ kpc[p] \in {"write", "remove", "rename"} => desc[p] = tmp /\ tmp # None
    /\ kpc[p] = "write" => data[tmp] = Empty
    /\ kpc[p] \in {"remove", "rename"} => data[tmp] = copy[p]
CopyOK ==
  \A p \in Proc : kpc[p] \in Saves =>
    /\ op[p] = "store" => \/ copy[p].oidc = Loaded.oidc
                          \/ kpc[p] = "rename" /\ path = None
    /\ op[p] \in {"erase", "logout"} => copy[p] = NoFile
    /\ kpc[p] = "remove" => setting.windows
SaveOK == Saves \subseteq setting.turns => TmpOK /\ CopyOK /\ Readable(Loaded)

\* After a logout nothing is on file and no call has a session in its hands.
LogoutOK ==
  Changes \subseteq setting.turns /\ signedOut =>
    /\ Loaded.oidc = None
    /\ \A p \in Proc :
         /\ op[p] # "login"
         /\ kpc[p] \in Changes => op[p] \in {"store", "erase", "logout"}
         /\ kpc[p] \in Saves => copy[p].oidc = None

\* Every session was begun.
Begun(c) == c = None \/ issued[c[1]] > 0
BegunOK ==
  /\ \A i \in Inode : Begun(data[i].oidc)
  /\ \A p \in Proc : Begun(copy[p].oidc)

\* The last refresh token of its session, if that lives; or nobody saved that one.
Good(c) == c \in live \/ c[1] \in lost \/ \A d \in live : d[1] # c[1]

\* The last refresh token is on file, or in the hands of the call that saves it.
FileOK ==
  Loaded.oidc # None =>
    \/ Good(Loaded.oidc)
    \/ \E p \in Proc : Unsaved(p) /\ copy[p].oidc[1] = Loaded.oidc[1]
HeldOK ==
  \A p \in Proc :
    /\ kpc[p] = "refresh" => copy[p].oidc = Loaded.oidc
    /\ kpc[p] = "load" /\ op[p] \in {"get", "login"} => Good(copy[p].oidc)
    /\ kpc[p] \in Saves => copy[p].oidc = None \/ Good(copy[p].oidc)
SessionOK == Changes \subseteq setting.turns => FileOK /\ HeldOK

\* Where the issuer gives out no refresh tokens, none works.
TokensOK == setting.tokens \/ live = {}

KInv == KTypeOK /\ InTurn /\ HandsOK /\ SaveOK /\ LogoutOK /\ BegunOK /\ TokensOK /\
        SessionOK
-----------------------------------------------------------------------------
(* Types                                                                   *)

LEMMA NoneTyped == None \notin Inode /\ None \notin Credential
  BY CredentialAssumption DEF Credential

\* What a file can hold.
LEMMA TextsTyped ==
  /\ \A c \in Credential \cup {None}, s \in BOOLEAN :
       /\ Content(c, s) \in Contents
       /\ Content(c, s).oidc = c
  /\ NoFile \in Contents /\ NoFile.oidc = None /\ Readable(NoFile)
  /\ Empty.oidc = None /\ Torn.oidc = None
  /\ ~Readable(Empty) /\ ~Readable(Torn)
  /\ \A f \in Contents : /\ Readable(f) /\ f.oidc \in Credential \cup {None}
                         /\ f.static \in BOOLEAN
  BY DEF Content, Contents, NoFile, Empty, Torn, Readable

\* What load returns.
LEMMA LoadedTyped ==
  ASSUME KTypeOK
  PROVE  /\ Loaded \in Contents \cup {Empty, Torn}
         /\ Readable(Loaded) => Loaded \in Contents
         /\ Loaded.oidc # None => Loaded \in Contents /\ Loaded.oidc \in Credential
<1>1. Loaded \in Contents \cup {Empty, Torn}
  BY TextsTyped DEF KTypeOK, Loaded
<1> QED
  BY <1>1, TextsTyped

LEMMA TypeInit == KInit => KTypeOK
<1> SUFFICES ASSUME KInit PROVE KTypeOK
  OBVIOUS
<1>1. data \in [Inode -> Contents \cup {Empty, Torn}] /\ copy \in [Proc -> Contents]
  BY TextsTyped DEF KInit
<1>2. issued \in [Session -> 0 .. MaxRotation + 1]
  BY CredentialAssumption DEF KInit
<1> QED
  BY <1>1, <1>2 DEF KInit, KTypeOK, Stages

\* A call that ends.
LEMMA ExitTyped ==
  ASSUME KTypeOK, NEW p \in Proc, NEW a, Exit(p, a),
         a \in Answers
  PROVE  /\ kpc' \in [Proc -> Stages] /\ copy' \in [Proc -> Contents]
         /\ desc' \in [Proc -> Inode \cup {None}]
         /\ answer' \in [Proc -> Answers \cup {None}]
         /\ signedOut' \in BOOLEAN
  BY TextsTyped DEF KTypeOK, Exit, KGoto, Stages

\* A sign-in: a session that is new.
LEMMA SignInTyped ==
  ASSUME KTypeOK, NEW p \in Proc, SignIn(p)
  PROVE  \E s \in Session :
           /\ issued[s] = 0 /\ issued' = [issued EXCEPT ![s] = 1]
           /\ <<s, 0>> \in Credential
           /\ live' = live \cup (IF setting.tokens THEN {<<s, 0>>} ELSE {})
           /\ copy' = [copy EXCEPT ![p] = Content(<<s, 0>>, FALSE)]
           /\ Content(<<s, 0>>, FALSE) \in Contents
           /\ copy'[p].oidc = <<s, 0>>
<1>1. PICK s \in Session :
        /\ issued[s] = 0 /\ issued' = [issued EXCEPT ![s] = 1]
        /\ live' = live \cup (IF setting.tokens THEN {<<s, 0>>} ELSE {})
        /\ copy' = [copy EXCEPT ![p] = Content(<<s, 0>>, FALSE)]
  BY DEF SignIn
<1>2. <<s, 0>> \in Credential
  BY CredentialAssumption DEF Credential
<1>3. /\ Content(<<s, 0>>, FALSE) \in Contents
      /\ Content(<<s, 0>>, FALSE).oidc = <<s, 0>>
  BY <1>2, TextsTyped
<1>4. copy'[p].oidc = <<s, 0>>
  BY <1>1, <1>3 DEF KTypeOK
<1> QED
  BY <1>1, <1>2, <1>3, <1>4

\* A refresh: what it changes at the issuer ...
LEMMA RotateTyped ==
  ASSUME KTypeOK, NEW p \in Proc, Rotate(copy[p].oidc)
  PROVE  LET s == copy[p].oidc[1] IN
         /\ copy[p].oidc \in live
         /\ s \in Session /\ <<s, issued[s]>> \in Credential
         /\ issued[s] \in Nat /\ issued' = [issued EXCEPT ![s] = issued[s] + 1]
         /\ <<s, issued[s]>> \in live'
         /\ live' \subseteq Credential
         /\ issued' \in [Session -> 0 .. MaxRotation + 1]
<1> DEFINE s == copy[p].oidc[1]
<1>1. copy[p].oidc \in Credential /\ s \in Session /\ issued[s] <= MaxRotation
  BY DEF Rotate, KTypeOK, Credential
<1>2. issued[s] \in 0 .. MaxRotation /\ issued[s] + 1 \in 0 .. MaxRotation + 1
  BY <1>1, CredentialAssumption DEF KTypeOK
<1>3. <<s, issued[s]>> \in Credential
  BY <1>1, <1>2 DEF Credential
<1>4. <<s, issued[s]>> \in live' /\ live' \subseteq Credential
  BY <1>3 DEF Rotate, Renewed, KTypeOK
<1>5. issued' = [issued EXCEPT ![s] = issued[s] + 1]
  BY DEF Rotate
<1>6. issued' \in [Session -> 0 .. MaxRotation + 1]
  BY <1>1, <1>2, <1>5 DEF KTypeOK
<1>7. copy[p].oidc \in live /\ issued[s] \in Nat
  BY <1>2, CredentialAssumption DEF Rotate
<1> QED
  BY <1>1, <1>3, <1>4, <1>5, <1>6, <1>7

\* ... and what it gets from there.
LEMMA RefreshTyped ==
  ASSUME KTypeOK, NEW p \in Proc, Refresh(p)
  PROVE  LET s == copy[p].oidc[1] IN
         /\ copy[p].oidc \in live
         /\ s \in Session /\ <<s, issued[s]>> \in Credential
         /\ issued[s] \in Nat /\ issued' = [issued EXCEPT ![s] = issued[s] + 1]
         /\ copy' = [copy EXCEPT ![p] = Content(<<s, issued[s]>>, FALSE)]
         /\ copy'[p].oidc = <<s, issued[s]>> /\ <<s, issued[s]>> \in live'
         /\ live' \subseteq Credential
         /\ copy' \in [Proc -> Contents]
         /\ issued' \in [Session -> 0 .. MaxRotation + 1]
<1> DEFINE s == copy[p].oidc[1]
<1>1. Rotate(copy[p].oidc)
  BY DEF Refresh
<1>2. <<s, issued[s]>> \in Credential
  BY <1>1, RotateTyped
<1>3. /\ Content(<<s, issued[s]>>, FALSE) \in Contents
      /\ Content(<<s, issued[s]>>, FALSE).oidc = <<s, issued[s]>>
  BY <1>2, TextsTyped
<1>4. /\ copy' = [copy EXCEPT ![p] = Content(<<s, issued[s]>>, FALSE)]
      /\ copy' \in [Proc -> Contents] /\ copy'[p].oidc = <<s, issued[s]>>
  BY <1>3 DEF Refresh, Renewed, KTypeOK
<1> QED
  BY <1>1, <1>4, RotateTyped

\* What a call that ends may lose.
LEMMA LosesTyped ==
  ASSUME KTypeOK, HandsOK, NEW p \in Proc, Loses(p)
  PROVE  lost \subseteq lost' /\ lost' \subseteq Session
<1>1. Unsaved(p) => copy[p].oidc # None
  BY DEF HandsOK, HandOK, Unsaved
<1>2. copy[p].oidc # None => copy[p].oidc \in Credential
  BY TextsTyped DEF KTypeOK
<1>3. copy[p].oidc \in Credential => copy[p].oidc[1] \in Session
  BY DEF Credential
<1> QED
  BY <1>1, <1>2, <1>3 DEF Loses, KTypeOK

LEMMA TypeStep == KTypeOK /\ HandsOK /\ [KNext]_kvars => KTypeOK'
<1> SUFFICES ASSUME KTypeOK, HandsOK, [KNext]_kvars PROVE KTypeOK'
  OBVIOUS
<1> USE NoneTyped, TextsTyped DEF Answers
<1>0. CASE UNCHANGED kvars
  BY <1>0 DEF kvars, files, issuer, KTypeOK
<1>1. CASE Expire /\ UNCHANGED setting
  <2>1. spent' \in SUBSET Credential
    BY <1>1 DEF Expire, KTypeOK, Credential
  <2> QED
    BY <1>1, <2>1 DEF Expire, files, issuer, KTypeOK
<1>2. ASSUME NEW p \in Proc, Run(p), UNCHANGED setting PROVE KTypeOK'
  <2>1. PICK o \in Commands :
          /\ op' = [op EXCEPT ![p] = o]
          /\ KGoto(p, CASE o = "get" -> "get" [] o = "login" -> "signin"
                        [] o = "logout" -> "end" [] OTHER -> "load")
          /\ signedOut' = (signedOut /\ o # "login")
    BY <1>2, CredentialAssumption DEF Run, KTypeOK
  <2>2. kpc' \in [Proc -> Stages]
    BY <2>1 DEF KGoto, KTypeOK, Stages, Commands
  <2>3. op' \in [Proc -> Commands \cup {None}]
    BY <2>1 DEF KTypeOK
  <2> QED
    BY <1>2, <2>1, <2>2, <2>3 DEF Run, files, issuer, KTypeOK
<1>3. ASSUME NEW p \in Proc, SignIn(p), UNCHANGED setting PROVE KTypeOK'
  <2>1. PICK s \in Session :
          /\ issued' = [issued EXCEPT ![s] = 1]
          /\ <<s, 0>> \in Credential
          /\ live' = live \cup (IF setting.tokens THEN {<<s, 0>>} ELSE {})
          /\ copy' = [copy EXCEPT ![p] = Content(<<s, 0>>, FALSE)]
          /\ Content(<<s, 0>>, FALSE) \in Contents
    BY <1>3, SignInTyped
  <2>2. issued' \in [Session -> 0 .. MaxRotation + 1]
    BY <2>1, CredentialAssumption DEF KTypeOK
  <2> QED
    BY <1>3, <2>1, <2>2 DEF SignIn, files, KTypeOK, KGoto, Stages
<1>4. ASSUME NEW p \in Proc, Cancel(p), UNCHANGED setting PROVE KTypeOK'
  BY <1>4, ExitTyped DEF Cancel, files, issuer, KTypeOK, KGoto, Stages
<1>5. ASSUME NEW p \in Proc, Get(p), UNCHANGED setting PROVE KTypeOK'
  <2>1. CASE kpc' = [kpc EXCEPT ![p] = "static"] /\ UNCHANGED <<copy, desc, answer, signedOut>>
    BY <1>5, <2>1 DEF Get, files, issuer, KTypeOK, Stages
  <2>2. CASE /\ kpc' = [kpc EXCEPT ![p] = "refresh"] /\ Loaded.oidc # None
             /\ copy' = [copy EXCEPT ![p] = Loaded] /\ UNCHANGED <<desc, answer, signedOut>>
    BY <1>5, <2>2, LoadedTyped DEF Get, files, issuer, KTypeOK, Stages
  <2>3. CASE Exit(p, "broken") \/ Exit(p, "token")
    BY <1>5, <2>3, ExitTyped DEF Get, files, issuer, KTypeOK
  <2> QED
    BY <1>5, <2>1, <2>2, <2>3 DEF Get, KGoto
<1>6. ASSUME NEW p \in Proc, GetStatic(p), UNCHANGED setting PROVE KTypeOK'
  BY <1>6, ExitTyped, LoadedTyped DEF GetStatic, files, issuer, KTypeOK, KGoto, Stages
<1>7. ASSUME NEW p \in Proc, Refresh(p), UNCHANGED setting PROVE KTypeOK'
  BY <1>7, RefreshTyped DEF Refresh, files, KTypeOK, KGoto, Stages
<1>8. ASSUME NEW p \in Proc, RefreshRefused(p), UNCHANGED setting PROVE KTypeOK'
  BY <1>8, ExitTyped DEF RefreshRefused, files, issuer, KTypeOK, KGoto, Stages
<1>9. ASSUME NEW p \in Proc, RefreshFails(p), UNCHANGED setting PROVE KTypeOK'
  BY <1>9, ExitTyped DEF RefreshFails, files, issuer, KTypeOK, KGoto, Stages
<1>10. ASSUME NEW p \in Proc, EndSession(p), UNCHANGED setting PROVE KTypeOK'
  BY <1>10 DEF EndSession, files, issuer, KTypeOK, KGoto, Stages
<1>11. ASSUME NEW p \in Proc, Load(p), UNCHANGED setting PROVE KTypeOK'
  <2>1. CASE /\ Readable(Loaded) /\ kpc' = [kpc EXCEPT ![p] = "create"]
             /\ copy' = [copy EXCEPT ![p] =
                  IF op[p] = "store" THEN Content(Loaded.oidc, TRUE)
                  ELSE IF op[p] \in {"erase", "logout"} THEN NoFile
                  ELSE Content(@.oidc, Loaded.static)]
             /\ UNCHANGED <<desc, answer, signedOut>>
    <3>1. /\ Content(Loaded.oidc, TRUE) \in Contents
          /\ Content(copy[p].oidc, Loaded.static) \in Contents
      BY <2>1, LoadedTyped DEF KTypeOK
    <3>2. copy' \in [Proc -> Contents]
      BY <2>1, <3>1 DEF KTypeOK
    <3> QED
      BY <1>11, <2>1, <3>2 DEF Load, files, issuer, KTypeOK, Stages
  <2>2. CASE Exit(p, "ok") \/ PutFails(p)
    BY <1>11, <2>2, ExitTyped, LosesTyped DEF Load, files, issuer, KTypeOK, PutFails
  <2> QED
    BY <1>11, <2>1, <2>2 DEF Load, KGoto
<1>12. ASSUME NEW p \in Proc, CreateTmp(p), UNCHANGED setting PROVE KTypeOK'
  BY <1>12 DEF CreateTmp, files, issuer, KTypeOK, KGoto, Stages
<1>13. ASSUME NEW p \in Proc, WriteTmp(p), UNCHANGED setting PROVE KTypeOK'
  <2>1. PICK f \in Contents \cup {Empty, Torn} : data' = [data EXCEPT ![desc[p]] = f]
    BY <1>13 DEF WriteTmp, KTypeOK
  <2>2. data' \in [Inode -> Contents \cup {Empty, Torn}]
    BY <2>1 DEF KTypeOK
  <2> QED
    BY <1>13, <2>2 DEF WriteTmp, issuer, KTypeOK, KGoto, Stages
<1>14. ASSUME NEW p \in Proc, RenameTmp(p), UNCHANGED setting PROVE KTypeOK'
  BY <1>14, ExitTyped, LosesTyped DEF RenameTmp, files, issuer, KTypeOK, KGoto, Stages, PutFails
<1>15. ASSUME NEW p \in Proc, SaveFails(p), UNCHANGED setting PROVE KTypeOK'
  BY <1>15, ExitTyped, LosesTyped DEF SaveFails, files, issuer, KTypeOK, KGoto, Stages, PutFails
<1>16. ASSUME NEW p \in Proc, Kill(p), UNCHANGED setting PROVE KTypeOK'
  BY <1>16, ExitTyped, LosesTyped DEF Kill, files, issuer, KTypeOK, KGoto, Stages
<1>17. ASSUME NEW p \in Proc, Exited(p), UNCHANGED setting PROVE KTypeOK'
  BY <1>17 DEF Exited, files, issuer, KTypeOK, KGoto, Stages
<1>18. ASSUME NEW p \in Proc, RefreshLost(p), UNCHANGED setting PROVE KTypeOK'
  <2>1. /\ copy[p].oidc[1] \in Session
        /\ live' \in SUBSET Credential /\ issued' \in [Session -> 0 .. MaxRotation + 1]
    BY <1>18, RotateTyped DEF RefreshLost
  <2> QED
    BY <1>18, <2>1, ExitTyped DEF RefreshLost, files, KTypeOK
<1>19. ASSUME NEW p \in Proc, RemoveOld(p), UNCHANGED setting PROVE KTypeOK'
  BY <1>19 DEF RemoveOld, files, issuer, KTypeOK, KGoto, Stages
<1> QED
  BY <1>0, <1>1, <1>2, <1>3, <1>4, <1>5, <1>6, <1>7, <1>8, <1>9, <1>10, <1>11, <1>12, <1>13, <1>14, <1>15, <1>16, <1>17, <1>18, <1>19 DEF KNext, KHandle
-----------------------------------------------------------------------------
(* What a step of a call changes                                           *)

\* Nothing of the other calls.
LEMMA OthersStay ==
  ASSUME KTypeOK, NEW p \in Proc, KHandle(p), NEW q \in Proc \ {p}
  PROVE  kpc'[q] = kpc[q] /\ op'[q] = op[q] /\ copy'[q] = copy[q] /\ desc'[q] = desc[q]
<1>1. CASE Run(p)
  BY <1>1 DEF Run, KTypeOK, KGoto
<1>2. CASE SignIn(p)
  BY <1>2 DEF SignIn, KTypeOK, KGoto
<1>3. CASE Cancel(p)
  BY <1>3 DEF Cancel, KTypeOK, KGoto, Exit
<1>4. CASE Get(p)
  BY <1>4 DEF Get, KTypeOK, KGoto, Exit
<1>5. CASE GetStatic(p)
  BY <1>5 DEF GetStatic, KTypeOK, KGoto, Exit
<1>6. CASE Refresh(p)
  BY <1>6 DEF Refresh, KTypeOK, KGoto
<1>7. CASE RefreshRefused(p)
  BY <1>7 DEF RefreshRefused, KTypeOK, KGoto, Exit
<1>8. CASE RefreshFails(p)
  BY <1>8 DEF RefreshFails, KTypeOK, KGoto, Exit
<1>9. CASE EndSession(p)
  BY <1>9 DEF EndSession, KTypeOK, KGoto
<1>10. CASE Load(p)
  BY <1>10 DEF Load, KTypeOK, KGoto, PutFails, Exit
<1>11. CASE CreateTmp(p)
  BY <1>11 DEF CreateTmp, KTypeOK, KGoto
<1>12. CASE WriteTmp(p)
  BY <1>12 DEF WriteTmp, KTypeOK, KGoto
<1>17. CASE RefreshLost(p)
  BY <1>17 DEF RefreshLost, KTypeOK, KGoto, Exit
<1>18. CASE RemoveOld(p)
  BY <1>18 DEF RemoveOld, KTypeOK, KGoto
<1>13. CASE RenameTmp(p)
  BY <1>13 DEF RenameTmp, KTypeOK, KGoto, PutFails, Exit
<1>14. CASE SaveFails(p)
  BY <1>14 DEF SaveFails, KTypeOK, KGoto, PutFails, Exit
<1>15. CASE Kill(p)
  BY <1>15 DEF Kill, KTypeOK, KGoto, Exit
<1>16. CASE Exited(p)
  BY <1>16 DEF Exited, KTypeOK, KGoto
<1> QED
  BY <1>1, <1>2, <1>3, <1>4, <1>5, <1>6, <1>7, <1>8, <1>9, <1>10, <1>11, <1>12, <1>13, <1>14, <1>15, <1>16, <1>17, <1>18 DEF KHandle

\* The steps that reach refresh and load, and how the others go on.
LEMMA Reaches ==
  ASSUME KTypeOK, NEW p \in Proc, KHandle(p)
  PROVE  /\ kpc'[p] \in {"get", "static", "signin", "end"} => Run(p) \/ Get(p)
         /\ kpc'[p] = "refresh" => Get(p)
         /\ kpc'[p] = "load" => Run(p) \/ SignIn(p) \/ Refresh(p) \/ EndSession(p)
         /\ kpc'[p] = "create" => Load(p)
         /\ kpc'[p] = "write" => CreateTmp(p)
         /\ kpc'[p] = "remove" => WriteTmp(p) /\ setting.windows
         /\ kpc'[p] = "rename" => WriteTmp(p) \/ RemoveOld(p)
<1>1. CASE Run(p)
  BY <1>1 DEF Run, KTypeOK, KGoto
<1>2. CASE SignIn(p)
  BY <1>2 DEF SignIn, KTypeOK, KGoto
<1>3. CASE Cancel(p)
  BY <1>3 DEF Cancel, KTypeOK, KGoto, Exit
<1>4. CASE Get(p)
  BY <1>4 DEF Get, KTypeOK, KGoto, Exit
<1>5. CASE GetStatic(p)
  BY <1>5 DEF GetStatic, KTypeOK, KGoto, Exit
<1>6. CASE Refresh(p)
  BY <1>6 DEF Refresh, KTypeOK, KGoto
<1>7. CASE RefreshRefused(p)
  BY <1>7 DEF RefreshRefused, KTypeOK, KGoto, Exit
<1>8. CASE RefreshFails(p)
  BY <1>8 DEF RefreshFails, KTypeOK, KGoto, Exit
<1>9. CASE EndSession(p)
  BY <1>9 DEF EndSession, KTypeOK, KGoto
<1>10. CASE Load(p)
  BY <1>10 DEF Load, KTypeOK, KGoto, PutFails, Exit
<1>11. CASE CreateTmp(p)
  BY <1>11 DEF CreateTmp, KTypeOK, KGoto
<1>12. CASE WriteTmp(p)
  BY <1>12 DEF WriteTmp, KTypeOK, KGoto
<1>17. CASE RefreshLost(p)
  BY <1>17 DEF RefreshLost, KTypeOK, KGoto, Exit
<1>18. CASE RemoveOld(p)
  BY <1>18 DEF RemoveOld, KTypeOK, KGoto
<1>13. CASE RenameTmp(p)
  BY <1>13 DEF RenameTmp, KTypeOK, KGoto, PutFails, Exit
<1>14. CASE SaveFails(p)
  BY <1>14 DEF SaveFails, KTypeOK, KGoto, PutFails, Exit
<1>15. CASE Kill(p)
  BY <1>15 DEF Kill, KTypeOK, KGoto, Exit
<1>16. CASE Exited(p)
  BY <1>16 DEF Exited, KTypeOK, KGoto
<1> QED
  BY <1>1, <1>2, <1>3, <1>4, <1>5, <1>6, <1>7, <1>8, <1>9, <1>10, <1>11, <1>12, <1>13, <1>14, <1>15, <1>16, <1>17, <1>18 DEF KHandle
-----------------------------------------------------------------------------
(* The hands of the calls                                                  *)

LEMMA HandsInit == KInit => HandsOK
  BY DEF KInit, HandsOK, HandOK, Saves

LEMMA HandStep ==
  ASSUME KTypeOK, NEW p \in Proc, KHandle(p), HandOK(p)
  PROVE  HandOK(p)'
<1> USE NoneTyped, TextsTyped DEF HandOK, Saves, Commands
<1>1. CASE Run(p)
  <2>1. PICK o \in Commands :
          /\ op' = [op EXCEPT ![p] = o]
          /\ KGoto(p, CASE o = "get" -> "get" [] o = "login" -> "signin"
                        [] o = "logout" -> "end" [] OTHER -> "load")
    BY <1>1, CredentialAssumption DEF Run, KTypeOK, Commands
  <2>2. op'[p] = o /\ o # None
    BY <2>1, CredentialAssumption DEF KTypeOK
  <2> QED
    BY <2>1, <2>2 DEF KGoto, KTypeOK
<1>2. CASE SignIn(p)
  <2>1. kpc'[p] = "load" /\ op'[p] = op[p]
    BY <1>2 DEF SignIn, KTypeOK, KGoto
  <2>2. PICK s \in Session : <<s, 0>> \in Credential /\ copy'[p].oidc = <<s, 0>>
    BY <1>2, SignInTyped
  <2>3. copy'[p].oidc # None
    BY <2>2
  <2> QED
    BY <1>2, <2>1, <2>3 DEF SignIn
<1>3. CASE Cancel(p)
  BY <1>3 DEF Cancel, KTypeOK, KGoto, Exit
<1>4. CASE Get(p)
  BY <1>4 DEF Get, KTypeOK, KGoto, Exit
<1>5. CASE GetStatic(p)
  BY <1>5 DEF GetStatic, KTypeOK, KGoto, Exit
<1>6. CASE Refresh(p)
  <2>1. kpc[p] = "refresh" /\ kpc'[p] = "load" /\ op'[p] = op[p]
    BY <1>6 DEF Refresh, KTypeOK, KGoto
  <2>2. copy'[p].oidc \in live' /\ live' \subseteq Credential
    BY <1>6, RefreshTyped DEF Refresh
  <2> QED
    BY <2>1, <2>2
<1>7. CASE RefreshRefused(p)
  BY <1>7 DEF RefreshRefused, KTypeOK, KGoto, Exit
<1>8. CASE RefreshFails(p)
  BY <1>8 DEF RefreshFails, KTypeOK, KGoto, Exit
<1>9. CASE EndSession(p)
  BY <1>9 DEF EndSession, KTypeOK, KGoto
<1>10. CASE Load(p)
  <2>1. CASE kpc'[p] = "done"
    BY <2>1
  <2>2. CASE kpc'[p] # "done"
    <3>1. kpc[p] = "load" /\ kpc'[p] = "create" /\ op'[p] = op[p]
      BY <1>10, <2>2 DEF Load, KTypeOK, KGoto, PutFails, Exit
    <3>2. op[p] \in {"get", "login"} => copy'[p] = Content(copy[p].oidc, Loaded.static)
      BY <1>10, <2>2 DEF Load, KTypeOK, KGoto, PutFails, Exit
    <3>3. op[p] \in {"get", "login"} => copy'[p].oidc = copy[p].oidc
      BY <3>2 DEF Content
    <3> QED
      BY <3>1, <3>3
  <2> QED
    BY <2>1, <2>2
<1>11. CASE CreateTmp(p)
  BY <1>11 DEF CreateTmp, KTypeOK, KGoto
<1>12. CASE WriteTmp(p)
  BY <1>12 DEF WriteTmp, KTypeOK, KGoto
<1>17. CASE RefreshLost(p)
  BY <1>17 DEF RefreshLost, KTypeOK, KGoto, Exit
<1>18. CASE RemoveOld(p)
  BY <1>18 DEF RemoveOld, KTypeOK, KGoto
<1>13. CASE RenameTmp(p)
  BY <1>13 DEF RenameTmp, KTypeOK, KGoto, PutFails, Exit
<1>14. CASE SaveFails(p)
  BY <1>14 DEF SaveFails, KTypeOK, KGoto, PutFails, Exit
<1>15. CASE Kill(p)
  BY <1>15 DEF Kill, KTypeOK, KGoto, Exit
<1>16. CASE Exited(p)
  BY <1>16 DEF Exited, KTypeOK, KGoto
<1> QED
  BY <1>1, <1>2, <1>3, <1>4, <1>5, <1>6, <1>7, <1>8, <1>9, <1>10, <1>11, <1>12, <1>13, <1>14, <1>15, <1>16, <1>17, <1>18 DEF KHandle

LEMMA HandsStep ==
  ASSUME KTypeOK, NEW p \in Proc, KHandle(p), HandsOK
  PROVE  HandsOK'
<1> SUFFICES ASSUME NEW q \in Proc PROVE HandOK(q)'
  BY DEF HandsOK
<1>1. CASE q = p
  BY <1>1, HandStep DEF HandsOK
<1>2. CASE q # p
  BY <1>2, OthersStay DEF HandsOK, HandOK
<1> QED
  BY <1>1, <1>2
-----------------------------------------------------------------------------
(* One call saves at a time                                                *)

LEMMA OneSaver ==
  ASSUME InTurn, Saves \subseteq setting.turns, NEW p \in Proc, NEW q \in Proc,
         kpc[p] \in Saves, kpc[q] \in Saves
  PROVE  p = q
  BY DEF InTurn

LEMMA OneChanger ==
  ASSUME InTurn, Changes \subseteq setting.turns, NEW p \in Proc, NEW q \in Proc,
         kpc[p] \in Changes, kpc[q] \in Changes
  PROVE  p = q
  BY DEF InTurn

\* Only the save touches a file.
LEMMA FilesStay ==
  ASSUME NEW p \in Proc, KHandle(p)
  PROVE  \/ UNCHANGED files
         \/ CreateTmp(p) \/ WriteTmp(p) \/ RemoveOld(p) \/ RenameTmp(p)
         \/ SaveFails(p) /\ kpc[p] = "rename" /\ tmp' = None /\ UNCHANGED <<path, data>>
  BY DEF KHandle, Run, SignIn, Cancel, Get, GetStatic, Refresh, RefreshLost, RefreshRefused,
         RefreshFails,
         EndSession, Load, SaveFails, Kill, Exited, files

\* And only the rename, and the removal before it, touch what a load would see: the
\* file is then what the call had in its hands, or not there.
LEMMA LoadedStays ==
  ASSUME KTypeOK, SaveOK, Saves \subseteq setting.turns, NEW p \in Proc, KHandle(p)
  PROVE  \/ Loaded' = Loaded /\ (path # None => path' # None) /\ (path = None => path' = None)
         \/ RemoveOld(p) /\ path' = None /\ Loaded' = NoFile
         \/ /\ RenameTmp(p) /\ kpc[p] = "rename" /\ kpc'[p] = "done"
            /\ Loaded' = copy[p] /\ path' # None
<1>1. CASE UNCHANGED files
  BY <1>1 DEF files, Loaded
<1>2. CASE CreateTmp(p)
  <2>1. PICK i \in Inode : (tmp # None => i = tmp) /\ (tmp = None => i # path)
                           /\ data' = [data EXCEPT ![i] = Empty]
    BY <1>2 DEF CreateTmp
  <2>2. path # None => path # i
    BY <2>1 DEF KTypeOK
  <2>3. path' = path
    BY <1>2 DEF CreateTmp
  <2> QED
    BY <2>1, <2>2, <2>3 DEF KTypeOK, Loaded
<1>3. CASE WriteTmp(p)
  <2>1. desc[p] = tmp /\ path' = path
    BY <1>3 DEF WriteTmp, SaveOK, TmpOK
  <2>2. PICK f : data' = [data EXCEPT ![tmp] = f]
    BY <1>3, <2>1 DEF WriteTmp
  <2> QED
    BY <2>1, <2>2 DEF KTypeOK, Loaded
<1>4. CASE RenameTmp(p)
  <2>1. tmp # None /\ data[tmp] = copy[p] /\ kpc[p] = "rename"
    BY <1>4 DEF RenameTmp, SaveOK, TmpOK
  <2> QED
    BY <1>4, <2>1 DEF RenameTmp, Loaded, KTypeOK, Exit, KGoto
<1>5. CASE UNCHANGED <<path, data>>
  BY <1>5 DEF Loaded
<1>6. CASE RemoveOld(p)
  BY <1>6 DEF RemoveOld, Loaded
<1> QED
  BY <1>1, <1>2, <1>3, <1>4, <1>5, <1>6, FilesStay

LEMMA SaveInit == KInit => SaveOK
<1> SUFFICES ASSUME KInit PROVE SaveOK
  OBVIOUS
<1> QED
  BY TextsTyped DEF KInit, SaveOK, TmpOK, CopyOK, Loaded, Saves

\* A call that does not save leaves the one that does alone.
LEMMA SaveStep ==
  ASSUME KTypeOK, KTypeOK', InTurn, InTurn', SaveOK, setting' = setting,
         NEW p \in Proc, KHandle(p)
  PROVE  SaveOK'
<1> SUFFICES ASSUME Saves \subseteq setting.turns PROVE TmpOK' /\ CopyOK' /\ Readable(Loaded)'
  BY DEF SaveOK
<1> USE DEF Saves
<1>1. TmpOK /\ CopyOK /\ Readable(Loaded)
  BY DEF SaveOK
<1>2. Readable(Loaded)'
  <2>1. Loaded' = Loaded \/ Loaded' = copy[p] \/ Loaded' = NoFile
    BY LoadedStays
  <2>2. copy[p] \in Contents
    BY DEF KTypeOK
  <2> QED
    BY <1>1, <2>1, <2>2, TextsTyped DEF Readable
<1>3. CASE CreateTmp(p)
  <2>1. /\ kpc[p] = "create" /\ kpc'[p] = "write" /\ copy' = copy /\ op' = op
        /\ Loaded' = Loaded
    BY <1>3, LoadedStays DEF CreateTmp, KTypeOK, KGoto, RenameTmp, RemoveOld
  <2>2. desc'[p] = tmp' /\ tmp' # None /\ data'[tmp'] = Empty
    BY <1>3, NoneTyped DEF CreateTmp, KTypeOK
  <2>3. \A q \in Proc : kpc'[q] \in Saves => q = p
    BY <2>1 DEF InTurn
  <2> QED
    BY <1>1, <1>2, <2>1, <2>2, <2>3 DEF TmpOK, CopyOK
<1>4. CASE WriteTmp(p)
  <2>1. /\ kpc[p] = "write" /\ copy' = copy /\ op' = op /\ desc' = desc
        /\ kpc'[p] = (IF setting.windows THEN "remove" ELSE "rename")
        /\ tmp' = tmp /\ Loaded' = Loaded
    BY <1>4, LoadedStays DEF WriteTmp, KTypeOK, KGoto, RenameTmp, RemoveOld
  <2>2. desc[p] = tmp /\ tmp # None /\ data[tmp] = Empty
    BY <1>1, <2>1 DEF TmpOK
  <2>3. data'[tmp] = copy[p]
    BY <1>4, <2>2 DEF WriteTmp, KTypeOK
  <2>4. \A q \in Proc : kpc'[q] \in Saves => q = p
    BY <2>1 DEF InTurn
  <2> QED
    BY <1>1, <1>2, <2>1, <2>2, <2>3, <2>4 DEF TmpOK, CopyOK
<1>8. CASE RemoveOld(p)
  <2>1. /\ kpc[p] = "remove" /\ kpc'[p] = "rename" /\ copy' = copy /\ op' = op /\ desc' = desc
        /\ tmp' = tmp /\ data' = data /\ path' \in {path, None}
    BY <1>8 DEF RemoveOld, KTypeOK, KGoto
  <2>2. Loaded' = Loaded \/ path' = None
    BY <2>1 DEF Loaded
  <2>3. \A q \in Proc : kpc'[q] \in Saves => q = p
    BY <2>1 DEF InTurn
  <2> QED
    BY <1>1, <1>2, <2>1, <2>2, <2>3 DEF TmpOK, CopyOK
<1>5. CASE kpc[p] \in Saves /\ kpc'[p] \notin Saves
  <2>1. \A q \in Proc : kpc'[q] \notin Saves
    BY <1>5, OthersStay, OneSaver
  <2> QED
    BY <1>2, <2>1 DEF TmpOK, CopyOK
<1>6. CASE kpc[p] \notin Saves
  <2>1. UNCHANGED files
    BY <1>6, FilesStay DEF CreateTmp, WriteTmp, RenameTmp, RemoveOld
  <2>2. \A q \in Proc \ {p} : kpc'[q] = kpc[q] /\ op'[q] = op[q] /\ copy'[q] = copy[q]
                                /\ desc'[q] = desc[q]
    BY OthersStay
  <2>3. kpc'[p] \notin {"write", "remove", "rename"}
    BY <1>6, Reaches DEF CreateTmp, WriteTmp, RemoveOld
  <2>4. Loaded' = Loaded
    BY <2>1 DEF files, Loaded
  <2>5. kpc'[p] = "create" => /\ op[p] = "store" => copy'[p].oidc = Loaded.oidc
                              /\ op[p] \in {"erase", "logout"} => copy'[p] = NoFile
                              /\ op'[p] = op[p]
    <3> SUFFICES ASSUME kpc'[p] = "create"
                 PROVE  /\ op[p] = "store" => copy'[p].oidc = Loaded.oidc
                        /\ op[p] \in {"erase", "logout"} => copy'[p] = NoFile
                        /\ op'[p] = op[p]
      OBVIOUS
    <3>1. Load(p)
      BY Reaches
    <3>2. /\ op[p] = "store" => copy'[p] = Content(Loaded.oidc, TRUE)
          /\ op[p] \in {"erase", "logout"} => copy'[p] = NoFile
          /\ op' = op
      BY <3>1 DEF Load, PutFails, Exit, KGoto, KTypeOK
    <3> QED
      BY <3>2 DEF Content
  <2>6. TmpOK'
    BY <1>1, <2>1, <2>2, <2>3 DEF TmpOK, files
  <2>7. CopyOK'
    BY <1>1, <2>1, <2>2, <2>3, <2>4, <2>5 DEF CopyOK, files
  <2> QED
    BY <1>2, <2>6, <2>7
<1>7. kpc[p] \in Saves /\ kpc'[p] \in Saves => CreateTmp(p) \/ WriteTmp(p) \/ RemoveOld(p)
  BY Reaches DEF Load
<1> QED
  BY <1>3, <1>4, <1>5, <1>6, <1>7, <1>8
-----------------------------------------------------------------------------
(* A logout lasts                                                          *)

LEMMA LogoutInit == KInit => LogoutOK
  BY DEF KInit, LogoutOK

\* How a call signs out, and how a login ends that.
LEMMA SignsOut ==
  ASSUME KTypeOK, NEW p \in Proc, KHandle(p), signedOut'
  PROVE  /\ op'[p] = "login" => op[p] = "login"
         /\ ~signedOut => /\ op[p] \in {"erase", "logout"} /\ op' = op /\ kpc'[p] = "done"
                          /\ \A q \in Proc : op[q] # "login"
                          /\ (Load(p) /\ Loaded = NoFile) \/ (RenameTmp(p) /\ tmp # None)
<1> USE CredentialAssumption DEF Commands
<1>1. CASE Run(p)
  BY <1>1 DEF Run, KTypeOK, KGoto
<1>2. CASE SignIn(p)
  BY <1>2 DEF SignIn, KTypeOK, KGoto
<1>3. CASE Cancel(p)
  BY <1>3 DEF Cancel, KTypeOK, KGoto, Exit
<1>4. CASE Get(p)
  BY <1>4 DEF Get, KTypeOK, KGoto, Exit
<1>5. CASE GetStatic(p)
  BY <1>5 DEF GetStatic, KTypeOK, KGoto, Exit
<1>6. CASE Refresh(p)
  BY <1>6 DEF Refresh, KTypeOK, KGoto
<1>7. CASE RefreshRefused(p)
  BY <1>7 DEF RefreshRefused, KTypeOK, KGoto, Exit
<1>8. CASE RefreshFails(p)
  BY <1>8 DEF RefreshFails, KTypeOK, KGoto, Exit
<1>9. CASE EndSession(p)
  BY <1>9 DEF EndSession, KTypeOK, KGoto
<1>10. CASE Load(p)
  <2>1. op' = op
    BY <1>10 DEF Load
  <2>2. ASSUME ~signedOut
        PROVE  Loaded = NoFile /\ op[p] \in {"erase", "logout"} /\ Exit(p, "ok")
    BY <1>10, <2>2 DEF Load, PutFails, Exit
  <2>3. ASSUME ~signedOut
        PROVE  kpc'[p] = "done" /\ \A q \in Proc : op[q] # "login"
    BY <2>2, <2>3 DEF Exit, KGoto, KTypeOK
  <2> QED
    BY <1>10, <2>1, <2>2, <2>3
<1>11. CASE CreateTmp(p)
  BY <1>11 DEF CreateTmp, KTypeOK, KGoto
<1>12. CASE WriteTmp(p)
  BY <1>12 DEF WriteTmp, KTypeOK, KGoto
<1>17. CASE RefreshLost(p)
  BY <1>17 DEF RefreshLost, KTypeOK, KGoto, Exit
<1>18. CASE RemoveOld(p)
  BY <1>18 DEF RemoveOld, KTypeOK, KGoto
<1>13. CASE RenameTmp(p)
  <2>1. op' = op
    BY <1>13 DEF RenameTmp
  <2>2. ASSUME ~signedOut
        PROVE  tmp # None /\ op[p] \in {"erase", "logout"} /\ Exit(p, "ok")
    BY <1>13, <2>2 DEF RenameTmp, PutFails, Exit
  <2>3. ASSUME ~signedOut
        PROVE  kpc'[p] = "done" /\ \A q \in Proc : op[q] # "login"
    <3>1. kpc' = [kpc EXCEPT ![p] = "done"]
      BY <2>2, <2>3 DEF Exit, KGoto
    <3>2. "login" \notin {op[q] : q \in Proc}
      BY <2>2, <2>3 DEF Exit
    <3> QED
      BY <3>1, <3>2 DEF KTypeOK
  <2> QED
    BY <1>13, <2>1, <2>2, <2>3
<1>14. CASE SaveFails(p)
  BY <1>14 DEF SaveFails, KTypeOK, KGoto, PutFails, Exit
<1>15. CASE Kill(p)
  BY <1>15 DEF Kill, KTypeOK, KGoto, Exit
<1>16. CASE Exited(p)
  BY <1>16 DEF Exited, KTypeOK, KGoto
<1> QED
  BY <1>1, <1>2, <1>3, <1>4, <1>5, <1>6, <1>7, <1>8, <1>9, <1>10, <1>11, <1>12, <1>13, <1>14, <1>15, <1>16, <1>17, <1>18 DEF KHandle

LEMMA LogoutStep ==
  ASSUME KTypeOK, InTurn, HandsOK, SaveOK, LogoutOK, setting' = setting,
         NEW p \in Proc, KHandle(p)
  PROVE  LogoutOK'
<1> SUFFICES ASSUME Changes \subseteq setting.turns, signedOut'
             PROVE  /\ Loaded'.oidc = None
                    /\ \A q \in Proc :
                         /\ op'[q] # "login"
                         /\ kpc'[q] \in Changes => op'[q] \in {"store", "erase", "logout"}
                         /\ kpc'[q] \in Saves => copy'[q].oidc = None
  BY DEF LogoutOK
<1> USE DEF Saves, Changes
<1>0. Saves \subseteq setting.turns
  OBVIOUS
<1>1. CASE ~signedOut
  <2>1. /\ op[p] \in {"erase", "logout"} /\ op' = op /\ kpc'[p] = "done"
        /\ \A q \in Proc : op[q] # "login"
        /\ (Load(p) /\ Loaded = NoFile) \/ (RenameTmp(p) /\ tmp # None)
    BY <1>1, SignsOut
  <2>2. kpc[p] \in {"load", "rename"}
    BY <2>1 DEF Load, RenameTmp
  <2>3. \A q \in Proc : kpc'[q] \notin Changes
    BY <2>1, <2>2, OthersStay, OneChanger
  <2>4. Loaded' = NoFile
    <3>1. CASE Load(p) /\ Loaded = NoFile
      BY <3>1, <1>0, <2>2, LoadedStays DEF Load
    <3>2. CASE RenameTmp(p)
      <4>1. copy[p] = NoFile
        BY <1>0, <2>1, <3>2 DEF RenameTmp, SaveOK, CopyOK
      <4>2. Loaded' = copy[p]
        BY <1>0, <3>2 DEF RenameTmp, SaveOK, TmpOK, Loaded, Exit, KTypeOK
      <4> QED
        BY <4>1, <4>2
    <3> QED
      BY <2>1, <3>1, <3>2
  <2> QED
    BY <2>1, <2>3, <2>4, TextsTyped
<1>2. CASE signedOut
  <2>1. /\ Loaded.oidc = None
        /\ \A q \in Proc :
             /\ op[q] # "login"
             /\ kpc[q] \in Changes => op[q] \in {"store", "erase", "logout"}
             /\ kpc[q] \in Saves => copy[q].oidc = None
    BY <1>2 DEF LogoutOK
  <2>2. Loaded'.oidc = None
    BY <1>0, <2>1, LoadedStays, TextsTyped
  <2>3. HandOK(p)
    BY DEF HandsOK
  <2>4. op'[p] # "login"
    BY <2>1, SignsOut
  <2>5. kpc'[p] \in Changes => op'[p] \in {"store", "erase", "logout"}
    <3>1. CASE Run(p)
      BY <3>1, CredentialAssumption DEF Run, KGoto, KTypeOK, Commands
    <3>2. CASE ~Run(p) /\ kpc'[p] \in Changes
      <4>1. ~SignIn(p)
        BY <2>1, <2>3 DEF SignIn, HandOK
      <4>2. ~Refresh(p)
        BY <2>1, <2>3 DEF Refresh, HandOK
      <4>3. kpc'[p] # "refresh"
        <5> SUFFICES ASSUME kpc'[p] = "refresh" PROVE FALSE
          OBVIOUS
        <5>1. Get(p)
          BY Reaches
        <5> QED
          BY <5>1, <2>1 DEF Get, Exit, KGoto, KTypeOK
      <4>4. EndSession(p) \/ Load(p) \/ CreateTmp(p) \/ WriteTmp(p) \/ RemoveOld(p)
        BY <3>2, <4>1, <4>2, <4>3, Reaches
      <4>5. op' = op /\ (kpc[p] \in Changes \/ kpc[p] = "end")
        BY <4>4 DEF EndSession, Load, CreateTmp, WriteTmp, RemoveOld
      <4> QED
        BY <2>1, <2>3, <4>5 DEF HandOK
    <3> QED
      BY <3>1, <3>2
  <2>6. kpc'[p] \in Saves => copy'[p].oidc = None
    <3>1. CASE kpc'[p] = "create"
      <4>1. Load(p)
        BY <3>1, Reaches
      <4>2. op[p] \in {"store", "erase", "logout"}
        BY <4>1, <2>1 DEF Load
      <4>3. copy'[p] = Content(Loaded.oidc, TRUE) \/ copy'[p] = NoFile
        BY <3>1, <4>1, <4>2 DEF Load, PutFails, Exit, KGoto, KTypeOK
      <4> QED
        BY <4>3, <2>1, TextsTyped DEF Content
    <3>2. CASE kpc'[p] \in {"write", "remove", "rename"}
      BY <3>2, <2>1, Reaches DEF CreateTmp, WriteTmp, RemoveOld
    <3> QED
      BY <3>1, <3>2
  <2>7. ASSUME NEW q \in Proc \ {p}
        PROVE  /\ op'[q] # "login"
               /\ kpc'[q] \in Changes => op'[q] \in {"store", "erase", "logout"}
               /\ kpc'[q] \in Saves => copy'[q].oidc = None
    BY <2>1, <2>7, OthersStay
  <2> QED
    BY <2>2, <2>4, <2>5, <2>6, <2>7
<1> QED
  BY <1>1, <1>2
-----------------------------------------------------------------------------
(* Sessions that were begun                                                *)

LEMMA BegunInit == KInit => BegunOK
  BY TextsTyped DEF KInit, BegunOK, Begun

\* What a call has in its hands, and what it writes, was there before.
LEMMA CopyMoves ==
  ASSUME KTypeOK, NEW p \in Proc, KHandle(p)
  PROVE  \/ SignIn(p) \/ Refresh(p)
         \/ RefreshLost(p) /\ copy'[p].oidc = None
         \/ copy'[p].oidc \in {copy[p].oidc, Loaded.oidc, None} /\ issued' = issued
<1> USE TextsTyped DEF KTypeOK, KGoto, Exit, issuer
<1>1. CASE Run(p)
  BY <1>1 DEF Run
<1>3. CASE Cancel(p)
  BY <1>3 DEF Cancel
<1>4. CASE Get(p)
  BY <1>4 DEF Get
<1>5. CASE GetStatic(p)
  BY <1>5 DEF GetStatic
<1>7. CASE RefreshRefused(p)
  BY <1>7 DEF RefreshRefused
<1>8. CASE RefreshFails(p)
  BY <1>8 DEF RefreshFails
<1>9. CASE EndSession(p)
  BY <1>9 DEF EndSession
<1>10. CASE Load(p)
  <2>1. \/ copy'[p] = NoFile \/ copy'[p] = copy[p]
        \/ copy'[p] = Content(Loaded.oidc, TRUE)
        \/ copy'[p] = Content(copy[p].oidc, Loaded.static)
    BY <1>10 DEF Load, PutFails
  <2> QED
    BY <1>10, <2>1 DEF Load, Content
<1>11. CASE CreateTmp(p)
  BY <1>11 DEF CreateTmp
<1>12. CASE WriteTmp(p)
  BY <1>12 DEF WriteTmp
<1>17. CASE RefreshLost(p)
  BY <1>17 DEF RefreshLost
<1>18. CASE RemoveOld(p)
  BY <1>18 DEF RemoveOld
<1>13. CASE RenameTmp(p)
  BY <1>13 DEF RenameTmp, PutFails
<1>14. CASE SaveFails(p)
  BY <1>14 DEF SaveFails, PutFails
<1>15. CASE Kill(p)
  BY <1>15 DEF Kill
<1>16. CASE Exited(p)
  BY <1>16 DEF Exited
<1> QED
  BY <1>1, <1>3, <1>4, <1>5, <1>7, <1>8, <1>9, <1>10, <1>11, <1>12, <1>13, <1>14, <1>15, <1>16, <1>17, <1>18 DEF KHandle

LEMMA IssuedGrows ==
  ASSUME KTypeOK, NEW p \in Proc, KHandle(p), NEW c \in Credential \cup {None}, Begun(c)
  PROVE  Begun(c)'
<1>1. CASE SignIn(p)
  <2>1. PICK s \in Session : issued' = [issued EXCEPT ![s] = 1]
    BY <1>1, SignInTyped
  <2> QED
    BY <2>1 DEF Begun, KTypeOK, Credential
<1>2. CASE Refresh(p)
  <2>1. PICK s \in Session : issued[s] \in Nat /\ issued' = [issued EXCEPT ![s] = issued[s] + 1]
    BY <1>2, RefreshTyped
  <2> QED
    BY <2>1 DEF Begun, KTypeOK, Credential
<1>3. CASE RefreshLost(p)
  <2>1. PICK s \in Session : issued[s] \in Nat /\ issued' = [issued EXCEPT ![s] = issued[s] + 1]
    BY <1>3, RotateTyped DEF RefreshLost
  <2> QED
    BY <2>1 DEF Begun, KTypeOK, Credential
<1>4. CASE issued' = issued
  BY <1>4 DEF Begun
<1> QED
  BY <1>1, <1>2, <1>3, <1>4, CopyMoves

LEMMA BegunStep ==
  ASSUME KTypeOK, KTypeOK', BegunOK, NEW p \in Proc, KHandle(p)
  PROVE  BegunOK'
<1>1. ASSUME NEW c \in Credential \cup {None}, Begun(c) PROVE Begun(c)'
  BY <1>1, IssuedGrows
<1>2. /\ \A i \in Inode : data[i].oidc \in Credential \cup {None}
      /\ \A q \in Proc : copy[q].oidc \in Credential \cup {None}
      /\ Loaded.oidc \in Credential \cup {None}
  <2>1. \A f \in Contents \cup {Empty, Torn} : f.oidc \in Credential \cup {None}
    BY TextsTyped
  <2>2. Loaded \in Contents \cup {Empty, Torn}
    BY LoadedTyped
  <2> QED
    BY <2>1, <2>2 DEF KTypeOK
<1>3. Begun(Loaded.oidc)
  BY TextsTyped DEF BegunOK, Begun, Loaded, KTypeOK
<1>4. \A i \in Inode : Begun(data[i].oidc)'
  <2>1. \A i \in Inode : \E c \in Credential \cup {None} : Begun(c) /\ data'[i].oidc = c
    <3>1. CASE data' = data
      BY <3>1, <1>2 DEF BegunOK
    <3>2. CASE CreateTmp(p)
      <4>1. PICK j \in Inode : data' = [data EXCEPT ![j] = Empty]
        BY <3>2 DEF CreateTmp
      <4>2. \A i \in Inode : data'[i] = data[i] \/ data'[i].oidc = None
        BY <4>1, TextsTyped DEF KTypeOK
      <4> QED
        BY <4>2, <1>2 DEF BegunOK, Begun
    <3>3. CASE WriteTmp(p)
      <4>1. PICK f \in {copy[p], Torn} : data' = [data EXCEPT ![desc[p]] = f]
        BY <3>3 DEF WriteTmp
      <4>2. \A i \in Inode : data'[i] = data[i] \/ data'[i] \in {copy[p], Torn}
        BY <4>1 DEF KTypeOK
      <4> QED
        BY <4>2, <1>2, TextsTyped DEF BegunOK, Begun
    <3> QED
      BY <3>1, <3>2, <3>3, FilesStay DEF files, RenameTmp, RemoveOld
  <2> QED
    BY <1>1, <2>1 DEF Begun
<1>5. \A q \in Proc \ {p} : Begun(copy[q].oidc)'
  <2>1. \A q \in Proc \ {p} : copy'[q] = copy[q]
    BY OthersStay
  <2> QED
    BY <1>1, <1>2, <2>1 DEF BegunOK, Begun
<1>6. Begun(copy[p].oidc)'
  <2>1. CASE SignIn(p)
    <3>1. PICK s \in Session : issued' = [issued EXCEPT ![s] = 1] /\ copy'[p].oidc = <<s, 0>>
      BY <2>1, SignInTyped
    <3> QED
      BY <3>1 DEF Begun, KTypeOK
  <2>2. CASE Refresh(p)
    <3>1. PICK s \in Session : /\ issued[s] \in Nat
                               /\ issued' = [issued EXCEPT ![s] = issued[s] + 1]
                               /\ copy'[p].oidc = <<s, issued[s]>>
      BY <2>2, RefreshTyped
    <3> QED
      BY <3>1 DEF Begun, KTypeOK
  <2>3. CASE copy'[p].oidc \in {copy[p].oidc, Loaded.oidc, None} /\ issued' = issued
    BY <2>3, <1>3 DEF BegunOK, Begun
  <2>4. CASE copy'[p].oidc = None
    BY <2>4 DEF Begun
  <2> QED
    BY <2>1, <2>2, <2>3, <2>4, CopyMoves
<1> QED
  BY <1>4, <1>5, <1>6 DEF BegunOK
-----------------------------------------------------------------------------
(* A session keeps working                                                 *)

LEMMA TokensStep ==
  ASSUME TokensOK, setting' = setting, NEW p \in Proc, KHandle(p)
  PROVE  TokensOK'
<1> SUFFICES ASSUME ~setting.tokens PROVE live' = {}
  BY DEF TokensOK
<1>1. live = {}
  BY DEF TokensOK
<1>2. CASE live' = live
  BY <1>1, <1>2
<1>3. CASE SignIn(p) \/ EndSession(p)
  BY <1>1, <1>3 DEF SignIn, EndSession
<1>4. ~Refresh(p) /\ ~RefreshLost(p)
  BY <1>1 DEF Refresh, RefreshLost, Rotate
<1> QED
  BY <1>2, <1>3, <1>4 DEF KHandle, issuer, Run, Cancel, Get, GetStatic, RefreshRefused,
     RefreshFails, Load, CreateTmp, WriteTmp, RemoveOld, RenameTmp, SaveFails, Kill, Exited

LEMMA SessionInit == KInit => SessionOK /\ TokensOK
  BY TextsTyped DEF KInit, SessionOK, FileOK, HeldOK, Loaded, Saves, TokensOK

\* What is lost stays lost.
LEMMA LostGrows ==
  ASSUME NEW p \in Proc, KHandle(p)
  PROVE  lost \subseteq lost'
  BY DEF KHandle, Run, SignIn, Cancel, Get, GetStatic, Refresh, RefreshLost, RefreshRefused,
     RefreshFails, EndSession, Load, PutFails, CreateTmp, WriteTmp, RemoveOld, RenameTmp,
     SaveFails, Kill, Exited, Loses

\* Nobody but a refresh makes a refresh token that others hold an old one.
LEMMA GoodStays ==
  ASSUME KTypeOK, NEW p \in Proc, KHandle(p), ~Refresh(p),
         NEW c \in Credential, Begun(c), Good(c)
  PROVE  Good(c)'
<1>0. lost \subseteq lost'
  BY LostGrows
<1>1. CASE live' = live
  BY <1>0, <1>1 DEF Good
<1>2. CASE SignIn(p)
  <2>1. PICK s \in Session : /\ issued[s] = 0
                             /\ live' = live \cup (IF setting.tokens THEN {<<s, 0>>} ELSE {})
    BY <1>2, SignInTyped
  <2>2. c[1] # s
    <3>1. issued[c[1]] > 0
      BY NoneTyped DEF Begun
    <3> QED
      BY <2>1, <3>1
  <2> QED
    BY <1>0, <2>1, <2>2 DEF Good
<1>3. CASE EndSession(p)
  BY <1>0, <1>3 DEF EndSession, Good
<1>4. CASE RefreshLost(p)
  <2> DEFINE o == copy[p].oidc
  <2>1. /\ o \in live /\ lost' = lost \cup {o[1]}
        /\ live' = (IF Rotates THEN live \ {o} ELSE live) \cup {Renewed(o)}
        /\ Renewed(o)[1] = o[1]
    BY <1>4 DEF RefreshLost, Rotate, Renewed
  <2>2. CASE c[1] = o[1]
    BY <2>1, <2>2 DEF Good
  <2>3. CASE c[1] # o[1]
    BY <1>0, <2>1, <2>3 DEF Good
  <2> QED
    BY <2>2, <2>3
<1> QED
  BY <1>1, <1>2, <1>3, <1>4 DEF KHandle, issuer, Run, Cancel, Get, GetStatic, RefreshRefused,
     RefreshFails, Load, CreateTmp, WriteTmp, RemoveOld, RenameTmp, SaveFails, Kill, Exited

\* A call that has refreshed a token saves it, or the session is lost.
LEMMA UnsavedStays ==
  ASSUME KTypeOK, SaveOK, Saves \subseteq setting.turns,
         NEW p \in Proc, KHandle(p), ~RenameTmp(p), NEW q \in Proc, Unsaved(q)
  PROVE  \/ Unsaved(q)' /\ copy'[q].oidc = copy[q].oidc
         \/ copy[q].oidc[1] \in lost'
<1>1. CASE q # p
  BY <1>1, OthersStay DEF Unsaved
<1>2. CASE q = p
  <2>1. op[p] = "get" /\ kpc[p] \in {"load", "create", "write", "remove", "rename"}
    BY <1>2 DEF Unsaved, Saves
  <2>2. Readable(Loaded)
    BY DEF SaveOK
  <2>3. CASE SaveFails(p) \/ Kill(p)
    BY <1>2, <2>3 DEF SaveFails, Kill, PutFails, Loses
  <2>4. CASE Load(p)
    <3>1. /\ op' = op /\ kpc'[p] = "create"
          /\ copy'[p] = Content(copy[p].oidc, Loaded.static)
      BY <2>1, <2>2, <2>4 DEF Load, KGoto, KTypeOK
    <3> QED
      BY <1>2, <2>1, <3>1 DEF Unsaved, Saves, Content
  <2>5. CASE CreateTmp(p) \/ WriteTmp(p) \/ RemoveOld(p)
    <3>1. op' = op /\ kpc'[p] \in {"write", "remove", "rename"} /\ copy' = copy
      BY <2>5 DEF CreateTmp, WriteTmp, RemoveOld, KGoto, KTypeOK
    <3> QED
      BY <1>2, <2>1, <3>1 DEF Unsaved, Saves
  <2> QED
    BY <2>1, <2>3, <2>4, <2>5 DEF KHandle, Run, SignIn, Cancel, Get, GetStatic, Refresh,
       RefreshLost, RefreshRefused, RefreshFails, EndSession, Exited
<1> QED
  BY <1>1, <1>2

LEMMA SessionStep ==
  ASSUME KTypeOK, KTypeOK', InTurn, InTurn', HandsOK, SaveOK, BegunOK, TokensOK, TokensOK',
         SessionOK, setting' = setting, NEW p \in Proc, KHandle(p)
  PROVE  SessionOK'
<1> SUFFICES ASSUME Changes \subseteq setting.turns
             PROVE  FileOK' /\ HeldOK'
  BY DEF SessionOK
<1> USE DEF Changes, Saves
<1>0. Saves \subseteq setting.turns /\ FileOK /\ HeldOK
  BY DEF SessionOK
<1>1. \A q \in Proc : copy[q].oidc \in Credential \cup {None} /\ Begun(copy[q].oidc)
  BY TextsTyped DEF KTypeOK, BegunOK
<1>2. Loaded.oidc \in Credential \cup {None} /\ Begun(Loaded.oidc)
  BY LoadedTyped, TextsTyped DEF KTypeOK, BegunOK, Begun, Loaded
<1>3. HandOK(p)
  BY DEF HandsOK
<1>4. FileOK'
  <2> SUFFICES ASSUME Loaded'.oidc # None
               PROVE  \/ Good(Loaded.oidc)'
                      \/ \E q \in Proc : Unsaved(q)' /\ copy'[q].oidc[1] = Loaded'.oidc[1]
    BY DEF FileOK
  <2>1. CASE Refresh(p)
    <3>1. kpc[p] = "refresh" /\ kpc'[p] = "load" /\ op' = op /\ UNCHANGED files
      BY <2>1 DEF Refresh, KGoto, KTypeOK
    <3>2. Loaded' = Loaded /\ copy[p].oidc = Loaded.oidc
      BY <3>1, <1>0 DEF files, Loaded, HeldOK
    <3>3. copy'[p].oidc = <<copy[p].oidc[1], issued[copy[p].oidc[1]]>>
      BY <2>1, RefreshTyped
    <3>4. copy'[p].oidc[1] = copy[p].oidc[1]
      BY <3>3
    <3> QED
      BY <3>1, <3>2, <3>4, <1>3 DEF HandOK, Unsaved
  <2>2. CASE ~Refresh(p) /\ RenameTmp(p)
    <3>1. kpc[p] = "rename" /\ Loaded' = copy[p] /\ live' = live
      BY <2>2, <1>0 DEF RenameTmp, SaveOK, TmpOK, Loaded, issuer, Exit, KTypeOK
    <3>2. Good(copy[p].oidc)
      BY <3>1, <1>0 DEF HeldOK
    <3> QED
      BY <3>1, <3>2, LostGrows DEF Good
  <2>3. CASE ~Refresh(p) /\ ~RenameTmp(p)
    <3>1. Loaded' = Loaded
      BY <2>3, <1>0, LoadedStays, TextsTyped
    <3>2. CASE Good(Loaded.oidc)
      <4>1. Loaded.oidc \in Credential
        BY <3>1, <1>2
      <4> QED
        BY <2>3, <3>1, <3>2, <4>1, <1>2, GoodStays DEF Good
    <3>3. CASE \E q \in Proc : Unsaved(q) /\ copy[q].oidc[1] = Loaded.oidc[1]
      <4>1. PICK q \in Proc : Unsaved(q) /\ copy[q].oidc[1] = Loaded.oidc[1]
        BY <3>3
      <4>2. CASE Unsaved(q)' /\ copy'[q].oidc = copy[q].oidc
        BY <3>1, <4>1, <4>2
      <4>3. CASE copy[q].oidc[1] \in lost'
        BY <3>1, <4>1, <4>3 DEF Good
      <4> QED
        BY <2>3, <4>1, <4>2, <4>3, <1>0, UnsavedStays
    <3> QED
      BY <3>1, <3>2, <3>3, <1>0 DEF FileOK
  <2> QED
    BY <2>1, <2>2, <2>3
<1>5. ASSUME NEW q \in Proc \ {p}
      PROVE  /\ kpc'[q] = "refresh" => copy'[q].oidc = Loaded'.oidc
             /\ kpc'[q] = "load" /\ op'[q] \in {"get", "login"} => Good(copy[q].oidc)'
             /\ kpc'[q] \in Saves => copy'[q].oidc = None \/ Good(copy[q].oidc)'
  <2>1. kpc'[q] = kpc[q] /\ op'[q] = op[q] /\ copy'[q] = copy[q]
    BY <1>5, OthersStay
  <2>2. ASSUME kpc[q] \in Changes PROVE ~Refresh(p) /\ ~RenameTmp(p) /\ ~RemoveOld(p)
    BY <1>5, <2>2, OneChanger DEF Refresh, RenameTmp, RemoveOld
  <2>3. ASSUME kpc[q] = "refresh" PROVE copy'[q].oidc = Loaded'.oidc
    BY <2>1, <2>2, <2>3, <1>0, LoadedStays DEF HeldOK
  <2>4. ASSUME kpc[q] \in Changes, copy[q].oidc # None, Good(copy[q].oidc)
        PROVE  Good(copy[q].oidc)'
    <3>1. copy[q].oidc \in Credential /\ Begun(copy[q].oidc)
      BY <1>5, <2>4, <1>1
    <3>2. ~Refresh(p)
      BY <2>2, <2>4
    <3> QED
      BY <2>1, <2>4, <3>1, <3>2, GoodStays DEF Good
  <2>5. ASSUME kpc[q] = "load", op[q] \in {"get", "login"} PROVE Good(copy[q].oidc)'
    <3>1. Good(copy[q].oidc) /\ copy[q].oidc # None
      BY <1>5, <2>5, <1>0 DEF HeldOK, HandsOK, HandOK
    <3> QED
      BY <2>4, <2>5, <3>1
  <2>6. ASSUME kpc[q] \in Saves PROVE copy'[q].oidc = None \/ Good(copy[q].oidc)'
    <3>1. copy[q].oidc = None \/ Good(copy[q].oidc)
      BY <1>5, <2>6, <1>0 DEF HeldOK
    <3> QED
      BY <2>1, <2>4, <2>6, <3>1
  <2> QED
    BY <2>1, <2>3, <2>5, <2>6
<1>6. kpc'[p] = "refresh" => copy'[p].oidc = Loaded'.oidc
  <2> SUFFICES ASSUME kpc'[p] = "refresh" PROVE copy'[p].oidc = Loaded'.oidc
    OBVIOUS
  <2>1. Get(p)
    BY Reaches
  <2>2. copy'[p] = Loaded
    BY <2>1 DEF Get, Exit, KGoto, KTypeOK
  <2>3. Loaded' = Loaded
    BY <2>1 DEF Get, files, Loaded
  <2> QED
    BY <2>2, <2>3
<1>7. ASSUME kpc'[p] = "load", op'[p] \in {"get", "login"}
      PROVE  Good(copy[p].oidc)'
  <2>1. CASE SignIn(p)
    <3>1. CASE setting.tokens
      <4>1. copy'[p].oidc \in live'
        BY <2>1, <3>1, SignInTyped
      <4> QED
        BY <4>1 DEF Good
    <3>2. CASE ~setting.tokens
      BY <3>2 DEF TokensOK, Good
    <3> QED
      BY <3>1, <3>2
  <2>2. CASE Refresh(p)
    <3>1. copy'[p].oidc \in live'
      BY <2>2, RefreshTyped
    <3> QED
      BY <3>1 DEF Good
  <2>3. ~Run(p)
    BY <1>7, CredentialAssumption DEF Run, KGoto, KTypeOK, Commands
  <2>4. ~EndSession(p)
    BY <1>7, <1>3 DEF EndSession, HandOK
  <2> QED
    BY <1>7, <2>1, <2>2, <2>3, <2>4, Reaches
<1>8. ASSUME kpc'[p] \in Saves, copy'[p].oidc # None
      PROVE  Good(copy[p].oidc)'
  <2>1. CASE CreateTmp(p) \/ WriteTmp(p) \/ RemoveOld(p)
    <3>1. kpc[p] \in Saves /\ copy' = copy /\ live' = live
      BY <2>1 DEF CreateTmp, WriteTmp, RemoveOld, issuer
    <3>2. Good(copy[p].oidc)
      BY <3>1, <1>8, <1>0 DEF HeldOK
    <3> QED
      BY <3>1, <3>2, LostGrows DEF Good
  <2>2. CASE Load(p)
    <3>1. /\ kpc[p] = "load" /\ op[p] \in Commands /\ live' = live
          /\ op[p] = "store" => copy'[p] = Content(Loaded.oidc, TRUE)
          /\ op[p] \in {"erase", "logout"} => copy'[p] = NoFile
          /\ op[p] \notin {"store", "erase", "logout"}
               => copy'[p] = Content(copy[p].oidc, Loaded.static)
      BY <2>2, <1>3, <1>8 DEF Load, PutFails, Exit, KGoto, KTypeOK, HandOK, issuer
    <3>2. CASE op[p] = "store"
      <4>1. copy'[p].oidc = Loaded.oidc
        BY <3>1, <3>2 DEF Content
      <4>2. \A q \in Proc : ~Unsaved(q)
        <5> SUFFICES ASSUME NEW q \in Proc, Unsaved(q) PROVE FALSE
          OBVIOUS
        <5>1. q = p
          BY <3>1, OneChanger DEF Unsaved
        <5> QED
          BY <5>1, <3>2 DEF Unsaved
      <4>3. Good(Loaded.oidc)
        BY <4>1, <4>2, <1>0, <1>8 DEF FileOK
      <4> QED
        BY <3>1, <4>1, <4>3, LostGrows DEF Good
    <3>3. CASE op[p] \in {"erase", "logout"}
      BY <3>1, <3>3, <1>8, TextsTyped
    <3>4. CASE op[p] \in {"get", "login"}
      <4>1. copy'[p].oidc = copy[p].oidc
        BY <3>1, <3>4 DEF Content
      <4>2. Good(copy[p].oidc)
        BY <3>1, <3>4, <1>0 DEF HeldOK
      <4> QED
        BY <3>1, <4>1, <4>2, LostGrows DEF Good
    <3> QED
      BY <3>1, <3>2, <3>3, <3>4 DEF Commands
  <2> QED
    BY <1>8, <2>1, <2>2, Reaches
<1> QED
  BY <1>4, <1>5, <1>6, <1>7, <1>8 DEF HeldOK
-----------------------------------------------------------------------------
(* The theorems                                                            *)

LEMMA KInvInit == KInit => KInv
<1> SUFFICES ASSUME KInit PROVE KInv
  OBVIOUS
<1>1. InTurn
  <2>1. "idle" \notin setting.turns
    BY CredentialAssumption DEF KInit
  <2> QED
    BY <2>1 DEF KInit, InTurn
<1> QED
  BY <1>1, TypeInit, HandsInit, SaveInit, LogoutInit, BegunInit, SessionInit DEF KInv

LEMMA KInvStep == KInv /\ [KNext]_kvars => KInv'
<1> SUFFICES ASSUME KInv, [KNext]_kvars PROVE KInv'
  OBVIOUS
<1>1. KTypeOK'
  BY TypeStep DEF KInv
<1>2. CASE UNCHANGED kvars \/ (Expire /\ UNCHANGED setting)
  <2>1. UNCHANGED <<files, kpc, op, copy, desc, issuer, signedOut, lost, setting>>
    BY <1>2 DEF kvars, Expire
  <2> QED
    BY <1>1, <2>1 DEF KInv, files, issuer, InTurn, HandsOK, HandOK, SaveOK, TmpOK, CopyOK,
       LogoutOK, BegunOK, Begun, TokensOK, SessionOK, FileOK, HeldOK, Good, Unsaved, Loaded,
       Readable
<1>3. ASSUME NEW p \in Proc, KHandle(p), InTurn', UNCHANGED setting PROVE KInv'
  BY <1>1, <1>3, HandsStep, SaveStep, LogoutStep, BegunStep, TokensStep, SessionStep DEF KInv
<1> QED
  BY <1>2, <1>3 DEF KNext

LEMMA Invariant == KSpec => []KInv
  BY KInvInit, KInvStep, PTL DEF KSpec

\* Who is told that a session is over.
LEMMA Expired ==
  ASSUME KTypeOK, NEW p \in Proc, KHandle(p), NEW q \in Proc,
         answer[q] # "expired", answer'[q] = "expired"
  PROVE  q = p /\ RefreshRefused(p)
<1> USE DEF KTypeOK, Exit
<1>1. CASE Run(p)
  BY <1>1 DEF Run
<1>2. CASE SignIn(p)
  BY <1>2 DEF SignIn
<1>3. CASE Cancel(p)
  BY <1>3 DEF Cancel
<1>4. CASE Get(p)
  BY <1>4 DEF Get
<1>5. CASE GetStatic(p)
  BY <1>5 DEF GetStatic
<1>6. CASE Refresh(p)
  BY <1>6 DEF Refresh
<1>7. CASE RefreshRefused(p)
  BY <1>7 DEF RefreshRefused
<1>8. CASE RefreshFails(p)
  BY <1>8 DEF RefreshFails
<1>9. CASE EndSession(p)
  BY <1>9 DEF EndSession
<1>10. CASE Load(p)
  BY <1>10 DEF Load, PutFails
<1>11. CASE CreateTmp(p)
  BY <1>11 DEF CreateTmp
<1>12. CASE WriteTmp(p)
  BY <1>12 DEF WriteTmp
<1>17. CASE RefreshLost(p)
  BY <1>17 DEF RefreshLost
<1>18. CASE RemoveOld(p)
  BY <1>18 DEF RemoveOld
<1>13. CASE RenameTmp(p)
  BY <1>13 DEF RenameTmp, PutFails
<1>14. CASE SaveFails(p)
  BY <1>14 DEF SaveFails, PutFails
<1>15. CASE Kill(p)
  BY <1>15 DEF Kill
<1>16. CASE Exited(p)
  BY <1>16, CredentialAssumption DEF Exited, Answers
<1> QED
  BY <1>1, <1>2, <1>3, <1>4, <1>5, <1>6, <1>7, <1>8, <1>9, <1>10, <1>11, <1>12, <1>13, <1>14, <1>15, <1>16, <1>17, <1>18 DEF KHandle

\* The model's types: each name stands for an inode and they never share one, and
\* a call has in its hands what a file can hold.
THEOREM CredentialsTyped == KSpec => []KTypeOK
<1>1. KInv => KTypeOK
  BY DEF KInv
<1> QED
  BY <1>1, Invariant, PTL

\* save: however many calls there are and wherever they are killed or fail, if no
\* two save at once the file is there as a whole or not at all.
THEOREM FilesWhole == KSpec => []NeverHalfWritten
<1>1. KInv => NeverHalfWritten
  BY DEF KInv, SaveOK, NeverHalfWritten, Loaded
<1> QED
  BY <1>1, Invariant, PTL

\* Put, PutStatic and save: for any number of calls, of which no two save at once,
\* a session that is on file is replaced by a session, and lost to a logout only;
\* or, on Windows, to a call that ends between its removal and its rename.
THEOREM SignInsKept == KSpec => SignInKept
<1> DEFINE A == Saves \subseteq setting.turns /\ SignedIn
                => \/ SignedIn' \/ LostBetween
                   \/ \E p \in Proc : op[p] \in {"erase", "logout"}
<1>1. KInv /\ [KNext]_kvars => A
  <2> SUFFICES ASSUME KInv, [KNext]_kvars, Saves \subseteq setting.turns, SignedIn,
                      ~LostBetween, \A p \in Proc : op[p] \notin {"erase", "logout"}
               PROVE  SignedIn'
    OBVIOUS
  <2> USE DEF Saves
  <2>1. setting' = setting
    BY DEF KNext, kvars
  <2>2. CASE UNCHANGED kvars \/ Expire
    BY <2>1, <2>2 DEF kvars, Expire, files, SignedIn, Loaded
  <2>3. ASSUME NEW p \in Proc, KHandle(p) PROVE SignedIn'
    <3>1. kpc[p] \in Saves => op[p] \in {"get", "login", "store"}
      BY DEF KInv, HandsOK, HandOK, Commands
    <3>2. CASE Loaded.oidc # None /\ Loaded' = Loaded
      BY <3>2 DEF SignedIn
    <3>3. CASE Loaded.oidc # None /\ RemoveOld(p) /\ path' = None
      <4>1. kpc[p] = "remove" /\ kpc'[p] = "rename" /\ copy' = copy
        BY <3>3 DEF RemoveOld, KGoto, KInv, KTypeOK
      <4>2. setting.windows
        BY <4>1 DEF KInv, SaveOK, CopyOK
      <4>3. copy[p].oidc # None
        BY <3>1, <3>3, <4>1 DEF KInv, HandsOK, HandOK, SaveOK, CopyOK
      <4> QED
        BY <2>1, <3>3, <4>1, <4>2, <4>3 DEF SignedIn
    <3>4. CASE Loaded.oidc # None /\ RenameTmp(p) /\ Loaded' = copy[p]
      <4>1. path # None /\ kpc[p] = "rename"
        BY <3>4 DEF Loaded, NoFile, Content, RenameTmp
      <4>2. copy[p].oidc # None
        BY <3>1, <3>4, <4>1 DEF KInv, HandsOK, HandOK, SaveOK, CopyOK
      <4> QED
        BY <3>4, <4>2 DEF SignedIn
    <3>5. ASSUME setting.windows, path = None,
                 NEW q \in Proc, kpc[q] = "rename", copy[q].oidc # None
          PROVE  SignedIn'
      <4>0. KTypeOK /\ InTurn
        BY DEF KInv
      <4>1. CASE p # q
        <5>1. kpc'[q] = "rename" /\ copy'[q] = copy[q]
          BY <2>3, <3>5, <4>0, <4>1, OthersStay
        <5>2. kpc[p] \notin Saves
          BY <3>5, <4>0, <4>1, OneSaver
        <5>3. path' = path
          BY <2>3, <5>2, FilesStay DEF files, CreateTmp, WriteTmp, RemoveOld, RenameTmp, SaveFails
        <5> QED
          BY <2>1, <3>5, <5>1, <5>3 DEF SignedIn
      <4>2. CASE p = q
        <5>1. kpc'[p] # "done"
          BY <3>5, <4>2 DEF LostBetween
        <5>2. kpc[p] = "rename" /\ kpc \in [Proc -> Stages]
          BY <3>5, <4>0, <4>2 DEF KTypeOK
        <5>3. ~SaveFails(p) /\ ~Kill(p)
          BY <5>1, <5>2 DEF SaveFails, PutFails, Kill, Exit, KGoto
        <5>4. RenameTmp(p)
          BY <2>3, <5>2, <5>3 DEF KHandle, Run, SignIn, Cancel, Get, GetStatic, Refresh,
             RefreshLost, RefreshRefused, RefreshFails, EndSession, Load, CreateTmp, WriteTmp,
             RemoveOld, Exited
        <5>5. tmp # None /\ data[tmp] = copy[p]
          BY <5>2 DEF KInv, SaveOK, TmpOK
        <5>6. path' = tmp /\ data' = data
          BY <5>4, <5>5 DEF RenameTmp
        <5> QED
          BY <3>5, <4>2, <5>5, <5>6 DEF SignedIn, Loaded
      <4> QED
        BY <4>1, <4>2
    <3>6. CASE Loaded.oidc # None
      BY <2>3, <3>2, <3>3, <3>4, <3>6, LoadedStays DEF KInv
    <3> QED
      BY <3>5, <3>6 DEF SignedIn
  <2> QED
    BY <2>2, <2>3 DEF KNext
<1>2. KInv /\ [KNext]_kvars => [A]_kvars
  BY <1>1
<1> QED
  BY <1>2, Invariant, PTL DEF KSpec, SignInKept

\* Forget and logout: for any number of calls, if no two are between a refresh, or
\* the load, and the rename, a session is back on file only after a new sign-in.
THEOREM LogoutsLast == KSpec => []LoggedOutStaysOut
<1>1. KInv => LoggedOutStaysOut
  BY DEF KInv, LogoutOK, LoggedOutStaysOut
<1> QED
  BY <1>1, Invariant, PTL

\* Refresh and Put: for any number of calls that do not overlap there, wherever they
\* are killed or fail and replies are lost, and for an issuer that retires refresh
\* tokens or does not, a refresh is refused only if its whole session is over, or if
\* a token of that session was rotated and never saved.
THEOREM SessionsKeepWorking == KSpec => SessionKeepsWorking
<1> DEFINE A == Changes \subseteq setting.turns =>
                  \A p \in Proc : answer[p] # "expired" /\ answer'[p] = "expired"
                    => LET s == copy[p].oidc[1] IN s \in lost \/ \A c \in live : c[1] # s
<1>1. KInv /\ [KNext]_kvars => A
  <2> SUFFICES ASSUME KInv, [KNext]_kvars, Changes \subseteq setting.turns,
                      NEW q \in Proc, answer[q] # "expired", answer'[q] = "expired"
               PROVE  copy[q].oidc[1] \in lost \/ \A c \in live : c[1] # copy[q].oidc[1]
    OBVIOUS
  <2>1. PICK p \in Proc : KHandle(p)
    BY DEF KNext, kvars, Expire
  <2>2. q = p /\ RefreshRefused(p)
    BY <2>1, Expired DEF KInv
  <2>3. kpc[p] = "refresh" /\ copy[p].oidc \notin live
    BY <2>2 DEF RefreshRefused
  <2>4. FileOK /\ HeldOK
    BY DEF KInv, SessionOK
  <2>5. copy[p].oidc = Loaded.oidc /\ copy[p].oidc # None
    BY <2>3, <2>4 DEF HeldOK, KInv, HandsOK, HandOK
  <2>6. \A r \in Proc : ~Unsaved(r)
    <3> SUFFICES ASSUME NEW r \in Proc, Unsaved(r) PROVE FALSE
      OBVIOUS
    <3>1. kpc[r] \in Changes /\ kpc[p] \in Changes /\ kpc[r] # "refresh"
      BY <2>3 DEF Unsaved, Changes, Saves
    <3> QED
      BY <2>3, <3>1, OneChanger DEF KInv
  <2> QED
    BY <2>2, <2>3, <2>4, <2>5, <2>6 DEF FileOK, Good
<1>2. KInv /\ [KNext]_kvars => [A]_kvars
  BY <1>1
<1> QED
  BY <1>2, Invariant, PTL DEF KSpec, SessionKeepsWorking
=============================================================================
