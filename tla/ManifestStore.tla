--------------------------- MODULE ManifestStore ---------------------------
(***************************************************************************)
(* What the manifest half of the registry promises while nobody deletes,   *)
(* without files and handlers: a manifest becomes visible at once and      *)
(* stays, a tag names one that is visible, an acknowledged push is there,  *)
(* and whoever pulls a tag or lists referrers is given what the store held *)
(* at one moment of the call.  Where files may be unreadable, it is told    *)
(* less, or nothing; where somebody deletes, nothing is promised.          *)
(***************************************************************************)
CONSTANTS Client,
          Manifest,
          Subject,   \* manifest -> the one it is attached to, or None
          Tag,
          None

VARIABLES stored,    \* manifests that are visible
          tags,      \* what each tag names, or None
          promised,  \* manifests whose push was acknowledged
          reads,     \* of each client: what it has asked for and seen, or None
          mode       \* never changed: whether anybody deletes, the store crashes, files
             \* cannot be read

vars == <<stored, tags, promised, reads, mode>>

\* What a client that asked for o has seen, and whether it has been told.
Sight(o, s, told) == [of |-> o, seen |-> s, told |-> told]

Init ==
  /\ stored = {} /\ promised = {}
  /\ tags = [t \in Tag |-> None]
  /\ reads = [c \in Client |-> None]
  /\ mode \in [deletes : BOOLEAN, crashes : BOOLEAN, fails : BOOLEAN]

Push(m) ==
  /\ stored' = stored \cup {m}
  /\ promised' \in {promised, promised \cup {m}}
  /\ UNCHANGED <<tags, reads>>

Point(t, m) ==
  /\ m \in stored
  /\ tags' = [tags EXCEPT ![t] = m]
  /\ promised' = promised \cup {m}
  /\ UNCHANGED <<stored, reads>>

Untag(t) ==
  /\ tags' = [tags EXCEPT ![t] = None]
  /\ UNCHANGED <<stored, promised, reads>>

See(c, o, s) ==
  /\ reads[c] = None
  /\ reads' = [reads EXCEPT ![c] = Sight(o, s, FALSE)]
  /\ UNCHANGED <<stored, tags, promised>>

Pull(c, t) == tags[t] # None /\ See(c, t, {tags[t]})

Referrers(c, m) == See(c, m, {n \in stored : Subject[n] = m})

Tell(c, o, s, u) ==
  /\ reads[c] = Sight(o, s, FALSE)
  /\ u = s \/ (mode.fails /\ u \subseteq s)
  /\ reads' = [reads EXCEPT ![c] = Sight(o, u, TRUE)]
  /\ UNCHANGED <<stored, tags, promised>>

Lose(c) ==
  /\ mode.fails
  /\ reads' = [reads EXCEPT ![c] = None]
  /\ UNCHANGED <<stored, tags, promised>>

Leave(c) ==
  /\ \E o \in Tag \cup Manifest, s \in SUBSET Manifest : reads[c] = Sight(o, s, TRUE)
  /\ reads' = [reads EXCEPT ![c] = None]
  /\ UNCHANGED <<stored, tags, promised>>

Crash ==
  /\ mode.crashes
  /\ reads' = [c \in Client |-> None]
  /\ UNCHANGED <<stored, tags, promised>>

Next ==
  /\ UNCHANGED mode
  /\ \/ mode.deletes
     \/ \E m \in Manifest : Push(m) \/ \E t \in Tag : Point(t, m)
     \/ \E t \in Tag : Untag(t)
     \/ \E c \in Client :
          \/ \E t \in Tag : Pull(c, t)
          \/ \E m \in Manifest : Referrers(c, m)
          \/ \E o \in Tag \cup Manifest, s, u \in SUBSET Manifest : Tell(c, o, s, u)
          \/ Lose(c)
          \/ Leave(c)
     \/ Crash

Spec == Init /\ [][Next]_vars
=============================================================================
