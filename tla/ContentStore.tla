---------------------------- MODULE ContentStore ----------------------------
(***************************************************************************)
(* What the blob half of the registry promises, without files, locks or    *)
(* request handlers: upload sessions that only grow while they are open,   *)
(* close exactly once, and turn into a blob only under the digest of       *)
(* everything that was appended to them.                                   *)
(***************************************************************************)
EXTENDS Sequences

CONSTANTS Id,       \* upload sessions
          Byte,     \* what an upload is made of
          Digest,   \* names of blobs
          Hash(_),  \* digest of a sequence of bytes
          None

VARIABLES status,   \* of each session: unused, open or closed
          data,     \* what has been appended to each session
          blobs     \* content stored under each digest, or None

vars == <<status, data, blobs>>

Init ==
  /\ status = [i \in Id |-> "unused"]
  /\ data = [i \in Id |-> <<>>]
  /\ blobs = [d \in Digest |-> None]

Begin(i) ==
  /\ status[i] = "unused"
  /\ status' = [status EXCEPT ![i] = "open"]
  /\ UNCHANGED <<data, blobs>>

Extend(i, b) ==
  /\ status[i] = "open"
  /\ data' = [data EXCEPT ![i] = Append(@, b)]
  /\ UNCHANGED <<status, blobs>>

Commit(i, d) ==
  /\ status[i] = "open"
  /\ Hash(data[i]) = d
  /\ status' = [status EXCEPT ![i] = "closed"]
  /\ blobs' = [blobs EXCEPT ![d] = data[i]]
  /\ UNCHANGED data

Discard(i) ==
  /\ status[i] = "open"
  /\ status' = [status EXCEPT ![i] = "closed"]
  /\ UNCHANGED <<data, blobs>>

Remove(d) ==
  /\ blobs' = [blobs EXCEPT ![d] = None]
  /\ UNCHANGED <<status, data>>

Next ==
  \/ \E i \in Id : Begin(i) \/ Discard(i)
  \/ \E i \in Id, b \in Byte : Extend(i, b)
  \/ \E i \in Id, d \in Digest : Commit(i, d)
  \/ \E d \in Digest : Remove(d)

Spec == Init /\ [][Next]_vars
=============================================================================
