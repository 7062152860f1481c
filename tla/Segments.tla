------------------------------ MODULE Segments ------------------------------
(***************************************************************************)
(* What one session's spool directory adds up to: the order of its        *)
(* segments, the collapse of adjacent repeats, and the facts about the     *)
(* session that recovery decides on (complete, too large, where it ran).   *)
(*                                                                         *)
(* A segment is the pair the file is named after: the millisecond it was   *)
(* observed at and the digest of its payload.  Two hooks that write the    *)
(* same payload in the same millisecond therefore write the same file.     *)
(* The sorted vector of the source is a set here; the index of a segment   *)
(* in that vector is its Position, the number of segments before it.       *)
(***************************************************************************)
EXTENDS Integers, FiniteSets, FiniteSetsExt

CONSTANTS
  Payload,              \* normalized hook payloads
  Digest,               \* [Payload -> Nat], injective: the order of the hex digests
  SessionEnds,          \* the payloads whose kind is SessionEnd
  Length,               \* [Payload -> Nat]: bytes of the canonical payload
  MaxTrajectoryBytes,   \* the ceiling on the bytes of one trajectory
  Repository,           \* repositories a working directory can lie in
  Cwd,                  \* the repository of a payload's cwd, Outside or Unset
  Outside,              \* a cwd that is in no repository
  Unset                 \* an empty cwd

ASSUME DigestAssumption ==
  /\ Digest \in [Payload -> Nat]
  /\ \A p, q \in Payload : Digest[p] = Digest[q] => p = q

ASSUME PayloadAssumption ==
  /\ SessionEnds \subseteq Payload
  /\ Length \in [Payload -> Nat]
  /\ MaxTrajectoryBytes \in Nat
  /\ Outside \notin Repository
  /\ Unset \notin Repository \cup {Outside}
  /\ Cwd \in [Payload -> Repository \cup {Outside, Unset}]

Segment == [at : Nat, payload : Payload]

\* The order of the file names, and of the sort after verification:
\* the order key, then the digest.
Before(x, y) ==
  \/ x.at < y.at
  \/ x.at = y.at /\ Digest[x.payload] < Digest[y.payload]

\* The segment of V that a walk in that order meets first.
IsFirst(x, V) == \A y \in V \ {x} : Before(x, y)

\* x follows, with nothing but repeats of its payload in between, a segment
\* with the same payload.
Repeats(V, x) ==
  \E y \in V :
    /\ Before(y, x)
    /\ y.payload = x.payload
    /\ \A z \in V : Before(y, z) /\ Before(z, x) => z.payload = x.payload

Accepted(V) == {x \in V : ~Repeats(V, x)}

Duplicates(V) == Cardinality(V) - Cardinality(Accepted(V))

Position(A, x) == Cardinality({y \in A : Before(y, x)})

Complete(A) == \E x \in A : x.payload \in SessionEnds

TooLarge(A) == MapThenSumSet(LAMBDA x : Length[x.payload], A) > MaxTrajectoryBytes

\* The first cwd that is not empty; discovery fails outside a repository,
\* and on the empty path when no payload carries a cwd.
WorkingDirectory(A) ==
  LET placed == {x \in A : Cwd[x.payload] # Unset}
      first  == {x \in placed : IsFirst(x, placed)}
  IN  IF first = {} THEN Outside ELSE Cwd[(CHOOSE x \in first : TRUE).payload]
=============================================================================
