----------------------------- MODULE Retention -----------------------------
(***************************************************************************)
(* What happens to a session after it is stored: operators hold and        *)
(* release it, annotate its trajectory, link the trajectory into a corpus  *)
(* or a group, and prune what is old or too much.                          *)
(*                                                                         *)
(* Each command reads the database first and then runs one transaction     *)
(* that takes the writer's lock, so a command is two steps, and the        *)
(* transactions of other commands and of recovery fall between them.  A    *)
(* killed command is one that never takes its second step.                 *)
(*                                                                         *)
(* A session has at most one trajectory, whose identifier is derived from  *)
(* the session's: trajectories are named by their session.                 *)
(***************************************************************************)
EXTENDS Integers, Sequences, FiniteSets

CONSTANTS
  Session,          \* session identifiers
  IdOrder,          \* [Session -> Nat], injective: the order of the identifiers
  EndedAt,          \* [Session -> Nat \cup {Open}]: milliseconds
  Open,             \* a session that has not ended
  SessionBytes,     \* [Session -> Nat]: logical bytes of the session row
  TrajectoryBytes,  \* [Session -> Nat]: of its events, trajectory and metrics
  AnnotationBytes,  \* of one annotation
  ReferenceKind,    \* the tables that link a trajectory
  Reason,           \* an operator with a rationale
  AnnotationId,
  Policy,           \* pairs of an age cutoff and a ceiling on the logical bytes
  Command,          \* commands that can run at the same time
  Nothing,          \* no row, no command
  MaxAudit          \* bound: audit rows written or about to be

ASSUME RetentionAssumption ==
  /\ IdOrder \in [Session -> Nat]
  /\ \A s, t \in Session : IdOrder[s] = IdOrder[t] => s = t
  /\ Open \notin Nat
  /\ EndedAt \in [Session -> Nat \cup {Open}]
  /\ SessionBytes \in [Session -> Nat]
  /\ TrajectoryBytes \in [Session -> Nat]
  /\ AnnotationBytes \in Nat
  /\ Policy \subseteq [cutoff : Int, maxBytes : Nat]
  /\ MaxAudit \in Nat
  /\ Nothing \notin Session \cup Reason \cup AnnotationId

Row == [session : Session, revision : Nat \ {0}]

HoldCommand     == [op : {"hold", "release"}, session : Session, reason : Reason]
AnnotateCommand == [op : {"annotate"}, session : Session, revision : Nat \ {0},
                    id : AnnotationId]
PruneCommand    == [op : {"apply", "dry run"}, policy : Policy]

ASSUME NoRowAssumption ==
  Nothing \notin Row \cup HoldCommand \cup AnnotateCommand \cup PruneCommand

VARIABLES
  sessions,      \* sessions that are stored
  trajectories,  \* sessions whose trajectory is stored
  references,    \* references[s]: tables that link the trajectory of s
  hold,          \* hold[s]: who holds s and why, or Nothing
  audit,         \* the audit log, in insertion order
  annotations,   \* annotations[id]: the annotation stored under id, or Nothing
  current,       \* current[s]: identifier of the current annotation, or Nothing
  command        \* command[c]: what command c is about to commit, or Nothing

evidenceVars == <<sessions, trajectories, references>>
noteVars == <<annotations, current>>
vars == <<evidenceVars, hold, audit, noteVars, command>>

Init ==
  /\ sessions = {}
  /\ trajectories = {}
  /\ references = [s \in Session |-> {}]
  /\ hold = [s \in Session |-> Nothing]
  /\ audit = <<>>
  /\ annotations = [id \in AnnotationId |-> Nothing]
  /\ current = [s \in Session |-> Nothing]
  /\ command = [c \in Command |-> Nothing]

Begin(c, what) ==
  /\ command[c] = Nothing
  /\ command' = [command EXCEPT ![c] = what]

End(c) == command' = [command EXCEPT ![c] = Nothing]

Runs(c, ops) == command[c] # Nothing /\ command[c].op \in ops

\* The bound on the audit log.
Room ==
  Len(audit) + Cardinality({c \in Command : Runs(c, {"hold", "release", "apply"})})
    < MaxAudit

Audited(action, s, reason) ==
  audit' = Append(audit, [action |-> action, session |-> s, reason |-> reason])

-----------------------------------------------------------------------------
(* Recovery stores a session, and stores it again after a prune if its     *)
(* directory is still in the spool; other programs link its trajectory.    *)

StoreSession(s) ==
  /\ s \notin sessions
  /\ sessions' = sessions \cup {s}
  /\ UNCHANGED <<trajectories, references, hold, audit, noteVars, command>>

\* The events and the metrics are counted with the trajectory.
StoreTrajectory(s) ==
  /\ s \in sessions \ trajectories
  /\ trajectories' = trajectories \cup {s}
  /\ UNCHANGED <<sessions, references, hold, audit, noteVars, command>>

Link(s, kind) ==
  /\ s \in trajectories
  /\ kind \notin references[s]
  /\ references' = [references EXCEPT ![s] = @ \cup {kind}]
  /\ UNCHANGED <<sessions, trajectories, hold, audit, noteVars, command>>

-----------------------------------------------------------------------------
(* corpus hold and corpus release.                                         *)

\* get_session finds the session.
HoldBegin(c, op, s, reason) ==
  /\ s \in sessions
  /\ Room
  /\ Begin(c, [op |-> op, session |-> s, reason |-> reason])
  /\ UNCHANGED <<evidenceVars, hold, audit, noteVars>>

\* Mutant: ON CONFLICT DO NOTHING.
HoldKeepsFirst(c) ==
  LET s == command[c].session
      reason == command[c].reason
  IN  /\ Runs(c, {"hold"})
      /\ IF s \in sessions /\ hold[s] # reason
         THEN /\ hold' = [hold EXCEPT ![s] = IF @ = Nothing THEN reason ELSE @]
              /\ Audited("hold", s, reason)
         ELSE UNCHANGED <<hold, audit>>
      /\ End(c)
      /\ UNCHANGED <<evidenceVars, noteVars>>

\* A hold of the same operator for the same reason is left alone; another one
\* is replaced; a session deleted meanwhile is refused by the foreign key.
HoldCommit(c) ==
  LET s == command[c].session
      reason == command[c].reason
  IN  /\ Runs(c, {"hold"})
      /\ IF s \in sessions /\ hold[s] # reason
         THEN /\ hold' = [hold EXCEPT ![s] = reason]
              /\ Audited("hold", s, reason)
         ELSE UNCHANGED <<hold, audit>>
      /\ End(c)
      /\ UNCHANGED <<evidenceVars, noteVars>>

ReleaseCommit(c) ==
  LET s == command[c].session
  IN  /\ Runs(c, {"release"})
      /\ IF hold[s] # Nothing
         THEN /\ hold' = [hold EXCEPT ![s] = Nothing]
              /\ Audited("release", s, command[c].reason)
         ELSE UNCHANGED <<hold, audit>>
      /\ End(c)
      /\ UNCHANGED <<evidenceVars, noteVars>>

-----------------------------------------------------------------------------
(* trace annotate.                                                         *)

CurrentRevision(s) ==
  IF current[s] = Nothing THEN 0 ELSE annotations[current[s]].revision

\* Mutant: the current revision itself.
SameRevision(s) == CurrentRevision(s)

NextRevision(s) == CurrentRevision(s) + 1

\* The revision is read and an identifier drawn before the transaction.
AnnotateBegin(c, s, id) ==
  /\ s \in trajectories
  /\ Begin(c, [op |-> "annotate", session |-> s, revision |-> NextRevision(s), id |-> id])
  /\ UNCHANGED <<evidenceVars, hold, audit, noteVars>>

\* Mutant: the revision that was read is trusted.
AppendableUnchecked(c) ==
  /\ annotations[command[c].id] = Nothing
  /\ command[c].session \in trajectories
  /\ \A id \in AnnotationId : annotations[id] # Nothing =>
       annotations[id] # [session |-> command[c].session, revision |-> command[c].revision]

\* Mutant: INSERT OR REPLACE.
AppendableReplacing(c) ==
  /\ command[c].session \in trajectories
  /\ command[c].revision = NextRevision(command[c].session)

\* The identifier is unused, the revision still follows the current one, and
\* the trajectory has not been deleted meanwhile.
Appendable(c) ==
  /\ annotations[command[c].id] = Nothing
  /\ command[c].revision = NextRevision(command[c].session)
  /\ command[c].session \in trajectories

AnnotateCommit(c) ==
  /\ Runs(c, {"annotate"})
  /\ IF Appendable(c)
     THEN /\ annotations' = [annotations EXCEPT ![command[c].id] =
               [session |-> command[c].session, revision |-> command[c].revision]]
          /\ current' = [current EXCEPT ![command[c].session] = command[c].id]
     ELSE UNCHANGED noteVars
  /\ End(c)
  /\ UNCHANGED <<evidenceVars, hold, audit>>

-----------------------------------------------------------------------------
(***************************************************************************)
(* corpus prune: the plan of two passes over the sessions, oldest first    *)
(* and open ones last, and the transaction that carries it out.            *)
(***************************************************************************)
History(s) == {id \in AnnotationId : annotations[id] # Nothing /\ annotations[id].session = s}

Bytes(s) ==
  SessionBytes[s]
    + (IF s \in trajectories THEN TrajectoryBytes[s] ELSE 0)
    + AnnotationBytes * Cardinality(History(s))

Octets(s) == {s} \X (1 .. Bytes(s))

TotalBytes(S) == Cardinality(UNION {Octets(s) : s \in S})

Ended(s) == EndedAt[s] # Open

\* Mutant: the order of the timestamps alone is turned round.
NewestFirst(s, t) ==
  IF Ended(s) /\ Ended(t) THEN EndedAt[s] > EndedAt[t] ELSE Ended(s) /\ ~Ended(t)

Precedes(s, t) ==
  \/ Ended(s) /\ ~Ended(t)
  \/ Ended(s) /\ Ended(t) /\ EndedAt[s] < EndedAt[t]
  \/ EndedAt[s] = EndedAt[t] /\ IdOrder[s] < IdOrder[t]

\* Mutant: the query does not ask for links.
ProtectedByHoldOnly(s) == ~Ended(s) \/ hold[s] # Nothing

Protected(s) == ~Ended(s) \/ hold[s] # Nothing \/ references[s] # {}

Aged(p) == {s \in sessions : Ended(s) /\ EndedAt[s] <= p.cutoff}

\* The second pass reaches s with everything left but the unprotected sessions
\* before it, and takes it when that is still too much.
Excess(p) ==
  LET young == sessions \ Aged(p)
  IN  {s \in young :
         /\ ~Protected(s)
         /\ TotalBytes({t \in young : Protected(t) \/ ~Precedes(t, s)}) > p.maxBytes}

Selected(p) == Aged(p) \cup Excess(p)

\* Mutant: the size is not looked at again after the second pass.
AgedProtected(p) == \E s \in Aged(p) : Protected(s)

\* The limits cannot be met without deleting a protected session.
Unmet(p) ==
  \/ \E s \in Aged(p) : Protected(s)
  \/ TotalBytes(sessions \ Selected(p)) > p.maxBytes

\* The instant, and with it the cutoff, is pinned before the database is opened.
PruneBegin(c, op, p) ==
  /\ Room
  /\ Begin(c, [op |-> op, policy |-> p])
  /\ UNCHANGED <<evidenceVars, hold, audit, noteVars>>

\* Mutant: the annotations of a trajectory are left.
DeleteButAnnotations(S) ==
  /\ current' = [s \in Session |-> IF s \in S THEN Nothing ELSE current[s]]
  /\ trajectories' = trajectories \ S
  /\ hold' = [s \in Session |-> IF s \in S THEN Nothing ELSE hold[s]]
  /\ sessions' = sessions \ S
  /\ UNCHANGED <<references, annotations>>

\* The rows that belong to the sessions of S; links are not among them.
DeleteSessionUnits(S) ==
  /\ current' = [s \in Session |-> IF s \in S THEN Nothing ELSE current[s]]
  /\ annotations' = [id \in AnnotationId |->
       IF \E s \in S : id \in History(s) THEN Nothing ELSE annotations[id]]
  /\ trajectories' = trajectories \ S
  /\ hold' = [s \in Session |-> IF s \in S THEN Nothing ELSE hold[s]]
  /\ sessions' = sessions \ S
  /\ UNCHANGED references

\* One audit row for the whole prune, even of no session.
PruneApply(c) ==
  /\ Runs(c, {"apply"})
  /\ ~Unmet(command[c].policy)
  /\ DeleteSessionUnits(Selected(command[c].policy))
  /\ Audited("prune", Nothing, Nothing)
  /\ End(c)

\* retention_limit_unmet_protected, or a dry run: nothing is written.
PruneNothing(c) ==
  /\ \/ Runs(c, {"apply"}) /\ Unmet(command[c].policy)
     \/ Runs(c, {"dry run"})
  /\ End(c)
  /\ UNCHANGED <<evidenceVars, hold, audit, noteVars>>

-----------------------------------------------------------------------------
Stores ==
  \E s \in Session :
    \/ StoreSession(s)
    \/ StoreTrajectory(s)
    \/ \E kind \in ReferenceKind : Link(s, kind)

Commands(c) ==
  \/ \E op \in {"hold", "release"}, s \in Session, reason \in Reason :
       HoldBegin(c, op, s, reason)
  \/ \E s \in Session, id \in AnnotationId : AnnotateBegin(c, s, id)
  \/ \E op \in {"apply", "dry run"}, p \in Policy : PruneBegin(c, op, p)
  \/ HoldCommit(c)
  \/ ReleaseCommit(c)
  \/ AnnotateCommit(c)
  \/ PruneApply(c)
  \/ PruneNothing(c)

Next == Stores \/ \E c \in Command : Commands(c)

Spec == Init /\ [][Next]_vars

-----------------------------------------------------------------------------
\* Every variable holds what the code can put there; a revision is never zero
\* (the CHECK of the annotation tables).
AuditRow ==
  [action : {"hold", "release", "prune"}, session : Session \cup {Nothing},
   reason : Reason \cup {Nothing}]

TypeOK ==
  /\ sessions \in SUBSET Session
  /\ trajectories \in SUBSET Session
  /\ references \in [Session -> SUBSET ReferenceKind]
  /\ hold \in [Session -> Reason \cup {Nothing}]
  /\ audit \in Seq(AuditRow)
  /\ annotations \in [AnnotationId -> Row \cup {Nothing}]
  /\ current \in [Session -> AnnotationId \cup {Nothing}]
  /\ command \in
       [Command -> HoldCommand \cup AnnotateCommand \cup PruneCommand \cup {Nothing}]

\* Every row a table links to is there: deleting the rows of a session leaves
\* nothing that a foreign key would refuse to orphan.
RowsResolve ==
  /\ trajectories \subseteq sessions
  /\ \A s \in Session :
       /\ hold[s] # Nothing => s \in sessions
       /\ references[s] # {} => s \in trajectories
       /\ History(s) # {} => s \in trajectories

\* The audit log explains the holds: a session is held exactly when the last
\* row about it is a hold, by that operator for that reason (commands that
\* change nothing write no row, and no prune takes a held session).
AuditExplainsHolds ==
  \A s \in Session, reason \in Reason :
    hold[s] = reason <=>
      \E i \in 1 .. Len(audit) :
        /\ audit[i] = [action |-> "hold", session |-> s, reason |-> reason]
        /\ \A j \in i + 1 .. Len(audit) : audit[j].session # s

\* The annotations of a trajectory are the revisions 1 .. n, one each, and the
\* current one is the last: no command overwrites or skips another's.
RevisionsDense ==
  \A s \in Session :
    /\ \A a, b \in History(s) : annotations[a].revision = annotations[b].revision => a = b
    /\ \A a \in History(s) : \A k \in 1 .. annotations[a].revision :
         \E b \in History(s) : annotations[b].revision = k
    /\ current[s] = Nothing => History(s) = {}
    /\ current[s] # Nothing =>
         /\ current[s] \in History(s)
         /\ \A a \in History(s) : annotations[a].revision <= annotations[current[s]].revision

\* Records are immutable: an annotation changes only when it is deleted with
\* the session it belongs to.
AnnotationsKept ==
  [][ \A id \in AnnotationId :
        annotations[id] # Nothing /\ annotations'[id] # annotations[id] =>
          annotations'[id] = Nothing /\ annotations[id].session \notin sessions' ]_vars

\* A held, open or linked session is never deleted, nor what belongs to it,
\* whenever its hold or link arrived.
ProtectedKept ==
  [][ \A s \in sessions :
        EndedAt[s] = Open \/ hold[s] # Nothing \/ references[s] # {} =>
          /\ s \in sessions'
          /\ s \in trajectories => s \in trajectories' ]_vars

\* What an applied prune did, seen from outside: it wrote its audit row.
Applied(c) == Runs(c, {"apply"}) /\ command'[c] = Nothing /\ audit' # audit
Refused(c) == Runs(c, {"apply"}) /\ command'[c] = Nothing /\ audit' = audit

\* An applied prune meets both limits; a refused one could not have: some aged
\* session is protected, or the protected sessions alone exceed the ceiling.
LimitsMetOrRefused ==
  [][ \A c \in Command :
        /\ Applied(c) =>
             /\ \A s \in sessions' : Ended(s) => EndedAt[s] > command[c].policy.cutoff
             /\ TotalBytes(sessions)' <= command[c].policy.maxBytes
        /\ Refused(c) =>
             \/ \E s \in Aged(command[c].policy) : Protected(s)
             \/ TotalBytes({s \in sessions : Protected(s)}) > command[c].policy.maxBytes ]_vars

\* Size deletes the oldest sessions it may and no more than it must: whatever
\* unprotected session is left is younger than what was taken, and giving back
\* the youngest taken for its size would exceed the ceiling again.
OldestAndNoMore ==
  [][ \A c \in Command : Applied(c) =>
        LET p == command[c].policy
            taken == sessions \ sessions'
            forSize == taken \ Aged(p)
        IN  /\ \A s \in taken, t \in sessions' :
                 ~Protected(t) =>
                   /\ EndedAt[s] <= EndedAt[t]
                   /\ EndedAt[s] = EndedAt[t] => IdOrder[s] < IdOrder[t]
            /\ \A s \in forSize :
                 (\A t \in forSize \ {s} : EndedAt[t] <= EndedAt[s]
                    /\ (EndedAt[t] = EndedAt[s] => IdOrder[t] < IdOrder[s])) =>
                   TotalBytes(sessions') + Bytes(s) > p.maxBytes ]_vars
=============================================================================
