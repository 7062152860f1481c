------------------------- MODULE RecorderProperties -------------------------
(***************************************************************************)
(* What the recorder must do: the invariants and action properties of      *)
(* every behaviour, those of the regime the documentation assumes, the     *)
(* archive it implements, and the inductive invariant behind the proofs.   *)
(***************************************************************************)
EXTENDS Recorder

(***************************************************************************)
(* The regime the documentation assumes: recovery runs while no hook does, *)
(* and two events of a session are observed at least a millisecond apart.  *)
(* Processes still die anywhere, sessions are reused, commits are made,    *)
(* and recover processes still run side by side.                           *)
(***************************************************************************)
NobodyRecovers == \A r \in Recoverer : At(r, "idle")
NoHookRuns     == \A h \in Hook : hook[h] = Nothing

Apart ==
  /\ (NobodyRecovers \/ NoHookRuns)'
  /\ (\E h \in Hook : hook[h] = Nothing /\ hook'[h] # Nothing) => now' > now

\* The user runs recovery again and again, every process is scheduled, and
\* hooks end.  Nothing obliges anyone to commit, to fire a hook or to die.
QuietSpec ==
  /\ Init
  /\ [][Next /\ Apart]_vars
  /\ \A h \in Hook : WF_vars(HookPublish(h))
  /\ \A r \in Recoverer :
       /\ WF_vars(NoHookRuns /\ RecoverBegin(r))
       /\ WF_vars(RecoverStep(r))

-----------------------------------------------------------------------------
(* Invariants and action properties of every behaviour.                    *)

\* A trajectory is only ever made of a session that was seen to end
\* (finalize refuses an aggregate without a SessionEnd).
CompleteOnly ==
  \A sid \in SessionId :
    Stored(sid) => \E id \in trajectories[sid].events : id.payload \in SessionEnds

\* The rows of a session's events are numbered 0, 1, 2 ... without a gap or a
\* second row, whoever wrote them and wherever a run died.
SequencesDense ==
  /\ \A e, f \in events :
       e.id.session = f.id.session /\ e.id.sequence = f.id.sequence => e = f
  /\ \A e \in events : \A k \in 0 .. e.id.sequence :
       \E f \in StoredEvents(e.id.session) : f.id.sequence = k

\* A stored trajectory has at least a row for each of its positions.
TrajectoryCovered ==
  \A sid \in SessionId : Stored(sid) =>
    \A id \in trajectories[sid].events :
      \E e \in StoredEvents(sid) : e.id.sequence = id.sequence

\* Metrics belong to a trajectory, a trajectory and events to a session, a
\* session to a repository: no insert ever meets a missing parent.
ParentsStored ==
  /\ \A sid \in SessionId :
       /\ metrics[sid] # Nothing => Stored(sid)
       /\ Stored(sid) => sessions[sid] # Nothing
       /\ sessions[sid] # Nothing => sid[1] \in repositories
  /\ \A e \in events : sessions[e.id.session] # Nothing

\* Rows are written once: sessions, events and trajectories never change.
RowsWrittenOnce ==
  [][ /\ events \subseteq events'
      /\ \A sid \in SessionId :
           /\ sessions[sid] # Nothing => sessions'[sid] = sessions[sid]
           /\ Stored(sid) => trajectories'[sid] = trajectories[sid] ]_vars

\* A segment leaves the spool for the quarantine, or because the trajectory of
\* its session is stored, or with a directory in which nothing was accepted.
SpoolClearedLast ==
  [][ \A s \in Session : \A f \in spool[s] \ spool'[s] :
        \/ f \in quarantine'[s]
        \/ \E repository \in Repository : Stored(<<repository, s>>)
        \/ \E r \in Recoverer : /\ At(r, "discard")
                                /\ run[r].session = s
                                /\ Aggregate(r) = {} ]_vars

-----------------------------------------------------------------------------
(* What holds of one recover process at a time, and not of two.            *)

\* The numbers of a trajectory are those a recomputation from the stored
\* events would give (the comment on the last part of finalize).
MetricsMatchEvents ==
  \A sid \in SessionId : metrics[sid] # Nothing =>
    metrics[sid].events = Cardinality(StoredEvents(sid))

\* An oversize session is recorded once in the health events.
OversizeRecordedOnce == \A s \in Session : health.oversize[s] <= 1

-----------------------------------------------------------------------------
(* What holds in the quiet regime.                                         *)

\* The segments a stored trajectory stands for: the rows of its events.
Contents(sid) ==
  {[at |-> e.at, payload |-> e.id.payload] :
     e \in {x \in StoredEvents(sid) : x.id \in trajectories[sid].events}}

\* Every event a trajectory names is a stored row.
TrajectoryEventsStored ==
  \A sid \in SessionId : Stored(sid) =>
    trajectories[sid].events \subseteq {e.id : e \in events}

\* A trajectory is stored with everything its session's hooks acknowledged,
\* less what was quarantined and adjacent repeats.
WholeSession ==
  [][ \A sid \in SessionId : ~Stored(sid) /\ Stored(sid)' =>
        Accepted(acknowledged[sid[2]] \ quarantine[sid[2]]) \subseteq Contents(sid)' ]_vars

\* Until its session is stored, a segment whose hook reported success is in
\* the spool or in quarantine.
AcknowledgedKept ==
  \A s \in Session :
    (\A repository \in Repository : ~Stored(<<repository, s>>)) =>
      acknowledged[s] \subseteq spool[s] \cup quarantine[s]

\* Every session that was seen to end, and that recovery can place and afford,
\* is stored and its directory removed.
Recovered(s) ==
  /\ \E repository \in Repository : Stored(<<repository, s>>)
  /\ s \notin directories

Recoverable(s) ==
  LET accepted == Accepted(acknowledged[s])
  IN  /\ Complete(accepted)
      /\ ~TooLarge(accepted)
      /\ WorkingDirectory(accepted) # Outside

EventuallyRecovered == \A s \in Session : Recoverable(s) ~> Recovered(s)

\* What a killed discard leaves of a stored session is drained in the end.
ResidueDrained ==
  \A sid \in SessionId : Stored(sid) ~> sid[2] \notin directories

\* A run always ends.
RunsEnd == \A r \in Recoverer : ~At(r, "idle") ~> At(r, "idle")

\* The abstract archive: the taped segments are the acknowledged ones, and a
\* session is archived when its trajectory is inserted.
ArchivedContents(s) ==
  LET stored == {sid \in Repository \X {s} : Stored(sid)}
  IN  IF stored = {} THEN Nothing ELSE Contents(CHOOSE sid \in stored : TRUE)

Promise == INSTANCE Archive WITH
  taped <- acknowledged,
  archived <- [s \in Session |-> ArchivedContents(s)]

ImplementsArchive == Promise!Spec

-----------------------------------------------------------------------------
(* What the documentation says and the code does not do.                   *)

\* Whatever recovery set aside and did not store shows in the metrics of the
\* session or in a health event.
LossVisible ==
  \A sid \in SessionId : metrics[sid] # Nothing =>
    \A f \in quarantine[sid[2]] :
      \/ f \in Contents(sid)
      \/ metrics[sid].quarantined > 0
      \/ health.quarantined > 0

\* The ownership check of export_snapshot accepts every stored trajectory.
ExportAccepts ==
  \A sid \in SessionId : metrics[sid] # Nothing =>
    /\ metrics[sid].head = trajectories[sid].head
    /\ metrics[sid].head = sessions[sid]

\* The events of a trajectory are in the order they were fired in; for
\* scripts that fire no payload twice.
FiredAs(s, p) == CHOOSE i \in 1 .. Len(Script[s]) : Script[s][i] = p

ObservedOrder ==
  \A sid \in SessionId : Stored(sid) =>
    \A a, b \in trajectories[sid].events :
      a.sequence < b.sequence => FiredAs(sid[2], a.payload) < FiredAs(sid[2], b.payload)

-----------------------------------------------------------------------------
(***************************************************************************)
(* The inductive invariant: what each step of a recover process relies on. *)
(***************************************************************************)
Past(r, labels) == run[r].pc \in labels

\* The labels at which the repository has been discovered.
Identified ==
  {"open", "finalize", "repository", "existing", "session", "put session", "list", "events",
   "health", "metrics", "put metrics"}

FiniteState ==
  /\ IsFiniteSet(events)
  /\ \A s \in Session : IsFiniteSet(spool[s])
  /\ \A r \in Recoverer : IsFiniteSet(run[r].unread) /\ IsFiniteSet(run[r].verified)

\* A process that has entered the loop body has a session, and one that has
\* discovered a repository has an identity.
Located ==
  \A r \in Recoverer :
    /\ ~Past(r, {"idle", "next"}) => run[r].session \in Session
    /\ Past(r, Identified) => run[r].identity \in [repository : Repository, head : Nat]

\* What finalize has established when it reaches a step.
Established(r) ==
  /\ Past(r, {"finalize", "repository", "existing", "session", "put session", "list", "events",
              "health", "metrics", "put metrics"}) => Complete(Aggregate(r))
  /\ Past(r, {"existing", "session", "put session", "list", "events", "health", "metrics",
              "put metrics"}) => run[r].identity.repository \in repositories
  /\ Past(r, {"list", "events", "health", "metrics", "put metrics"}) =>
       sessions[Sid(r)] # Nothing
  /\ Past(r, {"health", "metrics", "put metrics"}) => Stored(Sid(r))

\* The loop over the events has left a row at every position before the cursor.
CursorCovered(r) ==
  Past(r, {"events"}) =>
    /\ \A k \in run[r].known : \E e \in StoredEvents(Sid(r)) : e.id.sequence = k
    /\ \A k \in 0 .. run[r].cursor - 1 : \E e \in StoredEvents(Sid(r)) : e.id.sequence = k

\* A directory is only discarded when nothing in it was accepted, or after the
\* trajectory of its session is stored.
DiscardJustified(r) ==
  Past(r, {"discard"}) =>
    \/ Aggregate(r) = {}
    \/ /\ run[r].identity \in [repository : Repository, head : Nat]
       /\ Stored(Sid(r))

IInv ==
  /\ TypeOK
  /\ FiniteState
  /\ Located
  /\ \A r \in Recoverer : Established(r) /\ CursorCovered(r) /\ DiscardJustified(r)
  /\ CompleteOnly
  /\ SequencesDense
  /\ TrajectoryCovered
  /\ ParentsStored
=============================================================================
