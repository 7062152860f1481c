------------------------------ MODULE Recorder ------------------------------
(***************************************************************************)
(* The recorder: hook processes that spool one segment file per event, and *)
(* `agent-jit store recover` processes that turn complete sessions into    *)
(* rows of the database and delete their spool directories.                *)
(*                                                                         *)
(* The spool is a set of files and the database commits each insert on its *)
(* own, so a recover process can die between any two of its steps, and     *)
(* hooks and other recover processes run between them.                     *)
(***************************************************************************)
EXTENDS Segments, Sequences

CONSTANTS
  Session,      \* session keys chosen by the runtime
  Script,       \* [Session -> Seq(Payload)]: the hooks the runtime fires, in order
  Hook,         \* hook processes that can run at the same time
  Recoverer,    \* recover processes that can run at the same time
  Dead,         \* stands for the temporary file of a killed hook
  Nothing,      \* no row, no identity
  MaxCommits,   \* bound: commits made in each repository
  MaxDamage,    \* bound: segment files altered on disk
  MaxDeaths,    \* bound: recover and hook processes killed
  MaxRefused    \* bound: hook payloads refused before they reach the spool

SessionId == Repository \X Session

EventIdType == [session : SessionId, sequence : Nat, payload : Payload]

TrajectoryType == [events : SUBSET EventIdType, head : Nat]

ASSUME RecorderAssumption ==
  /\ Script \in [Session -> Seq(Payload)]
  /\ Dead \notin Hook
  /\ Nothing \notin Nat \cup TrajectoryType
  /\ {MaxCommits, MaxDamage, MaxDeaths, MaxRefused} \subseteq Nat

VARIABLES
  \* the runtime and the checkout
  now,          \* wall clock, in milliseconds
  fired,        \* fired[s]: hooks of Script[s] that have been started
  head,         \* head[r]: number of the commit checked out in repository r
  \* hook processes
  hook,         \* hook[h]: the event hook h is writing, or Nothing
  faultLines,   \* lines of the health spool
  \* the segment spool
  directories,  \* sessions that have a directory
  spool,        \* spool[s]: segment files in the directory of s
  damaged,      \* damaged[s]: those of them that fail verification
  temporary,    \* temporary[s]: hooks with a .tmp- file in the directory of s
  quarantine,   \* quarantine[s]: segments of s moved to the quarantine directory
  \* the database
  repositories, sessions, events, trajectories, metrics, health,
  \* recover processes
  run,          \* run[r]: where process r is and what it holds in memory
  \* what has been spent of the bounds, and history
  damages, deaths,
  acknowledged  \* history: acknowledged[s]: segments whose hook reported success

runtimeVars == <<now, fired, head>>
hookVars    == <<hook, faultLines>>
spoolVars   == <<directories, spool, damaged, temporary, quarantine>>
rowVars     == <<repositories, sessions, events, trajectories>>
storeVars   == <<rowVars, metrics, health>>
historyVars == <<damages, deaths, acknowledged>>
vars == <<runtimeVars, hookVars, spoolVars, storeVars, run, historyVars>>

-----------------------------------------------------------------------------
(***************************************************************************)
(* Identifiers are derived: a session's from its repository and key, an    *)
(* event's from its session, sequence and payload, a trajectory's from its *)
(* session, so trajectories and metrics are indexed by session.            *)
(***************************************************************************)
EventId(sid, seq, p) == [session |-> sid, sequence |-> seq, payload |-> p]

StoredEvents(sid) == {e \in events : e.id.session = sid}

Stored(sid) == trajectories[sid] # Nothing

\* One recover process: pc names the step it takes next, the rest is what it
\* holds in memory about the session it is working on.
Fresh(label, todo) ==
  [pc |-> label, todo |-> todo, session |-> Nothing, unread |-> {}, verified |-> {},
   lost |-> 0, identity |-> Nothing, known |-> {}, cursor |-> 0]

Idle == Fresh("idle", {})

At(r, label) == run[r].pc = label

Aggregate(r) == Accepted(run[r].verified)

Sid(r) == <<run[r].identity.repository, run[r].session>>

\* The loop goes on with the next session, the run ends.
Leave(r)  == run' = [run EXCEPT ![r] = Fresh("next", run[r].todo)]
EndRun(r) == run' = [run EXCEPT ![r] = Idle]
GoTo(r, label) == run' = [run EXCEPT ![r].pc = label]

ClearTemporaryFiles(s) == temporary' = [temporary EXCEPT ![s] = {}]

Init ==
  /\ now = 0
  /\ fired = [s \in Session |-> 0]
  /\ head = [r \in Repository |-> 0]
  /\ hook = [h \in Hook |-> Nothing]
  /\ faultLines = 0
  /\ directories = {}
  /\ spool = [s \in Session |-> {}]
  /\ damaged = [s \in Session |-> {}]
  /\ temporary = [s \in Session |-> {}]
  /\ quarantine = [s \in Session |-> {}]
  /\ repositories = {}
  /\ sessions = [sid \in SessionId |-> Nothing]
  /\ events = {}
  /\ trajectories = [sid \in SessionId |-> Nothing]
  /\ metrics = [sid \in SessionId |-> Nothing]
  /\ health = [quarantined |-> 0, duplicates |-> 0, oversize |-> [s \in Session |-> 0]]
  /\ run = [r \in Recoverer |-> Idle]
  /\ damages = 0
  /\ deaths = 0
  /\ acknowledged = [s \in Session |-> {}]

-----------------------------------------------------------------------------
(* Hook processes and the world around them.                               *)

\* The runtime fires the next hook of session s; the process reads the clock,
\* which has moved by elapsed since the last reading, creates the session
\* directory and writes its temporary file.
HookBegin(h, s, elapsed) ==
  LET p == Script[s][fired[s] + 1]
  IN  /\ hook[h] = Nothing
      /\ fired[s] < Len(Script[s])
      /\ now' = now + elapsed
      /\ fired' = [fired EXCEPT ![s] = @ + 1]
      /\ hook' = [hook EXCEPT ![h] = [session |-> s, segment |-> [at |-> now', payload |-> p]]]
      /\ directories' = directories \cup {s}
      /\ temporary' = [temporary EXCEPT ![s] = @ \cup {h}]
      /\ UNCHANGED <<head, faultLines, spool, damaged, quarantine, storeVars, run,
                     historyVars>>

\* The rename: the segment appears whole, replacing a file of the same name.
HookPublish(h) ==
  /\ hook[h] # Nothing
  /\ h \in temporary[hook[h].session]
  /\ LET s == hook[h].session
         f == hook[h].segment
     IN  /\ spool' = [spool EXCEPT ![s] = @ \cup {f}]
         /\ damaged' = [damaged EXCEPT ![s] = @ \ {f}]
         /\ temporary' = [temporary EXCEPT ![s] = @ \ {h}]
         /\ acknowledged' = [acknowledged EXCEPT ![s] = @ \cup {f}]
  /\ hook' = [hook EXCEPT ![h] = Nothing]
  /\ UNCHANGED <<runtimeVars, faultLines, directories, quarantine, storeVars, run,
                 damages, deaths>>

\* A recover process removed the temporary file: the rename fails, the hook
\* appends a line to the health spool and exits zero.
HookFault(h) ==
  /\ hook[h] # Nothing
  /\ h \notin temporary[hook[h].session]
  /\ faultLines' = faultLines + 1
  /\ hook' = [hook EXCEPT ![h] = Nothing]
  /\ UNCHANGED <<runtimeVars, spoolVars, storeVars, run, historyVars>>

\* The payload is refused before anything is written.
HookRefuse(s) ==
  /\ fired[s] < Len(Script[s])
  /\ faultLines < MaxRefused
  /\ fired' = [fired EXCEPT ![s] = @ + 1]
  /\ faultLines' = faultLines + 1
  /\ UNCHANGED <<now, head, hook, spoolVars, storeVars, run, historyVars>>

\* The hook is killed before its rename; its temporary file stays behind.
HookDie(h) ==
  /\ hook[h] # Nothing
  /\ deaths < MaxDeaths
  /\ LET s == hook[h].session
     IN  temporary' = [temporary EXCEPT ![s] =
                         IF h \in @ THEN (@ \ {h}) \cup {Dead} ELSE @]
  /\ hook' = [hook EXCEPT ![h] = Nothing]
  /\ deaths' = deaths + 1
  /\ UNCHANGED <<runtimeVars, faultLines, directories, spool, damaged, quarantine,
                 storeVars, run, damages, acknowledged>>

\* A segment file is altered or truncated on disk.
Damage(s, f) ==
  /\ f \in spool[s] \ damaged[s]
  /\ damages < MaxDamage
  /\ damaged' = [damaged EXCEPT ![s] = @ \cup {f}]
  /\ damages' = damages + 1
  /\ UNCHANGED <<runtimeVars, hookVars, directories, spool, temporary, quarantine,
                 storeVars, run, deaths, acknowledged>>

\* A commit is made in repository r.
Commit(r) ==
  /\ head[r] < MaxCommits
  /\ head' = [head EXCEPT ![r] = @ + 1]
  /\ UNCHANGED <<now, fired, hookVars, spoolVars, storeVars, run, historyVars>>

-----------------------------------------------------------------------------
(* A recover process: the loop over the sessions that have a directory.    *)

RecoverBegin(r) ==
  /\ At(r, "idle")
  /\ run' = [run EXCEPT ![r] = Fresh("next", directories)]
  /\ UNCHANGED <<runtimeVars, hookVars, spoolVars, storeVars, historyVars>>

RecoverEnd(r) ==
  /\ At(r, "next")
  /\ run[r].todo = {}
  /\ EndRun(r)
  /\ UNCHANGED <<runtimeVars, hookVars, spoolVars, storeVars, historyVars>>

\* read_session lists the directory; a missing one reads as empty.
ListSegments(r, s) ==
  /\ At(r, "next")
  /\ s \in run[r].todo
  /\ run' = [run EXCEPT ![r].pc = "read", ![r].todo = @ \ {s},
                        ![r].session = s, ![r].unread = spool[s]]
  /\ UNCHANGED <<runtimeVars, hookVars, spoolVars, storeVars, historyVars>>

\* The listed files are verified in name order.
ReadIntact(r, f) ==
  /\ At(r, "read")
  /\ f \in run[r].unread
  /\ IsFirst(f, run[r].unread)
  /\ f \in spool[run[r].session] \ damaged[run[r].session]
  /\ run' = [run EXCEPT ![r].unread = @ \ {f}, ![r].verified = @ \cup {f}]
  /\ UNCHANGED <<runtimeVars, hookVars, spoolVars, storeVars, historyVars>>

\* A file that fails verification is moved aside at once.
ReadDamaged(r, f) ==
  LET s == run[r].session
  IN  /\ At(r, "read")
      /\ f \in run[r].unread
      /\ IsFirst(f, run[r].unread)
      /\ f \in spool[s] \cap damaged[s]
      /\ spool' = [spool EXCEPT ![s] = @ \ {f}]
      /\ damaged' = [damaged EXCEPT ![s] = @ \ {f}]
      /\ quarantine' = [quarantine EXCEPT ![s] = @ \cup {f}]
      /\ run' = [run EXCEPT ![r].unread = @ \ {f}, ![r].lost = @ + 1]
      /\ UNCHANGED <<runtimeVars, hookVars, directories, temporary, storeVars, historyVars>>

\* Another recover process removed the file: it can neither be read nor moved,
\* and the session is skipped.
ReadMissing(r, f) ==
  /\ At(r, "read")
  /\ f \in run[r].unread
  /\ IsFirst(f, run[r].unread)
  /\ f \notin spool[run[r].session]
  /\ ClearTemporaryFiles(run[r].session)
  /\ Leave(r)
  /\ UNCHANGED <<runtimeVars, hookVars, directories, spool, damaged, quarantine,
                 storeVars, historyVars>>

\* Nothing was accepted: the directory is drained.
AggregateEmpty(r) ==
  /\ At(r, "read")
  /\ run[r].unread = {}
  /\ Aggregate(r) = {}
  /\ GoTo(r, "discard")
  /\ UNCHANGED <<runtimeVars, hookVars, spoolVars, storeVars, historyVars>>

\* Mutant: has_health_event is not asked.
AggregateTooLargeAgain(r) ==
  /\ At(r, "read")
  /\ run[r].unread = {}
  /\ TooLarge(Aggregate(r))
  /\ GoTo(r, "oversize")
  /\ UNCHANGED <<runtimeVars, hookVars, spoolVars, storeVars, historyVars>>

\* The session exceeds the ceiling: has_health_event looks for its record.
AggregateTooLarge(r) ==
  /\ At(r, "read")
  /\ run[r].unread = {}
  /\ TooLarge(Aggregate(r))
  /\ IF health.oversize[run[r].session] = 0
     THEN /\ GoTo(r, "oversize")
          /\ UNCHANGED temporary
     ELSE /\ ClearTemporaryFiles(run[r].session)
          /\ Leave(r)
  /\ UNCHANGED <<runtimeVars, hookVars, directories, spool, damaged, quarantine,
                 storeVars, historyVars>>

RecordOversize(r) ==
  /\ At(r, "oversize")
  /\ health' = [health EXCEPT !.oversize[run[r].session] = @ + 1]
  /\ ClearTemporaryFiles(run[r].session)
  /\ Leave(r)
  /\ UNCHANGED <<runtimeVars, hookVars, directories, spool, damaged, quarantine,
                 rowVars, metrics, historyVars>>

Aggregated(r) ==
  /\ At(r, "read")
  /\ run[r].unread = {}
  /\ Aggregate(r) # {}
  /\ ~TooLarge(Aggregate(r))

\* The working directory is in no repository: the session is skipped.
SkipOutside(r) ==
  /\ Aggregated(r)
  /\ WorkingDirectory(Aggregate(r)) = Outside
  /\ Leave(r)
  /\ UNCHANGED <<runtimeVars, hookVars, spoolVars, storeVars, historyVars>>

\* Mutant: a session without a SessionEnd is finalized.
DiscoverUnended(r) ==
  /\ Aggregated(r)
  /\ WorkingDirectory(Aggregate(r)) # Outside
  /\ LET repository == WorkingDirectory(Aggregate(r))
     IN  run' = [run EXCEPT
           ![r].pc = "finalize",
           ![r].identity = [repository |-> repository, head |-> head[repository]]]
  /\ UNCHANGED <<runtimeVars, hookVars, spoolVars, storeVars, historyVars>>

\* The repository is discovered, with the commit checked out at this moment.
Discover(r) ==
  /\ Aggregated(r)
  /\ WorkingDirectory(Aggregate(r)) # Outside
  /\ LET repository == WorkingDirectory(Aggregate(r))
     IN  run' = [run EXCEPT
           ![r].pc = IF Complete(Aggregate(r)) THEN "finalize" ELSE "open",
           ![r].identity = [repository |-> repository, head |-> head[repository]]]
  /\ UNCHANGED <<runtimeVars, hookVars, spoolVars, storeVars, historyVars>>

\* No SessionEnd, but the trajectory is stored: residue of a killed discard.
DrainResidue(r) ==
  /\ At(r, "open")
  /\ Stored(Sid(r))
  /\ GoTo(r, "discard")
  /\ UNCHANGED <<runtimeVars, hookVars, spoolVars, storeVars, historyVars>>

\* Mutant: the directory of a pending session is drained as well.
DrainPending(r) ==
  /\ At(r, "open")
  /\ ~Stored(Sid(r))
  /\ GoTo(r, "discard")
  /\ UNCHANGED <<runtimeVars, hookVars, spoolVars, storeVars, historyVars>>

\* Mutant: a pending session is tried again by the same run.
RetryPending(r) ==
  /\ At(r, "open")
  /\ ~Stored(Sid(r))
  /\ run' = [run EXCEPT ![r] = Fresh("next", run[r].todo \cup {run[r].session})]
  /\ UNCHANGED <<runtimeVars, hookVars, spoolVars, storeVars, historyVars>>

\* No SessionEnd and no trajectory: the session stays pending.
LeavePending(r) ==
  /\ At(r, "open")
  /\ ~Stored(Sid(r))
  /\ ClearTemporaryFiles(run[r].session)
  /\ Leave(r)
  /\ UNCHANGED <<runtimeVars, hookVars, directories, spool, damaged, quarantine,
                 storeVars, historyVars>>

-----------------------------------------------------------------------------
(***************************************************************************)
(* finalize: one commit per insert.  A row is looked for and then inserted *)
(* in two steps; an insert that finds its key taken by another process     *)
(* meanwhile is refused and ends the run.                                  *)
(***************************************************************************)
\* Mutant: the repository row is left to a later step.
EnsureNoRepository(r) ==
  /\ At(r, "finalize")
  /\ GoTo(r, "existing")
  /\ UNCHANGED <<runtimeVars, hookVars, spoolVars, storeVars, historyVars>>

EnsureRepository(r) ==
  /\ At(r, "finalize")
  /\ GoTo(r, IF run[r].identity.repository \in repositories THEN "existing" ELSE "repository")
  /\ UNCHANGED <<runtimeVars, hookVars, spoolVars, storeVars, historyVars>>

PutRepository(r) ==
  /\ At(r, "repository")
  /\ IF run[r].identity.repository \in repositories
     THEN /\ EndRun(r)
          /\ UNCHANGED repositories
     ELSE /\ repositories' = repositories \cup {run[r].identity.repository}
          /\ GoTo(r, "existing")
  /\ UNCHANGED <<runtimeVars, hookVars, spoolVars, sessions, events, trajectories,
                 metrics, health, historyVars>>

\* Mutant: a session stored before is left where it is.
LeaveExisting(r) ==
  /\ At(r, "existing")
  /\ IF Stored(Sid(r)) THEN Leave(r) ELSE GoTo(r, "session")
  /\ UNCHANGED <<runtimeVars, hookVars, spoolVars, storeVars, historyVars>>

CheckExisting(r) ==
  /\ At(r, "existing")
  /\ GoTo(r, IF Stored(Sid(r)) THEN "metrics" ELSE "session")
  /\ UNCHANGED <<runtimeVars, hookVars, spoolVars, storeVars, historyVars>>

WriteSession(r) ==
  /\ At(r, "session")
  /\ GoTo(r, IF sessions[Sid(r)] # Nothing THEN "list" ELSE "put session")
  /\ UNCHANGED <<runtimeVars, hookVars, spoolVars, storeVars, historyVars>>

PutSession(r) ==
  /\ At(r, "put session")
  /\ IF sessions[Sid(r)] # Nothing
     THEN /\ EndRun(r)
          /\ UNCHANGED sessions
     ELSE /\ sessions' = [sessions EXCEPT ![Sid(r)] = run[r].identity.head]
          /\ GoTo(r, "list")
  /\ UNCHANGED <<runtimeVars, hookVars, spoolVars, repositories, events, trajectories,
                 metrics, health, historyVars>>

ListEvents(r) ==
  /\ At(r, "list")
  /\ run' = [run EXCEPT ![r].pc = "events", ![r].cursor = 0,
                        ![r].known = {e.id.sequence : e \in StoredEvents(Sid(r))}]
  /\ UNCHANGED <<runtimeVars, hookVars, spoolVars, storeVars, historyVars>>

\* The accepted segment at the cursor.
AtCursor(r, x) == x \in Aggregate(r) /\ Position(Aggregate(r), x) = run[r].cursor

SkipEvent(r, x) ==
  /\ At(r, "events")
  /\ AtCursor(r, x)
  /\ run[r].cursor \in run[r].known
  /\ run' = [run EXCEPT ![r].cursor = @ + 1]
  /\ UNCHANGED <<runtimeVars, hookVars, spoolVars, storeVars, historyVars>>

\* Mutant: no constraint refuses a second row.
WriteEventTwice(r, x) ==
  /\ At(r, "events")
  /\ AtCursor(r, x)
  /\ run[r].cursor \notin run[r].known
  /\ events' = events \cup
       {[id |-> EventId(Sid(r), run[r].cursor, x.payload), at |-> x.at]}
  /\ run' = [run EXCEPT ![r].cursor = @ + 1]
  /\ UNCHANGED <<runtimeVars, hookVars, spoolVars, repositories, sessions, trajectories,
                 metrics, health, historyVars>>

\* UNIQUE(session_id, sequence), and the event_id, refuse a second row.
WriteEvent(r, x) ==
  /\ At(r, "events")
  /\ AtCursor(r, x)
  /\ run[r].cursor \notin run[r].known
  /\ IF \E e \in StoredEvents(Sid(r)) : e.id.sequence = run[r].cursor
     THEN /\ EndRun(r)
          /\ UNCHANGED events
     ELSE /\ events' = events \cup
               {[id |-> EventId(Sid(r), run[r].cursor, x.payload), at |-> x.at]}
          /\ run' = [run EXCEPT ![r].cursor = @ + 1]
  /\ UNCHANGED <<runtimeVars, hookVars, spoolVars, repositories, sessions, trajectories,
                 metrics, health, historyVars>>

\* Mutant: the identifiers of the events this run wrote.
WrittenEventIds(r) ==
  {EventId(Sid(r), Position(Aggregate(r), x), x.payload) :
     x \in {y \in Aggregate(r) : Position(Aggregate(r), y) \notin run[r].known}}

\* Mutant: positions counted from one.
EventIdsFromOne(r) ==
  {EventId(Sid(r), Position(Aggregate(r), x) + 1, x.payload) : x \in Aggregate(r)}

\* Mutant: the index is decremented once too often.
EventIdsUnderflow(r) ==
  {EventId(Sid(r), Position(Aggregate(r), x) - 1, x.payload) : x \in Aggregate(r)}

\* The identifiers of every accepted segment, written by this run or not.
EventIds(r) ==
  {EventId(Sid(r), Position(Aggregate(r), x), x.payload) : x \in Aggregate(r)}

\* Mutant: the trajectory is inserted before its events.
PutTrajectoryEarly(r) ==
  /\ At(r, "events")
  /\ IF Stored(Sid(r))
     THEN /\ EndRun(r)
          /\ UNCHANGED trajectories
     ELSE /\ trajectories' = [trajectories EXCEPT ![Sid(r)] =
               [events |-> EventIds(r), head |-> run[r].identity.head]]
          /\ run' = [run EXCEPT ![r].pc = "health", ![r].cursor = 0]
  /\ UNCHANGED <<runtimeVars, hookVars, spoolVars, repositories, sessions, events,
                 metrics, health, historyVars>>

\* Mutant: INSERT OR REPLACE.
PutTrajectoryReplace(r) ==
  /\ At(r, "events")
  /\ run[r].cursor = Cardinality(Aggregate(r))
  /\ trajectories' = [trajectories EXCEPT ![Sid(r)] =
       [events |-> EventIds(r), head |-> run[r].identity.head]]
  /\ run' = [run EXCEPT ![r].pc = "health", ![r].cursor = 0]
  /\ UNCHANGED <<runtimeVars, hookVars, spoolVars, repositories, sessions, events,
                 metrics, health, historyVars>>

PutTrajectory(r) ==
  /\ At(r, "events")
  /\ run[r].cursor = Cardinality(Aggregate(r))
  /\ IF Stored(Sid(r))
     THEN /\ EndRun(r)
          /\ UNCHANGED trajectories
     ELSE /\ trajectories' = [trajectories EXCEPT ![Sid(r)] =
               [events |-> EventIds(r), head |-> run[r].identity.head]]
          /\ run' = [run EXCEPT ![r].pc = "health", ![r].cursor = 0]
  /\ UNCHANGED <<runtimeVars, hookVars, spoolVars, repositories, sessions, events,
                 metrics, health, historyVars>>

\* record_health: one row per quarantined segment, one for the duplicates.
RecordQuarantined(r) ==
  /\ At(r, "health")
  /\ run[r].cursor < run[r].lost
  /\ health' = [health EXCEPT !.quarantined = @ + 1]
  /\ run' = [run EXCEPT ![r].cursor = @ + 1]
  /\ UNCHANGED <<runtimeVars, hookVars, spoolVars, rowVars, metrics, historyVars>>

RecordDuplicates(r) ==
  /\ At(r, "health")
  /\ run[r].cursor = run[r].lost
  /\ health' = [health EXCEPT !.duplicates =
                  IF Duplicates(run[r].verified) > 0 THEN @ + 1 ELSE @]
  /\ GoTo(r, "metrics")
  /\ UNCHANGED <<runtimeVars, hookVars, spoolVars, rowVars, metrics, historyVars>>

\* Mutant: the events of this run are counted.
ListRunEvents(r) ==
  /\ At(r, "metrics")
  /\ run' = [run EXCEPT ![r].pc = "put metrics", ![r].cursor = Cardinality(Aggregate(r))]
  /\ UNCHANGED <<runtimeVars, hookVars, spoolVars, storeVars, historyVars>>

\* The stored events are listed; their number stands for what is computed.
ListStoredEvents(r) ==
  /\ At(r, "metrics")
  /\ run' = [run EXCEPT ![r].pc = "put metrics",
                        ![r].cursor = Cardinality(StoredEvents(Sid(r)))]
  /\ UNCHANGED <<runtimeVars, hookVars, spoolVars, storeVars, historyVars>>

\* Computed from those events, this read's losses and this run's commit, and
\* written over whatever row is there.
PutMetrics(r) ==
  /\ At(r, "put metrics")
  /\ metrics' = [metrics EXCEPT ![Sid(r)] =
       [events      |-> run[r].cursor,
        head        |-> run[r].identity.head,
        quarantined |-> run[r].lost,
        duplicates  |-> Duplicates(run[r].verified)]]
  /\ GoTo(r, "discard")
  /\ UNCHANGED <<runtimeVars, hookVars, spoolVars, rowVars, health, historyVars>>

-----------------------------------------------------------------------------
(***************************************************************************)
(* discard_session: remove_dir_all, one directory entry at a time.  A file *)
(* created meanwhile may be removed too, or make the last rmdir fail.      *)
(***************************************************************************)
DiscardSegment(r, f) ==
  LET s == run[r].session
  IN  /\ At(r, "discard")
      /\ f \in spool[s]
      /\ spool' = [spool EXCEPT ![s] = @ \ {f}]
      /\ damaged' = [damaged EXCEPT ![s] = @ \ {f}]
      /\ UNCHANGED <<runtimeVars, hookVars, directories, temporary, quarantine,
                     storeVars, run, historyVars>>

DiscardTemporary(r, t) ==
  LET s == run[r].session
  IN  /\ At(r, "discard")
      /\ t \in temporary[s]
      /\ temporary' = [temporary EXCEPT ![s] = @ \ {t}]
      /\ UNCHANGED <<runtimeVars, hookVars, directories, spool, damaged, quarantine,
                     storeVars, run, historyVars>>

DiscardEnd(r) ==
  LET s == run[r].session
  IN  /\ At(r, "discard")
      /\ spool[s] = {}
      /\ temporary[s] = {}
      /\ directories' = directories \ {s}
      /\ Leave(r)
      /\ UNCHANGED <<runtimeVars, hookVars, spool, damaged, temporary, quarantine,
                     storeVars, historyVars>>

\* The rmdir finds a file that was not there when the session was read: a
\* directory in which nothing was accepted is skipped, another ends the run.
DiscardBlocked(r) ==
  LET s == run[r].session
  IN  /\ At(r, "discard")
      /\ temporary[s] \cap Hook # {} \/ spool[s] \ run[r].verified # {}
      /\ IF Aggregate(r) = {}
         THEN /\ ClearTemporaryFiles(s)
              /\ Leave(r)
         ELSE /\ EndRun(r)
              /\ UNCHANGED temporary
      /\ UNCHANGED <<runtimeVars, hookVars, directories, spool, damaged, quarantine,
                     storeVars, historyVars>>

\* The process is killed, or the filesystem or the database refuses a step.
RecoverDie(r) ==
  /\ ~At(r, "idle")
  /\ deaths < MaxDeaths
  /\ EndRun(r)
  /\ deaths' = deaths + 1
  /\ UNCHANGED <<runtimeVars, hookVars, spoolVars, storeVars, damages, acknowledged>>

-----------------------------------------------------------------------------
HookStep(h) == HookPublish(h) \/ HookFault(h)

ReadStep(r) ==
  \/ \E s \in Session : ListSegments(r, s)
  \/ \E f \in run[r].unread : ReadIntact(r, f) \/ ReadDamaged(r, f) \/ ReadMissing(r, f)
  \/ AggregateEmpty(r)
  \/ AggregateTooLarge(r)
  \/ RecordOversize(r)
  \/ SkipOutside(r)
  \/ Discover(r)
  \/ DrainResidue(r)
  \/ LeavePending(r)

FinalizeStep(r) ==
  \/ EnsureRepository(r)
  \/ PutRepository(r)
  \/ CheckExisting(r)
  \/ WriteSession(r)
  \/ PutSession(r)
  \/ ListEvents(r)
  \/ \E x \in Aggregate(r) : SkipEvent(r, x) \/ WriteEvent(r, x)
  \/ PutTrajectory(r)
  \/ RecordQuarantined(r)
  \/ RecordDuplicates(r)
  \/ ListStoredEvents(r)
  \/ PutMetrics(r)

DiscardStep(r) ==
  /\ At(r, "discard")
  /\ \/ \E f \in spool[run[r].session] : DiscardSegment(r, f)
     \/ \E t \in temporary[run[r].session] : DiscardTemporary(r, t)
     \/ DiscardEnd(r)
     \/ DiscardBlocked(r)

RecoverStep(r) == ReadStep(r) \/ FinalizeStep(r) \/ DiscardStep(r) \/ RecoverEnd(r)

World ==
  \/ \E h \in Hook, s \in Session, elapsed \in {0, 1} : HookBegin(h, s, elapsed)
  \/ \E s \in Session : HookRefuse(s)
  \/ \E h \in Hook : HookDie(h)
  \/ \E s \in Session : \E f \in spool[s] : Damage(s, f)
  \/ \E r \in Repository : Commit(r)

Next ==
  \/ World
  \/ \E h \in Hook : HookStep(h)
  \/ \E r \in Recoverer : RecoverBegin(r) \/ RecoverStep(r) \/ RecoverDie(r)

Spec == Init /\ [][Next]_vars

-----------------------------------------------------------------------------
\* Every variable holds what the code can put there.
Label ==
  {"idle", "next", "read", "oversize", "open", "finalize", "repository", "existing",
   "session", "put session", "list", "events", "health", "metrics", "put metrics", "discard"}

RunType ==
  [pc : Label,
   todo : SUBSET Session, session : Session \cup {Nothing},
   unread : SUBSET Segment, verified : SUBSET Segment, lost : Nat,
   identity : [repository : Repository, head : Nat] \cup {Nothing},
   known : SUBSET Nat, cursor : Nat]

TypeOK ==
  /\ now \in Nat
  /\ fired \in [Session -> Nat]
  /\ head \in [Repository -> Nat]
  /\ hook \in [Hook -> [session : Session, segment : Segment] \cup {Nothing}]
  /\ faultLines \in Nat
  /\ directories \in SUBSET Session
  /\ spool \in [Session -> SUBSET Segment]
  /\ damaged \in [Session -> SUBSET Segment]
  /\ temporary \in [Session -> SUBSET (Hook \cup {Dead})]
  /\ quarantine \in [Session -> SUBSET Segment]
  /\ repositories \in SUBSET Repository
  /\ sessions \in [SessionId -> Nat \cup {Nothing}]
  /\ events \in SUBSET [id : EventIdType, at : Nat]
  /\ trajectories \in [SessionId -> TrajectoryType \cup {Nothing}]
  /\ metrics \in [SessionId ->
       [events : Nat, head : Nat, quarantined : Nat, duplicates : Nat] \cup {Nothing}]
  /\ health \in [quarantined : Nat, duplicates : Nat, oversize : [Session -> Nat]]
  /\ run \in [Recoverer -> RunType]
  /\ damages \in Nat
  /\ deaths \in Nat
  /\ acknowledged \in [Session -> SUBSET Segment]
=============================================================================
