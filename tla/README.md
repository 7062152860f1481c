# agent-jit: recorder, launchers, corpus and database, in TLA+

agent-jit watches an agent runtime (Claude Code, OpenCode) through its hooks,
spools one file per hook event, and turns complete sessions into immutable rows
of a SQLite database. Launchers attach the hooks to a runtime. Operators annotate,
qualify, hold, export and prune what was recorded. This directory holds the specifications of that code, the model-
checking configurations, and machine-checked proofs. `PROJECT.json` maps every
definition to the source lines it stands for.

## 1. The system and its parts

| part | source (under `src/crates/`) | state | operations | module |
|---|---|---|---|---|
| Segment spool | `agent-jit-engine/src/recorder/segment.rs` | a directory per session, `.tmp-` files, a quarantine directory | write (temporary + rename), list, verify, quarantine, sort, collapse repeats, clear temporaries, remove directory | `Segments`, `Recorder` |
| Hook ingestion | `agent-jit-cli/src/hook.rs`, `engine/src/normalize.rs` | none; one process per event | read, normalize, write a segment; a fault goes to the health spool and the hook still exits zero | `Recorder`, `HookProcess`, `Evidence` |
| Hook adapters | `engine/src/adapters/claude_hooks.rs`, `opencode_hooks.rs` | none | what each contract demands of a payload, and the event it becomes | `Hooks` |
| Redaction | `domain/src/redaction.rs` | none | window, rules, aliases, cap | `Redaction` |
| Health spool | `engine/src/spool.rs` | a numbered series of files | look for a file with room, append, read all | `HookProcess` |
| OpenCode launcher and bridge | `agent-jit-cli/src/opencode.rs`, `src/integrations/opencode/bridge.ts` | plugin versions, markers of open sessions | materialize, run, forward, mark, end the sessions of markers, uninstall | `Plugins`, `Launcher` |
| Claude Code launcher | `agent-jit-cli/src/claude.rs` | plugin versions | materialize, run, uninstall | `Plugins`, `Launcher` |
| Aggregation | `engine/src/recorder/mod.rs` | none | empty / too large / complete / first cwd; turns and durations | `Segments` (the decisions), `Metrics` (the numbers) |
| Finalization | `engine/src/recorder/finalize.rs` | rows of repositories, sessions, events, trajectories, metrics, health events | look up, then insert, one commit each | `Recorder` |
| `store recover` | `agent-jit-cli/src/store.rs` | none; any number of processes | the loop over session directories, all early returns | `Recorder` |
| Repository discovery | `engine/src/repository.rs` | the checkout | repository and commit of a directory, now | `Recorder`, `Evidence` |
| Trace metrics | `engine/src/metrics/mod.rs`, `domain/src/metrics.rs` | none | computed from the stored events | `Metrics` |
| Database file, migrations | `agent-jit-store/src/lib.rs` (open, check), `migrate.rs` | file and mode, `user_version`, tables | open, migrate, check | `Database`, `Catalogue` |
| Record store | `agent-jit-store/src/lib.rs`, `migrations/` | the tables | insert once, upsert metrics, groups, active capability | `Recorder`, `Records` |
| Retention | `agent-jit-store/src/retention.rs`, `retention_size.rs` | rows of a session | plan, dry run, apply or refuse | `Retention` |
| Holds, audit log | `agent-jit-store/src/audit.rs`, `agent-jit-cli/src/corpus_ops.rs` | `session_holds`, `corpus_audit` | hold, replace, release | `Retention` |
| Annotations | `agent-jit-store/src/outcomes.rs`, `agent-jit-cli/src/trace_annotation.rs` | append-only history, current pointer | read revision, append | `Retention`, `Records` |
| References | `agent-jit-store/src/references.rs` | links to trajectories | link | `Retention` |
| Qualification | `agent-jit-cli/src/corpus_qualify.rs` | none | classify, find duplicates, count | `Qualify` |
| Transcript import | `engine/src/adapters/claude_history.rs` | none | scan, digest, read, refuse | `History` |
| Export | `agent-jit-store/src/export.rs`, `agent-jit-cli/src/corpus_export*.rs`, `domain/src/export.rs` | staging directories, the destination | snapshot, stage, validate, publish | `Export` |
| Lifecycle | `domain/src/lifecycle.rs` | none | legal transitions; nothing calls them | not modelled |
| Domain contracts, fingerprint, read-only commands | the rest | none | pure translation, validation, printing | not modelled |

### How they interact

There is no daemon and no lock file. The runtime starts one `hook ingest` process
per event; the processes share only the spool directories. `store recover` is
started by hand, at any time and possibly twice at once; it reads the spool, asks
Git where the session ran, writes rows in separate SQLite transactions and
removes the session's directory last. A launch of OpenCode runs the runtime, and
when that is over spawns a hook itself for each session whose marker it finds; the
markers lie in a directory that all launches of one build share. `corpus` and `trace annotate` commands are
further processes on the same database: they read first and then run one
`BEGIN IMMEDIATE` transaction. So the hard behaviour is that of independent
processes over two stores (files, SQLite) with no transaction across them:

- a hook and a recovery in the same directory;
- two recoveries of the same session;
- a process that dies between any two steps, `remove_dir_all` half done included;
- a session key used again after its session was stored;
- reads that are stale by the time the transaction they prepared runs;
- damaged files, refused payloads, sessions over the byte ceiling;
- launches, runtimes, bridges and hooks that are killed independently of each other;
- builds of different schema versions that create and migrate one file;
- a destination, or a transcript, that another program writes meanwhile.

### What makes each part correct

- spool: what a hook acknowledged is kept until it is stored; only verified
  segments are ever evidence;
- finalization: rows are written once, numbered densely, with their parents;
  running recovery again converges; a session is stored whole;
- recovery: each complete session is stored in the end and its directory
  removed; nothing else removes a segment; a run ends;
- retention: protected sessions stay, limits are met or the command refuses,
  the oldest go first and no more than needed, nothing dangles;
- holds and annotations: the audit log explains the holds; annotations are an
  unbroken sequence of revisions nobody overwrites;
- launchers: a plugin version is whole or absent; a marker that is gone is accounted
  for; an end is not delivered before the start; nothing is delivered twice by the
  bridge;
- evidence: what a hook keeps is redacted and within its cap; active time is the time
  worked; each distinct content qualifies once; an imported transcript does not
  contradict itself;
- database: private before anything is written; the stamp is the schema; what an
  active capability rests on stays; an export is one instant of one repository, whole.

## 2. The modules

- **`Segments`**: one session's directory as data. A segment is a pair of
  observation millisecond and payload, which is exactly what its file is named
  after. The sorted vector of the code is a set with an order (`Before`) and the
  index of a segment is its `Position`; the walk that collapses adjacent repeats
  is the set `Accepted`. `Complete`, `TooLarge` and `WorkingDirectory` are what
  aggregation tells recovery.
- **`Recorder`** (extends `Segments`): hooks and recover processes. A hook is two
  steps, the temporary file (`HookBegin`) and the rename (`HookPublish`), or a
  fault or a death between them. A recover process is a record `run[r]` with a
  program counter and the local variables of the loop body; there is an action for
  every call that reads or writes shared state:

  | code | actions |
  |---|---|
  | `recover`, the loop | `RecoverBegin`, `RecoverEnd` |
  | `read_session` | `ListSegments`, then `ReadIntact` / `ReadDamaged` / `ReadMissing` file by file |
  | `aggregate_segments` and `skipped_or_drained` | `AggregateEmpty`, `AggregateTooLarge`, `RecordOversize` |
  | `discover` | `Discover`, `SkipOutside` |
  | residue and open sessions | `DrainResidue`, `LeavePending` |
  | `finalize` | `EnsureRepository`, `PutRepository`, `CheckExisting`, `WriteSession`, `PutSession`, `ListEvents`, `SkipEvent`/`WriteEvent` per event, `PutTrajectory`, `RecordQuarantined`, `RecordDuplicates`, `ListStoredEvents`, `PutMetrics` |
  | `discard_session` | `DiscardSegment`/`DiscardTemporary` per entry, `DiscardEnd`, `DiscardBlocked` |
  | kill, I/O or SQL error | `RecoverDie` |

  A derived identifier is the value it is derived from: a session is a pair of
  repository and key, an event a record of session, sequence and payload, a
  trajectory is named by its session.
- **`RecorderProperties`**: the properties, the quiet regime `QuietSpec`, the
  refinement mapping, and the inductive invariant `IInv`.
- **`Archive`**: what the recorder promises, in two variables: each session is
  archived at most once, in one step, with everything taped of it; a complete
  session is eventually archived.
- **`Retention`**: stored sessions, links, holds, the audit log, annotations, and
  commands of two steps (what they read, then their transaction). A killed command
  is one that never takes its second step, so no death is needed. The two passes
  of `plan` are the sets `Aged` and `Excess`: the second pass reaches a session
  with everything left but the unprotected ones before it. A total of bytes is the
  number of (session, byte) pairs, which is what lets sums be reasoned about.
- **`HookProcess`**: the life of hook processes whoever spawned them, and the health
  spool: looking for the file with room (`Fault`) and appending (`AppendHealth`) are
  two steps. `kept` says what a process has left on disk when it exits zero.
- **`Plugins`**: `materialize` (look, staging directory, file by file, rename) and
  `uninstall` (entry by entry) of both runtimes. A build stands for what it renders.
- **`Launcher`** (extends `Plugins`, instantiates `HookProcess`): runtimes, the handlers
  of `bridge.ts` as steps between their awaits, markers, and `EndSessions`, the launch
  that ends the sessions of the markers it finds.

  | code | actions |
  |---|---|
  | `run_command` | `Begin` to `Publish`/`RenameFails` of `Plugins`, `StartRuntime`, `LaunchFails`, `RuntimeOver` |
  | `bridge.ts`, `session.created` | `SessionCreated`, `MarkerOpened`, `MarkerFilled` |
  | `bridge.ts`, messages and idle | `UserMessage`, `AssistantMessage`, `SessionIdle`, `TurnStops`, each with `FlushPrompt` |
  | `synthesize_session_ends` | `RuntimeOver`, `SkipMarker`, `Deliver`, `Consume`, `KeepMarker` (`Undelivered`), `AllVisited` |
  | `uninstall_command` | `UninstallBegins`, `RemoveEntry`, `RemoveStaged`, `RemoveStaging`, `UninstallMarker`, `UninstallEnds` |

- **`Hooks`**, **`Redaction`**, **`Metrics`**, **`Qualify`**: pure parts as operators. A
  payload is a function from member names to values, a contract a sequence of demands;
  a text is a sequence over seven characters that tell the two forms of the patterns
  (a block between delimiters, a prefix with a run), a wide character and the home
  directory apart; metrics fold over rows; the verdict is a function of a snapshot.
- **`Evidence`** (extends `Hooks`, `Qualify`; uses `Segments`): the path from an input to
  a verdict with state: hooks with a clock that can be set back, commits, damage,
  recovery that can die at four points, annotations. It is coarser than `Recorder`, which
  has the same code call by call but rows without content.
- **`History`**: a scan of transcripts, two readings each, while Claude Code appends
  whole and half lines.
- **`Corpus`** (extends `Evidence`, `History`, `Redaction`): their composition, and the
  properties.
- **`Database`**: opening (`Look`, `Create`, `Secure`, `Journal`, `ReadVersion`),
  `migrate` (`BeginMigrate`, `Apply`, `Report`), refused locks and kills. A migration is
  who created the tables of its version.
- **`Records`** (extends `Database`): the rows of all fourteen kinds with the keys and
  references SQLite enforces; puts, the group with its members, the metrics upsert, the
  annotation with its pointer, the active capability, and prune of one session.
- **`Export`** (extends `Records`): `corpus export` from the first look at the
  destination to the rename, beside other exports and another program.
- **`Catalogue`** (extends `Export`): the composition, with `store check`.
- **`MCRecorder`, `MCRetention`, `MCLauncher`, `MCCorpus`, `MCCatalogue`**: the small
  instances.
- **`RecorderSafety`, `RegimeProofs`, `RetentionProofs`, `LauncherProofs`,
  `DatabaseProofs`, `RecordsProofs`, `CatalogueProofs`, `CorpusProofs`**: the proofs,
  one module per component. The recorder has two, the second extending the first: every
  behaviour, and the regimes. `CatalogueProofs` extends the two before it and adds
  exports, checks and the steps of others.

The last three compositions draw their bounds from a constant `Scenario`: a behaviour
keeps one of a few combinations of what happens, each large enough for one kind of
trouble, because the product of all would not add an interaction.

Definitions marked `Mutant:` are plausible bugs of the definition that follows
them; no action uses them. They exist so that each property can be seen to fail
of a wrong program.

## 3. The runs

| run | instance | what it shows |
|---|---|---|
| `RecorderTwo` | one session `<<Start, End>>`, 1 hook, 2 recover processes, 1 death, 1 damaged file (about 440,000 states) | the safety properties that hold in every behaviour, and `IInv` |
| `RecorderOne` | one session of four events with a repeat, 1 hook, 1 recover process, a ceiling of two payloads, 1 death, 1 commit, 1 refused payload (about 306,000 states) | metrics agree with the stored events; an oversize session is recorded once |
| `RecorderQuiet` | a key used again after its end, 2 recover processes, 1 death, recovery only while no hook runs (about 29,000 states, liveness) | nothing acknowledged is lost, sessions are whole, recovery finishes, `Archive` is implemented |
| `Retention` | two sessions that ended in the same millisecond and an open one, 2 commands, 2 operators, 2 annotations, 2 audit rows, 2 policies (about 560,000 states, symmetric in commands, operators and annotation identifiers) | protection, audit, revisions, limits |
| `Launcher` | 2 launches, 2 builds, 2 sessions, 9 scenarios, a health file of one line (about 130,000 states, liveness) | what launches, bridges and hooks promise each other when any of them is killed |
| `Corpus` | 3 sessions, 3 transcripts of at most 3 records together, texts of 5 characters, 7 scenarios (about 484,000 states) | redaction, working time, the verdict, the import |
| `Catalogue` | 3 processes with builds of 1 to 3 migrations, 17 records, 9 scenarios (about 223,000 states) | a private file, a coherent schema, evidence that stands, whole exports |

The properties, by hazard rather than by module:

- *runs that die or overlap*: `SequencesDense`, `TrajectoryCovered`,
  `ParentsStored`, `RowsWrittenOnce`, `CompleteOnly`;
- *the spool is cleared last*: `SpoolClearedLast`, `AcknowledgedKept`;
- *whole sessions*: `TrajectoryEventsStored`, `WholeSession`;
- *progress*: `EventuallyRecovered`, `RunsEnd`, `ImplementsArchive`;
- *caches and counters*: `MetricsMatchEvents`, `OversizeRecordedOnce`;
- *retention*: `ProtectedKept`, `LimitsMetOrRefused`, `OldestAndNoMore`,
  `RowsResolve`;
- *history*: `AuditExplainsHolds`, `RevisionsDense`, `AnnotationsKept`;
- *launches that share and die*: `VersionsWhole`, `EarlyEndWithinVersion`,
  `NoStartAfterEnd`, `PromptOnce`;
- *deliveries*: `ConsumedAccounted`, `FoundMarkersDelivered`;
- *numbers that are decided on*: `ActiveIsWorkingTime`, `QualifyingDistinct`;
- *what others wrote*: `RedactionSound`, `ImportUnambiguous`;
- *one file, many builds*: `PrivateBeforeWritten`, `SchemaCoherent`;
- *what rests on what*: `EvidenceStands`, `ExportWhole`.

Two of them are weaker than a reader may expect, because the code is.
`ConsumedAccounted` has a third case beside a stored end and a line in the health
spool: the hook could keep neither and exited zero all the same. `EarlyEndWithinVersion`
does not say that a live session is never ended, but by whom and when it is: another
launch of the same build does end it.

### Bounds, and why they are enough

`MaxDeaths`, `MaxDamage`, `MaxCommits` and `MaxRefused` bound what the world does;
`MaxAudit` bounds the audit log and the commands that could still write to it. One
death already puts a process at every one of its program points, and the next run
of the same or of the other process starts from what it left; two recover
processes are what any race on one row needs. Scripts are two to four hooks: enough
for a repeat, a session key used again, a change of repository, a payload without a
cwd, and for a death between two events. The clock moves by 0 or 1 per hook, so
both equal and different milliseconds occur. Sessions never share a row or a
directory, so one session is checked with as many processes as fit rather than
several sessions with fewer; the safety theorems are for any number of each. Only for
liveness does it leave something out: that a session goes on to be recovered although a
run ended at another one is in the model (each run lists every directory) and not
exercised by `RecorderQuiet`. In
`Retention` the third session is open, the ceilings lie between the sums of the
sizes so that both passes take something, and a prune of nothing, a refused prune
and a dry run all occur. `Retention` stops when the audit log is full, hence
`CHECK_DEADLOCK FALSE`; the recorder never stops, because a recovery can
always be started. Launches, exports and the bounded corpus end, hence the same there.

`Launcher`: two launches race for one version directory or share its markers, and
each further launch would do to either what these do to each other; one kill, of a
launch or of a hook, is placed at every step. A health file of one line makes every
fault a rotation. `Corpus`: five hooks give a turn that is opened twice, closed twice or
left open; three sessions give a duplicate of a duplicate; texts of five characters and
a window of four bytes let a block or a token lie before, across and behind both cuts.
`Catalogue`: two builds that migrate at once and a third that checks or uses the file
are what the window between reading the version and writing needs, and the theorems
are for any number; two exports and a program that writes into the destination give
every order of look, remove and rename; one capability with its chain and two
sessions, one of them pruned, is the smallest evidence that can go missing.

### The quiet regime and its fairness

With hooks and recovery interleaved freely, acknowledged events can be lost (see
`OpenSessionDrained`), and two events of one millisecond can be reordered. So what
the documentation promises is checked where it assumes it: `QuietSpec` lets hooks
run only while no recovery does, and two events of a session fall at least a
millisecond apart. Deaths, reused keys and a second recovery remain. Its fairness:

- `WF(HookPublish)`: a hook process that is not killed does its rename;
- `WF(RecoverStep)`: a recover process that is not killed takes its next step. It
  is a sequential program and its steps stay enabled until it takes them, so weak
  fairness is what the operating system's scheduler gives;
- `WF(NoHookRuns /\ RecoverBegin)`: the user, who is told to run recovery
  "at any time", does run it again and again. Without it nothing is ever recovered.

Nothing obliges anyone to fire a hook, commit or die.

`Launcher` assumes weak fairness of two disjunctions: some launch whose runtime is over
goes on ending sessions (`EndSessions`), and some hook process goes on (`HookStep`).
These are sequential programs that wait for nothing but their children, and each takes
finitely many steps, so the disjunctions are as good as one condition for each. A
runtime, a bridge or an operator may stop for ever.

## 4. Where the code and its words disagree

Each is a run in which TLC finds the quoted statement violated.

- `LossHidden`: the first segment of a session, damaged and alone in its directory, is
  quarantined by a run that then drains the directory as empty; when the rest of the
  session is stored later, the loss is in no health event and in no metrics row ("so a
  lossy session is visible rather than silent", `finalize.rs:285`). That run reports no
  quarantined segment either (`store.rs:165` is reached only by an aggregate).
- `OpenSessionDrained`: the drain of an empty directory deletes the first segment
  of a session that is just starting ("Recovery is safe to run at any time ...
  Sessions that are still open are left alone", `store.rs:123`).
- `MillisecondTies`: events of one millisecond are ordered by digest ("with a
  counter for same-millisecond events", `segment.rs:44`; "in observed order",
  `trace.rs:164`).
- `ExportRefused`: a second recovery after a commit overwrites the metrics with
  another commit than the trajectory's, which the exporter's ownership check
  refuses (`export.rs:154`).
- `ResiduePending`: residue that begins in another repository is pending for ever
  ("Leftover spool residue is drained", `usage.md:250`).

Seen while modelling and left without a run of their own: a segment quarantined by a run
that leaves the session pending, which needs an accepted segment beside it, is hidden in
the same way, though that run's report counts it; `clear_temporary_files`
also removes the temporary file of a live hook (the hook then reports a fault); the
commit of a session is the one checked out at recovery; a directory whose residue
lies in two repositories can be stored as two trajectories; with two recoveries, a
session can be recorded as oversize twice and a metrics row can be older than the
events beside it (hence `RecorderOne` for those two properties); a segment damaged
after a run died can shift later events onto positions that are already taken, so
that `TrajectoryEventsStored` is a property of the regime without damage; `corpus
hold` decides "no-op" before its transaction.

Of launchers and hooks: `bridge.ts:20` says that each handler awaits its delivery so
that the end of a session arrives last, but a marker is ended by whichever launch of the
build stops first, while the session goes on; `opencode.rs:316` keeps markers "whose
ingestion fails", but ingestion exits zero on a fault, so what is kept is only what was
killed; the bridge replaces characters of a session's identifier in the name of the
marker and the launch takes the identifier from that name; the Claude launcher does not
clear `AGENT_JIT_HOOK_ADAPTER`, so inside OpenCode's environment its hooks are held to the
bridge's contract; tool inputs with a fraction are refused; an input beyond the read
limit is refused as malformed rather than kept truncated; unknown members of a payload
are part of a segment's digest; uninstalling while OpenCode runs lets the next marker
make `sessions/` again.

Of metrics, verdicts and imports: no row ever counts as failed or truncated, because
`write_events` records neither an exit code nor truncation; the trajectory's duration
counts a turn that is open at the end and the metrics do not; the aggregate counts tool
results where the metrics count calls; after a death and a clock set back, stored rows
can be out of time order; `content_key` reads an intent that a session does not have, so
two prompts of the same length look alike; one metrics row with another commit than its
session's (`ExportRefused`) refuses the qualification of the whole repository; the set
of transcripts already imported is always empty.

Of the database: `Store::migrate` says that a failed migration leaves the database
unchanged (`lib.rs:206`), but earlier migrations of the same call stay; a process killed
between creating the file and making it private leaves, under an open umask, a file that
every later open refuses; a schema from the future is refused at open only, so a process
that is already open goes on; `set_active_capability` compares neither name nor state;
an export killed while it writes leaves its staging directory, and one killed while it
publishes leaves no destination.

## 5. What is proved

All theorems hold for every value of the constants that satisfies the assumptions
named in the modules: digests are injective, `Outside` and `Unset` are no
repositories, `Nothing` is no row, identifiers are ordered totally, bounds are
naturals; no launch is called "runtime" or "no launch", and `NoSession` is no session;
an identifier in a record has the kind its column references, a trajectory is in the
repository of its session and metrics name the session of their trajectory
(`finalize.rs` derives all three from the same values); the rows a database starts with
in a scenario are closed under their references, and the destination starts without a
manifest; in the corpus the sessions and the transcripts are finitely many, different
transcripts have different paths (they are sorted by path), and an input has one of the
six kinds and a size. Nothing else is assumed about the number of sessions, and nothing
about that of hooks, recover processes, commands, launches, builds, migrations or exports,
or about the scripts.

- `RecorderSafety!TypeCorrect`: `Spec => []TypeOK`.
- `RecorderSafety!Inductive`: `Spec => []IInv`, from which `OnlyComplete`,
  `DenseSequences`, `CoveredTrajectories` and `StoredParents` follow, and the
  action properties `WrittenOnce` and `ClearedLast`.
- `RegimeProofs`, of one recover process (`Single`): `MetricsAgree` and `OversizeOnce`. Of
  the quiet regime: `NothingLost` (`AcknowledgedKept`), without a further hypothesis. Of
  the quiet regime under `Premise` (nothing is damaged, and the hooks of a session are
  fired in at most one repository): `NamedEventsStored`, `StoredWhole`, and
  `ArchiveSafety`: `QuietSpec => Promise!Init /\ [][Promise!Next]_(Promise!vars)`.
- `RetentionProofs!RetentionInvariant`: types, resolved rows, audit and revisions
  together; from it `TypesHeld`, `NothingDangles`, `AuditTrue`, `RevisionsInOrder`,
  `ProtectedStay`, `AnnotationsStay`, and of the prune `LimitsHold` and `OldestFirst`.
- `LauncherProofs!LauncherInvariant`: hooks, plugins and bridges together; from it
  `TypesHold`, `WholeVersions`, `MarkersAccounted`, `StartsFirst`, `EndsWithinVersion`
  and `PromptsOnce`, which are all the state properties of its run.
- `DatabaseProofs!InvHolds`: the inductive invariant of `DatabaseSpec`; from it
  `FilePrivate` and `MigrationsCoherent`, for any number of processes, builds and
  versions.
- `CatalogueProofs!CatalogueInvariant`: the database, the rows and the exports together,
  with checks and another program beside them; from it `CatalogueTypes`,
  `CataloguePrivate`, `CatalogueCoherent`, `EvidenceKept`, `ExportsWhole` and, of
  `store check`, `ChecksFindNothing`.
- `CorpusProofs!CorpusInvariant`: the recorder with its rows and metrics beside the import;
  from it `CorpusTypeCorrect`, `FieldsRedacted`, `WorkMeasured`, `ContentsCountedOnce` and
  `ImportsUnambiguous`, which are all the properties of its run.

**The argument for the recorder.** None of the four state properties is inductive:
that no event is without its session says nothing about the process that is about
to insert one. `IInv` adds what each program point relies on. `Located`: past the
first read a process has a session, and past the discovery an identity.
`Established`: at each step of `finalize` the aggregate is complete, and the
repository, the session and the trajectory are stored as far as the process has
come; rows are never removed in this module, so no other process can take it back.
`CursorCovered`: every position the loop over the events has passed, and every one
it has listed, has a row; this is why the trajectory, inserted when the cursor
reaches the number of accepted segments, has a row at each of its positions whoever
wrote it, and why an insert at the cursor leaves no gap. `DiscardJustified`: a
process removes a directory only when nothing in it was accepted or its trajectory
is stored. A step of one process changes only its own `run[r]`; lemmas say once that
the parts about every other process are kept, so each action has to be argued only
for the process that takes it. `FiniteState` is there because `Position` counts:
that a new segment's position is smaller than the number of segments, and that every
smaller number is a position, are lemmas about finite sets.

**The argument for one recover process.** `Alone` says what a look is worth when nobody
else moves: between the look at the trajectory and its insert the session is not stored,
and at `put metrics` the cursor is the number of stored events, because only this process
adds any. With two processes both fail (section 4), so `Single` is needed.

**The argument for the quiet regime.** `Keeping` needs only that hooks and recovery take
turns. A process that is past its reading holds, until the session is stored, every
segment that was acknowledged and not set aside (`HasRead`), because nothing is
acknowledged while a process is under way; so a directory in which nothing was accepted
holds nothing but what is in quarantine, and its discard loses nothing (`AcceptedEmpty`:
of some segments some are accepted, as the first repeats none). For whole sessions
`RowsTaped` says that the rows of a session that is not stored are accepted segments at
their positions, whichever run wrote them. It survives another hook because the new
segment is later than every row, and a later segment changes neither acceptance nor
position (`LaterSegment`); it survives another run because that run has verified what
was acknowledged. Positions are injective (`PositionInjective`), so a row at a position is
the row of the segment there: what `CursorCovered` found for a position is the event the
trajectory names. Both parts of `Premise` are needed: a segment damaged between two runs
shifts positions, and residue in a second repository is stored as a second trajectory;
TLC finds both without them. For `ArchiveSafety`, a hook's success is `Tape`, an insert of
a trajectory is `Store`, and every other step leaves what stored sessions stand for alone
(`ContentsKept`): rows are dense, so no row can be added under an identifier a
trajectory already names.

**The argument for retention.** `AuditExplainsHolds` is inductive with the types,
because hold and audit row are written in one transaction; a prune takes no held
session and its row names none. `RevisionsDense` is kept by an append because the
revision is compared again inside the transaction with the one that follows the
current annotation, and by a prune because it removes whole histories.
`RowsResolve` needs that what is deleted is unprotected: a linked trajectory is in
no selection. `ProtectedStay` follows from the same fact about `Selected`.

`LimitsHold` and `OldestFirst` are facts about one step, from the plan. A total
counts (session, byte) pairs, so fewer sessions have no more bytes (`TotalMonotone`) and
one more adds at most its own (`TotalWithOne`); both need that the
stored rows are finitely many (`RowsFinite`), and finite sets of ended sessions have a
first one in the order of the passes (`FirstOfEnded`, from the well-foundedness of the
naturals, twice). What the second pass has left at a session that comes later is
contained in what it had left at an earlier one: so an unprotected session that was
spared is after every one that was taken (`TakenFirst`), a plan that cannot meet the
ceiling has spared no unprotected session at all (`ProtectedExceed`), and without the
last one taken the ceiling was still exceeded (`LastTakenNeeded`). That an audit row is
written tells the transaction from the refusal (`PruneStep`), and what is not deleted
weighs what it weighed (`PruneLeaves`).

**The argument for launches.** Three invariants side by side, of the hook processes, the
plugins and the bridges, because each action changes the state of one and at most spawns
for another. `HookInv`: what a process keeps agrees with how far it is, and in the health
spool the full files come first and the file a process is about to append to was the first
with room. Since a process faults at most once, there are fewer full files than numbers,
so a fault always finds a file (`RoomLeft`, a pigeonhole). `PluginInv`: a staging directory
holds what its launch has written so far, hence everything when it is renamed, and what
a runtime has loaded is whole. `BridgeInv` (`Phases`, `Marked`, `ListedOwn`, `Ended`,
`Flushed`, `Accounted`): a marker is made only after the hook of the start is over; a
launch lists only markers of its own version, and only when its runtime is over; an end is
spawned from a list; the prompt of a turn is flushed by whichever handler comes first,
which then owns it; and for each marker that is gone there is the hook that was spawned for it.

**The argument for the database.** Neither property is inductive. For the file, the
invariant adds that a process past the look and past `Secure` works on a private file:
`Look` lets nobody past an open one, modes are only ever made private, and nothing
removes the file. For the schema it adds that the versions up to the stamp are exactly
those somebody created, each by one process, and what a process in the middle of its
migrations has done: the versions after the one it read, up to some point, without a gap.
Then the next pending migration of a process that has lost a race is a version whose
tables exist, and it fails; and one that has not lost is exactly the version after the
stamp, so stamping it leaves no hole.

**The argument for the catalogue.** `DatabaseInv` is kept by every command that is not
the database's own because such a command leaves the file, the schema and its fixed
variables alone and moves its process only between stages past the check (`CommandKeeps`).
`RecordsInv` says that every row refers to rows that are there, and so do the members of a
group, the active version and the current annotation. An insert keeps it because a
reference is looked up; a prune keeps it because the rows it deletes are closed: whatever
refers to a row of a session's unit is in the unit, or is one of the links that make the
session protected. What an active capability rests on is then stored because each link of
its chain is a reference (`EvidenceFollows`). For exports, `Exporter` says stage by stage
what the process has read, staged and said. A snapshot is whole because of *which* rows the
query selects: along every reference from an exported row the repository is the same
(`SnapshotOfRows`, where the assumption on derived identifiers is needed). It is about
another instant than the one at which it is published, so nothing later can spoil it; a
destination is replaced only when it does not exist or is empty, so at most one process ever says
"exported", and what another program put there stays.

**The argument for the corpus.** `CorpusInv` is two invariants side by side, because the
recorder and the import share no variable. `ImportInv` says of a reading under way that
each line it has passed agrees with what it has gathered (`Gathered`), which the end of the
reading turns into what is known of an accepted session (`Sound`); transcripts only grow at
their end, so a line that was read stays what it was, and a file is at any time to be read,
being read, accepted or rejected, and only one of these (`Apart`). `EvidenceInv` says of each
session (`SessionSound`) that what is in the spool can be recovered, that a run knows whether
there is a trajectory, that a trajectory comes with its session and its rows, and that
metrics are those of the rows that are stored.

The properties are then facts about one state, each of which the code computes with a walk
over a sequence. For `ActiveIsWorkingTime` the sum of a walk is compared with a set: the
times that are worked up to a row (`WorkedUpTo`) are counted by the state of the walk before
it (`CountTaken` for the metrics, `AddTaken` for the trajectory). The library's induction
takes an operator, which no prover here can instantiate, so the induction is stated for
membership in a set (`Induction`, from the least element of a set of naturals, `Least`); the
set is that of the row numbers up to which walk and count agree. A row that closes a turn adds an interval without an element of the earlier ones (`DisjointUnion`),
which needs the order of the times. That a trajectory has the same duration when no run died
needs in addition that the rows are those of the accepted segments in the order of their
times, each at its rank (`Ranks`, `OrderedSegments`, `RecoveredRows`). For `RedactionSound`,
the redaction of a text is put together from pieces, each of which depends only on what
stands where no block does; a disguise changes characters inside blocks only and makes no
new block, so all pieces are equal. For `QualifyingDistinct`, of the trajectories of one
content exactly the first is kept, so those that qualify and the contents are equally many,
and the exclusions are the fibres of a function. That a snapshot is refused only after a
commit follows from the heads, each of which is at most the current one.

**Only model-checked.** Liveness (`EventuallyRecovered`, `RunsEnd`,
`FoundMarkersDelivered`), fairness and with it the fair half of `ImplementsArchive`. Every
other property of a passing run is stated by a theorem.

## 6. Abstractions

- In `Recorder`, payloads are model values with a length, a digest rank, a cwd and
  whether they end a session; what makes an input a payload is `Hooks`. The wording of
  errors is left out.
- In `Recorder` a clock reading never goes back; in `Evidence` it may.
- Directory entries are read and removed one at a time; a directory listing is one
  step. `clear_temporary_files` is one step.
- An I/O or SQL error that the code answers with `?` is a `RecoverDie`: the run ends
  where it is. A refused insert is modelled where it happens.
- A hook that cannot be spawned is one that was killed; one that exits before it reads its
  input may leave the launch unable to write to it, and its marker stays. That the removal
  of a marker fails (`opencode.rs:361` ignores it) is not modelled.
- The bytes of a session in `Retention` are those of its session row, of what is
  stored with the trajectory, and a constant per annotation; the sums of the code are
  checked for overflow and refuse the prune, which is not modelled.
- Open sessions and links are reached in the code through the store's interface only;
  the recorder always writes an end.
- A version of a plugin is named by the build that renders it: two builds render
  different files. File names are kept, file contents are not.
- A SQLite transaction is one step; a lock that is refused ends the command, as the code
  has no retry. The write-ahead log and its recovery are SQLite's.
- `Records` prunes one session at a time and any unprotected one; the choice and the
  transaction over several are `Retention`'s. A refused put leaves the rows as they are
  and is not a step.
- An export takes its staging name from a random identifier; that two are equal sixteen
  times is not modelled. Its redaction changes documents, never which records there are.
- Scans and exports are of one repository; a second one would share no row with it.
- The state machine of `lifecycle.rs`, canaries, redaction of argument vectors and the
  budget of a trajectory have no caller outside tests.
- Not modelled at all: pure translation, validation, printing (the last row of the
  first table), because no state of theirs outlives a call.

## 7. Plan

Written: `Segments`, `Recorder`, `Archive`, `Retention`; `HookProcess`, `Plugins`,
`Launcher`; `Hooks`, `Redaction`, `Metrics`, `Qualify`, `Evidence`, `History`, `Corpus`;
`Database`, `Records`, `Export`, `Catalogue`; their instances and eight modules of proofs.
Left, in this order:

1. `Recorder` beside a prune, for "Deletion is permanent" (`usage.md:397`) against residue
   in the spool, and the stale report of `corpus hold`.
2. That `Evidence`, with one run at a time, implements the rows of `Recorder`.
3. `lifecycle.rs`, when something calls it.

## 8. Running it

    tlc -workers 2 -config RecorderTwo.cfg MCRecorder.tla
    tlc -workers 2 -config Retention.cfg MCRetention.tla
    tlc -workers 2 -config Catalogue.cfg MCCatalogue.tla
    tlapm RegimeProofs.tla
    tlapm CatalogueProofs.tla
    tlapm CorpusProofs.tla

`Retention.cfg`, `Launcher.cfg`, `Corpus.cfg` and `Catalogue.cfg` go with the module
of the same name after `MC`, every other configuration with `MCRecorder`.
