------------------------------ MODULE Evidence ------------------------------
(***************************************************************************)
(* From what a runtime reports to the numbers that are decided on: hooks   *)
(* normalize their input and spool it, recovery turns a session that ended *)
(* into rows and measures the rows, an operator annotates the outcome, and *)
(* the qualification reads it all.                                         *)
(*                                                                         *)
(* Recorder has the files, the inserts and the processes one by one; here  *)
(* a run of recovery over one session has four points it can die at, and   *)
(* one such run is under way at a time.  The rows carry what the metrics   *)
(* and the verdict are made of.                                            *)
(***************************************************************************)
EXTENDS Hooks, Qualify

CONSTANTS
  Inputs,               \* what hooks can be given, in the order of the digests:
                        \*   adapter, kind, input, size, prompt
  MaxTrajectoryBytes,   \* the ceiling on the bytes of one trajectory
  Scenario              \* bounds, of which a behaviour keeps one:
                        \*   sessions   sessions that run
                        \*   inputs     what their hooks are given, by index
                        \*   hooks      hooks that run, at most
                        \*   elapsed    what the clock can do between two hooks
                        \*   commits, deaths, damages   how often at most
                        \*   statuses   outcomes that are annotated
                        \*   typing     characters of a captured text
                        \*   imports    whether transcripts are written and scanned

InputIndex == DOMAIN Inputs

\* What the texts of a row can say.
Texts ==
  {"", "none"} \cup {Inputs[i].prompt : i \in InputIndex}
    \cup UNION {Range(Inputs[i].input.document) : i \in InputIndex}

\* The rows of a session, of its events and of its trajectory.
SessionRow == [head : Nat, source : {"recorded"}, started : Nat, ended : Nat]

EventRow == [kind : {"user_prompt", "tool_call", "tool_result", "session_start",
                     "stop", "session_end"},
             at : Nat, bytes : Nat, tool : Texts]

TrajectoryRow == [head : Nat, source : {"recorded"}, intent : Texts,
                  duration : Nat, length : Nat]

ASSUME EvidenceAssumption ==
  /\ Nothing \notin SessionRow
  /\ Nothing \notin TrajectoryRow
  /\ InputIndex \subseteq Nat
  /\ \A i \in InputIndex :
       /\ Inputs[i].kind \in HookEventKind
       /\ Inputs[i].size \in Nat
  /\ \A x \in Scenario :
       /\ {x.hooks, x.commits, x.deaths, x.damages} \subseteq Nat
       /\ x.elapsed \subseteq Int

\* The inputs that become an event, and what becomes of them.
Spooled ==
  {i \in InputIndex : Fault(Inputs[i].adapter, Inputs[i].kind, Inputs[i].input) = "none"}

Hooked ==
  [i \in Spooled |-> Normalized(Inputs[i].adapter, Inputs[i].kind, Inputs[i].input.document)]

InputDigest == [i \in InputIndex |-> i]
InputLength == [i \in InputIndex |-> Inputs[i].size]
InputCwd    == [i \in InputIndex |-> "repository"]
EndInputs   == {i \in InputIndex : Inputs[i].kind = "session-end"}

S == INSTANCE Segments WITH
  Payload     <- InputIndex,
  Digest      <- InputDigest,
  SessionEnds <- EndInputs,
  Length      <- InputLength,
  Repository  <- {"repository"},
  Cwd         <- InputCwd,
  Outside     <- "outside",
  Unset       <- "unset"

VARIABLES
  scenario,
  now,          \* wall clock, in milliseconds; it can be set back
  hooks,        \* hook processes that have run
  faults,       \* lines of the health spool
  head,         \* number of the commit that is checked out
  spool,        \* spool[s]: the segments of a session
  damages, deaths,
  session, events, trajectory, metrics, annotation,   \* the rows, by session
  run           \* run[s]: what recovery holds of a session, or Nothing

db == [session |-> session, events |-> events, trajectory |-> trajectory,
       metrics |-> metrics, annotation |-> annotation]

captureVars  == <<now, hooks, faults, head>>
rowVars      == <<session, events, trajectory>>
evidenceVars == <<scenario, captureVars, spool, damages, deaths, rowVars, metrics,
                  annotation, run>>

EvidenceInit ==
  /\ scenario \in Scenario
  /\ now = 0
  /\ hooks = 0
  /\ faults = 0
  /\ head = 0
  /\ spool = [s \in Session |-> {}]
  /\ damages = 0
  /\ deaths = 0
  /\ session = [s \in Session |-> Nothing]
  /\ events = [s \in Session |-> <<>>]
  /\ trajectory = [s \in Session |-> Nothing]
  /\ metrics = [s \in Session |-> Nothing]
  /\ annotation = [s \in Session |-> Nothing]
  /\ run = [s \in Session |-> Nothing]

EvidenceTypeOK ==
  /\ scenario \in Scenario
  /\ {now, hooks, faults, head, damages, deaths} \subseteq Nat
  /\ session \in [Session -> SessionRow \cup {Nothing}]
  /\ trajectory \in [Session -> TrajectoryRow \cup {Nothing}]
  /\ \A s \in Session :
       /\ \A x \in spool[s] : x.at \in Nat /\ x.payload \in InputIndex
       /\ Range(events[s]) \subseteq EventRow
       /\ trajectory[s] # Nothing => session[s] # Nothing
       /\ metrics[s] # Nothing =>
            trajectory[s] # Nothing /\ metrics[s].count <= Len(events[s])
       /\ annotation[s] # Nothing => trajectory[s] # Nothing

-----------------------------------------------------------------------------

\* hook ingest: a segment of this millisecond, or a line of the health spool.
Hook(s, i, elapsed) ==
  /\ s \in scenario.sessions
  /\ i \in scenario.inputs
  /\ hooks < scenario.hooks
  /\ now + elapsed >= 0
  /\ hooks' = hooks + 1
  /\ now' = now + elapsed
  /\ IF i \in Spooled
     THEN /\ spool' = [spool EXCEPT ![s] = @ \cup {[at |-> now', payload |-> i]}]
          /\ UNCHANGED faults
     ELSE faults' = faults + 1 /\ UNCHANGED spool
  /\ UNCHANGED <<scenario, head, damages, deaths, rowVars, metrics, annotation, run>>

Commit ==
  /\ head < scenario.commits
  /\ head' = head + 1
  /\ UNCHANGED <<scenario, now, hooks, faults, spool, damages, deaths, rowVars, metrics,
                 annotation, run>>

-----------------------------------------------------------------------------
(* Recovery of one session.                                                *)

Ordered(segments) ==
  LET A == S!Accepted(segments)
  IN  [k \in 1..Cardinality(A) |-> CHOOSE x \in A : S!Position(A, x) = k - 1]

\* What the aggregate knows of a segment.
Observed(x) ==
  LET i == x.payload
  IN  [kind   |-> Inputs[i].kind,
       at     |-> x.at,
       prompt |-> Inputs[i].prompt,
       failed |-> Hooked[i].failed]

SessionAggregate(segments) ==
  LET ordered == Ordered(segments)
  IN  Aggregate([k \in DOMAIN ordered |-> Observed(ordered[k])])

\* write_events: the row of a segment.
Row(x) ==
  LET i == x.payload
  IN  [kind  |-> Describe(Inputs[i].kind),
       at    |-> x.at,
       bytes |-> Inputs[i].size,
       tool  |-> Hooked[i].tool]

Rows(segments) ==
  LET ordered == Ordered(segments)
  IN  [k \in DOMAIN ordered |-> Row(ordered[k])]

\* A row whose sequence is taken stays what it is.
Written(s, rows, n) ==
  events[s] \o SubSeq(rows, Len(events[s]) + 1, n)

\* The session is read, and what fails verification put aside; an open or too
\* large session is left alone.
RecoverSession(s, lost) ==
  LET kept == spool[s] \ lost
  IN  /\ run[s] = Nothing
      /\ lost \subseteq spool[s]
      /\ damages + Cardinality(lost) <= scenario.damages
      /\ damages' = damages + Cardinality(lost)
      /\ spool' = [spool EXCEPT ![s] = kept]
      /\ IF /\ S!Complete(S!Accepted(kept))
            /\ ~S!TooLarge(S!Accepted(kept))
         THEN run' = [run EXCEPT ![s] =
                        [head        |-> head,
                         segments    |-> kept,
                         quarantined |-> Cardinality(lost),
                         duplicates  |-> S!Duplicates(kept),
                         stored      |-> trajectory[s] # Nothing]]
         ELSE UNCHANGED run
      /\ UNCHANGED <<scenario, captureVars, deaths, rowVars, metrics, annotation>>

StoreSession(s, aggregate) ==
  session' = [session EXCEPT ![s] =
                IF @ # Nothing THEN @
                ELSE [head |-> run[s].head, source |-> "recorded",
                      started |-> aggregate.started, ended |-> aggregate.ended]]

\* The rows of a session whose trajectory was not found.
StoreRows(s) ==
  LET segments  == run[s].segments
      aggregate == SessionAggregate(segments)
      rows      == Rows(segments)
  IN  /\ run[s] # Nothing
      /\ ~run[s].stored
      /\ StoreSession(s, aggregate)
      /\ events' = [events EXCEPT ![s] = Written(s, rows, Len(rows))]
      /\ trajectory' = [trajectory EXCEPT ![s] =
                          [head |-> run[s].head, source |-> "recorded",
                           intent |-> aggregate.intent, duration |-> aggregate.active,
                           length |-> Len(rows)]]
      /\ run' = [run EXCEPT ![s].stored = TRUE]
      /\ UNCHANGED <<scenario, captureVars, spool, damages, deaths, metrics, annotation>>

\* The process dies after n of them.
StoreRowsDies(s, n) ==
  LET segments  == run[s].segments
      rows      == Rows(segments)
  IN  /\ run[s] # Nothing
      /\ ~run[s].stored
      /\ deaths < scenario.deaths
      /\ n \in Len(events[s]) .. Len(rows)
      /\ StoreSession(s, SessionAggregate(segments))
      /\ events' = [events EXCEPT ![s] = Written(s, rows, n)]
      /\ deaths' = deaths + 1
      /\ run' = [run EXCEPT ![s] = Nothing]
      /\ UNCHANGED <<scenario, captureVars, spool, damages, trajectory, metrics,
                     annotation>>

\* The metrics are those of the rows, and replace what was there.
StoreMetrics(s) ==
  /\ run[s] # Nothing
  /\ run[s].stored
  /\ metrics' = [metrics EXCEPT ![s] =
                   TraceMetrics(events[s], run[s].head, run[s].quarantined,
                                run[s].duplicates)]
  /\ spool' = [spool EXCEPT ![s] = {}]
  /\ run' = [run EXCEPT ![s] = Nothing]
  /\ UNCHANGED <<scenario, captureVars, damages, deaths, rowVars, annotation>>

\* The process dies before the metrics, or before the spool is cleared.
RecoverDies(s) ==
  /\ run[s] # Nothing
  /\ deaths < scenario.deaths
  /\ deaths' = deaths + 1
  /\ run' = [run EXCEPT ![s] = Nothing]
  /\ metrics' \in {metrics} \cup
       IF run[s].stored
       THEN {[metrics EXCEPT ![s] = TraceMetrics(events[s], run[s].head,
                                      run[s].quarantined, run[s].duplicates)]}
       ELSE {}
  /\ UNCHANGED <<scenario, captureVars, spool, damages, rowVars, annotation>>

\* Mutant: the trajectory is not looked for.
AnnotateUnseen(s, status) ==
  /\ status \in scenario.statuses
  /\ annotation[s] # status
  /\ annotation' = [annotation EXCEPT ![s] = status]
  /\ UNCHANGED <<scenario, captureVars, spool, damages, deaths, rowVars, metrics, run>>

\* trace annotate: the newest annotation is the current one.
Annotate(s, status) ==
  /\ status \in scenario.statuses
  /\ trajectory[s] # Nothing
  /\ annotation[s] # status
  /\ annotation' = [annotation EXCEPT ![s] = status]
  /\ UNCHANGED <<scenario, captureVars, spool, damages, deaths, rowVars, metrics, run>>
=============================================================================
