----------------------------- MODULE Catalogue ------------------------------
(***************************************************************************)
(* The private database as processes use it together: some migrate it,     *)
(* some check it, some store, activate and prune records through its       *)
(* interface, some export a repository.                                    *)
(***************************************************************************)
EXTENDS Export

CONSTANT
  Scenario   \* what a behaviour starts with, of which it keeps one:
             \*   command, supported   the processes and their builds
             \*   umask, stamp, rows   the database
             \*   destination          the output directory
             \*   putting              the records clients may add
             \*   pruning              whether they prune
             \*   kills                processes that are killed

ASSUME CatalogueAssumption ==
  \A s \in Scenario :
    /\ s.command \in [Process -> Commands] /\ s.supported \in [Process -> 0..Newest]
    /\ s.umask \in Modes \ {"absent"} /\ s.stamp \in 0..Newest
    /\ s.rows \subseteq Record /\ s.putting \subseteq Record
    /\ s.destination \in Directories /\ s.pruning \in BOOLEAN /\ s.kills \in Nat
    \* No annotation, group or export is there yet, and what is there is whole.
    /\ \A r \in s.rows : KindOf(r) \notin {"outcome_annotation", "group"}
                        /\ Parents(r) \subseteq s.rows
    /\ s.destination.manifest = {}

VARIABLES
  dangling,   \* dangling[p]: whether the check of p met a reference to no row
  kills,      \* kills that are left
  scenario

vars == <<databaseVars, rowVars, exportVars, dangling, kills, scenario>>

Answers == DatabaseAnswers \cup ExportAnswers

TypeOK ==
  /\ DatabaseTypeOK /\ RecordsTypeOK /\ ExportTypeOK
  /\ at \in [Process -> Working \cup Exporting \cup {"counted", "over"}]
  /\ answer \in [Process -> Answers]
  /\ dangling \in [Process -> BOOLEAN]
  /\ kills \in 0..scenario.kills /\ scenario \in Scenario

-----------------------------------------------------------------------------
(***************************************************************************)
(* `store check` asks three questions in statements of their own: whether  *)
(* the file is whole, which SQLite sees to, which references name no row,  *)
(* and the version.                                                        *)
(***************************************************************************)
CheckReferences(p) ==
  /\ at[p] = "checking"
  /\ dangling' = [dangling EXCEPT ![p] =
       \/ \E r \in rows, parent \in UNION {Parents(q) : q \in rows} :
            parent \in Parents(r) /\ parent \notin rows
       \/ \E m \in members : {m[1], m[2]} \ rows # {}
       \/ \E n \in Name : active[n] # ActiveCapability(n)]
  /\ Goto(p, "counted")
  /\ UNCHANGED <<fileVars, schemaVars, fixedVars, from, rowVars, exportVars>>

CheckVersion(p) ==
  /\ at[p] = "counted"
  /\ End(p, [code |-> "checked", dangling |-> dangling[p], version |-> stamp,
             healthy |-> ~dangling[p] /\ stamp = supported[p]])
  /\ UNCHANGED <<fileVars, schemaVars, fixedVars, from, rowVars, exportVars, dangling>>

\* A client ends when it likes.
ClientEnds(p) ==
  /\ IsClient(p)
  /\ Refuse(p, "ok")

-----------------------------------------------------------------------------
\* What does not touch the rows, the exports, or the database.
OfDatabase == UNCHANGED <<rowVars, exportVars, dangling, kills, scenario>>
OfRecords  == UNCHANGED <<databaseVars, exportVars, dangling, kills, scenario>>
OfExport   == UNCHANGED <<fileVars, schemaVars, fixedVars, from, rowVars, dangling,
                          kills, scenario>>

Killed == kills > 0 /\ kills' = kills - 1

\* The records a behaviour is about, a bound.
Wanted == rows' \ rows \subseteq scenario.putting

Init ==
  /\ scenario \in Scenario
  /\ umask = scenario.umask /\ stamp = scenario.stamp
  /\ command = scenario.command /\ supported = scenario.supported
  /\ DatabaseInit
  /\ rows = scenario.rows
  /\ members = {} /\ active = [n \in Name |-> NoRecord]
  /\ current = [r \in Record |-> NoRecord]
  /\ destination = scenario.destination
  /\ staging = [p \in Process |-> NoDirectory]
  /\ snapshot = [p \in Process |-> NoSnapshot]
  /\ intruded = (Foreign \in destination.files)
  /\ dangling = [p \in Process |-> FALSE]
  /\ kills = scenario.kills

Next ==
  \/ \E p \in Process :
       \/ Look(p) /\ OfDatabase
       \/ Create(p) /\ OfDatabase
       \/ Secure(p) /\ OfDatabase
       \/ Journal(p) /\ OfDatabase
       \/ ReadVersion(p) /\ OfDatabase
       \/ BeginMigrate(p) /\ OfDatabase
       \/ BeginCommand(p) /\ OfDatabase
       \/ Apply(p) /\ OfDatabase
       \/ Report(p) /\ OfDatabase
       \/ Locked(p) /\ OfDatabase
       \/ DieOpening(p) /\ Killed /\ UNCHANGED <<rowVars, exportVars, dangling, scenario>>
       \/ CheckReferences(p) /\ UNCHANGED <<kills, scenario>>
       \/ CheckVersion(p) /\ UNCHANGED <<kills, scenario>>
       \/ PutRecord(p) /\ Wanted /\ OfRecords
       \/ PutGroup(p) /\ Wanted /\ OfRecords
       \/ PutTraceMetrics(p) /\ Wanted /\ OfRecords
       \/ AppendOutcomeAnnotation(p) /\ Wanted /\ OfRecords
       \/ SetActiveCapability(p) /\ OfRecords
       \/ Prune(p) /\ scenario.pruning /\ OfRecords
       \/ ClientEnds(p) /\ OfExport /\ UNCHANGED exportVars
       \/ PrepareDestination(p) /\ OfExport
       \/ TakeSnapshot(p) /\ OfExport
       \/ CreateStage(p) /\ OfExport
       \/ WriteRecord(p) /\ OfExport
       \/ WriteManifest(p) /\ OfExport
       \/ RejectManifest(p) /\ OfExport
       \/ WriteFails(p) /\ OfExport
       \/ LookAtOutput(p) /\ OfExport
       \/ RemoveOutput(p) /\ OfExport
       \/ RenameStage(p) /\ OfExport
       \/ PublishFails(p) /\ OfExport
       \/ DieExporting(p) /\ Killed
            /\ UNCHANGED <<fileVars, schemaVars, fixedVars, from, rowVars, dangling, scenario>>
  \/ Intrude /\ OfExport

Spec == Init /\ [][Next]_vars
=============================================================================
