--------------------------- MODULE CatalogueProofs ---------------------------
(***************************************************************************)
(* Any number of processes migrate, check, change and export one database  *)
(* together.  The parts that DatabaseProofs and RecordsProofs establish of *)
(* their own steps are kept by everybody else's, and every export is of    *)
(* one instant at which they held.                                         *)
(***************************************************************************)
EXTENDS Catalogue, DatabaseProofs, RecordsProofs

Staged == {"write", "publish", "remove", "rename"}

\* What a process has read is whole: everything a record of it refers to, and
\* the last annotation of every trajectory.
SnapshotWhole(s) ==
  /\ Describes(s)
  /\ Exported \in s.records => \A c \in s.current : c[1] \in s.records /\ c[2] \in s.records

\* The staging directory, by where the process is.
Staging(p) ==
  /\ at[p] \notin Staged \cup {"over"} => staging[p] = NoDirectory
  /\ at[p] = "write" => /\ staging[p].exists /\ staging[p].manifest = {}
                        /\ staging[p].files \subseteq Files(p)
  /\ at[p] \in {"publish", "remove", "rename"} =>
       staging[p] = [exists |-> TRUE, files |-> Files(p), manifest |-> {ManifestOf(p)}]

\* What a process has said, it said at its end, and it is so.
Told(p) ==
  /\ at[p] # "over" => answer[p] = NoAnswer
  /\ at[p] = "over" /\ answer[p].code # "killed" => ~staging[p].exists
  /\ answer[p].code = "exported" => destination.manifest = {ManifestOf(p)}
  /\ answer[p] = [code |-> "export_failed", reason |-> "manifest"] =>
       Exported \notin snapshot[p].records

OneExport ==
  \A p, q \in Process :
    answer[p].code = "exported" /\ answer[q].code = "exported" => p = q

DestinationWhole ==
  /\ \A m \in destination.manifest :
       /\ Describes(m)
       /\ destination.files = IF m.mode = "export-full" THEN m.records ELSE {}
  /\ intruded => Foreign \in destination.files

Exporter(p) ==
  /\ at[p] \in Exporting => command[p] \in ExportCommands
  /\ SnapshotWhole(snapshot[p]) /\ Staging(p) /\ Told(p)

Exports ==
  /\ ExportTypeOK /\ DestinationWhole /\ OneExport
  /\ \A p \in Process : Exporter(p)

\* A check finds nothing that refers to a row that is not there.
NothingDangling == dangling = [p \in Process |-> FALSE]

Answered == answer \in [Process -> Answers]

Bounded == scenario \in Scenario /\ kills \in 0..scenario.kills

CatalogueInv ==
  DatabaseInv /\ RecordsInv /\ Exports /\ NothingDangling /\ Answered /\ Bounded

\* The invariant says what the properties say.
LEMMA CatalogueSays ==
  CatalogueInv => /\ TypeOK /\ PrivateBeforeWritten /\ SchemaCoherent
                  /\ EvidenceStands /\ ExportWhole
<1> SUFFICES ASSUME CatalogueInv
             PROVE  /\ TypeOK /\ PrivateBeforeWritten /\ SchemaCoherent
                    /\ EvidenceStands /\ ExportWhole
  OBVIOUS
<1> USE DEF CatalogueInv
<1>1. PrivateBeforeWritten /\ SchemaCoherent /\ EvidenceStands
  BY InvImplies, EvidenceFollows
<1>2. ExportWhole
  BY DEF ExportWhole, Exports, Exporter, DestinationWhole, OneExport, Told
<1>3. TypeOK
  <2>1. at \in [Process -> Working \cup Exporting \cup {"counted", "over"}]
    BY DEF DatabaseInv, Shape, Stages, Exporting
  <2>2. dangling \in [Process -> BOOLEAN]
    BY DEF NothingDangling
  <2> QED
    BY <2>1, <2>2 DEF TypeOK, DatabaseInv, RecordsInv, Exports, Answered, Bounded
<1> QED
  BY <1>1, <1>2, <1>3

(***************************************************************************)
(* Snapshots.                                                              *)
(***************************************************************************)

\* What one transaction reads of rows that stand is whole: by every way from a
\* row to its repository the rows on that way are exported with it.
LEMMA SnapshotOfRows ==
  ASSUME RecordsInv
  PROVE  SnapshotWhole([records |-> ExportedRecords, current |-> CurrentAnnotations])
<1>1. \A r \in rows : r \in Record /\ \A q \in Parents(r) : q \in rows
  BY DEF RecordsInv, RecordsTypeOK, ReferencesStand
<1>2. \A r \in ExportedRecords : r \in rows /\ r \in Record /\ RepositoryOf(r) = Exported
  BY <1>1 DEF ExportedRecords
<1>3. Exported \in Record /\ Exported # NoRecord
  BY ExportAssumption, RecordsAssumption
<1>4. ASSUME NEW r \in ExportedRecords, NEW q \in Parents(r) PROVE q \in ExportedRecords
  <2>1. q \in rows /\ q \in Record
    BY <1>1, <1>2
  <2>2. PICK c \in ReferenceColumns \cap DOMAIN Body[r] :
          q = Body[r][c] /\ KindOf(q) = Referred(c)
    BY <1>2, ParentKind
  <2>3. KindOf(r) \in {"repository", "session", "trajectory", "event", "outcome",
                       "outcome_annotation"}
    BY <1>2, <1>3 DEF RepositoryOf
  <2>4. CASE KindOf(r) = "repository"
    BY <1>2, <2>2, <2>4, RowShape DEF RepositoryRow, ReferenceColumns
  <2>5. CASE KindOf(r) = "session"
    <3>1. c = "repository"
      BY <1>2, <2>2, <2>5, RowShape DEF SessionRow, ReferenceColumns
    <3>2. q = Exported
      BY <1>2, <2>2, <2>5, <3>1 DEF RepositoryOf
    <3> QED
      BY <2>1, <2>2, <3>1, <3>2 DEF Referred, RepositoryOf, ExportedRecords
  <2>6. CASE KindOf(r) = "trajectory"
    <3>1. c = "repository" \/ c = "session"
      BY <1>2, <2>2, <2>6, RowShape DEF TrajectoryRow, ReferenceColumns
    <3>2. Body[r].repository = Exported /\ Body[Body[r].session].repository = Exported
      BY <1>2, <2>6, RecordsAssumption DEF RepositoryOf
    <3> QED
      BY <2>1, <2>2, <3>1, <3>2 DEF Referred, RepositoryOf, ExportedRecords
  <2>7. CASE KindOf(r) = "event"
    <3>1. c = "session"
      BY <1>2, <2>2, <2>7, RowShape DEF EventRow, ReferenceColumns
    <3>2. Body[q].repository = Exported
      BY <1>2, <2>2, <2>7, <3>1 DEF RepositoryOf
    <3> QED
      BY <2>1, <2>2, <3>1, <3>2 DEF Referred, RepositoryOf, ExportedRecords
  <2>8. CASE KindOf(r) \in {"outcome", "outcome_annotation"}
    <3>1. c = "trajectory"
      BY <1>2, <2>2, <2>8, RowShape DEF OutcomeRow, AnnotationRow, ReferenceColumns
    <3>2. Body[q].repository = Exported
      BY <1>2, <2>2, <2>8, <3>1 DEF RepositoryOf
    <3> QED
      BY <2>1, <2>2, <3>1, <3>2 DEF Referred, RepositoryOf, ExportedRecords
  <2> QED
    BY <2>3, <2>4, <2>5, <2>6, <2>7, <2>8
<1>5. ASSUME NEW r \in ExportedRecords, KindOf(r) = "outcome_annotation"
      PROVE  \E c \in CurrentAnnotations :
               /\ c[1] = Body[r].trajectory /\ Body[c[2]].trajectory = c[1]
               /\ Body[r].revision <= Body[c[2]].revision
  <2> DEFINE t == Body[r].trajectory
             c == <<t, current[t]>>
  <2>1. r \in Stored("outcome_annotation") /\ t \in Record
    BY <1>2, <1>5, RowShape DEF Stored, AnnotationRow
  <2>2. current[t] # NoRecord /\ Body[r].revision <= Body[current[t]].revision
    BY <2>1 DEF RecordsInv, CurrentLast
  <2>3. Body[current[t]].trajectory = t
    BY <2>1, <2>2 DEF RecordsInv, CurrentStands
  <2>4. t \in rows /\ KindOf(t) = "trajectory"
    <3>1. t \in Parents(r)
      BY <1>2, <1>5, NamedParents
    <3>2. "trajectory" \in ReferenceColumns \cap DOMAIN Body[r] /\ t # NoRecord
      BY <1>2, <1>5, <2>1, RowShape, RecordsAssumption DEF ReferenceColumns, AnnotationRow
    <3> QED
      BY <1>1, <1>2, <3>1, <3>2, RecordsAssumption DEF Referred
  <2>5. Body[t].repository = Exported
    BY <1>2, <1>5 DEF RepositoryOf
  <2>6. c \in CurrentAnnotations
    BY <2>2, <2>4, <2>5 DEF CurrentAnnotations, Stored
  <2>7. c[1] = t /\ c[2] = current[t]
    OBVIOUS
  <2> QED
    BY <2>2, <2>3, <2>6, <2>7
<1>6. ASSUME NEW c \in CurrentAnnotations
      PROVE  c[1] \in ExportedRecords /\ c[2] \in ExportedRecords
  <2>1. PICK t \in Stored("trajectory") :
          /\ current[t] # NoRecord /\ Body[t].repository = Exported
          /\ c = <<t, current[t]>>
    BY DEF CurrentAnnotations
  <2>2. t \in rows /\ t \in Record /\ KindOf(t) = "trajectory"
    BY <1>1, <2>1 DEF Stored
  <2>3. /\ current[t] \in rows /\ KindOf(current[t]) = "outcome_annotation"
        /\ Body[current[t]].trajectory = t
    BY <2>1, <2>2 DEF RecordsInv, CurrentStands, Stored
  <2>4. t \in ExportedRecords
    BY <2>1, <2>2 DEF ExportedRecords, RepositoryOf
  <2>5. current[t] \in ExportedRecords
    BY <2>1, <2>3 DEF ExportedRecords, RepositoryOf
  <2> QED
    BY <2>1, <2>4, <2>5
<1> QED
  BY <1>4, <1>5, <1>6 DEF SnapshotWhole, Describes

LEMMA SnapshotTyped ==
  ASSUME RecordsInv
  PROVE  [records |-> ExportedRecords, current |-> CurrentAnnotations] \in Snapshots
<1>1. ExportedRecords \subseteq Record
  BY DEF ExportedRecords, RecordsInv, RecordsTypeOK
<1>2. CurrentAnnotations \subseteq Record \X Record
  BY DEF CurrentAnnotations, Stored, RecordsInv, RecordsTypeOK, Reference
<1> QED
  BY <1>1, <1>2 DEF Snapshots

(***************************************************************************)
(* How processes move: one at a time, and what one says it says at its end.*)
(***************************************************************************)
MovesTo(p, stage) ==
  /\ at' = [at EXCEPT ![p] = stage]
  /\ \/ stage # "over" /\ UNCHANGED answer
     \/ stage = "over" /\ \E said \in Answers : answer' = [answer EXCEPT ![p] = said]

\* Nobody else moves.
LEMMA OnlyOneMoves ==
  ASSUME DatabaseInv, NEW p \in Process, NEW stage, MovesTo(p, stage)
  PROVE  /\ at'[p] = stage
         /\ \A q \in Process : q # p => at'[q] = at[q] /\ answer'[q] = answer[q]
         /\ stage # "over" => answer' = answer
         /\ stage = "over" =>
              answer'[p] \in Answers /\ answer' = [answer EXCEPT ![p] = answer'[p]]
BY DEF DatabaseInv, Shape, MovesTo

\* The steps of opening and migrating.
LEMMA DatabaseMoves ==
  ASSUME DatabaseInv, NEW p \in Process, DatabaseStep(p)
  PROVE  /\ UNCHANGED fixedVars /\ at[p] \in Working
         /\ \/ UNCHANGED processVars
            \/ \E stage \in Working \cup {"snapshot"} :
                 /\ MovesTo(p, stage)
                 /\ stage = "snapshot" => command[p] \in ExportCommands
            \/ \E said \in DatabaseAnswers :
                 /\ at' = [at EXCEPT ![p] = "over"]
                 /\ answer' = [answer EXCEPT ![p] = said]
<1> USE DEF DatabaseInv, Working, Opening, MovesTo, Goto, Refuse, End
<1>0. /\ \A code \in Refusals : [code |-> code] \in DatabaseAnswers
      /\ stamp \in 0..Newest /\ from[p] \in 0..Newest /\ command[p] \in Commands
  BY DEF DatabaseAnswers, DatabaseTypeOK
<1>1. CASE Look(p)
  BY <1>0, <1>1 DEF Look, Refusals, fixedVars, DatabaseTypeOK, Modes
<1>2. CASE Create(p) \/ Secure(p) \/ Journal(p) \/ BeginMigrate(p)
  BY <1>2 DEF Create, Secure, Journal, BeginMigrate, fixedVars
<1>3. CASE ReadVersion(p)
  BY <1>0, <1>3 DEF ReadVersion, Refusals, fixedVars
<1>4. CASE BeginCommand(p)
  BY <1>0, <1>4 DEF BeginCommand, Refusals, fixedVars, Commands
<1>5. CASE Apply(p)
  <2>1. \A v \in MigrationVersion :
          [code |-> "migration_failed", version |-> v, exists |-> TRUE] \in DatabaseAnswers
    BY DEF DatabaseAnswers
  <2> QED
    BY <1>5, <2>1 DEF Apply, fixedVars
<1>6. CASE Report(p)
  <2>1. [code |-> "migrated", from |-> from[p], to |-> stamp,
         applied |-> {v \in MigrationVersion : p \in creators[v]}] \in DatabaseAnswers
    BY <1>0 DEF DatabaseAnswers
  <2> QED
    BY <1>6, <2>1 DEF Report, fixedVars
<1>7. CASE Locked(p)
  <2>1. \A v \in MigrationVersion :
          [code |-> "migration_failed", version |-> v, exists |-> FALSE] \in DatabaseAnswers
    BY DEF DatabaseAnswers
  <2> QED
    BY <1>0, <1>7, <2>1 DEF Locked, Refusals, fixedVars
<1>8. CASE DieOpening(p)
  BY <1>0, <1>8 DEF DieOpening, Refusals, fixedVars
<1> QED
  BY <1>1, <1>2, <1>3, <1>4, <1>5, <1>6, <1>7, <1>8 DEF DatabaseStep

(***************************************************************************)
(* The steps of an export.                                                 *)
(***************************************************************************)

\* A process that does nothing remains where it was.
LEMMA OtherKept ==
  ASSUME NEW q \in Process, Exporter(q), UNCHANGED command,
         at'[q] = at[q], answer'[q] = answer[q],
         staging'[q] = staging[q], snapshot'[q] = snapshot[q],
         answer[q].code = "exported" => destination'.manifest = destination.manifest
  PROVE  Exporter(q)'
<1>1. ManifestOf(q)' = ManifestOf(q) /\ Files(q)' = Files(q)
  BY DEF ManifestOf, Files
<1> QED
  BY <1>1 DEF Exporter, Staging, Told, SnapshotWhole, Describes

LEMMA ExportsStutter ==
  ASSUME Exports, UNCHANGED <<exportVars, fixedVars, processVars>> PROVE Exports'
BY OtherKept DEF exportVars, fixedVars, processVars, Exports, ExportTypeOK, DestinationWhole,
   OneExport, Describes

\* It is enough to look at the process that takes the step, and at the
\* destination.
LEMMA OneExporter ==
  ASSUME Exports, NEW p \in Process, UNCHANGED command, ExportTypeOK', DestinationWhole',
         Exporter(p)',
         \A q \in Process : q # p =>
           /\ at'[q] = at[q] /\ answer'[q] = answer[q]
           /\ staging'[q] = staging[q] /\ snapshot'[q] = snapshot[q]
           /\ answer[q].code = "exported" => destination'.manifest = destination.manifest,
         answer'[p].code = "exported" => \A q \in Process : answer[q].code # "exported"
  PROVE  Exports'
<1>1. \A q \in Process : Exporter(q)'
  BY OtherKept DEF Exports
<1>2. OneExport'
  BY DEF Exports, OneExport
<1> QED
  BY <1>1, <1>2 DEF Exports

\* The steps outside the staging directory.
LEMMA ExportsFrame ==
  ASSUME DatabaseInv, Exports, UNCHANGED <<exportVars, fixedVars>>,
         NEW p \in Process, NEW stage, MovesTo(p, stage),
         at[p] \notin Staged \cup {"over"}, stage \notin Staged,
         stage \in Exporting => command[p] \in ExportCommands,
         stage = "over" => answer'[p].code \notin {"exported", "export_failed"}
  PROVE  Exports'
<1> USE DEF exportVars, fixedVars
<1>1. /\ at'[p] = stage
      /\ \A q \in Process : q # p => at'[q] = at[q] /\ answer'[q] = answer[q]
      /\ stage # "over" => answer' = answer
  BY OnlyOneMoves
<1>2. ExportTypeOK' /\ DestinationWhole'
  BY DEF Exports, ExportTypeOK, DestinationWhole, Describes
<1>3. Exporter(p)
  BY DEF Exports
<1>4. staging[p] = NoDirectory /\ answer[p] = NoAnswer
  BY <1>3 DEF Exporter, Staging, Told
<1>5. answer'[p].code \notin {"exported", "export_failed"}
  BY <1>1, <1>4 DEF NoAnswer
<1>6. Staging(p)'
  BY <1>1, <1>4 DEF Staging, Staged
<1>7. Told(p)'
  BY <1>1, <1>4, <1>5 DEF Told, NoDirectory, NoAnswer
<1>8. Exporter(p)'
  BY <1>1, <1>3, <1>6, <1>7 DEF Exporter, SnapshotWhole, Describes
<1> QED
  BY <1>1, <1>2, <1>5, <1>8, OneExporter

LEMMA PrepareKeeps ==
  ASSUME DatabaseInv, Exports, NEW p \in Process, PrepareDestination(p), UNCHANGED fixedVars
  PROVE  Exports'
<1>1. PICK stage \in {"look", "over"} : /\ MovesTo(p, stage)
                                        /\ stage = "over" => answer' =
                                             [answer EXCEPT ![p] = [code |-> "export_path_not_empty"]]
  <2>1. [code |-> "export_path_not_empty"] \in Answers
    BY DEF Answers, ExportAnswers
  <2> QED
    BY <2>1 DEF PrepareDestination, Goto, Refuse, End, MovesTo
<1>2. stage = "over" => answer'[p].code \notin {"exported", "export_failed"}
  BY <1>1 DEF DatabaseInv, Shape
<1> QED
  BY <1>1, <1>2, ExportsFrame DEF PrepareDestination, Staged, Exporting

\* What all steps of an export share.
LEMMA TypesInExport ==
  ASSUME Exports, NEW p \in Process
  PROVE  /\ staging[p] \in Directories /\ destination \in Directories
         /\ snapshot[p] \in Snapshots
         /\ Files(p) \subseteq Record
         /\ command[p] \in ExportCommands => ManifestOf(p) \in Manifests
BY DEF Exports, ExportTypeOK, Files, ManifestOf, Manifests, Snapshots

LEMMA TakeSnapshotKeeps ==
  ASSUME DatabaseInv, RecordsInv, Exports, NEW p \in Process, TakeSnapshot(p),
         UNCHANGED fixedVars
  PROVE  Exports'
<1> USE DEF fixedVars
<1>1. at[p] = "snapshot" /\ UNCHANGED <<destination, staging, intruded>>
  BY DEF TakeSnapshot
<1>2. CASE UNCHANGED snapshot /\ Refuse(p, "sqlite")
  <2>1. MovesTo(p, "over") /\ answer'[p].code = "sqlite"
    BY <1>2 DEF Refuse, End, MovesTo, Answers, DatabaseAnswers, Refusals, DatabaseInv, Shape
  <2> QED
    BY <1>1, <1>2, <2>1, ExportsFrame DEF Staged, Exporting, exportVars
<1>3. CASE /\ snapshot' = [snapshot EXCEPT ![p] =
                [records |-> ExportedRecords, current |-> CurrentAnnotations]]
           /\ Goto(p, "stage")
  <2>1. /\ at'[p] = "stage" /\ answer' = answer
        /\ \A q \in Process : q # p => at'[q] = at[q] /\ snapshot'[q] = snapshot[q]
        /\ snapshot'[p] = [records |-> ExportedRecords, current |-> CurrentAnnotations]
    BY <1>3 DEF Goto, DatabaseInv, Shape, Exports, ExportTypeOK
  <2>2. ExportTypeOK' /\ DestinationWhole'
    <3> HIDE DEF RecordsInv
    <3>1. [records |-> ExportedRecords, current |-> CurrentAnnotations] \in Snapshots
      BY SnapshotTyped
    <3> QED
      BY <1>1, <1>3, <3>1 DEF Exports, ExportTypeOK, DestinationWhole, Describes
  <2>3. Exporter(p)
    BY DEF Exports
  <2>4. SnapshotWhole(snapshot'[p])
    BY <2>1, SnapshotOfRows
  <2>5. Staging(p)' /\ Told(p)' /\ (at'[p] \in Exporting => command'[p] \in ExportCommands)
    BY <1>1, <2>1, <2>3 DEF Exporter, Staging, Told, Staged, Exporting, NoAnswer
  <2>6. Exporter(p)'
    BY <2>4, <2>5 DEF Exporter
  <2>7. answer'[p].code # "exported"
    BY <1>1, <2>1, <2>3 DEF Exporter, Told, NoAnswer
  <2> QED
    BY <1>1, <2>1, <2>2, <2>6, <2>7, OneExporter
<1> QED
  BY <1>2, <1>3 DEF TakeSnapshot

LEMMA CreateStageKeeps ==
  ASSUME DatabaseInv, Exports, NEW p \in Process, CreateStage(p), UNCHANGED fixedVars
  PROVE  Exports'
<1> USE DEF fixedVars, CreateStage, Goto
<1>1. /\ at'[p] = "write" /\ answer' = answer /\ staging'[p] = EmptyDirectory
      /\ \A q \in Process : q # p => at'[q] = at[q] /\ staging'[q] = staging[q]
  BY DEF DatabaseInv, Shape, Exports, ExportTypeOK
<1>2. EmptyDirectory = [exists |-> TRUE, files |-> {}, manifest |-> {}]
  BY DEF EmptyDirectory
<1>3. ExportTypeOK' /\ DestinationWhole'
  BY <1>2 DEF Exports, ExportTypeOK, Directories, DestinationWhole, Describes
<1>4. Exporter(p)
  BY DEF Exports
<1>5. Staging(p)' /\ Told(p)' /\ answer'[p].code # "exported"
  BY <1>1, <1>2, <1>4 DEF Exporter, Staging, Told, Staged, NoAnswer
<1>6. Exporter(p)'
  BY <1>1, <1>4, <1>5 DEF Exporter, SnapshotWhole, Describes, Exporting
<1> QED
  BY <1>1, <1>3, <1>5, <1>6, OneExporter

LEMMA WriteRecordKeeps ==
  ASSUME DatabaseInv, Exports, NEW p \in Process, WriteRecord(p), UNCHANGED fixedVars
  PROVE  Exports'
<1> USE DEF fixedVars, processVars
<1>1. PICK r \in Unwritten(p) :
        /\ at[p] = "write" /\ staging' = [staging EXCEPT ![p].files = @ \cup {r}]
        /\ UNCHANGED <<destination, snapshot, intruded, processVars>>
  BY DEF WriteRecord
<1>2. r \in Files(p) /\ staging[p] \in Directories /\ Files(p) \subseteq Record
  BY TypesInExport DEF Unwritten
<1>3. /\ staging'[p] = [staging[p] EXCEPT !.files = @ \cup {r}]
      /\ \A q \in Process : q # p => staging'[q] = staging[q]
  BY <1>1 DEF Exports, ExportTypeOK
<1>4. /\ staging'[p].exists = staging[p].exists
      /\ staging'[p].manifest = staging[p].manifest
      /\ staging'[p].files = staging[p].files \cup {r}
      /\ staging'[p] \in Directories
  BY <1>2, <1>3 DEF Directories
<1>5. ExportTypeOK' /\ DestinationWhole'
  BY <1>1, <1>4 DEF Exports, ExportTypeOK, DestinationWhole, Describes
<1>6. Exporter(p)
  BY DEF Exports
<1>7. Files(p)' = Files(p)
  BY <1>1 DEF Files
<1>8. Staging(p)' /\ Told(p)' /\ answer'[p].code # "exported"
  BY <1>1, <1>2, <1>4, <1>6, <1>7 DEF Exporter, Staging, Told, Staged, NoAnswer
<1>9. Exporter(p)'
  BY <1>1, <1>6, <1>8 DEF Exporter, SnapshotWhole, Describes
<1> QED
  BY <1>1, <1>3, <1>5, <1>8, <1>9, OneExporter

LEMMA WriteManifestKeeps ==
  ASSUME DatabaseInv, Exports, NEW p \in Process, WriteManifest(p), UNCHANGED fixedVars
  PROVE  Exports'
<1> USE DEF fixedVars
<1>1. /\ at[p] = "write" /\ Unwritten(p) = {}
      /\ staging' = [staging EXCEPT ![p].manifest = {ManifestOf(p)}]
      /\ at' = [at EXCEPT ![p] = "publish"]
      /\ UNCHANGED <<answer, destination, snapshot, intruded>>
  BY DEF WriteManifest, Goto
<1>2. Exporter(p)
  BY DEF Exports
<1>3. /\ staging[p] \in Directories /\ Files(p) \subseteq Record
      /\ ManifestOf(p) \in Manifests
  BY <1>1, <1>2, TypesInExport DEF Exporter, Exporting
<1>4. /\ at'[p] = "publish" /\ staging'[p] = [staging[p] EXCEPT !.manifest = {ManifestOf(p)}]
      /\ \A q \in Process : q # p => at'[q] = at[q] /\ staging'[q] = staging[q]
  BY <1>1 DEF DatabaseInv, Shape, Exports, ExportTypeOK
<1>5. staging[p].exists /\ staging[p].files = Files(p)
  BY <1>1, <1>2 DEF Exporter, Staging, Unwritten
<1>6. staging'[p] = [exists |-> TRUE, files |-> Files(p), manifest |-> {ManifestOf(p)}]
  BY <1>3, <1>4, <1>5 DEF Directories
<1>7. ExportTypeOK' /\ DestinationWhole'
  BY <1>1, <1>3, <1>6 DEF Exports, ExportTypeOK, Directories, DestinationWhole, Describes
<1>8. Files(p)' = Files(p) /\ ManifestOf(p)' = ManifestOf(p)
  BY <1>1 DEF Files, ManifestOf
<1>9. Staging(p)' /\ Told(p)' /\ answer'[p].code # "exported"
  BY <1>1, <1>2, <1>4, <1>6, <1>8 DEF Exporter, Staging, Told, Staged, NoAnswer
<1>10. Exporter(p)'
  BY <1>1, <1>2, <1>4, <1>9 DEF Exporter, SnapshotWhole, Describes, Exporting
<1> QED
  BY <1>1, <1>4, <1>7, <1>9, <1>10, OneExporter

\* A failed export drops its staging directory.
LEMMA FailKeeps ==
  ASSUME DatabaseInv, Exports, NEW p \in Process, NEW reason, Fail(p, reason),
         at[p] # "over", UNCHANGED <<fixedVars, destination, snapshot, intruded>>,
         reason \in {"io", "manifest", "publish"},
         reason = "manifest" => Exported \notin snapshot[p].records
  PROVE  Exports'
<1> USE DEF fixedVars, Fail, End
<1>1. Exporter(p)
  BY DEF Exports
<1>2. /\ at'[p] = "over" /\ staging'[p] = NoDirectory
      /\ answer'[p] = [code |-> "export_failed", reason |-> reason]
      /\ \A q \in Process : q # p =>
           at'[q] = at[q] /\ staging'[q] = staging[q] /\ answer'[q] = answer[q]
  BY DEF DatabaseInv, Shape, Exports, ExportTypeOK
<1>3. ExportTypeOK' /\ DestinationWhole'
  BY DEF Exports, ExportTypeOK, Directories, NoDirectory, DestinationWhole, Describes
<1>4. answer'[p].code = "export_failed" /\ answer'[p].reason = reason
  BY <1>2
<1>5. Staging(p)' /\ Told(p)'
  BY <1>2, <1>4 DEF Staging, Told, Staged, NoDirectory
<1>6. Exporter(p)'
  BY <1>1, <1>2, <1>5 DEF Exporter, SnapshotWhole, Describes, Exporting
<1> QED
  BY <1>2, <1>3, <1>4, <1>6, OneExporter

\* The manifest is refused only when the repository is not among the records.
LEMMA RejectManifestKeeps ==
  ASSUME DatabaseInv, Exports, NEW p \in Process, RejectManifest(p), UNCHANGED fixedVars
  PROVE  Exports'
<1>1. Exporter(p)
  BY DEF Exports
<1>2. Exported \notin snapshot[p].records
  BY <1>1 DEF RejectManifest, ManifestValid, ManifestOf, Exporter, SnapshotWhole
<1> QED
  BY <1>2, FailKeeps DEF RejectManifest

LEMMA WriteFailsKeeps ==
  ASSUME DatabaseInv, Exports, NEW p \in Process, WriteFails(p), UNCHANGED fixedVars
  PROVE  Exports'
BY FailKeeps DEF WriteFails

LEMMA PublishFailsKeeps ==
  ASSUME DatabaseInv, Exports, NEW p \in Process, PublishFails(p), UNCHANGED fixedVars
  PROVE  Exports'
BY FailKeeps DEF PublishFails

LEMMA LookAtOutputKeeps ==
  ASSUME DatabaseInv, Exports, NEW p \in Process, LookAtOutput(p), UNCHANGED fixedVars
  PROVE  Exports'
<1> USE DEF fixedVars, exportVars
<1>1. PICK stage \in {"remove", "rename"} : at' = [at EXCEPT ![p] = stage] /\ answer' = answer
  BY DEF LookAtOutput, Goto
<1>2. at[p] = "publish" /\ UNCHANGED exportVars
  BY DEF LookAtOutput
<1>3. at'[p] = stage /\ \A q \in Process : q # p => at'[q] = at[q]
  BY <1>1 DEF DatabaseInv, Shape
<1>4. Exporter(p)
  BY DEF Exports
<1>5. ExportTypeOK' /\ DestinationWhole'
  BY <1>2 DEF Exports, ExportTypeOK, DestinationWhole, Describes
<1>6. Files(p)' = Files(p) /\ ManifestOf(p)' = ManifestOf(p)
  BY <1>2 DEF Files, ManifestOf
<1>7. Staging(p)' /\ Told(p)' /\ answer'[p].code # "exported"
  BY <1>1, <1>2, <1>3, <1>4, <1>6 DEF Exporter, Staging, Told, Staged, NoAnswer
<1>8. Exporter(p)'
  BY <1>2, <1>3, <1>4, <1>7 DEF Exporter, SnapshotWhole, Describes, Exporting
<1> QED
  BY <1>1, <1>2, <1>3, <1>5, <1>7, <1>8, OneExporter

\* Only an empty directory is removed: no export, and no file of another program.
LEMMA RemoveOutputKeeps ==
  ASSUME DatabaseInv, Exports, NEW p \in Process, RemoveOutput(p), UNCHANGED fixedVars
  PROVE  Exports'
<1> USE DEF fixedVars
<1>1. /\ at[p] = "remove" /\ IsEmpty(destination) /\ destination' = NoDirectory
      /\ at' = [at EXCEPT ![p] = "rename"]
      /\ UNCHANGED <<answer, staging, snapshot, intruded>>
  BY DEF RemoveOutput, Goto
<1>2. at'[p] = "rename" /\ \A q \in Process : q # p => at'[q] = at[q]
  BY <1>1 DEF DatabaseInv, Shape
<1>3. Exporter(p)
  BY DEF Exports
<1>4. ExportTypeOK' /\ DestinationWhole' /\ destination'.manifest = destination.manifest
  BY <1>1 DEF Exports, ExportTypeOK, Directories, NoDirectory, IsEmpty, DestinationWhole
<1>5. Files(p)' = Files(p) /\ ManifestOf(p)' = ManifestOf(p)
  BY <1>1 DEF Files, ManifestOf
<1>6. Staging(p)' /\ Told(p)' /\ answer'[p].code # "exported"
  BY <1>1, <1>2, <1>3, <1>5 DEF Exporter, Staging, Told, Staged, NoAnswer
<1>7. Exporter(p)'
  BY <1>1, <1>2, <1>3, <1>6 DEF Exporter, SnapshotWhole, Describes, Exporting
<1> QED
  BY <1>1, <1>2, <1>4, <1>6, <1>7, OneExporter

\* What is renamed is whole, and what it replaces was empty: nobody has
\* exported before.
LEMMA RenameStageKeeps ==
  ASSUME DatabaseInv, Exports, NEW p \in Process, RenameStage(p), UNCHANGED fixedVars
  PROVE  Exports'
<1> USE DEF fixedVars
<1>1. /\ at[p] = "rename" /\ IsEmpty(destination) /\ destination' = staging[p]
      /\ staging' = [staging EXCEPT ![p] = NoDirectory]
      /\ at' = [at EXCEPT ![p] = "over"]
      /\ answer' = [answer EXCEPT ![p] = [code |-> "exported"]]
      /\ UNCHANGED <<snapshot, intruded>>
  BY DEF RenameStage, Refuse, End
<1>2. /\ at'[p] = "over" /\ staging'[p] = NoDirectory /\ answer'[p] = [code |-> "exported"]
      /\ \A q \in Process : q # p =>
           at'[q] = at[q] /\ staging'[q] = staging[q] /\ answer'[q] = answer[q]
  BY <1>1 DEF DatabaseInv, Shape, Exports, ExportTypeOK
<1>3. Exporter(p)
  BY DEF Exports
<1>4. /\ destination' = [exists |-> TRUE, files |-> Files(p), manifest |-> {ManifestOf(p)}]
      /\ destination' \in Directories
  BY <1>1, <1>3, TypesInExport DEF Exporter, Staging
<1>5. \A q \in Process : answer[q].code # "exported"
  <2> SUFFICES ASSUME NEW q \in Process, answer[q].code = "exported" PROVE FALSE
    OBVIOUS
  <2>1. destination.manifest = {ManifestOf(q)}
    BY DEF Exports, Exporter, Told
  <2> QED
    BY <1>1, <2>1 DEF IsEmpty
<1>6. ExportTypeOK'
  BY <1>1, <1>4 DEF Exports, ExportTypeOK, Directories, NoDirectory
<1>7. DestinationWhole'
  <2>1. ~intruded
    BY <1>1 DEF Exports, DestinationWhole, IsEmpty
  <2>2. destination'.manifest = {ManifestOf(p)} /\ destination'.files = Files(p)
    BY <1>4
  <2>3. Describes(ManifestOf(p))
    BY <1>3 DEF Exporter, SnapshotWhole, Describes, ManifestOf
  <2>4. Files(p) = IF ManifestOf(p).mode = "export-full" THEN ManifestOf(p).records ELSE {}
    BY DEF Files, ManifestOf
  <2> QED
    BY <1>1, <2>1, <2>2, <2>3, <2>4 DEF DestinationWhole, Describes
<1>8. ManifestOf(p)' = ManifestOf(p)
  BY <1>1 DEF ManifestOf
<1>9. Staging(p)' /\ Told(p)'
  <2>1. answer'[p].code = "exported" /\ answer'[p] # [code |-> "export_failed", reason |-> "manifest"]
    <3>1. [code |-> "export_failed", reason |-> "manifest"].code = "export_failed"
      OBVIOUS
    <3> QED
      BY <1>2, <3>1
  <2> QED
    BY <1>2, <1>4, <1>8, <2>1 DEF Staging, Told, Staged, NoDirectory
<1>10. Exporter(p)'
  BY <1>1, <1>2, <1>3, <1>9 DEF Exporter, SnapshotWhole, Describes, Exporting
<1> QED
  BY <1>1, <1>2, <1>5, <1>6, <1>7, <1>10, OneExporter

LEMMA DieExportingKeeps ==
  ASSUME DatabaseInv, Exports, NEW p \in Process, DieExporting(p), UNCHANGED fixedVars
  PROVE  Exports'
<1> USE DEF fixedVars, exportVars
<1>1. /\ at[p] \in Exporting /\ UNCHANGED exportVars
      /\ at' = [at EXCEPT ![p] = "over"]
      /\ answer' = [answer EXCEPT ![p] = [code |-> "killed"]]
  BY DEF DieExporting, Refuse, End
<1>2. /\ at'[p] = "over" /\ answer'[p] = [code |-> "killed"]
      /\ \A q \in Process : q # p => at'[q] = at[q] /\ answer'[q] = answer[q]
  BY <1>1 DEF DatabaseInv, Shape
<1>3. Exporter(p)
  BY DEF Exports
<1>4. ExportTypeOK' /\ DestinationWhole'
  BY <1>1 DEF Exports, ExportTypeOK, DestinationWhole, Describes
<1>5. answer'[p].code = "killed" /\ answer'[p] # [code |-> "export_failed", reason |-> "manifest"]
  <2>1. [code |-> "export_failed", reason |-> "manifest"].code = "export_failed"
    OBVIOUS
  <2> QED
    BY <1>2, <2>1
<1>6. Staging(p)' /\ Told(p)'
  BY <1>2, <1>5 DEF Staging, Told, Staged
<1>7. Exporter(p)'
  BY <1>1, <1>2, <1>3, <1>6 DEF Exporter, SnapshotWhole, Describes, Exporting
<1> QED
  BY <1>1, <1>2, <1>4, <1>5, <1>7, OneExporter

\* Another program adds a file where there is no export.
LEMMA IntrudeKeeps ==
  ASSUME Exports, Intrude, UNCHANGED fixedVars PROVE Exports'
<1> USE DEF fixedVars, processVars
<1>1. /\ destination.manifest = {} /\ destination \in Directories
      /\ destination' = [destination EXCEPT !.exists = TRUE, !.files = @ \cup {Foreign}]
      /\ UNCHANGED <<staging, snapshot, at, answer>> /\ intruded' = TRUE
  BY DEF Intrude, Exports, ExportTypeOK
<1>2. /\ destination'.manifest = {} /\ Foreign \in destination'.files
      /\ destination' \in Directories
  BY <1>1 DEF Directories
<1>3. ExportTypeOK' /\ DestinationWhole'
  BY <1>1, <1>2 DEF Exports, ExportTypeOK, DestinationWhole
<1>4. \A q \in Process : Exporter(q)'
  BY <1>1, <1>2, OtherKept DEF Exports
<1>5. OneExport'
  BY <1>1 DEF Exports, OneExport
<1> QED
  BY <1>3, <1>4, <1>5 DEF Exports

(***************************************************************************)
(* The composition.                                                        *)
(***************************************************************************)

\* The steps of an export, and of a check or a client beside its records.
ExportStep(p) ==
  \/ PrepareDestination(p) \/ TakeSnapshot(p) \/ CreateStage(p) \/ WriteRecord(p)
  \/ WriteManifest(p) \/ RejectManifest(p) \/ WriteFails(p) \/ LookAtOutput(p)
  \/ RemoveOutput(p) \/ RenameStage(p) \/ PublishFails(p) \/ DieExporting(p)

RecordsStep(p) ==
  \/ PutRecord(p) \/ PutGroup(p) \/ PutTraceMetrics(p) \/ AppendOutcomeAnnotation(p)
  \/ SetActiveCapability(p) \/ Prune(p)

\* Whatever a command says, it has type, and it says it at the end.
LEMMA AnsweredKept ==
  ASSUME Answered, NEW p \in Process, NEW stage, MovesTo(p, stage) PROVE Answered'
BY DEF Answered, MovesTo

LEMMA RecordsStepKeeps ==
  ASSUME RecordsInv, NEW p \in Process, RecordsStep(p) PROVE RecordsInv'
BY PutRecordKeeps, PutGroupKeeps, PutTraceMetricsKeeps, AppendKeeps, ActivateKeeps, PruneKeeps
   DEF RecordsStep

LEMMA ExportStepKeeps ==
  ASSUME DatabaseInv, RecordsInv, Exports, NEW p \in Process, ExportStep(p),
         UNCHANGED fixedVars
  PROVE  Exports'
BY PrepareKeeps, TakeSnapshotKeeps, CreateStageKeeps, WriteRecordKeeps, WriteManifestKeeps,
   RejectManifestKeeps, WriteFailsKeeps, LookAtOutputKeeps, RemoveOutputKeeps,
   RenameStageKeeps, PublishFailsKeeps, DieExportingKeeps
DEF ExportStep

LEMMA ExportMoves ==
  ASSUME NEW p \in Process, ExportStep(p)
  PROVE  /\ at[p] \in Exporting
         /\ \/ UNCHANGED processVars
            \/ \E stage \in {"look", "stage", "write", "publish", "remove", "rename"} :
                 MovesTo(p, stage)
            \/ /\ at' = [at EXCEPT ![p] = "over"]
               /\ \E said \in ExportAnswers \cup {[code |-> "sqlite"], [code |-> "killed"]} :
                    answer' = [answer EXCEPT ![p] = said]
<1> USE DEF Exporting, MovesTo, Goto, Refuse, End, Fail
<1>0. /\ [code |-> "export_path_not_empty"] \in ExportAnswers
      /\ [code |-> "exported"] \in ExportAnswers
      /\ \A reason \in {"io", "manifest", "publish"} :
           [code |-> "export_failed", reason |-> reason] \in ExportAnswers
  BY DEF ExportAnswers
<1>1. CASE PrepareDestination(p)
  BY <1>0, <1>1 DEF PrepareDestination
<1>2. CASE TakeSnapshot(p) \/ DieExporting(p)
  BY <1>2 DEF TakeSnapshot, DieExporting
<1>3. CASE CreateStage(p) \/ WriteRecord(p) \/ WriteManifest(p) \/ LookAtOutput(p)
           \/ RemoveOutput(p)
  BY <1>3 DEF CreateStage, WriteRecord, WriteManifest, LookAtOutput, RemoveOutput
<1>4. CASE RejectManifest(p) \/ WriteFails(p) \/ PublishFails(p)
  BY <1>0, <1>4 DEF RejectManifest, WriteFails, PublishFails
<1>5. CASE RenameStage(p)
  BY <1>0, <1>5 DEF RenameStage
<1> QED
  BY <1>1, <1>2, <1>3, <1>4, <1>5 DEF ExportStep

\* What a check, a client or an export answers is nothing about migrations.
OtherAnswers ==
  ExportAnswers \cup {[code |-> "sqlite"], [code |-> "killed"], [code |-> "ok"]}
    \cup [code : {"checked"}, dangling : BOOLEAN, version : 0..Newest, healthy : BOOLEAN]

LEMMA OtherAnswersTyped ==
  \A said \in OtherAnswers :
    said \in Answers /\ said.code \notin {"migrated", "migration_failed"}
BY DEF OtherAnswers, Answers, ExportAnswers, DatabaseAnswers, Refusals

\* A step of such a command leaves the database as it is.
LEMMA CommandMoves ==
  ASSUME DatabaseInv, Answered, UNCHANGED <<fileVars, schemaVars, fixedVars, from>>,
         NEW p \in Process, at[p] \notin {"migrating", "over"},
         \/ UNCHANGED processVars
         \/ \E stage \in {"look", "stage", "write", "publish", "remove", "rename", "counted"} :
              MovesTo(p, stage)
         \/ /\ at' = [at EXCEPT ![p] = "over"]
            /\ \E said \in OtherAnswers : answer' = [answer EXCEPT ![p] = said]
  PROVE  DatabaseInv' /\ Answered'
<1>1. CASE UNCHANGED processVars
  BY <1>1, InvHolds_Stutter DEF databaseVars, processVars, Answered
<1>2. ASSUME NEW stage \in {"look", "stage", "write", "publish", "remove", "rename", "counted"},
             MovesTo(p, stage)
      PROVE  DatabaseInv' /\ Answered'
  <2>1. stage \in Stages \ {"secure", "migrating"} /\ stage \notin Trusting /\ stage # "over"
    BY DEF Stages, Working, Opening, Trusting
  <2>2. at' = [at EXCEPT ![p] = stage] /\ UNCHANGED answer
    BY <1>2, <2>1 DEF MovesTo
  <2> QED
    BY <2>1, <2>2, CommandKeeps DEF Answered
<1>3. ASSUME NEW said \in OtherAnswers, at' = [at EXCEPT ![p] = "over"],
             answer' = [answer EXCEPT ![p] = said]
      PROVE  DatabaseInv' /\ Answered'
  <2>1. said \in Answers /\ said.code \notin {"migrated", "migration_failed"}
    BY OtherAnswersTyped
  <2>2. /\ answer'[p] = said
        /\ answer' = [q \in Process |-> IF q = p THEN answer'[p] ELSE answer[q]]
    BY <1>3 DEF Answered
  <2>3. "over" \in Stages \ {"secure", "migrating"} /\ "over" \notin Trusting
    BY DEF Stages, Trusting
  <2>4. DatabaseInv'
    BY <1>3, <2>1, <2>2, <2>3, CommandKeeps
  <2> QED
    BY <1>3, <2>1, <2>4 DEF Answered
<1> QED
  BY <1>1, <1>2, <1>3

\* A check counts references to rows that are not there, and there are none.
LEMMA CheckFindsNothing ==
  ASSUME RecordsInv
  PROVE  ~ \/ \E r \in rows, parent \in UNION {Parents(q) : q \in rows} :
                parent \in Parents(r) /\ parent \notin rows
           \/ \E m \in members : {m[1], m[2]} \ rows # {}
           \/ \E n \in Name : active[n] # ActiveCapability(n)
<1>1. \A r \in rows : \A parent \in Parents(r) : parent \in rows
  BY DEF RecordsInv, ReferencesStand
<1>2. \A m \in members : m[1] \in rows /\ m[2] \in rows
  BY DEF RecordsInv, MembersStand, Stored
<1>3. \A n \in Name : active[n] = ActiveCapability(n)
  BY DEF RecordsInv, ActiveStands, ActiveCapability
<1> QED
  BY <1>1, <1>2, <1>3

LEMMA CatalogueInv_Init == Init => CatalogueInv
<1> SUFFICES ASSUME Init PROVE CatalogueInv
  OBVIOUS
<1>1. DatabaseInv
  BY InvHolds_Init DEF Init
<1>2. RecordsInv
  <2>1. /\ scenario \in Scenario /\ rows = scenario.rows /\ members = {}
        /\ active = [n \in Name |-> NoRecord] /\ current = [r \in Record |-> NoRecord]
    BY DEF Init
  <2>2. /\ rows \subseteq Record
        /\ \A r \in rows : KindOf(r) \notin {"outcome_annotation", "group"}
                           /\ Parents(r) \subseteq rows
    BY <2>1, CatalogueAssumption
  <2> QED
    BY <2>1, <2>2 DEF RecordsInv, RecordsTypeOK, Reference, ReferencesStand, MembersStand,
       ActiveStands, GroupsComplete, CurrentStands, CurrentLast, Stored
<1>3. Exports
  <2>1. /\ destination \in Directories /\ destination.manifest = {}
        /\ staging = [p \in Process |-> NoDirectory]
        /\ snapshot = [p \in Process |-> NoSnapshot]
        /\ answer = [p \in Process |-> NoAnswer]
        /\ at = [p \in Process |-> IF command[p] \in ExportCommands THEN "prepare" ELSE "look"]
        /\ intruded = (Foreign \in destination.files)
    BY CatalogueAssumption DEF Init, DatabaseInit
  <2>2. ExportTypeOK
    BY <2>1 DEF ExportTypeOK, Directories, NoDirectory, Snapshots, NoSnapshot
  <2>3. DestinationWhole /\ OneExport
    BY <2>1 DEF DestinationWhole, OneExport, NoAnswer
  <2>4. ASSUME NEW p \in Process PROVE Exporter(p)
    <3>1. /\ staging[p] = NoDirectory /\ answer[p] = NoAnswer /\ snapshot[p] = NoSnapshot
          /\ at[p] \in {"prepare", "look"}
          /\ at[p] = "prepare" => command[p] \in ExportCommands
      BY <2>1
    <3>2. SnapshotWhole(snapshot[p])
      BY <3>1 DEF SnapshotWhole, Describes, NoSnapshot
    <3>3. answer[p].code = "none" /\ answer[p] # [code |-> "export_failed", reason |-> "manifest"]
      <4>1. [code |-> "export_failed", reason |-> "manifest"].code = "export_failed"
        OBVIOUS
      <4> QED
        BY <3>1, <4>1 DEF NoAnswer
    <3>4. Staging(p) /\ Told(p)
      BY <3>1, <3>3 DEF Staging, Told, Staged
    <3> QED
      BY <3>1, <3>2, <3>4 DEF Exporter, Exporting
  <2> QED
    BY <2>2, <2>3, <2>4 DEF Exports
<1>4. NothingDangling
  BY DEF Init, NothingDangling
<1>5. Answered
  BY DEF Init, DatabaseInit, Answered, Answers, DatabaseAnswers, NoAnswer
<1>6. Bounded
  BY CatalogueAssumption DEF Init, Bounded
<1> QED
  BY <1>1, <1>2, <1>3, <1>4, <1>5, <1>6 DEF CatalogueInv

\* One process opens, migrates, or is killed while it does.
LEMMA DatabasePart ==
  ASSUME CatalogueInv, NEW p \in Process, DatabaseStep(p),
         UNCHANGED <<rowVars, exportVars, dangling>>, Bounded'
  PROVE  CatalogueInv'
<1>1. DatabaseInv /\ RecordsInv /\ Exports /\ NothingDangling /\ Answered
  BY DEF CatalogueInv
<1>2. DatabaseInv'
  BY <1>1, InvHolds_Next
<1>3. RecordsInv' /\ NothingDangling'
  BY <1>1, RecordsInv_Stutter DEF NothingDangling
<1>4. UNCHANGED fixedVars /\ at[p] \in Working
  BY <1>1, DatabaseMoves
<1>5. CASE UNCHANGED processVars
  <2>1. Exports'
    BY <1>1, <1>4, <1>5, ExportsStutter
  <2>2. Answered'
    BY <1>1, <1>5 DEF Answered, processVars
  <2> QED
    BY <1>2, <1>3, <2>1, <2>2 DEF CatalogueInv
<1>6. ASSUME NEW stage \in Working \cup {"snapshot"}, MovesTo(p, stage),
             stage = "snapshot" => command[p] \in ExportCommands
      PROVE  CatalogueInv'
  <2>1. Answered'
    BY <1>1, <1>6, AnsweredKept
  <2>2. /\ at[p] \notin Staged \cup {"over"} /\ stage \notin Staged /\ stage # "over"
        /\ stage \in Exporting => command[p] \in ExportCommands
    BY <1>4, <1>6 DEF Working, Opening, Staged, Exporting
  <2>3. Exports'
    BY <1>1, <1>4, <1>6, <2>2, ExportsFrame
  <2> QED
    BY <1>2, <1>3, <2>1, <2>3 DEF CatalogueInv
<1>7. ASSUME NEW said \in DatabaseAnswers, at' = [at EXCEPT ![p] = "over"],
             answer' = [answer EXCEPT ![p] = said]
      PROVE  CatalogueInv'
  <2>1. MovesTo(p, "over")
    BY <1>7 DEF MovesTo, Answers
  <2>2. Answered'
    BY <1>1, <2>1, AnsweredKept
  <2>3. answer'[p].code \notin {"exported", "export_failed"}
    <3>1. answer'[p] = said
      BY <1>1, <1>7 DEF Answered
    <3> QED
      BY <3>1 DEF DatabaseAnswers, Refusals
  <2>4. at[p] \notin Staged \cup {"over"} /\ "over" \notin Staged /\ "over" \notin Exporting
    BY <1>4 DEF Working, Opening, Staged, Exporting
  <2>5. Exports'
    BY <1>1, <1>4, <2>1, <2>3, <2>4, ExportsFrame
  <2> QED
    BY <1>2, <1>3, <2>2, <2>5 DEF CatalogueInv
<1> QED
  BY <1>1, <1>5, <1>6, <1>7, DatabaseMoves

\* One process checks: it finds nothing.
LEMMA CheckPart ==
  ASSUME CatalogueInv, NEW p \in Process, CheckReferences(p) \/ CheckVersion(p),
         UNCHANGED <<kills, scenario>>
  PROVE  CatalogueInv'
<1>1. /\ DatabaseInv /\ RecordsInv /\ Exports /\ NothingDangling /\ Answered
      /\ dangling \in [Process -> BOOLEAN] /\ stamp \in 0..Newest
  BY DEF CatalogueInv, NothingDangling, DatabaseInv, DatabaseTypeOK
<1>2. Bounded' /\ RecordsInv' /\ UNCHANGED <<fileVars, schemaVars, fixedVars, from, exportVars>>
  BY <1>1, RecordsInv_Stutter
  DEF CatalogueInv, Bounded, CheckReferences, CheckVersion
<1>3. NothingDangling'
  <2>1. CASE CheckReferences(p)
    <3>1. dangling' = [dangling EXCEPT ![p] = FALSE]
      BY <1>1, <2>1, CheckFindsNothing DEF CheckReferences
    <3> QED
      BY <1>1, <3>1 DEF NothingDangling
  <2>2. CASE CheckVersion(p)
    BY <1>1, <2>2 DEF CheckVersion, NothingDangling
  <2> QED
    BY <2>1, <2>2
<1>4. CASE CheckReferences(p)
  <2>1. at[p] = "checking" /\ MovesTo(p, "counted")
    BY <1>4 DEF CheckReferences, Goto, MovesTo
  <2>2. DatabaseInv' /\ Answered'
    BY <1>1, <1>2, <2>1, CommandMoves
  <2>3. Exports'
    BY <1>1, <1>2, <2>1, ExportsFrame DEF Staged, Exporting
  <2> QED
    BY <1>2, <1>3, <2>2, <2>3 DEF CatalogueInv
<1>5. CASE CheckVersion(p)
  <2> DEFINE said == [code |-> "checked", dangling |-> dangling[p], version |-> stamp,
                      healthy |-> ~dangling[p] /\ stamp = supported[p]]
  <2>1. /\ at[p] = "counted" /\ at' = [at EXCEPT ![p] = "over"]
        /\ answer' = [answer EXCEPT ![p] = said]
    BY <1>5 DEF CheckVersion, End
  <2>2. said \in OtherAnswers /\ said.code = "checked"
    BY <1>1 DEF OtherAnswers
  <2>3. DatabaseInv' /\ Answered'
    BY <1>1, <1>2, <2>1, <2>2, CommandMoves
  <2>4. MovesTo(p, "over")
    BY <2>1, <2>2, OtherAnswersTyped DEF MovesTo
  <2>5. answer'[p].code = "checked"
    BY <1>1, <2>1, <2>2 DEF Answered
  <2>6. Exports'
    BY <1>1, <1>2, <2>1, <2>4, <2>5, ExportsFrame DEF Staged, Exporting
  <2> QED
    BY <1>2, <1>3, <2>3, <2>6 DEF CatalogueInv
<1> QED
  BY <1>4, <1>5

\* A client changes the rows, or ends.
LEMMA RecordsPart ==
  ASSUME CatalogueInv, NEW p \in Process, RecordsStep(p), OfRecords PROVE CatalogueInv'
<1>1. RecordsInv'
  BY RecordsStepKeeps DEF CatalogueInv
<1>2. DatabaseInv' /\ Exports' /\ NothingDangling' /\ Answered' /\ Bounded'
  BY InvHolds_Stutter, ExportsStutter
  DEF CatalogueInv, OfRecords, databaseVars, processVars, NothingDangling, Answered, Bounded
<1> QED
  BY <1>1, <1>2 DEF CatalogueInv

LEMMA ClientPart ==
  ASSUME CatalogueInv, NEW p \in Process, ClientEnds(p), OfExport, UNCHANGED exportVars
  PROVE  CatalogueInv'
<1>1. /\ DatabaseInv /\ RecordsInv /\ Exports /\ NothingDangling /\ Answered /\ Bounded
      /\ UNCHANGED <<fileVars, schemaVars, fixedVars, from, rowVars, dangling, kills, scenario>>
  BY DEF CatalogueInv, OfExport
<1>2. /\ at[p] = "client" /\ at' = [at EXCEPT ![p] = "over"]
      /\ answer' = [answer EXCEPT ![p] = [code |-> "ok"]]
  BY DEF ClientEnds, IsClient, Refuse, End
<1>3. [code |-> "ok"] \in OtherAnswers
  BY DEF OtherAnswers
<1>4. DatabaseInv' /\ Answered'
  BY <1>1, <1>2, <1>3, CommandMoves
<1>5. MovesTo(p, "over") /\ answer'[p].code = "ok"
  BY <1>1, <1>2, <1>3, OtherAnswersTyped DEF MovesTo, Answered
<1>6. Exports'
  BY <1>1, <1>2, <1>5, ExportsFrame DEF Staged, Exporting
<1> QED
  BY <1>1, <1>4, <1>6, RecordsInv_Stutter DEF CatalogueInv, NothingDangling, Bounded

\* One process exports.
LEMMA ExportPart ==
  ASSUME CatalogueInv, NEW p \in Process, ExportStep(p), Bounded',
         UNCHANGED <<fileVars, schemaVars, fixedVars, from, rowVars, dangling>>
  PROVE  CatalogueInv'
<1>1. DatabaseInv /\ RecordsInv /\ Exports /\ NothingDangling /\ Answered
  BY DEF CatalogueInv
<1>2. Exports'
  BY <1>1, ExportStepKeeps
<1>3. at[p] \notin {"migrating", "over"}
  BY ExportMoves DEF Exporting
<1>4. DatabaseInv' /\ Answered'
  <2>1. CASE /\ at' = [at EXCEPT ![p] = "over"]
             /\ \E said \in ExportAnswers \cup {[code |-> "sqlite"], [code |-> "killed"]} :
                  answer' = [answer EXCEPT ![p] = said]
    BY <1>1, <1>3, <2>1, CommandMoves DEF OtherAnswers
  <2>2. CASE \/ UNCHANGED processVars
             \/ \E stage \in {"look", "stage", "write", "publish", "remove", "rename"} :
                  MovesTo(p, stage)
    BY <1>1, <1>3, <2>2, CommandMoves
  <2> QED
    BY <2>1, <2>2, ExportMoves
<1> QED
  BY <1>1, <1>2, <1>4, RecordsInv_Stutter DEF CatalogueInv, NothingDangling

LEMMA IntrudePart ==
  ASSUME CatalogueInv, Intrude, OfExport PROVE CatalogueInv'
<1>1. /\ DatabaseInv /\ RecordsInv /\ Exports /\ NothingDangling /\ Answered /\ Bounded
      /\ UNCHANGED <<fileVars, schemaVars, fixedVars, from, rowVars, dangling, kills, scenario>>
      /\ UNCHANGED processVars
  BY DEF CatalogueInv, OfExport, Intrude
<1> QED
  BY <1>1, IntrudeKeeps, InvHolds_Stutter, RecordsInv_Stutter
  DEF CatalogueInv, databaseVars, NothingDangling, Answered, processVars, Bounded

LEMMA CatalogueInv_Stutter ==
  ASSUME CatalogueInv, UNCHANGED vars PROVE CatalogueInv'
BY InvHolds_Stutter, RecordsInv_Stutter, ExportsStutter
DEF CatalogueInv, vars, databaseVars, processVars, NothingDangling, Answered, Bounded

\* A kill is one of those that are left.
LEMMA KillsBounded ==
  ASSUME CatalogueInv, Killed \/ UNCHANGED kills, UNCHANGED scenario PROVE Bounded'
BY CatalogueAssumption DEF CatalogueInv, Bounded, Killed

LEMMA CatalogueInv_Next ==
  ASSUME CatalogueInv, [Next]_vars PROVE CatalogueInv'
<1>1. CASE UNCHANGED vars
  BY <1>1, CatalogueInv_Stutter
<1>2. CASE Intrude /\ OfExport
  BY <1>2, IntrudePart
<1>3. ASSUME NEW p \in Process,
             \/ DatabaseStep(p) /\ OfDatabase
             \/ DatabaseStep(p) /\ Killed /\ UNCHANGED <<rowVars, exportVars, dangling, scenario>>
      PROVE  CatalogueInv'
  <2>1. Bounded' /\ UNCHANGED <<rowVars, exportVars, dangling>>
    BY <1>3, KillsBounded DEF OfDatabase
  <2> QED
    BY <1>3, <2>1, DatabasePart
<1>4. ASSUME NEW p \in Process, CheckReferences(p) \/ CheckVersion(p),
             UNCHANGED <<kills, scenario>>
      PROVE  CatalogueInv'
  BY <1>4, CheckPart
<1>5. ASSUME NEW p \in Process, RecordsStep(p), OfRecords PROVE CatalogueInv'
  BY <1>5, RecordsPart
<1>6. ASSUME NEW p \in Process, ClientEnds(p), OfExport, UNCHANGED exportVars
      PROVE  CatalogueInv'
  BY <1>6, ClientPart
<1>7. ASSUME NEW p \in Process,
             \/ ExportStep(p) /\ OfExport
             \/ /\ ExportStep(p) /\ Killed
                /\ UNCHANGED <<fileVars, schemaVars, fixedVars, from, rowVars, dangling, scenario>>
      PROVE  CatalogueInv'
  <2>1. Bounded' /\ UNCHANGED <<fileVars, schemaVars, fixedVars, from, rowVars, dangling>>
    BY <1>7, KillsBounded DEF OfExport
  <2> QED
    BY <1>7, <2>1, ExportPart
<1> QED
  BY <1>1, <1>2, <1>3, <1>4, <1>5, <1>6, <1>7
  DEF Next, DatabaseStep, RecordsStep, ExportStep

(***************************************************************************)
(* In every behaviour, for any number of processes, builds, records and    *)
(* capabilities, and whatever the world puts into the destination: the     *)
(* database is private and its schema coherent, its rows stand, and what   *)
(* each export has read, staged, published and said agrees.                *)
(***************************************************************************)
THEOREM CatalogueInvariant == Spec => []CatalogueInv
<1> QED
  BY CatalogueInv_Init, CatalogueInv_Next, PTL DEF Spec

\* Every variable of the composition keeps its type, the answers of every
\* command included (lib.rs:155, export.rs:49).
THEOREM CatalogueTypes == Spec => []TypeOK
<1> QED
  BY CatalogueInvariant, CatalogueSays, PTL

\* Nothing is written into a file others can read, with checks, clients and
\* exports beside the migrations (lib.rs:156-171).
THEOREM CataloguePrivate == Spec => []PrivateBeforeWritten
<1> QED
  BY CatalogueInvariant, CatalogueSays, PTL

\* The stamp is the schema, with checks, clients and exports beside the
\* migrations (migrate.rs:70-100).
THEOREM CatalogueCoherent == Spec => []SchemaCoherent
<1> QED
  BY CatalogueInvariant, CatalogueSays, PTL

\* What an active capability rests on is stored, down to each trajectory of its
\* group, whatever is put, activated and pruned (lib.rs:535, 754;
\* retention.rs:237).
THEOREM EvidenceKept == Spec => []EvidenceStands
<1> QED
  BY CatalogueInvariant, CatalogueSays, PTL

\* An export is one instant of the database, whole, and published at most once
\* over nothing (corpus_export.rs:28-60, corpus_export_io.rs:99-136).
THEOREM ExportsWhole == Spec => []ExportWhole
<1> QED
  BY CatalogueInvariant, CatalogueSays, PTL

\* However records are put and pruned while it counts, `store check` never meets
\* a reference to a row that is not there (lib.rs:232-240).
THEOREM ChecksFindNothing == Spec => []NothingDangling
<1>1. CatalogueInv => NothingDangling
  BY DEF CatalogueInv
<1> QED
  BY <1>1, CatalogueInvariant, PTL
=============================================================================
