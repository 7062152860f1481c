------------------------------- MODULE Export -------------------------------
(***************************************************************************)
(* `corpus export`: the records of one repository, taken from the database *)
(* in one transaction, are written into a staging directory beside the     *)
(* destination, the manifest last, and the staging directory is renamed    *)
(* over the destination.                                                   *)
(*                                                                         *)
(* The destination is looked at twice, before the database is opened and   *)
(* again before the rename; other exports and other programs may use it    *)
(* in between.  A command that ends in an error removes its staging        *)
(* directory; one that is killed leaves it.                                *)
(***************************************************************************)
EXTENDS Records

CONSTANTS
  Exported,   \* the repository that is exported
  Foreign     \* a file that is not of an export

ASSUME ExportAssumption == Exported \in Record /\ Foreign \notin Record

VARIABLES
  destination,   \* the output directory
  staging,       \* staging[p]: the staging directory of p
  snapshot,      \* snapshot[p]: the records and the current annotations p has read
  intruded       \* whether another program has put a file in the destination

exportVars == <<destination, staging, snapshot, intruded>>

\* A directory: its files, and the manifest among them, if there is one.
NoDirectory    == [exists |-> FALSE, files |-> {}, manifest |-> {}]
EmptyDirectory == [exists |-> TRUE, files |-> {}, manifest |-> {}]

IsEmpty(directory) == directory.files = {} /\ directory.manifest = {}

NoSnapshot == [records |-> {}, current |-> {}]

Snapshots == [records : SUBSET Record, current : SUBSET (Record \X Record)]

Manifests == [mode : ExportCommands, records : SUBSET Record, current : SUBSET (Record \X Record)]

Directories ==
  [exists : BOOLEAN, files : SUBSET (Record \cup {Foreign}), manifest : SUBSET Manifests]

ExportAnswers ==
  [code : {"export_path_not_empty", "exported"}]
    \cup [code : {"export_failed"}, reason : {"io", "manifest", "publish"}]

Exporting == {"prepare", "snapshot", "stage", "write", "publish", "remove", "rename"}

ExportTypeOK ==
  /\ destination \in Directories
  /\ staging \in [Process -> Directories] /\ snapshot \in [Process -> Snapshots]
  /\ intruded \in BOOLEAN

-----------------------------------------------------------------------------
\* prepare_destination: a directory that is there has to be empty.
PrepareDestination(p) ==
  /\ at[p] = "prepare"
  /\ IF IsEmpty(destination)
       THEN Goto(p, "look")
       ELSE Refuse(p, "export_path_not_empty")
  /\ UNCHANGED exportVars

(***************************************************************************)
(* export_snapshot, one transaction.  What was derived from the records    *)
(* (groups, candidates, capabilities) is not exported.                     *)
(***************************************************************************)
\* load_records: sessions and trajectories have a column for the repository,
\* an event belongs to one through its session, an outcome or an annotation
\* through its trajectory.
RepositoryOf(r) ==
  CASE KindOf(r) = "repository"              -> r
    [] KindOf(r) \in {"session", "trajectory"} -> Body[r].repository
    [] KindOf(r) = "event"                   -> Body[Body[r].session].repository
    [] KindOf(r) \in {"outcome", "outcome_annotation"} ->
         Body[Body[r].trajectory].repository
    [] OTHER                                 -> NoRecord

ExportedRecords == {r \in rows : RepositoryOf(r) = Exported}

CurrentAnnotations ==
  {<<t, current[t]>> : t \in {x \in Stored("trajectory") :
                                current[x] # NoRecord /\ Body[x].repository = Exported}}

\* Before the migration that made the annotation tables, the query fails.
TakeSnapshot(p) ==
  /\ at[p] = "snapshot"
  /\ \/ /\ stamp >= TableVersion("outcome_annotation")
        /\ snapshot' = [snapshot EXCEPT ![p] =
             [records |-> ExportedRecords, current |-> CurrentAnnotations]]
        /\ Goto(p, "stage")
     \/ /\ stamp < TableVersion("outcome_annotation")
        /\ Refuse(p, "sqlite")
        /\ UNCHANGED snapshot
  /\ UNCHANGED <<destination, staging, intruded>>

\* StageDir::create: a directory of its own name, whatever others have left.
CreateStage(p) ==
  /\ at[p] = "stage"
  /\ staging' = [staging EXCEPT ![p] = EmptyDirectory]
  /\ Goto(p, "write")
  /\ UNCHANGED <<destination, snapshot, intruded>>

Files(p) == IF command[p] = "export-full" THEN snapshot[p].records ELSE {}

Unwritten(p) == Files(p) \ staging[p].files

\* materialize: a file for each record, in their order, in full mode.
WriteRecord(p) == \E r \in Unwritten(p) :
  /\ at[p] = "write"
  /\ \A q \in Unwritten(p) : r <= q
  /\ staging' = [staging EXCEPT ![p].files = @ \cup {r}]
  /\ UNCHANGED <<destination, snapshot, intruded, processVars>>

\* An export that fails drops its staging directory.
Fail(p, reason) ==
  /\ staging' = [staging EXCEPT ![p] = NoDirectory]
  /\ End(p, [code |-> "export_failed", reason |-> reason])

\* validate_manifest: the repository is among the records, and so is what the
\* current annotations name.
ManifestOf(p) ==
  [mode |-> command[p], records |-> snapshot[p].records, current |-> snapshot[p].current]

ManifestValid(m) ==
  /\ Exported \in m.records
  /\ \A c \in m.current : c[1] \in m.records /\ c[2] \in m.records

WriteManifest(p) ==
  /\ at[p] = "write" /\ Unwritten(p) = {}
  /\ ManifestValid(ManifestOf(p))
  /\ staging' = [staging EXCEPT ![p].manifest = {ManifestOf(p)}]
  /\ Goto(p, "publish")
  /\ UNCHANGED <<destination, snapshot, intruded>>

RejectManifest(p) ==
  /\ at[p] = "write" /\ Unwritten(p) = {}
  /\ ~ManifestValid(ManifestOf(p))
  /\ Fail(p, "manifest")
  /\ UNCHANGED <<destination, snapshot, intruded>>

\* The file system refuses a directory or a file.
WriteFails(p) ==
  /\ at[p] \in {"stage", "write"}
  /\ Fail(p, "io")
  /\ UNCHANGED <<destination, snapshot, intruded>>

-----------------------------------------------------------------------------
(***************************************************************************)
(* publish: a destination that exists is removed, if it is empty, and the  *)
(* staging directory is renamed; rename replaces an empty directory.       *)
(***************************************************************************)
LookAtOutput(p) ==
  /\ at[p] = "publish"
  /\ Goto(p, IF destination.exists THEN "remove" ELSE "rename")
  /\ UNCHANGED exportVars

\* Mutant: the destination is removed with all that is in it.
RemoveAll(p) ==
  /\ at[p] = "remove"
  /\ destination' = NoDirectory
  /\ Goto(p, "rename")
  /\ UNCHANGED <<staging, snapshot, intruded>>

RemoveOutput(p) ==
  /\ at[p] = "remove"
  /\ destination.exists /\ IsEmpty(destination)
  /\ destination' = NoDirectory
  /\ Goto(p, "rename")
  /\ UNCHANGED <<staging, snapshot, intruded>>

RenameStage(p) ==
  /\ at[p] = "rename"
  /\ IsEmpty(destination)
  /\ destination' = staging[p]
  /\ staging' = [staging EXCEPT ![p] = NoDirectory]
  /\ Refuse(p, "exported")
  /\ UNCHANGED <<snapshot, intruded>>

\* Somebody else filled the destination, or removed it, since it was looked at.
PublishFails(p) ==
  /\ \/ at[p] = "remove" /\ ~(destination.exists /\ IsEmpty(destination))
     \/ at[p] = "rename" /\ ~IsEmpty(destination)
  /\ Fail(p, "publish")
  /\ UNCHANGED <<destination, snapshot, intruded>>

DieExporting(p) ==
  /\ at[p] \in Exporting
  /\ Refuse(p, "killed")
  /\ UNCHANGED exportVars

\* Another program, which knows nothing of exports, puts a file there.
Intrude ==
  /\ ~intruded /\ destination.manifest = {}
  /\ intruded' = TRUE
  /\ destination' = [destination EXCEPT !.exists = TRUE, !.files = @ \cup {Foreign}]
  /\ UNCHANGED <<staging, snapshot, processVars>>

-----------------------------------------------------------------------------
(***************************************************************************)
(* What stands in the destination is never half an export, and never half  *)
(* of two: a manifest that is there describes one instant of the database, *)
(* with every record a listed one refers to and the last annotation of     *)
(* every trajectory; in full mode there is a file for each record.  One    *)
(* export at most succeeds, and its directory is what remains; neither     *)
(* another program's file nor an earlier export is replaced.  An export    *)
(* fails its own validation only when the repository is not recorded, and  *)
(* leaves its staging directory only when it is killed                     *)
(* (corpus_export.rs:28-60, corpus_export_io.rs:99-136, export.rs:49-68).  *)
(***************************************************************************)
Describes(m) ==
  /\ \A r \in m.records : Parents(r) \subseteq m.records
  /\ \A r \in m.records : KindOf(r) = "outcome_annotation" =>
       \E c \in m.current : /\ c[1] = Body[r].trajectory /\ Body[c[2]].trajectory = c[1]
                            /\ Body[r].revision <= Body[c[2]].revision

ExportWhole ==
  /\ \A m \in destination.manifest :
       /\ Describes(m)
       /\ destination.files = IF m.mode = "export-full" THEN m.records ELSE {}
  /\ \A p \in Process :
       /\ answer[p].code = "exported" => destination.manifest = {ManifestOf(p)}
       /\ answer[p] = [code |-> "export_failed", reason |-> "manifest"] =>
            Exported \notin snapshot[p].records
       /\ at[p] = "over" /\ answer[p].code # "killed" => ~staging[p].exists
  /\ \A p, q \in Process :
       answer[p].code = "exported" /\ answer[q].code = "exported" => p = q
  /\ intruded => Foreign \in destination.files
=============================================================================
