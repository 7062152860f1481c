------------------------------ MODULE Records -------------------------------
(***************************************************************************)
(* The rows of the database.  A record is written once, under its          *)
(* identifier, and refers to others; mutable are only the pointers: the    *)
(* current annotation of a trajectory and the active version of a          *)
(* capability.  Of a record, Body keeps the columns SQLite enforces        *)
(* something about: its references and what has to be unique.              *)
(*                                                                         *)
(* Records are numbered in the order of their identifiers.  A call that is *)
(* refused leaves the rows as they were, and is not a step.                *)
(***************************************************************************)
EXTENDS Database, FiniteSets

CONSTANTS
  Record,     \* the records there may be, numbers in the order of their ids
  Body,       \* [Record -> the columns of its row]
  Name,       \* names of capabilities
  NoRecord    \* no record: a NULL reference, a name without active version

Reference == Record \cup {NoRecord}

RepositoryRow == [kind : {"repository"}, identity : Nat]
SessionRow    == [kind : {"session"}, repository : Record]
EventRow      == [kind : {"event"}, session : Record, sequence : Nat]
TrajectoryRow == [kind : {"trajectory"}, session : Record, repository : Record]
OutcomeRow    == [kind : {"outcome"}, trajectory : Record]
GroupRow      == [kind : {"group"}, repository : Record, manifest : Nat,
                  members : SUBSET Record]
CandidateRow  == [kind : {"candidate"}, group : Record]
WorkflowRow   == [kind : {"workflow"}, candidate : Record, ir : Nat]
ReplayRow     == [kind : {"replay"}, workflow : Record, fixture : Record]
CapabilityRow == [kind : {"capability"}, workflow : Record, name : Name, version : Nat]
InvocationRow == [kind : {"invocation"}, capability : Reference]
BenchmarkRow  == [kind : {"benchmark"}, repository : Record, task : Nat,
                  condition : Nat, order : Nat]
MetricsRow    == [kind : {"trace_metrics"}, trajectory : Record, session : Record]
AnnotationRow == [kind : {"outcome_annotation"}, trajectory : Record, revision : Nat]

IsRow(b) ==
  \/ b \in RepositoryRow \/ b \in SessionRow \/ b \in EventRow \/ b \in TrajectoryRow
  \/ b \in OutcomeRow \/ b \in GroupRow \/ b \in CandidateRow \/ b \in WorkflowRow
  \/ b \in ReplayRow \/ b \in CapabilityRow \/ b \in InvocationRow
  \/ b \in BenchmarkRow \/ b \in MetricsRow \/ b \in AnnotationRow

KindOf(r) == Body[r].kind

ReferenceColumns ==
  {"repository", "session", "trajectory", "group", "candidate", "workflow", "fixture",
   "capability"}

\* The table a column refers to bears its name, but for the fixture of a replay.
Referred(column) == IF column = "fixture" THEN "trajectory" ELSE column

\* An identifier names its kind.  That of a session is derived from the
\* repository, that of a trajectory and its metrics from the session, so two
\* ways to the same record end there.
ASSUME RecordsAssumption ==
  /\ Record \subseteq Nat
  /\ DOMAIN Body = Record /\ \A r \in Record : IsRow(Body[r])
  /\ NoRecord \notin Record
  /\ \A r \in Record : \A c \in ReferenceColumns \cap DOMAIN Body[r] :
       Body[r][c] # NoRecord => KindOf(Body[r][c]) = Referred(c)
  /\ \A r \in Record :
       /\ KindOf(r) = "trajectory" => Body[r].repository = Body[Body[r].session].repository
       /\ KindOf(r) = "trace_metrics" => Body[r].session = Body[Body[r].trajectory].session

VARIABLES
  rows,      \* the records that are stored
  members,   \* the rows of group_members: <<group, trajectory>>
  current,   \* current[t]: the annotation outcome_annotation_current names
  active     \* active[n]: the version capability_active names

rowVars == <<rows, members, current, active>>

Stored(kind) == {r \in rows : KindOf(r) = kind}

RecordsTypeOK ==
  /\ rows \subseteq Record
  /\ members \subseteq Record \X Record
  /\ current \in [Record -> Reference]
  /\ active \in [Name -> Reference]

-----------------------------------------------------------------------------
(***************************************************************************)
(* What SQLite enforces: a table is there once its migration has run; keys *)
(* are unique; a reference names a row that is there.                      *)
(***************************************************************************)
TableVersion(kind) ==
  CASE kind = "trace_metrics"      -> 2
    [] kind = "outcome_annotation" -> 3
    [] OTHER                       -> 1

UniqueColumns(kind) ==
  CASE kind = "repository" -> {"identity"}
    [] kind = "event"      -> {"session", "sequence"}
    [] kind = "outcome"    -> {"trajectory"}
    [] kind = "group"      -> {"manifest"}
    [] kind = "workflow"   -> {"ir"}
    [] kind = "capability" -> {"name", "version"}
    [] kind = "benchmark"  -> {"task", "condition", "order"}
    [] kind = "outcome_annotation" -> {"trajectory", "revision"}
    [] OTHER -> {}

Parents(r) ==
  {Body[r][c] : c \in ReferenceColumns \cap DOMAIN Body[r]} \ {NoRecord}

\* A row that holds the key of r, its identifier or a UNIQUE constraint.
Clashes(r, q) ==
  \/ q = r
  \/ /\ KindOf(q) = KindOf(r) /\ UniqueColumns(KindOf(r)) # {}
     /\ \A c \in UniqueColumns(KindOf(r)) : Body[q][c] = Body[r][c]

\* What an INSERT of r answers: keys are looked at before references.
Insert(r) ==
  CASE stamp < TableVersion(KindOf(r))       -> "sqlite"
    [] \E q \in rows : Clashes(r, q)         -> "already_exists"
    [] \E parent \in Parents(r) : parent \notin rows -> "constraint_violated"
    [] OTHER -> "ok"

IsClient(p) == at[p] = "client"

MultiStatement == {"group", "trace_metrics", "outcome_annotation"}

PutRecord(p) == \E r \in Record \ rows :
  /\ IsClient(p)
  /\ KindOf(r) \notin MultiStatement
  /\ Insert(r) = "ok"
  /\ rows' = rows \cup {r}
  /\ UNCHANGED <<members, current, active>>

\* Mutant: the group is committed before its members are inserted.
PutGroupFirst(p) == \E r \in Record \ rows :
  /\ IsClient(p)
  /\ KindOf(r) = "group"
  /\ Insert(r) = "ok"
  /\ rows' = rows \cup {r}
  /\ members' = members \cup {<<r, t>> : t \in Body[r].members \cap rows}
  /\ UNCHANGED <<current, active>>

\* One transaction: the group and a row for each member, or neither.
PutGroup(p) == \E r \in Record \ rows :
  /\ IsClient(p)
  /\ KindOf(r) = "group"
  /\ Insert(r) = "ok"
  /\ Body[r].members \subseteq Stored("trajectory")
  /\ rows' = rows \cup {r}
  /\ members' = members \cup {<<r, t>> : t \in Body[r].members}
  /\ UNCHANGED <<current, active>>

\* An upsert: a row that is there is replaced.
PutTraceMetrics(p) == \E r \in Record \ rows :
  /\ IsClient(p)
  /\ KindOf(r) = "trace_metrics" /\ stamp >= TableVersion("trace_metrics")
  /\ Parents(r) \subseteq rows
  /\ rows' = rows \cup {r}
  /\ UNCHANGED <<members, current, active>>

\* The annotation with the next revision, and the pointer, in one transaction.
AppendOutcomeAnnotation(p) == \E r \in Record \ rows :
  /\ IsClient(p)
  /\ KindOf(r) = "outcome_annotation"
  /\ LET t == Body[r].trajectory
     IN /\ Body[r].revision
             = 1 + IF current[t] = NoRecord THEN 0 ELSE Body[current[t]].revision
        /\ current' = [current EXCEPT ![t] = r]
  /\ Insert(r) = "ok"
  /\ rows' = rows \cup {r}
  /\ UNCHANGED <<members, active>>

\* Any name may be given any stored version, its own or another's.
SetActiveCapability(p) == \E n \in Name, r \in Stored("capability") :
  /\ IsClient(p)
  /\ active' = [active EXCEPT ![n] = r]
  /\ UNCHANGED <<rows, members, current>>

ActiveCapability(n) == IF active[n] \in Stored("capability") THEN active[n] ELSE NoRecord

-----------------------------------------------------------------------------
(***************************************************************************)
(* Retention removes a session with everything recorded of it, unless a    *)
(* group or a replay refers to a trajectory of it.  Which session is       *)
(* chosen is the subject of Retention.                                     *)
(***************************************************************************)
SessionOf(r) ==
  CASE KindOf(r) = "session" -> r
    [] KindOf(r) \in {"event", "trajectory"} -> Body[r].session
    [] KindOf(r) \in {"outcome", "trace_metrics", "outcome_annotation"} ->
         Body[Body[r].trajectory].session
    [] OTHER -> NoRecord

Unit(s) == {r \in rows : SessionOf(r) = s}

IsProtected(s) ==
  \E t \in Unit(s) :
    \/ \E g \in Record : <<g, t>> \in members
    \/ \E r \in Stored("replay") : Body[r].fixture = t

Prune(p) == \E s \in Stored("session") :
  /\ IsClient(p) /\ stamp >= TableVersion("outcome_annotation")
  /\ ~IsProtected(s)
  /\ rows' = rows \ Unit(s)
  /\ current' = [r \in Record |-> IF current[r] \in Unit(s) THEN NoRecord ELSE current[r]]
  /\ UNCHANGED <<members, active>>

-----------------------------------------------------------------------------
(***************************************************************************)
(* What an active capability rests on is there: from the version through   *)
(* its workflow, candidate and group to every trajectory the group was     *)
(* made of and its session, whatever is put, activated and pruned, by      *)
(* however many processes, in whatever order (lib.rs:535, 754;             *)
(* retention.rs:237).                                                      *)
(***************************************************************************)
Group(capability) == Body[Body[Body[capability].workflow].candidate].group

EvidenceStands ==
  \A n \in Name : active[n] # NoRecord =>
    /\ ActiveCapability(n) = active[n]
    /\ LET group == Group(active[n])
       IN /\ {group, Body[active[n]].workflow, Body[Body[active[n]].workflow].candidate}
               \subseteq rows
          /\ \A t \in Body[group].members :
               {t, Body[t].session, Body[t].repository} \subseteq rows
               /\ <<group, t>> \in members
=============================================================================
