---------------------------- MODULE RecordsProofs ----------------------------
(***************************************************************************)
(* Clients put, activate and prune records in any order: no reference ever *)
(* names a row that is gone, and what an active capability rests on is     *)
(* there.                                                                  *)
(***************************************************************************)
EXTENDS Records, TLAPS

\* No row, no row of group_members and no active capability refers to a row
\* that is not there.
ReferencesStand == \A r \in rows : Parents(r) \subseteq rows

MembersStand == \A m \in members : m[1] \in Stored("group") /\ m[2] \in rows

ActiveStands ==
  \A n \in Name : active[n] # NoRecord => active[n] \in Stored("capability")

\* A stored group has a row for each of its members.
GroupsComplete ==
  \A g \in Stored("group") : \A t \in Body[g].members :
    t \in Stored("trajectory") /\ <<g, t>> \in members

\* A current annotation is one of its trajectory, and its last.
CurrentStands ==
  \A t \in Record : current[t] # NoRecord =>
    current[t] \in Stored("outcome_annotation") /\ Body[current[t]].trajectory = t

CurrentLast ==
  \A r \in Stored("outcome_annotation") :
    LET t == Body[r].trajectory
    IN current[t] # NoRecord /\ Body[r].revision <= Body[current[t]].revision

RecordsInv ==
  /\ RecordsTypeOK /\ ReferencesStand /\ MembersStand /\ ActiveStands
  /\ GroupsComplete /\ CurrentStands /\ CurrentLast

(***************************************************************************)
(* The columns of a row, by its kind.                                      *)
(***************************************************************************)
LEMMA RowShape ==
  ASSUME NEW r \in Record
  PROVE  /\ KindOf(r) = "session" => Body[r] \in SessionRow
         /\ KindOf(r) = "event" => Body[r] \in EventRow
         /\ KindOf(r) = "trajectory" => Body[r] \in TrajectoryRow
         /\ KindOf(r) = "outcome" => Body[r] \in OutcomeRow
         /\ KindOf(r) = "group" => Body[r] \in GroupRow
         /\ KindOf(r) = "candidate" => Body[r] \in CandidateRow
         /\ KindOf(r) = "workflow" => Body[r] \in WorkflowRow
         /\ KindOf(r) = "replay" => Body[r] \in ReplayRow
         /\ KindOf(r) = "capability" => Body[r] \in CapabilityRow
         /\ KindOf(r) = "trace_metrics" => Body[r] \in MetricsRow
         /\ KindOf(r) = "outcome_annotation" => Body[r] \in AnnotationRow
         /\ KindOf(r) = "repository" => Body[r] \in RepositoryRow
<1>1. IsRow(Body[r])
  BY RecordsAssumption
<1> QED
  BY <1>1 DEF KindOf, IsRow, RepositoryRow, SessionRow, EventRow, TrajectoryRow, OutcomeRow,
     GroupRow, CandidateRow, WorkflowRow, ReplayRow, CapabilityRow, InvocationRow,
     BenchmarkRow, MetricsRow, AnnotationRow

\* Which rows have a column for a session, a trajectory, a fixture.
LEMMA WhoRefers ==
  ASSUME NEW r \in Record
  PROVE  /\ "session" \in DOMAIN Body[r] =>
              KindOf(r) \in {"event", "trajectory", "trace_metrics"}
         /\ "trajectory" \in DOMAIN Body[r] =>
              KindOf(r) \in {"outcome", "trace_metrics", "outcome_annotation"}
         /\ "fixture" \in DOMAIN Body[r] => KindOf(r) = "replay"
<1>1. IsRow(Body[r])
  BY RecordsAssumption
<1> QED
  BY <1>1 DEF KindOf, IsRow, RepositoryRow, SessionRow, EventRow, TrajectoryRow, OutcomeRow,
     GroupRow, CandidateRow, WorkflowRow, ReplayRow, CapabilityRow, InvocationRow,
     BenchmarkRow, MetricsRow, AnnotationRow

\* A parent is named in a column, and the column tells its kind.
LEMMA ParentKind ==
  ASSUME NEW r \in Record, NEW q \in Parents(r)
  PROVE  \E c \in ReferenceColumns \cap DOMAIN Body[r] :
           q = Body[r][c] /\ KindOf(q) = Referred(c)
BY RecordsAssumption DEF Parents

\* What a row refers to is among its parents.
LEMMA NamedParents ==
  ASSUME NEW r \in Record
  PROVE  /\ KindOf(r) \in {"session", "trajectory", "group"} => Body[r].repository \in Parents(r)
         /\ KindOf(r) \in {"event", "trajectory", "trace_metrics"} =>
              Body[r].session \in Parents(r)
         /\ KindOf(r) \in {"outcome", "trace_metrics", "outcome_annotation"} =>
              Body[r].trajectory \in Parents(r)
         /\ KindOf(r) = "candidate" => Body[r].group \in Parents(r)
         /\ KindOf(r) = "workflow" => Body[r].candidate \in Parents(r)
         /\ KindOf(r) = "capability" => Body[r].workflow \in Parents(r)
<1> USE RowShape, RecordsAssumption DEF Parents, ReferenceColumns
<1>1. KindOf(r) = "session" => Body[r].repository \in Parents(r)
  BY DEF SessionRow
<1>2. KindOf(r) = "trajectory" =>
        Body[r].repository \in Parents(r) /\ Body[r].session \in Parents(r)
  BY DEF TrajectoryRow
<1>3. KindOf(r) = "group" => Body[r].repository \in Parents(r)
  BY DEF GroupRow
<1>4. KindOf(r) = "event" => Body[r].session \in Parents(r)
  BY DEF EventRow
<1>5. KindOf(r) = "trace_metrics" =>
        Body[r].session \in Parents(r) /\ Body[r].trajectory \in Parents(r)
  BY DEF MetricsRow
<1>6. KindOf(r) = "outcome" => Body[r].trajectory \in Parents(r)
  BY DEF OutcomeRow
<1>7. KindOf(r) = "outcome_annotation" => Body[r].trajectory \in Parents(r)
  BY DEF AnnotationRow
<1>8. KindOf(r) = "candidate" => Body[r].group \in Parents(r)
  BY DEF CandidateRow
<1>9. KindOf(r) = "workflow" => Body[r].candidate \in Parents(r)
  BY DEF WorkflowRow
<1>10. KindOf(r) = "capability" => Body[r].workflow \in Parents(r)
  BY DEF CapabilityRow
<1> HIDE DEF Parents
<1> QED
  BY <1>1, <1>2, <1>3, <1>4, <1>5, <1>6, <1>7, <1>8, <1>9, <1>10

(***************************************************************************)
(* Putting a row.  An INSERT that succeeds found every parent.             *)
(***************************************************************************)
LEMMA InsertFindsParents ==
  ASSUME NEW r \in Record, Insert(r) = "ok" PROVE Parents(r) \subseteq rows
BY DEF Insert

\* A row whose parents are there joins the others.
LEMMA AddedRowKeeps ==
  ASSUME RecordsInv, NEW r \in Record \ rows, Parents(r) \subseteq rows,
         rows' = rows \cup {r}
  PROVE  /\ rows' \subseteq Record /\ ReferencesStand'
         /\ UNCHANGED members => MembersStand'
         /\ UNCHANGED active => ActiveStands'
         /\ KindOf(r) # "group" /\ UNCHANGED members => GroupsComplete'
         /\ UNCHANGED current => CurrentStands'
         /\ KindOf(r) # "outcome_annotation" /\ UNCHANGED current => CurrentLast'
<1> USE DEF RecordsInv
<1>1. rows' \subseteq Record /\ ReferencesStand'
  BY DEF RecordsTypeOK, ReferencesStand
<1>2. UNCHANGED members => MembersStand'
  BY DEF MembersStand, Stored
<1>3. UNCHANGED active => ActiveStands'
  BY DEF ActiveStands, Stored
<1>4. KindOf(r) # "group" /\ UNCHANGED members => GroupsComplete'
  BY DEF GroupsComplete, Stored
<1>5. UNCHANGED current => CurrentStands'
  BY DEF CurrentStands, Stored
<1>6. KindOf(r) # "outcome_annotation" /\ UNCHANGED current => CurrentLast'
  BY DEF CurrentLast, Stored
<1> QED
  BY <1>1, <1>2, <1>3, <1>4, <1>5, <1>6

LEMMA PutRecordKeeps ==
  ASSUME RecordsInv, NEW p, PutRecord(p) PROVE RecordsInv'
<1>1. PICK r \in Record \ rows :
        /\ KindOf(r) \notin MultiStatement /\ Insert(r) = "ok"
        /\ rows' = rows \cup {r} /\ UNCHANGED <<members, current, active>>
  BY DEF PutRecord
<1>2. Parents(r) \subseteq rows
  BY <1>1, InsertFindsParents
<1>3. RecordsTypeOK'
  BY <1>1, <1>2, AddedRowKeeps DEF RecordsInv, RecordsTypeOK
<1> QED
  BY <1>1, <1>2, <1>3, AddedRowKeeps DEF RecordsInv, MultiStatement

LEMMA PutTraceMetricsKeeps ==
  ASSUME RecordsInv, NEW p, PutTraceMetrics(p) PROVE RecordsInv'
<1>1. PICK r \in Record \ rows :
        /\ KindOf(r) = "trace_metrics" /\ Parents(r) \subseteq rows
        /\ rows' = rows \cup {r} /\ UNCHANGED <<members, current, active>>
  BY DEF PutTraceMetrics
<1>2. RecordsTypeOK'
  BY <1>1, AddedRowKeeps DEF RecordsInv, RecordsTypeOK
<1> QED
  BY <1>1, <1>2, AddedRowKeeps DEF RecordsInv

\* The group and all its members come in one transaction.
LEMMA PutGroupKeeps ==
  ASSUME RecordsInv, NEW p, PutGroup(p) PROVE RecordsInv'
<1>1. PICK r \in Record \ rows :
        /\ KindOf(r) = "group" /\ Insert(r) = "ok"
        /\ Body[r].members \subseteq Stored("trajectory")
        /\ rows' = rows \cup {r}
        /\ members' = members \cup {<<r, t>> : t \in Body[r].members}
        /\ UNCHANGED <<current, active>>
  BY DEF PutGroup
<1>2. Parents(r) \subseteq rows
  BY <1>1, InsertFindsParents
<1>3. RecordsTypeOK'
  BY <1>1, <1>2, AddedRowKeeps DEF RecordsInv, RecordsTypeOK, Stored
<1>4. MembersStand'
  BY <1>1 DEF RecordsInv, MembersStand, Stored
<1>5. GroupsComplete'
  BY <1>1 DEF RecordsInv, GroupsComplete, Stored
<1> QED
  BY <1>1, <1>2, <1>3, <1>4, <1>5, AddedRowKeeps DEF RecordsInv

\* The revision is the next one, and the pointer follows.
LEMMA AppendKeeps ==
  ASSUME RecordsInv, NEW p, AppendOutcomeAnnotation(p) PROVE RecordsInv'
<1>1. PICK r \in Record \ rows :
        /\ KindOf(r) = "outcome_annotation"
        /\ Body[r].revision = 1 + IF current[Body[r].trajectory] = NoRecord THEN 0
                                  ELSE Body[current[Body[r].trajectory]].revision
        /\ current' = [current EXCEPT ![Body[r].trajectory] = r]
        /\ Insert(r) = "ok"
        /\ rows' = rows \cup {r} /\ UNCHANGED <<members, active>>
  BY DEF AppendOutcomeAnnotation
<1> DEFINE t == Body[r].trajectory
<1>2. Parents(r) \subseteq rows
  BY <1>1, InsertFindsParents
<1>3. t \in Record /\ Body[r].revision \in Nat
  BY <1>1, RowShape DEF AnnotationRow
<1>4. current'[t] = r /\ \A u \in Record : u # t => current'[u] = current[u]
  BY <1>1, <1>3 DEF RecordsInv, RecordsTypeOK
<1>5. RecordsTypeOK'
  BY <1>1, <1>2, <1>3, AddedRowKeeps DEF RecordsInv, RecordsTypeOK, Reference
<1>6. r # NoRecord
  BY RecordsAssumption
<1>7. CurrentStands'
  BY <1>1, <1>4 DEF RecordsInv, CurrentStands, Stored
<1>8. CurrentLast'
  <2> SUFFICES ASSUME NEW q \in Stored("outcome_annotation")'
               PROVE  /\ current'[Body[q].trajectory] # NoRecord
                      /\ Body[q].revision <= Body[current'[Body[q].trajectory]].revision
    BY DEF CurrentLast
  <2>1. /\ q \in Record /\ KindOf(q) = "outcome_annotation" /\ (q = r \/ q \in rows)
        /\ Body[q].trajectory \in Record /\ Body[q].revision \in Nat
    BY <1>1, RowShape DEF Stored, RecordsInv, RecordsTypeOK, AnnotationRow
  <2>2. CASE q = r
    BY <2>2, <1>3, <1>4, <1>6
  <2>3. CASE q \in rows /\ Body[q].trajectory # t
    BY <2>1, <2>3, <1>4 DEF RecordsInv, CurrentLast, Stored
  <2>4. CASE q \in rows /\ Body[q].trajectory = t
    <3>1. current[t] # NoRecord /\ Body[q].revision <= Body[current[t]].revision
      BY <2>1, <2>4 DEF RecordsInv, CurrentLast, Stored
    <3>2. current[t] \in Record /\ KindOf(current[t]) = "outcome_annotation"
      BY <3>1, <1>3 DEF RecordsInv, RecordsTypeOK, CurrentStands, Stored
    <3>3. Body[current[t]].revision \in Nat
      BY <3>2, RowShape DEF AnnotationRow
    <3> QED
      BY <1>1, <1>3, <1>4, <1>6, <2>1, <2>4, <3>1, <3>3
  <2> QED
    BY <2>1, <2>2, <2>3, <2>4
<1> QED
  BY <1>1, <1>2, <1>5, <1>7, <1>8, AddedRowKeeps DEF RecordsInv

LEMMA ActivateKeeps ==
  ASSUME RecordsInv, NEW p, SetActiveCapability(p) PROVE RecordsInv'
<1>1. PICK n \in Name, r \in Stored("capability") :
        active' = [active EXCEPT ![n] = r] /\ UNCHANGED <<rows, members, current>>
  BY DEF SetActiveCapability
<1>2. r \in Record
  BY DEF RecordsInv, RecordsTypeOK, Stored
<1> QED
  BY <1>1, <1>2 DEF RecordsInv, RecordsTypeOK, Reference, ReferencesStand, MembersStand,
     ActiveStands, GroupsComplete, CurrentStands, CurrentLast, Stored

(***************************************************************************)
(* Pruning a session.                                                      *)
(***************************************************************************)

\* A row that refers to a row of a session is one of the session, or protects it.
LEMMA UnitClosed ==
  ASSUME RecordsInv, NEW s \in Stored("session"), ~IsProtected(s),
         NEW r \in rows, NEW q \in Parents(r), q \in Unit(s)
  PROVE  r \in Unit(s)
<1>1. r \in Record /\ s \in Record /\ q \in Record /\ s # NoRecord /\ SessionOf(q) = s
  BY RecordsAssumption DEF RecordsInv, RecordsTypeOK, Stored, Unit
<1>2. PICK c \in ReferenceColumns \cap DOMAIN Body[r] :
        q = Body[r][c] /\ KindOf(q) = Referred(c)
  BY <1>1, ParentKind
<1>3. KindOf(q) \in {"session", "event", "trajectory", "outcome", "trace_metrics",
                     "outcome_annotation"}
  BY <1>1 DEF SessionOf
<1>4. c \in {"session", "trajectory", "fixture"}
  BY <1>2, <1>3 DEF ReferenceColumns, Referred
<1>5. CASE c = "session"
  <2>1. KindOf(r) \in {"event", "trajectory", "trace_metrics"}
    BY <1>1, <1>2, <1>5, WhoRefers
  <2>2. q = s
    BY <1>1, <1>2, <1>5 DEF Referred, SessionOf
  <2>3. SessionOf(r) = Body[r].session
    BY <2>1, <1>1, RecordsAssumption DEF SessionOf
  <2> QED
    BY <1>2, <1>5, <2>2, <2>3 DEF Unit
<1>6. CASE c = "trajectory"
  <2>1. KindOf(r) \in {"outcome", "trace_metrics", "outcome_annotation"}
    BY <1>1, <1>2, <1>6, WhoRefers
  <2>2. SessionOf(r) = SessionOf(q)
    BY <1>2, <1>6, <2>1 DEF Referred, SessionOf
  <2> QED
    BY <1>1, <2>2 DEF Unit
<1>7. CASE c = "fixture"
  <2>1. r \in Stored("replay") /\ Body[r].fixture = q
    BY <1>1, <1>2, <1>7, WhoRefers DEF Stored
  <2> QED
    BY <2>1 DEF IsProtected
<1> QED
  BY <1>4, <1>5, <1>6, <1>7

\* Nothing that was derived from sessions is of one.
LEMMA DerivedStay ==
  ASSUME RecordsInv, NEW s \in Stored("session"), NEW r \in Unit(s)
  PROVE  KindOf(r) \notin {"group", "capability"}
BY RecordsAssumption DEF RecordsInv, RecordsTypeOK, Stored, Unit, SessionOf

LEMMA PruneKeeps ==
  ASSUME RecordsInv, NEW p, Prune(p) PROVE RecordsInv'
<1>1. PICK s \in Stored("session") :
        /\ ~IsProtected(s) /\ rows' = rows \ Unit(s)
        /\ current' = [r \in Record |-> IF current[r] \in Unit(s) THEN NoRecord ELSE current[r]]
        /\ UNCHANGED <<members, active>>
  BY DEF Prune
<1> USE DEF RecordsInv
<1>2. RecordsTypeOK'
  BY <1>1 DEF RecordsTypeOK, Reference
<1>3. ReferencesStand'
  <2> SUFFICES ASSUME NEW r \in rows', NEW q \in Parents(r) PROVE q \in rows'
    BY DEF ReferencesStand
  <2>1. r \in rows /\ r \notin Unit(s)
    BY <1>1
  <2>2. q \in rows /\ q \notin Unit(s)
    BY <1>1, <2>1, UnitClosed DEF ReferencesStand
  <2> QED
    BY <1>1, <2>2
<1>4. \A m \in members : m[1] \notin Unit(s) /\ m[2] \notin Unit(s)
  <2> SUFFICES ASSUME NEW m \in members PROVE m[1] \notin Unit(s) /\ m[2] \notin Unit(s)
    OBVIOUS
  <2>1. m = <<m[1], m[2]>> /\ m[1] \in Record /\ m[2] \in Record
    BY DEF RecordsTypeOK
  <2>2. m[2] \notin Unit(s)
    BY <1>1, <2>1 DEF IsProtected
  <2>3. m[1] \notin Unit(s)
    BY <1>1, <2>1, DerivedStay DEF MembersStand, Stored
  <2> QED
    BY <2>2, <2>3
<1>5. MembersStand'
  BY <1>1, <1>4 DEF MembersStand, Stored
<1>6. ActiveStands'
  BY <1>1, DerivedStay DEF ActiveStands, Stored
<1>7. GroupsComplete'
  <2> SUFFICES ASSUME NEW g \in Stored("group")', NEW t \in Body[g].members
               PROVE  t \in Stored("trajectory")' /\ <<g, t>> \in members'
    BY DEF GroupsComplete
  <2>1. g \in Stored("group")
    BY <1>1 DEF Stored
  <2>2. t \in Stored("trajectory") /\ <<g, t>> \in members
    BY <2>1 DEF GroupsComplete
  <2>3. <<g, t>>[2] \notin Unit(s)
    BY <1>4, <2>2
  <2>4. t \notin Unit(s)
    BY <2>3
  <2> QED
    BY <1>1, <2>2, <2>4 DEF Stored
<1>8. CurrentStands'
  BY <1>1 DEF CurrentStands, Stored
<1>9. CurrentLast'
  <2> SUFFICES ASSUME NEW r \in Stored("outcome_annotation")'
               PROVE  /\ current'[Body[r].trajectory] # NoRecord
                      /\ Body[r].revision <= Body[current'[Body[r].trajectory]].revision
    BY DEF CurrentLast
  <2> DEFINE t == Body[r].trajectory
  <2>1. /\ r \in Stored("outcome_annotation") /\ r \notin Unit(s)
        /\ r \in Record /\ KindOf(r) = "outcome_annotation"
    BY <1>1 DEF Stored, RecordsTypeOK
  <2>2. t \in Record
    BY <2>1, RowShape DEF AnnotationRow
  <2>3. current[t] # NoRecord /\ Body[r].revision <= Body[current[t]].revision
    BY <2>1 DEF CurrentLast
  <2>4. KindOf(current[t]) = "outcome_annotation" /\ Body[current[t]].trajectory = t
    BY <2>2, <2>3 DEF CurrentStands, Stored
  <2>5. SessionOf(current[t]) = SessionOf(r)
    BY <2>1, <2>4 DEF SessionOf
  <2>6. current[t] \notin Unit(s)
    BY <2>1, <2>5 DEF Unit, Stored
  <2>7. current'[t] = current[t]
    BY <1>1, <2>2, <2>6
  <2> QED
    BY <2>3, <2>7
<1> QED
  BY <1>2, <1>3, <1>5, <1>6, <1>7, <1>8, <1>9

LEMMA RecordsInv_Stutter ==
  ASSUME RecordsInv, UNCHANGED rowVars PROVE RecordsInv'
BY DEF RecordsInv, rowVars, RecordsTypeOK, ReferencesStand, MembersStand, ActiveStands,
   GroupsComplete, CurrentStands, CurrentLast, Stored

(***************************************************************************)
(* What follows: an active capability, its workflow, candidate and group,  *)
(* and each member with its session and repository, is stored.             *)
(***************************************************************************)
LEMMA EvidenceFollows == RecordsInv => EvidenceStands
<1> SUFFICES ASSUME RecordsInv, NEW n \in Name, active[n] # NoRecord
    PROVE  /\ ActiveCapability(n) = active[n]
           /\ {Group(active[n]), Body[active[n]].workflow,
               Body[Body[active[n]].workflow].candidate} \subseteq rows
           /\ \A t \in Body[Group(active[n])].members :
                {t, Body[t].session, Body[t].repository} \subseteq rows
                /\ <<Group(active[n]), t>> \in members
  BY DEF EvidenceStands
<1> DEFINE v == active[n]
           w == Body[v].workflow
           c == Body[w].candidate
           g == Body[c].group
<1>1. \A r \in rows : r \in Record /\ \A q \in Parents(r) : q \in rows
  BY DEF RecordsInv, RecordsTypeOK, ReferencesStand
<1>2. v \in Stored("capability")
  BY DEF RecordsInv, ActiveStands
<1>3. v \in rows /\ v \in Record /\ KindOf(v) = "capability"
  BY <1>1, <1>2 DEF Stored
<1>4. w \in rows /\ w \in Record /\ KindOf(w) = "workflow"
  <2>1. w \in rows /\ w \in Record
    BY <1>1, <1>3, NamedParents
  <2>2. w # NoRecord /\ "workflow" \in ReferenceColumns \cap DOMAIN Body[v]
    BY <1>3, <2>1, RowShape, RecordsAssumption DEF ReferenceColumns, CapabilityRow
  <2> QED
    BY <1>3, <2>1, <2>2, RecordsAssumption DEF Referred
<1>5. c \in rows /\ c \in Record /\ KindOf(c) = "candidate"
  <2>1. c \in rows /\ c \in Record
    BY <1>1, <1>4, NamedParents
  <2>2. c # NoRecord /\ "candidate" \in ReferenceColumns \cap DOMAIN Body[w]
    BY <1>4, <2>1, RowShape, RecordsAssumption DEF ReferenceColumns, WorkflowRow
  <2> QED
    BY <1>4, <2>1, <2>2, RecordsAssumption DEF Referred
<1>6. g \in rows /\ g \in Record /\ KindOf(g) = "group"
  <2>1. g \in rows /\ g \in Record
    BY <1>1, <1>5, NamedParents
  <2>2. g # NoRecord /\ "group" \in ReferenceColumns \cap DOMAIN Body[c]
    BY <1>5, <2>1, RowShape, RecordsAssumption DEF ReferenceColumns, CandidateRow
  <2> QED
    BY <1>5, <2>1, <2>2, RecordsAssumption DEF Referred
<1>7. ASSUME NEW t \in Body[g].members
      PROVE  /\ t \in rows /\ Body[t].session \in rows /\ Body[t].repository \in rows
             /\ <<g, t>> \in members
  <2>1. t \in Stored("trajectory") /\ <<g, t>> \in members
    BY <1>6 DEF RecordsInv, GroupsComplete, Stored
  <2>2. t \in rows /\ t \in Record /\ KindOf(t) = "trajectory"
    BY <1>1, <2>1 DEF Stored
  <2> QED
    BY <1>1, <2>1, <2>2, NamedParents
<1>8. Group(v) = g /\ ActiveCapability(n) = v
  BY <1>2 DEF Group, ActiveCapability
<1> QED
  BY <1>3, <1>4, <1>5, <1>6, <1>7, <1>8
=============================================================================
