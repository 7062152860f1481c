-------------------------- MODULE RetentionProofs --------------------------
(***************************************************************************)
(* The retention invariants, for any sessions, commands and policies.      *)
(* They are inductive together: TypeOK and RowsResolve carry the holds'    *)
(* audit and the annotations' revisions through the deletion of a session. *)
(***************************************************************************)
EXTENDS Retention, FiniteSetTheorems, WellFoundedInduction, TLAPS

\* What a step of a command has before it.
LEMMA CommandTypes ==
  ASSUME TypeOK, NEW c \in Command
  PROVE  /\ Runs(c, {"hold", "release"}) => command[c] \in HoldCommand
         /\ Runs(c, {"annotate"}) => command[c] \in AnnotateCommand
         /\ Runs(c, {"apply", "dry run"}) => command[c] \in PruneCommand
  BY DEF TypeOK, Runs, HoldCommand, AnnotateCommand, PruneCommand

\* The initial state has the types.
LEMMA InitType == Init => TypeOK
  BY DEF Init, TypeOK, AuditRow

\* The tables recovery and other programs fill keep their types.
LEMMA StoresType == TypeOK /\ Stores => TypeOK'
  BY DEF TypeOK, Stores, StoreSession, StoreTrajectory, Link, noteVars

\* The revision read is one more than that of a stored annotation.
LEMMA NextRevisionType ==
  ASSUME TypeOK, RevisionsDense, NEW s \in Session
  PROVE  CurrentRevision(s) \in Nat /\ NextRevision(s) \in Nat \ {0}
<1>1. CurrentRevision(s) \in Nat
  <2>1. CASE current[s] = Nothing
    BY <2>1 DEF CurrentRevision
  <2>2. CASE current[s] # Nothing
    <3>1. current[s] \in AnnotationId /\ annotations[current[s]] # Nothing
      BY <2>2 DEF RevisionsDense, History
    <3>2. annotations[current[s]] \in Row
      BY <3>1 DEF TypeOK
    <3> QED  BY <2>2, <3>2 DEF CurrentRevision, Row
  <2> QED  BY <2>1, <2>2
<1> QED  BY <1>1 DEF NextRevision

\* A row is added at the end of the audit log; the rows before it stay.
LEMMA AuditedRow ==
  ASSUME TypeOK, NEW action \in {"hold", "release", "prune"},
         NEW s \in Session \cup {Nothing}, NEW reason \in Reason \cup {Nothing},
         Audited(action, s, reason)
  PROVE  /\ audit' \in Seq(AuditRow)
         /\ Len(audit) \in Nat
         /\ Len(audit') = Len(audit) + 1
         /\ \A i \in 1 .. Len(audit) : audit'[i] = audit[i]
         /\ audit'[Len(audit) + 1] = [action |-> action, session |-> s, reason |-> reason]
<1> DEFINE row == [action |-> action, session |-> s, reason |-> reason]
<1>1. row \in AuditRow
  BY DEF AuditRow
<1>2. audit \in Seq(AuditRow)
  BY DEF TypeOK
<1>3. audit' = Append(audit, row)
  BY DEF Audited
<1> HIDE DEF row
<1>4. /\ audit' \in Seq(AuditRow)
      /\ Len(audit) \in Nat
      /\ Len(audit') = Len(audit) + 1
      /\ \A i \in 1 .. Len(audit) : audit'[i] = audit[i]
      /\ audit'[Len(audit) + 1] = row
  BY <1>1, <1>2, <1>3
<1> QED  BY <1>4 DEF row

\* A step of a command keeps the types.
LEMMA CommandsType ==
  ASSUME TypeOK, RevisionsDense, NEW c \in Command, Commands(c)
  PROVE  TypeOK'
<1> USE RetentionAssumption, NoRowAssumption
<1>1. ASSUME NEW op \in {"hold", "release"}, NEW s \in Session, NEW reason \in Reason,
             HoldBegin(c, op, s, reason)
      PROVE  TypeOK'
  BY <1>1 DEF TypeOK, HoldBegin, Begin, HoldCommand, evidenceVars, noteVars
<1>2. ASSUME NEW s \in Session, NEW id \in AnnotationId, AnnotateBegin(c, s, id)
      PROVE  TypeOK'
  <2>1. NextRevision(s) \in Nat \ {0}
    BY NextRevisionType
  <2> QED  BY <1>2, <2>1 DEF TypeOK, AnnotateBegin, Begin, AnnotateCommand,
                           evidenceVars, noteVars
<1>3. ASSUME NEW op \in {"apply", "dry run"}, NEW p \in Policy, PruneBegin(c, op, p)
      PROVE  TypeOK'
  BY <1>3 DEF TypeOK, PruneBegin, Begin, PruneCommand, evidenceVars, noteVars
<1>4. CASE HoldCommit(c)
  <2>1. command[c] \in HoldCommand
    BY <1>4, CommandTypes DEF HoldCommit, Runs
  <2>2. command[c].session \in Session /\ command[c].reason \in Reason
    BY <2>1 DEF HoldCommand
  <2>3. audit' \in Seq(AuditRow)
    BY <1>4, <2>2, AuditedRow DEF TypeOK, HoldCommit
  <2> QED  BY <1>4, <2>2, <2>3 DEF TypeOK, HoldCommit, End, evidenceVars, noteVars
<1>5. CASE ReleaseCommit(c)
  <2>1. command[c] \in HoldCommand
    BY <1>5, CommandTypes DEF ReleaseCommit, Runs
  <2>2. command[c].session \in Session /\ command[c].reason \in Reason
    BY <2>1 DEF HoldCommand
  <2>3. audit' \in Seq(AuditRow)
    BY <1>5, <2>2, AuditedRow DEF TypeOK, ReleaseCommit
  <2> QED  BY <1>5, <2>2, <2>3 DEF TypeOK, ReleaseCommit, End, evidenceVars, noteVars
<1>6. CASE AnnotateCommit(c)
  <2>1. command[c] \in AnnotateCommand
    BY <1>6, CommandTypes DEF AnnotateCommit, Runs
  <2>2. [session |-> command[c].session, revision |-> command[c].revision] \in Row
        /\ command[c].id \in AnnotationId /\ command[c].session \in Session
    BY <2>1 DEF AnnotateCommand, Row
  <2> DEFINE row == [session |-> command[c].session, revision |-> command[c].revision]
  <2>3. row \in Row
    BY <2>2
  <2>4. CASE Appendable(c)
    <3>1. /\ annotations' = [annotations EXCEPT ![command[c].id] = row]
          /\ current' = [current EXCEPT ![command[c].session] = command[c].id]
      BY <1>6, <2>4 DEF AnnotateCommit
    <3> HIDE DEF row
    <3> QED  BY <1>6, <2>2, <2>3, <3>1 DEF TypeOK, AnnotateCommit, End, evidenceVars
  <2>5. CASE ~Appendable(c)
    BY <1>6, <2>5 DEF TypeOK, AnnotateCommit, End, evidenceVars, noteVars
  <2> QED  BY <2>4, <2>5
<1>7. CASE PruneApply(c)
  <2>1. audit' \in Seq(AuditRow)
    BY <1>7, AuditedRow DEF PruneApply
  <2> QED  BY <1>7, <2>1 DEF TypeOK, PruneApply, DeleteSessionUnits, End
<1>8. CASE PruneNothing(c)
  BY <1>8 DEF TypeOK, PruneNothing, End, evidenceVars, noteVars
<1> QED  BY <1>1, <1>2, <1>3, <1>4, <1>5, <1>6, <1>7, <1>8 DEF Commands

\* The sessions a prune may take are unprotected: the plan takes an aged
\* session only when none of them is protected.
LEMMA SelectedUnprotected ==
  ASSUME NEW p, ~Unmet(p)
  PROVE  \A s \in Selected(p) : s \in sessions /\ ~Protected(s)
  BY DEF Unmet, Selected, Aged, Excess

\* What an appended annotation does to the histories: it joins that of its
\* session and leaves the others and every annotation before it.
LEMMA AppendedHistory ==
  ASSUME TypeOK, NEW c \in Command, AnnotateCommit(c), Appendable(c),
         NEW s, s = command[c].session, NEW id, id = command[c].id
  PROVE  /\ s \in Session /\ id \in AnnotationId
         /\ s \in trajectories
         /\ command[c].revision = NextRevision(s)
         /\ id \notin History(s)
         /\ History(s)' = History(s) \cup {id}
         /\ \A t \in Session \ {s} : History(t)' = History(t)
         /\ annotations'[id].revision = command[c].revision
         /\ \A a \in AnnotationId \ {id} : annotations'[a] = annotations[a]
         /\ current' = [current EXCEPT ![s] = id]
<1> DEFINE row == [session |-> s, revision |-> command[c].revision]
<1>1. s \in Session /\ id \in AnnotationId /\ row \in Row
  BY CommandTypes DEF AnnotateCommit, Runs, AnnotateCommand, Row
<1>2. /\ annotations' = [annotations EXCEPT ![id] = row]
      /\ current' = [current EXCEPT ![s] = id]
  BY DEF AnnotateCommit
<1>3. /\ annotations[id] = Nothing
      /\ command[c].revision = NextRevision(s)
      /\ s \in trajectories
  BY DEF Appendable
<1>4. row # Nothing
  BY <1>1, NoRowAssumption
<1>5. row.session = s /\ row.revision = command[c].revision
  OBVIOUS
<1> HIDE DEF row
<1>6. /\ annotations'[id] = row
      /\ \A a \in AnnotationId \ {id} : annotations'[a] = annotations[a]
  BY <1>1, <1>2 DEF TypeOK
<1>7. id \notin History(s) /\ History(s)' = History(s) \cup {id}
  BY <1>1, <1>3, <1>4, <1>5, <1>6 DEF History
<1>8. \A t \in Session \ {s} : History(t)' = History(t)
  BY <1>1, <1>3, <1>5, <1>6 DEF History
<1> QED  BY <1>1, <1>2, <1>3, <1>5, <1>6, <1>7, <1>8

\* No link of the store refers to a row that is not there.
LEMMA RowsResolveStep ==
  ASSUME TypeOK, RowsResolve, RevisionsDense, [Next]_vars
  PROVE  RowsResolve'
<1> USE RetentionAssumption, NoRowAssumption
<1>1. CASE UNCHANGED vars
  <2>1. \A s \in Session : History(s)' = History(s)
    BY <1>1 DEF vars, noteVars, History
  <2> QED  BY <1>1, <2>1 DEF vars, evidenceVars, RowsResolve
<1>2. CASE Stores
  <2>1. \A s \in Session : History(s)' = History(s)
    BY <1>2 DEF Stores, StoreSession, StoreTrajectory, Link, noteVars, History
  <2>2. PICK s \in Session :
          StoreSession(s) \/ StoreTrajectory(s) \/ \E kind \in ReferenceKind : Link(s, kind)
    BY <1>2 DEF Stores
  <2>3. CASE StoreSession(s)
    BY <2>1, <2>3 DEF StoreSession, RowsResolve
  <2>4. CASE StoreTrajectory(s)
    BY <2>1, <2>4 DEF StoreTrajectory, RowsResolve
  <2>5. ASSUME NEW kind \in ReferenceKind, Link(s, kind)
        PROVE  RowsResolve'
    BY <2>1, <2>5 DEF Link, RowsResolve, TypeOK
  <2> QED  BY <2>2, <2>3, <2>4, <2>5
<1>3. ASSUME NEW c \in Command, Commands(c)
      PROVE  RowsResolve'
  <2>1. CASE UNCHANGED <<evidenceVars, hold, noteVars>>
    BY <2>1 DEF evidenceVars, noteVars, RowsResolve, History
  <2>2. CASE HoldCommit(c)
    <3>1. command[c].session \in Session
      BY <2>2, CommandTypes DEF HoldCommit, Runs, HoldCommand
    <3> QED  BY <2>2, <3>1 DEF HoldCommit, evidenceVars, noteVars, TypeOK, RowsResolve, History
  <2>3. CASE ReleaseCommit(c)
    <3>1. command[c].session \in Session
      BY <2>3, CommandTypes DEF ReleaseCommit, Runs, HoldCommand
    <3> QED  BY <2>3, <3>1 DEF ReleaseCommit, evidenceVars, noteVars, TypeOK, RowsResolve,
                               History
  <2>4. CASE AnnotateCommit(c)
    <3>1. CASE Appendable(c)
      <4>1. PICK s, id : s = command[c].session /\ id = command[c].id
        OBVIOUS
      <4>2. /\ s \in trajectories
            /\ \A t \in Session \ {s} : History(t)' = History(t)
        BY <2>4, <3>1, <4>1, AppendedHistory
      <4> QED  BY <2>4, <4>2 DEF AnnotateCommit, evidenceVars, RowsResolve
    <3>2. CASE ~Appendable(c)
      BY <2>4, <3>2, <2>1 DEF AnnotateCommit, noteVars, evidenceVars
    <3> QED  BY <3>1, <3>2
  <2>5. CASE PruneApply(c)
    <3> DEFINE S == Selected(command[c].policy)
    <3>1. \A s \in S : s \in sessions /\ references[s] = {}
      BY <2>5, SelectedUnprotected DEF PruneApply, Protected
    <3>2. DeleteSessionUnits(S)
      BY <2>5 DEF PruneApply
    <3> HIDE DEF S
    <3>3. \A s \in Session : History(s)' # {} => History(s) # {} /\ s \notin S
      BY <3>2 DEF DeleteSessionUnits, History, TypeOK
    <3> QED  BY <3>1, <3>2, <3>3 DEF DeleteSessionUnits, TypeOK, RowsResolve
  <2> QED
    BY <1>3, <2>1, <2>2, <2>3, <2>4, <2>5
    DEF Commands, HoldBegin, AnnotateBegin, PruneBegin, PruneNothing
<1> QED  BY <1>1, <1>2, <1>3 DEF Next

\* The last row about t is the hold q.
LastHold(t, q) ==
  \E i \in 1 .. Len(audit) :
    /\ audit[i] = [action |-> "hold", session |-> t, reason |-> q]
    /\ \A j \in i + 1 .. Len(audit) : audit[j].session # t

\* A new row is the last about its session and changes it for no other.
LEMMA AuditedLast ==
  ASSUME TypeOK, NEW action \in {"hold", "release", "prune"},
         NEW s \in Session \cup {Nothing}, NEW reason \in Reason \cup {Nothing},
         Audited(action, s, reason),
         NEW t \in Session, NEW q \in Reason
  PROVE  LastHold(t, q)' <=>
           IF t = s THEN action = "hold" /\ q = reason ELSE LastHold(t, q)
<1> DEFINE row == [action |-> action, session |-> s, reason |-> reason]
           held == [action |-> "hold", session |-> t, reason |-> q]
<1>1. /\ Len(audit) \in Nat
      /\ Len(audit') = Len(audit) + 1
      /\ \A i \in 1 .. Len(audit) : audit'[i] = audit[i]
      /\ audit'[Len(audit) + 1] = row
  BY AuditedRow
<1>2. row.session = s /\ held.session = t
  OBVIOUS
<1>3. row = held <=> t = s /\ action = "hold" /\ q = reason
  OBVIOUS
<1>4. LastHold(t, q) <=> \E i \in 1 .. Len(audit) :
                          audit[i] = held /\ \A j \in i + 1 .. Len(audit) : audit[j].session # t
  BY DEF LastHold
<1>5. LastHold(t, q)' <=> \E i \in 1 .. Len(audit') :
                          audit'[i] = held /\ \A j \in i + 1 .. Len(audit') : audit'[j].session # t
  BY DEF LastHold
<1> HIDE DEF row, held
<1>6. CASE t = s
  <2>1. ASSUME NEW i \in 1 .. Len(audit'), audit'[i] = held,
               \A j \in i + 1 .. Len(audit') : audit'[j].session # t
        PROVE  row = held
    <3>1. i = Len(audit) + 1
      BY <1>1, <1>2, <1>6, <2>1
    <3> QED  BY <1>1, <2>1, <3>1
  <2>2. ASSUME row = held
        PROVE  LastHold(t, q)'
    <3>1. Len(audit) + 1 \in 1 .. Len(audit') /\ Len(audit) + 2 .. Len(audit') = {}
      BY <1>1
    <3> QED  BY <1>1, <1>5, <2>2, <3>1
  <2> QED  BY <1>3, <1>5, <1>6, <2>1, <2>2
<1>7. CASE t # s
  <2>1. ASSUME NEW i \in 1 .. Len(audit'), audit'[i] = held,
               \A j \in i + 1 .. Len(audit') : audit'[j].session # t
        PROVE  LastHold(t, q)
    <3>1. i \in 1 .. Len(audit)
      BY <1>1, <1>2, <1>7, <2>1
    <3> QED  BY <1>1, <1>4, <2>1, <3>1
  <2>2. ASSUME NEW i \in 1 .. Len(audit), audit[i] = held,
               \A j \in i + 1 .. Len(audit) : audit[j].session # t
        PROVE  LastHold(t, q)'
    <3>1. \A j \in i + 1 .. Len(audit') : audit'[j].session # t
      BY <1>1, <1>2, <1>7, <2>2
    <3> QED  BY <1>1, <1>5, <2>2, <3>1
  <2> QED  BY <1>4, <1>5, <1>7, <2>1, <2>2
<1> QED  BY <1>6, <1>7

\* The log goes on explaining the holds.
LEMMA AuditStep ==
  ASSUME TypeOK, RowsResolve, AuditExplainsHolds, [Next]_vars
  PROVE  AuditExplainsHolds'
<1> USE RetentionAssumption
<1>1. \A t \in Session, q \in Reason : hold[t] = q <=> LastHold(t, q)
  BY DEF AuditExplainsHolds, LastHold
<1>2. SUFFICES \A t \in Session, q \in Reason : hold'[t] = q <=> LastHold(t, q)'
  BY <1>2 DEF AuditExplainsHolds, LastHold
<1>3. CASE UNCHANGED <<hold, audit>>
  BY <1>1, <1>3 DEF LastHold
<1>4. ASSUME NEW c \in Command, HoldCommit(c), ~UNCHANGED <<hold, audit>>
      PROVE  \A t \in Session, q \in Reason : hold'[t] = q <=> LastHold(t, q)'
  <2>1. command[c].session \in Session /\ command[c].reason \in Reason
    BY <1>4, CommandTypes DEF HoldCommit, Runs, HoldCommand
  <2>2. /\ hold' = [hold EXCEPT ![command[c].session] = command[c].reason]
        /\ Audited("hold", command[c].session, command[c].reason)
    BY <1>4 DEF HoldCommit
  <2> QED  BY <1>1, <2>1, <2>2, AuditedLast DEF TypeOK
<1>5. ASSUME NEW c \in Command, ReleaseCommit(c), ~UNCHANGED <<hold, audit>>
      PROVE  \A t \in Session, q \in Reason : hold'[t] = q <=> LastHold(t, q)'
  <2>1. command[c].session \in Session /\ command[c].reason \in Reason
    BY <1>5, CommandTypes DEF ReleaseCommit, Runs, HoldCommand
  <2>2. /\ hold' = [hold EXCEPT ![command[c].session] = Nothing]
        /\ Audited("release", command[c].session, command[c].reason)
    BY <1>5 DEF ReleaseCommit
  <2> QED  BY <1>1, <2>1, <2>2, AuditedLast DEF TypeOK
<1>6. ASSUME NEW c \in Command, PruneApply(c)
      PROVE  \A t \in Session, q \in Reason : hold'[t] = q <=> LastHold(t, q)'
  <2>1. \A s \in Selected(command[c].policy) : hold[s] = Nothing
    BY <1>6, SelectedUnprotected DEF PruneApply, Protected
  <2>2. \A s \in Session : hold'[s] = hold[s]
    BY <1>6, <2>1 DEF PruneApply, DeleteSessionUnits, TypeOK
  <2>3. Audited("prune", Nothing, Nothing)
    BY <1>6 DEF PruneApply
  <2> QED  BY <1>1, <2>2, <2>3, AuditedLast
<1> QED
  BY <1>3, <1>4, <1>5, <1>6
  DEF Next, Stores, StoreSession, StoreTrajectory, Link, Commands, HoldBegin, AnnotateBegin,
      PruneBegin, AnnotateCommit, PruneNothing, vars

\* The revisions of a trajectory stay 1 .. n and the current one the last.
LEMMA RevisionsStep ==
  ASSUME TypeOK, RevisionsDense, [Next]_vars
  PROVE  RevisionsDense'
<1> USE RetentionAssumption, NoRowAssumption
<1>1. CASE UNCHANGED noteVars
  BY <1>1 DEF noteVars, RevisionsDense, History
<1>2. ASSUME NEW c \in Command, AnnotateCommit(c), Appendable(c)
      PROVE  RevisionsDense'
  <2>0. PICK s, id : s = command[c].session /\ id = command[c].id
    OBVIOUS
  <2>1. /\ s \in Session /\ id \in AnnotationId
        /\ command[c].revision = NextRevision(s)
        /\ id \notin History(s)
        /\ History(s)' = History(s) \cup {id}
        /\ \A t \in Session \ {s} : History(t)' = History(t)
        /\ annotations'[id].revision = command[c].revision
        /\ \A a \in AnnotationId \ {id} : annotations'[a] = annotations[a]
        /\ current' = [current EXCEPT ![s] = id]
    BY <1>2, <2>0, AppendedHistory
  <2>2. \A t \in Session \ {s} : id \notin History(t)
    BY <1>2, <2>0, <2>1 DEF Appendable, History
  <2>3. \A t \in Session : History(t) \subseteq AnnotationId
    BY DEF History
  <2>4. \A t \in Session : \A a \in History(t) : annotations[a].revision \in Nat \ {0}
    BY DEF History, TypeOK, Row
  <2>5. CurrentRevision(s) \in Nat /\ NextRevision(s) = CurrentRevision(s) + 1
    BY <2>1, NextRevisionType DEF NextRevision
  <2>6. /\ \A a \in History(s) : annotations[a].revision <= CurrentRevision(s)
        /\ \A k \in 1 .. CurrentRevision(s) : \E a \in History(s) : annotations[a].revision = k
    BY <2>1 DEF RevisionsDense, CurrentRevision
  <2>7. \A a \in History(s) :
          annotations'[a] = annotations[a] /\ annotations[a].revision < annotations'[id].revision
    BY <2>1, <2>3, <2>4, <2>5, <2>6
  <2>8. \A t \in Session \ {s} : \A a \in History(t) : annotations'[a] = annotations[a]
    BY <2>1, <2>2, <2>3
  <2>9. /\ current'[s] = id
        /\ \A t \in Session \ {s} : current'[t] = current[t]
        /\ id # Nothing
    BY <2>1 DEF TypeOK
  <2>10. \A t \in Session :
           \A a, b \in History(t)' : annotations'[a].revision = annotations'[b].revision => a = b
    BY <2>1, <2>7, <2>8, <2>4, <2>5 DEF RevisionsDense
  <2>11. \A t \in Session :
           \A a \in History(t)' : \A k \in 1 .. annotations'[a].revision :
             \E b \in History(t)' : annotations'[b].revision = k
    <3>1. ASSUME NEW t \in Session \ {s}, NEW a \in History(t)',
                 NEW k \in 1 .. annotations'[a].revision
          PROVE  \E b \in History(t)' : annotations'[b].revision = k
      BY <2>1, <2>8, <3>1 DEF RevisionsDense
    <3>2. ASSUME NEW a \in History(s)', NEW k \in 1 .. annotations'[a].revision
          PROVE  \E b \in History(s)' : annotations'[b].revision = k
      <4>1. k \in 1 .. CurrentRevision(s) + 1
        BY <2>1, <2>4, <2>5, <2>6, <2>7, <3>2
      <4>2. CASE k = CurrentRevision(s) + 1
        BY <2>1, <2>5, <4>2
      <4>3. CASE k # CurrentRevision(s) + 1
        BY <2>1, <2>5, <2>6, <2>7, <4>1, <4>3
      <4> QED  BY <4>2, <4>3
    <3> QED  BY <3>1, <3>2
  <2>12. \A t \in Session :
           /\ current'[t] = Nothing => History(t)' = {}
           /\ current'[t] # Nothing =>
                /\ current'[t] \in History(t)'
                /\ \A a \in History(t)' :
                     annotations'[a].revision <= annotations'[current'[t]].revision
    <3>1. ASSUME NEW t \in Session \ {s}
          PROVE  /\ current'[t] = Nothing => History(t)' = {}
                 /\ current'[t] # Nothing =>
                      /\ current'[t] \in History(t)'
                      /\ \A a \in History(t)' :
                           annotations'[a].revision <= annotations'[current'[t]].revision
      BY <2>1, <2>8, <2>9, <3>1 DEF RevisionsDense
    <3>2. \A a \in History(s)' : annotations'[a].revision <= annotations'[id].revision
      BY <2>1, <2>4, <2>5, <2>7
    <3> QED  BY <2>1, <2>9, <3>1, <3>2
  <2> QED  BY <2>10, <2>11, <2>12 DEF RevisionsDense
<1>3. ASSUME NEW c \in Command, PruneApply(c)
      PROVE  RevisionsDense'
  <2> DEFINE S == Selected(command[c].policy)
  <2>1. DeleteSessionUnits(S)
    BY <1>3 DEF PruneApply
  <2> HIDE DEF S
  <2>2. \A t \in Session \cap S : History(t)' = {} /\ current'[t] = Nothing
    BY <2>1 DEF DeleteSessionUnits, History
  <2>3. \A t \in Session \ S : /\ History(t)' = History(t) /\ current'[t] = current[t]
                             /\ \A a \in History(t) : annotations'[a] = annotations[a]
    BY <2>1 DEF DeleteSessionUnits, History
  <2> QED  BY <2>2, <2>3 DEF RevisionsDense
<1> QED
  BY <1>1, <1>2, <1>3
  DEF Next, Stores, StoreSession, StoreTrajectory, Link, Commands, HoldBegin, AnnotateBegin,
      PruneBegin, HoldCommit, ReleaseCommit, AnnotateCommit, PruneNothing, vars

-----------------------------------------------------------------------------
RetentionInv == TypeOK /\ RowsResolve /\ AuditExplainsHolds /\ RevisionsDense

\* The four invariants of Retention hold together.
THEOREM RetentionInvariant == Spec => []RetentionInv
<1>1. Init => RetentionInv
  <2>1. Init => RowsResolve /\ RevisionsDense
    BY DEF Init, RowsResolve, RevisionsDense, History
  <2>2. Init => AuditExplainsHolds
    <3>1. Len(<<>>) = 0 /\ 1 .. 0 = {}
      OBVIOUS
    <3> QED  BY <3>1, RetentionAssumption DEF Init, AuditExplainsHolds
  <2> QED  BY <2>1, <2>2, InitType DEF RetentionInv
<1>2. RetentionInv /\ [Next]_vars => RetentionInv'
  <2> SUFFICES ASSUME RetentionInv, [Next]_vars PROVE RetentionInv'
    OBVIOUS
  <2>1. TypeOK /\ RowsResolve /\ AuditExplainsHolds /\ RevisionsDense
    BY DEF RetentionInv
  <2>2. TypeOK'
    <3>1. CASE UNCHANGED vars
      BY <2>1, <3>1 DEF vars, evidenceVars, noteVars, TypeOK
    <3> QED  BY <2>1, <3>1, StoresType, CommandsType DEF Next
  <2> QED  BY <2>1, <2>2, RowsResolveStep, AuditStep, RevisionsStep DEF RetentionInv
<1> QED  BY <1>1, <1>2, PTL DEF Spec

\* A hold is in force exactly while the audit log says so.
THEOREM AuditTrue == Spec => []AuditExplainsHolds
<1>1. RetentionInv => AuditExplainsHolds
  BY DEF RetentionInv
<1> QED  BY <1>1, RetentionInvariant, PTL

\* Concurrent annotators neither overwrite nor skip a revision.
THEOREM RevisionsInOrder == Spec => []RevisionsDense
<1>1. RetentionInv => RevisionsDense
  BY DEF RetentionInv
<1> QED  BY <1>1, RetentionInvariant, PTL

\* Holds, links, annotations, the audit log and the commands that read them
\* keep their types, through every commit and every deletion (retention.rs:150).
THEOREM TypesHeld == Spec => []TypeOK
<1>1. RetentionInv => TypeOK
  BY DEF RetentionInv
<1> QED  BY <1>1, RetentionInvariant, PTL

\* Pruning orphans no row.
THEOREM NothingDangles == Spec => []RowsResolve
<1>1. RetentionInv => RowsResolve
  BY DEF RetentionInv
<1> QED  BY <1>1, RetentionInvariant, PTL

\* Nothing that is held, open or linked is ever deleted.
THEOREM ProtectedStay == Spec => ProtectedKept
<1>1. RetentionInv /\ [Next]_vars =>
        [ \A s \in sessions :
            EndedAt[s] = Open \/ hold[s] # Nothing \/ references[s] # {} =>
              /\ s \in sessions'
              /\ s \in trajectories => s \in trajectories' ]_vars
  <2> SUFFICES ASSUME RetentionInv, Next, NEW s \in sessions,
                      EndedAt[s] = Open \/ hold[s] # Nothing \/ references[s] # {}
               PROVE  s \in sessions' /\ (s \in trajectories => s \in trajectories')
    OBVIOUS
  <2>1. Protected(s)
    BY DEF Protected, Ended
  <2>2. ASSUME NEW c \in Command, PruneApply(c)
        PROVE  s \in sessions' /\ (s \in trajectories => s \in trajectories')
    <3>1. s \notin Selected(command[c].policy)
      BY <2>1, <2>2, SelectedUnprotected DEF PruneApply
    <3> QED  BY <2>2, <3>1 DEF PruneApply, DeleteSessionUnits
  <2> QED
    BY <2>2
    DEF Next, Stores, StoreSession, StoreTrajectory, Link, Commands, HoldBegin, AnnotateBegin,
        PruneBegin, HoldCommit, ReleaseCommit, AnnotateCommit, PruneNothing, evidenceVars
<1> QED  BY <1>1, RetentionInvariant, PTL DEF Spec, ProtectedKept

\* An annotation is immutable for as long as its session is stored.
THEOREM AnnotationsStay == Spec => AnnotationsKept
<1>1. RetentionInv /\ [Next]_vars =>
        [ \A id \in AnnotationId :
            annotations[id] # Nothing /\ annotations'[id] # annotations[id] =>
              annotations'[id] = Nothing /\ annotations[id].session \notin sessions' ]_vars
  <2> SUFFICES ASSUME RetentionInv, Next, NEW id \in AnnotationId,
                      annotations[id] # Nothing, annotations'[id] # annotations[id]
               PROVE  annotations'[id] = Nothing /\ annotations[id].session \notin sessions'
    OBVIOUS
  <2>1. TypeOK
    BY DEF RetentionInv
  <2>2. ASSUME NEW c \in Command, AnnotateCommit(c)
        PROVE  FALSE
    <3>1. annotations' = annotations \/ Appendable(c)
      BY <2>2 DEF AnnotateCommit, noteVars
    <3>2. Appendable(c) /\ id # command[c].id
      BY <3>1 DEF Appendable
    <3> QED  BY <2>1, <2>2, <3>2, AppendedHistory
  <2>3. ASSUME NEW c \in Command, PruneApply(c)
        PROVE  annotations'[id] = Nothing /\ annotations[id].session \notin sessions'
    BY <2>3 DEF PruneApply, DeleteSessionUnits, History
  <2> QED
    BY <2>2, <2>3
    DEF Next, Stores, StoreSession, StoreTrajectory, Link, Commands, HoldBegin, AnnotateBegin,
        PruneBegin, HoldCommit, ReleaseCommit, AnnotateCommit, PruneNothing, noteVars
<1> QED  BY <1>1, RetentionInvariant, PTL DEF Spec, AnnotationsKept

-----------------------------------------------------------------------------
(***************************************************************************)
(* The limits.  Sums are sizes of sets of bytes, so that one set of        *)
(* sessions in another has no more bytes; what makes them sizes is that    *)
(* only finitely many rows are ever stored.                                *)
(***************************************************************************)
StoredNotes == {id \in AnnotationId : annotations[id] # Nothing}

FiniteRows == IsFiniteSet(sessions) /\ IsFiniteSet(StoredNotes)

LEMMA FiniteRows_Init == Init => FiniteRows
BY FS_EmptySet DEF Init, FiniteRows, StoredNotes

LEMMA FiniteRows_Next ==
  ASSUME RetentionInv, FiniteRows, [Next]_vars PROVE FiniteRows'
<1>1. CASE UNCHANGED <<sessions, annotations>>
  BY <1>1 DEF FiniteRows, StoredNotes
<1>2. ASSUME NEW s \in Session, StoreSession(s) PROVE FiniteRows'
  BY <1>2, FS_AddElement DEF StoreSession, FiniteRows, StoredNotes, noteVars
<1>3. ASSUME NEW c \in Command, AnnotateCommit(c) PROVE FiniteRows'
  <2>1. StoredNotes' \subseteq StoredNotes \cup {command[c].id}
    BY <1>3 DEF AnnotateCommit, noteVars, StoredNotes, RetentionInv, TypeOK
  <2>2. IsFiniteSet(StoredNotes \cup {command[c].id})
    BY FS_AddElement DEF FiniteRows
  <2> QED
    BY <1>3, <2>1, <2>2, FS_Subset DEF AnnotateCommit, evidenceVars, FiniteRows
<1>4. ASSUME NEW c \in Command, PruneApply(c) PROVE FiniteRows'
  <2>1. sessions' \subseteq sessions /\ StoredNotes' \subseteq StoredNotes
    BY <1>4 DEF PruneApply, DeleteSessionUnits, StoredNotes
  <2> QED
    BY <2>1, FS_Subset DEF FiniteRows
<1> QED
  BY <1>1, <1>2, <1>3, <1>4
  DEF Next, Stores, StoreTrajectory, Link, Commands, HoldBegin, AnnotateBegin, PruneBegin,
      HoldCommit, ReleaseCommit, PruneNothing, evidenceVars, noteVars, vars, Begin

LEMMA RowsFinite == Spec => []FiniteRows
<1> QED
  BY FiniteRows_Init, FiniteRows_Next, RetentionInvariant, PTL DEF Spec

\* The least of some numbers.
LEMMA Least ==
  ASSUME NEW T \in SUBSET Nat, T # {} PROVE \E m \in T : \A k \in T : m <= k
<1>1. PICK x \in T : \A y \in T : ~(<<y, x>> \in OpToRel(<, Nat))
  BY NatLessThanWellFounded, WFMin
<1>2. \A y \in T : ~(y < x)
  BY <1>1 DEF OpToRel
<1> QED
  BY <1>2

(***************************************************************************)
(* Sums.                                                                   *)
(***************************************************************************)
LEMMA BytesNat ==
  ASSUME RetentionInv, FiniteRows, NEW s \in Session PROVE Bytes(s) \in Nat
<1>1. History(s) \subseteq StoredNotes
  BY DEF History, StoredNotes
<1>2. Cardinality(History(s)) \in Nat
  BY <1>1, FS_Subset, FS_CardinalityType DEF FiniteRows
<1>3. \A a, b \in Nat : a * b \in Nat
  OBVIOUS
<1>4. AnnotationBytes * Cardinality(History(s)) \in Nat
  BY <1>2, <1>3, RetentionAssumption
<1> QED
  BY <1>4, RetentionAssumption DEF Bytes

LEMMA OctetsCounted ==
  ASSUME RetentionInv, FiniteRows, NEW s \in Session
  PROVE  IsFiniteSet(Octets(s)) /\ Cardinality(Octets(s)) = Bytes(s)
<1>1. Bytes(s) \in Nat
  BY BytesNat
<1>2. IsFiniteSet(1 .. Bytes(s)) /\ Cardinality(1 .. Bytes(s)) = Bytes(s)
  BY <1>1, FS_Interval
<1>3. IsFiniteSet({s}) /\ Cardinality({s}) = 1
  BY FS_Singleton
<1>4. /\ IsFiniteSet(Octets(s))
      /\ Cardinality(Octets(s)) = Cardinality({s}) * Cardinality(1 .. Bytes(s))
  BY <1>2, <1>3, FS_Product DEF Octets
<1> QED
  BY <1>1, <1>2, <1>3, <1>4

AllOctets(S) == UNION {Octets(s) : s \in S}

LEMMA OctetsFinite ==
  ASSUME RetentionInv, FiniteRows, NEW S \in SUBSET sessions
  PROVE  IsFiniteSet(AllOctets(S)) /\ TotalBytes(S) \in Nat
<1>1. IsFiniteSet(S) /\ S \subseteq Session
  BY FS_Subset DEF FiniteRows, RetentionInv, TypeOK
<1> DEFINE all == {Octets(s) : s \in S}
           f == [s \in S |-> Octets(s)]
<1>2. f \in Surjection(S, all)
  BY DEF Surjection
<1>3. IsFiniteSet(all)
  BY <1>1, <1>2, FS_Surjection
<1>4. \A T \in all : IsFiniteSet(T)
  BY <1>1, OctetsCounted
<1>5. IsFiniteSet(AllOctets(S))
  BY <1>3, <1>4, FS_UNION DEF AllOctets
<1> QED
  BY <1>5, FS_CardinalityType DEF TotalBytes, AllOctets

\* Fewer sessions have no more bytes.
LEMMA TotalMonotone ==
  ASSUME RetentionInv, FiniteRows, NEW S \in SUBSET sessions, NEW T \in SUBSET S
  PROVE  TotalBytes(T) \in Nat /\ TotalBytes(S) \in Nat /\ TotalBytes(T) <= TotalBytes(S)
<1>1. AllOctets(T) \subseteq AllOctets(S)
  BY DEF AllOctets
<1>2. IsFiniteSet(AllOctets(S)) /\ TotalBytes(S) \in Nat /\ TotalBytes(T) \in Nat
  BY OctetsFinite
<1> QED
  BY <1>1, <1>2, FS_Subset DEF TotalBytes, AllOctets

\* One session more adds at most its bytes.
LEMMA TotalWithOne ==
  ASSUME RetentionInv, FiniteRows, NEW S \in SUBSET sessions, NEW s \in sessions
  PROVE  TotalBytes(S \cup {s}) <= TotalBytes(S) + Bytes(s)
<1>1. s \in Session
  BY DEF RetentionInv, TypeOK
<1>2. AllOctets(S \cup {s}) = AllOctets(S) \cup Octets(s)
  BY DEF AllOctets
<1>3. IsFiniteSet(AllOctets(S)) /\ TotalBytes(S) \in Nat
  BY OctetsFinite
<1>4. IsFiniteSet(Octets(s)) /\ Cardinality(Octets(s)) = Bytes(s) /\ Bytes(s) \in Nat
  BY <1>1, OctetsCounted, BytesNat
<1>5. Cardinality(AllOctets(S) \cup Octets(s))
        = Cardinality(AllOctets(S)) + Cardinality(Octets(s))
            - Cardinality(AllOctets(S) \cap Octets(s))
  BY <1>3, <1>4, FS_Union
<1>6. Cardinality(AllOctets(S) \cap Octets(s)) \in Nat
  BY <1>3, FS_Intersection, FS_CardinalityType
<1>7. /\ TotalBytes(S \cup {s}) = Cardinality(AllOctets(S) \cup Octets(s))
      /\ TotalBytes(S) = Cardinality(AllOctets(S))
  BY <1>2 DEF TotalBytes, AllOctets
<1>8. \A n, m, k \in Nat : n + m - k <= n + m
  OBVIOUS
<1> QED
  BY <1>3, <1>4, <1>5, <1>6, <1>7, <1>8

(***************************************************************************)
(* The order of the two passes.                                            *)
(***************************************************************************)
LEMMA OrderOfEnded ==
  ASSUME NEW s \in Session, NEW t \in Session, Ended(s), Ended(t)
  PROVE  /\ EndedAt[s] \in Nat /\ EndedAt[t] \in Nat
         /\ Precedes(s, t) <=> \/ EndedAt[s] < EndedAt[t]
                               \/ EndedAt[s] = EndedAt[t] /\ IdOrder[s] < IdOrder[t]
         /\ s # t => Precedes(s, t) \/ Precedes(t, s)
BY RetentionAssumption DEF Ended, Precedes

LEMMA OrderTransitive ==
  ASSUME NEW r \in Session, NEW s \in Session, NEW t \in Session,
         Precedes(r, s), Precedes(s, t)
  PROVE  Precedes(r, t)
BY RetentionAssumption DEF Ended, Precedes

\* Of ended sessions one is first.
LEMMA FirstOfEnded ==
  ASSUME NEW S \in SUBSET Session, S # {}, \A s \in S : Ended(s)
  PROVE  \E m \in S : \A s \in S : ~Precedes(s, m)
<1> DEFINE times == {EndedAt[s] : s \in S}
<1>1. times \in SUBSET Nat /\ times # {}
  BY RetentionAssumption DEF Ended
<1>2. PICK e \in times : \A k \in times : e <= k
  <2> HIDE DEF times
  <2> QED
    BY <1>1, Least
<1> DEFINE first == {s \in S : EndedAt[s] = e}
           ids == {IdOrder[s] : s \in first}
<1>3. ids \in SUBSET Nat /\ ids # {}
  BY <1>2, RetentionAssumption
<1>4. PICK i \in ids : \A k \in ids : i <= k
  <2> HIDE DEF ids
  <2> QED
    BY <1>3, Least
<1>5. PICK m \in S : EndedAt[m] = e /\ IdOrder[m] = i
  BY <1>4
<1>6. ASSUME NEW s \in S, Precedes(s, m) PROVE FALSE
  <2>1. /\ EndedAt[s] \in Nat /\ EndedAt[m] \in Nat
        /\ IdOrder[s] \in Nat /\ IdOrder[m] \in Nat
        /\ \/ EndedAt[s] < EndedAt[m]
           \/ EndedAt[s] = EndedAt[m] /\ IdOrder[s] < IdOrder[m]
    BY <1>6, OrderOfEnded, RetentionAssumption
  <2>2. e <= EndedAt[s]
    BY <1>2
  <2>3. EndedAt[s] = e
    BY <1>5, <2>1, <2>2
  <2>4. i <= IdOrder[s]
    BY <1>4, <2>3
  <2> QED
    BY <1>5, <2>1, <2>3, <2>4
<1> QED
  BY <1>5, <1>6

(***************************************************************************)
(* The plan.                                                               *)
(***************************************************************************)
\* What the second pass has left when it reaches s.
LeftAt(p, s) == {t \in sessions \ Aged(p) : Protected(t) \/ ~Precedes(t, s)}

Remaining(p) == sessions \ Selected(p)

LEMMA PlanTypes ==
  ASSUME RetentionInv, NEW p \in Policy
  PROVE  /\ p.maxBytes \in Nat /\ p.cutoff \in Int
         /\ sessions \subseteq Session
         /\ \A s \in Excess(p) :
              /\ s \in sessions /\ s \notin Aged(p) /\ ~Protected(s) /\ Ended(s)
              /\ TotalBytes(LeftAt(p, s)) > p.maxBytes
         /\ \A s \in sessions \ Aged(p) :
              ~Protected(s) /\ s \notin Excess(p) => ~(TotalBytes(LeftAt(p, s)) > p.maxBytes)
BY RetentionAssumption DEF RetentionInv, TypeOK, Excess, LeftAt, Protected

LEMMA LeftTotals ==
  ASSUME RetentionInv, FiniteRows, NEW p \in Policy, NEW s \in sessions,
         NEW T \in SUBSET LeftAt(p, s)
  PROVE  /\ TotalBytes(T) \in Nat /\ TotalBytes(LeftAt(p, s)) \in Nat
         /\ TotalBytes(T) <= TotalBytes(LeftAt(p, s))
<1>1. LeftAt(p, s) \in SUBSET sessions
  BY DEF LeftAt
<1> QED
  BY <1>1, TotalMonotone

\* The second pass takes the sessions it may in their order.
LEMMA TakenFirst ==
  ASSUME RetentionInv, FiniteRows, NEW p \in Policy,
         NEW s \in Excess(p), NEW t \in Remaining(p), ~Protected(t)
  PROVE  Precedes(s, t)
<1>1. /\ s \in Session /\ t \in Session /\ Ended(s) /\ Ended(t) /\ s # t
      /\ s \in sessions /\ t \in sessions \ Aged(p) /\ t \notin Excess(p)
  BY PlanTypes DEF Remaining, Selected, Protected
<1>2. SUFFICES ASSUME Precedes(t, s) PROVE FALSE
  BY <1>1, OrderOfEnded
<1>3. LeftAt(p, s) \subseteq LeftAt(p, t)
  <2>1. \A u \in sessions : Precedes(u, t) => Precedes(u, s)
    BY <1>1, <1>2, PlanTypes, OrderTransitive
  <2> QED
    BY <2>1 DEF LeftAt
<1>4. /\ TotalBytes(LeftAt(p, s)) \in Nat /\ TotalBytes(LeftAt(p, t)) \in Nat
      /\ TotalBytes(LeftAt(p, s)) <= TotalBytes(LeftAt(p, t))
  BY <1>1, <1>3, LeftTotals
<1>5. TotalBytes(LeftAt(p, s)) > p.maxBytes /\ ~(TotalBytes(LeftAt(p, t)) > p.maxBytes)
  BY <1>1, PlanTypes
<1> QED
  BY <1>4, <1>5, PlanTypes

\* When the ceiling is not met, only protected sessions are left.
LEMMA ProtectedExceed ==
  ASSUME RetentionInv, FiniteRows, NEW p \in Policy,
         TotalBytes(Remaining(p)) > p.maxBytes
  PROVE  TotalBytes({s \in sessions : Protected(s)}) > p.maxBytes
<1> DEFINE free == {t \in Remaining(p) : ~Protected(t)}
           kept == {s \in sessions : Protected(s)}
<1>1. CASE free # {}
  <2>1. free \in SUBSET Session /\ \A t \in free : Ended(t)
    BY PlanTypes DEF Remaining, Protected
  <2>2. PICK u \in free : \A t \in free : ~Precedes(t, u)
    <3> HIDE DEF free
    <3> QED
      BY <1>1, <2>1, FirstOfEnded
  <2>3. u \in sessions \ Aged(p) /\ u \notin Excess(p) /\ ~Protected(u)
    BY DEF Remaining, Selected
  <2>4. Remaining(p) \subseteq LeftAt(p, u)
    BY <2>2 DEF Remaining, Selected, LeftAt
  <2>5. /\ TotalBytes(Remaining(p)) \in Nat /\ TotalBytes(LeftAt(p, u)) \in Nat
        /\ TotalBytes(Remaining(p)) <= TotalBytes(LeftAt(p, u))
    BY <2>3, <2>4, LeftTotals
  <2>6. ~(TotalBytes(LeftAt(p, u)) > p.maxBytes)
    BY <2>3, PlanTypes
  <2> QED
    BY <2>5, <2>6, PlanTypes
<1>2. CASE free = {}
  <2>1. Remaining(p) \subseteq kept /\ kept \subseteq sessions
    BY <1>2 DEF Remaining
  <2> HIDE DEF kept
  <2>2. /\ TotalBytes(Remaining(p)) \in Nat /\ TotalBytes(kept) \in Nat
        /\ TotalBytes(Remaining(p)) <= TotalBytes(kept)
    BY <2>1, TotalMonotone
  <2>3. TotalBytes(kept) > p.maxBytes
    BY <2>2, PlanTypes
  <2> QED
    BY <2>3 DEF kept
<1> QED
  BY <1>1, <1>2

\* The youngest session taken for its size was needed.
LEMMA LastTakenNeeded ==
  ASSUME RetentionInv, FiniteRows, NEW p \in Policy, NEW s \in Excess(p),
         \A t \in Excess(p) \ {s} : Precedes(t, s)
  PROVE  TotalBytes(Remaining(p)) + Bytes(s) > p.maxBytes
<1>1. s \in sessions /\ s \in Session /\ TotalBytes(LeftAt(p, s)) > p.maxBytes
  BY PlanTypes
<1>2. LeftAt(p, s) \subseteq Remaining(p) \cup {s}
  BY PlanTypes DEF LeftAt, Remaining, Selected
<1>3. Remaining(p) \in SUBSET sessions /\ Remaining(p) \cup {s} \in SUBSET sessions
  BY <1>1 DEF Remaining
<1>4. /\ TotalBytes(LeftAt(p, s)) \in Nat /\ TotalBytes(Remaining(p) \cup {s}) \in Nat
      /\ TotalBytes(LeftAt(p, s)) <= TotalBytes(Remaining(p) \cup {s})
  BY <1>2, <1>3, TotalMonotone
<1>5. TotalBytes(Remaining(p) \cup {s}) <= TotalBytes(Remaining(p)) + Bytes(s)
  BY <1>1, <1>3, TotalWithOne
<1>6. TotalBytes(Remaining(p)) \in Nat /\ Bytes(s) \in Nat
  BY <1>1, <1>3, TotalMonotone, BytesNat
<1> QED
  BY <1>1, <1>4, <1>5, <1>6, PlanTypes

(***************************************************************************)
(* The transaction, told by what it leaves behind.                         *)
(***************************************************************************)
LEMMA PruneStep ==
  ASSUME RetentionInv, Next, NEW c \in Command
  PROVE  /\ Applied(c) => PruneApply(c)
         /\ Refused(c) => PruneNothing(c) /\ Unmet(command[c].policy)
         /\ Runs(c, {"apply"}) => command[c].policy \in Policy
<1>1. ASSUME Runs(c, {"apply"}), command'[c] = Nothing
      PROVE  PruneApply(c) \/ (PruneNothing(c) /\ Unmet(command[c].policy))
  <2>1. command[c] # Nothing /\ command[c].op = "apply" /\ command'[c] # command[c]
    BY <1>1 DEF Runs
  <2>2. PICK d \in Command : Commands(d)
    BY <2>1 DEF Next, Stores, StoreSession, StoreTrajectory, Link
  <2>3. d = c
    BY <2>1, <2>2 DEF Commands, HoldBegin, AnnotateBegin, PruneBegin, HoldCommit, ReleaseCommit,
      AnnotateCommit, PruneApply, PruneNothing, Begin, End, RetentionInv, TypeOK
  <2> QED
    BY <2>1, <2>2, <2>3 DEF Commands, HoldBegin, AnnotateBegin, PruneBegin, HoldCommit,
      ReleaseCommit, AnnotateCommit, PruneNothing, Begin, Runs
<1>2. PruneApply(c) => audit' # audit
  <2>1. PruneApply(c) => Len(audit) \in Nat /\ Len(audit') = Len(audit) + 1
    BY AuditedRow DEF PruneApply, RetentionInv
  <2> QED
    BY <2>1
<1>3. PruneNothing(c) => audit' = audit
  BY DEF PruneNothing
<1>4. Runs(c, {"apply"}) => command[c].policy \in Policy
  BY CommandTypes DEF Runs, PruneCommand, RetentionInv
<1> QED
  BY <1>1, <1>2, <1>3, <1>4 DEF Applied, Refused

\* A prune takes what it selected, and what it leaves weighs what it weighed.
LEMMA PruneLeaves ==
  ASSUME RetentionInv, NEW c \in Command, PruneApply(c),
         NEW p, p = command[c].policy
  PROVE  /\ ~Unmet(p) /\ sessions' = Remaining(p)
         /\ TotalBytes(sessions)' = TotalBytes(Remaining(p))
<1>1. ~Unmet(p) /\ DeleteSessionUnits(Selected(p))
  BY DEF PruneApply
<1>2. sessions' = Remaining(p)
  BY <1>1 DEF DeleteSessionUnits, Remaining
<1>3. ASSUME NEW s \in Remaining(p) PROVE Octets(s)' = Octets(s)
  <2>1. s \notin Selected(p)
    BY DEF Remaining
  <2>2. History(s)' = History(s)
    BY <1>1, <2>1 DEF DeleteSessionUnits, History
  <2>3. s \in trajectories' <=> s \in trajectories
    BY <1>1, <2>1 DEF DeleteSessionUnits
  <2>4. Bytes(s)' = Bytes(s)
    BY <2>2, <2>3 DEF Bytes
  <2> QED
    BY <2>4 DEF Octets
<1>4. {Octets(s) : s \in sessions}' = {Octets(s) : s \in Remaining(p)}
  BY <1>2, <1>3
<1> QED
  BY <1>1, <1>2, <1>4 DEF TotalBytes

\* An applied prune met both limits; a refused one could not have met them
\* (the two passes of the plan and the check after them, retention.rs:185-215).
THEOREM LimitsHold == Spec => LimitsMetOrRefused
<1>1. RetentionInv /\ FiniteRows /\ [Next]_vars =>
        [ \A c \in Command :
            /\ Applied(c) =>
                 /\ \A s \in sessions' : Ended(s) => EndedAt[s] > command[c].policy.cutoff
                 /\ TotalBytes(sessions)' <= command[c].policy.maxBytes
            /\ Refused(c) =>
                 \/ \E s \in Aged(command[c].policy) : Protected(s)
                 \/ TotalBytes({s \in sessions : Protected(s)}) > command[c].policy.maxBytes ]_vars
  <2> SUFFICES ASSUME RetentionInv, FiniteRows, Next, NEW c \in Command
               PROVE  /\ Applied(c) =>
                           /\ \A s \in sessions' :
                                Ended(s) => EndedAt[s] > command[c].policy.cutoff
                           /\ TotalBytes(sessions)' <= command[c].policy.maxBytes
                      /\ Refused(c) =>
                           \/ \E s \in Aged(command[c].policy) : Protected(s)
                           \/ TotalBytes({s \in sessions : Protected(s)})
                                > command[c].policy.maxBytes
    OBVIOUS
  <2>0. PICK p : p = command[c].policy
    OBVIOUS
  <2>1. ASSUME Applied(c)
        PROVE  /\ \A s \in sessions' : Ended(s) => EndedAt[s] > p.cutoff
               /\ TotalBytes(sessions)' <= p.maxBytes
    <3>1. PruneApply(c) /\ p \in Policy
      BY <2>0, <2>1, PruneStep DEF Applied
    <3>2. /\ ~Unmet(p) /\ sessions' = Remaining(p)
          /\ TotalBytes(sessions)' = TotalBytes(Remaining(p))
      BY <2>0, <3>1, PruneLeaves
    <3>3. TotalBytes(Remaining(p)) \in Nat
      BY OctetsFinite DEF Remaining
    <3>4. ~(TotalBytes(Remaining(p)) > p.maxBytes)
      BY <3>2 DEF Unmet, Remaining
    <3>5. ASSUME NEW s \in Remaining(p), Ended(s) PROVE EndedAt[s] > p.cutoff
      <4>1. s \in Session /\ EndedAt[s] \in Nat
        BY <3>5, <3>1, PlanTypes, RetentionAssumption DEF Remaining, Ended
      <4>2. ~(EndedAt[s] <= p.cutoff)
        BY <3>5 DEF Remaining, Selected, Aged
      <4> QED
        BY <3>1, <4>1, <4>2, PlanTypes
    <3> QED
      BY <3>1, <3>2, <3>3, <3>4, <3>5, PlanTypes
  <2>2. ASSUME Refused(c)
        PROVE  \/ \E s \in Aged(p) : Protected(s)
               \/ TotalBytes({s \in sessions : Protected(s)}) > p.maxBytes
    <3>1. Unmet(p) /\ p \in Policy
      BY <2>0, <2>2, PruneStep DEF Refused
    <3> QED
      BY <3>1, ProtectedExceed DEF Unmet, Remaining
  <2> QED
    BY <2>0, <2>1, <2>2
<1> QED
  BY <1>1, RetentionInvariant, RowsFinite, PTL DEF Spec, LimitsMetOrRefused

\* Pruning for size takes the oldest it may and no more than it must
\* (the second pass, retention.rs:201-211).
THEOREM OldestFirst == Spec => OldestAndNoMore
<1>1. RetentionInv /\ FiniteRows /\ [Next]_vars =>
        [ \A c \in Command : Applied(c) =>
            LET p == command[c].policy
                taken == sessions \ sessions'
                forSize == taken \ Aged(p)
            IN  /\ \A s \in taken, t \in sessions' :
                     ~Protected(t) =>
                       /\ EndedAt[s] <= EndedAt[t]
                       /\ EndedAt[s] = EndedAt[t] => IdOrder[s] < IdOrder[t]
                /\ \A s \in forSize :
                     (\A t \in forSize \ {s} : EndedAt[t] <= EndedAt[s]
                        /\ (EndedAt[t] = EndedAt[s] => IdOrder[t] < IdOrder[s])) =>
                       TotalBytes(sessions') + Bytes(s) > p.maxBytes ]_vars
  <2> SUFFICES ASSUME RetentionInv, FiniteRows, Next, NEW c \in Command, Applied(c),
                      NEW p, p = command[c].policy,
                      NEW taken, taken = sessions \ sessions',
                      NEW forSize, forSize = taken \ Aged(p)
               PROVE  /\ \A s \in taken, t \in sessions' :
                           ~Protected(t) =>
                             /\ EndedAt[s] <= EndedAt[t]
                             /\ EndedAt[s] = EndedAt[t] => IdOrder[s] < IdOrder[t]
                      /\ \A s \in forSize :
                           (\A t \in forSize \ {s} : EndedAt[t] <= EndedAt[s]
                              /\ (EndedAt[t] = EndedAt[s] => IdOrder[t] < IdOrder[s])) =>
                             TotalBytes(sessions') + Bytes(s) > p.maxBytes
    OBVIOUS
  <2>1. PruneApply(c) /\ p \in Policy
    BY PruneStep DEF Applied
  <2>2. sessions' = Remaining(p)
    BY <2>1, PruneLeaves
  <2>3. taken \subseteq Selected(p) /\ forSize = Excess(p)
    BY <2>1, <2>2, PlanTypes DEF Remaining, Selected
  <2>4. ASSUME NEW s \in taken, NEW t \in Remaining(p), ~Protected(t)
        PROVE  /\ EndedAt[s] <= EndedAt[t]
               /\ EndedAt[s] = EndedAt[t] => IdOrder[s] < IdOrder[t]
    <3>1. s \in Session /\ t \in Session /\ Ended(t) /\ EndedAt[t] \in Nat
      BY <2>1, <2>4, PlanTypes, RetentionAssumption DEF Remaining, Protected, Ended
    <3>2. CASE s \in Aged(p)
      <4>1. EndedAt[s] <= p.cutoff /\ EndedAt[s] \in Nat
        BY <3>1, <3>2, RetentionAssumption DEF Aged, Ended
      <4>2. ~(EndedAt[t] <= p.cutoff)
        BY <3>1 DEF Remaining, Selected, Aged
      <4> QED
        BY <2>1, <3>1, <4>1, <4>2, PlanTypes
    <3>3. CASE s \in Excess(p)
      <4>1. Precedes(s, t) /\ Ended(s)
        BY <2>1, <2>4, <3>3, TakenFirst, PlanTypes
      <4> QED
        BY <3>1, <4>1, OrderOfEnded
    <3> QED
      BY <2>3, <3>2, <3>3 DEF Selected
  <2>5. ASSUME NEW s \in Excess(p),
               \A t \in Excess(p) \ {s} : EndedAt[t] <= EndedAt[s]
                 /\ (EndedAt[t] = EndedAt[s] => IdOrder[t] < IdOrder[s])
        PROVE  TotalBytes(Remaining(p)) + Bytes(s) > p.maxBytes
    <3>1. ASSUME NEW t \in Excess(p) \ {s} PROVE Precedes(t, s)
      <4>1. s \in Session /\ t \in Session /\ Ended(s) /\ Ended(t)
        BY <2>1, PlanTypes
      <4> QED
        BY <2>5, <4>1, OrderOfEnded
    <3> QED
      BY <2>1, <3>1, LastTakenNeeded
  <2> QED
    BY <2>2, <2>3, <2>4, <2>5
<1> QED
  BY <1>1, RetentionInvariant, RowsFinite, PTL DEF Spec, OldestAndNoMore
=============================================================================
