--------------------------- MODULE RecorderSafety ---------------------------
(***************************************************************************)
(* The safety theorems of the recorder.  The argument: rows only ever      *)
(* grow, so what one process has established about the database stays true *)
(* whatever the others do; each insert of a process is justified by what   *)
(* that process has established.                                           *)
(***************************************************************************)
EXTENDS RecorderProperties, FiniteSetTheorems, TLAPS

(* Types, for every value of the constants.                                *)
TypeInv == TypeOK /\ FiniteState /\ Located

\* What is accepted of a finite set is finite, and some of the set.
LEMMA AcceptedFinite ==
  ASSUME NEW V, IsFiniteSet(V)
  PROVE  /\ IsFiniteSet(Accepted(V))
         /\ Duplicates(V) \in Nat
         /\ \A x : Position(Accepted(V), x) \in Nat
<1>1. Accepted(V) \subseteq V  BY DEF Accepted
<1>2. IsFiniteSet(Accepted(V)) /\ Cardinality(Accepted(V)) <= Cardinality(V)
  BY <1>1, FS_Subset
<1>3. Cardinality(V) \in Nat /\ Cardinality(Accepted(V)) \in Nat
  BY <1>2, FS_CardinalityType
<1>4. ASSUME NEW x PROVE Position(Accepted(V), x) \in Nat
  <2>1. {y \in Accepted(V) : Before(y, x)} \subseteq Accepted(V)  OBVIOUS
  <2> QED BY <2>1, <1>2, FS_Subset, FS_CardinalityType DEF Position
<1> QED BY <1>2, <1>3, <1>4 DEF Duplicates

\* The initial state has the types.
LEMMA InitTypeInv == Init => TypeInv
<1> SUFFICES ASSUME Init PROVE TypeInv OBVIOUS
<1> USE DEF Init
<1>1. TypeOK
  BY RecorderAssumption DEF TypeOK, RunType, Label, Idle, Fresh
<1>2. FiniteState
  BY FS_EmptySet DEF FiniteState, Idle, Fresh
<1>3. Located
  BY DEF Located, Past, Identified, Idle, Fresh
<1> QED BY <1>1, <1>2, <1>3 DEF TypeInv

\* The local state a process starts the loop, or its next round, with.
LEMMA FreshType ==
  ASSUME NEW todo \in SUBSET Session
  PROVE  /\ Fresh("next", todo) \in RunType
         /\ Idle \in RunType
BY DEF Fresh, RunType, Label, Idle

\* A directory that is not outside every repository lies in one.
LEMMA WorkingDirectoryType ==
  ASSUME NEW A \in SUBSET Segment, WorkingDirectory(A) # Outside
  PROVE  WorkingDirectory(A) \in Repository
<1> DEFINE placed == {x \in A : Cwd[x.payload] # Unset}
           first  == {x \in placed : IsFirst(x, placed)}
           chosen == CHOOSE x \in first : TRUE
<1>1. first # {} /\ WorkingDirectory(A) = Cwd[chosen.payload]
  BY DEF WorkingDirectory
<1>2. chosen \in first
  BY <1>1
<1>3. chosen.payload \in Payload /\ Cwd[chosen.payload] # Unset
  BY <1>2 DEF Segment
<1> QED BY <1>1, <1>3, PayloadAssumption

(* What a recover process holds in memory, and how its actions change it.  *)
RunInv ==
  /\ run \in [Recoverer -> RunType]
  /\ \A r \in Recoverer : IsFiniteSet(run[r].unread) /\ IsFiniteSet(run[r].verified)
  /\ Located

LocalInv(local) ==
  /\ local \in RunType
  /\ IsFiniteSet(local.unread) /\ IsFiniteSet(local.verified)
  /\ local.pc \notin {"idle", "next"} => local.session \in Session
  /\ local.pc \in Identified => local.identity \in [repository : Repository, head : Nat]

\* The memory of a process, by itself.
LEMMA LocalOf ==
  ASSUME RunInv, NEW r \in Recoverer
  PROVE  LocalInv(run[r])
BY DEF RunInv, Located, Past, LocalInv

\* A step that changes nothing, or one process to a proper state, keeps RunInv.
LEMMA RunKept ==
  ASSUME RunInv, run' = run
  PROVE  RunInv'
BY DEF RunInv, Located, Past

LEMMA RunUpdate ==
  ASSUME RunInv, NEW r \in Recoverer, NEW local, LocalInv(local),
         run' = [run EXCEPT ![r] = local]
  PROVE  RunInv'
<1>1. run' \in [Recoverer -> RunType]
  BY DEF LocalInv, RunInv
<1>2. \A q \in Recoverer : run'[q] = IF q = r THEN local ELSE run[q]
  BY DEF RunInv
<1>3. \A q \in Recoverer : LocalInv(run'[q])
  BY <1>2, LocalOf
<1> QED BY <1>1, <1>3 DEF RunInv, Located, Past, LocalInv

\* The states a process starts the loop, or its next round, with.
LEMMA FreshLocal ==
  ASSUME NEW todo \in SUBSET Session
  PROVE  LocalInv(Fresh("next", todo)) /\ LocalInv(Idle)
<1>1. /\ Fresh("next", todo).pc = "next" /\ Idle.pc = "idle"
      /\ Fresh("next", todo).unread = {} /\ Fresh("next", todo).verified = {}
      /\ Idle.unread = {} /\ Idle.verified = {}
  BY DEF Fresh, Idle
<1> QED BY <1>1, FreshType, FS_EmptySet DEF LocalInv, Identified

\* Going on with the next session, or ending the run, keeps RunInv.
LEMMA LeaveRun ==
  ASSUME RunInv, NEW r \in Recoverer, Leave(r) \/ EndRun(r)
  PROVE  RunInv'
<1>1. run[r].todo \in SUBSET Session
  BY DEF RunInv, RunType
<1> QED BY <1>1, FreshLocal, RunUpdate DEF Leave, EndRun

\* So does a jump that sets the cursor, to a step that needs nothing more than
\* the step it leaves.
LEMMA JumpRun ==
  ASSUME RunInv, NEW r \in Recoverer, NEW label \in {"oversize", "discard"} \cup Identified,
         NEW cursor \in Nat,
         run' = [run EXCEPT ![r].pc = label, ![r].cursor = cursor],
         ~Past(r, {"idle", "next"}),
         label \in Identified => Past(r, Identified)
  PROVE  RunInv'
<1> DEFINE local == [run[r] EXCEPT !.pc = label, !.cursor = cursor]
<1>1. LocalInv(run[r])
  BY LocalOf
<1>2. label \in Label
  BY DEF Label, Identified
<1>3. local \in RunType
  BY <1>2 DEF RunInv, RunType
<1>4. /\ local.unread = run[r].unread
      /\ local.verified = run[r].verified
      /\ local.session = run[r].session
      /\ local.identity = run[r].identity
      /\ local.pc = label
  BY DEF RunInv, RunType
<1>5. run' = [run EXCEPT ![r] = local]
  BY DEF RunInv, RunType
<1> HIDE DEF local
<1>6. LocalInv(local)
  BY <1>1, <1>3, <1>4 DEF LocalInv, Past
<1> QED BY <1>5, <1>6, RunUpdate

\* A jump without a change of the cursor.
LEMMA GoToRun ==
  ASSUME RunInv, NEW r \in Recoverer, NEW label \in {"oversize", "discard"} \cup Identified,
         GoTo(r, label),
         ~Past(r, {"idle", "next"}),
         label \in Identified => Past(r, Identified)
  PROVE  RunInv'
<1>1. run[r].cursor \in Nat
  BY DEF RunInv, RunType
<1>2. run' = [run EXCEPT ![r].pc = label, ![r].cursor = run[r].cursor]
  BY DEF RunInv, RunType, GoTo
<1> QED BY <1>1, <1>2, JumpRun

\* A process that advances its cursor keeps its type.
LEMMA CursorRun ==
  ASSUME RunInv, NEW r \in Recoverer, run' = [run EXCEPT ![r].cursor = @ + 1]
  PROVE  RunInv'
<1> DEFINE local == [run[r] EXCEPT !.cursor = @ + 1]
<1>1. LocalInv(run[r])
  BY LocalOf
<1>2. /\ local \in RunType
      /\ local.unread = run[r].unread
      /\ local.verified = run[r].verified
      /\ local.session = run[r].session
      /\ local.identity = run[r].identity
      /\ local.pc = run[r].pc
  BY DEF RunInv, RunType
<1>3. run' = [run EXCEPT ![r] = local]
  BY DEF RunInv, RunType
<1> HIDE DEF local
<1>4. LocalInv(local)
  BY <1>1, <1>2 DEF LocalInv
<1> QED BY <1>3, <1>4, RunUpdate

\* Hooks starting, dying and damaging, and commits, keep the types.
LEMMA WorldTypeInv ==
  ASSUME TypeInv, World
  PROVE  TypeInv'
<1> USE DEF TypeInv, runtimeVars, hookVars, spoolVars, rowVars, storeVars, historyVars
<1>0. RunInv'
  BY RunKept DEF World, HookBegin, HookRefuse, HookDie, Damage, Commit, RunInv, TypeOK, FiniteState
<1>1. ASSUME NEW h \in Hook, NEW s \in Session, NEW elapsed \in {0, 1},
             HookBegin(h, s, elapsed)
      PROVE  TypeInv'
  <2>1. Script[s][fired[s] + 1] \in Payload
    <3>1. Script[s] \in Seq(Payload) /\ fired[s] \in Nat /\ fired[s] < Len(Script[s])
      BY <1>1, RecorderAssumption DEF HookBegin, TypeOK
    <3> QED BY <3>1
  <2>2. now' \in Nat
    BY <1>1 DEF HookBegin, TypeOK
  <2>3. TypeOK'
    BY <1>1, <2>1, <2>2 DEF HookBegin, TypeOK, Segment
  <2> QED BY <1>0, <1>1, <2>3 DEF HookBegin, FiniteState, RunInv
<1>2. ASSUME NEW s \in Session, HookRefuse(s) PROVE TypeInv'
  BY <1>0, <1>2 DEF HookRefuse, TypeOK, FiniteState, RunInv
<1>3. ASSUME NEW h \in Hook, HookDie(h) PROVE TypeInv'
  BY <1>0, <1>3 DEF HookDie, TypeOK, FiniteState, RunInv
<1>4. ASSUME NEW s \in Session, NEW f \in spool[s], Damage(s, f) PROVE TypeInv'
  BY <1>0, <1>4 DEF Damage, TypeOK, FiniteState, RunInv
<1>5. ASSUME NEW r \in Repository, Commit(r) PROVE TypeInv'
  BY <1>0, <1>5 DEF Commit, TypeOK, FiniteState, RunInv
<1> QED BY <1>1, <1>2, <1>3, <1>4, <1>5 DEF World

\* A hook that publishes or fails keeps the types.
LEMMA HookTypeInv ==
  ASSUME TypeInv, NEW h \in Hook, HookStep(h)
  PROVE  TypeInv'
<1> USE DEF TypeInv, runtimeVars, hookVars, spoolVars, rowVars, storeVars, historyVars
<1>0. RunInv'
  BY RunKept DEF HookStep, HookPublish, HookFault, RunInv, TypeOK, FiniteState
<1>1. CASE HookPublish(h)
  <2>1. hook[h].session \in Session /\ hook[h].segment \in Segment
    BY <1>1 DEF HookPublish, TypeOK
  <2>2. IsFiniteSet(spool[hook[h].session] \cup {hook[h].segment})
    BY <2>1, FS_AddElement DEF FiniteState
  <2>3. TypeOK'
    BY <1>1, <2>1 DEF HookPublish, TypeOK
  <2>4. FiniteState'
    BY <1>1, <2>1, <2>2 DEF HookPublish, TypeOK, FiniteState
  <2> QED BY <1>0, <2>3, <2>4 DEF RunInv
<1>2. CASE HookFault(h)
  BY <1>0, <1>2 DEF HookFault, TypeOK, FiniteState, RunInv
<1> QED BY <1>1, <1>2 DEF HookStep

\* Reading and classifying a session keeps the types.
LEMMA ReadTypeInv ==
  ASSUME TypeInv, NEW r \in Recoverer, ReadStep(r)
  PROVE  TypeInv'
<1> USE DEF TypeInv, runtimeVars, hookVars, spoolVars, rowVars, storeVars, historyVars, At
<1>0. RunInv
  BY DEF RunInv, TypeOK, FiniteState
<1>0a. LocalInv(run[r])
  BY <1>0, LocalOf
<1>0b. run[r] \in RunType
  BY <1>0a DEF LocalInv
<1>1. ASSUME NEW s \in Session, ListSegments(r, s) PROVE TypeInv'
  <2> DEFINE local == [run[r] EXCEPT !.pc = "read", !.todo = @ \ {s},
                                     !.session = s, !.unread = spool[s]]
  <2>0. "read" \in Label /\ spool[s] \in SUBSET Segment
    BY DEF Label, TypeOK
  <2>1. /\ local \in RunType
        /\ local.unread = spool[s]
        /\ local.verified = run[r].verified
        /\ local.session = s
        /\ local.pc = "read"
    BY <1>0, <2>0 DEF RunInv, RunType
  <2>2. run' = [run EXCEPT ![r] = local]
    BY <1>0, <1>1 DEF ListSegments, RunInv, RunType
  <2> HIDE DEF local
  <2>3. LocalInv(local)
    BY <1>0a, <2>1 DEF LocalInv, FiniteState, Identified
  <2>4. RunInv'
    BY <1>0, <2>2, <2>3, RunUpdate
  <2> QED BY <1>1, <2>4 DEF ListSegments, TypeOK, FiniteState, RunInv
<1>2. ASSUME NEW f \in run[r].unread, ReadIntact(r, f) PROVE TypeInv'
  <2> DEFINE local == [run[r] EXCEPT !.unread = @ \ {f}, !.verified = @ \cup {f}]
  <2>1. /\ local \in RunType
        /\ local.unread = run[r].unread \ {f}
        /\ local.verified = run[r].verified \cup {f}
        /\ local.session = run[r].session
        /\ local.identity = run[r].identity
        /\ local.pc = run[r].pc
    BY <1>0 DEF RunInv, RunType
  <2>2. run' = [run EXCEPT ![r] = local]
    BY <1>0, <1>2 DEF ReadIntact, RunInv, RunType
  <2> HIDE DEF local
  <2>3. LocalInv(local)
    <3>1. IsFiniteSet(run[r].unread) /\ IsFiniteSet(run[r].verified)
      BY <1>0 DEF RunInv
    <3>2. IsFiniteSet(run[r].unread \ {f}) /\ IsFiniteSet(run[r].verified \cup {f})
      BY <3>1, FS_RemoveElement, FS_AddElement
    <3> QED BY <1>0a, <2>1, <3>2 DEF LocalInv
  <2>4. RunInv'
    BY <1>0, <2>2, <2>3, RunUpdate
  <2> QED BY <1>2, <2>4 DEF ReadIntact, TypeOK, FiniteState, RunInv
<1>3. ASSUME NEW f \in run[r].unread, ReadDamaged(r, f) PROVE TypeInv'
  <2> DEFINE unread == run[r].unread \ {f}
             lost == run[r].lost + 1
             local == [run[r] EXCEPT !.unread = unread, !.lost = lost]
  <2>0. unread \in SUBSET Segment /\ lost \in Nat
    BY <1>0b DEF RunType
  <2> HIDE DEF unread, lost
  <2>1. /\ local \in RunType
        /\ local.unread = unread
        /\ local.verified = run[r].verified
        /\ local.session = run[r].session
        /\ local.identity = run[r].identity
        /\ local.pc = run[r].pc
    BY <1>0b, <2>0 DEF RunType
  <2>2. run' = [run EXCEPT ![r] = local]
    BY <1>0, <1>3 DEF ReadDamaged, RunInv, RunType, unread, lost
  <2> HIDE DEF local
  <2>3. LocalInv(local)
    <3>1. IsFiniteSet(unread)
      BY <1>0, FS_RemoveElement DEF RunInv, unread
    <3> QED BY <1>0a, <2>1, <3>1 DEF LocalInv
  <2>4. RunInv'
    BY <1>0, <2>2, <2>3, RunUpdate
  <2>5. run[r].session \in Session /\ f \in Segment
    BY <1>0, <1>3 DEF ReadDamaged, RunInv, RunType, Located, Past
  <2>6. IsFiniteSet(spool[run[r].session] \ {f})
    BY <2>5, FS_RemoveElement DEF FiniteState
  <2> QED BY <1>3, <2>4, <2>5, <2>6 DEF ReadDamaged, TypeOK, FiniteState, RunInv
<1>4. ASSUME NEW f \in run[r].unread, ReadMissing(r, f) PROVE TypeInv'
  <2>1. RunInv'
    BY <1>0, <1>4, LeaveRun DEF ReadMissing
  <2> QED BY <1>4, <2>1 DEF ReadMissing, ClearTemporaryFiles, TypeOK, FiniteState, RunInv
<1>5. CASE AggregateEmpty(r)
  <2>1. RunInv'
    BY <1>0, <1>5, GoToRun DEF AggregateEmpty, Past, Identified
  <2> QED BY <1>5, <2>1 DEF AggregateEmpty, TypeOK, FiniteState, RunInv
<1>6. CASE AggregateTooLarge(r)
  <2>1. RunInv'
    BY <1>0, <1>6, GoToRun, LeaveRun DEF AggregateTooLarge, Past, Identified
  <2> QED BY <1>6, <2>1 DEF AggregateTooLarge, ClearTemporaryFiles, TypeOK, FiniteState, RunInv
<1>7. CASE RecordOversize(r)
  <2>1. RunInv'
    BY <1>0, <1>7, LeaveRun DEF RecordOversize
  <2>2. run[r].session \in Session
    BY <1>7 DEF RecordOversize, Located, Past, Identified
  <2> QED BY <1>7, <2>1, <2>2 DEF RecordOversize, ClearTemporaryFiles, TypeOK, FiniteState, RunInv
<1>8. CASE SkipOutside(r)
  <2>1. RunInv'
    BY <1>0, <1>8, LeaveRun DEF SkipOutside
  <2> QED BY <1>8, <2>1 DEF SkipOutside, TypeOK, FiniteState, RunInv
<1>9. CASE Discover(r)
  <2> DEFINE repository == WorkingDirectory(Aggregate(r))
  <2>1. Aggregate(r) \in SUBSET Segment
    BY <1>0 DEF Aggregate, Accepted, RunInv, RunType
  <2>2. [repository |-> repository, head |-> head[repository]]
          \in [repository : Repository, head : Nat]
    BY <1>9, <2>1, WorkingDirectoryType DEF Discover, TypeOK
  <2> HIDE DEF repository
  <2> DEFINE label == IF Complete(Aggregate(r)) THEN "finalize" ELSE "open"
             identity == [repository |-> repository, head |-> head[repository]]
             local == [run[r] EXCEPT !.pc = label, !.identity = identity]
  <2>3. /\ label \in Label \cap Identified
        /\ identity \in [repository : Repository, head : Nat]
    BY <2>2 DEF Label, Identified
  <2>4. run' = [run EXCEPT ![r].pc = label, ![r].identity = identity]
    BY <1>9 DEF Discover, repository
  <2> HIDE DEF label, identity
  <2>5. /\ local \in RunType
        /\ local.unread = run[r].unread
        /\ local.verified = run[r].verified
        /\ local.session = run[r].session
        /\ local.identity = identity
        /\ local.pc = label
    BY <1>0, <2>3 DEF RunInv, RunType
  <2>6. run' = [run EXCEPT ![r] = local]
    BY <1>0, <2>4 DEF RunInv, RunType
  <2>7. run[r].session \in Session
    BY <1>9 DEF Discover, Aggregated, Located, Past
  <2> HIDE DEF local
  <2>8. LocalInv(local)
    BY <1>0a, <2>3, <2>5, <2>7 DEF LocalInv
  <2>9. RunInv'
    BY <1>0, <2>6, <2>8, RunUpdate
  <2> QED BY <1>9, <2>9 DEF Discover, TypeOK, FiniteState, RunInv
<1>10. CASE DrainResidue(r)
  <2>1. RunInv'
    BY <1>0, <1>10, GoToRun DEF DrainResidue, Past, Identified
  <2> QED BY <1>10, <2>1 DEF DrainResidue, TypeOK, FiniteState, RunInv
<1>11. CASE LeavePending(r)
  <2>1. RunInv'
    BY <1>0, <1>11, LeaveRun DEF LeavePending
  <2> QED BY <1>11, <2>1 DEF LeavePending, ClearTemporaryFiles, TypeOK, FiniteState, RunInv
<1> QED BY <1>1, <1>2, <1>3, <1>4, <1>5, <1>6, <1>7, <1>8, <1>9, <1>10, <1>11 DEF ReadStep

\* Every step of finalize keeps the types.
LEMMA FinalizeTypeInv ==
  ASSUME TypeInv, NEW r \in Recoverer, FinalizeStep(r)
  PROVE  TypeInv'
<1> USE DEF TypeInv, runtimeVars, hookVars, spoolVars, rowVars, storeVars, historyVars, At
<1>1. RunInv
  BY DEF RunInv, TypeOK, FiniteState
<1>2. Past(r, Identified)
  BY DEF FinalizeStep, EnsureRepository, PutRepository, CheckExisting, WriteSession,
         PutSession, ListEvents, SkipEvent, WriteEvent, PutTrajectory, RecordQuarantined,
         RecordDuplicates, ListStoredEvents, PutMetrics, Past, Identified
<1>3. /\ run[r].identity \in [repository : Repository, head : Nat]
      /\ run[r].session \in Session
      /\ Sid(r) \in SessionId
  BY <1>2 DEF Past, Identified, Located, Sid, SessionId
<1>4. /\ Aggregate(r) \in SUBSET Segment
      /\ IsFiniteSet(run[r].verified)
  BY <1>1 DEF Aggregate, Accepted, RunInv, RunType
<1>5. CASE EnsureRepository(r)
  <2>1. RunInv'
    BY <1>1, <1>2, <1>5, GoToRun DEF EnsureRepository, Past, Identified
  <2> QED BY <1>5, <2>1 DEF EnsureRepository, TypeOK, FiniteState, RunInv
<1>5a. CASE PutRepository(r)
  <2>1. RunInv'
    BY <1>1, <1>2, <1>5a, GoToRun, LeaveRun DEF PutRepository, Past, Identified
  <2> QED BY <1>3, <1>5a, <2>1 DEF PutRepository, TypeOK, FiniteState, RunInv
<1>6. CASE CheckExisting(r)
  <2>1. RunInv'
    BY <1>1, <1>2, <1>6, GoToRun DEF CheckExisting, Past, Identified
  <2> QED BY <1>6, <2>1 DEF CheckExisting, TypeOK, FiniteState, RunInv
<1>7. CASE WriteSession(r)
  <2>1. RunInv'
    BY <1>1, <1>2, <1>7, GoToRun DEF WriteSession, Past, Identified
  <2> QED BY <1>7, <2>1 DEF WriteSession, TypeOK, FiniteState, RunInv
<1>7a. CASE PutSession(r)
  <2>1. RunInv'
    BY <1>1, <1>2, <1>7a, GoToRun, LeaveRun DEF PutSession, Past, Identified
  <2> QED BY <1>3, <1>7a, <2>1 DEF PutSession, TypeOK, FiniteState, RunInv
<1>8. CASE ListEvents(r)
  <2> DEFINE known == {e.id.sequence : e \in StoredEvents(Sid(r))}
             local == [run[r] EXCEPT !.pc = "events", !.cursor = 0, !.known = known]
  <2>1. known \in SUBSET Nat
    BY DEF StoredEvents, TypeOK, EventIdType
  <2>2. run' = [run EXCEPT ![r].pc = "events", ![r].cursor = 0, ![r].known = known]
    BY <1>8 DEF ListEvents
  <2> HIDE DEF known
  <2>3. /\ local \in RunType
        /\ local.unread = run[r].unread
        /\ local.verified = run[r].verified
        /\ local.session = run[r].session
        /\ local.identity = run[r].identity
    BY <1>1, <2>1 DEF RunInv, RunType, Label
  <2>4. run' = [run EXCEPT ![r] = local]
    BY <1>1, <2>2 DEF RunInv, RunType
  <2> HIDE DEF local
  <2>5. LocalInv(local)
    BY <1>1, <1>3, <2>3, LocalOf DEF LocalInv
  <2>6. RunInv'
    BY <1>1, <2>4, <2>5, RunUpdate
  <2> QED BY <1>8, <2>6 DEF ListEvents, TypeOK, FiniteState, RunInv
<1>9. ASSUME NEW x \in Aggregate(r), SkipEvent(r, x) PROVE TypeInv'
  <2>1. RunInv'
    BY <1>1, <1>9, CursorRun DEF SkipEvent
  <2> QED BY <1>9, <2>1 DEF SkipEvent, TypeOK, FiniteState, RunInv
<1>10. ASSUME NEW x \in Aggregate(r), WriteEvent(r, x) PROVE TypeInv'
  <2> DEFINE row == [id |-> EventId(Sid(r), run[r].cursor, x.payload), at |-> x.at]
  <2>1. RunInv'
    BY <1>1, <1>10, CursorRun, LeaveRun DEF WriteEvent
  <2>2. row \in [id : EventIdType, at : Nat]
    BY <1>1, <1>3, <1>4 DEF RunInv, RunType, EventId, EventIdType, Segment
  <2>3. events' \in {events, events \cup {row}}
    BY <1>10 DEF WriteEvent
  <2> HIDE DEF row
  <2>4. events' \in SUBSET [id : EventIdType, at : Nat] /\ IsFiniteSet(events')
    <3>1. events \in SUBSET [id : EventIdType, at : Nat] /\ IsFiniteSet(events)
      BY DEF TypeOK, FiniteState
    <3>2. IsFiniteSet(events \cup {row})
      BY <3>1, FS_AddElement
    <3> QED BY <2>2, <2>3, <3>1, <3>2
  <2> QED BY <1>10, <2>1, <2>4 DEF WriteEvent, TypeOK, FiniteState, RunInv
<1>11. CASE PutTrajectory(r)
  <2> DEFINE row == [events |-> EventIds(r), head |-> run[r].identity.head]
  <2>1. RunInv'
    BY <1>1, <1>2, <1>11, JumpRun, LeaveRun DEF PutTrajectory, Past, Identified
  <2>2. EventIds(r) \in SUBSET EventIdType
    BY <1>3, <1>4, AcceptedFinite DEF EventIds, EventId, EventIdType, Aggregate, Segment
  <2>3. row \in TrajectoryType
    BY <1>3, <2>2 DEF TrajectoryType
  <2>4. trajectories' \in [SessionId -> TrajectoryType \cup {Nothing}]
    BY <1>11, <2>3 DEF PutTrajectory, TypeOK
  <2> QED BY <1>11, <2>1, <2>4 DEF PutTrajectory, TypeOK, FiniteState, RunInv
<1>12. CASE RecordQuarantined(r)
  <2>1. RunInv'
    BY <1>1, <1>12, CursorRun DEF RecordQuarantined
  <2> QED BY <1>12, <2>1 DEF RecordQuarantined, TypeOK, FiniteState, RunInv
<1>13. CASE RecordDuplicates(r)
  <2>1. RunInv'
    BY <1>1, <1>2, <1>13, GoToRun DEF RecordDuplicates, Past, Identified
  <2> QED BY <1>13, <2>1 DEF RecordDuplicates, TypeOK, FiniteState, RunInv
<1>14. CASE ListStoredEvents(r)
  <2>1. Cardinality(StoredEvents(Sid(r))) \in Nat
    BY FS_Subset, FS_CardinalityType DEF StoredEvents, FiniteState
  <2>2. RunInv'
    BY <1>1, <1>2, <1>14, <2>1, JumpRun DEF ListStoredEvents, Past, Identified
  <2> QED BY <1>14, <2>2 DEF ListStoredEvents, TypeOK, FiniteState, RunInv
<1>15. CASE PutMetrics(r)
  <2> DEFINE row == [events      |-> run[r].cursor,
                     head        |-> run[r].identity.head,
                     quarantined |-> run[r].lost,
                     duplicates  |-> Duplicates(run[r].verified)]
  <2>1. RunInv'
    BY <1>1, <1>2, <1>15, GoToRun DEF PutMetrics, Past, Identified
  <2>2. run[r].cursor \in Nat /\ run[r].lost \in Nat /\ Duplicates(run[r].verified) \in Nat
    BY <1>1, <1>4, AcceptedFinite DEF RunInv, RunType
  <2>3. row \in [events : Nat, head : Nat, quarantined : Nat, duplicates : Nat]
    BY <1>3, <2>2
  <2>4. metrics' = [metrics EXCEPT ![Sid(r)] = row]
    BY <1>15 DEF PutMetrics
  <2> HIDE DEF row
  <2>5. metrics' \in [SessionId ->
          [events : Nat, head : Nat, quarantined : Nat, duplicates : Nat] \cup {Nothing}]
    BY <2>3, <2>4 DEF TypeOK
  <2> QED BY <1>15, <2>1, <2>5 DEF PutMetrics, TypeOK, FiniteState, RunInv
<1> QED BY <1>5, <1>5a, <1>6, <1>7, <1>7a, <1>8, <1>9, <1>10, <1>11, <1>12, <1>13, <1>14, <1>15
        DEF FinalizeStep

\* Every step of discard_session keeps the types.
LEMMA DiscardTypeInv ==
  ASSUME TypeInv, NEW r \in Recoverer, DiscardStep(r)
  PROVE  TypeInv'
<1> USE DEF TypeInv, runtimeVars, hookVars, spoolVars, rowVars, storeVars, historyVars, At
<1>1. RunInv
  BY DEF RunInv, TypeOK, FiniteState
<1>2. run[r].session \in Session
  BY DEF DiscardStep, Located, Past, Identified
<1>3. ASSUME NEW f \in spool[run[r].session], DiscardSegment(r, f) PROVE TypeInv'
  <2>1. IsFiniteSet(spool[run[r].session] \ {f})
    BY <1>2, FS_RemoveElement DEF FiniteState
  <2>2. RunInv'
    BY <1>1, <1>3, RunKept DEF DiscardSegment
  <2> QED BY <1>2, <1>3, <2>1, <2>2 DEF DiscardSegment, TypeOK, FiniteState, RunInv
<1>4. ASSUME NEW t \in temporary[run[r].session], DiscardTemporary(r, t) PROVE TypeInv'
  <2>1. RunInv'
    BY <1>1, <1>4, RunKept DEF DiscardTemporary
  <2> QED BY <1>2, <1>4, <2>1 DEF DiscardTemporary, TypeOK, FiniteState, RunInv
<1>5. CASE DiscardEnd(r)
  <2>1. RunInv'
    BY <1>1, <1>5, LeaveRun DEF DiscardEnd
  <2> QED BY <1>5, <2>1 DEF DiscardEnd, TypeOK, FiniteState, RunInv
<1>6. CASE DiscardBlocked(r)
  <2>1. RunInv'
    BY <1>1, <1>6, LeaveRun DEF DiscardBlocked
  <2> QED
    BY <1>2, <1>6, <2>1 DEF DiscardBlocked, ClearTemporaryFiles, TypeOK, FiniteState, RunInv
<1> QED BY <1>3, <1>4, <1>5, <1>6 DEF DiscardStep

\* The next-state relation preserves the types.
LEMMA NextTypeInv ==
  ASSUME TypeInv, [Next]_vars
  PROVE  TypeInv'
<1> USE DEF runtimeVars, hookVars, spoolVars, rowVars, storeVars, historyVars
<1>1. RunInv
  BY DEF TypeInv, RunInv, TypeOK, FiniteState
<1>2. ASSUME NEW r \in Recoverer, RecoverBegin(r) PROVE TypeInv'
  <2>1. LocalInv(Fresh("next", directories))
    BY FreshLocal DEF TypeInv, TypeOK
  <2>2. RunInv'
    BY <1>1, <1>2, <2>1, RunUpdate DEF RecoverBegin
  <2> QED BY <1>2, <2>2 DEF RecoverBegin, TypeInv, TypeOK, FiniteState, RunInv
<1>3. ASSUME NEW r \in Recoverer, RecoverEnd(r) PROVE TypeInv'
  <2>1. RunInv'
    BY <1>1, <1>3, LeaveRun DEF RecoverEnd
  <2> QED BY <1>3, <2>1 DEF RecoverEnd, TypeInv, TypeOK, FiniteState, RunInv
<1>4. ASSUME NEW r \in Recoverer, RecoverDie(r) PROVE TypeInv'
  <2>1. RunInv'
    BY <1>1, <1>4, LeaveRun DEF RecoverDie
  <2> QED BY <1>4, <2>1 DEF RecoverDie, TypeInv, TypeOK, FiniteState, RunInv
<1>5. CASE UNCHANGED vars
  <2>1. RunInv'
    BY <1>1, <1>5, RunKept DEF vars
  <2> QED BY <1>5, <2>1 DEF vars, TypeInv, TypeOK, FiniteState, RunInv
<1> QED
  BY <1>2, <1>3, <1>4, <1>5, WorldTypeInv, HookTypeInv, ReadTypeInv, FinalizeTypeInv,
     DiscardTypeInv DEF Next, RecoverStep

\* Every variable holds what the code can put there, for any number of hooks,
\* recover processes, sessions and repositories.
THEOREM TypeCorrect == Spec => []TypeOK
<1>1. Spec => []TypeInv
  BY InitTypeInv, NextTypeInv, PTL DEF Spec
<1>2. TypeInv => TypeOK
  BY DEF TypeInv
<1> QED BY <1>1, <1>2, PTL

-----------------------------------------------------------------------------
(* What every behaviour keeps.                                             *)
ProcessInv(r) == Established(r) /\ CursorCovered(r) /\ DiscardJustified(r)

RowInv == CompleteOnly /\ SequencesDense /\ TrajectoryCovered /\ ParentsStored

\* The position of a segment is below the number of accepted segments.
LEMMA PositionBelow ==
  ASSUME NEW A \in SUBSET Segment, IsFiniteSet(A), NEW x \in A
  PROVE  Position(A, x) \in 0 .. Cardinality(A) - 1
<1> DEFINE before == {y \in A : Before(y, x)}
<1>1. ~Before(x, x)
  BY DigestAssumption DEF Before, Segment
<1>2. before \subseteq A \ {x}
  BY <1>1
<1>3. IsFiniteSet(A \ {x}) /\ Cardinality(A \ {x}) = Cardinality(A) - 1
  BY FS_RemoveElement
<1>4. IsFiniteSet(before) /\ Cardinality(before) <= Cardinality(A) - 1
  BY <1>2, <1>3, FS_Subset
<1>5. Cardinality(before) \in Nat /\ Cardinality(A) \in Nat
  BY <1>4, FS_CardinalityType
<1> QED BY <1>4, <1>5 DEF Position

-----------------------------------------------------------------------------
(* The rows of the database only grow.                                     *)
RowsKept ==
  /\ repositories \subseteq repositories'
  /\ events \subseteq events'
  /\ \A sid \in SessionId :
       /\ sessions[sid] # Nothing => sessions'[sid] = sessions[sid]
       /\ Stored(sid) => trajectories'[sid] = trajectories[sid]

\* Rows are added to the database and never changed or removed.
LEMMA RowsOnlyGrow ==
  ASSUME TypeInv, [Next]_vars
  PROVE  RowsKept
<1> USE DEF runtimeVars, hookVars, spoolVars, rowVars, storeVars, historyVars
<1>1. CASE UNCHANGED <<repositories, events, sessions, trajectories>>
  BY <1>1 DEF RowsKept, Stored
<1>2. ASSUME NEW r \in Recoverer, PutRepository(r) PROVE RowsKept
  BY <1>2 DEF PutRepository, RowsKept, Stored
<1>3. ASSUME NEW r \in Recoverer, PutSession(r) PROVE RowsKept
  BY <1>3 DEF PutSession, RowsKept, Stored, TypeInv, TypeOK
<1>4. ASSUME NEW r \in Recoverer, NEW x \in Aggregate(r), WriteEvent(r, x) PROVE RowsKept
  BY <1>4 DEF WriteEvent, RowsKept, Stored
<1>5. ASSUME NEW r \in Recoverer, PutTrajectory(r) PROVE RowsKept
  BY <1>5 DEF PutTrajectory, RowsKept, Stored, TypeInv, TypeOK
<1>6. CASE World
  BY <1>1, <1>6 DEF World, HookBegin, HookRefuse, HookDie, Damage, Commit
<1>7. ASSUME NEW h \in Hook, HookStep(h) PROVE RowsKept
  BY <1>1, <1>7 DEF HookStep, HookPublish, HookFault
<1>8. ASSUME NEW r \in Recoverer, ReadStep(r) PROVE RowsKept
  BY <1>1, <1>8 DEF ReadStep, ListSegments, ReadIntact, ReadDamaged, ReadMissing,
       AggregateEmpty, AggregateTooLarge, RecordOversize, SkipOutside, Discover,
       DrainResidue, LeavePending
<1>9. ASSUME NEW r \in Recoverer, FinalizeStep(r) PROVE RowsKept
  BY <1>1, <1>2, <1>3, <1>4, <1>5, <1>9 DEF FinalizeStep, EnsureRepository, CheckExisting,
       WriteSession, ListEvents, SkipEvent, RecordQuarantined, RecordDuplicates,
       ListStoredEvents, PutMetrics
<1>10. ASSUME NEW r \in Recoverer, DiscardStep(r) PROVE RowsKept
  BY <1>1, <1>10 DEF DiscardStep, DiscardSegment, DiscardTemporary, DiscardEnd,
       DiscardBlocked
<1>11. ASSUME NEW r \in Recoverer, RecoverBegin(r) \/ RecoverEnd(r) \/ RecoverDie(r)
       PROVE RowsKept
  BY <1>1, <1>11 DEF RecoverBegin, RecoverEnd, RecoverDie
<1>12. CASE UNCHANGED vars
  BY <1>1, <1>12 DEF vars
<1> QED BY <1>6, <1>7, <1>8, <1>9, <1>10, <1>11, <1>12 DEF Next, RecoverStep

\* A stored trajectory, session or row stays.
LEMMA KeptRows ==
  ASSUME TypeInv, RowsKept
  PROVE  /\ \A sid \in SessionId : Stored(sid) => Stored(sid)'
         /\ \A sid \in SessionId : sessions[sid] # Nothing => sessions'[sid] # Nothing
         /\ \A sid : StoredEvents(sid) \subseteq StoredEvents(sid)'
BY DEF RowsKept, Stored, StoredEvents

\* Rows are written once: sessions, events and trajectories never change.
THEOREM WrittenOnce == Spec => RowsWrittenOnce
<1>1. Spec => []TypeInv
  BY InitTypeInv, NextTypeInv, PTL DEF Spec
<1>2. TypeInv /\ [Next]_vars => RowsKept
  BY RowsOnlyGrow
<1>3. RowsKept =>
        /\ events \subseteq events'
        /\ \A sid \in SessionId :
             /\ sessions[sid] # Nothing => sessions'[sid] = sessions[sid]
             /\ Stored(sid) => trajectories'[sid] = trajectories[sid]
  BY DEF RowsKept
<1> QED BY <1>1, <1>2, <1>3, PTL DEF Spec, RowsWrittenOnce

\* What a process has established survives a step that leaves its memory alone.
LEMMA ProcessKept ==
  ASSUME TypeInv, RowsKept, NEW r \in Recoverer, ProcessInv(r), run'[r] = run[r]
  PROVE  ProcessInv(r)'
<1>1. Aggregate(r)' = Aggregate(r) /\ Sid(r)' = Sid(r)
  BY DEF Aggregate, Sid
<1>2. Past(r, Identified \cup {"discard"}) => run[r].session \in Session
  BY DEF TypeInv, Located, Past, Identified
<1>3. Past(r, Identified) => Sid(r) \in SessionId
  BY <1>2 DEF TypeInv, Located, Past, Identified, Sid, SessionId
<1>4. Established(r)'
  BY <1>1, <1>3, KeptRows DEF ProcessInv, Established, Past, Identified, RowsKept
<1>5. CursorCovered(r)'
  BY <1>1, KeptRows DEF ProcessInv, CursorCovered, Past
<1>6. run[r].identity \in [repository : Repository, head : Nat] /\ Past(r, {"discard"}) =>
        Sid(r) \in SessionId
  BY <1>2 DEF Past, Sid, SessionId
<1>7. DiscardJustified(r)'
  BY <1>1, <1>6, KeptRows DEF ProcessInv, DiscardJustified, Past
<1> QED BY <1>4, <1>5, <1>7 DEF ProcessInv

\* A process at a label that asks for nothing satisfies ProcessInv.
LEMMA ProcessFree ==
  ASSUME NEW r \in Recoverer, run[r].pc \in {"idle", "next", "read", "oversize", "open"}
  PROVE  ProcessInv(r)
BY DEF ProcessInv, Established, CursorCovered, DiscardJustified, Past

\* Going on and ending the run lead to such a label.
LEMMA ProcessLeaves ==
  ASSUME TypeInv, NEW r \in Recoverer, Leave(r) \/ EndRun(r)
  PROVE  ProcessInv(r)'
<1>1. run'[r].pc \in {"idle", "next"}
  BY DEF Leave, EndRun, Fresh, Idle, TypeInv, TypeOK
<1> QED BY <1>1 DEF ProcessInv, Established, CursorCovered, DiscardJustified, Past

\* The steps up to the decision what to do with the session.
LEMMA ReadProcess ==
  ASSUME TypeInv, NEW r \in Recoverer, ReadStep(r)
  PROVE  ProcessInv(r)'
<1> USE DEF At
<1>0. run \in [Recoverer -> RunType]
  BY DEF TypeInv, TypeOK
<1>1. ASSUME run'[r].pc \in {"read", "oversize", "open"} PROVE ProcessInv(r)'
  BY <1>1 DEF ProcessInv, Established, CursorCovered, DiscardJustified, Past
<1>2. ASSUME NEW s \in Session, ListSegments(r, s) PROVE ProcessInv(r)'
  BY <1>0, <1>1, <1>2 DEF ListSegments, RunType
<1>3. ASSUME NEW f \in run[r].unread, ReadIntact(r, f) \/ ReadDamaged(r, f) PROVE ProcessInv(r)'
  BY <1>0, <1>1, <1>3 DEF ReadIntact, ReadDamaged, RunType
<1>4. ASSUME NEW f \in run[r].unread, ReadMissing(r, f) PROVE ProcessInv(r)'
  BY <1>4, ProcessLeaves DEF ReadMissing
<1>5. CASE AggregateEmpty(r)
  <2>1. run'[r].pc = "discard" /\ run'[r].verified = run[r].verified
    BY <1>0, <1>5 DEF AggregateEmpty, GoTo, RunType
  <2>2. Aggregate(r)' = {}
    BY <1>5, <2>1 DEF AggregateEmpty, Aggregate
  <2> QED BY <2>1, <2>2 DEF ProcessInv, Established, CursorCovered, DiscardJustified, Past
<1>6. CASE AggregateTooLarge(r)
  BY <1>0, <1>1, <1>6, ProcessLeaves DEF AggregateTooLarge, GoTo, RunType
<1>7. CASE RecordOversize(r) \/ SkipOutside(r) \/ LeavePending(r)
  BY <1>7, ProcessLeaves DEF RecordOversize, SkipOutside, LeavePending
<1>8. CASE Discover(r)
  <2>1. /\ run'[r].verified = run[r].verified
        /\ run'[r].pc = IF Complete(Aggregate(r)) THEN "finalize" ELSE "open"
    BY <1>0, <1>8 DEF Discover, RunType
  <2>2. Aggregate(r)' = Aggregate(r)
    BY <2>1 DEF Aggregate
  <2>3. Complete(Aggregate(r)') <=> Complete(Aggregate(r))
    BY <2>2
  <2> QED BY <1>1, <2>1, <2>3 DEF ProcessInv, Established, CursorCovered, DiscardJustified, Past
<1>9. CASE DrainResidue(r)
  <2>1. /\ run'[r].pc = "discard"
        /\ run'[r].identity = run[r].identity
        /\ run'[r].session = run[r].session
        /\ trajectories' = trajectories
    BY <1>0, <1>9 DEF DrainResidue, GoTo, RunType, storeVars, rowVars
  <2>2. Sid(r)' = Sid(r) /\ Stored(Sid(r))'
    BY <1>9, <2>1 DEF DrainResidue, Sid, Stored
  <2>3. run[r].identity \in [repository : Repository, head : Nat]
    BY <1>9 DEF DrainResidue, TypeInv, Located, Past, Identified
  <2> QED BY <2>1, <2>2, <2>3 DEF ProcessInv, Established, CursorCovered, DiscardJustified, Past
<1> QED BY <1>2, <1>3, <1>4, <1>5, <1>6, <1>7, <1>8, <1>9 DEF ReadStep

\* The identifiers of a trajectory.
LEMMA EventIdsType ==
  ASSUME TypeInv, NEW r \in Recoverer, Sid(r) \in SessionId
  PROVE  EventIds(r) \in SUBSET EventIdType
<1>1. /\ Aggregate(r) \in SUBSET Segment
      /\ IsFiniteSet(run[r].verified)
  BY DEF Aggregate, Accepted, TypeInv, TypeOK, RunType, FiniteState
<1> QED BY <1>1, AcceptedFinite DEF EventIds, EventId, EventIdType, Aggregate, Segment

\* The steps of finalize.
LEMMA FinalizeProcess ==
  ASSUME TypeInv, ParentsStored, RowsKept, NEW r \in Recoverer, ProcessInv(r), FinalizeStep(r)
  PROVE  ProcessInv(r)'
<1> USE DEF At
<1>0. run \in [Recoverer -> RunType]
  BY DEF TypeInv, TypeOK
<1>1. Past(r, Identified)
  BY DEF FinalizeStep, EnsureRepository, PutRepository, CheckExisting, WriteSession,
         PutSession, ListEvents, SkipEvent, WriteEvent, PutTrajectory, RecordQuarantined,
         RecordDuplicates, ListStoredEvents, PutMetrics, Past, Identified
<1>2. /\ Sid(r) \in SessionId
      /\ run[r].identity \in [repository : Repository, head : Nat]
  BY <1>1 DEF Past, Identified, TypeInv, Located, Sid, SessionId
<1> DEFINE Same == /\ run'[r].verified = run[r].verified
                   /\ run'[r].session = run[r].session
                   /\ run'[r].identity = run[r].identity
<1>3. ASSUME Same
      PROVE  /\ Aggregate(r)' = Aggregate(r)
             /\ Sid(r)' = Sid(r)
             /\ Stored(Sid(r)) => Stored(Sid(r))'
             /\ sessions[Sid(r)] # Nothing => sessions'[Sid(r)'] # Nothing
             /\ StoredEvents(Sid(r)) \subseteq StoredEvents(Sid(r))'
  <2>1. Aggregate(r)' = Aggregate(r) /\ Sid(r)' = Sid(r)
    BY <1>3 DEF Aggregate, Sid
  <2> QED BY <1>2, <2>1, KeptRows DEF Stored, StoredEvents
<1>4. CASE EnsureRepository(r)
  <2>1. /\ Same
        /\ run[r].pc = "finalize"
        /\ run'[r].pc = IF run[r].identity.repository \in repositories
                        THEN "existing" ELSE "repository"
    BY <1>0, <1>4 DEF EnsureRepository, GoTo, RunType
  <2>2. run[r].identity.repository \in repositories =>
          run'[r].identity.repository \in repositories'
    BY <2>1 DEF RowsKept
  <2>3. Complete(Aggregate(r))'
    BY <1>3, <2>1 DEF ProcessInv, Established, Past, Complete
  <2> QED BY <2>1, <2>2, <2>3 DEF ProcessInv, Established, CursorCovered, DiscardJustified, Past
<1>4a. CASE PutRepository(r)
  <2>1. CASE EndRun(r)
    BY <2>1, ProcessLeaves
  <2>2. CASE GoTo(r, "existing") /\ run[r].identity.repository \in repositories'
    <3>1. Same /\ run[r].pc = "repository" /\ run'[r].pc = "existing"
      BY <1>0, <1>4a, <2>2 DEF PutRepository, GoTo, RunType
    <3>2. Complete(Aggregate(r))'
      BY <1>3, <3>1 DEF ProcessInv, Established, Past, Complete
    <3> QED BY <2>2, <3>1, <3>2
            DEF ProcessInv, Established, CursorCovered, DiscardJustified, Past
  <2> QED BY <1>4a, <2>1, <2>2 DEF PutRepository
<1>5. CASE CheckExisting(r)
  <2>1. /\ Same
        /\ run[r].pc = "existing"
        /\ run'[r].pc = IF Stored(Sid(r)) THEN "metrics" ELSE "session"
    BY <1>0, <1>5 DEF CheckExisting, GoTo, RunType
  <2>2. Complete(Aggregate(r))' /\ run'[r].identity.repository \in repositories'
    BY <1>3, <2>1 DEF ProcessInv, Established, Past, Complete, RowsKept
  <2>3. Stored(Sid(r)) => Stored(Sid(r))' /\ sessions'[Sid(r)'] # Nothing
    BY <1>2, <1>3, <2>1 DEF ParentsStored
  <2> QED BY <2>1, <2>2, <2>3 DEF ProcessInv, Established, CursorCovered, DiscardJustified, Past
<1>6. CASE WriteSession(r)
  <2>1. /\ Same
        /\ run[r].pc = "session"
        /\ run'[r].pc = IF sessions[Sid(r)] # Nothing THEN "list" ELSE "put session"
    BY <1>0, <1>6 DEF WriteSession, GoTo, RunType
  <2>2. Complete(Aggregate(r))' /\ run'[r].identity.repository \in repositories'
    BY <1>3, <2>1 DEF ProcessInv, Established, Past, Complete, RowsKept
  <2>3. sessions[Sid(r)] # Nothing => sessions'[Sid(r)'] # Nothing
    BY <1>3, <2>1
  <2> QED BY <2>1, <2>2, <2>3 DEF ProcessInv, Established, CursorCovered, DiscardJustified, Past
<1>6a. CASE PutSession(r)
  <2>1. CASE EndRun(r)
    BY <2>1, ProcessLeaves
  <2>2. CASE /\ GoTo(r, "list")
             /\ sessions' = [sessions EXCEPT ![Sid(r)] = run[r].identity.head]
    <3>1. Same /\ run[r].pc = "put session" /\ run'[r].pc = "list"
      BY <1>0, <1>6a, <2>2 DEF PutSession, GoTo, RunType
    <3>2. Complete(Aggregate(r))' /\ run'[r].identity.repository \in repositories'
      BY <1>3, <3>1 DEF ProcessInv, Established, Past, Complete, RowsKept
    <3>3. sessions'[Sid(r)] # Nothing
      BY <1>2, <2>2, RecorderAssumption DEF TypeInv, TypeOK
    <3>4. sessions'[Sid(r)'] # Nothing
      BY <1>3, <3>1, <3>3
    <3> QED BY <3>1, <3>2, <3>4
            DEF ProcessInv, Established, CursorCovered, DiscardJustified, Past
  <2> QED BY <1>6a, <2>1, <2>2 DEF PutSession
<1>7. CASE ListEvents(r)
  <2>1. /\ Same
        /\ run[r].pc = "list" /\ run'[r].pc = "events"
        /\ run'[r].cursor = 0
        /\ run'[r].known = {e.id.sequence : e \in StoredEvents(Sid(r))}
    BY <1>0, <1>7 DEF ListEvents, RunType
  <2>2. Complete(Aggregate(r))' /\ run'[r].identity.repository \in repositories'
    BY <1>3, <2>1 DEF ProcessInv, Established, Past, Complete, RowsKept
  <2>3. sessions'[Sid(r)'] # Nothing
    BY <1>3, <2>1 DEF ProcessInv, Established, Past
  <2>4. CursorCovered(r)'
    BY <1>3, <2>1 DEF CursorCovered
  <2> QED BY <2>1, <2>2, <2>3, <2>4 DEF ProcessInv, Established, DiscardJustified, Past
<1>8. ASSUME NEW x \in Aggregate(r), SkipEvent(r, x) \/ WriteEvent(r, x)
      PROVE  ProcessInv(r)'
  <2>1. CASE EndRun(r)
    BY <2>1, ProcessLeaves
  <2>2. CASE run' = [run EXCEPT ![r].cursor = @ + 1]
    <3>1. /\ Same
          /\ run[r].pc = "events" /\ run'[r].pc = "events"
          /\ run'[r].cursor = run[r].cursor + 1
          /\ run'[r].known = run[r].known
          /\ run[r].cursor \in Nat
      BY <1>0, <1>8, <2>2 DEF SkipEvent, WriteEvent, RunType
    <3>2. Complete(Aggregate(r))' /\ run'[r].identity.repository \in repositories'
      BY <1>3, <3>1 DEF ProcessInv, Established, Past, Complete, RowsKept
    <3>3. sessions'[Sid(r)'] # Nothing
      BY <1>3, <3>1 DEF ProcessInv, Established, Past
    <3>4. \E e \in StoredEvents(Sid(r))' : e.id.sequence = run[r].cursor
      <4>1. CASE SkipEvent(r, x)
        BY <1>3, <3>1, <4>1 DEF SkipEvent, ProcessInv, CursorCovered, Past
      <4>2. CASE WriteEvent(r, x)
        <5> DEFINE row == [id |-> EventId(Sid(r), run[r].cursor, x.payload), at |-> x.at]
        <5>1. CASE \E e \in StoredEvents(Sid(r)) : e.id.sequence = run[r].cursor
          BY <1>3, <3>1, <5>1
        <5>2. CASE row \in events'
          <6>1. row.id.session = Sid(r) /\ row.id.sequence = run[r].cursor
            BY DEF EventId
          <6>2. row \in StoredEvents(Sid(r))'
            BY <1>3, <3>1, <5>2, <6>1 DEF StoredEvents
          <6> QED BY <6>1, <6>2
        <5> QED BY <4>2, <5>1, <5>2 DEF WriteEvent
      <4> QED BY <1>8, <4>1, <4>2
    <3>5. CursorCovered(r)'
      <4>1. \A k \in run[r].known : \E e \in StoredEvents(Sid(r))' : e.id.sequence = k
        BY <1>3, <3>1 DEF ProcessInv, CursorCovered, Past
      <4>2. \A k \in 0 .. run[r].cursor - 1 : \E e \in StoredEvents(Sid(r))' : e.id.sequence = k
        BY <1>3, <3>1 DEF ProcessInv, CursorCovered, Past
      <4>3. \A k \in 0 .. run[r].cursor : k = run[r].cursor \/ k \in 0 .. run[r].cursor - 1
        BY <3>1
      <4> QED BY <3>1, <3>4, <4>1, <4>2, <4>3 DEF CursorCovered
    <3> QED BY <3>1, <3>2, <3>3, <3>5 DEF ProcessInv, Established, DiscardJustified, Past
  <2> QED BY <1>8, <2>1, <2>2 DEF SkipEvent, WriteEvent
<1>9. CASE PutTrajectory(r)
  <2>1. CASE EndRun(r)
    BY <2>1, ProcessLeaves
  <2>2. CASE ~Stored(Sid(r))
    <3>1. Same /\ run[r].pc = "events" /\ run'[r].pc = "health"
      BY <1>0, <1>9, <2>2 DEF PutTrajectory, RunType
    <3>2. Complete(Aggregate(r))' /\ run'[r].identity.repository \in repositories'
      BY <1>3, <3>1 DEF ProcessInv, Established, Past, Complete, RowsKept
    <3>3. sessions'[Sid(r)'] # Nothing
      BY <1>3, <3>1 DEF ProcessInv, Established, Past
    <3>4. Stored(Sid(r))'
      <4>1. TypeInv'
        BY FinalizeTypeInv
      <4>2. trajectories'[Sid(r)] = [events |-> EventIds(r), head |-> run[r].identity.head]
        BY <1>2, <1>9, <2>2 DEF PutTrajectory, TypeInv, TypeOK
      <4>3. trajectories'[Sid(r)] # Nothing
        BY <1>2, <4>1, <4>2, EventIdsType, RecorderAssumption DEF TrajectoryType
      <4> QED BY <1>3, <3>1, <4>3 DEF Stored
    <3> QED BY <3>1, <3>2, <3>3, <3>4
            DEF ProcessInv, Established, CursorCovered, DiscardJustified, Past
  <2> QED BY <1>9, <2>1, <2>2 DEF PutTrajectory
<1>10. CASE RecordQuarantined(r) \/ RecordDuplicates(r) \/ ListStoredEvents(r) \/ PutMetrics(r)
  <2>1. /\ Same
        /\ run[r].pc \in {"health", "metrics", "put metrics"}
        /\ run'[r].pc \in {"health", "metrics", "put metrics", "discard"}
    <3>1. CASE RecordQuarantined(r)
      BY <1>0, <3>1 DEF RecordQuarantined, RunType
    <3>2. CASE RecordDuplicates(r) \/ PutMetrics(r)
      <4>1. GoTo(r, "metrics") \/ GoTo(r, "discard")
        BY <3>2 DEF RecordDuplicates, PutMetrics
      <4>2. run[r].pc \in {"health", "put metrics"}
        BY <3>2 DEF RecordDuplicates, PutMetrics
      <4> QED BY <1>0, <4>1, <4>2 DEF GoTo, RunType
    <3>3. CASE ListStoredEvents(r)
      BY <1>0, <3>3 DEF ListStoredEvents, RunType
    <3> QED BY <1>10, <3>1, <3>2, <3>3
  <2>2. Complete(Aggregate(r))' /\ run'[r].identity.repository \in repositories'
    BY <1>3, <2>1 DEF ProcessInv, Established, Past, Complete, RowsKept
  <2>3. sessions'[Sid(r)'] # Nothing /\ Stored(Sid(r))'
    BY <1>3, <2>1 DEF ProcessInv, Established, Past
  <2> QED BY <1>2, <2>1, <2>2, <2>3
          DEF ProcessInv, Established, CursorCovered, DiscardJustified, Past
<1> QED BY <1>4, <1>4a, <1>5, <1>6, <1>6a, <1>7, <1>8, <1>9, <1>10 DEF FinalizeStep

\* Every step keeps what every process has established.
LEMMA AllProcesses ==
  ASSUME TypeInv, ParentsStored, \A r \in Recoverer : ProcessInv(r), [Next]_vars,
         NEW r \in Recoverer
  PROVE  ProcessInv(r)'
<1>1. RowsKept
  BY RowsOnlyGrow
<1>2. CASE run'[r] = run[r]
  BY <1>1, <1>2, ProcessKept
<1>3. ASSUME NEW q \in Recoverer, RecoverBegin(q) \/ RecoverStep(q) \/ RecoverDie(q)
      PROVE  ProcessInv(r)'
  <2>1. CASE q # r
    <3>1. run'[r] = run[r]
      BY <1>3, <2>1 DEF RecoverBegin, RecoverDie, RecoverStep, RecoverEnd, ReadStep,
         ListSegments, ReadIntact, ReadDamaged, ReadMissing, AggregateEmpty, AggregateTooLarge,
         RecordOversize, SkipOutside, Discover, DrainResidue, LeavePending, FinalizeStep,
         EnsureRepository, PutRepository, CheckExisting, WriteSession, PutSession, ListEvents,
         SkipEvent, WriteEvent, PutTrajectory, RecordQuarantined, RecordDuplicates,
         ListStoredEvents, PutMetrics, DiscardStep,
         DiscardSegment, DiscardTemporary, DiscardEnd, DiscardBlocked, Leave, EndRun, GoTo,
         TypeInv, TypeOK
    <3> QED BY <1>1, <3>1, ProcessKept
  <2>2. CASE q = r /\ RecoverBegin(r)
    <3>1. run'[r].pc = "next"
      BY <2>2 DEF RecoverBegin, Fresh, TypeInv, TypeOK
    <3> QED BY <3>1 DEF ProcessInv, Established, CursorCovered, DiscardJustified, Past
  <2>3. CASE q = r /\ ReadStep(r)
    BY <2>3, ReadProcess
  <2>4. CASE q = r /\ FinalizeStep(r)
    BY <1>1, <2>4, FinalizeProcess
  <2>5. CASE q = r /\ DiscardStep(r)
    <3>1. CASE DiscardEnd(r) \/ DiscardBlocked(r)
      BY <3>1, ProcessLeaves DEF DiscardEnd, DiscardBlocked
    <3>2. CASE run' = run
      BY <1>1, <3>2, ProcessKept
    <3> QED BY <2>5, <3>1, <3>2 DEF DiscardStep, DiscardSegment, DiscardTemporary
  <2>6. CASE q = r /\ (RecoverEnd(r) \/ RecoverDie(r))
    BY <2>6, ProcessLeaves DEF RecoverEnd, RecoverDie
  <2> QED BY <1>3, <2>1, <2>2, <2>3, <2>4, <2>5, <2>6 DEF RecoverStep
<1>4. CASE World \/ (\E h \in Hook : HookStep(h)) \/ UNCHANGED vars
  <2>1. run' = run
    BY <1>4 DEF World, HookBegin, HookRefuse, HookDie, Damage, Commit, HookStep, HookPublish,
       HookFault, vars
  <2> QED BY <1>1, <2>1, ProcessKept
<1> QED BY <1>3, <1>4 DEF Next

-----------------------------------------------------------------------------
(* The rows themselves: four actions insert into the tables.               *)

\* A step that inserts no session, event or trajectory keeps RowInv, whatever
\* it does to the metrics, which are only written for stored trajectories.
LEMMA OtherRows ==
  ASSUME TypeInv, RowInv, RowsKept,
         UNCHANGED <<sessions, events, trajectories>>,
         \A sid \in SessionId : metrics'[sid] # Nothing => metrics[sid] # Nothing \/ Stored(sid)
  PROVE  RowInv'
<1>1. \A sid : /\ Stored(sid)' <=> Stored(sid)
               /\ StoredEvents(sid)' = StoredEvents(sid)
  BY DEF Stored, StoredEvents
<1>2. CompleteOnly'
  BY <1>1 DEF RowInv, CompleteOnly
<1>3. SequencesDense'
  BY <1>1 DEF RowInv, SequencesDense
<1>4. TrajectoryCovered'
  BY <1>1 DEF RowInv, TrajectoryCovered
<1>5. ParentsStored'
  BY <1>1 DEF RowInv, ParentsStored, RowsKept
<1> QED BY <1>2, <1>3, <1>4, <1>5 DEF RowInv

\* What inserting a session does to the invariants of the rows.
LEMMA PutSessionRows ==
  ASSUME TypeInv, RowInv, RowsKept, NEW r \in Recoverer, ProcessInv(r), PutSession(r)
  PROVE  RowInv'
<1> USE DEF rowVars, storeVars, At
<1>1. UNCHANGED <<repositories, events, trajectories, metrics>>
  BY DEF PutSession
<1>2. \A sid : /\ Stored(sid)' <=> Stored(sid)
               /\ StoredEvents(sid)' = StoredEvents(sid)
  BY <1>1 DEF Stored, StoredEvents
<1>3. CompleteOnly' /\ SequencesDense' /\ TrajectoryCovered'
  BY <1>1, <1>2 DEF RowInv, CompleteOnly, SequencesDense, TrajectoryCovered
<1>4. \A sid \in SessionId : sessions[sid] # Nothing => sessions'[sid] # Nothing
  BY DEF RowsKept
<1>5. run[r].session \in Session /\ run[r].identity.repository \in Repository
  BY DEF PutSession, TypeInv, Located, Past, Identified
<1>6. \A sid \in SessionId : sessions'[sid] # Nothing => sid[1] \in repositories
  <2>1. Sid(r)[1] = run[r].identity.repository
    BY DEF Sid
  <2>2. run[r].identity.repository \in repositories
    BY DEF PutSession, ProcessInv, Established, Past
  <2>3. \A sid \in SessionId : sid # Sid(r) => sessions'[sid] = sessions[sid]
    BY DEF PutSession, TypeInv, TypeOK
  <2> QED BY <2>1, <2>2, <2>3 DEF RowInv, ParentsStored
<1>7. \A e \in events : e.id.session \in SessionId
  BY DEF TypeInv, TypeOK, EventIdType
<1>8. ParentsStored'
  BY <1>1, <1>2, <1>4, <1>6, <1>7 DEF RowInv, ParentsStored
<1> QED BY <1>3, <1>8 DEF RowInv

\* What inserting an event does to the invariants of the rows: the cursor is
\* the first number without a row.
LEMMA WriteEventRows ==
  ASSUME TypeInv, RowInv, RowsKept, NEW r \in Recoverer, ProcessInv(r),
         NEW x \in Aggregate(r), WriteEvent(r, x)
  PROVE  RowInv'
<1> USE DEF rowVars, storeVars, At
<1> DEFINE row == [id |-> EventId(Sid(r), run[r].cursor, x.payload), at |-> x.at]
<1>1. UNCHANGED <<repositories, sessions, trajectories, metrics>>
  BY DEF WriteEvent
<1>2. CASE events' = events
  BY <1>1, <1>2, OtherRows
<1>3. CASE /\ events' = events \cup {row}
           /\ ~ \E e \in StoredEvents(Sid(r)) : e.id.sequence = run[r].cursor
  <2>1. row.id.session = Sid(r) /\ row.id.sequence = run[r].cursor
    BY DEF EventId
  <2> HIDE DEF row
  <2>2. run[r].cursor \in Nat
    BY DEF TypeInv, TypeOK, RunType
  <2>3. \A sid : /\ Stored(sid)' <=> Stored(sid)
                 /\ StoredEvents(sid) \subseteq StoredEvents(sid)'
    BY <1>1, <1>3 DEF Stored, StoredEvents
  <2>0. PICK sid : sid = Sid(r)
    OBVIOUS
  <2>4. row \in StoredEvents(sid)'
    BY <1>3, <2>1, <2>0 DEF StoredEvents
  <2>5. CompleteOnly' /\ TrajectoryCovered'
    BY <1>1, <2>3 DEF RowInv, CompleteOnly, TrajectoryCovered
  <2>6. \A e, f \in events' :
          e.id.session = f.id.session /\ e.id.sequence = f.id.sequence => e = f
    <3>1. \A e \in events : ~(e.id.session = row.id.session /\ e.id.sequence = row.id.sequence)
      BY <1>3, <2>1 DEF StoredEvents
    <3> QED BY <1>3, <3>1 DEF RowInv, SequencesDense
  <2>7. ASSUME NEW e \in events', NEW k \in 0 .. e.id.sequence
        PROVE  \E f \in StoredEvents(e.id.session)' : f.id.sequence = k
    <3>1. CASE e \in events
      BY <2>3, <2>7, <3>1 DEF RowInv, SequencesDense
    <3>2. CASE e = row
      <4>1. CASE k = run[r].cursor
        BY <2>1, <2>4, <2>0, <3>2, <4>1
      <4>2. CASE k \in 0 .. run[r].cursor - 1
        <5>1. \E f \in StoredEvents(sid) : f.id.sequence = k
          BY <2>0, <4>2 DEF WriteEvent, ProcessInv, CursorCovered, Past
        <5> QED BY <2>1, <2>3, <2>0, <3>2, <5>1
      <4> QED BY <2>1, <2>2, <2>7, <3>2, <4>1, <4>2
    <3> QED BY <1>3, <3>1, <3>2
  <2>8. SequencesDense'
    BY <2>6, <2>7 DEF SequencesDense
  <2>9. sessions[Sid(r)] # Nothing
    BY DEF WriteEvent, ProcessInv, Established, Past
  <2>10. ParentsStored'
    BY <1>1, <1>3, <2>1, <2>3, <2>9 DEF RowInv, ParentsStored
  <2> QED BY <2>5, <2>8, <2>10 DEF RowInv
<1> QED BY <1>2, <1>3 DEF WriteEvent

\* What inserting a trajectory does: every position before the cursor has a row.
LEMMA PutTrajectoryRows ==
  ASSUME TypeInv, RowInv, RowsKept, NEW r \in Recoverer, ProcessInv(r), PutTrajectory(r)
  PROVE  RowInv'
<1> USE DEF rowVars, storeVars, At
<1> DEFINE row == [events |-> EventIds(r), head |-> run[r].identity.head]
           sid0 == Sid(r)
<1>1. UNCHANGED <<repositories, sessions, events, metrics>>
  BY DEF PutTrajectory
<1>2. CASE trajectories' = trajectories
  BY <1>1, <1>2, OtherRows
<1>3. CASE trajectories' = [trajectories EXCEPT ![sid0] = row]
  <2>1. run[r].session \in Session /\ run[r].identity \in [repository : Repository, head : Nat]
    BY DEF PutTrajectory, TypeInv, Located, Past, Identified
  <2>2. sid0 \in SessionId
    BY <2>1 DEF Sid, SessionId
  <2>3. /\ trajectories'[sid0].events = EventIds(r)
        /\ \A sid \in SessionId : sid # sid0 => trajectories'[sid] = trajectories[sid]
    BY <1>3, <2>2 DEF TypeInv, TypeOK
  <2>4. /\ Aggregate(r) \in SUBSET Segment
        /\ IsFiniteSet(Aggregate(r))
    BY AcceptedFinite DEF Aggregate, Accepted, TypeInv, TypeOK, RunType, FiniteState
  <2>5. /\ run[r].cursor = Cardinality(Aggregate(r))
        /\ Complete(Aggregate(r))
        /\ \A k \in 0 .. run[r].cursor - 1 :
             \E e \in StoredEvents(sid0) : e.id.sequence = k
        /\ sessions[sid0] # Nothing
    BY DEF PutTrajectory, ProcessInv, Established, CursorCovered, Past
  <2> HIDE DEF sid0
  <2>6. \E id \in EventIds(r) : id.payload \in SessionEnds
    <3>1. PICK x \in Aggregate(r) : x.payload \in SessionEnds
      BY <2>5 DEF Complete
    <3>2. EventId(Sid(r), Position(Aggregate(r), x), x.payload) \in EventIds(r)
      BY DEF EventIds
    <3> QED BY <3>1, <3>2 DEF EventId
  <2>7. ASSUME NEW id \in EventIds(r)
        PROVE  \E e \in StoredEvents(sid0) : e.id.sequence = id.sequence
    <3>1. PICK x \in Aggregate(r) : id = EventId(Sid(r), Position(Aggregate(r), x), x.payload)
      BY DEF EventIds
    <3>2. id.sequence = Position(Aggregate(r), x)
      BY <3>1 DEF EventId
    <3>3. Position(Aggregate(r), x) \in 0 .. run[r].cursor - 1
      BY <2>4, <2>5, PositionBelow
    <3> QED BY <2>5, <3>2, <3>3
  <2>8. \A sid : StoredEvents(sid)' = StoredEvents(sid)
    BY <1>1 DEF StoredEvents
  <2>9. CompleteOnly'
    BY <2>3, <2>6 DEF RowInv, CompleteOnly, Stored
  <2>10. SequencesDense'
    BY <1>1, <2>8 DEF RowInv, SequencesDense
  <2>11. TrajectoryCovered'
    BY <2>3, <2>7, <2>8 DEF RowInv, TrajectoryCovered, Stored
  <2>12. ParentsStored'
    <3>1. \A sid \in SessionId : Stored(sid)' => Stored(sid) \/ sid = sid0
      BY <2>3 DEF Stored
    <3>2. \A sid \in SessionId : Stored(sid) => Stored(sid)'
      BY KeptRows
    <3> QED BY <1>1, <2>5, <3>1, <3>2 DEF RowInv, ParentsStored
  <2> QED BY <2>9, <2>10, <2>11, <2>12 DEF RowInv
<1> QED BY <1>2, <1>3 DEF PutTrajectory

\* What inserting metrics does to the invariants of the rows.
LEMMA PutMetricsRows ==
  ASSUME TypeInv, RowInv, RowsKept, NEW r \in Recoverer, ProcessInv(r), PutMetrics(r)
  PROVE  RowInv'
<1> USE DEF rowVars, storeVars, At
<1>1. UNCHANGED <<sessions, events, trajectories>>
  BY DEF PutMetrics
<1>2. Stored(Sid(r))
  BY DEF PutMetrics, ProcessInv, Established, Past
<1>3. \A sid \in SessionId : sid # Sid(r) => metrics'[sid] = metrics[sid]
  BY DEF PutMetrics, TypeInv, TypeOK
<1> QED BY <1>1, <1>2, <1>3, OtherRows

\* Every step keeps the invariants of the rows.
LEMMA RowsStep ==
  ASSUME TypeInv, RowInv, \A r \in Recoverer : ProcessInv(r), [Next]_vars
  PROVE  RowInv'
<1> USE DEF runtimeVars, hookVars, spoolVars, rowVars, storeVars, historyVars
<1>0. RowsKept
  BY RowsOnlyGrow
<1>1. CASE UNCHANGED <<sessions, events, trajectories, metrics>>
  BY <1>0, <1>1, OtherRows
<1>2. CASE World \/ (\E h \in Hook : HookStep(h)) \/ UNCHANGED vars
  BY <1>1, <1>2 DEF World, HookBegin, HookRefuse, HookDie, Damage, Commit, HookStep,
     HookPublish, HookFault, vars
<1>3. ASSUME NEW r \in Recoverer, ReadStep(r) PROVE RowInv'
  BY <1>1, <1>3 DEF ReadStep, ListSegments, ReadIntact, ReadDamaged, ReadMissing,
     AggregateEmpty, AggregateTooLarge, RecordOversize, SkipOutside, Discover,
     DrainResidue, LeavePending
<1>4. ASSUME NEW r \in Recoverer, FinalizeStep(r) PROVE RowInv'
  <2>1. CASE EnsureRepository(r) \/ PutRepository(r) \/ CheckExisting(r) \/ WriteSession(r)
             \/ ListEvents(r) \/ RecordQuarantined(r) \/ RecordDuplicates(r)
             \/ ListStoredEvents(r)
    BY <1>1, <2>1 DEF EnsureRepository, PutRepository, CheckExisting, WriteSession,
       ListEvents, RecordQuarantined, RecordDuplicates, ListStoredEvents
  <2>2. ASSUME NEW x \in Aggregate(r), SkipEvent(r, x) PROVE RowInv'
    BY <1>1, <2>2 DEF SkipEvent
  <2> QED BY <1>0, <1>4, <2>1, <2>2, PutSessionRows, WriteEventRows, PutTrajectoryRows,
             PutMetricsRows DEF FinalizeStep
<1>5. ASSUME NEW r \in Recoverer, DiscardStep(r) PROVE RowInv'
  BY <1>1, <1>5 DEF DiscardStep, DiscardSegment, DiscardTemporary, DiscardEnd,
       DiscardBlocked
<1>6. ASSUME NEW r \in Recoverer, RecoverBegin(r) \/ RecoverEnd(r) \/ RecoverDie(r)
      PROVE  RowInv'
  BY <1>1, <1>6 DEF RecoverBegin, RecoverEnd, RecoverDie
<1> QED BY <1>2, <1>3, <1>4, <1>5, <1>6 DEF Next, RecoverStep

-----------------------------------------------------------------------------
\* The inductive invariant holds initially.
LEMMA InitIInv == Init => IInv
<1> SUFFICES ASSUME Init PROVE IInv OBVIOUS
<1>1. TypeInv
  BY InitTypeInv
<1>2. \A r \in Recoverer : ProcessInv(r)
  BY ProcessFree DEF Init, Idle, Fresh
<1>3. /\ events = {}
      /\ \A sid \in SessionId : ~Stored(sid) /\ sessions[sid] = Nothing /\ metrics[sid] = Nothing
  BY DEF Init, Stored
<1>4. RowInv
  BY <1>3 DEF RowInv, CompleteOnly, SequencesDense, TrajectoryCovered, ParentsStored
<1> QED BY <1>1, <1>2, <1>4 DEF IInv, TypeInv, ProcessInv, RowInv

\* The inductive invariant holds of every behaviour: any number of hooks and
\* recover processes, dying and interleaving anywhere.
THEOREM Inductive == Spec => []IInv
<1>1. IInv /\ [Next]_vars => IInv'
  <2> SUFFICES ASSUME IInv, [Next]_vars PROVE IInv' OBVIOUS
  <2>1. TypeInv /\ RowInv /\ \A r \in Recoverer : ProcessInv(r)
    BY DEF IInv, TypeInv, RowInv, ProcessInv
  <2>2. TypeInv'
    BY <2>1, NextTypeInv
  <2>3. \A r \in Recoverer : ProcessInv(r)'
    BY <2>1, AllProcesses DEF RowInv
  <2>4. RowInv'
    BY <2>1, RowsStep
  <2> QED BY <2>2, <2>3, <2>4 DEF IInv, TypeInv, RowInv, ProcessInv
<1> QED BY InitIInv, <1>1, PTL DEF Spec

\* A trajectory is only ever made of a session that was seen to end.
THEOREM OnlyComplete == Spec => []CompleteOnly
<1>1. IInv => CompleteOnly
  BY DEF IInv
<1> QED BY Inductive, <1>1, PTL

\* The events of a session are numbered without a gap or a second row.
THEOREM DenseSequences == Spec => []SequencesDense
<1>1. IInv => SequencesDense
  BY DEF IInv
<1> QED BY Inductive, <1>1, PTL

\* A stored trajectory has a row for each of its positions.
THEOREM CoveredTrajectories == Spec => []TrajectoryCovered
<1>1. IInv => TrajectoryCovered
  BY DEF IInv
<1> QED BY Inductive, <1>1, PTL

\* No row is ever without its parents.
THEOREM StoredParents == Spec => []ParentsStored
<1>1. IInv => ParentsStored
  BY DEF IInv
<1> QED BY Inductive, <1>1, PTL

\* The step behind the next theorem: what a step removes from the spool.
LEMMA SpoolStep ==
  ASSUME IInv, [Next]_vars, NEW s \in Session, NEW f \in spool[s] \ spool'[s]
  PROVE  \/ f \in quarantine'[s]
         \/ \E repository \in Repository : Stored(<<repository, s>>)
         \/ \E r \in Recoverer : /\ At(r, "discard")
                                 /\ run[r].session = s
                                 /\ Aggregate(r) = {}
<1> DEFINE Goal == \/ f \in quarantine'[s]
                   \/ \E repository \in Repository : Stored(<<repository, s>>)
                   \/ \E r \in Recoverer : /\ At(r, "discard")
                                           /\ run[r].session = s
                                           /\ Aggregate(r) = {}
<1> USE DEF runtimeVars, hookVars, spoolVars, rowVars, storeVars, historyVars
<1>0. spool' # spool /\ TypeOK
  BY DEF IInv
<1>1. ASSUME NEW h \in Hook, HookStep(h) PROVE FALSE
  BY <1>0, <1>1 DEF HookStep, HookPublish, HookFault, TypeOK
<1>2. ASSUME NEW r \in Recoverer, NEW g \in run[r].unread, ReadDamaged(r, g) PROVE Goal
  BY <1>0, <1>2 DEF ReadDamaged, TypeOK
<1>3. ASSUME NEW r \in Recoverer, NEW g, DiscardSegment(r, g) PROVE Goal
  <2>1. run[r].session = s /\ At(r, "discard")
    BY <1>0, <1>3 DEF DiscardSegment, TypeOK
  <2>2. CASE Aggregate(r) = {}
    BY <2>1, <2>2
  <2>3. CASE run[r].identity \in [repository : Repository, head : Nat] /\ Stored(Sid(r))
    BY <2>1, <2>3 DEF Sid
  <2> QED BY <2>1, <2>2, <2>3 DEF IInv, DiscardJustified, Past, At
<1>4. ASSUME NEW r \in Recoverer, ReadStep(r) PROVE Goal
  BY <1>0, <1>2, <1>4 DEF ReadStep, ListSegments, ReadIntact, ReadMissing,
     AggregateEmpty, AggregateTooLarge, RecordOversize, SkipOutside, Discover,
     DrainResidue, LeavePending
<1>5. ASSUME NEW r \in Recoverer PROVE ~FinalizeStep(r)
  BY <1>0 DEF FinalizeStep, EnsureRepository, PutRepository, CheckExisting, WriteSession,
     PutSession, ListEvents, SkipEvent, WriteEvent, PutTrajectory, RecordQuarantined,
     RecordDuplicates, ListStoredEvents, PutMetrics
<1>6. ASSUME NEW r \in Recoverer, DiscardStep(r) PROVE Goal
  BY <1>0, <1>3, <1>6 DEF DiscardStep, DiscardTemporary, DiscardEnd, DiscardBlocked
<1>7. ASSUME NEW r \in Recoverer PROVE ~(RecoverBegin(r) \/ RecoverEnd(r) \/ RecoverDie(r))
  BY <1>0 DEF RecoverBegin, RecoverEnd, RecoverDie
<1>8. ~World /\ ~UNCHANGED vars
  BY <1>0 DEF World, HookBegin, HookRefuse, HookDie, Damage, Commit, vars
<1> QED BY <1>1, <1>4, <1>5, <1>6, <1>7, <1>8 DEF Next, RecoverStep

\* Nothing leaves the spool that is not quarantined, stored or worthless.
THEOREM ClearedLast == Spec => SpoolClearedLast
<1> DEFINE Justified ==
      \A s \in Session : \A f \in spool[s] \ spool'[s] :
        \/ f \in quarantine'[s]
        \/ \E repository \in Repository : Stored(<<repository, s>>)
        \/ \E r \in Recoverer : /\ At(r, "discard")
                                /\ run[r].session = s
                                /\ Aggregate(r) = {}
<1>1. IInv /\ [Next]_vars => Justified
  BY SpoolStep
<1> QED BY Inductive, <1>1, PTL DEF Spec, SpoolClearedLast
=============================================================================
