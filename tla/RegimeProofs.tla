---------------------------- MODULE RegimeProofs ----------------------------
(***************************************************************************)
(* The theorems of the recorder that need more than its code: of one       *)
(* recover process at a time, and of the quiet regime, in which recovery   *)
(* and hooks take turns.                                                   *)
(***************************************************************************)
EXTENDS RecorderSafety, WellFoundedInduction

(***************************************************************************)
(* Which actions change a variable.                                        *)
(***************************************************************************)
HookMoves(h) ==
  \/ \E s \in Session, elapsed \in {0, 1} : HookBegin(h, s, elapsed)
  \/ HookPublish(h) \/ HookFault(h) \/ HookDie(h)

LEMMA Changes ==
  ASSUME [Next]_vars
  PROVE  /\ events' # events => \E r \in Recoverer : \E x \in Aggregate(r) : WriteEvent(r, x)
         /\ trajectories' # trajectories => \E r \in Recoverer : PutTrajectory(r)
         /\ metrics' # metrics => \E r \in Recoverer : PutMetrics(r)
         /\ health' # health => \E r \in Recoverer :
              RecordOversize(r) \/ RecordQuarantined(r) \/ RecordDuplicates(r)
         /\ acknowledged' # acknowledged => \E h \in Hook : HookPublish(h)
         /\ spool' # spool => \/ \E h \in Hook : HookPublish(h)
                              \/ \E r \in Recoverer : \/ \E f : ReadDamaged(r, f)
                                                      \/ \E f : DiscardSegment(r, f)
         /\ <<now, hook>>' # <<now, hook>> => \E h \in Hook : HookMoves(h)
         /\ <<damaged, quarantine>>' # <<damaged, quarantine>> =>
              \/ \E h \in Hook : HookPublish(h)
              \/ \E s \in Session : \E f \in spool[s] : Damage(s, f)
              \/ \E r \in Recoverer : \/ \E f : ReadDamaged(r, f)
                                      \/ \E f : DiscardSegment(r, f)
         /\ run' # run => \E r \in Recoverer : RecoverBegin(r) \/ RecoverStep(r) \/ RecoverDie(r)
<1> USE DEF runtimeVars, hookVars, spoolVars, rowVars, storeVars, historyVars
<1>1. CASE World
  BY <1>1 DEF World, HookBegin, HookRefuse, HookDie, Damage, Commit, HookMoves
<1>2. ASSUME NEW h \in Hook, HookStep(h)
      PROVE  /\ UNCHANGED <<storeVars, run>>
             /\ HookPublish(h) \/ UNCHANGED <<acknowledged, spool, damaged, quarantine>>
             /\ HookMoves(h)
  BY <1>2 DEF HookStep, HookPublish, HookFault, HookMoves
<1>3. ASSUME NEW r \in Recoverer, ReadStep(r)
      PROVE  /\ UNCHANGED <<rowVars, metrics, acknowledged, now, hook>>
             /\ RecordOversize(r) \/ health' = health
             /\ (\E f : ReadDamaged(r, f)) \/ UNCHANGED <<spool, damaged, quarantine>>
  BY <1>3 DEF ReadStep, ListSegments, ReadIntact, ReadDamaged, ReadMissing, AggregateEmpty,
       AggregateTooLarge, RecordOversize, SkipOutside, Discover, DrainResidue, LeavePending
<1>4. ASSUME NEW r \in Recoverer, FinalizeStep(r)
      PROVE  /\ UNCHANGED <<acknowledged, spool, damaged, quarantine, now, hook>>
             /\ (\E x \in Aggregate(r) : WriteEvent(r, x)) \/ events' = events
             /\ PutTrajectory(r) \/ trajectories' = trajectories
             /\ PutMetrics(r) \/ metrics' = metrics
             /\ RecordQuarantined(r) \/ RecordDuplicates(r) \/ health' = health
  BY <1>4 DEF FinalizeStep, EnsureRepository, PutRepository, CheckExisting, WriteSession,
       PutSession, ListEvents, SkipEvent, WriteEvent, PutTrajectory, RecordQuarantined,
       RecordDuplicates, ListStoredEvents, PutMetrics
<1>5. ASSUME NEW r \in Recoverer, DiscardStep(r)
      PROVE  /\ UNCHANGED <<storeVars, acknowledged, now, hook, quarantine>>
             /\ (\E f : DiscardSegment(r, f)) \/ UNCHANGED <<spool, damaged>>
  BY <1>5 DEF DiscardStep, DiscardSegment, DiscardTemporary, DiscardEnd, DiscardBlocked
<1>6. ASSUME NEW r \in Recoverer, RecoverBegin(r) \/ RecoverEnd(r) \/ RecoverDie(r)
      PROVE  UNCHANGED <<storeVars, acknowledged, spool, damaged, quarantine, now, hook>>
  BY <1>6 DEF RecoverBegin, RecoverEnd, RecoverDie
<1>7. CASE UNCHANGED vars
  BY <1>7 DEF vars
<1> QED
  BY <1>1, <1>2, <1>3, <1>4, <1>5, <1>6, <1>7 DEF Next, RecoverStep

\* A step of one process is a step of no other.
LEMMA OneMoves ==
  ASSUME TypeInv, NEW q \in Recoverer, NEW r \in Recoverer \ {q},
         RecoverBegin(q) \/ RecoverStep(q) \/ RecoverDie(q)
  PROVE  run'[r] = run[r]
BY DEF RecoverBegin, RecoverDie, RecoverStep, RecoverEnd, ReadStep, ListSegments, ReadIntact,
   ReadDamaged, ReadMissing, AggregateEmpty, AggregateTooLarge, RecordOversize, SkipOutside,
   Discover, DrainResidue, LeavePending, FinalizeStep, EnsureRepository, PutRepository,
   CheckExisting, WriteSession, PutSession, ListEvents, SkipEvent, WriteEvent, PutTrajectory,
   RecordQuarantined, RecordDuplicates, ListStoredEvents, PutMetrics, DiscardStep,
   DiscardSegment, DiscardTemporary, DiscardEnd, DiscardBlocked, Leave, EndRun, GoTo,
   TypeInv, TypeOK

-----------------------------------------------------------------------------
(***************************************************************************)
(* One recover process at a time.  Between its look at the trajectory and  *)
(* its insert nobody else stores the session, and between its look at the  *)
(* rows and its metrics nobody adds one.                                   *)
(***************************************************************************)
Single == \A r, q \in Recoverer : r = q

Alone(r) ==
  /\ Past(r, {"oversize"}) => health.oversize[run[r].session] = 0
  /\ Past(r, {"session", "put session", "list", "events"}) => ~Stored(Sid(r))
  /\ Past(r, {"put metrics"}) => run[r].cursor = Cardinality(StoredEvents(Sid(r)))

SingleInv ==
  /\ OversizeRecordedOnce /\ MetricsMatchEvents
  /\ \A r \in Recoverer : Alone(r)

LEMMA SingleInv_Init == Init => SingleInv
<1> SUFFICES ASSUME Init PROVE SingleInv  OBVIOUS
<1>1. OversizeRecordedOnce
  BY DEF Init, OversizeRecordedOnce
<1>2. MetricsMatchEvents
  BY DEF Init, MetricsMatchEvents
<1>3. \A r \in Recoverer : run[r].pc = "idle"
  BY DEF Init, Idle, Fresh
<1> QED
  BY <1>1, <1>2, <1>3 DEF SingleInv, Alone, Past

\* Steps of hooks and of the world leave the database and the processes alone.
LEMMA NoProcessMoves ==
  ASSUME [Next]_vars,
         ~ \E r \in Recoverer : RecoverBegin(r) \/ RecoverStep(r) \/ RecoverDie(r)
  PROVE  UNCHANGED <<storeVars, run>>
<1> USE DEF runtimeVars, hookVars, spoolVars, rowVars, storeVars, historyVars
<1> QED
  BY DEF Next, World, HookBegin, HookRefuse, HookDie, Damage, Commit, HookStep, HookPublish,
     HookFault, vars

\* A step that changes no row is judged by the process alone.
LEMMA AloneSame ==
  ASSUME SingleInv, Single, NEW r \in Recoverer,
         UNCHANGED <<health, events, trajectories, metrics>>, Alone(r)'
  PROVE  SingleInv'
<1>1. \A sid : Stored(sid)' <=> Stored(sid)
  BY DEF Stored
<1>2. \A sid : StoredEvents(sid)' = StoredEvents(sid)
  BY DEF StoredEvents
<1>3. OversizeRecordedOnce'
  BY DEF SingleInv, OversizeRecordedOnce
<1>4. MetricsMatchEvents'
  BY <1>2 DEF SingleInv, MetricsMatchEvents
<1> QED
  BY <1>3, <1>4 DEF SingleInv, Single

\* So do the labels that ask for nothing.
LEMMA AloneFree ==
  ASSUME NEW r \in Recoverer,
         run'[r].pc \notin {"oversize", "session", "put session", "list", "events", "put metrics"}
  PROVE  Alone(r)'
BY DEF Alone, Past

LEMMA AloneLeaves ==
  ASSUME TypeOK, NEW r \in Recoverer, Leave(r) \/ EndRun(r)
  PROVE  Alone(r)'
<1>1. run'[r].pc \in {"idle", "next"}
  BY DEF Leave, EndRun, Fresh, Idle, TypeOK
<1> QED
  BY <1>1, AloneFree

LEMMA ReadAlone ==
  ASSUME IInv, SingleInv, Single, NEW r \in Recoverer, ReadStep(r)
  PROVE  SingleInv'
<1> USE DEF At
<1>0. TypeOK /\ run \in [Recoverer -> RunType]
  BY DEF IInv, TypeOK
<1>1. UNCHANGED <<events, trajectories, metrics>>
  BY DEF ReadStep, ListSegments, ReadIntact, ReadDamaged, ReadMissing, AggregateEmpty,
     AggregateTooLarge, RecordOversize, SkipOutside, Discover, DrainResidue, LeavePending,
     storeVars, rowVars
<1>2. CASE AggregateTooLarge(r)
  <2>1. health' = health
    BY <1>2 DEF AggregateTooLarge, storeVars
  <2>2. CASE Leave(r)
    BY <1>0, <1>1, <2>1, <2>2, AloneLeaves, AloneSame
  <2>3. CASE health.oversize[run[r].session] = 0 /\ GoTo(r, "oversize")
    <3>1. run'[r].pc = "oversize" /\ run'[r].session = run[r].session
      BY <1>0, <2>3 DEF GoTo, RunType
    <3>2. Alone(r)'
      BY <2>1, <2>3, <3>1 DEF Alone, Past
    <3> QED
      BY <1>1, <2>1, <3>2, AloneSame
  <2> QED
    BY <1>2, <2>2, <2>3 DEF AggregateTooLarge
<1>3. CASE RecordOversize(r)
  <2>1. Leave(r) /\ health.oversize[run[r].session] = 0
    BY <1>3 DEF RecordOversize, SingleInv, Alone, Past
  <2>2. /\ health' = [health EXCEPT !.oversize[run[r].session] = @ + 1]
        /\ health.oversize \in [Session -> Nat]
    BY <1>0, <1>3 DEF RecordOversize, TypeOK
  <2>3. OversizeRecordedOnce'
    BY <2>1, <2>2 DEF SingleInv, OversizeRecordedOnce
  <2>4. MetricsMatchEvents'
    <3>1. \A sid : StoredEvents(sid)' = StoredEvents(sid)
      BY <1>1 DEF StoredEvents
    <3> QED
      BY <1>1, <3>1 DEF SingleInv, MetricsMatchEvents
  <2> QED
    BY <1>0, <2>1, <2>3, <2>4, AloneLeaves DEF SingleInv, Single
<1>4. CASE ReadStep(r) /\ ~AggregateTooLarge(r) /\ ~RecordOversize(r)
  <2>1. health' = health
    BY <1>4 DEF ReadStep, ListSegments, ReadIntact, ReadDamaged, ReadMissing, AggregateEmpty,
       SkipOutside, Discover, DrainResidue, LeavePending, storeVars
  <2>2. Alone(r)'
    <3>1. ASSUME NEW s \in Session, ListSegments(r, s) PROVE Alone(r)'
      BY <1>0, <3>1, AloneFree DEF ListSegments, RunType
    <3>2. ASSUME NEW f \in run[r].unread, ReadIntact(r, f) \/ ReadDamaged(r, f)
          PROVE  Alone(r)'
      BY <1>0, <3>2, AloneFree DEF ReadIntact, ReadDamaged, RunType
    <3>3. ASSUME NEW f \in run[r].unread, ReadMissing(r, f) PROVE Alone(r)'
      BY <1>0, <3>3, AloneLeaves DEF ReadMissing
    <3>4. CASE AggregateEmpty(r) \/ DrainResidue(r)
      <4>1. GoTo(r, "discard")
        BY <3>4 DEF AggregateEmpty, DrainResidue
      <4> QED
        BY <1>0, <4>1, AloneFree DEF GoTo, RunType
    <3>5. CASE SkipOutside(r) \/ LeavePending(r)
      BY <1>0, <3>5, AloneLeaves DEF SkipOutside, LeavePending
    <3>6. CASE Discover(r)
      BY <1>0, <3>6, AloneFree DEF Discover, RunType
    <3> QED
      BY <1>4, <3>1, <3>2, <3>3, <3>4, <3>5, <3>6 DEF ReadStep
  <2> QED
    BY <1>1, <2>1, <2>2, AloneSame
<1> QED
  BY <1>2, <1>3, <1>4

LEMMA FinalizeAlone ==
  ASSUME IInv, SingleInv, Single, NEW r \in Recoverer, FinalizeStep(r)
  PROVE  SingleInv'
<1> USE DEF At
<1>0. TypeOK /\ run \in [Recoverer -> RunType] /\ ParentsStored
  BY DEF IInv, TypeOK
<1>1. Past(r, Identified)
  BY DEF FinalizeStep, EnsureRepository, PutRepository, CheckExisting, WriteSession,
     PutSession, ListEvents, SkipEvent, WriteEvent, PutTrajectory, RecordQuarantined,
     RecordDuplicates, ListStoredEvents, PutMetrics, Past, Identified
<1>2. Sid(r) \in SessionId
  BY <1>1 DEF Past, Identified, IInv, Located, Sid, SessionId
<1> DEFINE Same == run'[r].session = run[r].session /\ run'[r].identity = run[r].identity
<1>3. ASSUME Same PROVE Sid(r)' = Sid(r)
  BY <1>3 DEF Sid
<1>4. CASE EnsureRepository(r) \/ PutRepository(r)
  <2>1. UNCHANGED <<health, events, trajectories, metrics>>
    BY <1>4 DEF EnsureRepository, PutRepository, storeVars, rowVars
  <2>2. run'[r].pc \in {"existing", "repository", "idle"}
    BY <1>0, <1>4 DEF EnsureRepository, PutRepository, GoTo, EndRun, Idle, Fresh, RunType
  <2> QED
    BY <2>1, <2>2, AloneFree, AloneSame
<1>5. CASE CheckExisting(r)
  <2>1. UNCHANGED <<health, events, trajectories, metrics>>
    BY <1>5 DEF CheckExisting, storeVars, rowVars
  <2>2. Same /\ run'[r].pc = IF Stored(Sid(r)) THEN "metrics" ELSE "session"
    BY <1>0, <1>5 DEF CheckExisting, GoTo, RunType
  <2>3. Stored(Sid(r))' <=> Stored(Sid(r))
    BY <1>3, <2>1, <2>2 DEF Stored
  <2>4. Alone(r)'
    BY <2>2, <2>3 DEF Alone, Past
  <2> QED
    BY <2>1, <2>4, AloneSame
<1>6. CASE WriteSession(r) \/ PutSession(r) \/ ListEvents(r)
  <2>1. UNCHANGED <<health, events, trajectories, metrics>>
    BY <1>6 DEF WriteSession, PutSession, ListEvents, storeVars, rowVars
  <2>2. ~Stored(Sid(r))
    BY <1>6 DEF WriteSession, PutSession, ListEvents, SingleInv, Alone, Past
  <2>3. EndRun(r) \/ (Same /\ run'[r].pc \in {"put session", "list", "events"})
    <3>1. CASE WriteSession(r)
      BY <1>0, <3>1 DEF WriteSession, GoTo, RunType
    <3>2. CASE PutSession(r)
      BY <1>0, <3>2 DEF PutSession, GoTo, RunType
    <3>3. CASE ListEvents(r)
      BY <1>0, <3>3 DEF ListEvents, RunType
    <3> QED
      BY <1>6, <3>1, <3>2, <3>3
  <2>4. CASE Same /\ run'[r].pc \in {"put session", "list", "events"}
    <3>1. ~Stored(Sid(r))'
      BY <1>3, <2>1, <2>2, <2>4 DEF Stored
    <3>2. Alone(r)'
      BY <2>4, <3>1 DEF Alone, Past
    <3> QED
      BY <2>1, <3>2, AloneSame
  <2> QED
    BY <1>0, <2>1, <2>3, <2>4, AloneLeaves, AloneSame
<1>7. ASSUME NEW x \in Aggregate(r), SkipEvent(r, x) \/ WriteEvent(r, x) PROVE SingleInv'
  <2>1. UNCHANGED <<health, trajectories, metrics>>
    BY <1>7 DEF SkipEvent, WriteEvent, storeVars, rowVars
  <2>2. ~Stored(Sid(r))
    BY <1>7 DEF SkipEvent, WriteEvent, SingleInv, Alone, Past
  <2>3. \A sid \in SessionId \ {Sid(r)} : StoredEvents(sid)' = StoredEvents(sid)
    <3>1. \/ events' = events
          \/ events' = events \cup
               {[id |-> EventId(Sid(r), run[r].cursor, x.payload), at |-> x.at]}
      BY <1>7 DEF SkipEvent, WriteEvent, storeVars, rowVars
    <3>2. [id |-> EventId(Sid(r), run[r].cursor, x.payload), at |-> x.at].id.session = Sid(r)
      BY DEF EventId
    <3> QED
      BY <3>1, <3>2 DEF StoredEvents
  <2>4. \A sid \in SessionId : metrics[sid] # Nothing => sid # Sid(r)
    BY <1>0, <2>2 DEF ParentsStored
  <2>5. MetricsMatchEvents'
    BY <2>1, <2>3, <2>4 DEF SingleInv, MetricsMatchEvents
  <2>6. Alone(r)'
    <3>1. CASE EndRun(r)
      BY <1>0, <3>1, AloneLeaves
    <3>2. CASE run' = [run EXCEPT ![r].cursor = @ + 1]
      <4>1. Same /\ run'[r].pc = "events"
        BY <1>0, <1>7, <3>2 DEF SkipEvent, WriteEvent, RunType
      <4>2. ~Stored(Sid(r))'
        BY <1>3, <2>1, <2>2, <4>1 DEF Stored
      <4> QED
        BY <4>1, <4>2 DEF Alone, Past
    <3> QED
      BY <1>7, <3>1, <3>2 DEF SkipEvent, WriteEvent
  <2>7. OversizeRecordedOnce'
    BY <2>1 DEF SingleInv, OversizeRecordedOnce
  <2> QED
    BY <2>5, <2>6, <2>7 DEF SingleInv, Single
<1>8. CASE PutTrajectory(r)
  <2>1. UNCHANGED <<health, events, metrics>>
    BY <1>8 DEF PutTrajectory, storeVars, rowVars
  <2>2. run'[r].pc \in {"idle", "health"}
    BY <1>0, <1>8 DEF PutTrajectory, EndRun, Idle, Fresh, RunType
  <2>3. MetricsMatchEvents'
    BY <2>1 DEF SingleInv, MetricsMatchEvents, StoredEvents
  <2>4. OversizeRecordedOnce'
    BY <2>1 DEF SingleInv, OversizeRecordedOnce
  <2> QED
    BY <2>2, <2>3, <2>4, AloneFree DEF SingleInv, Single
<1>9. CASE RecordQuarantined(r) \/ RecordDuplicates(r)
  <2>1. /\ UNCHANGED <<events, metrics>>
        /\ health'.oversize = health.oversize
    BY <1>0, <1>9 DEF RecordQuarantined, RecordDuplicates, TypeOK, rowVars
  <2>2. run'[r].pc \in {"health", "metrics"}
    BY <1>0, <1>9 DEF RecordQuarantined, RecordDuplicates, GoTo, RunType
  <2>3. MetricsMatchEvents'
    BY <2>1 DEF SingleInv, MetricsMatchEvents, StoredEvents
  <2>4. OversizeRecordedOnce'
    BY <2>1 DEF SingleInv, OversizeRecordedOnce
  <2> QED
    BY <2>2, <2>3, <2>4, AloneFree DEF SingleInv, Single
<1>10. CASE ListStoredEvents(r)
  <2>1. UNCHANGED <<health, events, trajectories, metrics>>
    BY <1>10 DEF ListStoredEvents, storeVars, rowVars
  <2>2. /\ Same /\ run'[r].pc = "put metrics"
        /\ run'[r].cursor = Cardinality(StoredEvents(Sid(r)))
    BY <1>0, <1>10 DEF ListStoredEvents, RunType
  <2>3. StoredEvents(Sid(r))' = StoredEvents(Sid(r))
    BY <1>3, <2>1, <2>2 DEF StoredEvents
  <2>4. Alone(r)'
    BY <2>2, <2>3 DEF Alone, Past
  <2> QED
    BY <2>1, <2>4, AloneSame
<1>11. CASE PutMetrics(r)
  <2>1. UNCHANGED <<health, events>>
    BY <1>11 DEF PutMetrics, rowVars
  <2>2. run'[r].pc = "discard"
    BY <1>0, <1>11 DEF PutMetrics, GoTo, RunType
  <2> DEFINE row == [events |-> run[r].cursor, head |-> run[r].identity.head,
                     quarantined |-> run[r].lost, duplicates |-> Duplicates(run[r].verified)]
  <2>3. /\ metrics' = [metrics EXCEPT ![Sid(r)] = row]
        /\ row.events = run[r].cursor
    BY <1>11 DEF PutMetrics
  <2> HIDE DEF row
  <2>4. run[r].cursor = Cardinality(StoredEvents(Sid(r)))
    BY <1>11 DEF PutMetrics, SingleInv, Alone, Past
  <2>5. MetricsMatchEvents'
    <3>1. \A sid : StoredEvents(sid)' = StoredEvents(sid)
      BY <2>1 DEF StoredEvents
    <3>2. \A sid \in SessionId : metrics'[sid] # Nothing =>
            metrics'[sid].events = Cardinality(StoredEvents(sid))
      BY <1>0, <1>2, <2>3, <2>4 DEF SingleInv, MetricsMatchEvents, TypeOK
    <3> QED
      BY <3>1, <3>2 DEF MetricsMatchEvents
  <2>6. OversizeRecordedOnce'
    BY <2>1 DEF SingleInv, OversizeRecordedOnce
  <2> QED
    BY <2>2, <2>5, <2>6, AloneFree DEF SingleInv, Single
<1> QED
  BY <1>4, <1>5, <1>6, <1>7, <1>8, <1>9, <1>10, <1>11 DEF FinalizeStep

LEMMA SingleInv_Next ==
  ASSUME IInv, SingleInv, Single, [Next]_vars
  PROVE  SingleInv'
<1>0. TypeOK
  BY DEF IInv
<1>1. ASSUME NEW r \in Recoverer, DiscardStep(r) PROVE SingleInv'
  <2>1. UNCHANGED <<health, events, trajectories, metrics>>
    BY <1>1 DEF DiscardStep, DiscardSegment, DiscardTemporary, DiscardEnd, DiscardBlocked,
       storeVars, rowVars
  <2>2. CASE run' = run
    <3>1. run'[r].pc = "discard"
      BY <1>1, <2>2 DEF DiscardStep, At
    <3> QED
      BY <2>1, <3>1, AloneFree, AloneSame
  <2>3. CASE Leave(r) \/ EndRun(r)
    BY <1>0, <2>1, <2>3, AloneLeaves, AloneSame
  <2> QED
    BY <1>1, <2>2, <2>3
    DEF DiscardStep, DiscardSegment, DiscardTemporary, DiscardEnd, DiscardBlocked
<1>2. ASSUME NEW r \in Recoverer, RecoverBegin(r) \/ RecoverEnd(r) \/ RecoverDie(r)
      PROVE  SingleInv'
  <2>1. UNCHANGED <<health, events, trajectories, metrics>>
    BY <1>2 DEF RecoverBegin, RecoverEnd, RecoverDie, storeVars, rowVars
  <2>2. run'[r].pc \in {"idle", "next"}
    BY <1>0, <1>2 DEF RecoverBegin, RecoverEnd, RecoverDie, EndRun, Idle, Fresh, TypeOK
  <2> QED
    BY <2>1, <2>2, AloneFree, AloneSame
<1>3. CASE UNCHANGED <<storeVars, run>>
  <2>1. \A sid : Stored(sid)' <=> Stored(sid)
    BY <1>3 DEF Stored, storeVars, rowVars
  <2>2. \A sid : StoredEvents(sid)' = StoredEvents(sid)
    BY <1>3 DEF StoredEvents, storeVars, rowVars
  <2>3. \A r \in Recoverer : Sid(r)' = Sid(r)
    BY <1>3 DEF Sid
  <2>4. \A r \in Recoverer : Alone(r)'
    BY <1>3, <2>1, <2>2, <2>3 DEF SingleInv, Alone, Past, storeVars
  <2> QED
    BY <1>3, <2>2, <2>4
    DEF SingleInv, OversizeRecordedOnce, MetricsMatchEvents, storeVars
<1> QED
  BY <1>1, <1>2, <1>3, NoProcessMoves, ReadAlone, FinalizeAlone DEF RecoverStep

LEMMA SingleInvariant == ASSUME Single PROVE Spec => []SingleInv
<1>1. IInv /\ SingleInv /\ [Next]_vars => SingleInv'
  BY SingleInv_Next
<1> QED
  BY <1>1, SingleInv_Init, Inductive, PTL DEF Spec

\* With one recover process at a time, the metrics of a trajectory count exactly
\* its stored events, whatever hooks write and wherever the process dies
\* (finalize.rs:167-189).
THEOREM MetricsAgree == ASSUME Single PROVE Spec => []MetricsMatchEvents
<1>1. SingleInv => MetricsMatchEvents
  BY DEF SingleInv
<1> QED
  BY <1>1, SingleInvariant, PTL

\* With one recover process at a time, a session over the ceiling leaves one
\* health event, however often it is recovered (store.rs:243-268).
THEOREM OversizeOnce == ASSUME Single PROVE Spec => []OversizeRecordedOnce
<1>1. SingleInv => OversizeRecordedOnce
  BY DEF SingleInv
<1> QED
  BY <1>1, SingleInvariant, PTL


-----------------------------------------------------------------------------
(***************************************************************************)
(* The quiet regime: hooks and recovery take turns.  What holds of it      *)
(* alone is Keeping: what was acknowledged is in the spool or set aside    *)
(* until its session is stored, and every process has read it.             *)
(***************************************************************************)
StoredSomewhere(s) == \E repository \in Repository : Stored(<<repository, s>>)

Turns == NobodyRecovers \/ NoHookRuns

SpoolKept ==
  \A s \in Session :
    /\ spool[s] \subseteq acknowledged[s]
    /\ ~StoredSomewhere(s) => acknowledged[s] \subseteq spool[s] \cup quarantine[s]

\* A process has read what was acknowledged and not set aside, and decided by it.
HasRead(r) ==
  /\ Past(r, {"next"}) => run[r].verified = {}
  /\ ~Past(r, {"idle", "next"}) =>
       LET s == run[r].session
       IN  /\ run[r].unread \cup run[r].verified \subseteq acknowledged[s]
           /\ ~Past(r, {"read"}) => run[r].unread = {}
           /\ ~StoredSomewhere(s) =>
                acknowledged[s] \subseteq run[r].unread \cup run[r].verified \cup quarantine[s]
           /\ Past(r, Identified) =>
                /\ run[r].identity.repository = WorkingDirectory(Aggregate(r))
                /\ ~TooLarge(Aggregate(r))

Keeping == Turns /\ SpoolKept /\ \A r \in Recoverer : HasRead(r)

(***************************************************************************)
(* Whole sessions need two things more.  A segment that is damaged between *)
(* two runs shifts the positions of those after it, so that rows of the    *)
(* first run stand where the second would write others; and residue that   *)
(* begins in a second repository is stored as a second trajectory.         *)
(***************************************************************************)
Payloads(s) == {Script[s][i] : i \in 1 .. Len(Script[s])}

Homes(s) == {Cwd[p] : p \in Payloads(s)} \cap Repository

\* Nothing is damaged, and the hooks of a session are fired in one repository.
Premise ==
  /\ MaxDamage = 0
  /\ \A s \in Session : \A a, b \in Homes(s) : a = b

Undamaged == \A s \in Session : damaged[s] = {} /\ quarantine[s] = {}

\* What was acknowledged carries a payload of its script and a millisecond that
\* has passed; what is being written, a millisecond later than any stored row.
Clock ==
  /\ \A s \in Session : \A x \in acknowledged[s] : x.at <= now /\ x.payload \in Payloads(s)
  /\ \A e \in events : e.at <= now
  /\ \A h \in Hook : hook[h] # Nothing =>
       /\ hook[h].segment.payload \in Payloads(hook[h].session)
       /\ hook[h].segment.at <= now
       /\ \A e \in events : e.at < hook[h].segment.at

\* Trajectories are stored where their sessions ran.
StoredHome == \A sid \in SessionId : Stored(sid) => sid[1] \in Homes(sid[2])

\* Until then the rows of a session are its accepted segments at their positions.
RowOf(e, A) ==
  \E x \in A : e.at = x.at /\ e.id.payload = x.payload /\ e.id.sequence = Position(A, x)

RowsTaped ==
  \A sid \in SessionId : ~Stored(sid) =>
    \A e \in StoredEvents(sid) : RowOf(e, Accepted(acknowledged[sid[2]]))

Regime ==
  Keeping /\ Undamaged /\ Clock /\ StoredHome /\ RowsTaped /\ TrajectoryEventsStored

-----------------------------------------------------------------------------
(***************************************************************************)
(* The operators of Segments.                                              *)
(***************************************************************************)
LEMMA Least ==
  ASSUME NEW T \in SUBSET Nat, T # {} PROVE \E m \in T : \A k \in T : m <= k
<1>1. PICK x \in T : \A y \in T : ~(<<y, x>> \in OpToRel(<, Nat))
  BY NatLessThanWellFounded, WFMin
<1>2. \A y \in T : ~(y < x)
  BY <1>1 DEF OpToRel
<1> QED
  BY <1>2

\* The order of the file names is total, and has a first.
LEMMA Ordered ==
  ASSUME NEW x \in Segment, NEW y \in Segment
  PROVE  /\ x # y => Before(x, y) \/ Before(y, x)
         /\ ~(Before(x, y) /\ Before(y, x))
         /\ ~Before(x, x)
<1>1. /\ x.at \in Nat /\ y.at \in Nat /\ x.payload \in Payload /\ y.payload \in Payload
      /\ Digest[x.payload] \in Nat /\ Digest[y.payload] \in Nat
  BY DigestAssumption DEF Segment
<1>2. x.at = y.at /\ x.payload = y.payload => x = y
  BY DEF Segment
<1> QED
  BY <1>1, <1>2, DigestAssumption DEF Before

LEMMA BeforeTrans ==
  ASSUME NEW x \in Segment, NEW y \in Segment, NEW z \in Segment, Before(x, y), Before(y, z)
  PROVE  Before(x, z)
<1>1. /\ x.at \in Nat /\ y.at \in Nat /\ z.at \in Nat
      /\ Digest[x.payload] \in Nat /\ Digest[y.payload] \in Nat /\ Digest[z.payload] \in Nat
  BY DigestAssumption DEF Segment
<1> QED
  BY <1>1 DEF Before

LEMMA FirstExists ==
  ASSUME NEW V \in SUBSET Segment, V # {}
  PROVE  \E x \in V : IsFirst(x, V)
<1> DEFINE Times == {x.at : x \in V}
<1>1. Times \in SUBSET Nat /\ Times # {}
  BY DEF Segment
<1>2. PICK t \in Times : \A k \in Times : t <= k
  BY <1>1, Least
<1> DEFINE Early == {x \in V : x.at = t}
           Digests == {Digest[x.payload] : x \in Early}
<1>3. Digests \in SUBSET Nat /\ Digests # {}
  BY DigestAssumption DEF Segment
<1>4. PICK d \in Digests : \A k \in Digests : d <= k
  BY <1>3, Least
<1>5. PICK x \in Early : Digest[x.payload] = d
  BY <1>4
<1>6. ASSUME NEW y \in V \ {x} PROVE Before(x, y)
  <2>1. t <= y.at /\ x.at = t /\ y.at \in Nat /\ t \in Nat
    BY <1>1, <1>2, <1>5
  <2>2. y.at = t => Digest[x.payload] <= Digest[y.payload]
    BY <1>4, <1>5
  <2>3. ~Before(y, x)
    <3>1. y.at = t => Digest[y.payload] \in Nat /\ Digest[x.payload] \in Nat
      BY <1>3, <1>5
    <3> HIDE DEF Early, Digests, Times
    <3> QED
      BY <2>1, <2>2, <3>1 DEF Before
  <2>4. x \in Segment /\ y \in Segment /\ x # y
    BY <1>5
  <2> QED
    BY <2>3, <2>4, Ordered
<1> QED
  BY <1>5, <1>6 DEF IsFirst

\* The first segment repeats none, so of some segments some are accepted.
LEMMA AcceptedEmpty ==
  ASSUME NEW V \in SUBSET Segment, Accepted(V) = {}
  PROVE  V = {}
<1>1. SUFFICES ASSUME V # {} PROVE FALSE
  OBVIOUS
<1>2. PICK x \in V : IsFirst(x, V)
  BY <1>1, FirstExists
<1>3. \A y \in V : ~Before(y, x)
  BY <1>2, Ordered DEF IsFirst
<1> QED
  BY <1>2, <1>3 DEF Accepted, Repeats

\* A segment with a later millisecond leaves acceptance and positions alone.
LEMMA LaterSegment ==
  ASSUME NEW V \in SUBSET Segment, NEW f \in Segment, NEW x \in Accepted(V), x.at < f.at
  PROVE  /\ x \in Accepted(V \cup {f})
         /\ Position(Accepted(V \cup {f}), x) = Position(Accepted(V), x)
<1> DEFINE W == V \cup {f}
<1>1. \A z \in V : Before(z, x) \/ z = x => ~Before(f, z)
  <2>1. ASSUME NEW z \in V, Before(z, x) \/ z = x PROVE ~Before(f, z)
    <3>1. z.at <= x.at /\ z.at \in Nat /\ x.at \in Nat /\ f.at \in Nat
      BY <2>1 DEF Before, Segment, Accepted
    <3> QED
      BY <3>1 DEF Before
  <2> QED
    BY <2>1
<1>2. x \in V /\ f # x /\ ~Before(f, x)
  <2>1. x \in V
    BY DEF Accepted
  <2>2. x.at \in Nat /\ f.at \in Nat
    BY <2>1 DEF Segment
  <2>3. f # x
    BY <2>2
  <2> QED
    BY <1>1, <2>1, <2>3
<1>3. ASSUME NEW z \in V, Before(z, x) \/ z = x
      PROVE  Repeats(W, z) <=> Repeats(V, z)
  <2>1. ~Before(f, z)
    BY <1>1, <1>3
  <2> QED
    BY <2>1 DEF Repeats
<1>4. x \in Accepted(W)
  BY <1>2, <1>3 DEF Accepted
<1>5. {y \in Accepted(W) : Before(y, x)} = {y \in Accepted(V) : Before(y, x)}
  BY <1>2, <1>3 DEF Accepted
<1> QED
  BY <1>4, <1>5 DEF Position

\* No two accepted segments have one position.
LEMMA PositionInjective ==
  ASSUME NEW A \in SUBSET Segment, IsFiniteSet(A), NEW x \in A, NEW y \in A,
         Position(A, x) = Position(A, y)
  PROVE  x = y
<1>1. ASSUME NEW u \in A, NEW v \in A, Before(u, v) PROVE Position(A, u) < Position(A, v)
  <2> DEFINE U == {z \in A : Before(z, u)}
             V == {z \in A : Before(z, v)}
  <2>1. U \subseteq V
    BY <1>1, BeforeTrans
  <2>2. u \in V /\ u \notin U
    BY <1>1, Ordered
  <2>3. IsFiniteSet(V)
    BY FS_Subset
  <2> HIDE DEF U, V
  <2>4. U \subseteq V \ {u} /\ IsFiniteSet(V \ {u})
        /\ Cardinality(V \ {u}) = Cardinality(V) - 1
    BY <2>1, <2>2, <2>3, FS_RemoveElement
  <2>5. IsFiniteSet(U) /\ Cardinality(U) <= Cardinality(V) - 1
    BY <2>4, FS_Subset
  <2>6. Cardinality(U) \in Nat /\ Cardinality(V) \in Nat
    BY <2>3, <2>5, FS_CardinalityType
  <2>7. Cardinality(U) < Cardinality(V)
    BY <2>5, <2>6
  <2> QED
    BY <2>7 DEF U, V, Position
<1>2. /\ Position(A, x) \in Nat /\ Position(A, y) \in Nat
  BY PositionBelow
<1> QED
  BY <1>1, <1>2, Ordered

\* A session runs in a repository one of its payloads names.
LEMMA WorkingDirectoryHome ==
  ASSUME NEW A \in SUBSET Segment, NEW s, \A x \in A : x.payload \in Payloads(s),
         WorkingDirectory(A) # Outside
  PROVE  WorkingDirectory(A) \in Homes(s)
<1> DEFINE placed == {x \in A : Cwd[x.payload] # Unset}
           first  == {x \in placed : IsFirst(x, placed)}
           chosen == CHOOSE x \in first : TRUE
<1>1. first # {} /\ WorkingDirectory(A) = Cwd[chosen.payload]
  BY DEF WorkingDirectory
<1>2. chosen \in A
  BY <1>1
<1> HIDE DEF chosen
<1> QED
  BY <1>1, <1>2, WorkingDirectoryType DEF Homes

-----------------------------------------------------------------------------
(***************************************************************************)
(* One lemma per part of the regime.                                       *)
(***************************************************************************)
QuietNext == Next /\ Apart

LEMMA QuietStep == [QuietNext]_vars => [Next]_vars
BY DEF QuietNext

LEMMA StoredStays ==
  ASSUME TypeInv, RowsKept, NEW s \in Session, StoredSomewhere(s)
  PROVE  StoredSomewhere(s)'
BY KeptRows DEF StoredSomewhere, SessionId

\* What is set aside stays.
LEMMA QuarantineKept ==
  ASSUME TypeOK, [Next]_vars, NEW s \in Session
  PROVE  quarantine[s] \subseteq quarantine'[s]
<1>1. ASSUME NEW r \in Recoverer, NEW f, ReadDamaged(r, f)
      PROVE  quarantine[s] \subseteq quarantine'[s]
  BY <1>1 DEF ReadDamaged, TypeOK
<1>2. ASSUME NEW h \in Hook, HookPublish(h) PROVE quarantine' = quarantine
  BY <1>2 DEF HookPublish
<1>3. ASSUME NEW t \in Session, NEW f \in spool[t], Damage(t, f) PROVE quarantine' = quarantine
  BY <1>3 DEF Damage
<1>4. ASSUME NEW r \in Recoverer, NEW f, DiscardSegment(r, f) PROVE quarantine' = quarantine
  BY <1>4 DEF DiscardSegment
<1> QED
  BY <1>1, <1>2, <1>3, <1>4, Changes

LEMMA TurnsNext == ASSUME Turns, [QuietNext]_vars PROVE Turns'
<1>1. CASE UNCHANGED vars
  <2>1. run' = run /\ hook' = hook
    BY <1>1 DEF vars, hookVars
  <2> QED
    BY <2>1 DEF Turns, NobodyRecovers, NoHookRuns, At
<1>2. CASE Apart
  BY <1>2 DEF Apart, Turns
<1> QED
  BY <1>1, <1>2 DEF QuietNext

LEMMA UndamagedNext ==
  ASSUME Premise, IInv, Undamaged, [Next]_vars
  PROVE  Undamaged'
<1>0. TypeOK
  BY DEF IInv
<1>1. ASSUME NEW s \in Session PROVE damaged'[s] = {} /\ quarantine'[s] = {}
  <2>0. damaged[s] = {} /\ quarantine[s] = {}
    BY DEF Undamaged
  <2>1. ASSUME NEW h \in Hook, HookPublish(h) PROVE damaged'[s] = {} /\ quarantine'[s] = {}
    BY <1>0, <2>0, <2>1 DEF HookPublish, TypeOK
  <2>2. ASSUME NEW t \in Session, NEW f \in spool[t], Damage(t, f) PROVE FALSE
    BY <1>0, <2>2 DEF Damage, Premise, TypeOK
  <2>3. ASSUME NEW r \in Recoverer, NEW f, ReadDamaged(r, f) PROVE FALSE
    <3>1. run[r].session \in Session
      BY <2>3 DEF ReadDamaged, At, IInv, Located, Past
    <3> QED
      BY <2>3, <3>1 DEF ReadDamaged, Undamaged
  <2>4. ASSUME NEW r \in Recoverer, NEW f, DiscardSegment(r, f)
        PROVE  damaged'[s] = {} /\ quarantine'[s] = {}
    BY <1>0, <2>0, <2>4 DEF DiscardSegment, TypeOK
  <2>5. CASE <<damaged, quarantine>>' = <<damaged, quarantine>>
    BY <2>0, <2>5
  <2> QED
    BY <2>1, <2>2, <2>3, <2>4, <2>5, Changes
<1> QED
  BY <1>1 DEF Undamaged

\* Hooks wait for recovery, and recovery for hooks.
LEMMA HookAlone ==
  ASSUME Turns, NEW h \in Hook, hook[h] # Nothing
  PROVE  NobodyRecovers
BY DEF Turns, NoHookRuns

LEMMA RecoverAlone ==
  ASSUME TypeOK, Turns, Turns', NEW r \in Recoverer,
         RecoverBegin(r) \/ RecoverStep(r) \/ RecoverDie(r)
  PROVE  NoHookRuns
<1>1. CASE RecoverBegin(r)
  <2>1. hook' = hook /\ run'[r].pc = "next"
    BY <1>1 DEF RecoverBegin, hookVars, Fresh, TypeOK
  <2>2. NoHookRuns'
    BY <2>1 DEF Turns, NobodyRecovers, At
  <2> QED
    BY <2>1, <2>2 DEF NoHookRuns
<1>2. CASE RecoverStep(r) \/ RecoverDie(r)
  <2>1. ~At(r, "idle")
    BY <1>2 DEF RecoverDie, RecoverStep, RecoverEnd, ReadStep, ListSegments, ReadIntact,
       ReadDamaged, ReadMissing, AggregateEmpty, AggregateTooLarge, RecordOversize, Aggregated,
       SkipOutside, Discover, DrainResidue, LeavePending, FinalizeStep, EnsureRepository,
       PutRepository, CheckExisting, WriteSession, PutSession, ListEvents, SkipEvent,
       WriteEvent, PutTrajectory, RecordQuarantined, RecordDuplicates, ListStoredEvents,
       PutMetrics, DiscardStep, At
  <2> QED
    BY <2>1 DEF Turns, NobodyRecovers
<1> QED
  BY <1>1, <1>2

LEMMA ClockNext ==
  ASSUME IInv, Keeping, Clock, Turns', [QuietNext]_vars
  PROVE  Clock'
<1>0. TypeOK /\ Turns /\ [Next]_vars
  BY QuietStep DEF IInv, Keeping
<1>1. ASSUME NEW h \in Hook, NEW s \in Session, NEW elapsed \in {0, 1}, HookBegin(h, s, elapsed)
      PROVE  Clock'
  <2>1. /\ UNCHANGED <<acknowledged, events>>
        /\ now' = now + elapsed
        /\ hook' = [hook EXCEPT ![h] =
             [session |-> s, segment |-> [at |-> now', payload |-> Script[s][fired[s] + 1]]]]
    BY <1>1 DEF HookBegin, historyVars, storeVars, rowVars
  <2>2. now \in Nat /\ now' \in Nat /\ now <= now'
    BY <1>0, <2>1 DEF TypeOK
  <2>3. Script[s][fired[s] + 1] \in Payloads(s)
    <3>1. Script[s] \in Seq(Payload) /\ fired[s] \in Nat /\ fired[s] < Len(Script[s])
      BY <1>0, <1>1, RecorderAssumption DEF HookBegin, TypeOK
    <3>2. fired[s] + 1 \in 1 .. Len(Script[s])
      BY <3>1
    <3> QED
      BY <3>2 DEF Payloads
  <2>4. \A t \in Session : \A x \in acknowledged[t] : x.at \in Nat
    BY <1>0 DEF TypeOK, Segment
  <2>5. \A e \in events : e.at \in Nat
    BY <1>0 DEF TypeOK
  <2>6. \A t \in Session : \A x \in acknowledged'[t] : x.at <= now' /\ x.payload \in Payloads(t)
    BY <1>0, <2>1, <2>2, <2>4 DEF Clock
  <2>7. \A e \in events' : e.at <= now'
    BY <1>0, <2>1, <2>2, <2>5 DEF Clock
  <2>8. ASSUME NEW g \in Hook, hook'[g] # Nothing
        PROVE  /\ hook'[g].segment.payload \in Payloads(hook'[g].session)
               /\ hook'[g].segment.at <= now'
               /\ \A e \in events' : e.at < hook'[g].segment.at
    <3>1. CASE g = h
      <4>1. hook[h] = Nothing
        BY <1>1 DEF HookBegin
      <4>2. Apart
        BY <2>8, <3>1, <4>1 DEF QuietNext, vars, hookVars
      <4>3. now' > now
        BY <2>8, <3>1, <4>1, <4>2 DEF Apart
      <4>4. /\ hook'[g].session = s /\ hook'[g].segment.at = now'
            /\ hook'[g].segment.payload = Script[s][fired[s] + 1]
        BY <1>0, <2>1, <3>1 DEF TypeOK
      <4>5. \A e \in events : e.at < now'
        BY <1>0, <2>2, <2>5, <4>3 DEF Clock
      <4> QED
        BY <2>1, <2>2, <2>3, <4>4, <4>5
    <3>2. CASE g # h
      <4>1. hook'[g] = hook[g]
        BY <1>0, <2>1, <3>2 DEF TypeOK
      <4>2. hook[g].segment.at \in Nat
        BY <1>0, <2>8, <4>1 DEF TypeOK, Segment
      <4> QED
        BY <1>0, <2>1, <2>2, <2>8, <4>1, <4>2 DEF Clock
    <3> QED
      BY <3>1, <3>2
  <2> QED
    BY <2>6, <2>7, <2>8 DEF Clock
<1>2. ASSUME NEW h \in Hook, HookPublish(h) PROVE Clock'
  <2>1. /\ UNCHANGED <<now, events>>
        /\ hook' = [hook EXCEPT ![h] = Nothing]
        /\ acknowledged' =
             [acknowledged EXCEPT ![hook[h].session] = @ \cup {hook[h].segment}]
        /\ hook[h] # Nothing
    BY <1>2 DEF HookPublish, runtimeVars, storeVars, rowVars
  <2>2. \A t \in Session : \A x \in acknowledged'[t] : x.at <= now /\ x.payload \in Payloads(t)
    BY <1>0, <2>1 DEF Clock, TypeOK
  <2>3. \A g \in Hook : hook'[g] # Nothing => hook'[g] = hook[g]
    BY <1>0, <2>1 DEF TypeOK
  <2> QED
    BY <1>0, <2>1, <2>2, <2>3 DEF Clock
<1>3. ASSUME NEW h \in Hook, HookFault(h) \/ HookDie(h) PROVE Clock'
  <2>1. /\ UNCHANGED <<now, events, acknowledged>>
        /\ hook' = [hook EXCEPT ![h] = Nothing]
    BY <1>3 DEF HookFault, HookDie, runtimeVars, storeVars, rowVars, historyVars
  <2>2. \A g \in Hook : hook'[g] # Nothing => hook'[g] = hook[g]
    BY <1>0, <2>1 DEF TypeOK
  <2> QED
    BY <1>0, <2>1, <2>2 DEF Clock
<1>4. ASSUME NEW r \in Recoverer, NEW x \in Aggregate(r), WriteEvent(r, x) PROVE Clock'
  <2>1. /\ UNCHANGED <<now, hook, acknowledged>>
        /\ \A e \in events' \ events : e.at = x.at
    BY <1>4 DEF WriteEvent, runtimeVars, hookVars, historyVars
  <2>2. NoHookRuns
    <3>1. RecoverStep(r)
      BY <1>4 DEF RecoverStep, FinalizeStep
    <3> QED
      BY <1>0, <3>1, RecoverAlone
  <2>3. run[r].session \in Session /\ x \in acknowledged[run[r].session]
    <3>1. ~Past(r, {"idle", "next"})
      BY <1>4 DEF WriteEvent, At, Past
    <3> QED
      BY <3>1 DEF IInv, Located, Keeping, HasRead, Aggregate, Accepted
  <2>4. \A e \in events' : e.at <= now
    BY <1>0, <2>1, <2>3 DEF Clock
  <2> QED
    BY <1>0, <2>1, <2>2, <2>4 DEF Clock, NoHookRuns
<1>5. CASE UNCHANGED <<now, hook, acknowledged, events>>
  BY <1>0, <1>5 DEF Clock
<1> QED
  BY <1>0, <1>1, <1>2, <1>3, <1>4, <1>5, Changes DEF HookMoves

LEMMA SpoolNext ==
  ASSUME IInv, Keeping, RowsKept, [Next]_vars
  PROVE  SpoolKept'
<1>0. TypeOK /\ TypeInv /\ SpoolKept
  BY DEF IInv, Keeping, TypeInv
<1>1. ASSUME NEW h \in Hook, HookPublish(h) PROVE SpoolKept'
  <2>1. /\ hook[h].session \in Session
        /\ trajectories' = trajectories /\ quarantine' = quarantine
        /\ spool' = [spool EXCEPT ![hook[h].session] = @ \cup {hook[h].segment}]
        /\ acknowledged' =
             [acknowledged EXCEPT ![hook[h].session] = @ \cup {hook[h].segment}]
    BY <1>0, <1>1 DEF HookPublish, storeVars, rowVars, TypeOK
  <2>2. \A s \in Session : StoredSomewhere(s)' <=> StoredSomewhere(s)
    BY <2>1 DEF StoredSomewhere, Stored
  <2> QED
    BY <1>0, <2>1, <2>2 DEF SpoolKept, TypeOK
<1>2. ASSUME NEW r \in Recoverer, NEW f, ReadDamaged(r, f) PROVE SpoolKept'
  <2>0. PICK s \in Session : s = run[r].session
    BY <1>2 DEF ReadDamaged, At, IInv, Located, Past
  <2>1. /\ spool' = [spool EXCEPT ![s] = @ \ {f}]
        /\ quarantine' = [quarantine EXCEPT ![s] = @ \cup {f}]
        /\ acknowledged' = acknowledged /\ trajectories' = trajectories
    BY <1>2, <2>0 DEF ReadDamaged, historyVars, storeVars, rowVars
  <2>2. \A t \in Session : StoredSomewhere(t)' <=> StoredSomewhere(t)
    BY <2>1 DEF StoredSomewhere, Stored
  <2> QED
    BY <1>0, <2>1, <2>2 DEF SpoolKept, TypeOK
<1>3. ASSUME NEW r \in Recoverer, NEW f, DiscardSegment(r, f) PROVE SpoolKept'
  <2>0. PICK s \in Session : s = run[r].session
    BY <1>3 DEF DiscardSegment, IInv, Located, Past, At
  <2>1. /\ f \in spool[s] /\ Past(r, {"discard"})
        /\ spool' = [spool EXCEPT ![s] = @ \ {f}]
        /\ acknowledged' = acknowledged /\ quarantine' = quarantine
    BY <1>3, <2>0 DEF DiscardSegment, Past, At, historyVars
  <2>2. ~StoredSomewhere(s) => f \in quarantine[s]
    <3>1. CASE Aggregate(r) = {}
      <4>1. run[r].verified = {}
        BY <1>0, <3>1, AcceptedEmpty DEF Aggregate, TypeOK, RunType
      <4>2. ~StoredSomewhere(s) => acknowledged[s] \subseteq quarantine[s]
        BY <2>0, <2>1, <4>1 DEF Keeping, HasRead, Past
      <4> QED
        BY <1>0, <2>1, <4>2 DEF SpoolKept
    <3>2. CASE run[r].identity \in [repository : Repository, head : Nat] /\ Stored(Sid(r))
      BY <2>0, <3>2 DEF StoredSomewhere, Sid
    <3> QED
      BY <2>1, <3>1, <3>2 DEF IInv, DiscardJustified
  <2>3. \A t \in Session : StoredSomewhere(t) => StoredSomewhere(t)'
    BY <1>0, StoredStays
  <2>4. ASSUME NEW t \in Session
        PROVE  /\ spool'[t] \subseteq acknowledged'[t]
               /\ ~StoredSomewhere(t)' => acknowledged'[t] \subseteq spool'[t] \cup quarantine'[t]
    <3>1. CASE t = s
      BY <1>0, <2>1, <2>2, <2>3, <3>1 DEF SpoolKept, TypeOK
    <3>2. CASE t # s
      BY <1>0, <2>1, <2>3, <3>2 DEF SpoolKept, TypeOK
    <3> QED
      BY <3>1, <3>2
  <2> QED
    BY <2>4 DEF SpoolKept
<1>4. CASE UNCHANGED <<spool, acknowledged>>
  <2>1. \A t \in Session : StoredSomewhere(t) => StoredSomewhere(t)'
    BY <1>0, StoredStays
  <2>2. \A t \in Session : quarantine[t] \subseteq quarantine'[t]
    BY <1>0, QuarantineKept
  <2> QED
    BY <1>0, <1>4, <2>1, <2>2 DEF SpoolKept
<1> QED
  BY <1>0, <1>1, <1>2, <1>3, <1>4, Changes

LEMMA ReadLeaves ==
  ASSUME TypeOK, NEW r \in Recoverer, Leave(r) \/ EndRun(r)
  PROVE  HasRead(r)'
<1>1. run'[r].pc \in {"idle", "next"} /\ run'[r].verified = {}
  BY DEF Leave, EndRun, Fresh, Idle, TypeOK
<1> QED
  BY <1>1 DEF HasRead, Past

\* A step that keeps what a process has read.
LEMMA ReadKept ==
  ASSUME TypeInv, RowsKept, [Next]_vars, acknowledged' = acknowledged,
         NEW r \in Recoverer, HasRead(r), ~Past(r, {"idle", "next"}),
         /\ run'[r].session = run[r].session
         /\ run'[r].unread = run[r].unread
         /\ run'[r].verified = run[r].verified,
         run'[r].pc \notin {"idle", "next"},
         run'[r].pc # "read" => run[r].unread = {},
         run'[r].pc \in Identified =>
           /\ run'[r].identity.repository = WorkingDirectory(Aggregate(r))
           /\ ~TooLarge(Aggregate(r))
  PROVE  HasRead(r)'
<1>1. run[r].session \in Session
  BY DEF TypeInv, Located
<1>2. StoredSomewhere(run[r].session) => StoredSomewhere(run[r].session)'
  <2>1. PICK s \in Session : s = run[r].session
    BY <1>1
  <2>2. StoredSomewhere(s) => StoredSomewhere(s)'
    BY StoredStays
  <2> QED
    BY <2>1, <2>2 DEF StoredSomewhere, Stored
<1>6. quarantine[run[r].session] \subseteq quarantine'[run[r].session]
  BY <1>1, QuarantineKept DEF TypeInv
<1>3. Aggregate(r)' = Aggregate(r)
  BY DEF Aggregate
<1>4. TooLarge(Aggregate(r))' <=> TooLarge(Aggregate(r))
  BY <1>3
<1>5. WorkingDirectory(Aggregate(r))' = WorkingDirectory(Aggregate(r))
  BY <1>3
<1> QED
  BY <1>2, <1>6, <1>4, <1>5 DEF HasRead, Past

LEMMA HasReadNext ==
  ASSUME IInv, Keeping, RowsKept, [Next]_vars, NEW r \in Recoverer
  PROVE  HasRead(r)'
<1> USE DEF At
<1>0. /\ TypeOK /\ TypeInv /\ SpoolKept /\ Turns /\ HasRead(r)
      /\ run \in [Recoverer -> RunType]
  BY DEF IInv, Keeping, TypeInv, TypeOK
<1> DEFINE Same == /\ run'[r].session = run[r].session
                   /\ run'[r].unread = run[r].unread
                   /\ run'[r].verified = run[r].verified
<1>1. CASE run'[r] = run[r]
  <2>1. CASE Past(r, {"idle", "next"})
    BY <1>0, <1>1, <2>1 DEF HasRead, Past
  <2>2. CASE ~Past(r, {"idle", "next"})
    <3>1. ~ \E h \in Hook : HookPublish(h)
      BY <1>0, <2>2, HookAlone DEF HookPublish, NobodyRecovers, Past
    <3>2. acknowledged' = acknowledged
      BY <1>0, <3>1, Changes
    <3> QED
      BY <1>0, <1>1, <2>2, <3>2, ReadKept DEF HasRead, Past
  <2> QED
    BY <2>1, <2>2
<1>2. CASE ReadStep(r)
  <2>0. acknowledged' = acknowledged
    BY <1>2 DEF ReadStep, ListSegments, ReadIntact, ReadDamaged, ReadMissing, AggregateEmpty,
       AggregateTooLarge, RecordOversize, SkipOutside, Discover, DrainResidue, LeavePending,
       historyVars
  <2>1. ASSUME NEW s \in Session, ListSegments(r, s) PROVE HasRead(r)'
    <3>1. /\ run'[r].pc = "read" /\ run'[r].session = s
          /\ run'[r].unread = spool[s] /\ run'[r].verified = {}
          /\ UNCHANGED <<trajectories, quarantine>>
      BY <1>0, <2>1 DEF ListSegments, RunType, HasRead, Past, storeVars, rowVars, spoolVars
    <3>2. StoredSomewhere(s)' <=> StoredSomewhere(s)
      BY <3>1 DEF StoredSomewhere, Stored
    <3>3. ~StoredSomewhere(s)' => acknowledged[s] \subseteq spool[s] \cup quarantine[s]
      BY <1>0, <3>2 DEF SpoolKept
    <3>4. spool[s] \subseteq acknowledged[s]
      BY <1>0 DEF SpoolKept
    <3>5. StoredSomewhere(run[r].session)' <=> StoredSomewhere(s)'
      BY <3>1 DEF StoredSomewhere, Stored
    <3> QED
      BY <2>0, <3>1, <3>3, <3>4, <3>5 DEF HasRead, Past, Identified
  <2>2. ASSUME NEW f \in run[r].unread, ReadIntact(r, f) \/ ReadDamaged(r, f)
        PROVE  HasRead(r)'
    <3>0. PICK s \in Session : s = run[r].session
      BY <2>2 DEF ReadIntact, ReadDamaged, IInv, Located, Past
    <3>1. /\ run[r].pc = "read" /\ run'[r].pc = "read" /\ run'[r].session = s
          /\ run'[r].unread \cup run'[r].verified \subseteq run[r].unread \cup run[r].verified
          /\ UNCHANGED trajectories
      BY <1>0, <2>2, <3>0 DEF ReadIntact, ReadDamaged, RunType, storeVars, rowVars
    <3>2. run[r].unread \cup run[r].verified \cup quarantine[s]
            \subseteq run'[r].unread \cup run'[r].verified \cup quarantine'[s]
      BY <1>0, <2>2, <3>0 DEF ReadIntact, ReadDamaged, RunType, TypeOK, spoolVars
    <3>3. StoredSomewhere(s)' <=> StoredSomewhere(s)
      BY <3>1 DEF StoredSomewhere, Stored
    <3>4. StoredSomewhere(run[r].session)' <=> StoredSomewhere(s)'
      BY <3>1 DEF StoredSomewhere, Stored
    <3> QED
      BY <1>0, <2>0, <3>0, <3>1, <3>2, <3>3, <3>4 DEF HasRead, Past, Identified
  <2>4. ASSUME NEW f \in run[r].unread, ReadMissing(r, f) PROVE HasRead(r)'
    BY <1>0, <2>4, ReadLeaves DEF ReadMissing
  <2>5. CASE AggregateEmpty(r)
    <3>1. /\ Same /\ run[r].pc = "read" /\ run'[r].pc = "discard" /\ run[r].unread = {}
      BY <1>0, <2>5 DEF AggregateEmpty, GoTo, RunType
    <3> QED
      BY <1>0, <2>0, <3>1, ReadKept DEF Past, Identified
  <2>6. CASE AggregateTooLarge(r)
    <3>1. CASE Leave(r)
      BY <1>0, <3>1, ReadLeaves
    <3>2. CASE GoTo(r, "oversize")
      <4>1. /\ Same /\ run[r].pc = "read" /\ run'[r].pc = "oversize" /\ run[r].unread = {}
        BY <1>0, <2>6, <3>2 DEF AggregateTooLarge, GoTo, RunType
      <4> QED
        BY <1>0, <2>0, <4>1, ReadKept DEF Past, Identified
    <3> QED
      BY <2>6, <3>1, <3>2 DEF AggregateTooLarge
  <2>7. CASE RecordOversize(r) \/ SkipOutside(r) \/ LeavePending(r)
    BY <1>0, <2>7, ReadLeaves DEF RecordOversize, SkipOutside, LeavePending
  <2>8. CASE Discover(r)
    <3>1. /\ Same /\ run[r].pc = "read" /\ run'[r].pc \in {"finalize", "open"}
          /\ run[r].unread = {} /\ ~TooLarge(Aggregate(r))
          /\ run'[r].identity.repository = WorkingDirectory(Aggregate(r))
      BY <1>0, <2>8 DEF Discover, Aggregated, RunType
    <3> QED
      BY <1>0, <2>0, <3>1, ReadKept DEF Past
  <2>9. CASE DrainResidue(r)
    <3>1. /\ Same /\ run[r].pc = "open" /\ run'[r].pc = "discard"
      BY <1>0, <2>9 DEF DrainResidue, GoTo, RunType
    <3>2. run[r].unread = {}
      BY <1>0, <3>1 DEF HasRead, Past
    <3> QED
      BY <1>0, <2>0, <3>1, <3>2, ReadKept DEF Past, Identified
  <2> QED
    BY <1>2, <2>1, <2>2, <2>4, <2>5, <2>6, <2>7, <2>8, <2>9 DEF ReadStep
<1>3. CASE FinalizeStep(r)
  <2>1. /\ acknowledged' = acknowledged
        /\ Past(r, Identified) /\ ~Past(r, {"idle", "next", "read"})
    BY <1>3 DEF FinalizeStep, EnsureRepository, PutRepository, CheckExisting, WriteSession,
       PutSession, ListEvents, SkipEvent, WriteEvent, PutTrajectory, RecordQuarantined,
       RecordDuplicates, ListStoredEvents, PutMetrics, Past, Identified, historyVars
  <2>2. \/ EndRun(r)
        \/ /\ Same /\ run'[r].identity = run[r].identity
           /\ run'[r].pc \in Identified \cup {"discard"}
    <3>1. CASE EnsureRepository(r) \/ PutRepository(r) \/ CheckExisting(r) \/ WriteSession(r)
               \/ PutSession(r) \/ RecordDuplicates(r) \/ PutMetrics(r)
      <4>1. EndRun(r) \/ \E label \in Identified \cup {"discard"} : GoTo(r, label)
        BY <3>1 DEF EnsureRepository, PutRepository, CheckExisting, WriteSession,
           PutSession, RecordDuplicates, PutMetrics, Identified
      <4> QED
        BY <1>0, <4>1 DEF GoTo, RunType
    <3>2. CASE ListEvents(r) \/ ListStoredEvents(r)
      <4>1. CASE ListEvents(r)
        <5>1. /\ Same /\ run'[r].identity = run[r].identity /\ run'[r].pc = "events"
          BY <1>0, <4>1 DEF ListEvents, RunType
        <5> QED
          BY <5>1 DEF Identified
      <4>2. CASE ListStoredEvents(r)
        <5>1. /\ Same /\ run'[r].identity = run[r].identity /\ run'[r].pc = "put metrics"
          BY <1>0, <4>2 DEF ListStoredEvents, RunType
        <5> QED
          BY <5>1 DEF Identified
      <4> QED
        BY <3>2, <4>1, <4>2
    <3>3. ASSUME NEW x \in Aggregate(r), SkipEvent(r, x) \/ WriteEvent(r, x)
          PROVE  \/ EndRun(r)
                 \/ /\ Same /\ run'[r].identity = run[r].identity
                    /\ run'[r].pc \in Identified \cup {"discard"}
      <4>1. EndRun(r) \/ (run[r].pc = "events" /\ run' = [run EXCEPT ![r].cursor = @ + 1])
        BY <3>3 DEF SkipEvent, WriteEvent
      <4>2. CASE run[r].pc = "events" /\ run' = [run EXCEPT ![r].cursor = @ + 1]
        <5>1. /\ Same /\ run'[r].identity = run[r].identity /\ run'[r].pc = "events"
          BY <1>0, <4>2 DEF RunType
        <5> QED
          BY <5>1 DEF Identified
      <4> QED
        BY <4>1, <4>2
    <3>4. CASE PutTrajectory(r) \/ RecordQuarantined(r)
      <4>1. \/ EndRun(r)
            \/ /\ Same /\ run'[r].identity = run[r].identity /\ run'[r].pc = "health"
        BY <1>0, <3>4 DEF PutTrajectory, RecordQuarantined, RunType
      <4> QED
        BY <4>1 DEF Identified
    <3> QED
      BY <1>3, <3>1, <3>2, <3>3, <3>4 DEF FinalizeStep
  <2>3. run[r].unread = {} /\ ~Past(r, {"idle", "next"})
    BY <1>0, <2>1 DEF HasRead, Past
  <2>4. ASSUME /\ Same /\ run'[r].identity = run[r].identity
               /\ run'[r].pc \in Identified \cup {"discard"}
        PROVE  HasRead(r)'
    <3>1. run'[r].pc \notin {"idle", "next", "read"}
      BY <2>4 DEF Identified
    <3>2. /\ run'[r].identity.repository = WorkingDirectory(Aggregate(r))
          /\ ~TooLarge(Aggregate(r))
      BY <1>0, <2>1, <2>3, <2>4 DEF HasRead
    <3> QED
      BY <1>0, <2>1, <2>3, <2>4, <3>1, <3>2, ReadKept
  <2> QED
    BY <1>0, <2>2, <2>4, ReadLeaves
<1>4. CASE DiscardStep(r)
  <2>1. run'[r] = run[r] \/ Leave(r) \/ EndRun(r)
    BY <1>4 DEF DiscardStep, DiscardSegment, DiscardTemporary, DiscardEnd, DiscardBlocked
  <2> QED
    BY <1>0, <1>1, <2>1, ReadLeaves
<1>5. CASE RecoverBegin(r)
  <2>1. run'[r].pc = "next" /\ run'[r].verified = {}
    BY <1>0, <1>5 DEF RecoverBegin, Fresh
  <2> QED
    BY <2>1 DEF HasRead, Past
<1>6. CASE RecoverEnd(r) \/ RecoverDie(r)
  BY <1>0, <1>6, ReadLeaves DEF RecoverEnd, RecoverDie
<1>7. ASSUME NEW q \in Recoverer \ {r}, RecoverBegin(q) \/ RecoverStep(q) \/ RecoverDie(q)
      PROVE  run'[r] = run[r]
  BY <1>0, <1>7, OneMoves
<1> QED
  BY <1>0, <1>1, <1>2, <1>3, <1>4, <1>5, <1>6, <1>7, Changes DEF RecoverStep

\* A process that stores a session holds everything that was acknowledged of it.
LEMMA HoldsAll ==
  ASSUME Premise, IInv, Regime, NEW r \in Recoverer, At(r, "events"), ~Stored(Sid(r))
  PROVE  /\ Sid(r) \in SessionId /\ run[r].session \in Session
         /\ Sid(r)[1] \in Homes(run[r].session) /\ Sid(r)[2] = run[r].session
         /\ ~StoredSomewhere(run[r].session)
         /\ run[r].verified = acknowledged[run[r].session]
         /\ run[r].verified \in SUBSET Segment /\ IsFiniteSet(run[r].verified)
         /\ WorkingDirectory(Aggregate(r)) \in Repository
         /\ ~TooLarge(Aggregate(r)) /\ Complete(Aggregate(r))
<1>0. run \in [Recoverer -> RunType]
  BY DEF IInv, TypeOK
<1>1. /\ run[r].session \in Session
      /\ run[r].identity \in [repository : Repository, head : Nat]
      /\ ~Past(r, {"idle", "next"}) /\ ~Past(r, {"read"}) /\ Past(r, Identified)
  BY DEF At, IInv, Located, Past, Identified
<1>2. /\ Sid(r) \in SessionId
      /\ Sid(r)[1] = run[r].identity.repository /\ Sid(r)[2] = run[r].session
  BY <1>1 DEF Sid, SessionId
<1>3. /\ run[r].verified \in SUBSET Segment /\ IsFiniteSet(run[r].verified)
      /\ Aggregate(r) \in SUBSET Segment /\ Aggregate(r) \subseteq run[r].verified
  BY <1>0 DEF IInv, FiniteState, RunType, Aggregate, Accepted
<1>4. HasRead(r) /\ quarantine[run[r].session] = {}
  BY <1>1 DEF Regime, Keeping, Undamaged
<1>5. /\ run[r].unread = {} /\ run[r].verified \subseteq acknowledged[run[r].session]
      /\ run[r].identity.repository = WorkingDirectory(Aggregate(r))
      /\ ~TooLarge(Aggregate(r))
  BY <1>1, <1>4 DEF HasRead
<1>6. \A x \in Aggregate(r) : x.payload \in Payloads(run[r].session)
  BY <1>1, <1>3, <1>5 DEF Regime, Clock
<1>7. Sid(r)[1] \in Homes(run[r].session)
  <2>1. WorkingDirectory(Aggregate(r)) # Outside
    BY <1>1, <1>5, PayloadAssumption
  <2> QED
    BY <1>2, <1>3, <1>5, <1>6, <2>1, WorkingDirectoryHome
<1>8. ~StoredSomewhere(run[r].session)
  <2>1. SUFFICES ASSUME NEW repository \in Repository, Stored(<<repository, run[r].session>>)
                 PROVE  FALSE
    BY DEF StoredSomewhere
  <2>2. repository \in Homes(run[r].session)
    BY <1>1, <2>1 DEF Regime, StoredHome, SessionId
  <2>3. repository = Sid(r)[1]
    BY <1>1, <1>7, <2>2 DEF Premise
  <2> QED
    BY <1>2, <2>1, <2>3 DEF Sid
<1>9. run[r].verified = acknowledged[run[r].session]
  BY <1>1, <1>4, <1>5, <1>8 DEF HasRead
<1>10. Complete(Aggregate(r))
  BY DEF At, IInv, Established, Past
<1> QED
  BY <1>1, <1>2, <1>3, <1>5, <1>7, <1>8, <1>9, <1>10

\* Its rows are then those of the accepted segments, each at its position.
LEMMA RowsWhole ==
  ASSUME Premise, IInv, Regime, NEW r \in Recoverer, PutTrajectory(r), ~Stored(Sid(r))
  PROVE  /\ \A e \in StoredEvents(Sid(r)) : RowOf(e, Aggregate(r))
         /\ \A x \in Aggregate(r) : \E e \in StoredEvents(Sid(r)) :
              /\ e.at = x.at
              /\ e.id = EventId(Sid(r), Position(Aggregate(r), x), x.payload)
<1>1. At(r, "events") /\ run[r].cursor = Cardinality(Aggregate(r))
  BY DEF PutTrajectory
<1>2. /\ Sid(r) \in SessionId /\ Sid(r)[2] = run[r].session
      /\ run[r].verified = acknowledged[run[r].session]
      /\ run[r].verified \in SUBSET Segment /\ IsFiniteSet(run[r].verified)
  BY <1>1, HoldsAll
<1>3. \A e \in StoredEvents(Sid(r)) : RowOf(e, Aggregate(r))
  BY <1>2 DEF Regime, RowsTaped, Aggregate
<1>4. Aggregate(r) \in SUBSET Segment /\ IsFiniteSet(Aggregate(r))
  BY <1>2, AcceptedFinite DEF Aggregate, Accepted
<1>5. ASSUME NEW x \in Aggregate(r)
      PROVE  \E e \in StoredEvents(Sid(r)) :
               /\ e.at = x.at
               /\ e.id = EventId(Sid(r), Position(Aggregate(r), x), x.payload)
  <2>1. Position(Aggregate(r), x) \in 0 .. run[r].cursor - 1
    BY <1>1, <1>4, PositionBelow
  <2>2. PICK e \in StoredEvents(Sid(r)) : e.id.sequence = Position(Aggregate(r), x)
    BY <1>1, <2>1 DEF At, Past, IInv, CursorCovered
  <2>3. PICK y \in Aggregate(r) :
          /\ e.at = y.at /\ e.id.payload = y.payload
          /\ e.id.sequence = Position(Aggregate(r), y)
    BY <1>3 DEF RowOf
  <2>4. y = x
    BY <1>4, <2>2, <2>3, PositionInjective
  <2>5. e.id \in EventIdType /\ e.id.session = Sid(r)
    BY DEF IInv, TypeOK, StoredEvents
  <2>6. e.id = EventId(Sid(r), Position(Aggregate(r), x), x.payload)
    BY <2>3, <2>4, <2>5 DEF EventIdType, EventId
  <2> QED
    BY <2>3, <2>4, <2>6
<1> QED
  BY <1>3, <1>5

\* A trajectory is inserted by one process.
LEMMA Inserted ==
  ASSUME IInv, [Next]_vars, NEW sid \in SessionId, ~Stored(sid), Stored(sid)'
  PROVE  \E r \in Recoverer :
           /\ PutTrajectory(r) /\ sid = Sid(r) /\ events' = events
           /\ acknowledged' = acknowledged
           /\ trajectories' = [trajectories EXCEPT ![Sid(r)] =
                [events |-> EventIds(r), head |-> run[r].identity.head]]
           /\ trajectories'[sid].events = EventIds(r)
<1>1. trajectories' # trajectories
  BY DEF Stored
<1>2. PICK r \in Recoverer : PutTrajectory(r)
  BY <1>1, Changes
<1>3. /\ trajectories' = [trajectories EXCEPT ![Sid(r)] =
           [events |-> EventIds(r), head |-> run[r].identity.head]]
      /\ events' = events /\ acknowledged' = acknowledged
  BY <1>1, <1>2 DEF PutTrajectory, historyVars
<1>4. sid = Sid(r)
  BY <1>1, <1>3 DEF Stored, IInv, TypeOK
<1>5. trajectories'[sid].events = EventIds(r)
  BY <1>3, <1>4 DEF IInv, TypeOK
<1> QED
  BY <1>2, <1>3, <1>4, <1>5

LEMMA StoredHomeNext ==
  ASSUME Premise, IInv, Regime, RowsKept, [QuietNext]_vars
  PROVE  StoredHome'
<1>1. ASSUME NEW sid \in SessionId, Stored(sid)' PROVE sid[1] \in Homes(sid[2])
  <2>1. CASE Stored(sid)
    BY <2>1 DEF Regime, StoredHome
  <2>2. CASE ~Stored(sid)
    <3>1. PICK r \in Recoverer : PutTrajectory(r) /\ sid = Sid(r)
      BY <1>1, <2>2, QuietStep, Inserted
    <3> QED
      BY <2>2, <3>1, HoldsAll DEF PutTrajectory
  <2> QED
    BY <2>1, <2>2
<1> QED
  BY <1>1 DEF StoredHome, Homes, Payloads

LEMMA RowsTapedNext ==
  ASSUME Premise, IInv, Regime, RowsKept, [QuietNext]_vars
  PROVE  RowsTaped'
<1>0. TypeOK /\ TypeInv /\ Clock /\ RowsTaped /\ [Next]_vars
  BY QuietStep DEF IInv, Regime, TypeInv
<1>1. \A sid \in SessionId : Stored(sid) => Stored(sid)'
  BY <1>0, KeptRows
<1>2. ASSUME NEW h \in Hook, HookPublish(h) PROVE RowsTaped'
  <2>0. PICK s \in Session, f \in Segment :
          hook[h] # Nothing /\ hook[h].session = s /\ hook[h].segment = f
    BY <1>0, <1>2 DEF HookPublish, TypeOK
  <2>1. /\ events' = events
        /\ acknowledged' = [acknowledged EXCEPT ![s] = @ \cup {f}]
        /\ \A e \in events : e.at < f.at
    BY <1>0, <1>2, <2>0 DEF HookPublish, storeVars, rowVars, Clock
  <2>2. ASSUME NEW sid \in SessionId, ~Stored(sid)', NEW e \in StoredEvents(sid)
        PROVE  RowOf(e, Accepted(acknowledged'[sid[2]]))
    <3>1. RowOf(e, Accepted(acknowledged[sid[2]])) /\ e.at < f.at /\ sid[2] \in Session
      BY <1>0, <1>1, <2>1, <2>2 DEF RowsTaped, StoredEvents, SessionId
    <3>2. CASE sid[2] = s
      <4>1. acknowledged'[s] = acknowledged[s] \cup {f} /\ acknowledged[s] \in SUBSET Segment
        BY <1>0, <2>1 DEF TypeOK
      <4>2. PICK x \in Accepted(acknowledged[s]) :
              /\ e.at = x.at /\ e.id.payload = x.payload
              /\ e.id.sequence = Position(Accepted(acknowledged[s]), x)
        BY <3>1, <3>2 DEF RowOf
      <4>3. /\ x \in Accepted(acknowledged[s] \cup {f})
            /\ Position(Accepted(acknowledged[s] \cup {f}), x)
                 = Position(Accepted(acknowledged[s]), x)
        BY <3>1, <4>1, <4>2, LaterSegment
      <4> QED
        BY <3>2, <4>1, <4>2, <4>3 DEF RowOf
    <3>3. CASE sid[2] # s
      <4>1. acknowledged'[sid[2]] = acknowledged[sid[2]]
        BY <1>0, <2>1, <3>1, <3>3 DEF TypeOK
      <4> QED
        BY <3>1, <4>1
    <3> QED
      BY <3>2, <3>3
  <2>3. \A sid : StoredEvents(sid)' = StoredEvents(sid)
    BY <2>1 DEF StoredEvents
  <2> QED
    BY <2>2, <2>3 DEF RowsTaped, RowOf, Accepted, Position
<1>3. ASSUME NEW r \in Recoverer, NEW x \in Aggregate(r), WriteEvent(r, x) PROVE RowsTaped'
  <2>1. PICK row : /\ row = [id |-> EventId(Sid(r), run[r].cursor, x.payload), at |-> x.at]
                   /\ events' \subseteq events \cup {row}
    BY <1>3 DEF WriteEvent
  <2>2. /\ acknowledged' = acknowledged /\ trajectories' = trajectories
        /\ At(r, "events") /\ run[r].cursor = Position(Aggregate(r), x)
    BY <1>3 DEF WriteEvent, AtCursor, historyVars
  <2>3. row.id.session = Sid(r) /\ row.at = x.at /\ row.id.payload = x.payload
        /\ row.id.sequence = Position(Aggregate(r), x)
    BY <2>1, <2>2 DEF EventId
  <2>4. ASSUME NEW sid \in SessionId, ~Stored(sid), NEW e \in StoredEvents(sid)'
        PROVE  RowOf(e, Accepted(acknowledged[sid[2]]))
    <3>1. CASE e \in events
      BY <1>0, <2>4, <3>1 DEF RowsTaped, StoredEvents
    <3>2. CASE e = row
      <4>1. sid = Sid(r)
        BY <2>3, <2>4, <3>2 DEF StoredEvents
      <4>2. Accepted(acknowledged[sid[2]]) = Aggregate(r)
        BY <2>2, <2>4, <4>1, HoldsAll DEF Aggregate
      <4> QED
        BY <2>3, <3>2, <4>2 DEF RowOf
    <3> QED
      BY <2>1, <2>4, <3>1, <3>2 DEF StoredEvents
  <2>5. \A sid : Stored(sid)' <=> Stored(sid)
    BY <2>2 DEF Stored
  <2> QED
    BY <2>2, <2>4, <2>5 DEF RowsTaped, RowOf, Accepted, Position
<1>4. CASE UNCHANGED <<events, acknowledged>>
  <2>1. \A sid : StoredEvents(sid)' = StoredEvents(sid)
    BY <1>4 DEF StoredEvents
  <2> QED
    BY <1>0, <1>1, <1>4, <2>1 DEF RowsTaped, RowOf, Accepted, Position
<1> QED
  BY <1>0, <1>2, <1>3, <1>4, Changes

LEMMA TrajectoryEventsNext ==
  ASSUME Premise, IInv, Regime, RowsKept, [QuietNext]_vars
  PROVE  TrajectoryEventsStored'
<1>1. ASSUME NEW sid \in SessionId, Stored(sid)', NEW id \in trajectories'[sid].events
      PROVE  \E e \in events' : e.id = id
  <2>1. CASE Stored(sid)
    <3>1. trajectories'[sid] = trajectories[sid]
      BY <2>1 DEF RowsKept
    <3>2. \E e \in events : e.id = id
      BY <1>1, <2>1, <3>1 DEF Regime, TrajectoryEventsStored
    <3> QED
      BY <3>2 DEF RowsKept
  <2>2. CASE ~Stored(sid)
    <3>1. PICK r \in Recoverer : /\ PutTrajectory(r) /\ sid = Sid(r) /\ events' = events
                                 /\ trajectories'[sid].events = EventIds(r)
      BY <1>1, <2>2, QuietStep, Inserted
    <3>2. PICK x \in Aggregate(r) :
            id = EventId(Sid(r), Position(Aggregate(r), x), x.payload)
      BY <1>1, <3>1 DEF EventIds
    <3>3. \E e \in StoredEvents(Sid(r)) : e.id = id
      BY <2>2, <3>1, <3>2, RowsWhole
    <3> QED
      BY <3>1, <3>3 DEF StoredEvents
  <2> QED
    BY <2>1, <2>2
<1> QED
  BY <1>1 DEF TrajectoryEventsStored

-----------------------------------------------------------------------------
(***************************************************************************)
(* What the regime guarantees.                                             *)
(***************************************************************************)
LEMMA RegimeInit == Init => Regime
<1> SUFFICES ASSUME Init PROVE Regime  OBVIOUS
<1>1. /\ events = {}
      /\ \A s \in Session : /\ spool[s] = {} /\ acknowledged[s] = {}
                            /\ damaged[s] = {} /\ quarantine[s] = {}
      /\ \A h \in Hook : hook[h] = Nothing
      /\ \A sid \in SessionId : ~Stored(sid)
      /\ \A r \in Recoverer : run[r].pc = "idle"
  BY DEF Init, Stored, Idle, Fresh
<1>2. Keeping
  BY <1>1 DEF Keeping, Turns, NobodyRecovers, At, SpoolKept, HasRead, Past
<1>3. Undamaged /\ Clock
  BY <1>1 DEF Undamaged, Clock
<1>4. StoredHome /\ RowsTaped /\ TrajectoryEventsStored
  BY <1>1 DEF StoredHome, RowsTaped, TrajectoryEventsStored, StoredEvents
<1> QED
  BY <1>2, <1>3, <1>4 DEF Regime

LEMMA KeepingNext ==
  ASSUME IInv, Keeping, [QuietNext]_vars
  PROVE  RowsKept /\ Keeping'
<1>1. [Next]_vars /\ TypeInv /\ Turns
  BY QuietStep DEF IInv, TypeInv, Keeping
<1>2. RowsKept
  BY <1>1, RowsOnlyGrow
<1>3. Turns' /\ SpoolKept' /\ \A r \in Recoverer : HasRead(r)'
  BY <1>1, <1>2, TurnsNext, SpoolNext, HasReadNext
<1> QED
  BY <1>2, <1>3 DEF Keeping

LEMMA RegimeNext ==
  ASSUME Premise, IInv, Regime, [QuietNext]_vars
  PROVE  Regime'
<1>1. [Next]_vars /\ Keeping /\ Clock /\ Undamaged
  BY QuietStep DEF Regime
<1>2. RowsKept /\ Keeping'
  BY <1>1, KeepingNext
<1>3. Undamaged'
  BY <1>1, UndamagedNext
<1>4. Clock'
  BY <1>1, <1>2, ClockNext DEF Keeping
<1>5. StoredHome' /\ RowsTaped' /\ TrajectoryEventsStored'
  BY <1>2, StoredHomeNext, RowsTapedNext, TrajectoryEventsNext
<1> QED
  BY <1>2, <1>3, <1>4, <1>5 DEF Regime

\* The quiet regime restricts the behaviours of the specification.
LEMMA QuietBehaviour == QuietSpec => Init /\ [][QuietNext]_vars
BY PTL DEF QuietSpec, QuietNext

LEMMA QuietIInv == QuietSpec => []IInv
<1>1. Init /\ [][QuietNext]_vars => Spec
  BY QuietStep, PTL DEF Spec
<1> QED
  BY <1>1, QuietBehaviour, Inductive, PTL

LEMMA KeepingInvariant == QuietSpec => []Keeping
<1>1. IInv /\ Keeping /\ [QuietNext]_vars => Keeping'
  BY KeepingNext
<1>2. Init => Keeping
  BY RegimeInit DEF Regime
<1> QED
  BY <1>1, <1>2, QuietBehaviour, QuietIInv, PTL

LEMMA QuietInvariant == ASSUME Premise PROVE QuietSpec => [](IInv /\ Regime)
<1>1. IInv /\ Regime /\ [QuietNext]_vars => Regime'
  BY RegimeNext
<1> QED
  BY <1>1, QuietBehaviour, QuietIInv, RegimeInit, PTL

\* While recovery and hooks take turns, a segment whose hook reported success is
\* in the spool or set aside until its session is stored: no death of a process,
\* no damage and no discard loses it (store.rs:156-217, segment.rs:317-326).
THEOREM NothingLost == QuietSpec => []AcknowledgedKept
<1>1. Keeping => AcknowledgedKept
  BY DEF Keeping, SpoolKept, StoredSomewhere, AcknowledgedKept
<1> QED
  BY <1>1, KeepingInvariant, PTL

\* Every event a trajectory names is a stored row, even when several runs wrote
\* them (finalize.rs:139-165 and 236-283).
THEOREM NamedEventsStored == ASSUME Premise PROVE QuietSpec => []TrajectoryEventsStored
<1>1. Regime => TrajectoryEventsStored
  BY DEF Regime
<1> QED
  BY <1>1, QuietInvariant, PTL

\* What a trajectory stands for, at the step that stores it.
LEMMA StoresAll ==
  ASSUME Premise, IInv, Regime, [Next]_vars, NEW sid \in SessionId, ~Stored(sid), Stored(sid)'
  PROVE  /\ Contents(sid)' = Accepted(acknowledged[sid[2]])
         /\ acknowledged' = acknowledged
<1>1. PICK r \in Recoverer :
        /\ PutTrajectory(r) /\ sid = Sid(r) /\ events' = events
        /\ acknowledged' = acknowledged
        /\ trajectories'[sid].events = EventIds(r)
  BY Inserted
<1>2. /\ Aggregate(r) = Accepted(acknowledged[sid[2]])
      /\ Aggregate(r) \in SUBSET Segment
  BY <1>1, HoldsAll DEF PutTrajectory, Aggregate, Accepted
<1>3. /\ \A e \in StoredEvents(sid) : RowOf(e, Aggregate(r))
      /\ \A x \in Aggregate(r) : \E e \in StoredEvents(sid) :
           e.at = x.at /\ e.id = EventId(sid, Position(Aggregate(r), x), x.payload)
  BY <1>1, RowsWhole
<1>4. StoredEvents(sid)' = StoredEvents(sid)
  BY <1>1 DEF StoredEvents
<1>5. Contents(sid)' = {[at |-> e.at, payload |-> e.id.payload] :
                          e \in {y \in StoredEvents(sid) : y.id \in EventIds(r)}}
  BY <1>1, <1>4 DEF Contents
<1>6. ASSUME NEW e \in StoredEvents(sid)
      PROVE  [at |-> e.at, payload |-> e.id.payload] \in Aggregate(r)
  <2>1. PICK x \in Aggregate(r) : e.at = x.at /\ e.id.payload = x.payload
    BY <1>3 DEF RowOf
  <2>2. x = [at |-> x.at, payload |-> x.payload]
    BY <1>2 DEF Segment
  <2> QED
    BY <2>1, <2>2
<1>7. ASSUME NEW x \in Aggregate(r)
      PROVE  \E e \in StoredEvents(sid) :
               e.id \in EventIds(r) /\ x = [at |-> e.at, payload |-> e.id.payload]
  <2>1. PICK e \in StoredEvents(sid) :
          e.at = x.at /\ e.id = EventId(sid, Position(Aggregate(r), x), x.payload)
    BY <1>3
  <2>2. e.id \in EventIds(r)
    BY <1>1, <2>1 DEF EventIds
  <2>3. e.id.payload = x.payload
    BY <2>1 DEF EventId
  <2>4. x = [at |-> x.at, payload |-> x.payload]
    BY <1>2 DEF Segment
  <2> QED
    BY <2>1, <2>2, <2>3, <2>4
<1>8. Contents(sid)' = Aggregate(r)
  BY <1>5, <1>6, <1>7
<1> QED
  BY <1>1, <1>2, <1>8

\* A session is stored whole: with everything its hooks acknowledged, less
\* adjacent repeats, whichever runs wrote its rows (finalize.rs:139-165).
THEOREM StoredWhole == ASSUME Premise PROVE QuietSpec => WholeSession
<1> DEFINE Whole == \A sid \in SessionId : ~Stored(sid) /\ Stored(sid)' =>
                      Accepted(acknowledged[sid[2]] \ quarantine[sid[2]]) \subseteq Contents(sid)'
<1>1. IInv /\ Regime /\ [QuietNext]_vars => Whole
  <2> SUFFICES ASSUME IInv, Regime, [QuietNext]_vars,
                      NEW sid \in SessionId, ~Stored(sid), Stored(sid)'
               PROVE  Accepted(acknowledged[sid[2]] \ quarantine[sid[2]]) \subseteq Contents(sid)'
    OBVIOUS
  <2>1. Contents(sid)' = Accepted(acknowledged[sid[2]])
    BY QuietStep, StoresAll
  <2>2. quarantine[sid[2]] = {}
    BY DEF Regime, Undamaged, SessionId
  <2>3. acknowledged[sid[2]] \ quarantine[sid[2]] = acknowledged[sid[2]]
    BY <2>2
  <2> QED
    BY <2>1, <2>3
<1> QED
  BY <1>1, QuietInvariant, QuietBehaviour, PTL DEF WholeSession

-----------------------------------------------------------------------------
(***************************************************************************)
(* The recorder implements the archive: its safety part.                   *)
(***************************************************************************)
\* A session is stored under one identifier, and what that stands for stays.
LEMMA OneHome ==
  ASSUME Premise, StoredHome, NEW s \in Session,
         NEW a \in Repository \X {s}, NEW b \in Repository \X {s}, Stored(a), Stored(b)
  PROVE  a = b
<1>1. a \in SessionId /\ b \in SessionId /\ a[2] = s /\ b[2] = s
      /\ a = <<a[1], s>> /\ b = <<b[1], s>>
  BY DEF SessionId
<1>2. a[1] = b[1]
  BY <1>1 DEF StoredHome, Premise
<1> QED
  BY <1>1, <1>2

LEMMA ArchivedOf ==
  ASSUME Premise, StoredHome, NEW s \in Session, NEW sid \in Repository \X {s}, Stored(sid)
  PROVE  ArchivedContents(s) = Contents(sid)
<1> DEFINE stored == {x \in Repository \X {s} : Stored(x)}
<1>1. stored # {} /\ ArchivedContents(s) = Contents(CHOOSE x \in stored : TRUE)
  BY DEF ArchivedContents
<1>2. \A x \in stored : x = sid
  BY OneHome
<1>3. (CHOOSE x \in stored : TRUE) = sid
  BY <1>2
<1> QED
  BY <1>1, <1>3

\* The same of the next state.
LEMMA ArchivedOfNext ==
  ASSUME Premise, StoredHome', NEW s \in Session, NEW sid \in Repository \X {s}, Stored(sid)'
  PROVE  ArchivedContents(s)' = Contents(sid)'
<1>1. ASSUME NEW x \in Repository \X {s}, Stored(x)' PROVE x = sid
  <2>1. /\ x \in SessionId /\ sid \in SessionId /\ x[2] = s /\ sid[2] = s
        /\ x = <<x[1], s>> /\ sid = <<sid[1], s>>
    BY DEF SessionId
  <2>2. x[1] = sid[1]
    BY <1>1, <2>1 DEF StoredHome, Homes, Payloads, Premise
  <2> QED
    BY <2>1, <2>2
<1>2. {x \in Repository \X {s} : Stored(x)}' = {sid}
  BY <1>1
<1>3. (CHOOSE x \in {sid} : TRUE) = sid
  OBVIOUS
<1> QED
  BY <1>2, <1>3 DEF ArchivedContents, Contents, StoredEvents

LEMMA ArchivedNothing ==
  ASSUME NEW s \in Session, ~StoredSomewhere(s)
  PROVE  ArchivedContents(s) = Nothing
<1>1. {x \in Repository \X {s} : Stored(x)} = {}
  BY DEF StoredSomewhere
<1> QED
  BY <1>1 DEF ArchivedContents

\* The contents of a stored session never change.
LEMMA ContentsKept ==
  ASSUME IInv, IInv', Regime, RowsKept, NEW sid \in SessionId, Stored(sid)
  PROVE  Contents(sid)' = Contents(sid)
<1>1. trajectories'[sid] = trajectories[sid] /\ events \subseteq events'
  BY DEF RowsKept
<1>2. ASSUME NEW e \in events', e.id \in trajectories[sid].events PROVE e \in events
  <2>1. PICK f \in events : f.id = e.id
    BY <1>2 DEF Regime, TrajectoryEventsStored
  <2>2. SequencesDense'
    BY DEF IInv
  <2>3. f = e
    BY <1>1, <2>1, <2>2 DEF SequencesDense
  <2> QED
    BY <2>3
<1>3. {x \in StoredEvents(sid)' : x.id \in trajectories'[sid].events}
        = {x \in StoredEvents(sid) : x.id \in trajectories[sid].events}
  BY <1>1, <1>2 DEF StoredEvents
<1> QED
  BY <1>3 DEF Contents

\* A session that is stored in no step keeps what it stands for.
LEMMA ArchivedKept ==
  ASSUME Premise, IInv, IInv', Regime, Regime', RowsKept, NEW s \in Session,
         StoredSomewhere(s) \/ ~StoredSomewhere(s)'
  PROVE  ArchivedContents(s)' = ArchivedContents(s)
<1>0. TypeInv /\ StoredHome /\ StoredHome'
  BY DEF IInv, TypeInv, Regime
<1>1. CASE StoredSomewhere(s)
  <2>1. PICK sid \in Repository \X {s} : Stored(sid)
    BY <1>1 DEF StoredSomewhere
  <2>2. sid \in SessionId
    BY DEF SessionId
  <2>3. Stored(sid)'
    BY <1>0, <2>1, <2>2, KeptRows
  <2>4. ArchivedContents(s) = Contents(sid) /\ Contents(sid)' = Contents(sid)
    BY <1>0, <2>1, <2>2, ArchivedOf, ContentsKept
  <2>5. ArchivedContents(s)' = Contents(sid)'
    BY <1>0, <2>3, ArchivedOfNext
  <2> QED
    BY <2>4, <2>5
<1>2. CASE ~StoredSomewhere(s) /\ ~StoredSomewhere(s)'
  <2>1. {x \in Repository \X {s} : Stored(x)'} = {}
    BY <1>2 DEF StoredSomewhere
  <2>2. ArchivedContents(s)' = Nothing
    BY <2>1 DEF ArchivedContents
  <2> QED
    BY <1>2, <2>2, ArchivedNothing
<1> QED
  BY <1>1, <1>2

\* The archive sums the same bytes.
LEMMA SameCeiling == ASSUME NEW A PROVE Promise!TooLarge(A) <=> TooLarge(A)
BY Zenon DEF TooLarge, Promise!TooLarge, MapThenSumSet, Promise!MapThenSumSet,
   MapThenFoldSet, Promise!MapThenFoldSet

\* A hook's success tapes its segment, a trajectory's insert archives its
\* session, and no other step shows.
LEMMA ArchiveStep ==
  ASSUME Premise, IInv, IInv', Regime, Regime', [QuietNext]_vars
  PROVE  [Promise!Next]_(Promise!vars)
<1> DEFINE archived == [s \in Session |-> ArchivedContents(s)]
<1>0. TypeOK /\ TypeInv /\ [Next]_vars /\ StoredHome'
  BY QuietStep DEF IInv, TypeInv, Regime
<1>1. RowsKept
  BY <1>0, RowsOnlyGrow
<1>2. ASSUME NEW sid \in SessionId, ~Stored(sid), Stored(sid)' PROVE Promise!Next
  <2>1. PICK r \in Recoverer :
          /\ PutTrajectory(r) /\ sid = Sid(r)
          /\ trajectories' = [trajectories EXCEPT ![Sid(r)] =
               [events |-> EventIds(r), head |-> run[r].identity.head]]
    BY <1>0, <1>2, Inserted
  <2>2. PICK s \in Session : s = sid[2] /\ s = run[r].session /\ sid \in Repository \X {s}
    BY <1>2, <2>1 DEF Sid, SessionId
  <2>3. Contents(sid)' = Accepted(acknowledged[s]) /\ acknowledged' = acknowledged
    BY <1>0, <1>2, <2>2, StoresAll
  <2>4. /\ ~StoredSomewhere(s) /\ Aggregate(r) = Accepted(acknowledged[s])
        /\ WorkingDirectory(Aggregate(r)) \in Repository
        /\ ~TooLarge(Aggregate(r)) /\ Complete(Aggregate(r))
    BY <1>2, <2>1, <2>2, HoldsAll DEF PutTrajectory, Aggregate
  <2>5. archived[s] = Nothing
    BY <2>4, ArchivedNothing
  <2>6. Promise!Archivable(s)
    <3>1. Promise!Accepted(acknowledged[s]) = Aggregate(r)
      BY <2>4 DEF Accepted, Promise!Accepted, Repeats, Promise!Repeats, Before, Promise!Before
    <3>2. Promise!Complete(Aggregate(r))
      BY <2>4 DEF Complete, Promise!Complete
    <3>3. ~Promise!TooLarge(Aggregate(r))
      BY <2>4, SameCeiling
    <3>4. Promise!WorkingDirectory(Aggregate(r)) = WorkingDirectory(Aggregate(r))
      BY DEF WorkingDirectory, Promise!WorkingDirectory, IsFirst, Promise!IsFirst, Before,
         Promise!Before
    <3>5. WorkingDirectory(Aggregate(r)) # Outside
      BY <2>4, PayloadAssumption
    <3> QED
      BY <3>1, <3>2, <3>3, <3>4, <3>5 DEF Promise!Archivable
  <2>7. archived' = [archived EXCEPT ![s] = Accepted(acknowledged[s])]
    <3>1. ArchivedContents(s)' = Accepted(acknowledged[s])
      BY <1>0, <1>2, <2>2, <2>3, ArchivedOfNext
    <3>2. ASSUME NEW t \in Session, t # s PROVE ArchivedContents(t)' = ArchivedContents(t)
      <4>1. StoredSomewhere(t)' => StoredSomewhere(t)
        <5>1. ASSUME NEW repository \in Repository
              PROVE  trajectories'[<<repository, t>>] = trajectories[<<repository, t>>]
          <6>1. <<repository, t>> \in SessionId /\ <<repository, t>> # Sid(r)
            BY <2>1, <2>2, <3>2 DEF SessionId
          <6> QED
            BY <1>0, <2>1, <6>1 DEF TypeOK
        <5> QED
          BY <5>1 DEF StoredSomewhere, Stored
      <4> QED
        BY <1>1, <4>1, ArchivedKept
    <3> QED
      BY <3>1, <3>2
  <2> HIDE DEF archived
  <2>8. archived' = [archived EXCEPT ![s] = Promise!Accepted(acknowledged[s])]
    BY <2>7 DEF Accepted, Promise!Accepted, Repeats, Promise!Repeats, Before, Promise!Before
  <2>9. Promise!Store(s)
    BY <2>3, <2>5, <2>6, <2>8 DEF Promise!Store, archived
  <2> QED
    BY <2>9 DEF Promise!Next
<1>3. CASE \A sid \in SessionId : Stored(sid)' => Stored(sid)
  <2>1. \A s \in Session : ArchivedContents(s)' = ArchivedContents(s)
    <3>1. \A s \in Session : StoredSomewhere(s)' => StoredSomewhere(s)
      BY <1>3 DEF StoredSomewhere, SessionId
    <3> QED
      BY <1>1, <3>1, ArchivedKept
  <2>2. archived' = archived
    BY <2>1
  <2>3. ASSUME NEW h \in Hook, HookPublish(h) PROVE Promise!Next
    <3>1. PICK s \in Session, f \in Segment :
            hook[h] # Nothing /\ hook[h].session = s /\ hook[h].segment = f
      BY <1>0, <2>3 DEF HookPublish, TypeOK
    <3>2. acknowledged' = [acknowledged EXCEPT ![s] = @ \cup {f}]
      BY <2>3, <3>1 DEF HookPublish
    <3>3. f \in UNION {acknowledged'[t] : t \in Session}
      BY <1>0, <3>2 DEF TypeOK
    <3>4. Promise!Tape(s, f)
      BY <2>2, <3>2 DEF Promise!Tape
    <3> QED
      BY <3>3, <3>4 DEF Promise!Next, Promise!TapeSome
  <2>4. CASE acknowledged' = acknowledged
    BY <2>2, <2>4 DEF Promise!vars
  <2> QED
    BY <1>0, <2>3, <2>4, Changes
<1> QED
  BY <1>2, <1>3

\* What the recorder promises: in the quiet regime each session is archived at
\* most once, in one step, with everything that was taped of it and nothing
\* else, and what is archived never changes (the safety part of
\* ImplementsArchive; that a complete session is archived in the end is a
\* property of the runs).
THEOREM ArchiveSafety ==
  ASSUME Premise
  PROVE  QuietSpec => Promise!Init /\ [][Promise!Next]_(Promise!vars)
<1>1. Init => Promise!Init
  <2> SUFFICES ASSUME Init PROVE Promise!Init  OBVIOUS
  <2>1. acknowledged = [s \in Session |-> {}]
    BY DEF Init
  <2>2. \A s \in Session : ArchivedContents(s) = Nothing
    <3>1. \A s \in Session : ~StoredSomewhere(s)
      BY DEF Init, StoredSomewhere, Stored, SessionId
    <3> QED
      BY <3>1, ArchivedNothing
  <2> QED
    BY <2>1, <2>2 DEF Promise!Init
<1>2. IInv /\ IInv' /\ Regime /\ Regime' /\ [QuietNext]_vars => [Promise!Next]_(Promise!vars)
  BY ArchiveStep
<1> QED
  BY <1>1, <1>2, QuietInvariant, QuietBehaviour, PTL
=============================================================================
