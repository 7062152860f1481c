------------------------------- MODULE Qualify -------------------------------
(***************************************************************************)
(* `corpus qualify`: which of the recorded trajectories count.             *)
(*                                                                         *)
(* The verdict is a function of one snapshot of the database, the one an   *)
(* export takes: db.session, db.events, db.trajectory, db.metrics and      *)
(* db.annotation, each by session, because a trajectory's identifier is    *)
(* derived from its session's.  A row that is not there is Nothing.        *)
(***************************************************************************)
EXTENDS Metrics, FiniteSets, FiniteSetsExt

CONSTANTS
  Session,   \* the sessions of one repository
  Order,     \* [Session -> Nat], injective: the order of their trajectories' ids
  Nothing    \* no row

ASSUME QualifyAssumption ==
  /\ IsFiniteSet(Session)
  /\ Order \in [Session -> Nat]
  /\ \A s, t \in Session : Order[s] = Order[t] => s = t

MainSessionSources == {"recorded", "imported"}

Reasons == {"missing_session", "incomplete", "provenance", "missing_metrics",
            "recorder_loss", "missing_annotation", "outcome_unknown",
            "duplicate_content"}

Recorded(db) == {s \in Session : db.trajectory[s] # Nothing}

\* load_metrics: the metrics of every trajectory name the commit of both the
\* trajectory and its session, or the whole snapshot is refused.
SnapshotRefused(db) ==
  \E s \in Recorded(db) :
    /\ db.metrics[s] # Nothing
    /\ \/ db.metrics[s].head # db.trajectory[s].head
       \/ db.metrics[s].head # db.session[s].head

\* classify: the first reason that keeps a trajectory out, if any.
Classify(db, s) ==
  CASE db.session[s] = Nothing -> "missing_session"
    [] ~({db.session[s].source, db.trajectory[s].source} \subseteq MainSessionSources)
         -> "provenance"
    [] db.session[s].ended = Nothing -> "incomplete"
    [] db.metrics[s] = Nothing -> "missing_metrics"
    [] IsLossy(db.metrics[s]) -> "recorder_loss"
    [] db.annotation[s] = Nothing -> "missing_annotation"
    [] db.annotation[s] = "unknown" -> "outcome_unknown"
    [] OTHER -> "none"

Pending(db) == {s \in Recorded(db) : Classify(db, s) = "none"}

\* event_shapes_of: an event without its session, as a bag because the shapes
\* are sorted.
Shape(event) == <<event.kind, event.bytes, event.tool>>

\* content_key; the body of a session has no intent.
ContentKey(db, s) ==
  LET shapes == [i \in DOMAIN db.events[s] |-> Shape(db.events[s][i])]
  IN  <<db.session[s].head, ToBag(shapes)>>

\* Mutant: trajectories that are kept out count as seen.
SeenByAny(db, s) ==
  \E t \in Recorded(db) :
    Order[t] < Order[s] /\ ContentKey(db, t) = ContentKey(db, s)

\* The contents of the trajectories that were let in before this one.
Duplicate(db, s) ==
  \E t \in Pending(db) :
    Order[t] < Order[s] /\ ContentKey(db, t) = ContentKey(db, s)

Exclusion(db, s) ==
  IF s \notin Pending(db) THEN Classify(db, s)
  ELSE IF Duplicate(db, s) THEN "duplicate_content" ELSE "none"

\* assess.
Verdict(db) ==
  [recorded   |-> Cardinality(Recorded(db)),
   qualifying |-> {s \in Recorded(db) : Exclusion(db, s) = "none"},
   exclusions |-> [reason \in Reasons |->
                     Cardinality({s \in Recorded(db) : Exclusion(db, s) = reason})]]

\* The answer of the command, and of `corpus status`.
Answer(db, least, most) ==
  LET count == Cardinality(Verdict(db).qualifying)
  IN  IF SnapshotRefused(db) THEN "refused"
      ELSE IF count < least THEN "corpus_insufficient"
      ELSE IF count > most THEN "corpus_exceeds_max"
      ELSE "sufficient"
=============================================================================
