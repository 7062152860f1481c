---------------------------- MODULE MCRetention ----------------------------
(***************************************************************************)
(* A small instance of Retention for TLC: two sessions that ended in the   *)
(* same millisecond, so that the identifier breaks the tie, and one that   *)
(* is open.  The ceilings lie between the sums of their sizes.             *)
(***************************************************************************)
EXTENDS Retention, TLC

CONSTANTS A, B, C

MCIdOrder == A :> 0 @@ B :> 1 @@ C :> 2

MCEndedAt == A :> 5 @@ B :> 5 @@ C :> Open

MCSessionBytes == [s \in Session |-> 1]

MCTrajectoryBytes == A :> 2 @@ B :> 1 @@ C :> 1

\* Everything that ended, under a ceiling an annotated open session exceeds;
\* and by size alone.
MCPolicy == {[cutoff |-> 5, maxBytes |-> 2], [cutoff |-> 0, maxBytes |-> 3]}

\* Commands, operators and annotation identifiers are interchangeable.
Interchangeable ==
  Permutations(Command) \cup Permutations(Reason) \cup Permutations(AnnotationId)
=============================================================================
