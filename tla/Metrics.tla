------------------------------- MODULE Metrics -------------------------------
(***************************************************************************)
(* The cost of a session, computed twice: by the recorder from the         *)
(* segments it has read (SessionAggregate), and from the rows it has       *)
(* stored (compute_trace_metrics).                                         *)
(*                                                                         *)
(* Both walk the events in order and add up the turns, from a prompt to    *)
(* the next stop.  Times are those of a sorted list or of its rows, so no  *)
(* sum of turns is longer than the last of them and none overflows.        *)
(***************************************************************************)
EXTENDS Integers, Sequences, SequencesExt

\* No turn is open.
Closed == -1

\* Measured<T>: a value with its source, or the reason why there is none.
Exact(value, source) == [source |-> source, value |-> value]
Unknown(reason)      == [source |-> "unknown", reason |-> reason]

HasValue(measured) == measured.source # "unknown"

\* EventKind::describe: what the row of a hook's event says it is.
Describe(kind) ==
  CASE kind = "user-prompt-submit" -> "user_prompt"
    [] kind = "pre-tool-use"       -> "tool_call"
    [] kind = "session-start"      -> "session_start"
    [] kind = "stop"               -> "stop"
    [] kind = "session-end"        -> "session_end"
    [] OTHER                       -> "tool_result"

IsAgentToolCall(kind) == kind = "tool_call"

CountOf(events, Test(_)) == Len(SelectSeq(events, Test))

-----------------------------------------------------------------------------
(* aggregate_segments.                                                     *)

AddTurn(turns, e) ==
  CASE e.kind = "user-prompt-submit" ->
         [turns EXCEPT !.opened = IF @ = Closed THEN e.at ELSE @]
    [] e.kind = "stop" /\ turns.opened # Closed ->
         [total |-> turns.total + (e.at - turns.opened), opened |-> Closed]
    [] OTHER -> turns

\* A session that ended in the middle of a turn worked until its last event.
AggregateActive(segments) ==
  LET turns == FoldLeft(AddTurn, [total |-> 0, opened |-> Closed], segments)
  IN  IF turns.opened = Closed THEN turns.total
      ELSE turns.total + (Last(segments).at - turns.opened)

\* The intent is the first prompt that says something.
Aggregate(segments) ==
  LET stated == {k \in DOMAIN segments : /\ segments[k].kind = "user-prompt-submit"
                                         /\ segments[k].prompt # ""}
  IN  [turns    |-> CountOf(segments, LAMBDA e : e.kind = "user-prompt-submit"),
       intent   |-> IF stated = {} THEN "" ELSE segments[Min(stated)].prompt,
       started  |-> Head(segments).at,
       ended    |-> Last(segments).at,
       active   |-> AggregateActive(segments),
       wall     |-> Last(segments).at - Head(segments).at,
       results  |-> CountOf(segments, LAMBDA e : Describe(e.kind) = "tool_result"),
       failed   |-> CountOf(segments, LAMBDA e : e.failed)]

-----------------------------------------------------------------------------
(* compute_trace_metrics, of rows ordered by their sequence.               *)

\* Mutant: a stop leaves the turn open, so that the pause counts too.
CountPause(turns, e) ==
  CASE e.kind = "user_prompt" ->
         [turns EXCEPT !.opened = IF @ = Closed THEN e.at ELSE @]
    [] e.kind = "stop" /\ turns.opened # Closed ->
         [turns EXCEPT !.total = e.at - turns.opened, !.stopped = TRUE]
    [] OTHER -> turns

\* The rows are walked until a turn would end before it began.
CountTurn(turns, e) ==
  CASE turns.backwards -> turns
    [] e.kind = "user_prompt" ->
         [turns EXCEPT !.opened = IF @ = Closed THEN e.at ELSE @]
    [] e.kind = "stop" /\ turns.opened # Closed ->
         IF e.at < turns.opened THEN [turns EXCEPT !.backwards = TRUE]
         ELSE [turns EXCEPT !.total = @ + (e.at - turns.opened),
                            !.opened = Closed, !.stopped = TRUE]
    [] OTHER -> turns

ActiveDuration(ordered) ==
  LET none  == [total |-> 0, opened |-> Closed, stopped |-> FALSE, backwards |-> FALSE]
      turns == FoldLeft(CountTurn, none, ordered)
  IN  IF turns.backwards THEN Unknown("backwards_timestamp")
      ELSE IF ~turns.stopped THEN Unknown("no_stop_observed")
      ELSE Exact(turns.total, "stored_events")

WallDuration(ordered) ==
  LET span == Last(ordered).at - Head(ordered).at
  IN  IF span < 0 THEN Unknown("backwards_timestamp") ELSE Exact(span, "stored_events")

\* ceil(bytes / 4), of the retained bytes of all rows.
EstimateTokens(bytes) == (bytes + 3) \div 4

ObservedBytes(ordered) == FoldLeft(LAMBDA n, e : n + e.bytes, 0, ordered)

\* No rows are an error of finalize.  A row carries no exit code, so no result
\* counts as failed, and none is marked as truncated.
TraceMetrics(ordered, head, quarantined, duplicates) ==
  [active      |-> ActiveDuration(ordered),
   wall        |-> WallDuration(ordered),
   turns       |-> CountOf(ordered, LAMBDA e : e.kind = "user_prompt"),
   calls       |-> CountOf(ordered, LAMBDA e : IsAgentToolCall(e.kind)),
   failed      |-> 0,
   truncated   |-> 0,
   bytes       |-> ObservedBytes(ordered),
   tokens      |-> EstimateTokens(ObservedBytes(ordered)),
   quarantined |-> quarantined,
   duplicates  |-> duplicates,
   head        |-> head,
   count       |-> Len(ordered)]

\* RecorderHealth::is_lossy.
IsLossy(metrics) == metrics.truncated > 0 \/ metrics.quarantined > 0
=============================================================================
