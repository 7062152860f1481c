------------------------------- MODULE Corpus -------------------------------
(***************************************************************************)
(* The evidence of one repository as the corpus commands see it: recorded  *)
(* sessions that are qualified, transcripts that would be imported, and    *)
(* texts that are redacted before they become part of either.              *)
(***************************************************************************)
EXTENDS Evidence, History, Redaction

VARIABLES
  captured   \* a text on its way into a field, while it gets longer

vars == <<evidenceVars, importVars, captured>>

Init ==
  /\ EvidenceInit
  /\ HistoryInit
  /\ captured = <<>>

TypeOK ==
  /\ EvidenceTypeOK
  /\ HistoryTypeOK
  /\ captured \in Seq(Character)

Capture(c) ==
  /\ Len(captured) < scenario.typing
  /\ captured' = Append(captured, c)
  /\ UNCHANGED <<evidenceVars, importVars>>

\* The recorder, the importer and the text leave each other alone.
Recording == UNCHANGED <<importVars, captured>>
Importing == scenario.imports /\ UNCHANGED <<evidenceVars, captured>>

Next ==
  \/ \E s \in Session, i \in InputIndex : \E elapsed \in scenario.elapsed :
       Hook(s, i, elapsed) /\ Recording
  \/ Commit /\ Recording
  \/ \E s \in Session : \E lost \in SUBSET spool[s] : RecoverSession(s, lost) /\ Recording
  \/ \E s \in Session : StoreRows(s) /\ Recording
  \/ \E s \in Session, n \in 0..scenario.hooks : StoreRowsDies(s, n) /\ Recording
  \/ \E s \in Session : StoreMetrics(s) /\ Recording
  \/ \E s \in Session : RecoverDies(s) /\ Recording
  \/ \E s \in Session : \E status \in scenario.statuses : Annotate(s, status) /\ Recording
  \/ Importing /\ \E f \in Transcript : WriteHalf(f)
  \/ Importing /\ \E f \in Transcript, r \in Records : WriteRest(f, r)
  \/ Importing /\ ScanBegin
  \/ Importing /\ Digest
  \/ Importing /\ ReadLine
  \/ Importing /\ ReadEnd
  \/ Importing /\ Unreadable
  \/ \E c \in Character : Capture(c)

Spec == Init /\ [][Next]_vars

-----------------------------------------------------------------------------

\* The same text with other characters inside the blocks that the window holds.
Disguised(text) ==
  LET blocks == Matches(Window(text), IsBlock)
  IN  [k \in DOMAIN text |->
         IF text[k] = "a" /\ \E m \in blocks : k \in m[1]..m[2] THEN "b" ELSE text[k]]

\* A field is within its cap and says so when it is not all there, and what a
\* secret says that lies whole in the window makes no difference to the field:
\* redaction comes before the cut, so a secret across the cap leaves nothing.
RedactionSound ==
  LET field == Field(captured)
  IN  /\ Bytes(field.value) <= MaxFieldBytes
      /\ ~field.truncated => field.value = Rewrite(captured)
      /\ field = Field(Disguised(captured))

\* The milliseconds in which the agent works: after a prompt that opens a turn
\* and before the stop that closes it.
Working(rows) ==
  {t \in (Head(rows).at) .. (Last(rows).at - 1) :
     \E i, k \in DOMAIN rows :
       /\ i < k
       /\ rows[i].kind = "user_prompt"
       /\ rows[k].kind = "stop"
       /\ \A j \in (i + 1)..(k - 1) : rows[j].kind # "stop"
       /\ rows[i].at <= t
       /\ t < rows[k].at}

InTimeOrder(rows) == \A i, k \in DOMAIN rows : i < k => rows[i].at <= rows[k].at

\* The active duration of a session whose rows are in the order of their times
\* counts every millisecond of work once and no pause, so it is never longer
\* than the session; and the duration in the trajectory, if no run has died, is
\* that of the same turns and of one that was still open at the end.
ActiveIsWorkingTime ==
  \A s \in Session :
    LET rows == events[s]
        measured == metrics[s]
        open == {i \in DOMAIN rows :
                   /\ rows[i].kind = "user_prompt"
                   /\ \A j \in DOMAIN rows : j > i => rows[j].kind # "stop"}
        tail == IF open = {} THEN 0 ELSE Last(rows).at - rows[Min(open)].at
    IN  measured # Nothing /\ InTimeOrder(rows) =>
          /\ HasValue(measured.active) =>
               /\ measured.active.value = Cardinality(Working(rows))
               /\ measured.active.value <= measured.wall.value
          /\ deaths = 0 => trajectory[s].duration = Cardinality(Working(rows)) + tail

\* Each distinct content among the trajectories that nothing speaks against
\* counts once, whatever the order of the identifiers, and every other
\* trajectory is in one exclusion.  The whole snapshot is refused only when the
\* checkout moved between two recoveries that measured one session.
QualifyingDistinct ==
  LET verdict == Verdict(db)
  IN  /\ ~SnapshotRefused(db) =>
           /\ Cardinality(verdict.qualifying)
                = Cardinality({ContentKey(db, s) : s \in Pending(db)})
           /\ verdict.recorded
                = Cardinality(verdict.qualifying)
                    + MapThenSumSet(LAMBDA reason : verdict.exclusions[reason], Reasons)
      /\ SnapshotRefused(db) => head > 0

\* A session is accepted for what a beginning of its file says, at least as
\* long as the one that was digested, and without contradiction: one supported
\* version, one identifier, no sidechain, nothing outside of the repository.
\* A file is never both accepted and rejected.
ImportUnambiguous ==
  \A a \in accepted :
    LET read == SubSeq(file[a.path], 1, a.lines)
    IN  /\ a.digest[1] <= a.lines
        /\ a.lines <= Len(file[a.path])
        /\ \A i \in DOMAIN read :
             /\ read[i].version \in {"", a.version}
             /\ read[i].id \in {"", a.session}
             /\ read[i].cwd # "elsewhere"
             /\ ~read[i].sidechain
        /\ a.version \in Supported
        /\ \E i \in DOMAIN read : read[i].type = "assistant"
        /\ \A r \in rejected : r.path # a.path
=============================================================================
