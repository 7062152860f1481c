------------------------------- MODULE History -------------------------------
(***************************************************************************)
(* `corpus import-claude`: which transcripts of a project directory would  *)
(* be imported.  Claude Code goes on appending to the transcripts of its   *)
(* live sessions while they are read, and a transcript is read twice: for  *)
(* its digest, and again, line by line, for what it says.                  *)
(*                                                                         *)
(* A transcript only grows, so a digest stands for the number of lines and *)
(* half lines that it covers.  Nothing is persisted, and the set of the    *)
(* digests imported earlier is always empty.                               *)
(***************************************************************************)
EXTENDS Integers, Sequences, FiniteSets, Functions, SequencesExt

CONSTANTS
  Transcript,      \* the *.jsonl files of the project directory
  PathOrder,       \* [Transcript -> Nat], injective: the order of their paths
  Subagents,       \* those in a subagents/ directory
  Records,         \* records that Claude Code writes
  MaxLines,        \* the ceiling on the length of a file
  MaxRecords,      \* bound: records in all files
  MaxScans         \* bound: scans

\* A record without a member has the value "" for it.  meta is the type of a
\* synthetic user record; garbage is a line that is no object, and long one
\* beyond the ceiling.  cwd tells what lies in the repository from the rest.
ASSUME HistoryAssumption ==
  /\ IsFiniteSet(Transcript)
  /\ PathOrder \in [Transcript -> Nat]
  /\ \A f, g \in Transcript : PathOrder[f] = PathOrder[g] => f = g
  /\ Subagents \subseteq Transcript
  /\ {MaxLines, MaxRecords, MaxScans} \subseteq Nat
  /\ \A r \in Records :
       /\ r.form \in {"object", "garbage", "long"}
       /\ r.type \in {"user", "meta", "assistant", "other"}
       /\ r.sidechain \in BOOLEAN
       /\ r.cwd \in {"", "inside", "elsewhere"}

\* The series the importer's profile is for.
Supported == {"2.1.0", "2.1.1"}

VARIABLES
  file,       \* file[f]: the records of a transcript
  half,       \* half[f]: it ends in a line that is still being written
  scans,      \* scans that have begun
  todo,       \* the transcripts the scan has still to read, in order
  reading,    \* the transcript it reads, and what it has gathered, or Idle
  accepted,   \* the sessions the scan accepts
  rejected    \* the files it does not, with reasons

importVars == <<file, half, scans, todo, reading, accepted, rejected>>

Idle == [path |-> "none"]

Covered(f) == <<Len(file[f]), half[f]>>

Lines == FoldFunction(LAMBDA records, n : n + Len(records), 0, file)

HistoryInit ==
  /\ file = [f \in Transcript |-> <<>>]
  /\ half = [f \in Transcript |-> FALSE]
  /\ scans = 0
  /\ todo = <<>>
  /\ reading = Idle
  /\ accepted = {}
  /\ rejected = {}

HistoryTypeOK ==
  /\ \A f \in Transcript : Range(file[f]) \subseteq Records
  /\ ToSet(todo) \subseteq Transcript \ Subagents
  /\ reading # Idle => reading.line \in 0 .. Len(file[reading.path])
  /\ \A r \in rejected : r.path \in Transcript
  /\ \A a \in accepted : a.path \in Transcript \ Subagents

-----------------------------------------------------------------------------

\* Claude Code begins a line, and ends it.
WriteHalf(f) ==
  /\ ~half[f]
  /\ Lines + Cardinality({g \in Transcript : half[g]}) < MaxRecords
  /\ half' = [half EXCEPT ![f] = TRUE]
  /\ UNCHANGED <<file, scans, todo, reading, accepted, rejected>>

WriteRest(f, r) ==
  /\ half[f]
  /\ file' = [file EXCEPT ![f] = Append(@, r)]
  /\ half' = [half EXCEPT ![f] = FALSE]
  /\ UNCHANGED <<scans, todo, reading, accepted, rejected>>

\* Every file behind those whose paths are less.
InPathOrder(files) ==
  [n \in 1 .. Cardinality(files) |->
     CHOOSE f \in files :
       Cardinality({g \in files : PathOrder[g] < PathOrder[f]}) = n - 1]

\* collect_transcripts: files of subagents are rejected by where they are.
ScanBegin ==
  /\ reading = Idle
  /\ todo = <<>>
  /\ scans < MaxScans
  /\ scans' = scans + 1
  /\ todo' = InPathOrder(Transcript \ Subagents)
  /\ accepted' = {}
  /\ rejected' = {[path |-> f, reason |-> "subagent_transcript"] : f \in Subagents}
  /\ UNCHANGED <<file, half, reading>>

RejectPath(f, reason) ==
  /\ rejected' = rejected \cup {[path |-> f, reason |-> reason]}
  /\ UNCHANGED accepted

\* The first reading: the size, and the digest of all there is.
Digest ==
  /\ reading = Idle
  /\ todo # <<>>
  /\ todo' = Tail(todo)
  /\ LET f == Head(todo)
     IN  IF Len(file[f]) > MaxLines
         THEN RejectPath(f, "file_too_large") /\ UNCHANGED reading
         ELSE /\ reading' = [path |-> f, digest |-> Covered(f), line |-> 0,
                             versions |-> {}, ids |-> {}, cwds |-> {}, turns |-> 0,
                             prompts |-> 0]
              /\ UNCHANGED <<accepted, rejected>>
  /\ UNCHANGED <<file, half, scans>>

Stated(value) == {value} \ {""}

\* Mutant: only the first version that is met is kept.
FirstVersion(gathered, r) ==
  [gathered EXCEPT !.line = @ + 1,
                   !.versions = IF @ = {} THEN Stated(r.version) ELSE @,
                   !.ids = @ \cup Stated(r.id),
                   !.cwds = @ \cup Stated(r.cwd),
                   !.turns = @ + (IF r.type = "assistant" THEN 1 ELSE 0),
                   !.prompts = @ + (IF r.type = "user" THEN 1 ELSE 0)]

\* observe.
Observe(gathered, r) ==
  [gathered EXCEPT !.line = @ + 1,
                   !.versions = @ \cup Stated(r.version),
                   !.ids = @ \cup Stated(r.id),
                   !.cwds = @ \cup Stated(r.cwd),
                   !.turns = @ + (IF r.type = "assistant" THEN 1 ELSE 0),
                   !.prompts = @ + (IF r.type = "user" THEN 1 ELSE 0)]

\* A line of the second reading.
ReadLine ==
  /\ reading # Idle
  /\ reading.line < Len(file[reading.path])
  /\ LET r == file[reading.path][reading.line + 1]
         Refuse(reason) == RejectPath(reading.path, reason) /\ reading' = Idle
     IN  CASE r.form = "long"    -> Refuse("line_too_large")
           [] r.form = "garbage" -> Refuse("malformed_record")
           [] r.sidechain        -> Refuse("sidechain_record")
           [] OTHER -> /\ reading' = Observe(reading, r)
                       /\ UNCHANGED <<accepted, rejected>>
  /\ UNCHANGED <<file, half, scans, todo>>

\* finish: what speaks against the session, in the order it is looked for.
Refusal(gathered) ==
  CASE gathered.versions = {}                      -> "missing_version_marker"
    [] Cardinality(gathered.versions) > 1          -> "mixed_version_markers"
    [] ~(gathered.versions \subseteq Supported)    -> "unsupported_version"
    [] gathered.ids = {}                           -> "missing_session_id"
    [] Cardinality(gathered.ids) > 1               -> "mixed_session_ids"
    [] gathered.cwds # {"inside"}                  -> "repository_mismatch"
    [] gathered.turns = 0                          -> "no_agent_activity"
    [] OTHER                                       -> "none"

\* The end of the file: half a line does not parse.
ReadEnd ==
  /\ reading # Idle
  /\ reading.line = Len(file[reading.path])
  /\ LET f == reading.path
         reason == IF half[f] THEN "malformed_record" ELSE Refusal(reading)
     IN  IF reason # "none" THEN RejectPath(f, reason)
         ELSE /\ accepted' = accepted \cup
                   {[path |-> f, digest |-> reading.digest, lines |-> reading.line,
                     version |-> CHOOSE v \in reading.versions : TRUE,
                     session |-> CHOOSE i \in reading.ids : TRUE,
                     turns |-> reading.turns]}
              /\ UNCHANGED rejected
  /\ reading' = Idle
  /\ UNCHANGED <<file, half, scans, todo>>

\* A file that is gone, that cannot be opened, or that ends inside a character.
Unreadable ==
  /\ \/ /\ reading = Idle
        /\ todo # <<>>
        /\ RejectPath(Head(todo), "unreadable")
        /\ todo' = Tail(todo)
     \/ /\ reading # Idle
        /\ RejectPath(reading.path, "unreadable")
        /\ UNCHANGED todo
  /\ reading' = Idle
  /\ UNCHANGED <<file, half, scans>>
=============================================================================
