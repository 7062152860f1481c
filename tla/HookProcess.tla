---------------------------- MODULE HookProcess ----------------------------
(***************************************************************************)
(* The life of "agent-jit hook ingest" processes, whoever spawned them.    *)
(*                                                                         *)
(* A process stores its event as one segment, or adds a line about its     *)
(* fault to the health spool, or keeps nothing at all, and in all three    *)
(* cases exits zero.  It can be killed at any time before that: by the     *)
(* bridge's timeout, by a signal, or because it never started.             *)
(*                                                                         *)
(* The health spool is a numbered series of files.  A process looks for    *)
(* the file that still has room and appends afterwards, so processes that  *)
(* look at the same time overfill a file.                                  *)
(***************************************************************************)
EXTENDS Integers, Sequences, FiniteSets, SequencesExt

CONSTANTS
  Hook,         \* the processes
  RotateAt,     \* lines after which a health file counts as full
  MaxFaults     \* bound: processes that fault

HealthFile == 1..(MaxFaults + 1)

VARIABLES
  stage,   \* stage[h]: not spawned, running, appending, or how it ended
  kept,    \* kept[h]: what it has left on disk
  target,  \* target[h]: the health file it is about to append to
  health   \* health[i]: the lines of a health file, named by their writers

hookVars == <<stage, kept, target, health>>

HookInit ==
  /\ stage = [h \in Hook |-> "none"]
  /\ kept = [h \in Hook |-> "nothing"]
  /\ target = [h \in Hook |-> 0]
  /\ health = [i \in HealthFile |-> <<>>]

HookTypeOK ==
  /\ stage \in [Hook -> {"none", "running", "appending", "zero", "killed"}]
  /\ kept \in [Hook -> {"nothing", "segment", "health", "fault", "silent"}]
  /\ target \in [Hook -> {0} \cup HealthFile]
  /\ \A i \in HealthFile : Range(health[i]) \subseteq Hook

Faults == Cardinality({h \in Hook : kept[h] \in {"fault", "health"}})

Over(h) == stage[h] \in {"zero", "killed"}

-----------------------------------------------------------------------------

\* Spool::active_path: the first file that is missing or not full.
ActivePath ==
  CHOOSE i \in HealthFile :
    /\ Len(health[i]) < RotateAt
    /\ \A j \in 1..(i - 1) : Len(health[j]) >= RotateAt

\* Mutant: only the base file is read.
ReadBaseFile == Range(health[1])

\* Spool::read_lines: the files in order, up to the first that is missing.
ReadLines ==
  UNION {Range(health[i]) : i \in {k \in HealthFile :
                                     \A j \in 1..k : health[j] # <<>>}}

-----------------------------------------------------------------------------

Spawn(h) ==
  /\ stage[h] = "none"
  /\ stage' = [stage EXCEPT ![h] = "running"]
  /\ UNCHANGED <<kept, target, health>>

Starts(h) == stage[h] = "running" /\ kept[h] = "nothing"

\* capture: the payload is read, normalized and written as a segment.
Store(h) ==
  /\ Starts(h)
  /\ kept' = [kept EXCEPT ![h] = "segment"]
  /\ UNCHANGED <<stage, target, health>>

\* capture failed; append looks for the file to write to.
Fault(h) ==
  /\ Starts(h)
  /\ Faults < MaxFaults
  /\ kept' = [kept EXCEPT ![h] = "fault"]
  /\ stage' = [stage EXCEPT ![h] = "appending"]
  /\ target' = [target EXCEPT ![h] = ActivePath]
  /\ UNCHANGED health

AppendHealth(h) ==
  /\ stage[h] = "appending"
  /\ health' = [health EXCEPT ![target[h]] = Append(@, h)]
  /\ kept' = [kept EXCEPT ![h] = "health"]
  /\ stage' = [stage EXCEPT ![h] = "running"]
  /\ target' = [target EXCEPT ![h] = 0]

\* Neither the segment nor the line: the directories cannot be resolved or
\* opened, or append failed too.  Either way ingest exits zero.
KeepNothing(h) ==
  /\ Starts(h)
  /\ kept' = [kept EXCEPT ![h] = "silent"]
  /\ UNCHANGED <<stage, target, health>>

ExitZero(h) ==
  /\ stage[h] = "running"
  /\ kept[h] # "nothing"
  /\ stage' = [stage EXCEPT ![h] = "zero"]
  /\ UNCHANGED <<kept, target, health>>

\* Spawning it failed, the timeout of the bridge, or a signal.
Kill(h) ==
  /\ stage[h] \in {"running", "appending"}
  /\ stage' = [stage EXCEPT ![h] = "killed"]
  /\ target' = [target EXCEPT ![h] = 0]
  /\ UNCHANGED <<kept, health>>
=============================================================================
