------------------------------ MODULE Database ------------------------------
(***************************************************************************)
(* The file of the private database, and how processes of this program,    *)
(* of one build or of several, open it, migrate it and check it.           *)
(*                                                                         *)
(* Opening looks whether the file is there, lets SQLite create it under    *)
(* the umask, makes a file it did not find private, and only then writes   *)
(* to it (the pragma that switches to write-ahead logging).  Migrating     *)
(* reads the stamped version once and then runs every later migration of   *)
(* the build, each in a transaction of its own together with its stamp.    *)
(* A transaction is one step here, and a process killed within one has     *)
(* taken none.                                                             *)
(*                                                                         *)
(* A migration is represented by what "CREATE TABLE" tells: who created    *)
(* the tables of a version.                                                *)
(***************************************************************************)
EXTENDS Integers

CONSTANTS
  Process,    \* processes that use the database
  Newest,     \* the latest schema version of any build
  Earlier     \* stands for processes that ended before the behaviour begins

ASSUME DatabaseAssumption ==
  /\ Newest \in Nat
  /\ Earlier \notin Process

MigrationVersion == 1..Newest

ExportCommands == {"export-full", "export-metadata"}

Commands == {"migrate", "check", "client"} \cup ExportCommands

Modes == {"absent", "open", "private"}

VARIABLES
  file,       \* the mode of the file: readable by others, or private
  umask,      \* the mode SQLite creates a file with
  written,    \* whether anything was written into the file
  stamp,      \* PRAGMA user_version
  creators,   \* creators[v]: who created the tables of version v
  supported,  \* supported[p]: the schema version the build of p implements
  command,    \* command[p]: what p was started for
  at,         \* at[p]: where in its command p is
  from,       \* from[p]: the version p read before it began to migrate
  answer      \* answer[p]: what p said at its end

fileVars    == <<file, umask, written>>
schemaVars  == <<stamp, creators>>
fixedVars   == <<supported, command>>
processVars == <<at, answer>>

NoAnswer == [code |-> "none"]

Refusals == {"permissions_too_open", "schema_from_the_future", "store_not_migrated",
             "sqlite", "killed", "ok"}

DatabaseAnswers ==
  [code : {"none"} \cup Refusals]
    \cup [code : {"migration_failed"}, version : MigrationVersion, exists : BOOLEAN]
    \cup [code : {"migrated"}, from : 0..Newest, to : 0..Newest,
          applied : SUBSET MigrationVersion]
    \cup [code : {"checked"}, dangling : BOOLEAN, version : 0..Newest, healthy : BOOLEAN]

Opening == {"look", "create", "secure", "journal", "version", "opened"}

Working == Opening \cup {"migrating", "checking", "client"}

DatabaseTypeOK ==
  /\ file \in Modes /\ umask \in Modes \ {"absent"} /\ written \in BOOLEAN
  /\ stamp \in 0..Newest
  /\ creators \in [MigrationVersion -> SUBSET (Process \cup {Earlier})]
  /\ supported \in [Process -> 0..Newest]
  /\ command \in [Process -> Commands]
  /\ from \in [Process -> 0..Newest]

-----------------------------------------------------------------------------
Goto(p, stage) == at' = [at EXCEPT ![p] = stage] /\ UNCHANGED answer

\* The process ends: what it printed, and nothing more of it.
End(p, said) ==
  /\ at' = [at EXCEPT ![p] = "over"]
  /\ answer' = [answer EXCEPT ![p] = said]

Refuse(p, code) == End(p, [code |-> code])

(***************************************************************************)
(* Store::open.  A file that is there has to be private already, whoever   *)
(* created it.                                                             *)
(***************************************************************************)

\* Mutant: the mode is not looked at, it is only set on creation.
LookOnly(p) ==
  /\ at[p] = "look"
  /\ IF file = "absent" THEN Goto(p, "create") ELSE Goto(p, "journal")
  /\ UNCHANGED <<fileVars, schemaVars, fixedVars, from>>

Look(p) ==
  /\ at[p] = "look"
  /\ CASE file = "absent"  -> Goto(p, "create")
       [] file = "open"    -> Refuse(p, "permissions_too_open")
       [] file = "private" -> Goto(p, "journal")
  /\ UNCHANGED <<fileVars, schemaVars, fixedVars, from>>

\* SQLite opens or creates: the file may have appeared since.
Create(p) ==
  /\ at[p] = "create"
  /\ file' = IF file = "absent" THEN umask ELSE file
  /\ Goto(p, "secure")
  /\ UNCHANGED <<umask, written, schemaVars, fixedVars, from>>

Secure(p) ==
  /\ at[p] = "secure"
  /\ file' = "private"
  /\ Goto(p, "journal")
  /\ UNCHANGED <<umask, written, schemaVars, fixedVars, from>>

\* The pragmas; the sidecars SQLite writes from here on take the file's mode.
Journal(p) ==
  /\ at[p] = "journal"
  /\ written' = TRUE
  /\ Goto(p, "version")
  /\ UNCHANGED <<file, umask, schemaVars, fixedVars, from>>

ReadVersion(p) ==
  /\ at[p] = "version"
  /\ IF stamp > supported[p]
       THEN Refuse(p, "schema_from_the_future")
       ELSE Goto(p, "opened")
  /\ UNCHANGED <<fileVars, schemaVars, fixedVars, from>>

(***************************************************************************)
(* What the command does with the open database.  All but "migrate" refuse *)
(* a database that was never migrated.                                     *)
(***************************************************************************)
BeginMigrate(p) ==
  /\ at[p] = "opened" /\ command[p] = "migrate"
  /\ from' = [from EXCEPT ![p] = stamp]
  /\ Goto(p, "migrating")
  /\ UNCHANGED <<fileVars, schemaVars, fixedVars>>

BeginCommand(p) ==
  /\ at[p] = "opened" /\ command[p] # "migrate"
  /\ IF stamp = 0
       THEN Refuse(p, "store_not_migrated")
       ELSE Goto(p, CASE command[p] = "check" -> "checking"
                      [] command[p] = "client" -> "client"
                      [] OTHER -> "snapshot")
  /\ UNCHANGED <<fileVars, schemaVars, fixedVars, from>>

\* The migrations of the build that are later than the version p has read.
Pending(p) == {v \in 1..supported[p] : v > from[p] /\ p \notin creators[v]}

IsNext(p, v) == v \in Pending(p) /\ \A w \in Pending(p) : v <= w

\* Mutant: the stamp names the migration that is next.
ApplyAndStampNext(p) == \E v \in MigrationVersion :
  /\ at[p] = "migrating" /\ IsNext(p, v)
  /\ creators[v] = {}
  /\ creators' = [creators EXCEPT ![v] = {p}]
  /\ stamp' = v + 1
  /\ UNCHANGED <<fileVars, fixedVars, processVars, from>>

\* Mutant: "CREATE TABLE IF NOT EXISTS".
ApplyAgain(p) == \E v \in MigrationVersion :
  /\ at[p] = "migrating" /\ IsNext(p, v)
  /\ creators' = [creators EXCEPT ![v] = @ \cup {p}]
  /\ stamp' = v
  /\ UNCHANGED <<fileVars, fixedVars, processVars, from>>

\* The tables of a version exist, and were stamped, or neither: another
\* process that has run this migration makes it fail, and nothing is undone
\* of those p ran before.
Apply(p) == \E v \in MigrationVersion :
  /\ at[p] = "migrating" /\ IsNext(p, v)
  /\ \/ /\ creators[v] = {}
        /\ creators' = [creators EXCEPT ![v] = {p}]
        /\ stamp' = v
        /\ UNCHANGED processVars
     \/ /\ creators[v] # {}
        /\ End(p, [code |-> "migration_failed", version |-> v, exists |-> TRUE])
        /\ UNCHANGED schemaVars
  /\ UNCHANGED <<fileVars, fixedVars, from>>

Report(p) ==
  /\ at[p] = "migrating" /\ Pending(p) = {}
  /\ End(p, [code |-> "migrated", from |-> from[p], to |-> stamp,
             applied |-> {v \in MigrationVersion : p \in creators[v]}])
  /\ UNCHANGED <<fileVars, schemaVars, fixedVars, from>>

\* SQLite gives up on a lock another process holds: after the five seconds of
\* the busy timeout, or at once when the snapshot has become old.
Locked(p) ==
  /\ \E q \in Process \ {p} : at[q] \in Working
  /\ \/ at[p] = "journal" /\ Refuse(p, "sqlite")
     \/ /\ at[p] = "migrating"
        /\ \E v \in MigrationVersion :
             /\ IsNext(p, v)
             /\ End(p, [code |-> "migration_failed", version |-> v, exists |-> FALSE])
  /\ UNCHANGED <<fileVars, schemaVars, fixedVars, from>>

\* A kill takes nothing from what was committed.
DieOpening(p) ==
  /\ at[p] \in Working
  /\ Refuse(p, "killed")
  /\ UNCHANGED <<fileVars, schemaVars, fixedVars, from>>

-----------------------------------------------------------------------------
(***************************************************************************)
(* Nothing is ever written into a file others can read, whatever the umask *)
(* and however many processes find no file and create it together (lib.rs: *)
(* 156-171).                                                               *)
(***************************************************************************)
PrivateBeforeWritten == written \/ stamp > 0 => file = "private"

(***************************************************************************)
(* The schema is the one its stamp names, however many processes of        *)
(* however many builds migrate at once and wherever one is killed: the     *)
(* tables of each version up to the stamp were created by one process, and *)
(* those of later ones by none.  A migration that reports success ran      *)
(* itself every version of its build after the one it names, and one that  *)
(* finds the tables there lost to another process, not to itself           *)
(* (migrate.rs:70-100).                                                    *)
(***************************************************************************)
SchemaCoherent ==
  /\ \A v \in MigrationVersion : creators[v] # {} <=> v <= stamp
  /\ \A v \in MigrationVersion, p, q \in Process \cup {Earlier} :
       p \in creators[v] /\ q \in creators[v] => p = q
  /\ \A p \in Process :
       /\ answer[p].code = "migrated" =>
            /\ answer[p].applied
                 = {v \in MigrationVersion : v > answer[p].from /\ v <= supported[p]}
            /\ \A v \in answer[p].applied : creators[v] = {p}
            /\ answer[p].to <= stamp
            /\ \A v \in MigrationVersion :
                 v <= answer[p].from \/ v <= supported[p] => v <= answer[p].to
       /\ answer[p].code = "migration_failed" /\ answer[p].exists =>
            /\ answer[p].version <= stamp
            /\ creators[answer[p].version] # {p}

-----------------------------------------------------------------------------
DatabaseInit ==
  /\ umask \in Modes \ {"absent"}
  /\ stamp \in 0..Newest
  /\ file = IF stamp > 0 THEN "private" ELSE "absent"
  /\ written = (stamp > 0)
  /\ creators = [v \in MigrationVersion |-> IF v <= stamp THEN {Earlier} ELSE {}]
  /\ supported \in [Process -> 0..Newest]
  /\ command \in [Process -> Commands]
  /\ at = [p \in Process |-> IF command[p] \in ExportCommands THEN "prepare" ELSE "look"]
  /\ from = [p \in Process |-> 0]
  /\ answer = [p \in Process |-> NoAnswer]

DatabaseStep(p) ==
  \/ Look(p) \/ Create(p) \/ Secure(p) \/ Journal(p) \/ ReadVersion(p)
  \/ BeginMigrate(p) \/ BeginCommand(p) \/ Apply(p) \/ Report(p)
  \/ Locked(p) \/ DieOpening(p)

databaseVars == <<fileVars, schemaVars, fixedVars, processVars, from>>

DatabaseSpec == DatabaseInit /\ [][\E p \in Process : DatabaseStep(p)]_databaseVars
=============================================================================
