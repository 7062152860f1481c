--------------------------- MODULE DatabaseProofs ---------------------------
(***************************************************************************)
(* Any number of processes, of builds with any number of migrations, open  *)
(* and migrate one database: nothing is written before the file is         *)
(* private, and the schema is always the one its stamp names.              *)
(***************************************************************************)
EXTENDS Database, TLAPS

Stages ==
  Working \cup {"prepare", "snapshot", "stage", "write", "publish", "remove", "rename",
                "counted", "over"}

\* The stages in which a process has seen the file private, or made it so.
Trusting == {"journal", "version", "opened", "migrating", "checking", "client", "snapshot"}

Shape ==
  /\ at \in [Process -> Stages]
  /\ answer = [p \in Process |-> answer[p]]

PrivateFile ==
  /\ PrivateBeforeWritten
  /\ \A p \in Process : at[p] = "secure" => file # "absent"
  /\ \A p \in Process : at[p] \in Trusting => file = "private"

Tables ==
  /\ \A v \in MigrationVersion : creators[v] # {} <=> v <= stamp
  /\ \A v \in MigrationVersion, p, q \in Process \cup {Earlier} :
       p \in creators[v] /\ q \in creators[v] => p = q

\* Before it migrates a process has created nothing; while it does, it has
\* created tables of the versions between those it read and those it knows.
Migrants ==
  \A p \in Process :
    /\ at[p] \notin {"migrating", "over"} =>
         \A v \in MigrationVersion : p \notin creators[v]
    /\ at[p] = "migrating" =>
         /\ from[p] <= stamp
         /\ \A v \in MigrationVersion :
              p \in creators[v] => v > from[p] /\ v <= supported[p]

Succeeded(p) ==
  answer[p].code = "migrated" =>
    /\ answer[p].applied
         = {v \in MigrationVersion : v > answer[p].from /\ v <= supported[p]}
    /\ \A v \in answer[p].applied : creators[v] = {p}
    /\ answer[p].to <= stamp
    /\ \A v \in MigrationVersion :
         v <= answer[p].from \/ v <= supported[p] => v <= answer[p].to

Lost(p) ==
  answer[p].code = "migration_failed" /\ answer[p].exists =>
    /\ answer[p].version <= stamp
    /\ creators[answer[p].version] # {p}

\* What a report refers to: numbers, and versions there are.
Typed(p) ==
  /\ answer[p].code = "migrated" =>
       answer[p].to \in 0..Newest /\ answer[p].from \in 0..Newest
  /\ answer[p].code = "migration_failed" => answer[p].version \in MigrationVersion

Reports == \A p \in Process : Succeeded(p) /\ Lost(p) /\ Typed(p)

DatabaseInv == DatabaseTypeOK /\ Shape /\ PrivateFile /\ Tables /\ Migrants /\ Reports

\* The invariant says what the two properties say.
LEMMA InvImplies == DatabaseInv => PrivateBeforeWritten /\ SchemaCoherent
BY DEF DatabaseInv, PrivateFile, SchemaCoherent, Tables, Reports, Succeeded, Lost

LEMMA InvHolds_Init == DatabaseInit => DatabaseInv
<1> SUFFICES ASSUME DatabaseInit PROVE DatabaseInv
  OBVIOUS
<1> USE DatabaseAssumption
<1>1. DatabaseTypeOK
  BY DEF DatabaseInit, DatabaseTypeOK, Modes, MigrationVersion
<1>2. Shape
  BY DEF DatabaseInit, Shape, Stages, Working, Opening
<1>3. PrivateFile
  BY DEF DatabaseInit, PrivateFile, PrivateBeforeWritten, Trusting
<1>4. Tables
  BY DEF DatabaseInit, Tables, MigrationVersion
<1>5. Migrants
  BY DEF DatabaseInit, Migrants, MigrationVersion
<1>6. Reports
  BY DEF DatabaseInit, Reports, Succeeded, Lost, Typed, NoAnswer
<1> QED
  BY <1>1, <1>2, <1>3, <1>4, <1>5, <1>6 DEF DatabaseInv

LEMMA InvHolds_Stutter ==
  ASSUME DatabaseInv, UNCHANGED databaseVars PROVE DatabaseInv'
BY DEF DatabaseInv, databaseVars, fileVars, schemaVars, fixedVars, processVars,
       DatabaseTypeOK, Shape, PrivateFile, PrivateBeforeWritten, Tables, Migrants,
       Reports, Succeeded, Lost, Typed, Pending

(***************************************************************************)
(* The steps that leave the schema alone: opening, refusing, reading.      *)
(***************************************************************************)

\* A process that only moves leaves every report true,
LEMMA ReportsKept ==
  ASSUME DatabaseInv, UNCHANGED <<schemaVars, fixedVars, answer>>
  PROVE  Reports'
BY DEF DatabaseInv, schemaVars, fixedVars, Reports, Succeeded, Lost, Typed

\* and so does one that ends with a refusal.
LEMMA ReportsKeptByRefusal ==
  ASSUME DatabaseInv, UNCHANGED <<schemaVars, fixedVars>>, NEW p \in Process, NEW code,
         code \notin {"migrated", "migration_failed"},
         answer' = [answer EXCEPT ![p] = [code |-> code]]
  PROVE  Reports'
<1> USE DEF DatabaseInv, schemaVars, fixedVars
<1>1. answer'[p].code = code /\ \A q \in Process : q # p => answer'[q] = answer[q]
  BY DEF Shape
<1> QED
  BY <1>1 DEF Reports, Succeeded, Lost, Typed

\* A process that moves to a stage, and creates no table, keeps the tables and
\* what is said of those that migrate.
LEMMA MigrantsKept ==
  ASSUME DatabaseInv, UNCHANGED <<schemaVars, fixedVars>>, NEW p \in Process,
         NEW stage \in Stages, at' = [at EXCEPT ![p] = stage],
         \/ stage = "over" /\ UNCHANGED from
         \/ /\ at[p] \notin {"migrating", "over"} /\ stage \notin {"migrating", "over"}
            /\ UNCHANGED from
         \/ /\ at[p] \notin {"migrating", "over"} /\ stage = "migrating"
            /\ from' = [from EXCEPT ![p] = stamp]
  PROVE  Tables' /\ Migrants'
<1> USE DatabaseAssumption DEF DatabaseInv, schemaVars, fixedVars
<1>1. Tables'
  BY DEF Tables
<1>2. /\ at'[p] = stage
      /\ \A q \in Process : q # p => at'[q] = at[q] /\ from'[q] = from[q]
      /\ stage = "migrating" => from'[p] = stamp
  BY DEF Shape, DatabaseTypeOK
<1>3. stamp \in Int /\ stamp <= stamp
  BY DEF DatabaseTypeOK
<1>4. Migrants'
  BY <1>2, <1>3 DEF Migrants
<1> QED
  BY <1>1, <1>4

LEMMA LookKeeps ==
  ASSUME DatabaseInv, NEW p \in Process, Look(p) PROVE DatabaseInv'
<1> USE DatabaseAssumption DEF DatabaseInv, Look, fileVars, schemaVars, fixedVars
<1>1. PICK stage \in {"create", "journal", "over"} :
        /\ at' = [at EXCEPT ![p] = stage]
        /\ stage = "journal" => file = "private"
  BY DEF Goto, Refuse, End, DatabaseTypeOK, Modes
<1>2. \/ UNCHANGED answer
      \/ answer' = [answer EXCEPT ![p] = [code |-> "permissions_too_open"]]
  BY DEF Goto, Refuse, End, DatabaseTypeOK, Modes
<1>3. DatabaseTypeOK' /\ Shape'
  BY <1>1, <1>2 DEF DatabaseTypeOK, Shape, Stages, Working, Opening
<1>4. PrivateFile'
  BY <1>1 DEF PrivateFile, PrivateBeforeWritten, Trusting, Shape
<1>5. Tables' /\ Migrants'
  BY <1>1, MigrantsKept DEF Stages, Working, Opening
<1>6. Reports'
  BY <1>2, ReportsKept, ReportsKeptByRefusal
<1> QED
  BY <1>3, <1>4, <1>5, <1>6

LEMMA CreateKeeps ==
  ASSUME DatabaseInv, NEW p \in Process, Create(p) PROVE DatabaseInv'
<1> USE DatabaseAssumption DEF DatabaseInv, Create, Goto, schemaVars, fixedVars
<1>1. DatabaseTypeOK' /\ Shape'
  BY DEF DatabaseTypeOK, Shape, Stages, Working, Opening, Modes
<1>2. PrivateFile'
  BY DEF PrivateFile, PrivateBeforeWritten, Trusting, Shape, DatabaseTypeOK
<1>3. Tables' /\ Migrants'
  BY MigrantsKept DEF Stages, Working, Opening
<1>4. Reports'
  BY ReportsKept
<1> QED
  BY <1>1, <1>2, <1>3, <1>4

LEMMA SecureKeeps ==
  ASSUME DatabaseInv, NEW p \in Process, Secure(p) PROVE DatabaseInv'
<1> USE DatabaseAssumption DEF DatabaseInv, Secure, Goto, schemaVars, fixedVars
<1>1. DatabaseTypeOK' /\ Shape'
  BY DEF DatabaseTypeOK, Shape, Stages, Working, Opening, Modes
<1>2. PrivateFile'
  BY DEF PrivateFile, PrivateBeforeWritten, Trusting, Shape
<1>3. Tables' /\ Migrants'
  BY MigrantsKept DEF Stages, Working, Opening
<1>4. Reports'
  BY ReportsKept
<1> QED
  BY <1>1, <1>2, <1>3, <1>4

LEMMA JournalKeeps ==
  ASSUME DatabaseInv, NEW p \in Process, Journal(p) PROVE DatabaseInv'
<1> USE DatabaseAssumption DEF DatabaseInv, Journal, Goto, schemaVars, fixedVars
<1>1. DatabaseTypeOK' /\ Shape'
  BY DEF DatabaseTypeOK, Shape, Stages, Working, Opening
<1>2. PrivateFile'
  BY DEF PrivateFile, PrivateBeforeWritten, Trusting, Shape
<1>3. Tables' /\ Migrants'
  BY MigrantsKept DEF Stages, Working, Opening
<1>4. Reports'
  BY ReportsKept
<1> QED
  BY <1>1, <1>2, <1>3, <1>4

LEMMA ReadVersionKeeps ==
  ASSUME DatabaseInv, NEW p \in Process, ReadVersion(p) PROVE DatabaseInv'
<1> USE DatabaseAssumption DEF DatabaseInv, ReadVersion, fileVars, schemaVars, fixedVars
<1>1. PICK stage \in {"opened", "over"} : at' = [at EXCEPT ![p] = stage]
  BY DEF Goto, Refuse, End
<1>2. \/ UNCHANGED answer
      \/ answer' = [answer EXCEPT ![p] = [code |-> "schema_from_the_future"]]
  BY DEF Goto, Refuse, End
<1>3. DatabaseTypeOK' /\ Shape'
  BY <1>1, <1>2 DEF DatabaseTypeOK, Shape, Stages, Working, Opening
<1>4. PrivateFile'
  BY <1>1 DEF PrivateFile, PrivateBeforeWritten, Trusting, Shape
<1>5. Tables' /\ Migrants'
  BY <1>1, MigrantsKept DEF Stages, Working, Opening
<1>6. Reports'
  BY <1>2, ReportsKept, ReportsKeptByRefusal
<1> QED
  BY <1>3, <1>4, <1>5, <1>6

LEMMA BeginMigrateKeeps ==
  ASSUME DatabaseInv, NEW p \in Process, BeginMigrate(p) PROVE DatabaseInv'
<1> USE DatabaseAssumption
    DEF DatabaseInv, BeginMigrate, Goto, fileVars, schemaVars, fixedVars
<1>1. DatabaseTypeOK' /\ Shape'
  BY DEF DatabaseTypeOK, Shape, Stages, Working, Opening
<1>2. PrivateFile'
  BY DEF PrivateFile, PrivateBeforeWritten, Trusting, Shape
<1>3. Tables' /\ Migrants'
  BY MigrantsKept DEF Stages, Working, Opening
<1>4. Reports'
  BY ReportsKept
<1> QED
  BY <1>1, <1>2, <1>3, <1>4

LEMMA BeginCommandKeeps ==
  ASSUME DatabaseInv, NEW p \in Process, BeginCommand(p) PROVE DatabaseInv'
<1> USE DatabaseAssumption DEF DatabaseInv, BeginCommand, fileVars, schemaVars, fixedVars
<1>1. PICK stage \in {"checking", "client", "snapshot", "over"} :
        at' = [at EXCEPT ![p] = stage]
  BY DEF Goto, Refuse, End
<1>2. \/ UNCHANGED answer
      \/ answer' = [answer EXCEPT ![p] = [code |-> "store_not_migrated"]]
  BY DEF Goto, Refuse, End
<1>3. DatabaseTypeOK' /\ Shape'
  BY <1>1, <1>2 DEF DatabaseTypeOK, Shape, Stages, Working, Opening
<1>4. PrivateFile'
  BY <1>1 DEF PrivateFile, PrivateBeforeWritten, Trusting, Shape
<1>5. Tables' /\ Migrants'
  BY <1>1, MigrantsKept DEF Stages, Working, Opening
<1>6. Reports'
  BY <1>2, ReportsKept, ReportsKeptByRefusal
<1> QED
  BY <1>3, <1>4, <1>5, <1>6

LEMMA DieOpeningKeeps ==
  ASSUME DatabaseInv, NEW p \in Process, DieOpening(p) PROVE DatabaseInv'
<1> USE DatabaseAssumption DEF DatabaseInv, DieOpening, fileVars, schemaVars, fixedVars
<1>0. /\ at' = [at EXCEPT ![p] = "over"]
      /\ answer' = [answer EXCEPT ![p] = [code |-> "killed"]]
  BY DEF Refuse, End
<1>1. DatabaseTypeOK' /\ Shape'
  BY <1>0 DEF DatabaseTypeOK, Shape, Stages, Working, Opening
<1>2. PrivateFile'
  BY <1>0 DEF PrivateFile, PrivateBeforeWritten, Trusting, Shape
<1>3. Tables' /\ Migrants'
  BY <1>0, MigrantsKept DEF Stages, Working, Opening
<1>4. Reports'
  <2>1. "killed" \notin {"migrated", "migration_failed"} /\ UNCHANGED <<schemaVars, fixedVars>>
    OBVIOUS
  <2> HIDE DEF DatabaseInv, DieOpening
  <2> QED
    BY <1>0, <2>1, ReportsKeptByRefusal, Zenon
<1> QED
  BY <1>1, <1>2, <1>3, <1>4

LEMMA LockedKeeps ==
  ASSUME DatabaseInv, NEW p \in Process, Locked(p) PROVE DatabaseInv'
<1> USE DatabaseAssumption DEF DatabaseInv, Locked, fileVars, schemaVars, fixedVars
<1>1. at' = [at EXCEPT ![p] = "over"]
  BY DEF Refuse, End
<1>2. \/ answer' = [answer EXCEPT ![p] = [code |-> "sqlite"]]
      \/ \E v \in MigrationVersion :
           answer' = [answer EXCEPT ![p] = [code |-> "migration_failed", version |-> v,
                                            exists |-> FALSE]]
  BY DEF Refuse, End
<1>3. DatabaseTypeOK' /\ Shape'
  BY <1>1, <1>2 DEF DatabaseTypeOK, Shape, Stages
<1>4. PrivateFile'
  BY <1>1 DEF PrivateFile, PrivateBeforeWritten, Trusting, Shape
<1>5. Tables' /\ Migrants'
  BY <1>1, MigrantsKept DEF Stages
<1>6. Reports'
  <2>1. CASE answer' = [answer EXCEPT ![p] = [code |-> "sqlite"]]
    <3>1. "sqlite" \notin {"migrated", "migration_failed"}
          /\ UNCHANGED <<schemaVars, fixedVars>>
      OBVIOUS
    <3> HIDE DEF DatabaseInv, Locked
    <3> QED
      BY <2>1, <3>1, ReportsKeptByRefusal, Zenon
  <2>2. ASSUME NEW v \in MigrationVersion,
               answer' = [answer EXCEPT ![p] = [code |-> "migration_failed", version |-> v,
                                                exists |-> FALSE]]
        PROVE  Reports'
    <3>1. /\ answer'[p] = [code |-> "migration_failed", version |-> v, exists |-> FALSE]
          /\ \A q \in Process : q # p => answer'[q] = answer[q]
      BY <2>2 DEF Shape
    <3> QED
      BY <3>1 DEF Reports, Succeeded, Lost, Typed
  <2> QED
    BY <1>2, <2>1, <2>2
<1> QED
  BY <1>3, <1>4, <1>5, <1>6

(***************************************************************************)
(* The steps of a migration.                                               *)
(***************************************************************************)

\* The version a process runs next is either there already or the next one of
\* all, because those between what it has read and what it runs are its own.
LEMMA NextVersion ==
  ASSUME DatabaseInv, NEW p \in Process, at[p] = "migrating",
         NEW v \in MigrationVersion, IsNext(p, v), creators[v] = {}
  PROVE  v = stamp + 1
<1> USE DatabaseAssumption DEF DatabaseInv, MigrationVersion
<1>0. stamp \in 0..Newest /\ v \in 1..Newest
  BY DEF DatabaseTypeOK
<1>1. ~(v <= stamp)
  BY DEF Tables
<1>2. stamp + 1 \in 1..Newest /\ stamp + 1 <= v
  BY <1>0, <1>1
<1>3. creators[stamp + 1] = {}
  BY <1>0, <1>2 DEF Tables
<1>4. from[p] <= stamp /\ from[p] \in 0..Newest /\ supported[p] \in 0..Newest
  BY DEF Migrants, DatabaseTypeOK
<1>5. stamp + 1 \in Pending(p)
  BY <1>0, <1>2, <1>3, <1>4 DEF Pending, IsNext
<1> QED
  BY <1>0, <1>2, <1>5 DEF IsNext

LEMMA ApplyKeeps ==
  ASSUME DatabaseInv, NEW p \in Process, Apply(p) PROVE DatabaseInv'
<1> USE DatabaseAssumption DEF DatabaseInv
<1>1. PICK v \in MigrationVersion :
        /\ at[p] = "migrating" /\ IsNext(p, v)
        /\ \/ /\ creators[v] = {}
              /\ creators' = [creators EXCEPT ![v] = {p}]
              /\ stamp' = v
              /\ UNCHANGED processVars
           \/ /\ creators[v] # {}
              /\ End(p, [code |-> "migration_failed", version |-> v, exists |-> TRUE])
              /\ UNCHANGED schemaVars
        /\ UNCHANGED <<fileVars, fixedVars, from>>
  BY DEF Apply
<1>2. v > from[p] /\ v <= supported[p] /\ p \notin creators[v]
  BY <1>1 DEF IsNext, Pending
<1>3. CASE /\ creators[v] = {}
           /\ creators' = [creators EXCEPT ![v] = {p}]
           /\ stamp' = v
           /\ UNCHANGED processVars
  <2> USE <1>1, <1>2, <1>3 DEF fileVars, fixedVars, processVars
  <2>1. v = stamp + 1 /\ stamp \in 0..Newest
    BY NextVersion DEF DatabaseTypeOK
  <2>2. /\ creators'[v] = {p}
        /\ \A w \in MigrationVersion : w # v => creators'[w] = creators[w]
    BY DEF DatabaseTypeOK
  <2>3. DatabaseTypeOK' /\ Shape'
    BY <2>1 DEF DatabaseTypeOK, Shape, MigrationVersion
  <2>4. PrivateFile'
    BY DEF PrivateFile, PrivateBeforeWritten, Trusting
  <2>5. Tables'
    BY <2>1, <2>2 DEF Tables, MigrationVersion
  <2>6. Migrants'
    <3>1. ASSUME NEW q \in Process, at[q] \notin {"migrating", "over"}
          PROVE  \A w \in MigrationVersion : q \notin creators'[w]
      BY <2>2, <3>1 DEF Migrants
    <3>2. ASSUME NEW q \in Process, at[q] = "migrating"
          PROVE  /\ from[q] <= stamp'
                 /\ \A w \in MigrationVersion :
                      q \in creators'[w] => w > from[q] /\ w <= supported[q]
      BY <2>1, <2>2, <3>2 DEF Migrants, DatabaseTypeOK
    <3> QED
      BY <3>1, <3>2 DEF Migrants
  <2>7. Reports'
    <3> SUFFICES ASSUME NEW q \in Process PROVE Succeeded(q)' /\ Lost(q)' /\ Typed(q)'
      BY DEF Reports
    <3>1. Succeeded(q)'
      BY <2>1, <2>2 DEF Reports, Succeeded, Typed
    <3>2. Lost(q)'
      BY <2>1, <2>2 DEF Reports, Lost, Typed, MigrationVersion
    <3> QED
      BY <3>1, <3>2 DEF Reports, Typed
  <2> QED
    BY <2>3, <2>4, <2>5, <2>6, <2>7
<1>4. CASE /\ creators[v] # {}
           /\ End(p, [code |-> "migration_failed", version |-> v, exists |-> TRUE])
           /\ UNCHANGED schemaVars
  <2> USE <1>1, <1>2, <1>4 DEF fileVars, fixedVars, schemaVars, End
  <2>1. DatabaseTypeOK' /\ Shape'
    BY DEF DatabaseTypeOK, Shape, Stages
  <2>2. PrivateFile'
    BY DEF PrivateFile, PrivateBeforeWritten, Trusting, Shape
  <2>3. Tables' /\ Migrants'
    BY MigrantsKept DEF Stages
  <2>4. Reports'
    <3>1. /\ answer'[p] = [code |-> "migration_failed", version |-> v, exists |-> TRUE]
          /\ \A q \in Process : q # p => answer'[q] = answer[q]
      BY DEF Shape
    <3>2. v <= stamp /\ creators[v] # {p}
      BY DEF Tables
    <3> QED
      BY <3>1, <3>2 DEF Reports, Succeeded, Lost, Typed
  <2> QED
    BY <2>1, <2>2, <2>3, <2>4
<1> QED
  BY <1>1, <1>3, <1>4

LEMMA ReportKeeps ==
  ASSUME DatabaseInv, NEW p \in Process, Report(p) PROVE DatabaseInv'
<1> DEFINE mine == {v \in MigrationVersion : p \in creators[v]}
           said == [code |-> "migrated", from |-> from[p], to |-> stamp, applied |-> mine]
<1> USE DatabaseAssumption
    DEF DatabaseInv, Report, End, fileVars, schemaVars, fixedVars
<1>1. DatabaseTypeOK' /\ Shape'
  BY DEF DatabaseTypeOK, Shape, Stages
<1>2. PrivateFile'
  BY DEF PrivateFile, PrivateBeforeWritten, Trusting, Shape
<1>3. Tables' /\ Migrants'
  BY MigrantsKept DEF Stages
<1>4. answer'[p] = said /\ \A q \in Process : q # p => answer'[q] = answer[q]
  BY DEF Shape
<1>5. \A v \in MigrationVersion :
        p \in creators[v] <=> v > from[p] /\ v <= supported[p]
  <2> SUFFICES ASSUME NEW v \in MigrationVersion
               PROVE  p \in creators[v] <=> v > from[p] /\ v <= supported[p]
    OBVIOUS
  <2>1. v \in 1..Newest /\ supported[p] \in 0..Newest
    BY DEF MigrationVersion, DatabaseTypeOK
  <2>2. p \in creators[v] => v > from[p] /\ v <= supported[p]
    BY DEF Migrants
  <2>3. v > from[p] /\ v <= supported[p] => p \in creators[v]
    BY <2>1 DEF Pending
  <2> QED
    BY <2>2, <2>3
<1>6. \A v \in mine : creators[v] = {p}
  <2> SUFFICES ASSUME NEW v \in MigrationVersion, p \in creators[v]
               PROVE  creators[v] = {p}
    OBVIOUS
  <2>1. \A q \in creators[v] : q \in Process \cup {Earlier}
    BY DEF DatabaseTypeOK
  <2> QED
    BY <2>1 DEF Tables
<1>7. from[p] <= stamp /\ stamp \in 0..Newest /\ from[p] \in 0..Newest
  BY DEF Migrants, DatabaseTypeOK
<1>8. \A v \in MigrationVersion : v <= from[p] \/ v <= supported[p] => v <= stamp
  BY <1>5, <1>7 DEF Tables, MigrationVersion, DatabaseTypeOK
<1>9. Succeeded(p)' /\ Lost(p)' /\ Typed(p)'
  BY <1>4, <1>5, <1>6, <1>7, <1>8 DEF Succeeded, Lost, Typed
<1>10. Reports'
  BY <1>4, <1>9 DEF Reports, Succeeded, Lost, Typed
<1> QED
  BY <1>1, <1>2, <1>3, <1>10

LEMMA InvHolds_Next ==
  ASSUME DatabaseInv, [\E p \in Process : DatabaseStep(p)]_databaseVars
  PROVE  DatabaseInv'
<1>1. CASE UNCHANGED databaseVars
  BY <1>1, InvHolds_Stutter
<1>2. ASSUME NEW p \in Process, DatabaseStep(p) PROVE DatabaseInv'
  BY <1>2, LookKeeps, CreateKeeps, SecureKeeps, JournalKeeps, ReadVersionKeeps,
     BeginMigrateKeeps, BeginCommandKeeps, ApplyKeeps, ReportKeeps, LockedKeeps,
     DieOpeningKeeps
  DEF DatabaseStep
<1> QED
  BY <1>1, <1>2

\* A step of a command that has the database open, or has not opened it yet:
\* it changes neither file nor schema, and says nothing of migrations.
LEMMA CommandKeeps ==
  ASSUME DatabaseInv, UNCHANGED <<fileVars, schemaVars, fixedVars, from>>,
         NEW p \in Process, NEW stage \in Stages \ {"secure", "migrating"},
         at' = [at EXCEPT ![p] = stage],
         at[p] \notin {"migrating", "over"},
         stage \in Trusting => at[p] \in Trusting,
         \/ stage # "over" /\ UNCHANGED answer
         \/ /\ stage = "over"
            /\ answer'[p].code \notin {"migrated", "migration_failed"}
            /\ answer' = [q \in Process |-> IF q = p THEN answer'[p] ELSE answer[q]]
  PROVE  DatabaseInv'
<1> USE DEF fileVars, schemaVars, fixedVars
<1>1. /\ at'[p] = stage
      /\ \A q \in Process : q # p => at'[q] = at[q] /\ answer'[q] = answer[q]
  BY DEF DatabaseInv, Shape
<1>2. DatabaseTypeOK'
  BY DEF DatabaseInv, DatabaseTypeOK
<1>3. Shape'
  <2>1. at' \in [Process -> Stages]
    BY DEF DatabaseInv, Shape
  <2>2. answer' = [q \in Process |-> answer'[q]]
    BY DEF DatabaseInv, Shape
  <2> QED
    BY <2>1, <2>2 DEF Shape
<1>4. PrivateFile'
  BY <1>1 DEF DatabaseInv, PrivateFile, PrivateBeforeWritten
<1>5. Tables' /\ Migrants'
  BY MigrantsKept
<1>6. Reports'
  <2>1. CASE UNCHANGED answer
    BY <2>1, ReportsKept
  <2>2. CASE answer'[p].code \notin {"migrated", "migration_failed"}
    BY <1>1, <2>2 DEF DatabaseInv, Reports, Succeeded, Lost, Typed
  <2> QED
    BY <2>1, <2>2
<1> QED
  BY <1>2, <1>3, <1>4, <1>5, <1>6 DEF DatabaseInv

THEOREM InvHolds == DatabaseSpec => []DatabaseInv
<1> QED
  BY InvHolds_Init, InvHolds_Next, PTL DEF DatabaseSpec

(***************************************************************************)
(* Whatever the umask, whoever creates the file, and wherever a process is *)
(* killed, nothing is written into a file that others can read.            *)
(***************************************************************************)
THEOREM FilePrivate == DatabaseSpec => []PrivateBeforeWritten
<1> QED
  BY InvHolds, InvImplies, PTL

(***************************************************************************)
(* However many processes of however many builds migrate at once, the      *)
(* schema is the one its stamp names, every migration ran once, and what   *)
(* the processes report of it is so.                                       *)
(***************************************************************************)
THEOREM MigrationsCoherent == DatabaseSpec => []SchemaCoherent
<1> QED
  BY InvHolds, InvImplies, PTL
=============================================================================
