--------------------------- MODULE LauncherProofs ---------------------------
(***************************************************************************)
(* Theorems about Launcher: any number of launches of any builds, sessions *)
(* and hook processes, in any scenario.                                    *)
(***************************************************************************)
EXTENDS Launcher, FiniteSetTheorems, FunctionTheorems, TLAPS

-----------------------------------------------------------------------------
(***************************************************************************)
(* The hook processes and the health spool.                                *)
(***************************************************************************)
Faulty == {h \in Hook : kept[h] \in {"fault", "health"}}

\* What a process has kept agrees with how far it is.
Kept ==
  \A h \in Hook :
    /\ stage[h] = "none" => kept[h] = "nothing"
    /\ stage[h] = "running" => kept[h] # "fault"
    /\ stage[h] = "appending" => kept[h] = "fault"
    /\ stage[h] = "zero" => kept[h] \in {"segment", "health", "silent"}

IsFull(i) == Len(health[i]) >= RotateAt

\* The full files come first, and a file has lines only when those before it
\* are full; a process appends to a file that was the first with room.
Filled ==
  /\ \E k \in 0..(MaxFaults + 1) : \A i \in HealthFile : IsFull(i) <=> i <= k
  /\ \A i, j \in HealthFile : i < j /\ health[j] # <<>> => IsFull(i)
  /\ \A h \in Hook :
       stage[h] = "appending" =>
         target[h] \in HealthFile /\ \A i \in HealthFile : i < target[h] => IsFull(i)

\* A process that has added its line is in one file, and no other process is.
Lines ==
  /\ \A i \in HealthFile : \A h \in Range(health[i]) : kept[h] = "health"
  /\ \A h \in Hook : kept[h] = "health" => \E i \in HealthFile : h \in Range(health[i])
  /\ \A i, j \in HealthFile : i # j => Range(health[i]) \cap Range(health[j]) = {}
  /\ IsFiniteSet(Faulty)

HookTypes == HookTypeOK /\ health \in [HealthFile -> Seq(Hook)]

HookInv == HookTypes /\ Kept /\ Filled /\ Lines

HookAction(h) ==
  \/ Spawn(h) \/ Store(h) \/ Fault(h) \/ AppendHealth(h) \/ KeepNothing(h)
  \/ ExitZero(h) \/ Kill(h)

LEMMA RangeAppend ==
  ASSUME NEW S, NEW s \in Seq(S), NEW x \in S
  PROVE  /\ Range(Append(s, x)) = Range(s) \cup {x}
         /\ Len(Append(s, x)) = Len(s) + 1
         /\ Append(s, x) # <<>>
<1> DEFINE t == Append(s, x)
<1>1. Len(s) \in Nat /\ DOMAIN s = 1..Len(s) /\ t \in Seq(S)
  OBVIOUS
<1>2. Len(t) = Len(s) + 1 /\ DOMAIN t = 1..(Len(s) + 1)
  OBVIOUS
<1>3. t[Len(s) + 1] = x /\ \A i \in 1..Len(s) : t[i] = s[i]
  OBVIOUS
<1> HIDE DEF t
<1>4. Range(t) = Range(s) \cup {x}
  BY <1>1, <1>2, <1>3 DEF Range
<1> QED
  BY <1>1, <1>2, <1>4 DEF t

\* As many faults as there are files would be needed to fill them all.
LEMMA RoomLeft ==
  ASSUME HookInv, Faults < MaxFaults
  PROVE  ~ \A i \in HealthFile : IsFull(i)
<1> SUFFICES ASSUME \A i \in HealthFile : IsFull(i) PROVE FALSE
  OBVIOUS
<1> USE LauncherAssumption DEF HookInv, HookTypes
<1> DEFINE first == [i \in HealthFile |-> health[i][1]]
<1>1. \A i \in HealthFile : first[i] \in Range(health[i])
  BY DEF IsFull, Range
<1>2. first \in [HealthFile -> Faulty]
  BY <1>1 DEF Lines, Faulty, HookTypeOK
<1>3. \A i, j \in HealthFile : i # j => first[i] # first[j]
  BY <1>1 DEF Lines
<1>4. first \in Injection(HealthFile, Faulty)
  BY <1>2, <1>3, Fun_IsInj
<1>5. IsFiniteSet(HealthFile) /\ Cardinality(HealthFile) = MaxFaults + 1
  BY FS_Interval DEF HealthFile
<1>6. Cardinality(HealthFile) <= Cardinality(Faulty)
  BY <1>4, <1>5, FS_Injection DEF Lines, ExistsInjection
<1>7. Faults = Cardinality(Faulty) /\ Cardinality(Faulty) \in Nat
  BY FS_CardinalityType DEF Faults, Faulty, Lines
<1> QED
  BY <1>5, <1>6, <1>7

LEMMA ActivePathHasRoom ==
  ASSUME HookInv, Faults < MaxFaults
  PROVE  ActivePath \in HealthFile /\ \A i \in HealthFile : i < ActivePath => IsFull(i)
<1> USE LauncherAssumption DEF HookInv, HookTypes
<1>1. PICK k \in 0..(MaxFaults + 1) : \A i \in HealthFile : IsFull(i) <=> i <= k
  BY DEF Filled
<1>2. k + 1 \in HealthFile
  BY <1>1, RoomLeft DEF HealthFile
<1>3. ~IsFull(k + 1) /\ \A j \in 1..k : IsFull(j)
  BY <1>1, <1>2 DEF HealthFile
<1> DEFINE P(i) == /\ Len(health[i]) < RotateAt
                   /\ \A j \in 1..(i - 1) : Len(health[j]) >= RotateAt
<1>4. P(k + 1)
  BY <1>2, <1>3 DEF IsFull
<1>5. ActivePath = CHOOSE i \in HealthFile : P(i)
  BY DEF ActivePath
<1> HIDE DEF P
<1>6. ActivePath \in HealthFile /\ P(ActivePath)
  BY <1>2, <1>4, <1>5
<1> QED
  BY <1>6 DEF P, IsFull, HealthFile

LEMMA HookInv_Init == HookInit => HookInv
<1> SUFFICES ASSUME HookInit PROVE HookInv
  OBVIOUS
<1> USE LauncherAssumption DEF HookInit
<1>1. \A i \in HealthFile : health[i] = <<>> /\ Len(health[i]) = 0 /\ Range(health[i]) = {}
  BY DEF Range
<1>2. HookTypes
  BY <1>1 DEF HookTypes, HookTypeOK
<1>3. Kept
  BY DEF Kept
<1>4. Filled
  <2>1. \A i \in HealthFile : ~IsFull(i) /\ ~(i <= 0)
    BY <1>1 DEF IsFull, HealthFile
  <2>2. 0 \in 0..(MaxFaults + 1)
    OBVIOUS
  <2> QED
    BY <1>1, <2>1, <2>2 DEF Filled
<1>5. Lines
  <2>1. Faulty = {}
    BY DEF Faulty
  <2> QED
    BY <1>1, <2>1, FS_EmptySet DEF Lines
<1> QED
  BY <1>2, <1>3, <1>4, <1>5 DEF HookInv

\* A step that leaves the health spool alone, and whose process neither begins
\* nor ends to append, keeps what is said of the files.
LEMMA FilesKept ==
  ASSUME HookInv, HookTypes', Kept', UNCHANGED <<health, target>>, NEW h \in Hook,
         \A k \in Hook : k # h => stage'[k] = stage[k] /\ kept'[k] = kept[k],
         stage'[h] # "appending",
         kept'[h] = "health" <=> kept[h] = "health",
         kept'[h] = "fault" <=> kept[h] = "fault"
  PROVE  HookInv'
<1> USE DEF HookInv
<1>1. Filled'
  BY DEF Filled, IsFull
<1>2. Faulty' = Faulty
  BY DEF Faulty
<1>3. Lines'
  BY <1>2 DEF Lines, HookTypes, HookTypeOK
<1> QED
  BY <1>1, <1>3

LEMMA FaultKeeps ==
  ASSUME HookInv, NEW h \in Hook, Fault(h) PROVE HookInv'
<1> USE LauncherAssumption DEF HookInv, Fault, Starts
<1>1. ActivePath \in HealthFile /\ \A i \in HealthFile : i < ActivePath => IsFull(i)
  BY ActivePathHasRoom
<1>2. HookTypes'
  BY <1>1 DEF HookTypes, HookTypeOK
<1>3. Kept'
  BY DEF Kept, HookTypes, HookTypeOK
<1>4. Filled'
  <2>1. target'[h] = ActivePath /\ \A k \in Hook : k # h => target'[k] = target[k] /\ stage'[k] = stage[k]
    BY DEF HookTypes, HookTypeOK
  <2> QED
    BY <1>1, <2>1 DEF Filled, IsFull
<1>5. Lines'
  <2>1. Faulty' = Faulty \cup {h}
    BY DEF Faulty, HookTypes, HookTypeOK
  <2>2. IsFiniteSet(Faulty')
    BY <2>1, FS_AddElement DEF Lines
  <2>3. \A k \in Hook : kept'[k] = "health" <=> kept[k] = "health"
    BY DEF HookTypes, HookTypeOK
  <2> QED
    BY <2>2, <2>3 DEF Lines, HookTypes, HookTypeOK
<1> QED
  BY <1>2, <1>3, <1>4, <1>5

LEMMA AppendHealthKeeps ==
  ASSUME HookInv, NEW h \in Hook, AppendHealth(h) PROVE HookInv'
<1> USE LauncherAssumption DEF HookInv, AppendHealth
<1>1. PICK t \in HealthFile : t = target[h] /\ \A i \in HealthFile : i < t => IsFull(i)
  BY DEF Filled
<1>2. kept[h] = "fault"
  BY DEF Kept
<1>3. /\ \A i \in HealthFile : health[i] \in Seq(Hook) /\ Len(health[i]) \in Nat
      /\ health' = [health EXCEPT ![t] = Append(health[t], h)]
      /\ health'[t] = Append(health[t], h)
      /\ \A i \in HealthFile : i # t => health'[i] = health[i]
  BY <1>1 DEF HookTypes
<1>4. /\ Range(health'[t]) = Range(health[t]) \cup {h}
      /\ Len(health'[t]) = Len(health[t]) + 1
  BY <1>1, <1>3, RangeAppend
<1>5. \A k \in Hook : k # h => stage'[k] = stage[k] /\ kept'[k] = kept[k] /\ target'[k] = target[k]
  BY DEF HookTypes, HookTypeOK
<1>6. kept'[h] = "health" /\ stage'[h] = "running"
  BY DEF HookTypes, HookTypeOK
<1>7. HookTypes'
  BY <1>1, <1>3, <1>4 DEF HookTypes, HookTypeOK
<1>8. Kept'
  BY <1>2, <1>5, <1>6 DEF Kept
<1>9. Filled'
  <2>1. \A i \in HealthFile : IsFull(i) => IsFull(i)'
    BY <1>3, <1>4 DEF IsFull
  <2>2. \E k \in 0..(MaxFaults + 1) : \A i \in HealthFile : IsFull(i)' <=> i <= k
    <3>1. PICK k \in 0..(MaxFaults + 1) : \A i \in HealthFile : IsFull(i) <=> i <= k
      BY DEF Filled
    <3>2. t <= k + 1
      <4>1. CASE k + 1 \in HealthFile
        BY <1>1, <3>1, <4>1 DEF HealthFile
      <4>2. CASE k + 1 \notin HealthFile
        BY <1>1, <4>2 DEF HealthFile
      <4> QED
        BY <4>1, <4>2
    <3>3. \A i \in HealthFile : i # t => (IsFull(i)' <=> IsFull(i))
      BY <1>3 DEF IsFull
    <3>4. CASE IsFull(t)' /\ t = k + 1
      <4>1. k + 1 \in 0..(MaxFaults + 1)
        BY <3>4 DEF HealthFile
      <4>2. ASSUME NEW i \in HealthFile PROVE IsFull(i)' <=> i <= k + 1
        BY <2>1, <3>1, <3>3, <3>4, <4>2 DEF HealthFile
      <4> QED
        BY <4>1, <4>2
    <3>5. CASE ~(IsFull(t)' /\ t = k + 1)
      <4>1. ASSUME NEW i \in HealthFile PROVE IsFull(i)' <=> i <= k
        BY <2>1, <3>1, <3>2, <3>3, <3>5, <4>1 DEF HealthFile
      <4> QED
        BY <4>1
    <3> QED
      BY <3>4, <3>5
  <2>3. \A i, j \in HealthFile : i < j /\ health'[j] # <<>> => IsFull(i)'
    BY <1>1, <1>3, <2>1 DEF Filled
  <2>4. \A k \in Hook : stage'[k] = "appending" =>
          target'[k] \in HealthFile /\ \A i \in HealthFile : i < target'[k] => IsFull(i)'
    BY <1>5, <1>6, <2>1 DEF Filled
  <2> QED
    BY <2>2, <2>3, <2>4 DEF Filled
<1>10. Lines'
  <2>1. Faulty' = Faulty
    BY <1>2, <1>5, <1>6 DEF Faulty
  <2>2. \A i \in HealthFile : h \notin Range(health[i])
    BY <1>2 DEF Lines
  <2>3. \A i \in HealthFile : \A k \in Range(health'[i]) : kept'[k] = "health"
    BY <1>3, <1>4, <1>5, <1>6 DEF Lines, HookTypes, HookTypeOK
  <2>4. \A k \in Hook : kept'[k] = "health" => \E i \in HealthFile : k \in Range(health'[i])
    BY <1>1, <1>3, <1>4, <1>5 DEF Lines
  <2>5. \A i, j \in HealthFile : i # j => Range(health'[i]) \cap Range(health'[j]) = {}
    <3> SUFFICES ASSUME NEW i \in HealthFile, NEW j \in HealthFile, i # j,
                        NEW k \in Range(health'[i]), k \in Range(health'[j])
                 PROVE  FALSE
      OBVIOUS
    <3>1. k \in Range(health[i]) \cup {h} /\ k \in Range(health[j]) \cup {h}
      BY <1>3, <1>4
    <3>2. i # t => k \in Range(health[i])
      BY <1>3
    <3>3. j # t => k \in Range(health[j])
      BY <1>3
    <3>4. k \in Range(health[i]) /\ k \in Range(health[j])
      BY <2>2, <3>1, <3>2, <3>3
    <3>5. Range(health[i]) \cap Range(health[j]) = {}
      BY DEF Lines
    <3> QED
      BY <3>4, <3>5
  <2>6. IsFiniteSet(Faulty)'
    BY <2>1 DEF Lines
  <2> QED
    BY <2>3, <2>4, <2>5, <2>6 DEF Lines
<1> QED
  BY <1>7, <1>8, <1>9, <1>10

LEMMA HookInv_Next ==
  ASSUME HookInv, NEW h \in Hook, HookAction(h) PROVE HookInv'
<1>1. CASE Spawn(h)
  <2> USE <1>1 DEF HookInv, Spawn
  <2>1. HookTypes' /\ Kept'
    BY DEF HookTypes, HookTypeOK, Kept
  <2> QED
    BY <2>1, FilesKept DEF HookTypes, HookTypeOK
<1>2. CASE Store(h)
  <2> USE <1>2 DEF HookInv, Store, Starts
  <2>1. HookTypes' /\ Kept'
    BY DEF HookTypes, HookTypeOK, Kept
  <2> QED
    BY <2>1, FilesKept DEF HookTypes, HookTypeOK
<1>3. CASE KeepNothing(h)
  <2> USE <1>3 DEF HookInv, KeepNothing, Starts
  <2>1. HookTypes' /\ Kept'
    BY DEF HookTypes, HookTypeOK, Kept
  <2> QED
    BY <2>1, FilesKept DEF HookTypes, HookTypeOK
<1>4. CASE ExitZero(h)
  <2> USE <1>4 DEF HookInv, ExitZero
  <2>1. HookTypes' /\ Kept'
    BY DEF HookTypes, HookTypeOK, Kept
  <2> QED
    BY <2>1, FilesKept DEF HookTypes, HookTypeOK
<1>5. CASE Kill(h)
  <2> USE <1>5 DEF HookInv, Kill
  <2>1. HookTypes' /\ Kept'
    BY DEF HookTypes, HookTypeOK, Kept
  <2>2. Filled'
    BY DEF Filled, IsFull, HookTypes, HookTypeOK
  <2>3. Lines'
    BY DEF Lines, Faulty
  <2> QED
    BY <2>1, <2>2, <2>3
<1> QED
  BY <1>1, <1>2, <1>3, <1>4, <1>5, FaultKeeps, AppendHealthKeeps DEF HookAction

\* read_lines returns the line of every process that has added one.
LEMMA ReadLinesReturnsAll ==
  ASSUME HookInv, NEW h \in Hook, kept[h] = "health" PROVE h \in ReadLines
<1> USE LauncherAssumption DEF HookInv, HookTypes
<1>1. PICK i \in HealthFile : h \in Range(health[i])
  BY DEF Lines
<1>2. health[i] # <<>>
  BY <1>1 DEF Range
<1>3. \A j \in 1..i : health[j] # <<>>
  BY <1>2 DEF Filled, IsFull, HealthFile
<1> QED
  BY <1>1, <1>3 DEF ReadLines

-----------------------------------------------------------------------------
(***************************************************************************)
(* The plugin's files.                                                     *)
(***************************************************************************)
PluginTypes ==
  /\ scenario \in Scenario
  /\ PluginTypeOK
  /\ DOMAIN written = Launch /\ DOMAIN staging = Launch /\ DOMAIN version = Version
  /\ owner \in [Session -> Launch \cup {NoOwner}]

\* As long as nobody uninstalls the product, a staging directory holds what its
\* launch has written, and the version of a session that began is whole.
Staged ==
  \A l \in Launch :
    at[l] = "staging" /\ uninstall[built[l].product] = "none" =>
      staging[l] = {Templates(built[l].product)[i] : i \in 1..written[l]}

LoadedWhole ==
  \A s \in Session :
    owner[s] # NoOwner /\ uninstall[VersionOf(s).product] = "none" => Whole(VersionOf(s))

PluginInv == PluginTypes /\ Staged /\ LoadedWhole /\ VersionsWhole

-----------------------------------------------------------------------------
(***************************************************************************)
(* The bridge and the end of a launch.                                     *)
(***************************************************************************)
BridgeTypes ==
  /\ runtime \in [Launch -> {"none", "live", "over"}]
  /\ creating \in [Session -> {"none", "forwarding", "writing", "done"}]
  /\ marker \in [Session -> Present \cup {"none", "consumed", "uninstalled"}]
  /\ prompt \in [Session -> {"none", "pending", "emitted"}]
  /\ idling \in [Session -> {"none", "flushing", "stopping"}]
  /\ listed \in [Launch -> SUBSET Session]
  /\ visited \in [Launch -> SUBSET Session]
  /\ ending \in [Launch -> Session \cup {NoSession}]

\* A launch ends sessions when its own runtime is over.
Phases ==
  \A l \in Launch :
    /\ at[l] \in {"idle", "looking", "staging", "ready", "refused"} => runtime[l] = "none"
    /\ at[l] \in {"ending", "delivering"} => runtime[l] = "over"
    /\ at[l] = "delivering" => ending[l] \in Session

\* A marker is written for a session that began, after its first hook.
Marked ==
  \A s \in Session :
    marker[s] # "none" => owner[s] # NoOwner /\ Over(StartHook(s))

\* A launch finds the markers of its own version, and delivers no others.
ListedOwn ==
  \A l \in Launch : \A s \in listed[l] : marker[s] # "none" /\ VersionOf(s) = built[l]

Ended ==
  \A s \in Session, l \in Launch :
    stage[EndHook(s, l)] # "none" =>
      /\ owner[s] # NoOwner /\ VersionOf(s) = built[l]
      /\ Over(StartHook(s))
      /\ runtime[l] = "over"

\* A message is flushed once.
Flushed ==
  \A s \in Session :
    prompt[s] # "emitted" =>
      stage[PromptHook(s, "on message")] = "none" /\ stage[PromptHook(s, "on idle")] = "none"

\* A marker is removed for a hook that exited zero.
Accounted ==
  \A s \in Session :
    marker[s] = "consumed" =>
      \E l \in Launch : kept[EndHook(s, l)] \in {"segment", "silent", "health"}

BridgeInv ==
  /\ BridgeTypes /\ Phases /\ Marked /\ ListedOwn /\ Ended /\ Flushed /\ PromptOnce
  /\ Accounted

LauncherInv == HookInv /\ PluginInv /\ BridgeInv

-----------------------------------------------------------------------------
(***************************************************************************)
(* What a step can do to each variable.                                    *)
(***************************************************************************)
LEMMA ScenarioFixed == ASSUME Next PROVE UNCHANGED scenario
BY DEF Next, Prepare, Killed, EndSessions, Runtime, Uninstall, HookStep, HookKilled,
       Materialize, Begin, Found, CreateStaging, WriteFile, WriteFails, Publish,
       RenameFails, MaterializeCommand, Crash, RuntimeOver, SkipMarker, Deliver, Consume,
       KeepMarker, AllVisited, StartRuntime, LaunchFails, RuntimeExits, SessionCreated,
       MarkerOpened, MarkerFilled, UserMessage, AssistantMessage, SessionIdle, TurnStops,
       RuntimeEvent, UninstallMarker, UninstallBegins, UninstallEnds, RemoveEntry,
       RemoveStaged, RemoveStaging, pluginVars

LEMMA OwnerKept ==
  ASSUME Next, owner \in [Session -> Launch \cup {NoOwner}], NEW s \in Session, owner[s] # NoOwner
  PROVE  owner'[s] = owner[s]
BY DEF Next, Prepare, Killed, EndSessions, Runtime, Uninstall, HookStep, HookKilled,
       Others, RuntimeOver, SkipMarker, Deliver, Consume,
       KeepMarker, AllVisited, StartRuntime, LaunchFails, RuntimeExits, SessionCreated,
       MarkerOpened, MarkerFilled, UserMessage, AssistantMessage, SessionIdle, TurnStops,
       RuntimeEvent, UninstallMarker, bridgeVars

LEMMA HookNames ==
  ASSUME NEW s \in Session
  PROVE  /\ StartHook(s) \in Hook /\ StopHook(s) \in Hook
         /\ \A by \in {"on message", "on idle"} : PromptHook(s, by) \in Hook
         /\ \A l \in Launch : EndHook(s, l) \in Hook
         /\ \A kind \in Events \cup {"session-end"} : HookOf(s, kind, "runtime") \in Hook
BY DEF StartHook, StopHook, PromptHook, EndHook, HookOf, Hook, Events

\* Names are distinct: a runtime runs no hook that has the name of a launch's.
LEMMA NamesDistinct ==
  ASSUME NEW s \in Session, NEW q \in Session, NEW l \in Launch, NEW k \in Launch
  PROVE  /\ EndHook(s, l) = EndHook(q, k) <=> s = q /\ l = k
         /\ EndHook(s, l) # StartHook(q) /\ EndHook(s, l) # StopHook(q)
         /\ \A kind : EndHook(s, l) # HookOf(q, kind, "runtime")
BY LauncherAssumption DEF StartHook, StopHook, PromptHook, EndHook, HookOf

LEMMA ProcessSteps ==
  ASSUME Next PROVE UNCHANGED processVars \/ \E h \in Hook : HookAction(h)
BY HookNames
DEF Next, Prepare, Killed, EndSessions, Runtime, Uninstall, HookStep, HookKilled, Others,
    RuntimeOver, SkipMarker, Deliver, Consume, KeepMarker, AllVisited, StartRuntime,
    LaunchFails, RuntimeExits, SessionCreated, MarkerOpened, MarkerFilled, UserMessage,
    AssistantMessage, SessionIdle, TurnStops, RuntimeEvent, UninstallMarker, FlushPrompt,
    processVars, HookAction

\* Processes do not come back, and keep what they have stored.
LEMMA ProcessesGoOn ==
  ASSUME Next, HookInv, NEW h \in Hook
  PROVE  /\ stage[h] # "none" => stage'[h] # "none"
         /\ Over(h) => Over(h)'
         /\ kept[h] \in {"segment", "silent", "health"} => kept'[h] = kept[h]
<1>1. CASE UNCHANGED processVars
  BY <1>1 DEF processVars, Over
<1>2. ASSUME NEW k \in Hook, HookAction(k)
      PROVE  /\ stage[h] # "none" => stage'[h] # "none"
             /\ Over(h) => Over(h)'
             /\ kept[h] \in {"segment", "silent", "health"} => kept'[h] = kept[h]
  BY <1>2 DEF HookAction, Spawn, Store, Fault, AppendHealth, KeepNothing, ExitZero, Kill,
              Starts, HookInv, Kept, HookTypes, HookTypeOK, Over
<1> QED
  BY <1>1, <1>2, ProcessSteps

\* Which step runs a new process.
LEMMA Spawners ==
  ASSUME Next
  PROVE  \/ UNCHANGED stage
         \/ \E h \in Hook : HookStep(h) \/ HookKilled(h)
         \/ \E q \in Session, kind \in Events \cup {"session-start", "session-end"} :
              Spawn(HookOf(q, kind, "runtime"))
         \/ \E q \in Session, by \in {"on message", "on idle"} : FlushPrompt(q, by)
         \/ \E q \in Session, l \in Launch : Deliver(l, q)
BY DEF Next, Prepare, Killed, EndSessions, Runtime, Uninstall, Others, RuntimeOver, SkipMarker,
      Consume, KeepMarker, AllVisited, StartRuntime, LaunchFails, RuntimeExits, SessionCreated,
      MarkerOpened, MarkerFilled, UserMessage, AssistantMessage, SessionIdle, TurnStops,
      RuntimeEvent, UninstallMarker, processVars, StartHook, StopHook, Events

\* The hook that ends a session is run by the launch that found the marker.
LEMMA EndHookSpawned ==
  ASSUME Next, HookTypes, NEW s \in Session, NEW l \in Launch,
         stage[EndHook(s, l)] = "none", stage'[EndHook(s, l)] # "none"
  PROVE  Deliver(l, s)
<1> DEFINE e == EndHook(s, l)
<1>1. e \in Hook /\ stage \in [Hook -> {"none", "running", "appending", "zero", "killed"}]
  BY HookNames DEF HookTypes, HookTypeOK
<1>2. ASSUME NEW h \in Hook, h # e, Spawn(h) PROVE FALSE
  BY <1>1, <1>2 DEF Spawn
<1>3. ASSUME NEW h \in Hook, HookStep(h) \/ HookKilled(h) PROVE FALSE
  BY <1>1, <1>3 DEF HookStep, HookKilled, Store, Fault, AppendHealth, KeepNothing, ExitZero,
                    Kill, Starts
<1>4. ASSUME NEW q \in Session, NEW kind \in Events \cup {"session-start", "session-end"},
             Spawn(HookOf(q, kind, "runtime"))
      PROVE  FALSE
  <2>1. HookOf(q, kind, "runtime") # e
    BY NamesDistinct
  <2>2. HookOf(q, kind, "runtime") \in Hook
    BY DEF HookOf, Hook
  <2> QED
    BY <1>2, <1>4, <2>1, <2>2
<1>5. ASSUME NEW q \in Session, NEW by \in {"on message", "on idle"}, FlushPrompt(q, by)
      PROVE  FALSE
  <2>1. PromptHook(q, by) # e /\ PromptHook(q, by) \in Hook
    BY HookNames DEF PromptHook, EndHook, HookOf
  <2> QED
    BY <1>2, <1>5, <2>1 DEF FlushPrompt
<1>6. ASSUME NEW q \in Session, NEW k \in Launch, Deliver(k, q) PROVE q = s /\ k = l
  <2>1. EndHook(q, k) = e
    BY <1>2, <1>6, HookNames DEF Deliver
  <2> QED
    BY <2>1, NamesDistinct
<1> QED
  BY <1>3, <1>4, <1>5, <1>6, Spawners

\* The message of a user is flushed when a prompt hook is run.
LEMMA PromptHookSpawned ==
  ASSUME Next, HookTypes, NEW s \in Session, NEW by \in {"on message", "on idle"},
         stage[PromptHook(s, by)] = "none", stage'[PromptHook(s, by)] # "none"
  PROVE  FlushPrompt(s, by)
<1> DEFINE e == PromptHook(s, by)
<1>1. e \in Hook /\ stage \in [Hook -> {"none", "running", "appending", "zero", "killed"}]
  BY HookNames DEF HookTypes, HookTypeOK
<1>2. ASSUME NEW h \in Hook, h # e, Spawn(h) PROVE FALSE
  BY <1>1, <1>2 DEF Spawn
<1>3. ASSUME NEW h \in Hook, HookStep(h) \/ HookKilled(h) PROVE FALSE
  BY <1>1, <1>3 DEF HookStep, HookKilled, Store, Fault, AppendHealth, KeepNothing, ExitZero,
                    Kill, Starts
<1>4. ASSUME NEW q \in Session, NEW kind \in Events \cup {"session-start", "session-end"},
             Spawn(HookOf(q, kind, "runtime"))
      PROVE  FALSE
  <2>1. HookOf(q, kind, "runtime") # e
    BY DEF PromptHook, HookOf
  <2>2. HookOf(q, kind, "runtime") \in Hook
    BY DEF HookOf, Hook
  <2> QED
    BY <1>2, <1>4, <2>1, <2>2
<1>5. ASSUME NEW q \in Session, NEW via \in {"on message", "on idle"}, FlushPrompt(q, via)
      PROVE  q = s /\ via = by
  <2>1. PromptHook(q, via) = e
    BY <1>2, <1>5, HookNames DEF FlushPrompt
  <2> QED
    BY <2>1 DEF PromptHook, HookOf
<1>6. ASSUME NEW q \in Session, NEW k \in Launch, Deliver(k, q) PROVE FALSE
  <2>1. EndHook(q, k) # e /\ EndHook(q, k) \in Hook
    BY HookNames DEF PromptHook, EndHook, HookOf
  <2> QED
    BY <1>2, <1>6, <2>1 DEF Deliver
<1> QED
  BY <1>3, <1>4, <1>5, <1>6, Spawners

-----------------------------------------------------------------------------
(***************************************************************************)
(* The plugin's files stay whole.                                          *)
(***************************************************************************)
LEMMA TemplateFiles ==
  ASSUME NEW v \in Version
  PROVE  LET T == Templates(v.product)
         IN  /\ Len(T) \in Nat \ {0}
             /\ \A i \in 1..Len(T) : T[i] \in Files(v)
             /\ Files(v) = {T[i] : i \in 1..Len(T)}
             /\ Files(v) # {} /\ Sentinel(v) \in Files(v)
             /\ "no directory" \notin Files(v) /\ "sessions" \notin Files(v)
<1> DEFINE T == Templates(v.product)
<1>1. CASE v.product = "opencode"
  <2>1. T = <<"bridge.ts", "opencode.json">>
    BY <1>1 DEF Templates
  <2>2. Len(T) = 2 /\ DOMAIN T = {1, 2} /\ T[1] = "bridge.ts" /\ T[2] = "opencode.json"
    BY <2>1
  <2> HIDE DEF T
  <2>3. Files(v) = {"bridge.ts", "opencode.json"}
    BY <2>2 DEF Files, Range, T
  <2>4. Sentinel(v) = "bridge.ts"
    BY <1>1 DEF Sentinel
  <2>5. 1..2 = {1, 2}
    OBVIOUS
  <2> QED
    BY <2>2, <2>3, <2>4, <2>5 DEF T
<1>2. CASE v.product # "opencode"
  <2>1. T = <<"plugin.json", "hooks.json", ".mcp.json">>
    BY <1>2 DEF Templates
  <2>2. /\ Len(T) = 3 /\ DOMAIN T = {1, 2, 3}
        /\ T[1] = "plugin.json" /\ T[2] = "hooks.json" /\ T[3] = ".mcp.json"
    BY <2>1
  <2> HIDE DEF T
  <2>3. Files(v) = {"plugin.json", "hooks.json", ".mcp.json"}
    BY <2>2 DEF Files, Range, T
  <2>4. Sentinel(v) = ".mcp.json"
    BY <1>2 DEF Sentinel
  <2>5. 1..3 = {1, 2, 3}
    OBVIOUS
  <2> QED
    BY <2>2, <2>3, <2>4, <2>5 DEF T
<1> QED
  BY <1>1, <1>2

LEMMA BuiltTypes ==
  ASSUME scenario \in Scenario
  PROVE  built \in [Launch -> Version] /\ \A l \in Launch : built[l].product \in Product
BY LauncherAssumption DEF built, Version

LEMMA PluginInv_Init == Init => PluginInv
<1> SUFFICES ASSUME Init PROVE PluginInv
  OBVIOUS
<1> USE DEF Init, PluginInit
<1>1. \A l \in Launch : Len(Templates(built[l].product)) \in Nat
  BY BuiltTypes, TemplateFiles
<1>2. PluginTypes
  BY <1>1 DEF PluginTypes, PluginTypeOK, Stages
<1>3. Staged /\ LoadedWhole /\ VersionsWhole
  BY DEF Staged, LoadedWhole, VersionsWhole
<1> QED
  BY <1>2, <1>3 DEF PluginInv

\* The steps that change the plugin's files, or who counts on them.
PluginStep ==
  \/ \E l \in Launch :
       \/ \E from, to \in Stages : Moves(l, from, to) /\ to # "staging"
            /\ UNCHANGED <<written, staging, version, uninstall, owner>>
       \/ CreateStaging(l) /\ UNCHANGED owner
       \/ WriteFile(l) /\ UNCHANGED owner
       \/ Publish(l) /\ UNCHANGED owner
       \/ RenameFails(l) /\ UNCHANGED owner
       \/ Crash(l) /\ UNCHANGED owner
       \/ \E f \in staging[l] : RemoveStaged(l, f) /\ UNCHANGED owner
       \/ RemoveStaging(l) /\ UNCHANGED owner
       \/ \E s \in Session : SessionCreated(l, s)
  \/ \E s \in Session : MarkerOpened(s)
  \/ \E v \in Version : \E f \in version[v] : RemoveEntry(v, f) /\ UNCHANGED owner
  \/ \E p \in Product :
       \/ UninstallBegins(p) /\ UNCHANGED owner
       \/ UninstallEnds(p) /\ UNCHANGED owner

LEMMA PluginSteps ==
  ASSUME Next, PluginInv
  PROVE  PluginStep \/ UNCHANGED <<at, written, staging, version, uninstall, owner>>
<1>1. \A s \in Scenario : s.uninstall \subseteq Product
  BY LauncherAssumption
<1>2. CASE Runtime \/ \E h \in Hook : HookStep(h) \/ HookKilled(h)
  BY <1>2
  DEF Runtime, HookStep, HookKilled, StartRuntime,
      LaunchFails, RuntimeExits, MarkerFilled, UserMessage,
      AssistantMessage, SessionIdle, TurnStops, RuntimeEvent, pluginVars, bridgeVars, 
      PluginStep, Stages
<1>3. CASE Uninstall
  BY <1>1, <1>3 DEF Uninstall, UninstallMarker, Others, bridgeVars, pluginVars, PluginStep,
      PluginInv, PluginTypes
<1>4. ASSUME NEW l \in Launch, Prepare(l) \/ Killed(l)
      PROVE  PluginStep
  BY <1>4 DEF Prepare, Killed, Others, bridgeVars, Materialize, Begin, Found, WriteFails, 
      MaterializeCommand, PluginStep, Stages
<1>5. ASSUME NEW l \in Launch, EndSessions(l)
      PROVE  PluginStep \/ UNCHANGED <<at, written, staging, version, uninstall, owner>>
  BY <1>5 DEF EndSessions, RuntimeOver, SkipMarker, Deliver, Consume, KeepMarker, AllVisited,
     bridgeVars, pluginVars, PluginStep, Stages
<1> QED
  BY <1>2, <1>3, <1>4, <1>5 DEF Next

\* A step that touches no version whose product nobody uninstalls.
LEMMA WholeKept ==
  ASSUME PluginInv, built' = built, UNCHANGED owner,
         \A v \in Version : uninstall'[v.product] = "none" =>
           uninstall[v.product] = "none" /\ version'[v] = version[v]
  PROVE  LoadedWhole' /\ VersionsWhole'
<1>1. VersionsWhole'
  BY DEF PluginInv, VersionsWhole, Whole
<1>2. ASSUME NEW s \in Session, owner[s] # NoOwner
      PROVE  VersionOf(s) \in Version /\ VersionOf(s)' = VersionOf(s)
  BY <1>2, BuiltTypes DEF PluginInv, PluginTypes, VersionOf
<1>3. LoadedWhole'
  <2> SUFFICES ASSUME NEW s \in Session, owner[s] # NoOwner,
                      uninstall'[VersionOf(s)'.product] = "none"
               PROVE  Whole(VersionOf(s))'
    BY DEF LoadedWhole
  <2>1. Whole(VersionOf(s)) /\ version'[VersionOf(s)] = version[VersionOf(s)]
    BY <1>2 DEF PluginInv, LoadedWhole
  <2> QED
    BY <1>2, <2>1 DEF Whole
<1> QED
  BY <1>1, <1>3

\* A step that touches no staging directory that is being filled.
LEMMA StagedKept ==
  ASSUME PluginInv, built' = built,
         \A l \in Launch : at'[l] = "staging" /\ uninstall'[built[l].product] = "none" =>
           /\ at[l] = "staging" /\ uninstall[built[l].product] = "none"
           /\ staging'[l] = staging[l] /\ written'[l] = written[l]
  PROVE  Staged'
BY DEF PluginInv, Staged

LEMMA PluginInv_Next == ASSUME Next, PluginInv PROVE PluginInv'
<1>0. built' = built /\ scenario' \in Scenario
  BY ScenarioFixed DEF built, PluginInv, PluginTypes
<1>00. built \in [Launch -> Version] /\ \A l \in Launch : built[l].product \in Product
  BY BuiltTypes DEF PluginInv, PluginTypes
<1>1. CASE UNCHANGED <<at, written, staging, version, uninstall, owner>>
  <2>1. PluginTypes'
    BY <1>0, <1>1 DEF PluginInv, PluginTypes, PluginTypeOK
  <2> QED
    BY <1>0, <1>1, <2>1, WholeKept, StagedKept DEF PluginInv
<1>2. ASSUME NEW l \in Launch, NEW from \in Stages, NEW to \in Stages, Moves(l, from, to),
             to # "staging", UNCHANGED <<written, staging, version, uninstall, owner>>
      PROVE  PluginInv'
  <2>1. PluginTypes'
    BY <1>0, <1>2 DEF PluginInv, PluginTypes, PluginTypeOK, Moves
  <2>2. Staged'
    BY <1>0, <1>2, StagedKept DEF PluginInv, PluginTypes, PluginTypeOK, Moves
  <2> QED
    BY <1>0, <1>2, <2>1, <2>2, WholeKept DEF PluginInv
<1>3. ASSUME NEW l \in Launch, CreateStaging(l), UNCHANGED owner PROVE PluginInv'
  <2> USE <1>0, <1>3 DEF CreateStaging, Moves
  <2>1. PluginTypes'
    <3>1. \A k \in Launch : Len(Templates(built[k].product)) \in Nat
      BY <1>00, TemplateFiles
    <3> QED
      BY <3>1 DEF PluginInv, PluginTypes, PluginTypeOK, Stages
  <2>2. Staged'
    BY DEF PluginInv, PluginTypes, PluginTypeOK, Staged
  <2>3. LoadedWhole' /\ VersionsWhole'
    BY WholeKept
  <2> QED
    BY <2>1, <2>2, <2>3 DEF PluginInv
<1>4. ASSUME NEW l \in Launch, WriteFile(l), UNCHANGED owner PROVE PluginInv'
  <2> DEFINE T == Templates(built[l].product)
             w == written[l] + 1
  <2>n. PICK n \in Nat : n = Len(T)
    BY <1>00, TemplateFiles
  <2>a. (\A i \in 1..n : T[i] \in Files(built[l])) /\ "no directory" \notin Files(built[l])
    BY <1>00, <2>n, TemplateFiles
  <2>b. written[l] \in 0..n /\ written[l] < n
    BY <1>4, <2>n DEF WriteFile, Unwritten, PluginInv, PluginTypes, PluginTypeOK
  <2>0. /\ w \in 1..n /\ T[w] \in Files(built[l])
        /\ written'[l] = w /\ written[l] \in Nat
        /\ staging'[l] = (staging[l] \ Absent) \cup {T[w]}
        /\ \A k \in Launch : k # l => written'[k] = written[k] /\ staging'[k] = staging[k]
    <3>1. w \in 1..n
      BY <2>b
    <3>2. T[w] \in Files(built[l])
      BY <2>a, <3>1
    <3> QED
      BY <1>4, <2>b, <3>1, <3>2 DEF WriteFile, NextFile, PluginInv, PluginTypes
  <2> USE <1>0, <1>4 DEF WriteFile
  <2>1. PluginTypes'
    <3> HIDE DEF w
    <3>1. w \in 0..Len(T)
      BY <2>0, <2>n
    <3>2. \A k \in Launch : written'[k] \in 0..Len(Templates(built[k].product))
      BY <2>0, <3>1 DEF PluginInv, PluginTypes, PluginTypeOK
    <3>3. staging'[l] \subseteq Files(built[l])
      BY <2>0 DEF PluginInv, PluginTypes, PluginTypeOK
    <3>4. \A k \in Launch : staging'[k] = Absent \/ staging'[k] \subseteq Files(built[k])
      BY <2>0, <3>3 DEF PluginInv, PluginTypes, PluginTypeOK
    <3> QED
      BY <3>2, <3>4 DEF PluginInv, PluginTypes, PluginTypeOK
  <2>2. Staged'
    <3> SUFFICES ASSUME NEW k \in Launch, at[k] = "staging",
                        uninstall[built[k].product] = "none"
                 PROVE  staging'[k] = {Templates(built[k].product)[i] : i \in 1..written'[k]}
      BY DEF Staged
    <3>1. staging[k] = {Templates(built[k].product)[i] : i \in 1..written[k]}
      BY DEF PluginInv, Staged
    <3>2. CASE k = l
      <4>1. staging[l] = {T[i] : i \in 1..written[l]}
        BY <3>1, <3>2
      <4>2. 1..written[l] \subseteq 1..n
        BY <2>b
      <4>3. staging[l] \ Absent = staging[l]
        BY <2>a, <4>1, <4>2 DEF Absent
      <4>4. 1..w = (1..written[l]) \cup {w}
        BY <2>b
      <4> HIDE DEF T, w
      <4>5. {T[i] : i \in 1..w} = {T[i] : i \in 1..written[l]} \cup {T[w]}
        BY <4>4
      <4>6. staging'[l] = {T[i] : i \in 1..w}
        BY <2>0, <4>1, <4>3, <4>5
      <4> QED
        BY <2>0, <3>2, <4>6 DEF T
    <3> QED
      BY <2>0, <3>1, <3>2
  <2>3. LoadedWhole' /\ VersionsWhole'
    BY WholeKept
  <2> QED
    BY <2>1, <2>2, <2>3 DEF PluginInv
<1>5. ASSUME NEW l \in Launch, Publish(l), UNCHANGED owner PROVE PluginInv'
  <2> USE <1>0, <1>5 DEF Publish, Moves
  <2>1. PluginTypes'
    BY <1>00 DEF PluginInv, PluginTypes, PluginTypeOK, Stages
  <2>2. Staged'
    BY DEF PluginInv, PluginTypes, PluginTypeOK, Staged
  <2>3. uninstall[built[l].product] = "none" => staging[l] = Files(built[l])
    <3> DEFINE T == Templates(built[l].product)
    <3>1. Len(T) \in Nat /\ Files(built[l]) = {T[i] : i \in 1..Len(T)}
      BY <1>00, TemplateFiles
    <3>2. written[l] = Len(T)
      BY <3>1 DEF PluginInv, PluginTypes, PluginTypeOK, Unwritten
    <3> QED
      BY <3>1, <3>2 DEF PluginInv, Staged
  <2>4. /\ version'[built[l]] = staging[l]
        /\ \A v \in Version : v # built[l] => version'[v] = version[v]
    BY <1>00 DEF PluginInv, PluginTypes
  <2>5. VersionsWhole'
    BY <2>3, <2>4 DEF PluginInv, VersionsWhole, Whole
  <2>6. LoadedWhole'
    <3>1. ASSUME NEW s \in Session, owner[s] # NoOwner PROVE VersionOf(s) \in Version
      BY <1>00, <3>1 DEF PluginInv, PluginTypes, VersionOf
    <3> QED
      BY <2>3, <2>4, <3>1 DEF PluginInv, LoadedWhole, Whole, VersionOf
  <2> QED
    BY <2>1, <2>2, <2>5, <2>6 DEF PluginInv
<1>6. ASSUME NEW l \in Launch, RenameFails(l), UNCHANGED owner PROVE PluginInv'
  <2> USE <1>0, <1>6 DEF RenameFails, Moves
  <2>1. PluginTypes'
    BY DEF PluginInv, PluginTypes, PluginTypeOK, Stages
  <2>2. Staged'
    BY StagedKept DEF PluginInv, PluginTypes, PluginTypeOK
  <2> QED
    BY <2>1, <2>2, WholeKept DEF PluginInv
<1>7. ASSUME NEW l \in Launch, Crash(l), UNCHANGED owner PROVE PluginInv'
  <2> USE <1>0, <1>7 DEF Crash
  <2>1. PluginTypes'
    BY DEF PluginInv, PluginTypes, PluginTypeOK, Stages
  <2>2. Staged'
    BY StagedKept DEF PluginInv, PluginTypes, PluginTypeOK
  <2> QED
    BY <2>1, <2>2, WholeKept DEF PluginInv
<1>8. ASSUME NEW l \in Launch, NEW f \in staging[l], RemoveStaged(l, f), UNCHANGED owner
      PROVE  PluginInv'
  <2> USE <1>0, <1>8 DEF RemoveStaged
  <2>1. PluginTypes'
    BY DEF PluginInv, PluginTypes, PluginTypeOK
  <2>2. Staged'
    BY StagedKept DEF PluginInv, PluginTypes, PluginTypeOK
  <2> QED
    BY <2>1, <2>2, WholeKept DEF PluginInv
<1>9. ASSUME NEW l \in Launch, RemoveStaging(l), UNCHANGED owner PROVE PluginInv'
  <2> USE <1>0, <1>9 DEF RemoveStaging
  <2>1. PluginTypes'
    BY DEF PluginInv, PluginTypes, PluginTypeOK
  <2>2. Staged'
    BY StagedKept DEF PluginInv, PluginTypes, PluginTypeOK
  <2> QED
    BY <2>1, <2>2, WholeKept DEF PluginInv
<1>10. ASSUME NEW l \in Launch, NEW s \in Session, SessionCreated(l, s) PROVE PluginInv'
  <2> USE <1>0, <1>10 DEF SessionCreated, pluginVars
  <2>1. PluginTypes'
    BY DEF PluginInv, PluginTypes, PluginTypeOK
  <2>2. Staged' /\ VersionsWhole'
    BY DEF PluginInv, Staged, VersionsWhole, Whole
  <2>3. LoadedWhole'
    BY DEF PluginInv, PluginTypes, LoadedWhole, VersionOf, Whole
  <2> QED
    BY <2>1, <2>2, <2>3 DEF PluginInv
<1>11. ASSUME NEW s \in Session, MarkerOpened(s) PROVE PluginInv'
  <2> USE <1>0, <1>11 DEF MarkerOpened, Bridged, Alive
  <2>1. VersionOf(s) \in Version
    BY <1>00 DEF PluginInv, PluginTypes, VersionOf
  <2>2. /\ version'[VersionOf(s)] = version[VersionOf(s)] \cup {"sessions"}
        /\ \A v \in Version : v # VersionOf(s) => version'[v] = version[v]
    BY <2>1 DEF PluginInv, PluginTypes
  <2>3. PluginTypes'
    BY <2>1, <2>2 DEF PluginInv, PluginTypes, PluginTypeOK
  <2>4. Staged'
    BY DEF PluginInv, Staged
  <2>5. \A v \in Version : Whole(v) => Whole(v)'
    BY <2>2 DEF Whole
  <2>6. VersionsWhole'
    BY <2>2, <2>5 DEF PluginInv, VersionsWhole, LoadedWhole
  <2>7. LoadedWhole'
    <3>1. ASSUME NEW q \in Session, owner[q] # NoOwner
          PROVE  VersionOf(q) \in Version /\ VersionOf(q)' = VersionOf(q)
      BY <1>00, <3>1 DEF PluginInv, PluginTypes, VersionOf
    <3> QED
      BY <2>5, <3>1 DEF PluginInv, LoadedWhole, Whole, VersionOf
  <2> QED
    BY <2>3, <2>4, <2>6, <2>7 DEF PluginInv
<1>12. ASSUME NEW v \in Version, NEW f \in version[v], RemoveEntry(v, f), UNCHANGED owner
       PROVE  PluginInv'
  <2> USE <1>0, <1>12 DEF RemoveEntry
  <2>1. PluginTypes'
    BY DEF PluginInv, PluginTypes, PluginTypeOK
  <2>2. Staged'
    BY DEF PluginInv, Staged
  <2>3. \A w \in Version : uninstall[w.product] = "none" => version'[w] = version[w]
    BY DEF PluginInv, PluginTypes
  <2>4. VersionsWhole'
    BY <2>3 DEF PluginInv, VersionsWhole, Whole
  <2>5. LoadedWhole'
    BY <1>00, <2>3 DEF PluginInv, PluginTypes, LoadedWhole, Whole, VersionOf
  <2> QED
    BY <2>1, <2>2, <2>4, <2>5 DEF PluginInv
<1>13. ASSUME NEW p \in Product, UninstallBegins(p) \/ UninstallEnds(p), UNCHANGED owner
       PROVE  PluginInv'
  <2> USE <1>0, <1>13 DEF UninstallBegins, UninstallEnds
  <2>1. PluginTypes'
    BY DEF PluginInv, PluginTypes, PluginTypeOK
  <2>2. \A q \in Product : uninstall'[q] = "none" => uninstall[q] = "none"
    BY DEF PluginInv, PluginTypes, PluginTypeOK
  <2>3. Staged'
    BY <1>00, <2>2 DEF PluginInv, Staged
  <2>4. VersionsWhole'
    BY <2>2 DEF PluginInv, VersionsWhole, Whole, Version
  <2>5. LoadedWhole'
    BY <1>00, <2>2 DEF PluginInv, PluginTypes, LoadedWhole, Whole, VersionOf
  <2> QED
    BY <2>1, <2>3, <2>4, <2>5 DEF PluginInv
<1> QED
  BY <1>1, <1>2, <1>3, <1>4, <1>5, <1>6, <1>7, <1>8, <1>9, <1>10, <1>11, <1>12, <1>13,
     PluginSteps DEF PluginStep

-----------------------------------------------------------------------------
(***************************************************************************)
(* The bridge, its markers, and the launches that end sessions.            *)
(***************************************************************************)
LEMMA BridgeInv_Init == Init => BridgeInv
<1> SUFFICES ASSUME Init PROVE BridgeInv
  OBVIOUS
<1> USE DEF Init, PluginInit, HookInit
<1>1. BridgeTypes /\ Phases /\ Marked /\ ListedOwn
  BY DEF BridgeTypes, Phases, Marked, ListedOwn
<1>2. Ended /\ Flushed /\ PromptOnce
  BY HookNames DEF Ended, Flushed, PromptOnce
<1>3. Accounted
  BY DEF Accounted
<1> QED
  BY <1>1, <1>2, <1>3 DEF BridgeInv

LEMMA MarkersTyped ==
  ASSUME NEW v PROVE Markers(v) \subseteq Session
BY DEF Markers

LEMMA BridgeTypesKept == ASSUME Next, BridgeTypes PROVE BridgeTypes'
<1> USE DEF BridgeTypes
<1>1. ASSUME NEW l \in Launch, Prepare(l) \/ Killed(l) PROVE BridgeTypes'
  BY <1>1 DEF Prepare, Killed, Others, bridgeVars, endingVars
<1>2. ASSUME NEW l \in Launch, EndSessions(l) PROVE BridgeTypes'
  BY <1>2, MarkersTyped DEF EndSessions, RuntimeOver, SkipMarker, Deliver, Consume,
     KeepMarker, AllVisited, bridgeVars, endingVars, NextMarkers
<1>3. CASE Runtime
  <2>1. ASSUME NEW l \in Launch, StartRuntime(l) \/ LaunchFails(l) \/ RuntimeExits(l)
        PROVE  BridgeTypes'
    BY <2>1 DEF StartRuntime, LaunchFails, RuntimeExits, bridgeVars, endingVars
  <2>2. ASSUME NEW l \in Launch, NEW s \in Session, SessionCreated(l, s) PROVE BridgeTypes'
    BY <2>2 DEF SessionCreated, endingVars
  <2>3. ASSUME NEW s \in Session, MarkerOpened(s) PROVE BridgeTypes'
    BY <2>3 DEF MarkerOpened, endingVars, Present
  <2>4. ASSUME NEW s \in Session, MarkerFilled(s) PROVE BridgeTypes'
    <3>1. (IF marker[s] = "partial" THEN "whole" ELSE marker[s])
            \in Present \cup {"none", "consumed", "uninstalled"}
      BY DEF Present
    <3> QED
      BY <2>4, <3>1 DEF MarkerFilled, endingVars
  <2>5. ASSUME NEW s \in Session,
               UserMessage(s) \/ AssistantMessage(s) \/ SessionIdle(s) \/ TurnStops(s)
        PROVE  BridgeTypes'
    <3>1. CASE UserMessage(s) \/ AssistantMessage(s)
      BY <3>1 DEF UserMessage, AssistantMessage, FlushPrompt, endingVars
    <3>2. CASE SessionIdle(s)
      BY <3>2 DEF SessionIdle, FlushPrompt, endingVars
    <3>3. CASE TurnStops(s)
      BY <3>3 DEF TurnStops, endingVars
    <3> QED
      BY <2>5, <3>1, <3>2, <3>3
  <2>6. ASSUME NEW s \in Session, NEW kind, RuntimeEvent(s, kind) PROVE BridgeTypes'
    BY <2>6 DEF RuntimeEvent, bridgeVars, endingVars
  <2> QED
    BY <1>3, <2>1, <2>2, <2>3, <2>4, <2>5, <2>6 DEF Runtime
<1>4. CASE Uninstall
  BY <1>4 DEF Uninstall, UninstallMarker, Others, bridgeVars, endingVars
<1>5. ASSUME NEW h \in Hook, HookStep(h) \/ HookKilled(h) PROVE BridgeTypes'
  BY <1>5 DEF HookStep, HookKilled, bridgeVars, endingVars
<1> QED
  BY <1>1, <1>2, <1>3, <1>4, <1>5 DEF Next

LEMMA PhasesKept ==
  ASSUME Next, PluginTypes, BridgeTypes, Phases PROVE Phases'
<1> USE DEF Phases, PluginTypes, PluginTypeOK, BridgeTypes
<1>1. ASSUME NEW l \in Launch, Prepare(l) \/ Killed(l) PROVE Phases'
  <2>1. UNCHANGED <<runtime, ending>>
    BY <1>1 DEF Prepare, Killed, Others, bridgeVars, endingVars
  <2>2. \A k \in Launch :
          \/ at'[k] = at[k]
          \/ /\ at[k] \in {"idle", "looking", "staging", "ready", "refused"}
             /\ at'[k] \in {"idle", "looking", "staging", "ready", "refused"}
          \/ at'[k] \in {"done", "crashed"}
    BY <1>1 DEF Prepare, Killed, Materialize, Begin, Found, CreateStaging, WriteFile, WriteFails,
       Publish, RenameFails, MaterializeCommand, Crash, Moves
  <2> QED
    BY <2>1, <2>2
<1>2. ASSUME NEW l \in Launch, EndSessions(l) PROVE Phases'
  BY <1>2 DEF EndSessions, RuntimeOver, SkipMarker, Deliver, Consume, KeepMarker, AllVisited,
     bridgeVars, endingVars, pluginVars, Moves
<1>3. CASE Runtime
  <2>1. ASSUME NEW l \in Launch, StartRuntime(l) \/ LaunchFails(l) \/ RuntimeExits(l)
        PROVE  Phases'
    BY <2>1 DEF StartRuntime, LaunchFails, RuntimeExits, bridgeVars, endingVars, pluginVars, Moves
  <2>2. CASE UNCHANGED <<at, runtime, ending>>
    BY <2>2
  <2> QED
    BY <1>3, <2>1, <2>2 DEF Runtime, SessionCreated, MarkerOpened, MarkerFilled, UserMessage,
       AssistantMessage, SessionIdle, TurnStops, RuntimeEvent, bridgeVars, endingVars, pluginVars
<1>4. CASE Uninstall
  BY <1>4 DEF Uninstall, UninstallMarker, UninstallBegins, UninstallEnds, RemoveEntry,
     RemoveStaged, RemoveStaging, Others, bridgeVars, endingVars, pluginVars
<1>5. ASSUME NEW h \in Hook, HookStep(h) \/ HookKilled(h) PROVE Phases'
  BY <1>5 DEF HookStep, HookKilled, bridgeVars, endingVars, pluginVars
<1> QED
  BY <1>1, <1>2, <1>3, <1>4, <1>5 DEF Next

\* A marker is never taken back, and is written by the bridge.
LEMMA MarkersGoOn ==
  ASSUME Next, BridgeTypes, NEW s \in Session
  PROVE  /\ marker[s] # "none" => marker'[s] # "none"
         /\ marker[s] = "none" /\ marker'[s] # "none" => MarkerOpened(s)
         /\ marker'[s] = "consumed" /\ marker[s] # "consumed" =>
              \E l \in Launch : ending[l] = s /\ Consume(l)
<1>1. \/ UNCHANGED marker
      \/ \E q \in Session : MarkerOpened(q) \/ MarkerFilled(q) \/ UninstallMarker(q)
      \/ \E l \in Launch : Consume(l)
  BY DEF Next, Prepare, Killed, EndSessions, Runtime, Uninstall, HookStep, HookKilled,
     Others, RuntimeOver, SkipMarker, Deliver, KeepMarker, AllVisited, StartRuntime,
     LaunchFails, RuntimeExits, SessionCreated, UserMessage, AssistantMessage, SessionIdle,
     TurnStops, RuntimeEvent, bridgeVars
<1>2. ASSUME NEW q \in Session, MarkerOpened(q) \/ MarkerFilled(q) \/ UninstallMarker(q)
      PROVE  /\ marker[s] # "none" => marker'[s] # "none"
             /\ marker[s] = "none" /\ marker'[s] # "none" => MarkerOpened(s)
             /\ marker'[s] = "consumed" => marker[s] = "consumed"
  BY <1>2 DEF MarkerOpened, MarkerFilled, UninstallMarker, BridgeTypes, Present
<1>3. ASSUME NEW l \in Launch, Consume(l)
      PROVE  /\ marker[s] # "none" => marker'[s] # "none"
             /\ marker[s] = "none" => marker'[s] = "none"
             /\ marker'[s] = "consumed" /\ marker[s] # "consumed" => ending[l] = s
  BY <1>3 DEF Consume, BridgeTypes, Present
<1> QED
  BY <1>1, <1>2, <1>3

LEMMA RuntimesGoOn ==
  ASSUME Next, BridgeTypes, Phases, NEW l \in Launch, runtime[l] = "over"
  PROVE  runtime'[l] = "over"
BY DEF Next, Prepare, Killed, EndSessions, Runtime, Uninstall, HookStep, HookKilled,
       Others, RuntimeOver, SkipMarker, Deliver, Consume,
       KeepMarker, AllVisited, StartRuntime, LaunchFails, RuntimeExits, SessionCreated,
       MarkerOpened, MarkerFilled, UserMessage, AssistantMessage, SessionIdle, TurnStops,
       RuntimeEvent, UninstallMarker, bridgeVars, BridgeTypes, Phases, Moves

LEMMA MarkedKept ==
  ASSUME Next, HookInv, PluginTypes, BridgeTypes, Marked PROVE Marked'
<1> SUFFICES ASSUME NEW s \in Session, marker'[s] # "none"
             PROVE  owner'[s] # NoOwner /\ Over(StartHook(s))'
  BY DEF Marked
<1>1. owner[s] # NoOwner /\ Over(StartHook(s))
  <2>1. CASE marker[s] # "none"
    BY <2>1 DEF Marked
  <2>2. CASE marker[s] = "none"
    BY <2>2, MarkersGoOn DEF MarkerOpened, Bridged, Alive
  <2> QED
    BY <2>1, <2>2
<1>2. owner'[s] # NoOwner
  BY <1>1, OwnerKept DEF PluginTypes
<1>3. Over(StartHook(s))'
  <2>1. StartHook(s) \in Hook /\ StartHook(s)' = StartHook(s)
    BY HookNames DEF StartHook, HookOf
  <2> QED
    BY <1>1, <2>1, ProcessesGoOn
<1> QED
  BY <1>2, <1>3

LEMMA VersionFixed ==
  ASSUME Next, PluginTypes, NEW s \in Session, owner[s] # NoOwner
  PROVE  VersionOf(s)' = VersionOf(s) /\ built' = built
BY ScenarioFixed, OwnerKept DEF VersionOf, built, PluginTypes

LEMMA ListedOwnKept ==
  ASSUME Next, PluginTypes, BridgeTypes, Marked, ListedOwn PROVE ListedOwn'
<1> SUFFICES ASSUME NEW l \in Launch, NEW s \in listed'[l]
             PROVE  marker'[s] # "none" /\ VersionOf(s)' = built'[l]
  BY DEF ListedOwn
<1>1. s \in listed[l] \/ s \in Markers(built[l])
  <2>1. UNCHANGED listed \/ \E k \in Launch : RuntimeOver(k)
    BY DEF Next, Prepare, Killed, EndSessions, Runtime, Uninstall, HookStep, HookKilled,
       Others, SkipMarker, Deliver, Consume, KeepMarker, AllVisited, StartRuntime,
       LaunchFails, RuntimeExits, SessionCreated, MarkerOpened, MarkerFilled, UserMessage,
       AssistantMessage, SessionIdle, TurnStops, RuntimeEvent, UninstallMarker, endingVars
  <2> QED
    BY <2>1 DEF RuntimeOver, BridgeTypes
<1>2. s \in Session /\ marker[s] # "none" /\ VersionOf(s) = built[l]
  BY <1>1 DEF Markers, Present, ListedOwn, BridgeTypes
<1>3. owner[s] # NoOwner
  BY <1>2 DEF Marked
<1> QED
  BY <1>2, <1>3, MarkersGoOn, VersionFixed

LEMMA EndedKept ==
  ASSUME Next, HookInv, PluginTypes, BridgeTypes, Phases, Marked, ListedOwn, Ended
  PROVE  Ended'
<1> SUFFICES ASSUME NEW s \in Session, NEW l \in Launch, stage'[EndHook(s, l)] # "none"
             PROVE  /\ owner'[s] # NoOwner /\ VersionOf(s)' = built'[l]
                    /\ Over(StartHook(s))'
                    /\ runtime'[l] = "over"
  BY DEF Ended, EndHook, HookOf
<1>1. /\ owner[s] # NoOwner /\ VersionOf(s) = built[l]
      /\ Over(StartHook(s))
      /\ runtime[l] = "over"
  <2>1. CASE stage[EndHook(s, l)] # "none"
    BY <2>1 DEF Ended
  <2>2. CASE stage[EndHook(s, l)] = "none"
    <3>1. Deliver(l, s)
      BY <2>2, EndHookSpawned DEF HookInv
    <3>2. marker[s] # "none" /\ at[l] = "ending"
      BY <3>1 DEF Deliver, Moves
    <3>3. VersionOf(s) = built[l]
      BY <3>1 DEF Deliver, NextMarkers, Markers, ListedOwn
    <3> QED
      BY <3>2, <3>3 DEF Marked, Phases
  <2> QED
    BY <2>1, <2>2
<1>2. Over(StartHook(s))'
  <2>1. StartHook(s) \in Hook /\ StartHook(s)' = StartHook(s)
    BY HookNames DEF StartHook, HookOf
  <2> QED
    BY <1>1, <2>1, ProcessesGoOn
<1> QED
  BY <1>1, <1>2, VersionFixed, OwnerKept, RuntimesGoOn DEF PluginTypes

LEMMA FlushedKept ==
  ASSUME Next, HookInv, BridgeTypes, Flushed, PromptOnce PROVE Flushed' /\ PromptOnce'
<1>1. \A s \in Session : prompt[s] = "emitted" => prompt'[s] = "emitted"
  <2>1. UNCHANGED prompt \/ \E s \in Session : \/ UserMessage(s)
                                              \/ \E by : FlushPrompt(s, by)
    BY DEF Next, Prepare, Killed, EndSessions, Runtime, Uninstall, HookStep, HookKilled,
       Others, RuntimeOver, SkipMarker, Deliver, Consume, KeepMarker, AllVisited, StartRuntime,
       LaunchFails, RuntimeExits, SessionCreated, MarkerOpened, MarkerFilled,
       AssistantMessage, SessionIdle, TurnStops, RuntimeEvent, UninstallMarker, bridgeVars
  <2> QED
    BY <2>1 DEF UserMessage, FlushPrompt, BridgeTypes
<1>2. ASSUME NEW s \in Session, NEW by \in {"on message", "on idle"},
             stage'[PromptHook(s, by)] # "none", stage[PromptHook(s, by)] = "none"
      PROVE  /\ prompt[s] = "pending" /\ prompt'[s] = "emitted"
             /\ \A via \in {"on message", "on idle"} :
                  via # by => stage'[PromptHook(s, via)] = "none"
  <2>1. FlushPrompt(s, by)
    BY <1>2, PromptHookSpawned DEF HookInv
  <2>2. prompt[s] = "pending" /\ prompt'[s] = "emitted"
    BY <2>1 DEF FlushPrompt, BridgeTypes
  <2>3. ASSUME NEW via \in {"on message", "on idle"}, via # by
        PROVE  stage'[PromptHook(s, via)] = "none"
    <3>1. PromptHook(s, via) # PromptHook(s, by) /\ PromptHook(s, via) \in Hook
      BY <2>3, HookNames DEF PromptHook, HookOf
    <3>2. stage[PromptHook(s, via)] = "none"
      BY <2>2 DEF Flushed
    <3> QED
      BY <2>1, <3>1, <3>2 DEF FlushPrompt, Spawn, HookInv, HookTypes, HookTypeOK
  <2> QED
    BY <2>2, <2>3
<1>3. \A s \in Session : \A by : PromptHook(s, by)' = PromptHook(s, by)
  BY DEF PromptHook, HookOf
<1>4. Flushed'
  BY <1>1, <1>2, <1>3 DEF Flushed
<1>5. PromptOnce'
  BY <1>2, <1>3, <1>1 DEF PromptOnce, Flushed
<1> QED
  BY <1>4, <1>5

LEMMA AccountedKept ==
  ASSUME Next, HookInv, BridgeTypes, Accounted PROVE Accounted'
<1> SUFFICES ASSUME NEW s \in Session, marker'[s] = "consumed"
             PROVE  \E l \in Launch :
                      kept'[EndHook(s, l)] \in {"segment", "silent", "health"}
  BY DEF Accounted, EndHook, HookOf
<1>1. PICK l \in Launch : kept[EndHook(s, l)] \in {"segment", "silent", "health"}
  <2>1. CASE marker[s] = "consumed"
    BY <2>1 DEF Accounted
  <2>2. CASE marker[s] # "consumed"
    <3>1. PICK l \in Launch : ending[l] = s /\ Consume(l)
      BY <2>2, MarkersGoOn
    <3>2. stage[EndHook(s, l)] = "zero"
      BY <3>1 DEF Consume
    <3> QED
      BY <3>2, HookNames DEF HookInv, Kept
  <2> QED
    BY <2>1, <2>2
<1> QED
  BY <1>1, ProcessesGoOn, HookNames

LEMMA BridgeInv_Next ==
  ASSUME Next, LauncherInv PROVE BridgeInv'
BY BridgeTypesKept, PhasesKept, MarkedKept, ListedOwnKept, EndedKept, FlushedKept, AccountedKept
DEF LauncherInv, BridgeInv, PluginInv

LEMMA LauncherInv_Stutter ==
  ASSUME LauncherInv, UNCHANGED vars PROVE LauncherInv'
<1> USE DEF LauncherInv, vars, pluginVars, processVars, bridgeVars, endingVars
<1>1. HookInv'
  BY DEF HookInv, HookTypes, HookTypeOK, Kept, Filled, IsFull, Lines, Faulty
<1>2. built' = built /\ \A s \in Session : VersionOf(s)' = VersionOf(s)
  BY DEF built, VersionOf
<1>3. PluginInv'
  <2>1. PluginTypes'
    BY <1>2 DEF PluginInv, PluginTypes, PluginTypeOK
  <2> QED
    BY <1>2, <2>1, WholeKept, StagedKept DEF PluginInv
<1>4. BridgeTypes' /\ Phases' /\ Marked' /\ Accounted' /\ Flushed' /\ PromptOnce'
  BY DEF BridgeInv, BridgeTypes, Phases, Marked, Accounted, Flushed, PromptOnce, Over
<1>5. ListedOwn' /\ Ended'
  BY <1>2 DEF BridgeInv, ListedOwn, Ended, Over, BridgeTypes
<1> QED
  BY <1>1, <1>3, <1>4, <1>5 DEF BridgeInv

LEMMA LauncherInv_Next ==
  ASSUME LauncherInv, [Next]_vars PROVE LauncherInv'
<1>1. CASE UNCHANGED vars
  BY <1>1, LauncherInv_Stutter
<1>2. CASE Next
  <2>1. HookInv'
    <3>1. CASE UNCHANGED processVars
      BY <3>1 DEF LauncherInv, processVars, HookInv, HookTypes, HookTypeOK, Kept, Filled, IsFull,
                  Lines, Faulty
    <3> QED
      BY <1>2, <3>1, ProcessSteps, HookInv_Next DEF LauncherInv
  <2>2. PluginInv'
    BY <1>2, PluginInv_Next DEF LauncherInv
  <2>3. BridgeInv'
    BY <1>2, BridgeInv_Next
  <2> QED
    BY <2>1, <2>2, <2>3 DEF LauncherInv
<1> QED
  BY <1>1, <1>2

(***************************************************************************)
(* Any number of launches of any builds: the inductive invariant.          *)
(***************************************************************************)
THEOREM LauncherInvariant == Spec => []LauncherInv
<1>1. Init => LauncherInv
  BY HookInv_Init, PluginInv_Init, BridgeInv_Init DEF LauncherInv, Init
<1> QED
  BY <1>1, LauncherInv_Next, PTL DEF Spec

\* The variables keep their types, the numbered health files included: a
\* process that faults always finds one with room.
THEOREM TypesHold == Spec => []TypeOK
<1>1. LauncherInv => TypeOK
  BY DEF LauncherInv, HookInv, HookTypes, PluginInv, PluginTypes, BridgeInv, BridgeTypes, TypeOK
<1> QED
  BY <1>1, LauncherInvariant, PTL

\* Launches that materialize a version together, and are killed anywhere,
\* never leave a part of it.
THEOREM WholeVersions == Spec => []VersionsWhole
<1>1. LauncherInv => VersionsWhole
  BY DEF LauncherInv, PluginInv
<1> QED
  BY <1>1, LauncherInvariant, PTL

\* No end of a session is lost with its marker: it is stored, or read_lines
\* returns the fault of the hook that should have stored it, or that hook could
\* keep neither.
THEOREM MarkersAccounted == Spec => []ConsumedAccounted
<1>1. LauncherInv => ConsumedAccounted
  <2> SUFFICES ASSUME LauncherInv, NEW s \in Session, marker[s] = "consumed"
               PROVE  \E l \in Launch : \/ kept[EndHook(s, l)] \in {"segment", "silent"}
                                       \/ EndHook(s, l) \in ReadLines
    BY DEF ConsumedAccounted
  <2>1. PICK l \in Launch : kept[EndHook(s, l)] \in {"segment", "silent", "health"}
    BY DEF LauncherInv, BridgeInv, Accounted
  <2> QED
    BY <2>1, HookNames, ReadLinesReturnsAll DEF LauncherInv
<1> QED
  BY <1>1, LauncherInvariant, PTL

\* The end of a session is delivered after the hook of its start is over.
THEOREM StartsFirst == Spec => []NoStartAfterEnd
<1>1. LauncherInv => NoStartAfterEnd
  BY DEF LauncherInv, BridgeInv, Ended, NoStartAfterEnd
<1> QED
  BY <1>1, LauncherInvariant, PTL

\* A live session is ended by nobody but a launch of the same version whose own
\* runtime is over.
THEOREM EndsWithinVersion == Spec => []EarlyEndWithinVersion
<1>1. LauncherInv => EarlyEndWithinVersion
  BY DEF LauncherInv, BridgeInv, Ended, EarlyEndWithinVersion
<1> QED
  BY <1>1, LauncherInvariant, PTL

\* Neither order of the handlers forwards a user message twice.
THEOREM PromptsOnce == Spec => []PromptOnce
<1>1. LauncherInv => PromptOnce
  BY DEF LauncherInv, BridgeInv
<1> QED
  BY <1>1, LauncherInvariant, PTL
=============================================================================
