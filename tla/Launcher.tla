------------------------------ MODULE Launcher ------------------------------
(***************************************************************************)
(* A launch runs a coding runtime with the recorder attached.  Claude Code *)
(* runs "hook ingest" itself, at the end of a session too.  OpenCode loads *)
(* a bridge that runs it, but a plugin does not see its own process exit:  *)
(* the bridge leaves a marker for each session in the plugin's directory,  *)
(* and when the runtime is gone the launch delivers a session end for each *)
(* marker it finds there, and removes the marker once that hook has exited *)
(* zero.                                                                   *)
(*                                                                         *)
(* The directory belongs to a version, so launches of one build share the  *)
(* markers of all their sessions.  Launches, runtimes, bridge handlers and *)
(* hook processes are independent: killing one leaves the others running.  *)
(*                                                                         *)
(* The runtime is not assumed to wait for one handler of the bridge before *)
(* it calls the next.                                                      *)
(***************************************************************************)
EXTENDS Plugins

CONSTANTS
  Session,     \* sessions, by the identifiers the runtimes give them
  RotateAt,
  MaxFaults,
  Scenario     \* bounds, of which a behaviour keeps one:
               \*   built      what each launch's binary renders
               \*   launches   launches that run
               \*   sessions   sessions that are created
               \*   events     messages, tool calls and idle events
               \*   faults, silent, kills   hooks that fail in each way
               \*   crashes    launches that are killed
               \*   uninstall  products that are uninstalled

Events == {"user-prompt-submit", "pre-tool-use", "post-tool-use", "stop"}

\* A hook process is named by what it is told and who runs it: a handler of
\* the bridge, Claude Code, or a launch that ends the session.
Hook ==
  [session : Session, kind : {"session-start", "session-end"} \cup Events,
   by : {"runtime"}]
    \cup [session : Session, kind : {"user-prompt-submit"},
          by : {"on message", "on idle"}]
    \cup [session : Session, kind : {"session-end"}, by : Launch]

NoOwner == "no launch"
NoSession == "no session"

ASSUME LauncherAssumption ==
  /\ Launch \cap {"runtime", NoOwner} = {} /\ NoSession \notin Session
  /\ RotateAt \in Nat \ {0} /\ MaxFaults \in Nat
  /\ Scenario \subseteq
       [built : [Launch -> Version], launches : SUBSET Launch,
        sessions : SUBSET Session, events : Nat, faults : 0..MaxFaults, silent : Nat,
        kills : Nat, crashes : Nat, uninstall : SUBSET Product]

VARIABLES
  stage, kept, target, health,   \* the hook processes
  runtime,   \* runtime[l]: not started, live or over
  owner,     \* owner[s]: the launch whose runtime created s, or NoOwner
  creating,  \* creating[s]: how far the handler of session.created is
  marker,    \* marker[s]: none, partial or whole, or who removed it
  prompt,    \* prompt[s]: the user's message: none, pending or emitted
  idling,    \* idling[s]: how far the handler of session.idle is
  listed,    \* listed[l]: the markers launch l found when it began to end them
  visited,   \* visited[l]: those it has come to
  ending     \* ending[l]: the session it is delivering, or NoSession

INSTANCE HookProcess

processVars == <<stage, kept, target, health>>

bridgeVars == <<runtime, owner, creating, marker, prompt, idling>>
endingVars == <<listed, visited, ending>>
vars == <<pluginVars, processVars, bridgeVars, endingVars>>

Present == {"partial", "whole"}

HookOf(s, kind, by) == [session |-> s, kind |-> kind, by |-> by]

StartHook(s) == HookOf(s, "session-start", "runtime")
PromptHook(s, by) == HookOf(s, "user-prompt-submit", by)
StopHook(s) == HookOf(s, "stop", "runtime")
EndHook(s, l) == HookOf(s, "session-end", l)

VersionOf(s) == built[owner[s]]

\* Markers in the directory of a version.
Markers(v) ==
  {s \in Session : owner[s] # NoOwner /\ marker[s] \in Present /\ VersionOf(s) = v}

Init ==
  /\ scenario \in Scenario
  /\ PluginInit
  /\ HookInit
  /\ runtime = [l \in Launch |-> "none"]
  /\ owner = [s \in Session |-> NoOwner]
  /\ creating = [s \in Session |-> "none"]
  /\ marker = [s \in Session |-> "none"]
  /\ prompt = [s \in Session |-> "none"]
  /\ idling = [s \in Session |-> "none"]
  /\ listed = [l \in Launch |-> {}]
  /\ visited = [l \in Launch |-> {}]
  /\ ending = [l \in Launch |-> NoSession]

TypeOK ==
  /\ scenario \in Scenario
  /\ PluginTypeOK
  /\ HookTypeOK
  /\ runtime \in [Launch -> {"none", "live", "over"}]
  /\ owner \in [Session -> Launch \cup {NoOwner}]
  /\ creating \in [Session -> {"none", "forwarding", "writing", "done"}]
  /\ marker \in [Session -> Present \cup {"none", "consumed", "uninstalled"}]
  /\ prompt \in [Session -> {"none", "pending", "emitted"}]
  /\ idling \in [Session -> {"none", "flushing", "stopping"}]
  /\ listed \in [Launch -> SUBSET Session]
  /\ visited \in [Launch -> SUBSET Session]
  /\ ending \in [Launch -> Session \cup {NoSession}]

Alive(s) == owner[s] # NoOwner /\ runtime[owner[s]] = "live"

Bridged(s) == Alive(s) /\ VersionOf(s).product = "opencode"

-----------------------------------------------------------------------------
(* The runtime and the handlers of the bridge.                             *)

\* The launch waits for the runtime; the version of the runtime was asked for
\* before and is passed in the environment.
StartRuntime(l) ==
  /\ Moves(l, "ready", "running")
  /\ runtime' = [runtime EXCEPT ![l] = "live"]
  /\ UNCHANGED <<scenario, written, staging, version, uninstall, processVars, owner,
                 creating, marker, prompt, idling, endingVars>>

LaunchFails(l) ==
  /\ Moves(l, "ready", "refused")
  /\ UNCHANGED <<scenario, written, staging, version, uninstall, processVars,
                 bridgeVars, endingVars>>

\* By itself or killed: its handlers end wherever they are.
RuntimeExits(l) ==
  /\ runtime[l] = "live"
  /\ runtime' = [runtime EXCEPT ![l] = "over"]
  /\ UNCHANGED <<pluginVars, processVars, owner, creating, marker, prompt, idling,
                 endingVars>>

\* session.created; Claude Code has no markers.  A plugin that is not whole is
\* not loaded.
SessionCreated(l, s) ==
  /\ s \in scenario.sessions
  /\ runtime[l] = "live"
  /\ owner[s] = NoOwner
  /\ Whole(built[l])
  /\ owner' = [owner EXCEPT ![s] = l]
  /\ creating' = [creating EXCEPT ![s] =
                    IF built[l].product = "opencode" THEN "forwarding" ELSE @]
  /\ Spawn(StartHook(s))
  /\ UNCHANGED <<pluginVars, runtime, marker, prompt, idling, endingVars>>

\* Mutant: the marker is written while the hook still runs.
MarkAtOnce(s) ==
  /\ Bridged(s)
  /\ creating[s] = "forwarding"
  /\ creating' = [creating EXCEPT ![s] = "writing"]
  /\ marker' = [marker EXCEPT ![s] = "partial"]
  /\ version' = [version EXCEPT ![VersionOf(s)] = @ \cup {"sessions"}]
  /\ UNCHANGED <<scenario, at, written, staging, uninstall, processVars, runtime,
                 owner, prompt, idling, endingVars>>

\* forward has returned; Bun.write makes the directory, creates the marker ...
MarkerOpened(s) ==
  /\ Bridged(s)
  /\ creating[s] = "forwarding"
  /\ Over(StartHook(s))
  /\ creating' = [creating EXCEPT ![s] = "writing"]
  /\ marker' = [marker EXCEPT ![s] = "partial"]
  /\ version' = [version EXCEPT ![VersionOf(s)] = @ \cup {"sessions"}]
  /\ UNCHANGED <<scenario, at, written, staging, uninstall, processVars, runtime,
                 owner, prompt, idling, endingVars>>

\* ... and fills it.
MarkerFilled(s) ==
  /\ Bridged(s)
  /\ creating[s] = "writing"
  /\ creating' = [creating EXCEPT ![s] = "done"]
  /\ marker' = [marker EXCEPT ![s] = IF @ = "partial" THEN "whole" ELSE @]
  /\ UNCHANGED <<pluginVars, processVars, runtime, owner, prompt, idling, endingVars>>

\* The bound on what the runtimes report.
Room ==
  Cardinality({s \in Session : prompt[s] # "none"})
    + Cardinality({s \in Session : idling[s] # "none"})
    + Cardinality({h \in Hook : /\ h.by = "runtime"
                                /\ h.kind # "session-start"
                                /\ stage[h] # "none"
                                /\ ~(h.kind = "stop" /\ idling[h.session] # "none")})
    < scenario.events

\* message.updated of the user: there is a message to flush.
UserMessage(s) ==
  /\ Bridged(s)
  /\ prompt[s] = "none"
  /\ Room
  /\ prompt' = [prompt EXCEPT ![s] = "pending"]
  /\ UNCHANGED <<pluginVars, processVars, runtime, owner, creating, marker, idling,
                 endingVars>>

\* Mutant: the message is not remembered as emitted.
FlushForgets(s, by) ==
  /\ prompt[s] = "pending"
  /\ prompt' = prompt
  /\ Spawn(PromptHook(s, by))

\* flushPrompt: the message counts as emitted before it is forwarded.
FlushPrompt(s, by) ==
  /\ prompt[s] = "pending"
  /\ prompt' = [prompt EXCEPT ![s] = "emitted"]
  /\ Spawn(PromptHook(s, by))

\* message.updated of the assistant.
AssistantMessage(s) ==
  /\ Bridged(s)
  /\ FlushPrompt(s, "on message")
  /\ UNCHANGED <<pluginVars, runtime, owner, creating, marker, idling, endingVars>>

\* session.idle: flush first ...
SessionIdle(s) ==
  /\ Bridged(s)
  /\ idling[s] = "none"
  /\ Room
  /\ idling' = [idling EXCEPT ![s] = "flushing"]
  /\ \/ FlushPrompt(s, "on idle")
     \/ prompt[s] # "pending" /\ UNCHANGED <<prompt, processVars>>
  /\ UNCHANGED <<pluginVars, runtime, owner, creating, marker, endingVars>>

\* ... and then report the end of the turn.
TurnStops(s) ==
  /\ Bridged(s)
  /\ idling[s] = "flushing"
  /\ stage[PromptHook(s, "on idle")] \in {"none", "zero", "killed"}
  /\ idling' = [idling EXCEPT ![s] = "stopping"]
  /\ Spawn(StopHook(s))
  /\ UNCHANGED <<pluginVars, runtime, owner, creating, marker, prompt, endingVars>>

\* tool.execute.before and after, and every event of Claude Code but the first.
RuntimeEvent(s, kind) ==
  /\ Alive(s)
  /\ VersionOf(s).product = "opencode" => kind \in {"pre-tool-use", "post-tool-use"}
  /\ Room
  /\ Spawn(HookOf(s, kind, "runtime"))
  /\ UNCHANGED <<pluginVars, bridgeVars, endingVars>>

-----------------------------------------------------------------------------
(* The launch, once its runtime is over.                                   *)

\* The Claude launcher has nothing left to do.  The OpenCode launcher reads
\* the directory of markers, if there is one.
RuntimeOver(l) ==
  /\ runtime[l] = "over"
  /\ IF built[l].product = "opencode" /\ "sessions" \in version[built[l]]
     THEN Moves(l, "running", "ending") /\ listed' = [listed EXCEPT ![l] = Markers(built[l])]
     ELSE Moves(l, "running", "done") /\ UNCHANGED listed
  /\ UNCHANGED <<scenario, written, staging, version, uninstall, processVars,
                 bridgeVars, visited, ending>>

\* Mutant: the markers of every version are ended.
AnyMarker(l) ==
  {s \in Session : owner[s] # NoOwner /\ marker[s] \in Present} \ visited[l]

\* Markers the launch may come to: a marker written while it reads the
\* directory may be among them.
NextMarkers(l) == (listed[l] \cup Markers(built[l])) \ visited[l]

\* A marker that is gone, or cannot be parsed, is passed over.
SkipMarker(l, s) ==
  /\ at[l] = "ending"
  /\ s \in NextMarkers(l)
  /\ marker[s] # "whole"
  /\ visited' = [visited EXCEPT ![l] = @ \cup {s}]
  /\ UNCHANGED <<pluginVars, processVars, bridgeVars, listed, ending>>

\* deliver_session_end.
Deliver(l, s) ==
  /\ s \in NextMarkers(l)
  /\ marker[s] = "whole"
  /\ Moves(l, "ending", "delivering")
  /\ visited' = [visited EXCEPT ![l] = @ \cup {s}]
  /\ ending' = [ending EXCEPT ![l] = s]
  /\ Spawn(EndHook(s, l))
  /\ UNCHANGED <<scenario, written, staging, version, uninstall, bridgeVars, listed>>

\* The hook exited zero: the marker is removed.
Consume(l) ==
  LET s == ending[l]
  IN  /\ Moves(l, "delivering", "ending")
      /\ stage[EndHook(s, l)] = "zero"
      /\ marker' = [marker EXCEPT ![s] = IF @ \in Present THEN "consumed" ELSE @]
      /\ ending' = [ending EXCEPT ![l] = NoSession]
      /\ UNCHANGED <<scenario, written, staging, version, uninstall, processVars,
                     runtime, owner, creating, prompt, idling, listed, visited>>

\* The hook was killed; or it exited without reading its input, as one that
\* keeps nothing may, and the launch could not write to it.
Undelivered(h) ==
  \/ stage[h] = "killed"
  \/ stage[h] = "zero" /\ kept[h] = "silent"

\* Mutant: the first marker that cannot be delivered ends the scan.
GiveUp(l) ==
  /\ Moves(l, "delivering", "done")
  /\ Undelivered(EndHook(ending[l], l))
  /\ ending' = [ending EXCEPT ![l] = NoSession]
  /\ UNCHANGED <<scenario, written, staging, version, uninstall, processVars,
                 bridgeVars, listed, visited>>

\* It did not, or the write failed: the marker is left for the next launch.
KeepMarker(l) ==
  /\ Moves(l, "delivering", "ending")
  /\ Undelivered(EndHook(ending[l], l))
  /\ ending' = [ending EXCEPT ![l] = NoSession]
  /\ UNCHANGED <<scenario, written, staging, version, uninstall, processVars,
                 bridgeVars, listed, visited>>

AllVisited(l) ==
  /\ listed[l] \subseteq visited[l]
  /\ Moves(l, "ending", "done")
  /\ UNCHANGED <<scenario, written, staging, version, uninstall, processVars,
                 bridgeVars, endingVars>>

EndSessions(l) ==
  \/ RuntimeOver(l)
  \/ \E s \in Session : SkipMarker(l, s) \/ Deliver(l, s)
  \/ Consume(l)
  \/ KeepMarker(l)
  \/ AllVisited(l)

-----------------------------------------------------------------------------

Others == <<processVars, bridgeVars, endingVars>>

Prepare(l) ==
  /\ l \in scenario.launches
  /\ Materialize(l) \/ MaterializeCommand(l)
  /\ UNCHANGED Others

Killed(l) ==
  /\ Crash(l)
  /\ Cardinality({k \in Launch : at[k] = "crashed"}) < scenario.crashes
  /\ UNCHANGED Others

Runtime ==
  \/ \E l \in Launch : StartRuntime(l) \/ LaunchFails(l) \/ RuntimeExits(l)
  \/ \E l \in Launch, s \in Session : SessionCreated(l, s)
  \/ \E s \in Session :
       \/ MarkerOpened(s) \/ MarkerFilled(s) \/ UserMessage(s)
       \/ AssistantMessage(s) \/ SessionIdle(s) \/ TurnStops(s)
  \/ \E s \in Session, kind \in Events \cup {"session-end"} : RuntimeEvent(s, kind)

\* The directory of markers goes after the markers.
UninstallMarker(s) ==
  /\ uninstall["opencode"] = "removing"
  /\ marker[s] \in Present
  /\ marker' = [marker EXCEPT ![s] = "uninstalled"]
  /\ UNCHANGED <<pluginVars, processVars, runtime, owner, creating, prompt, idling,
                 endingVars>>

Uninstall ==
  \/ \E s \in Session : UninstallMarker(s)
  \/ /\ \/ \E p \in scenario.uninstall : UninstallBegins(p) \/ UninstallEnds(p)
        \/ \E v \in Version : \E f \in version[v] :
             (f = "sessions" => Markers(v) = {}) /\ RemoveEntry(v, f)
        \/ \E l \in Launch :
             (\E f \in staging[l] : RemoveStaged(l, f)) \/ RemoveStaging(l)
     /\ UNCHANGED Others

HookStep(h) ==
  /\ \/ Store(h)
     \/ Fault(h) /\ Faults < scenario.faults
     \/ AppendHealth(h)
     \/ /\ KeepNothing(h)
        /\ Cardinality({k \in Hook : kept[k] = "silent"}) < scenario.silent
     \/ ExitZero(h)
  /\ UNCHANGED <<pluginVars, bridgeVars, endingVars>>

HookKilled(h) ==
  /\ Kill(h)
  /\ Cardinality({k \in Hook : stage[k] = "killed"}) < scenario.kills
  /\ UNCHANGED <<pluginVars, bridgeVars, endingVars>>

Next ==
  \/ \E l \in Launch : Prepare(l) \/ Killed(l) \/ EndSessions(l)
  \/ Runtime
  \/ Uninstall
  \/ \E h \in Hook : HookStep(h) \/ HookKilled(h)

\* A launch that is not killed goes on once its runtime is over, and so does a
\* hook process: neither waits for anything but its children, and each takes
\* finitely many steps, so it is enough that some of them move.  No fairness
\* is asked of a runtime, of the bridge or of an operator.
Fairness ==
  /\ WF_vars(\E l \in Launch : EndSessions(l))
  /\ WF_vars(\E h \in Hook : HookStep(h))

Spec == Init /\ [][Next]_vars /\ Fairness

-----------------------------------------------------------------------------

\* A version nobody uninstalled is absent or whole: launches that materialize
\* it at the same time, and launches that are killed while they do, leave
\* staging directories behind and never a part of a version.
VersionsWhole ==
  \A v \in Version :
    uninstall[v.product] = "none" => version[v] = {} \/ Whole(v)

\* A marker that a launch has removed is accounted for: a hook stored the end
\* of the session, or read_lines returns a line about its fault, or the hook
\* could keep neither.  Hooks that overfill a health file lose no line.
ConsumedAccounted ==
  \A s \in Session :
    marker[s] = "consumed" =>
      \E h \in {EndHook(s, l) : l \in Launch} :
        kept[h] \in {"segment", "silent"} \/ h \in ReadLines

\* The end of a session is not delivered before the hook of its start is over,
\* whichever launch delivers it: the bridge writes the marker afterwards.
NoStartAfterEnd ==
  \A s \in Session, l \in Launch :
    stage[EndHook(s, l)] # "none" => Over(StartHook(s))

\* A session whose runtime lives is ended only by another launch of the same
\* version, which shares the directory of markers, and only after that
\* launch's own runtime is over.
EarlyEndWithinVersion ==
  \A s \in Session, l \in Launch :
    stage[EndHook(s, l)] # "none" /\ runtime[owner[s]] = "live" =>
      /\ l # owner[s]
      /\ built[l] = VersionOf(s)
      /\ runtime[l] = "over"

\* A user message is forwarded at most once, by whichever handler comes first.
PromptOnce ==
  \A s \in Session :
    \/ stage[PromptHook(s, "on message")] = "none"
    \/ stage[PromptHook(s, "on idle")] = "none"

\* A launch that is not killed comes to every marker it found, and those it
\* could read are gone unless the hook that should end them was killed, or
\* exited without reading its input: no marker, and no hook that fails, stands
\* in the way of the others.
FoundMarkersDelivered ==
  \A l \in Launch :
    at[l] = "ending" ~>
      \/ at[l] = "crashed"
      \/ /\ at[l] = "done"
         /\ listed[l] \subseteq visited[l]
         /\ \A s \in listed[l] :
              marker[s] = "whole" =>
                stage[EndHook(s, l)] = "none" \/ Undelivered(EndHook(s, l))
=============================================================================
