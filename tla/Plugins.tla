------------------------------ MODULE Plugins ------------------------------
(***************************************************************************)
(* "materialize" and "uninstall" of the two runtimes: how the rendered     *)
(* plugin gets into the private data directory and leaves it.              *)
(*                                                                         *)
(* A launch looks for a file of its version, and if it is missing fills a  *)
(* staging directory of its own, file by file, and renames it.  uninstall  *)
(* removes the product's whole directory, one entry after another, and     *)
(* can stop anywhere.  Nothing locks the directory.                        *)
(*                                                                         *)
(* A version is named by the digest of what the build renders, so builds   *)
(* stand for versions.  The staging directory is named by the process.     *)
(***************************************************************************)
EXTENDS Integers, Sequences, FiniteSets, SequencesExt

CONSTANTS
  Launch,  \* runs of "opencode run", "claude run" and "materialize"
  Build    \* builds of agent-jit, told apart by what they render

Product == {"claude", "opencode"}

VARIABLES
  scenario,   \* what each launch's binary renders, and bounds; never changes
  at,         \* at[l]: how far launch l is
  written,    \* written[l]: files launch l has written so far
  staging,    \* staging[l]: files in the staging directory, or Absent
  version,    \* version[v]: entries of the directory of v, {} if there is none
  uninstall   \* uninstall[p]: not run yet, removing, or over; it runs at most once

pluginVars == <<scenario, at, written, staging, version, uninstall>>

Version == [product : Product, build : Build]

\* built[l]: the version of launch l.
built == scenario.built

\* TEMPLATES, in the order they are written.
Templates(product) ==
  IF product = "opencode"
  THEN <<"bridge.ts", "opencode.json">>
  ELSE <<"plugin.json", "hooks.json", ".mcp.json">>

Files(v) == Range(Templates(v.product))

\* The file whose presence says that the version is there.
Sentinel(v) == IF v.product = "opencode" THEN "bridge.ts" ELSE ".mcp.json"

Absent == {"no directory"}

Stages == {"idle", "looking", "staging", "ready", "running", "ending",
           "delivering", "done", "refused", "crashed"}

PluginInit ==
  /\ at = [l \in Launch |-> "idle"]
  /\ written = [l \in Launch |-> 0]
  /\ staging = [l \in Launch |-> Absent]
  /\ version = [v \in Version |-> {}]
  /\ uninstall = [p \in Product |-> "none"]

PluginTypeOK ==
  /\ at \in [Launch -> Stages]
  /\ \A l \in Launch :
       /\ written[l] \in 0..Len(Templates(built[l].product))
       /\ staging[l] = Absent \/ staging[l] \subseteq Files(built[l])
  /\ \A v \in Version : version[v] \subseteq Files(v) \cup {"sessions"}
  /\ uninstall \in [Product -> {"none", "removing", "over"}]

Whole(v) == Files(v) \subseteq version[v]

Moves(l, from, to) == at[l] = from /\ at' = [at EXCEPT ![l] = to]

-----------------------------------------------------------------------------
(* materialize.                                                            *)

\* The repository is discovered and the private directories are made first.
Begin(l) ==
  /\ \/ Moves(l, "idle", "looking")
     \/ Moves(l, "idle", "refused")
  /\ UNCHANGED <<scenario, written, staging, version, uninstall>>

\* The version is there.
Found(l) ==
  /\ Sentinel(built[l]) \in version[built[l]]
  /\ Moves(l, "looking", "ready")
  /\ UNCHANGED <<scenario, written, staging, version, uninstall>>

\* It is not: an old staging directory of the same name is emptied.
CreateStaging(l) ==
  /\ Sentinel(built[l]) \notin version[built[l]]
  /\ Moves(l, "looking", "staging")
  /\ staging' = [staging EXCEPT ![l] = {}]
  /\ written' = [written EXCEPT ![l] = 0]
  /\ UNCHANGED <<scenario, version, uninstall>>

Unwritten(l) == written[l] < Len(Templates(built[l].product))

\* Mutant: the other runtime's templates.
OtherTemplate(l) ==
  IF built[l].product = "opencode"
  THEN Templates("claude")[written[l] + 1]
  ELSE Append(Templates("opencode"), "hooks.json")[written[l] + 1]

NextFile(l) == Templates(built[l].product)[written[l] + 1]

\* Mutant: the files are written into the version's directory.
WriteInPlace(l) ==
  /\ at[l] = "staging"
  /\ Unwritten(l)
  /\ version' = [version EXCEPT ![built[l]] = @ \cup {NextFile(l)}]
  /\ staging' = staging
  /\ written' = [written EXCEPT ![l] = @ + 1]
  /\ at' = IF written'[l] = Len(Templates(built[l].product))
           THEN [at EXCEPT ![l] = "ready"] ELSE at
  /\ UNCHANGED <<scenario, uninstall>>

\* The Claude launcher makes the parent directory of each file first, the
\* staging directory included; the OpenCode launcher does not.
WriteFile(l) ==
  /\ at[l] = "staging"
  /\ Unwritten(l)
  /\ staging[l] # Absent \/ built[l].product = "claude"
  /\ staging' = [staging EXCEPT ![l] = (@ \ Absent) \cup {NextFile(l)}]
  /\ written' = [written EXCEPT ![l] = @ + 1]
  /\ UNCHANGED <<scenario, at, version, uninstall>>

\* The directory is gone or the disk is full: the staging directory stays.
WriteFails(l) ==
  /\ Unwritten(l)
  /\ Moves(l, "staging", "refused")
  /\ UNCHANGED <<scenario, written, staging, version, uninstall>>

\* rename replaces a directory only if it is empty.
Publish(l) ==
  /\ ~Unwritten(l)
  /\ staging[l] # Absent
  /\ version[built[l]] = {}
  /\ Moves(l, "staging", "ready")
  /\ version' = [version EXCEPT ![built[l]] = staging[l]]
  /\ staging' = [staging EXCEPT ![l] = Absent]
  /\ UNCHANGED <<scenario, written, uninstall>>

\* Somebody else's version is in the way, or the staging directory is gone.
RenameFails(l) ==
  /\ ~Unwritten(l)
  /\ staging[l] = Absent \/ version[built[l]] # {}
  /\ Moves(l, "staging", "refused")
  /\ staging' = [staging EXCEPT ![l] = Absent]
  /\ UNCHANGED <<scenario, written, version, uninstall>>

Materialize(l) ==
  \/ Begin(l) \/ Found(l) \/ CreateStaging(l) \/ WriteFile(l) \/ WriteFails(l)
  \/ Publish(l) \/ RenameFails(l)

\* The "materialize" command ends here.
MaterializeCommand(l) ==
  /\ Moves(l, "ready", "done")
  /\ UNCHANGED <<scenario, written, staging, version, uninstall>>

Crash(l) ==
  /\ at[l] \notin {"idle", "done", "refused", "crashed"}
  /\ at' = [at EXCEPT ![l] = "crashed"]
  /\ UNCHANGED <<scenario, written, staging, version, uninstall>>

-----------------------------------------------------------------------------
(* uninstall: remove_dir_all of the product's directory.                   *)

UninstallBegins(p) ==
  /\ uninstall[p] = "none"
  /\ \/ \E v \in Version : v.product = p /\ version[v] # {}
     \/ \E l \in Launch : built[l].product = p /\ staging[l] # Absent
  /\ uninstall' = [uninstall EXCEPT ![p] = "removing"]
  /\ UNCHANGED <<scenario, at, written, staging, version>>

\* One entry of one version; the last one takes the directory with it.
RemoveEntry(v, f) ==
  /\ uninstall[v.product] = "removing"
  /\ f \in version[v]
  /\ version' = [version EXCEPT ![v] = @ \ {f}]
  /\ UNCHANGED <<scenario, at, written, staging, uninstall>>

RemoveStaged(l, f) ==
  /\ uninstall[built[l].product] = "removing"
  /\ staging[l] # Absent
  /\ f \in staging[l]
  /\ staging' = [staging EXCEPT ![l] = @ \ {f}]
  /\ UNCHANGED <<scenario, at, written, version, uninstall>>

RemoveStaging(l) ==
  /\ uninstall[built[l].product] = "removing"
  /\ staging[l] = {}
  /\ staging' = [staging EXCEPT ![l] = Absent]
  /\ UNCHANGED <<scenario, at, written, version, uninstall>>

\* Done, refused because an entry has appeared, or killed.
UninstallEnds(p) ==
  /\ uninstall[p] = "removing"
  /\ uninstall' = [uninstall EXCEPT ![p] = "over"]
  /\ UNCHANGED <<scenario, at, written, staging, version>>
=============================================================================
