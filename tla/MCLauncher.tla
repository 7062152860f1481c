----------------------------- MODULE MCLauncher -----------------------------
(***************************************************************************)
(* A small instance of Launcher for TLC: two launches and two sessions in  *)
(* several scenarios, each large enough for one kind of trouble.  A health *)
(* file holds one line.                                                    *)
(***************************************************************************)
EXTENDS Launcher, TLC

CONSTANTS L1, L2, S1, S2, B1, B2

Opencode(b) == [product |-> "opencode", build |-> b]
Claude(b) == [product |-> "claude", build |-> b]

SameBuild == L1 :> Opencode(B1) @@ L2 :> Opencode(B1)
TwoBuilds == L1 :> Opencode(B1) @@ L2 :> Opencode(B2)
ClaudeOnly == L1 :> Claude(B1) @@ L2 :> Claude(B1)
Both == L1 :> Opencode(B1) @@ L2 :> Claude(B1)

Quiet ==
  [built |-> SameBuild, launches |-> {L1, L2}, sessions |-> {}, events |-> 0,
   faults |-> 0, silent |-> 0, kills |-> 0, crashes |-> 0, uninstall |-> {}]

MCScenario ==
  { \* Materialized, killed and uninstalled at the same time.
    [Quiet EXCEPT !.crashes = 1, !.uninstall = {"opencode"}],
    [Quiet EXCEPT !.built = ClaudeOnly, !.crashes = 1, !.uninstall = {"claude"}],
    \* Two launches share the markers, or do not.
    [Quiet EXCEPT !.sessions = {S1}, !.kills = 1, !.crashes = 1],
    [Quiet EXCEPT !.sessions = {S1, S2}],
    [Quiet EXCEPT !.sessions = {S1, S2}, !.built = TwoBuilds],
    \* One launch has two sessions, and hooks fail in every way.
    [Quiet EXCEPT !.launches = {L1}, !.sessions = {S1, S2}, !.faults = 2,
                  !.silent = 1, !.kills = 1],
    \* Prompts, idle events and tool calls of one session.
    [Quiet EXCEPT !.launches = {L1}, !.sessions = {S1}, !.events = 3, !.kills = 1],
    [Quiet EXCEPT !.built = Both, !.launches = {L2}, !.sessions = {S1}, !.events = 2],
    \* The plugin is uninstalled under a running session.
    [Quiet EXCEPT !.launches = {L1}, !.sessions = {S1}, !.uninstall = {"opencode"}] }
=============================================================================
