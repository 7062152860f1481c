---------------------------- MODULE MCCatalogue -----------------------------
(***************************************************************************)
(* Scenarios of three kinds, of which a behaviour keeps one: processes of  *)
(* builds with one to three migrations that open, migrate and check a new  *)
(* or an old database; exports to one destination while records are added  *)
(* and pruned; and the records a capability rests on.                      *)
(***************************************************************************)
EXTENDS Catalogue, TLC

CONSTANTS a, b, c, deploy

MCProcess == {a, b, c}

MCRecord == 1..17

\* Two sessions, of which the first is annotated twice.  Records 9 and 17 have
\* the same manifest, 12 and 16 the same name and version.
MCBody ==
  <<[kind |-> "repository", identity |-> 1],
    [kind |-> "session", repository |-> 1],
    [kind |-> "trajectory", session |-> 2, repository |-> 1],
    [kind |-> "event", session |-> 2, sequence |-> 0],
    [kind |-> "outcome_annotation", trajectory |-> 3, revision |-> 1],
    [kind |-> "outcome_annotation", trajectory |-> 3, revision |-> 2],
    [kind |-> "session", repository |-> 1],
    [kind |-> "trajectory", session |-> 7, repository |-> 1],
    [kind |-> "group", repository |-> 1, manifest |-> 1, members |-> {3, 8}],
    [kind |-> "candidate", group |-> 9],
    [kind |-> "workflow", candidate |-> 10, ir |-> 1],
    [kind |-> "capability", workflow |-> 11, name |-> deploy, version |-> 1],
    [kind |-> "replay", workflow |-> 11, fixture |-> 8],
    [kind |-> "trace_metrics", trajectory |-> 3, session |-> 2],
    [kind |-> "invocation", capability |-> NoRecord],
    [kind |-> "capability", workflow |-> 11, name |-> deploy, version |-> 1],
    [kind |-> "group", repository |-> 1, manifest |-> 1, members |-> {3}]>>

Of(commands, builds, newest, stored) ==
  [command |-> a :> commands[1] @@ b :> commands[2] @@ c :> commands[3],
   supported |-> a :> builds[1] @@ b :> builds[2] @@ c :> builds[3],
   umask |-> "open", stamp |-> newest, rows |-> stored, destination |-> NoDirectory,
   putting |-> {}, pruning |-> FALSE, kills |-> 1]

Migrating ==
  {Of(<<"migrate", "migrate", "check">>, <<3, 2, 3>>, 0, {}),
   Of(<<"migrate", "migrate", "migrate">>, <<3, 3, 3>>, 0, {}),
   [Of(<<"migrate", "check", "client">>, <<3, 1, 2>>, 1, {1})
      EXCEPT !.putting = {2, 3, 5, 14}],
   [Of(<<"migrate", "export-full", "client">>, <<3, 3, 3>>, 0, {})
      EXCEPT !.putting = {1}, !.umask = "private"]}

Exports ==
  {[Of(<<"export-full", "export-metadata", "client">>, <<3, 3, 3>>, 3, {1, 2, 3})
      EXCEPT !.putting = {5, 6}, !.destination = d] : d \in {NoDirectory, EmptyDirectory}}
  \cup
  {[Of(<<"export-full", "export-full", "client">>, <<3, 3, 3>>, 3, {1, 2, 3, 4})
      EXCEPT !.putting = {5, 7}, !.pruning = TRUE, !.kills = 0],
   [Of(<<"export-full", "export-full", "export-full">>, <<3, 3, 3>>, 3, {1, 2})
      EXCEPT !.destination = EmptyDirectory]}

Capabilities ==
  {[Of(<<"client", "check", "export-metadata">>, <<3, 3, 3>>, 3, {1, 2, 3, 7, 8})
      EXCEPT !.putting = 9..17, !.pruning = TRUE, !.kills = 0]}

MCScenario == Migrating \cup Exports \cup Capabilities
=============================================================================
