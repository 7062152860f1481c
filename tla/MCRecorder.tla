----------------------------- MODULE MCRecorder -----------------------------
(***************************************************************************)
(* Small instances of Recorder for TLC.  The digests put End before every  *)
(* other payload and Away after, so that equal milliseconds reorder a      *)
(* session; Away is a prompt fired from a checkout of the second           *)
(* repository, Lost one fired outside any, Bare one without a cwd.         *)
(***************************************************************************)
EXTENDS RecorderProperties, TLC

CONSTANTS End, Start, Stop, Bare, Lost, Away, Repo1, Repo2, S1, S2

MCDigest ==
  End :> 0 @@ Start :> 1 @@ Stop :> 2 @@ Bare :> 3 @@ Lost :> 4 @@ Away :> 5

MCCwd ==
  End :> Repo1 @@ Start :> Repo1 @@ Stop :> Repo1
    @@ Bare :> Unset @@ Lost :> Outside @@ Away :> Repo2

MCLength == [p \in Payload |-> 1]

\* One session that starts and ends.
ShortScript == S1 :> <<Start, End>>

\* A session of one turn, with the closing event repeated.
TurnScript == S1 :> <<Bare, Stop, Stop, End>>

\* A session key that is used again after its end.
ReusedScript == S1 :> <<Start, End, End>>

\* A session whose directory is left behind by a change of repository.
MovedScript == S1 :> <<Start, Away, End>>
=============================================================================
