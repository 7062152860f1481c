------------------------------ MODULE Archive ------------------------------
(***************************************************************************)
(* What the recorder promises: each session is archived at most once, in   *)
(* one step, with everything that was taped of it and nothing else; a      *)
(* complete session is eventually archived; what is archived never         *)
(* changes.  A session key used again after that is taped and forgotten.   *)
(***************************************************************************)
EXTENDS Segments

CONSTANTS Session, Nothing

VARIABLES taped, archived

vars == <<taped, archived>>

Init ==
  /\ taped = [s \in Session |-> {}]
  /\ archived = [s \in Session |-> Nothing]

Tape(s, f) ==
  /\ taped' = [taped EXCEPT ![s] = @ \cup {f}]
  /\ UNCHANGED archived

Archivable(s) ==
  LET accepted == Accepted(taped[s])
  IN  /\ Complete(accepted)
      /\ ~TooLarge(accepted)
      /\ WorkingDirectory(accepted) # Outside

Store(s) ==
  /\ archived[s] = Nothing
  /\ Archivable(s)
  /\ archived' = [archived EXCEPT ![s] = Accepted(taped[s])]
  /\ UNCHANGED taped

\* The clock has no bound in this module: a step tapes some segment.
TapeSome(s) ==
  \E f \in UNION {taped'[t] : t \in Session} : Tape(s, f)

Next == \E s \in Session : TapeSome(s) \/ Store(s)

Spec == Init /\ [][Next]_vars /\ \A s \in Session : WF_vars(Store(s))
=============================================================================
