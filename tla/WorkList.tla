------------------------------- MODULE WorkList -------------------------------
(***************************************************************************)
(* What translate_document promises, whoever does the work: a unit is      *)
(* translated once or given up once, never both and never undone, and the  *)
(* job is over only when no unit is left or when it was stopped or lost    *)
(* all its agents.                                                         *)
(***************************************************************************)
CONSTANT Unit

VARIABLES done, failed, over

vars == <<done, failed, over>>

Init == done = {} /\ failed = {} /\ over = FALSE

Open == Unit \ (done \cup failed)

Translate(u) ==
  /\ ~over /\ u \in Open
  /\ done' = done \cup {u}
  /\ UNCHANGED <<failed, over>>

GiveUp(u) ==
  /\ ~over /\ u \in Open
  /\ failed' = failed \cup {u}
  /\ UNCHANGED <<done, over>>

\* `cut`: the job was stopped, or every agent left it.
End(cut) ==
  /\ ~over
  /\ Open = {} \/ cut
  /\ over' = TRUE
  /\ UNCHANGED <<done, failed>>
=============================================================================
