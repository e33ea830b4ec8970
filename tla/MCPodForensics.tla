--------------------------- MODULE MCPodForensics ---------------------------
(* A runner with one container: its image may fail to pull at first, it    *)
(* runs, and it crashes.                                                   *)
EXTENDS PodForensics

Cs(state, reason, code) ==
  [state |-> state, reason |-> reason, exitCode |-> code]
Status(phase, cs) == [phase |-> phase, containers |-> <<cs>>]

Pulling == Status("Pending", Cs("waiting", "ErrImagePull", 0))
Up      == Status("Running", Cs("running", "", 0))
Crashed == Status("Failed", Cs("terminated", "Error", 1))

(* Two anomalies in turn; that it was up in between goes unnoticed.        *)
MCTwice == {Pulling, Crashed}
MCTwiceKubelet == {<<Pulling, Crashed>>}

MCShort == {Up, Crashed}
MCShortKubelet == {<<Up, Crashed>>}
=============================================================================
