---------------------------- MODULE MCLogStorage ----------------------------
(* A pod with small logs and one with large ones, one container each; one  *)
(* of the first files cannot be deleted.  With a limit of 1, up to three   *)
(* files have to go.                                                       *)
EXTENDS LogStorage

MCPods == {"small", "large"}
MCContainers == {"runner"}
MCSize == [n \in MCPods |-> IF n = "small" THEN 1 ELSE 2]
MCUndeletable == {<<"small", "runner", 0>>}
=============================================================================
