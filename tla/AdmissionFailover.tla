-------------------------- MODULE AdmissionFailover --------------------------
(***************************************************************************)
(* Admission with a second replica.  The manager runs with --leader-elect; *)
(* cmd/main.go lists the Investigations and initialises the counter before *)
(* mgr.Start, which waits for the lease.  A standby (the new pod of a      *)
(* rolling update) therefore takes over with a count as old as its start.  *)
(***************************************************************************)
EXTENDS Admission

VARIABLES
  standby,        \* None, or the count the standby's counter was given
  missed          \* history: CRs the leader's count did not include when it
                  \* took over

None == -1
failoverVars == <<vars, standby, missed>>

FailoverInit == Init /\ standby = None /\ missed = 0

StartStandby ==
  /\ standby = None
  /\ standby' = Cardinality(crs)
  /\ UNCHANGED <<vars, missed>>

Unseen == IF Cardinality(crs) > standby THEN Cardinality(crs) - standby ELSE 0

(* The leader dies or loses its lease, and the standby starts its          *)
(* controllers with the count it has.                                      *)
Takeover ==
  /\ standby # None
  /\ RestartWith(standby)
  /\ standby' = None
  /\ missed' = Unseen

Failover == \/ Next /\ UNCHANGED <<standby, missed>>
            \/ StartStandby
            \/ Takeover

FailoverSpec == FailoverInit /\ [][Failover]_failoverVars
------------------------------------------------------------------------------
(* The counter is wrong by no more than the CRs that appeared while the    *)
(* standby was waiting: a creation exceeds the cap by at most that many,   *)
(* beside the creations whose reply was lost.                              *)
OvershootByMissed ==
  [][Cardinality(crs') > Cardinality(crs)
       => Cardinality(crs') <= max + lost' + missed']_failoverVars
==============================================================================
