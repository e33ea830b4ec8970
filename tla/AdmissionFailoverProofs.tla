----------------------- MODULE AdmissionFailoverProofs -----------------------
(***************************************************************************)
(* The cap under failover, for every finite set of names, every cap and    *)
(* any number of takeovers.  A takeover is a restart with an old count:    *)
(* the CRs that it misses join the ones whose reply was lost.              *)
(***************************************************************************)
EXTENDS AdmissionFailover, AdmissionProofs

FailoverTypeOK ==
  /\ TypeOK
  /\ standby \in Nat \cup {None}
  /\ missed \in Nat

FailoverInv == FailoverTypeOK /\ AccountedBut(missed)

(* A leader that takes over is covered except for what it misses.          *)
LEMMA TakeoverAccounts ==
  ASSUME FailoverTypeOK, Takeover
  PROVE  FailoverInv'
<1>1. /\ standby \in Nat /\ IsFiniteSet(crs) /\ Cardinality(crs) \in Nat
  BY Finite DEF FailoverTypeOK, Takeover
<1>2. /\ count' = standby /\ crs' = crs /\ expired' = expired /\ lost' = 0
      /\ pruned' = FALSE /\ todo' = {} /\ stage' = [m \in Names |-> "idle"]
      /\ cache' = Synced /\ standby' = None /\ missed' = Unseen
  BY DEF Takeover, RestartWith, InitCount
<1>3. Unseen \in Nat /\ Cardinality(crs) <= standby + Unseen
  BY <1>1 DEF Unseen
<1>4. TypeOK'
  <2>1. cache' \in [Names -> {"none", "live", "gone"}]
    BY <1>2 DEF Synced
  <2>2. stage' \in [Names -> Stages]
    BY <1>2 DEF Stages
  <2>3. lost' \in 0..MaxLost
    BY <1>2, AdmissionAssumption
  <2> QED
    BY <1>1, <1>2, <2>1, <2>2, <2>3 DEF FailoverTypeOK, TypeOK
<1>5. FailoverTypeOK'
  BY <1>2, <1>3, <1>4 DEF FailoverTypeOK
<1>6. Held' = {} /\ ~(\E n \in Names : stage'[n] = "reserved")
  BY <1>2 DEF Held
<1>7. Cardinality(Held') = 0 /\ Pending' = 0
  BY <1>2, <1>6, FS_EmptySet DEF Pending
<1>8. AccountedBut(missed)'
  BY <1>1, <1>2, <1>3, <1>6, <1>7 DEF AccountedBut
<1> QED
  BY <1>5, <1>8 DEF FailoverInv

(* The leader's steps keep the account as it is.                           *)
LEMMA LeaderAccounts ==
  ASSUME FailoverInv, [Next]_vars, UNCHANGED missed, standby' \in Nat \cup {None}
  PROVE  FailoverInv'
<1>1. PICK k \in Nat : k = missed
  BY DEF FailoverInv, FailoverTypeOK
<1>2. TypeOK /\ AccountedBut(k)
  BY <1>1 DEF FailoverInv, FailoverTypeOK
<1>3. TypeOK' /\ AccountedBut(k)'
  BY <1>2, TypeStep, AccountStep
<1> QED
  BY <1>1, <1>3 DEF FailoverInv, FailoverTypeOK, AccountedBut

(* The leader, the standby and the change of leader keep the account.      *)
LEMMA FailoverInductive ==
  FailoverInv /\ [Failover]_failoverVars => FailoverInv'
<1> SUFFICES ASSUME FailoverInv, [Failover]_failoverVars PROVE FailoverInv'
  OBVIOUS
<1>0. FailoverTypeOK /\ standby \in Nat \cup {None}
  BY DEF FailoverInv, FailoverTypeOK
<1>1. CASE Next /\ UNCHANGED <<standby, missed>>
  BY <1>0, <1>1, LeaderAccounts
<1>2. CASE StartStandby
  <2>1. standby' \in Nat
    BY <1>0, <1>2, Finite DEF StartStandby, FailoverTypeOK
  <2> QED
    BY <1>2, <2>1, LeaderAccounts DEF StartStandby
<1>3. CASE Takeover
  BY <1>0, <1>3, TakeoverAccounts
<1>4. CASE UNCHANGED failoverVars
  BY <1>0, <1>4, LeaderAccounts DEF failoverVars
<1> QED
  BY <1>1, <1>2, <1>3, <1>4 DEF Failover

(* The account holds in every state, with what the standby missed on the   *)
(* side of the counter.                                                    *)
LEMMA FailoverCovers == FailoverSpec => []FailoverInv
<1>1. FailoverInit => FailoverInv
  <2> SUFFICES ASSUME FailoverInit PROVE FailoverInv
    OBVIOUS
  <2>1. Init /\ missed = 0 /\ standby = None
    BY DEF FailoverInit
  <2>2. TypeOK
    BY <2>1, TypeInit
  <2>3. Accounted
    BY <2>1, AccountedInit
  <2>4. AccountedBut(0)
    BY <2>2, <2>3, AccountedButNone
  <2> QED
    BY <2>1, <2>2, <2>4 DEF FailoverInv, FailoverTypeOK
<1> QED
  BY <1>1, FailoverInductive, PTL DEF FailoverSpec

(* A standby that takes over with the count of its start lets the cluster  *)
(* exceed maxInvestigations by no more than the CRs it has missed, for     *)
(* every cap and any number of failovers (cmd/main.go).                    *)
THEOREM FailoverBounded == FailoverSpec => OvershootByMissed
<1>1. FailoverInv /\ [Failover]_failoverVars
        => [Cardinality(crs') > Cardinality(crs)
              => Cardinality(crs') <= max + lost' + missed']_failoverVars
  <2> SUFFICES ASSUME FailoverInv, [Failover]_failoverVars,
                      Cardinality(crs') > Cardinality(crs)
               PROVE  Cardinality(crs') <= max + lost' + missed'
    OBVIOUS
  <2>0. TypeOK /\ missed \in Nat /\ Cardinality(crs) \in Nat
    BY Finite DEF FailoverInv, FailoverTypeOK
  <2>1. CASE Next /\ UNCHANGED <<standby, missed>>
    <3>1. PICK k \in Nat : k = missed
      BY <2>0
    <3>2. AccountedBut(k)
      BY <3>1 DEF FailoverInv
    <3>3. Cardinality(crs') <= max + lost' + k
      BY <2>0, <2>1, <3>2, CapStep
    <3> QED
      BY <2>1, <3>1, <3>3
  <2>2. CASE StartStandby \/ Takeover \/ UNCHANGED failoverVars
    <3>1. crs' = crs
      BY <2>2 DEF StartStandby, Takeover, RestartWith, failoverVars, vars
    <3> QED
      BY <2>0, <3>1
  <2> QED
    BY <2>1, <2>2 DEF Failover
<1> QED
  BY <1>1, FailoverCovers, PTL DEF FailoverSpec, OvershootByMissed
==============================================================================
