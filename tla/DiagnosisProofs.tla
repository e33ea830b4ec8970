-------------------------- MODULE DiagnosisProofs --------------------------
(***************************************************************************)
(* Lemmas about the operators of Diagnosis, for pods with any number of    *)
(* containers.                                                             *)
(***************************************************************************)
EXTENDS Diagnosis, TLAPS

(* Classify names the first pattern that matches.                          *)
LEMMA FirstMatch ==
  ASSUME NEW e, Matching(e) # {}
  PROVE  \E i \in Matching(e) : /\ Classify(e) = FailureTypes[i]
                                /\ \A j \in Matching(e) : i <= j
<1>1. Matching(e) \subseteq 1..7
  BY DEF Matching, FailureTypes
<1>2. \E i \in Matching(e) : \A j \in Matching(e) : i <= j
  BY <1>1
<1>3. /\ Min(Matching(e)) \in Matching(e)
      /\ \A j \in Matching(e) : Min(Matching(e)) <= j
  BY <1>2 DEF Min
<1> QED
  BY <1>3 DEF Classify

(* What is diagnosed is a failure type unless nothing matches.             *)
LEMMA NamedIfMatching ==
  ASSUME NEW e, Matching(e) # {}
  PROVE  Classify(e) # "unknown"
<1>1. PICK i \in Matching(e) : Classify(e) = FailureTypes[i]
  BY FirstMatch
<1>2. i \in 1..7
  BY DEF Matching, FailureTypes
<1> QED
  BY <1>1, <1>2 DEF FailureTypes

(* Whatever the classifier answers is a failure type or "unknown".         *)
LEMMA ClassifyType ==
  ASSUME NEW e
  PROVE  Classify(e) \in {FailureTypes[i] : i \in DOMAIN FailureTypes}
                           \cup {"unknown"}
<1>1. CASE Matching(e) = {}
  BY <1>1 DEF Classify
<1>2. CASE Matching(e) # {}
  <2>1. PICK i \in Matching(e) : Classify(e) = FailureTypes[i]
    BY <1>2, FirstMatch
  <2>2. i \in DOMAIN FailureTypes
    BY DEF Matching
  <2> QED
    BY <2>1, <2>2
<1> QED
  BY <1>1, <1>2

(* What detectAnomaly answers, when it answers, is a trigger.              *)
LEMMA AnomalyType ==
  ASSUME NEW p, detectAnomaly(p) # ""
  PROVE  detectAnomaly(p) \in PodTriggers
<1>1. \A cs : Anomaly(cs) \in PodTriggers \cup {""}
  BY DEF Anomaly, PodTriggers
<1> QED
  BY <1>1 DEF detectAnomaly

(* The fields of a snapshot.                                               *)
LEMMA SnapshotFields ==
  ASSUME NEW p
  PROVE  /\ buildPodInfo(p).phase = p.phase
         /\ buildPodInfo(p).containers = ContainerInfos(p.containers)
BY DEF buildPodInfo
============================================================================
