------------------------- MODULE InvestigationReport -------------------------
(***************************************************************************)
(* What a reader of one Investigation CR may rely on, whoever writes it:   *)
(* it is opened, handed over for correlation, diagnosed once, closed only  *)
(* with a diagnosis, and a log that was listed stays listed.               *)
(***************************************************************************)
EXTENDS Sequences

CONSTANTS Logs, Diagnoses

VARIABLES
  phase,          \* "absent" while there is no CR, else status.phase
  diagnosis,      \* spec.diagnosis, "" when nil
  logPaths        \* spec.logPaths

vars == <<phase, diagnosis, logPaths>>

Init == phase = "absent" /\ diagnosis = "" /\ logPaths = <<>>

Open == /\ phase = "absent" /\ phase' = ""
        /\ diagnosis' = ""
        /\ logPaths' \in {<<>>} \cup {<<l>> : l \in Logs}

HandOver == /\ phase = "" /\ phase' = "Collecting"
            /\ UNCHANGED <<diagnosis, logPaths>>

Diagnose == /\ phase = "Collecting"
            /\ diagnosis = "" /\ diagnosis' \in Diagnoses
            /\ UNCHANGED <<phase, logPaths>>

ListLog == /\ phase # "absent"
           /\ \E l \in Logs : logPaths' = Append(logPaths, l)
           /\ UNCHANGED <<phase, diagnosis>>

Close == /\ phase = "Collecting" /\ diagnosis # "" /\ phase' = "Complete"
         /\ UNCHANGED <<diagnosis, logPaths>>

Delete == /\ phase # "absent" /\ phase' = "absent"
          /\ diagnosis' = "" /\ logPaths' = <<>>

Next == Open \/ HandOver \/ Diagnose \/ ListLog \/ Close \/ Delete

Spec == Init /\ [][Next]_vars
==============================================================================
