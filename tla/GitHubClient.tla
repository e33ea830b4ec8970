---------------------------- MODULE GitHubClient ----------------------------
(***************************************************************************)
(* The GitHub client and its RateLimitTracker, and the quota at GitHub     *)
(* that the tracker follows.  One client serves GitHubPoller and           *)
(* Correlator.  Only remaining matters: resetAt is recorded by Update, but *)
(* nothing reads it.                                                       *)
(***************************************************************************)
EXTENDS Integers

CONSTANTS
  Quota,          \* requests GitHub allows in one window
  threshold       \* NewRateLimitTracker(threshold)

ASSUME QuotaAssumption == Quota \in Nat /\ threshold \in Nat

VARIABLES
  left,           \* requests left in this window, at GitHub
  remaining       \* what the tracker believes

Unknown == -1

ClientInit == left \in 0..Quota /\ remaining = Unknown

(* A response whose X-RateLimit-Remaining is missing or no number changes  *)
(* nothing.                                                                *)
Update(n) == remaining' \in {n, remaining}

ShouldBackoff == remaining # Unknown /\ remaining <= threshold

(* GitHub counts a request, unless nothing is left.                        *)
Spent == IF left > 0 THEN left - 1 ELSE 0

(* A 200 whose body decodes.                                               *)
doGetOK == left > 0 /\ left' = Spent /\ Update(left')

(* Another status (403 or 429 when nothing is left), or a body that does   *)
(* not decode: the headers are read all the same.                          *)
doGetRejected == left' = Spent /\ Update(left')

(* No response: the request may have been counted, the tracker learns      *)
(* nothing.                                                                *)
doGetLost == left' \in {left, Spent} /\ UNCHANGED remaining

doGetFails == doGetRejected \/ doGetLost

(* The next window begins.                                                 *)
WindowResets == left < Quota /\ left' = Quota /\ UNCHANGED remaining
=============================================================================
