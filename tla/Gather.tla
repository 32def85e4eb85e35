------------------------------- MODULE Gather -------------------------------
(***************************************************************************)
(* What a caller of BatchRetrieveSubmission, or of RetrieveReviewSearch    *)
(* when it fetches pages, may rely on: jobs are answered one by one, and   *)
(* the call returns either all the answers or, if a job failed, an error.  *)
(***************************************************************************)
CONSTANT Jobs

VARIABLES
  outcome,   \* what became of each job: "none", "answer" or "error"
  result     \* "none" until the call returns "answer" or "error"

vars == <<outcome, result>>

Init ==
  /\ outcome = [j \in Jobs |-> "none"]
  /\ result = "none"

(* Jobs may be answered after the call has returned with an error.         *)
Reply(j, reply) ==
  /\ outcome[j] = "none"
  /\ outcome' = [outcome EXCEPT ![j] = reply]
  /\ UNCHANGED result

ReturnAll ==
  /\ result = "none"
  /\ \A j \in Jobs : outcome[j] = "answer"
  /\ result' = "answer"
  /\ UNCHANGED outcome

ReturnError ==
  /\ result = "none"
  /\ \E j \in Jobs : outcome[j] = "error"
  /\ result' = "error"
  /\ UNCHANGED outcome

Next ==
  \/ \E j \in Jobs, reply \in {"answer", "error"} : Reply(j, reply)
  \/ ReturnAll
  \/ ReturnError

Spec == Init /\ [][Next]_vars

=============================================================================
