----------------------------- MODULE WorkerPool -----------------------------
(***************************************************************************)
(* The pool of goroutines that BatchRetrieveSubmission (inkbunny.go)       *)
(* uses for batches of 100 submissions, and RetrieveReviewSearch           *)
(* (service/search.go) for the pages after the first.  The two are the     *)
(* same code: the caller puts the jobs into a buffered channel and closes  *)
(* it, workers take jobs and put what they get into the channel responses  *)
(* or errors, and the caller receives one message per job, or returns at   *)
(* the first error.                                                        *)
(*                                                                         *)
(* A job is its number in the order they are sent.  A channel that nobody  *)
(* reads in order is the set of the jobs whose message it holds.           *)
(***************************************************************************)
EXTENDS Integers, FiniteSets

CONSTANTS
  JobCount,   \* batches of missed, or pages from 2 to PagesCount
  Workers,    \* the goroutines started: 3, or fewer batches than that
  NoJob

Jobs == 1 .. JobCount

(* Mutant: the channels of answers have room for one message.              *)
CapacityOne == 1

(***************************************************************************)
(* responses and errors have room for all jobs: the search makes them of   *)
(* PagesCount-1, the batches of len(missed), which is more than needed.    *)
(***************************************************************************)
Capacity == JobCount

ASSUME PoolAssumption ==
  /\ JobCount \in Nat \ {0}
  /\ Workers # {} /\ IsFiniteSet(Workers)
  /\ NoJob \notin Nat

VARIABLES
  sent,       \* jobs[1..sent] were put into the channel jobs
  closed,     \* jobs is closed
  taken,      \* jobs[1..taken] were taken out of it
  pc,         \* where each worker is
  job,        \* the job each worker has
  responses,  \* the channel of responses
  errors,     \* the channel of errors
  gathered,   \* jobs whose submissions were appended to the result
  received,   \* the caller's loop variable: messages received so far
  result,     \* what the caller returned, or "none"
  failed      \* history: the jobs that failed

callerVars == <<sent, closed, gathered, received, result>>
vars == <<sent, closed, taken, pc, job, responses, errors, gathered, received,
          result, failed>>

Init ==
  /\ sent = 0
  /\ closed = FALSE
  /\ taken = 0
  /\ pc = [w \in Workers |-> "ready"]
  /\ job = [w \in Workers |-> NoJob]
  /\ responses = {}
  /\ errors = {}
  /\ gathered = {}
  /\ received = 0
  /\ result = "none"
  /\ failed = {}

-----------------------------------------------------------------------------
(* The caller sends the jobs; there is room for all of them.               *)
Send ==
  /\ sent < JobCount
  /\ sent' = sent + 1
  /\ UNCHANGED <<closed, taken, pc, job, responses, errors, gathered, received,
                 result, failed>>

CloseJobs ==
  /\ sent = JobCount
  /\ ~closed
  /\ closed' = TRUE
  /\ UNCHANGED <<sent, taken, pc, job, responses, errors, gathered, received,
                 result, failed>>

(* One turn of the caller's loop, from a response ...                      *)
Receive(j) ==
  /\ closed
  /\ result = "none"
  /\ received < JobCount
  /\ j \in responses
  /\ responses' = responses \ {j}
  /\ gathered' = gathered \cup {j}
  /\ received' = received + 1
  /\ UNCHANGED <<sent, closed, taken, pc, job, errors, result, failed>>

(* Mutant: the caller logs the error and waits for the other jobs.         *)
ReceiveErrorGoesOn(j) ==
  /\ closed
  /\ result = "none"
  /\ received < JobCount
  /\ j \in errors
  /\ errors' = errors \ {j}
  /\ received' = received + 1
  /\ UNCHANGED <<sent, closed, taken, pc, job, responses, gathered, result, failed>>

(* ... or an error.  A select with both ready takes either.                *)
ReceiveError(j) ==
  /\ closed
  /\ result = "none"
  /\ received < JobCount
  /\ j \in errors
  /\ errors' = errors \ {j}
  /\ result' = "error"
  /\ UNCHANGED <<sent, closed, taken, pc, job, responses, gathered, received,
                 failed>>

Return ==
  /\ closed
  /\ result = "none"
  /\ received = JobCount
  /\ result' = "answer"
  /\ UNCHANGED <<sent, closed, taken, pc, job, responses, errors, gathered,
                 received, failed>>

-----------------------------------------------------------------------------
(* A worker's for range jobs.                                              *)
Take(w) ==
  /\ pc[w] = "ready"
  /\ taken < sent
  /\ taken' = taken + 1
  /\ job' = [job EXCEPT ![w] = taken + 1]
  /\ pc' = [pc EXCEPT ![w] = "working"]
  /\ UNCHANGED <<callerVars, responses, errors, failed>>

Finish(w) ==
  /\ pc[w] = "ready"
  /\ taken = sent
  /\ closed
  /\ pc' = [pc EXCEPT ![w] = "done"]
  /\ UNCHANGED <<callerVars, taken, job, responses, errors, failed>>

(* RetrieveSubmission or RetrieveSearch returns ...                        *)
Answered(w) ==
  /\ pc[w] = "working"
  /\ pc' = [pc EXCEPT ![w] = "responding"]
  /\ UNCHANGED <<callerVars, taken, job, responses, errors, failed>>

(* ... or fails.                                                           *)
Failed(w) ==
  /\ pc[w] = "working"
  /\ pc' = [pc EXCEPT ![w] = "failing"]
  /\ failed' = failed \cup {job[w]}
  /\ UNCHANGED <<callerVars, taken, job, responses, errors>>

(* Mutant: a worker goes on with its old job in hand.                       *)
RespondKeepsJob(w) ==
  /\ pc[w] = "responding"
  /\ Cardinality(responses) < Capacity
  /\ responses' = responses \cup {job[w]}
  /\ pc' = [pc EXCEPT ![w] = "ready"]
  /\ UNCHANGED <<callerVars, taken, job, errors, failed>>

(* Both sends block while the channel is full.                             *)
Respond(w) ==
  /\ pc[w] = "responding"
  /\ Cardinality(responses) < Capacity
  /\ responses' = responses \cup {job[w]}
  /\ pc' = [pc EXCEPT ![w] = "ready"]
  /\ job' = [job EXCEPT ![w] = NoJob]
  /\ UNCHANGED <<callerVars, taken, errors, failed>>

(* Mutant: a worker that failed stops without a word.                      *)
FailSilently(w) ==
  /\ pc[w] = "failing"
  /\ pc' = [pc EXCEPT ![w] = "done"]
  /\ job' = [job EXCEPT ![w] = NoJob]
  /\ UNCHANGED <<callerVars, taken, responses, errors, failed>>

(* A worker that failed stops, and leaves the jobs left to the others.     *)
Fail(w) ==
  /\ pc[w] = "failing"
  /\ Cardinality(errors) < Capacity
  /\ errors' = errors \cup {job[w]}
  /\ pc' = [pc EXCEPT ![w] = "done"]
  /\ job' = [job EXCEPT ![w] = NoJob]
  /\ UNCHANGED <<callerVars, taken, responses, failed>>

Caller ==
  \/ Send
  \/ CloseJobs
  \/ \E j \in Jobs : Receive(j) \/ ReceiveError(j)
  \/ Return

Worker(w) ==
  \/ Take(w)
  \/ Finish(w)
  \/ Answered(w)
  \/ Failed(w)
  \/ Respond(w)
  \/ Fail(w)

(* The pool is done; what may be left is jobs nobody took.                 *)
Over ==
  /\ result # "none"
  /\ \A w \in Workers : pc[w] = "done"
  /\ UNCHANGED vars

Next == Caller \/ (\E w \in Workers : Worker(w)) \/ Over

Spec == Init /\ [][Next]_vars

(***************************************************************************)
(* Goroutines are scheduled, and the remote end answers or fails in the    *)
(* end.                                                                    *)
(***************************************************************************)
FairSpec == Spec /\ WF_vars(Caller) /\ \A w \in Workers : WF_vars(Worker(w))

-----------------------------------------------------------------------------
Held(j) == \E w \in Workers : job[w] = j

(***************************************************************************)
(* Types, and what a worker's stage says of its job.                       *)
(***************************************************************************)
TypeOK ==
  /\ sent \in 0 .. JobCount
  /\ closed \in BOOLEAN
  /\ closed => sent = JobCount
  /\ taken \in 0 .. sent
  /\ pc \in [Workers -> {"ready", "working", "responding", "failing", "done"}]
  /\ job \in [Workers -> Jobs \cup {NoJob}]
  /\ \A w \in Workers : job[w] = NoJob <=> pc[w] \in {"ready", "done"}
  /\ responses \subseteq Jobs
  /\ errors \subseteq Jobs
  /\ gathered \subseteq Jobs
  /\ received \in 0 .. JobCount
  /\ result \in {"none", "answer", "error"}
  /\ failed \subseteq Jobs

(* A job is with one worker only, which has not sent what it got for it.   *)
Exclusive ==
  \A w \in Workers : job[w] # NoJob =>
    /\ job[w] \notin responses \cup gathered \cup errors
    /\ \A v \in Workers : v # w => job[v] # job[w]
    /\ job[w] \in failed <=> pc[w] = "failing"

(* A job is answered once or fails once.                                   *)
Separate ==
  /\ responses \cap gathered = {}
  /\ (responses \cup gathered) \cap failed = {}
  /\ errors \subseteq failed

(* Jobs that were taken are somewhere, and the others nowhere.             *)
Located ==
  \A j \in Jobs : j <= taken <=>
    \/ Held(j)
    \/ j \in responses \cup gathered \cup failed

(* Until the call returns, a failure is with its worker or in errors.      *)
Kept == result = "none" => \A j \in failed : j \in errors \/ Held(j)

(***************************************************************************)
(* No job is lost and none is done twice: each job that was taken out of   *)
(* the channel is with one worker, or in one of the two channels, or with  *)
(* the caller, and no failure disappears before the call returns.          *)
(***************************************************************************)
Accounting ==
  /\ Exclusive
  /\ Separate
  /\ Located
  /\ Kept
  /\ Cardinality(gathered) = received

(***************************************************************************)
(* While the caller waits for a message there is one, or some worker has   *)
(* not stopped yet: workers that stop at an error never leave the caller   *)
(* with fewer messages than it counts on.                                  *)
(***************************************************************************)
CallerNotAbandoned ==
  result = "none" /\ received < JobCount =>
    \/ responses \cup errors # {}
    \/ \E w \in Workers : pc[w] # "done"

(***************************************************************************)
(* A worker that has a message to send finds room for it, so a worker that *)
(* is late never hangs, even when the caller has returned at an error.     *)
(***************************************************************************)
SendsNeverBlock ==
  \A w \in Workers :
    /\ pc[w] = "responding" => Cardinality(responses) < Capacity
    /\ pc[w] = "failing" => Cardinality(errors) < Capacity

(* What became of a job, as the caller of the pool could know it.          *)
Outcome(j) ==
  IF j \in failed THEN "error"
  ELSE IF j \in responses \cup gathered THEN "answer" ELSE "none"

Outcomes == [j \in Jobs |-> Outcome(j)]

G == INSTANCE Gather WITH outcome <- Outcomes

(***************************************************************************)
(* The call returns an answer only when every job was answered, and an     *)
(* error only when one failed: see Gather.                                 *)
(***************************************************************************)
GatherSpec == G!Spec

(* The call returns, however many jobs fail and in whatever order.         *)
CallReturns == <>(result # "none")

(* No goroutine of the pool is leaked.                                     *)
PoolDrains == <>[](\A w \in Workers : pc[w] = "done")

=============================================================================
