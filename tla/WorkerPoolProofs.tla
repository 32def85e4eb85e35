-------------------------- MODULE WorkerPoolProofs --------------------------
(***************************************************************************)
(* Proofs about WorkerPool for every number of jobs and every finite set   *)
(* of workers.  That the call returns and that the pool drains needs       *)
(* fairness, and is left to TLC.                                           *)
(***************************************************************************)
EXTENDS WorkerPool, FiniteSetTheorems, TLAPS

(* What the steps use of the constants.                                    *)
LEMMA Constants ==
  /\ JobCount \in Nat /\ JobCount > 0
  /\ Workers # {}
  /\ NoJob \notin Jobs
  /\ \A i : i \in Jobs <=> i \in Int /\ 1 <= i /\ i <= JobCount
BY PoolAssumption DEF Jobs

(* The first state is well typed.                                          *)
LEMMA TypingInit == Init => TypeOK
<1> SUFFICES ASSUME Init PROVE TypeOK
  OBVIOUS
<1>1. sent \in 0 .. JobCount /\ taken \in 0 .. sent /\ received \in 0 .. JobCount
  BY Constants DEF Init
<1>2. QED
  BY <1>1 DEF Init, TypeOK

(* Types, and what a worker's stage says of its job.                       *)
LEMMA TypingStep == TypeOK /\ [Next]_vars => TypeOK'
<1> SUFFICES ASSUME TypeOK, [Next]_vars PROVE TypeOK'
  OBVIOUS
<1> USE DEF callerVars
<1>1. CASE Send
  <2>1. sent' \in 0 .. JobCount /\ taken \in 0 .. sent'
    BY <1>1, Constants DEF Send, TypeOK
  <2>2. ~closed
    BY <1>1, Constants DEF Send, TypeOK
  <2>3. QED
    BY <1>1, <2>1, <2>2 DEF Send, TypeOK
<1>2. CASE CloseJobs \/ Return
  BY <1>2 DEF CloseJobs, Return, TypeOK
<1>3. ASSUME NEW j \in Jobs, Receive(j) \/ ReceiveError(j) PROVE TypeOK'
  <2>1. received' \in 0 .. JobCount
    BY <1>3, Constants DEF Receive, ReceiveError, TypeOK
  <2>2. QED
    BY <1>3, <2>1 DEF Receive, ReceiveError, TypeOK
<1>4. ASSUME NEW w \in Workers, Take(w) PROVE TypeOK'
  <2>1. taken' \in 0 .. sent /\ taken + 1 \in Jobs
    BY <1>4, Constants DEF Take, TypeOK
  <2>2. /\ job' = [job EXCEPT ![w] = taken + 1]
        /\ pc' = [pc EXCEPT ![w] = "working"]
        /\ UNCHANGED <<callerVars, responses, errors, failed>>
    BY <1>4 DEF Take
  <2>3. QED
    BY <2>1, <2>2, Constants DEF TypeOK
<1>5. ASSUME NEW w \in Workers, Finish(w) \/ Answered(w) PROVE TypeOK'
  BY <1>5 DEF Finish, Answered, TypeOK
<1>6. ASSUME NEW w \in Workers, Failed(w) \/ Respond(w) \/ Fail(w) PROVE TypeOK'
  <2>1. job[w] \in Jobs
    BY <1>6 DEF Failed, Respond, Fail, TypeOK
  <2>2. CASE Failed(w)
    BY <2>1, <2>2 DEF Failed, TypeOK
  <2>3. CASE Respond(w)
    BY <2>1, <2>3 DEF Respond, TypeOK
  <2>4. CASE Fail(w)
    BY <2>1, <2>4 DEF Fail, TypeOK
  <2>5. QED
    BY <1>6, <2>2, <2>3, <2>4
<1>7. CASE UNCHANGED vars
  BY <1>7 DEF vars, TypeOK
<1>8. QED
  BY <1>1, <1>2, <1>3, <1>4, <1>5, <1>6, <1>7 DEF Next, Caller, Worker, Over

(* Types, and what a worker's stage says of its job.                       *)
THEOREM Typing == Spec => []TypeOK
BY TypingInit, TypingStep, PTL DEF Spec

-----------------------------------------------------------------------------
(* The sets of jobs are finite, so that they can be counted.               *)
LEMMA Counting ==
  ASSUME NEW S \in SUBSET Jobs
  PROVE  /\ IsFiniteSet(S)
         /\ Cardinality(S) \in 0 .. JobCount
         /\ Cardinality(S) = JobCount => S = Jobs
         /\ Cardinality({}) = 0
         /\ \A j \in Jobs \ S : Cardinality(S \cup {j}) = Cardinality(S) + 1
<1>1. IsFiniteSet(Jobs) /\ Cardinality(Jobs) = JobCount
  BY FS_Interval, PoolAssumption DEF Jobs
<1>2. QED
  BY <1>1, FS_Subset, FS_AddElement, FS_CardinalityType, FS_EmptySet, PoolAssumption

(* Steps that leave the jobs where they are.                               *)
LEMMA AccountingElsewhere ==
  ASSUME Accounting,
         UNCHANGED <<taken, job, responses, errors, gathered, received, failed>>,
         result' = "none" => result = "none",
         \A w \in Workers : job[w] # NoJob => (pc'[w] = "failing" <=> pc[w] = "failing")
  PROVE  Accounting'
BY DEF Accounting, Exclusive, Separate, Located, Kept, Held

(* A worker takes the next job, which nobody has.                          *)
LEMMA AccountingTake ==
  ASSUME TypeOK, Accounting, NEW w \in Workers, Take(w)
  PROVE  Accounting'
<1>1. /\ taken' = taken + 1 /\ taken + 1 \in Jobs
      /\ ~(taken + 1 <= taken)
      /\ \A j \in Jobs : j <= taken + 1 <=> j <= taken \/ j = taken + 1
  BY Constants DEF Take, TypeOK
<1>2. /\ job[w] = NoJob
      /\ \A v \in Workers : job'[v] = IF v = w THEN taken + 1 ELSE job[v]
      /\ pc'[w] = "working"
      /\ \A v \in Workers \ {w} : pc'[v] = pc[v]
      /\ UNCHANGED <<responses, errors, gathered, received, result, failed>>
  BY DEF Take, TypeOK, callerVars
<1>3. /\ ~Held(taken + 1)
      /\ taken + 1 \notin responses \cup gathered \cup failed
  BY <1>1 DEF Accounting, Located
<1>4. \A j \in Jobs : Held(j)' <=> Held(j) \/ j = taken + 1
  BY <1>2, Constants DEF Held
<1>5. Exclusive'
  BY <1>1, <1>2, <1>3 DEF Accounting, Exclusive, Separate, Held
<1>6. Located'
  BY <1>1, <1>2, <1>4 DEF Accounting, Located
<1>7. Kept'
  BY <1>2, <1>4 DEF Accounting, Kept, TypeOK
<1>8. QED
  BY <1>2, <1>5, <1>6, <1>7 DEF Accounting, Separate

(* A worker sends what it got for its job, or that it failed.              *)
LEMMA AccountingSend ==
  ASSUME TypeOK, Accounting, NEW w \in Workers, Respond(w) \/ Fail(w)
  PROVE  Accounting'
<1>1. /\ job[w] \in Jobs /\ job[w] # NoJob
      /\ \A v \in Workers \ {w} : pc'[v] = pc[v]
      /\ \A v \in Workers : job'[v] = IF v = w THEN NoJob ELSE job[v]
      /\ UNCHANGED <<taken, gathered, received, result, failed>>
  BY Constants DEF Respond, Fail, TypeOK, callerVars
<1>2. \/ /\ job[w] \notin failed
         /\ responses' = responses \cup {job[w]} /\ errors' = errors
      \/ /\ job[w] \in failed
         /\ errors' = errors \cup {job[w]} /\ responses' = responses
  BY <1>1 DEF Respond, Fail, Accounting, Exclusive
<1>3. \A j \in Jobs : Held(j) <=> Held(j)' \/ j = job[w]
  BY <1>1, Constants DEF Held
<1>4. Exclusive'
  BY <1>1, <1>2 DEF Accounting, Exclusive
<1>5. Separate'
  BY <1>1, <1>2 DEF Accounting, Exclusive, Separate
<1>6. Located'
  BY <1>1, <1>2, <1>3 DEF Accounting, Located, Separate
<1>7. Kept'
  BY <1>1, <1>2, <1>3 DEF Accounting, Kept, TypeOK
<1>8. QED
  BY <1>1, <1>4, <1>5, <1>6, <1>7 DEF Accounting

(* Every job taken is accounted for.                                       *)
LEMMA AccountingStep == TypeOK /\ Accounting /\ [Next]_vars => Accounting'
<1> SUFFICES ASSUME TypeOK, Accounting, [Next]_vars PROVE Accounting'
  OBVIOUS
<1> USE DEF callerVars
<1>1. CASE Send \/ CloseJobs \/ Return \/ UNCHANGED vars
  BY <1>1, AccountingElsewhere DEF Send, CloseJobs, Return, vars
<1>2. ASSUME NEW j \in Jobs, Receive(j) PROVE Accounting'
  <2>1. Cardinality(gathered') = received'
    BY <1>2, Counting DEF Receive, Accounting, Separate, TypeOK
  <2>2. QED
    BY <1>2, <2>1 DEF Receive, Accounting, Exclusive, Separate, Located, Kept, Held
<1>3. ASSUME NEW j \in Jobs, ReceiveError(j) PROVE Accounting'
  BY <1>3 DEF ReceiveError, Accounting, Exclusive, Separate, Located, Kept, Held
<1>4. ASSUME NEW w \in Workers, Take(w) PROVE Accounting'
  BY <1>4, AccountingTake
<1>5. ASSUME NEW w \in Workers, Finish(w) \/ Answered(w) PROVE Accounting'
  BY <1>5, AccountingElsewhere DEF Finish, Answered, TypeOK
<1>6. ASSUME NEW w \in Workers, Failed(w) PROVE Accounting'
  <2>1. job[w] \in Jobs /\ job[w] # NoJob
    BY <1>6 DEF Failed, TypeOK
  <2>2. Exclusive'
    BY <1>6, <2>1 DEF Failed, Accounting, Exclusive, TypeOK
  <2>3. Separate'
    BY <1>6, <2>1 DEF Failed, Accounting, Exclusive, Separate
  <2>4. Located' /\ Kept'
    BY <1>6, <2>1 DEF Failed, Accounting, Located, Kept, Held
  <2>5. QED
    BY <1>6, <2>2, <2>3, <2>4 DEF Failed, Accounting
<1>7. ASSUME NEW w \in Workers, Respond(w) \/ Fail(w) PROVE Accounting'
  BY <1>7, AccountingSend
<1>8. QED
  BY <1>1, <1>2, <1>3, <1>4, <1>5, <1>6, <1>7 DEF Next, Caller, Worker, Over

LEMMA AccountingInit == Init => Accounting
<1>1. Init => Located
  BY Constants DEF Init, Located, Held
<1>2. QED
  BY <1>1, FS_EmptySet DEF Init, Accounting, Exclusive, Separate, Kept

(* No job is lost, and none is done twice.                                 *)
THEOREM AccountingHolds == Spec => []Accounting
BY Typing, AccountingInit, AccountingStep, PTL DEF Spec

-----------------------------------------------------------------------------
(* A worker stops at an error or when all the jobs were taken.             *)
StoppedFor ==
  \A w \in Workers : pc[w] = "done" => failed # {} \/ (closed /\ taken = sent)

LEMMA StoppedForStep ==
  TypeOK /\ Accounting /\ StoppedFor /\ [Next]_vars => StoppedFor'
<1> SUFFICES ASSUME TypeOK, Accounting, StoppedFor, [Next]_vars PROVE StoppedFor'
  OBVIOUS
<1> USE DEF callerVars, StoppedFor
<1>1. CASE Send
  BY <1>1, Constants DEF Send, TypeOK
<1>2. CASE CloseJobs \/ Return \/ UNCHANGED vars
  BY <1>2 DEF CloseJobs, Return, vars
<1>3. ASSUME NEW j \in Jobs, Receive(j) \/ ReceiveError(j) PROVE StoppedFor'
  BY <1>3 DEF Receive, ReceiveError
<1>4. ASSUME NEW w \in Workers, Take(w) PROVE StoppedFor'
  BY <1>4, Constants DEF Take, TypeOK
<1>5. ASSUME NEW w \in Workers, Finish(w) \/ Answered(w) \/ Respond(w) PROVE StoppedFor'
  BY <1>5 DEF Finish, Answered, Respond, TypeOK
<1>6. ASSUME NEW w \in Workers, Failed(w) PROVE StoppedFor'
  BY <1>6 DEF Failed, TypeOK
<1>7. ASSUME NEW w \in Workers, Fail(w) PROVE StoppedFor'
  BY <1>7 DEF Fail, TypeOK, Accounting, Exclusive
<1>8. QED
  BY <1>1, <1>2, <1>3, <1>4, <1>5, <1>6, <1>7 DEF Next, Caller, Worker, Over

(* The caller never waits for messages nobody is going to send.            *)
THEOREM CallerIsNotAbandoned == Spec => []CallerNotAbandoned
<1>1. Init => StoppedFor
  BY DEF Init, StoppedFor
<1>2. TypeOK /\ Accounting /\ StoppedFor => CallerNotAbandoned
  <2> SUFFICES ASSUME TypeOK, Accounting, StoppedFor, result = "none",
                      received < JobCount, responses = {}, errors = {},
                      \A w \in Workers : pc[w] = "done"
               PROVE  FALSE
    BY DEF CallerNotAbandoned
  <2>1. \A j \in Jobs : ~Held(j)
    BY Constants DEF Held, TypeOK
  <2>2. failed = {}
    BY <2>1 DEF Accounting, Kept, TypeOK
  <2>3. taken = JobCount
    BY <2>2, Constants DEF StoppedFor, TypeOK
  <2>4. gathered = Jobs
    BY <2>1, <2>2, <2>3, Constants DEF Accounting, Located, TypeOK
  <2>5. Cardinality(gathered) = JobCount
    BY <2>4, FS_Interval, Constants DEF Jobs
  <2>6. QED
    BY <2>5 DEF Accounting, TypeOK
<1>3. QED
  BY <1>1, <1>2, StoppedForStep, Typing, AccountingHolds, PTL DEF Spec

(* Whoever has a message to send has room for it.                          *)
THEOREM SendsAreNotBlocked == Spec => []SendsNeverBlock
<1>1. TypeOK /\ Accounting => SendsNeverBlock
  <2> SUFFICES ASSUME TypeOK, Accounting, NEW w \in Workers,
                      pc[w] \in {"responding", "failing"},
                      NEW S \in {responses, errors}
               PROVE  Cardinality(S) < Capacity
    BY DEF SendsNeverBlock
  <2>1. S \in SUBSET Jobs /\ job[w] \in Jobs /\ job[w] \notin S
    BY DEF TypeOK, Accounting, Exclusive
  <2>2. Cardinality(S) \in 0 .. JobCount /\ Cardinality(S) # JobCount
    BY <2>1, Counting
  <2>3. QED
    BY <2>2, Constants DEF Capacity
<1>2. QED
  BY <1>1, Typing, AccountingHolds, PTL

-----------------------------------------------------------------------------
(***************************************************************************)
(* The pool implements Gather: only Respond and Failed change what became  *)
(* of a job, and the caller returns when Gather may.                       *)
(***************************************************************************)
LEMMA NothingSeen ==
  ASSUME responses' \cup gathered' = responses \cup gathered, failed' = failed,
         result' = result
  PROVE  UNCHANGED G!vars
BY DEF Outcomes, Outcome, G!vars

(* A response that was sent is the answer to its job.                      *)
LEMMA RespondImplements ==
  ASSUME TypeOK, Accounting, NEW w \in Workers, Respond(w)
  PROVE  G!Next
<1>1. /\ job[w] \in Jobs
      /\ job[w] \notin responses \cup gathered
      /\ job[w] \notin failed
  BY DEF Respond, TypeOK, Accounting, Exclusive
<1>2. /\ responses' \cup gathered' = (responses \cup gathered) \cup {job[w]}
      /\ failed' = failed /\ result' = result
  BY DEF Respond, callerVars
<1>3. Outcomes[job[w]] = "none"
  BY <1>1 DEF Outcomes, Outcome
<1>4. Outcomes' = [Outcomes EXCEPT ![job[w]] = "answer"]
  BY <1>1, <1>2 DEF Outcomes, Outcome
<1>5. G!Reply(job[w], "answer")
  BY <1>2, <1>3, <1>4 DEF G!Reply
<1>6. QED
  BY <1>1, <1>5 DEF G!Next

(* A failure is the answer to its job before it is sent.                   *)
LEMMA FailedImplements ==
  ASSUME TypeOK, Accounting, NEW w \in Workers, Failed(w)
  PROVE  G!Next
<1>1. /\ job[w] \in Jobs
      /\ job[w] \notin responses \cup gathered
      /\ job[w] \notin failed
  BY DEF Failed, TypeOK, Accounting, Exclusive
<1>2. /\ responses' \cup gathered' = responses \cup gathered
      /\ failed' = failed \cup {job[w]} /\ result' = result
  BY DEF Failed, callerVars
<1>3. Outcomes[job[w]] = "none"
  BY <1>1 DEF Outcomes, Outcome
<1>4. Outcomes' = [Outcomes EXCEPT ![job[w]] = "error"]
  BY <1>1, <1>2 DEF Outcomes, Outcome
<1>5. G!Reply(job[w], "error")
  BY <1>2, <1>3, <1>4 DEF G!Reply
<1>6. QED
  BY <1>1, <1>5 DEF G!Next

LEMMA StepImplements ==
  TypeOK /\ Accounting /\ [Next]_vars => [G!Next]_(G!vars)
<1> SUFFICES ASSUME TypeOK, Accounting, [Next]_vars
             PROVE  G!Next \/ UNCHANGED G!vars
  OBVIOUS
<1> USE DEF callerVars
<1>1. CASE Send \/ CloseJobs \/ UNCHANGED vars
  BY <1>1, NothingSeen DEF Send, CloseJobs, vars
<1>2. ASSUME NEW j \in Jobs, Receive(j) PROVE UNCHANGED G!vars
  BY <1>2, NothingSeen DEF Receive
<1>3. ASSUME NEW j \in Jobs, ReceiveError(j) PROVE G!Next
  <2>1. j \in failed /\ Outcomes' = Outcomes
    BY <1>3 DEF ReceiveError, Accounting, Separate, Outcomes, Outcome
  <2>2. Outcomes[j] = "error"
    BY <2>1 DEF Outcomes, Outcome
  <2>3. G!ReturnError
    BY <1>3, <2>1, <2>2 DEF ReceiveError, G!ReturnError
  <2>4. QED
    BY <2>3 DEF G!Next
<1>4. CASE Return
  <2>1. gathered = Jobs
    BY <1>4, Counting DEF Return, Accounting, TypeOK
  <2>2. \A j \in Jobs : Outcomes[j] = "answer"
    BY <2>1 DEF Accounting, Separate, Outcomes, Outcome
  <2>3. Outcomes' = Outcomes
    BY <1>4 DEF Return, Outcomes, Outcome
  <2>4. G!ReturnAll
    BY <1>4, <2>2, <2>3 DEF Return, G!ReturnAll
  <2>5. QED
    BY <2>4 DEF G!Next
<1>5. ASSUME NEW w \in Workers, Take(w) \/ Finish(w) \/ Answered(w) \/ Fail(w)
      PROVE  UNCHANGED G!vars
  BY <1>5, NothingSeen DEF Take, Finish, Answered, Fail
<1>6. ASSUME NEW w \in Workers, Respond(w) \/ Failed(w) PROVE G!Next
  BY <1>6, RespondImplements, FailedImplements
<1>7. QED
  BY <1>1, <1>2, <1>3, <1>4, <1>5, <1>6 DEF Next, Caller, Worker, Over

(* The caller gets all the answers, or an error because a job failed.      *)
THEOREM ImplementsGather == Spec => GatherSpec
<1>1. Init => G!Init
  BY DEF Init, Outcomes, Outcome, G!Init
<1>2. QED
  BY <1>1, StepImplements, Typing, AccountingHolds, PTL DEF Spec, GatherSpec, G!Spec

=============================================================================
