---------------------------- MODULE DeliveryProofs ----------------------------
(***************************************************************************)
(* What holds of Delivery for every number of logs, workers, overlapping   *)
(* recoveries, attempts and faults.                                        *)
(***************************************************************************)
EXTENDS DeliveryRefinement, FiniteSetTheorems, TLAPS

(***************************************************************************)
(* The classification of an answer.  A failure is never taken for success. *)
(***************************************************************************)
LEMMA ResultOfFailure ==
    ASSUME NEW retryable \in BOOLEAN, NEW wait \in Nat
    PROVE  StepForResult(Failure(retryable, wait))
             \in {"markFailed", "moveToDelayed", "throw"}
BY DEF StepForResult, Failure

LEMMA ResultOfOk == StepForResult(Ok) = "markSent"
BY DEF StepForResult, Ok

LEMMA ResultOfTransport ==
    StepForResult(classifyTransportFailure) = "throw"
BY DEF StepForResult, classifyTransportFailure, Failure

LEMMA ResultOfAnswer ==
    ASSUME NEW a \in Answers
    PROVE  StepForResult(classifyTelegramFailure(a))
             \in {"markFailed", "moveToDelayed", "throw"}
<1>1. a.retryAfter \in Nat
    BY AnswersAssumption DEF ErrorAnswers, RetryAfters, Missing
<1>2. OrElse(a.retryAfter, 1) * 1000 \in Nat
    BY <1>1 DEF OrElse
<1>3. QED
    BY <1>2, ResultOfFailure
       DEF classifyTelegramFailure, Failure, StepForResult

(***************************************************************************)
(* Type correctness.                                                       *)
(***************************************************************************)
USE DEF queueVars, workerVars, recoveryVars, OutsideWorker, OutsideRecovery

LEMMA AddType ==
    ASSUME QueueTypeOK, NEW d \in Deliveries, Add(d)
    PROVE  QueueTypeOK'
BY DEF QueueTypeOK, Add, JobStates

LEMMA LeaveType ==
    ASSUME QueueTypeOK, NEW w \in Workers, NEW d \in Deliveries,
           \/ MoveToCompleted(w, d)
           \/ MoveToDelayed(w, d)
           \/ \E u \in BOOLEAN : MoveToFailed(w, d, u)
    PROVE  QueueTypeOK'
BY DEF QueueTypeOK, JobStates, Leave, MoveToCompleted, MoveToDelayed,
       MoveToFailed

LEMMA TypeInit == Init => TypeOK
BY NAssumption, FaultsAssumption
   DEF Init, TypeOK, QueueInit, QueueTypeOK, JobStates, LogStatuses,
       WorkerSteps, RecoverySteps

LEMMA WorkerType ==
    ASSUME TypeOK, NEW w \in Workers, Worker(w)
    PROVE  TypeOK'
<1> USE DEF TypeOK, LogStatuses, WorkerSteps, AwaitSteps, EndSteps, Goto,
            AtStep
<1>1. ASSUME NEW d \in Deliveries, TakeJob(w, d) PROVE TypeOK'
    BY <1>1 DEF TakeJob, Fetch, QueueTypeOK, JobStates
<1>2. ASSUME NEW b \in BOOLEAN, TryAcquire(w, b) \/ ReadBot(w, b) PROVE TypeOK'
    BY <1>2 DEF TryAcquire, ReadBot, QueueTypeOK
<1>3. CASE ReadLog(w)
    BY <1>3 DEF ReadLog, StepForLog, QueueTypeOK
<1>4. CASE SendAccepted(w)
    BY <1>4, ResultOfOk DEF SendAccepted, Accept, QueueTypeOK
<1>5. CASE SendUnheard(w)
    BY <1>5, ResultOfTransport, FaultsAssumption
       DEF SendUnheard, Accept, Fault, QueueTypeOK
<1>6. CASE SendUnreached(w)
    BY <1>6, ResultOfTransport DEF SendUnreached, QueueTypeOK
<1>7. ASSUME NEW a \in Answers, SendRejected(w, a) PROVE TypeOK'
    BY <1>7, ResultOfAnswer DEF SendRejected, QueueTypeOK
<1>8. CASE MarkSent(w) \/ MarkFailed(w)
    BY <1>8 DEF MarkSent, MarkFailed, SetStatus, QueueTypeOK
<1>9. CASE CallFails(w)
    BY <1>9, FaultsAssumption DEF CallFails, SetStatus, Fault, QueueTypeOK
<1>10. CASE DelayJob(w)
    <2>1. QueueTypeOK'
        BY <1>10, LeaveType DEF DelayJob, QueueTypeOK
    <2>2. QED
        BY <1>10, <2>1 DEF DelayJob, Drop
<1>11. CASE Return(w)
    <2>1. QueueTypeOK'
        BY <1>11, LeaveType DEF Return, QueueTypeOK
    <2>2. QED
        BY <1>11, <2>1 DEF Return, Drop
<1>12. CASE Throw(w)
    <2>1. QueueTypeOK'
        BY <1>12, LeaveType DEF Throw, QueueTypeOK
    <2>2. QED
        BY <1>12, <2>1 DEF Throw, Drop
<1>13. QED
    BY <1>1, <1>2, <1>3, <1>4, <1>5, <1>6, <1>7, <1>8, <1>9, <1>10, <1>11,
       <1>12 DEF Worker

LEMMA DiesType ==
    ASSUME TypeOK, ProcessDies PROVE TypeOK'
BY FaultsAssumption
   DEF ProcessDies, TypeOK, QueueTypeOK, ExpireAllLocks, Fault, WorkerSteps,
       RecoverySteps

LEMMA RecoveryType ==
    ASSUME TypeOK, NEW r \in Recoverers, Recovery(r)
    PROVE  TypeOK'
<1> USE DEF TypeOK, RecoverySteps, GotoR, Advance
<1>1. CASE FindStuck(r)
    BY <1>1 DEF FindStuck, Batch, Stuck, QueueTypeOK
<1>2. ASSUME NEW d \in Deliveries, GetJob(r, d) \/ GetState(r, d) PROVE TypeOK'
    BY <1>2 DEF GetJob, GetState, QueueTypeOK
<1>3. ASSUME NEW d \in Deliveries, RemoveJob(r, d) PROVE TypeOK'
    BY <1>3 DEF RemoveJob, Remove, QueueTypeOK, JobStates
<1>4. ASSUME NEW d \in Deliveries, RemoveRejected(r, d) PROVE TypeOK'
    BY <1>4, DiesType DEF RemoveRejected
<1>5. ASSUME NEW d \in Deliveries, AddJob(r, d) PROVE TypeOK'
    BY <1>5, AddType DEF AddJob
<1>6. QED
    BY <1>1, <1>2, <1>3, <1>4, <1>5 DEF Recovery

LEMMA EnvironmentType ==
    ASSUME TypeOK, Environment
    PROVE  TypeOK'
<1> USE DEF TypeOK, LogStatuses
<1>1. ASSUME NEW d \in Deliveries, CreateLog(d) \/ DeleteRule(d) PROVE TypeOK'
    BY <1>1 DEF CreateLog, DeleteRule, QueueTypeOK
<1>2. ASSUME NEW d \in Deliveries, EnqueueJob(d) PROVE TypeOK'
    BY <1>2, AddType DEF EnqueueJob
<1>3. ASSUME NEW d \in Deliveries, EnqueueFails(d) PROVE TypeOK'
    BY <1>3, FaultsAssumption DEF EnqueueFails, Fault, QueueTypeOK
<1>4. ASSUME NEW d \in Deliveries, OnFailed(d) PROVE TypeOK'
    BY <1>4 DEF OnFailed, SetStatus, QueueTypeOK
<1>5. ASSUME NEW d \in Deliveries, LoseLock(d) PROVE TypeOK'
    BY <1>5, FaultsAssumption DEF LoseLock, ExpireLock, Fault, QueueTypeOK
<1>6. ASSUME NEW d \in Deliveries, Upkeep(d) PROVE TypeOK'
    BY <1>6 DEF Upkeep, Promote, Stall, Evict, QueueTypeOK, JobStates
<1>7. CASE Age
    BY <1>7, NAssumption DEF Age, QueueTypeOK
<1>8. CASE Crash
    BY <1>8, DiesType DEF Crash
<1>9. CASE LoseRedis
    BY <1>9, FaultsAssumption
       DEF LoseRedis, Flush, Fault, QueueTypeOK, JobStates
<1>10. QED
    BY <1>1, <1>2, <1>3, <1>4, <1>5, <1>6, <1>7, <1>8, <1>9 DEF Environment

LEMMA TypeStutter ==
    ASSUME TypeOK, UNCHANGED vars PROVE TypeOK'
BY DEF TypeOK, QueueTypeOK, vars

\* Every variable keeps its type.
THEOREM TypeCorrect == Spec => []TypeOK
<1>1. TypeOK /\ [Next]_vars => TypeOK'
    BY WorkerType, RecoveryType, EnvironmentType, TypeStutter DEF Next
<1>2. QED
    BY TypeInit, <1>1, PTL DEF Spec

(***************************************************************************)
(* Truthful logs.  SENT and completed are reached in several steps, so the *)
(* invariant also says what a worker between those steps may rely on, and  *)
(* that jobs, workers and recoveries only ever handle created logs.        *)
(***************************************************************************)
KnownLogs ==
    /\ \A d \in Deliveries : jobState[d] # "absent" => log[d] # "none"
    /\ \A d \in intake : log[d] # "none"
    /\ \A w \in Workers : pc[w] # "idle" => log[job[w]] # "none"
    /\ \A r \in Recoverers : \A d \in todo[r] : log[d] # "none"

WorkersKnow ==
    \A w \in Workers :
        /\ pc[w] = "markSent" => accepted[job[w]] >= 1
        /\ pc[w] = "return" => log[job[w]] \in {"SENT", "deleted"}

Truthful ==
    /\ TypeOK
    /\ KnownLogs
    /\ WorkersKnow
    /\ SentMeansAccepted
    /\ CompletedMeansSettled

\* Statuses move forward: once created, once settled.
LogForward ==
    \A d \in Deliveries :
        /\ log[d] # "none" => log'[d] # "none"
        /\ log[d] \in {"SENT", "deleted"} => log'[d] \in {"SENT", "deleted"}

LEMMA SetStatusForward ==
    ASSUME TypeOK, NEW d \in Deliveries,
           NEW s \in {"SENT", "FAILED"}, log' = SetStatus(d, s)
    PROVE  LogForward
BY DEF TypeOK, LogStatuses, SetStatus, LogForward

LEMMA LogMovesForward ==
    ASSUME TypeOK, [Next]_vars PROVE LogForward
<1>1. ASSUME NEW w \in Workers, Worker(w) PROVE LogForward
    <2>1. CASE MarkSent(w) \/ MarkFailed(w)
        BY <2>1, SetStatusForward DEF MarkSent, MarkFailed, AtStep, TypeOK
    <2>2. CASE CallFails(w)
        BY <2>2, SetStatusForward
           DEF CallFails, AtStep, TypeOK, LogForward, AwaitSteps
    <2>3. CASE UNCHANGED log
        BY <2>3 DEF LogForward
    <2>4. QED
        BY <1>1, <2>1, <2>2, <2>3
           DEF Worker, TakeJob, TryAcquire, ReadLog, ReadBot, SendAccepted,
               SendUnheard, SendUnreached, SendRejected, DelayJob, Return,
               Throw
<1>2. ASSUME NEW r \in Recoverers, Recovery(r) PROVE LogForward
    BY <1>2
       DEF Recovery, FindStuck, GetJob, GetState, RemoveJob, RemoveRejected,
           AddJob, ProcessDies, LogForward
<1>3. CASE Environment
    <2>1. ASSUME NEW d \in Deliveries,
                 CreateLog(d) \/ DeleteRule(d) \/ OnFailed(d)
          PROVE  LogForward
        BY <2>1, SetStatusForward
           DEF CreateLog, DeleteRule, OnFailed, Created, LogForward, TypeOK,
               LogStatuses
    <2>2. CASE UNCHANGED log
        BY <2>2 DEF LogForward
    <2>3. QED
        BY <1>3, <2>1, <2>2
           DEF Environment, EnqueueJob, EnqueueFails, LoseLock, Upkeep, Age,
               Crash, ProcessDies, LoseRedis
<1>4. CASE UNCHANGED vars
    BY <1>4 DEF vars, LogForward
<1>5. QED
    BY <1>1, <1>2, <1>3, <1>4 DEF Next

LEMMA TruthfulInit == Init => Truthful
BY TypeInit
   DEF Init, QueueInit, Truthful, KnownLogs, WorkersKnow, SentMeansAccepted,
       CompletedMeansSettled

LEMMA WorkerTruthful ==
    ASSUME Truthful, NEW w \in Workers, Worker(w), LogForward, TypeOK'
    PROVE  Truthful'
<1> USE DEF Truthful, KnownLogs, WorkersKnow, SentMeansAccepted,
            CompletedMeansSettled, LogForward, Goto, AtStep
<1> USE DEF TypeOK
<1>1. ASSUME NEW d \in Deliveries, TakeJob(w, d) PROVE Truthful'
    BY <1>1 DEF TakeJob, Fetch, QueueTypeOK
<1>2. ASSUME NEW b \in BOOLEAN, TryAcquire(w, b) \/ ReadBot(w, b)
      PROVE  Truthful'
    BY <1>2 DEF TryAcquire, ReadBot
<1>3. CASE ReadLog(w)
    BY <1>3 DEF ReadLog, StepForLog
<1>4. CASE SendAccepted(w)
    BY <1>4, ResultOfOk DEF SendAccepted, Accept
<1>5. CASE SendUnheard(w)
    BY <1>5, ResultOfTransport DEF SendUnheard, Accept
<1>6. CASE SendUnreached(w)
    BY <1>6, ResultOfTransport DEF SendUnreached
<1>7. ASSUME NEW a \in Answers, SendRejected(w, a) PROVE Truthful'
    BY <1>7, ResultOfAnswer DEF SendRejected
<1>8. CASE MarkSent(w)
    BY <1>8 DEF MarkSent, SetStatus, LogStatuses
<1>9. CASE MarkFailed(w)
    BY <1>9 DEF MarkFailed, SetStatus
<1>10. CASE CallFails(w)
    BY <1>10 DEF CallFails, SetStatus, AwaitSteps
<1>11. CASE DelayJob(w)
    BY <1>11 DEF DelayJob, Drop, MoveToDelayed, Leave, Holds, QueueTypeOK
<1>12. CASE Return(w)
    BY <1>12 DEF Return, Drop, MoveToCompleted, Leave, Holds, QueueTypeOK
<1>13. CASE Throw(w)
    BY <1>13 DEF Throw, Drop, MoveToFailed, Leave, Holds, QueueTypeOK
<1>14. QED
    BY <1>1, <1>2, <1>3, <1>4, <1>5, <1>6, <1>7, <1>8, <1>9, <1>10, <1>11,
       <1>12, <1>13 DEF Worker

LEMMA RecoveryTruthful ==
    ASSUME Truthful, NEW r \in Recoverers, Recovery(r), LogForward, TypeOK'
    PROVE  Truthful'
<1> USE DEF Truthful, KnownLogs, WorkersKnow, SentMeansAccepted,
            CompletedMeansSettled, TypeOK, GotoR, Advance
<1>1. CASE FindStuck(r)
    BY <1>1 DEF FindStuck, Batch, Stuck
<1>2. ASSUME NEW d \in Deliveries, GetJob(r, d) \/ GetState(r, d)
      PROVE  Truthful'
    BY <1>2 DEF GetJob, GetState
<1>3. ASSUME NEW d \in Deliveries, RemoveJob(r, d) PROVE Truthful'
    BY <1>3 DEF RemoveJob, Remove, QueueTypeOK
<1>4. ASSUME NEW d \in Deliveries, RemoveRejected(r, d) PROVE Truthful'
    BY <1>4 DEF RemoveRejected, ProcessDies, ExpireAllLocks
<1>5. ASSUME NEW d \in Deliveries, AddJob(r, d) PROVE Truthful'
    BY <1>5 DEF AddJob, Add, QueueTypeOK, Current
<1>6. QED
    BY <1>1, <1>2, <1>3, <1>4, <1>5 DEF Recovery

LEMMA EnvironmentTruthful ==
    ASSUME Truthful, Environment, LogForward, TypeOK'
    PROVE  Truthful'
<1> USE DEF Truthful, KnownLogs, WorkersKnow, SentMeansAccepted,
            CompletedMeansSettled, TypeOK
<1>1. ASSUME NEW d \in Deliveries, CreateLog(d) PROVE Truthful'
    BY <1>1 DEF CreateLog
<1>2. ASSUME NEW d \in Deliveries, DeleteRule(d) PROVE Truthful'
    BY <1>2 DEF DeleteRule
<1>3. ASSUME NEW d \in Deliveries, EnqueueJob(d) PROVE Truthful'
    BY <1>3 DEF EnqueueJob, Add, QueueTypeOK
<1>4. ASSUME NEW d \in Deliveries, EnqueueFails(d) PROVE Truthful'
    BY <1>4 DEF EnqueueFails
<1>5. ASSUME NEW d \in Deliveries, OnFailed(d) PROVE Truthful'
    BY <1>5 DEF OnFailed, SetStatus
<1>6. ASSUME NEW d \in Deliveries, LoseLock(d) PROVE Truthful'
    BY <1>6 DEF LoseLock, ExpireLock
<1>7. ASSUME NEW d \in Deliveries, Upkeep(d) PROVE Truthful'
    BY <1>7 DEF Upkeep, Promote, Stall, Evict, QueueTypeOK
<1>8. CASE Age
    BY <1>8 DEF Age
<1>9. CASE Crash
    BY <1>9 DEF Crash, ProcessDies, ExpireAllLocks
<1>10. CASE LoseRedis
    BY <1>10 DEF LoseRedis, Flush
<1>11. QED
    BY <1>1, <1>2, <1>3, <1>4, <1>5, <1>6, <1>7, <1>8, <1>9, <1>10
       DEF Environment

LEMMA StutterTruthful ==
    ASSUME Truthful, UNCHANGED vars PROVE Truthful'
BY TypeStutter
   DEF Truthful, KnownLogs, WorkersKnow, SentMeansAccepted,
       CompletedMeansSettled, vars

LEMMA TruthfulInductive == Spec => []Truthful
<1>1. Truthful /\ [Next]_vars => TypeOK'
    BY WorkerType, RecoveryType, EnvironmentType, TypeStutter
       DEF Next, Truthful
<1>2. Truthful /\ [Next]_vars => Truthful'
    BY <1>1, LogMovesForward, WorkerTruthful, RecoveryTruthful,
       EnvironmentTruthful, StutterTruthful DEF Next, Truthful
<1>3. QED
    BY TruthfulInit, <1>2, PTL DEF Spec

\* SENT is only said of a message Telegram has accepted.
THEOREM SentTruthful == Spec => []SentMeansAccepted
BY TruthfulInductive, PTL DEF Truthful

\* A completed job leaves no PENDING or FAILED log behind.
THEOREM CompletedTruthful == Spec => []CompletedMeansSettled
BY TruthfulInductive, PTL DEF Truthful

\* No late handler, second worker or recovery takes SENT back.
THEOREM SentStays == Spec => SentIsFinal
<1>1. TypeOK /\ [Next]_vars
        => [\A d \in Deliveries :
              log[d] = "SENT" => log'[d] \in {"SENT", "deleted"}]_vars
    BY LogMovesForward DEF LogForward
<1>2. QED
    BY <1>1, TypeCorrect, PTL DEF Spec, SentIsFinal

(***************************************************************************)
(* Delivery implements DeliveryLifecycle (its safety part; its fairness is *)
(* model-checked).                                                         *)
(***************************************************************************)
Reached == {d \in Deliveries : accepted[d] > 0}

LifecycleStep == Lifecycle!Next \/ UNCHANGED <<log, Reached>>

LEMMA InitRefines == Init => Lifecycle!Init
BY DEF Init, Lifecycle!Init

\* One log changes its status, nothing is accepted.
LEMMA StatusStep ==
    ASSUME Truthful, NEW d \in Deliveries, UNCHANGED accepted,
           \/ log' = SetStatus(d, "SENT") /\ accepted[d] >= 1
           \/ log' = SetStatus(d, "FAILED")
    PROVE  LifecycleStep
<1>1. CASE log[d] \in {"PENDING", "FAILED"} /\ log' = SetStatus(d, "SENT")
           /\ accepted[d] >= 1
    <2>1. d \in Reached
        BY <1>1 DEF Reached, Truthful, TypeOK
    <2>2. Lifecycle!Confirm(d)
        BY <1>1, <2>1
           DEF SetStatus, Lifecycle!Confirm, Lifecycle!Become, Reached
    <2>3. QED
        BY <2>2 DEF LifecycleStep, Lifecycle!Next
<1>2. CASE log[d] = "PENDING" /\ log' = SetStatus(d, "FAILED")
    <2>1. Lifecycle!GiveUp(d)
        BY <1>2 DEF SetStatus, Lifecycle!GiveUp, Lifecycle!Become, Reached
    <2>2. QED
        BY <2>1 DEF LifecycleStep, Lifecycle!Next
<1>3. CASE log[d] = "FAILED" /\ log' = SetStatus(d, "FAILED")
    BY <1>3 DEF SetStatus, LifecycleStep, Reached, Truthful, TypeOK
<1>4. CASE log[d] \notin {"PENDING", "FAILED"}
    BY <1>4 DEF SetStatus, LifecycleStep, Reached
<1>5. QED
    BY <1>1, <1>2, <1>3, <1>4

LEMMA AcceptStep ==
    ASSUME Truthful, NEW d \in Deliveries, log[d] # "none", Accept(d),
           UNCHANGED log
    PROVE  LifecycleStep
<1>1. Reached' = Reached \cup {d}
    BY DEF Accept, Reached, Truthful, TypeOK
<1>2. Lifecycle!Reach(d)
    BY <1>1 DEF Lifecycle!Reach, Reached
<1>3. QED
    BY <1>2 DEF LifecycleStep, Lifecycle!Next

LEMMA QuietStep ==
    ASSUME UNCHANGED <<log, accepted>> PROVE LifecycleStep
BY DEF LifecycleStep, Reached

LEMMA WorkerRefines ==
    ASSUME Truthful, NEW w \in Workers, Worker(w) PROVE LifecycleStep
<1>1. pc[w] # "idle" => job[w] \in Deliveries /\ log[job[w]] # "none"
    BY DEF Truthful, TypeOK, KnownLogs
<1>2. CASE MarkSent(w) \/ MarkFailed(w)
    BY <1>1, <1>2, StatusStep
       DEF MarkSent, MarkFailed, AtStep, Truthful, WorkersKnow
<1>3. CASE CallFails(w)
    <2>1. CASE UNCHANGED log
        BY <1>3, <2>1, QuietStep DEF CallFails
    <2>2. CASE ~UNCHANGED log
        BY <1>1, <1>3, <2>2, StatusStep
           DEF CallFails, AtStep, Truthful, WorkersKnow
    <2>3. QED
        BY <2>1, <2>2
<1>4. CASE SendAccepted(w) \/ SendUnheard(w)
    BY <1>1, <1>4, AcceptStep DEF SendAccepted, SendUnheard, AtStep
<1>5. CASE UNCHANGED <<log, accepted>>
    BY <1>5, QuietStep
<1>6. QED
    BY <1>2, <1>3, <1>4, <1>5
       DEF Worker, TakeJob, TryAcquire, ReadLog, ReadBot, SendUnreached,
           SendRejected, DelayJob, Return, Throw

LEMMA RecoveryRefines ==
    ASSUME NEW r \in Recoverers, Recovery(r) PROVE LifecycleStep
BY QuietStep
   DEF Recovery, FindStuck, GetJob, GetState, RemoveJob, RemoveRejected,
       AddJob, ProcessDies

LEMMA EnvironmentRefines ==
    ASSUME Truthful, Environment PROVE LifecycleStep
<1>1. ASSUME NEW d \in Deliveries, CreateLog(d) PROVE LifecycleStep
    <2>1. Lifecycle!Create(d)
        BY <1>1 DEF CreateLog, Lifecycle!Create, Lifecycle!Become, Reached
    <2>2. QED
        BY <2>1 DEF LifecycleStep, Lifecycle!Next
<1>2. ASSUME NEW d \in Deliveries, DeleteRule(d) PROVE LifecycleStep
    <2>1. Lifecycle!Delete(d)
        BY <1>2
           DEF DeleteRule, Created, Lifecycle!Delete, Lifecycle!Become, Reached
    <2>2. QED
        BY <2>1 DEF LifecycleStep, Lifecycle!Next
<1>3. ASSUME NEW d \in Deliveries, OnFailed(d) PROVE LifecycleStep
    BY <1>3, StatusStep DEF OnFailed
<1>4. CASE UNCHANGED <<log, accepted>>
    BY <1>4, QuietStep
<1>5. QED
    BY <1>1, <1>2, <1>3, <1>4
       DEF Environment, EnqueueJob, EnqueueFails, LoseLock, Upkeep, Age,
           Crash, ProcessDies, LoseRedis

\* Every step is a step of the life cycle, or leaves it as it is.
THEOREM DeliveryImplementsLifecycle == Spec => FollowsLifecycle
<1>1. Truthful /\ [Next]_vars => [Lifecycle!Next]_(Lifecycle!vars)
    <2>1. Truthful /\ Next => LifecycleStep
        BY WorkerRefines, RecoveryRefines, EnvironmentRefines DEF Next
    <2>2. UNCHANGED vars => LifecycleStep
        BY QuietStep DEF vars
    <2>3. QED
        BY <2>1, <2>2 DEF LifecycleStep, Reached, Lifecycle!vars
<1>2. QED
    BY <1>1, InitRefines, TruthfulInductive, PTL
       DEF Spec, FollowsLifecycle, Lifecycle!Spec

-----------------------------------------------------------------------------
USE DEF queueVars, workerVars, recoveryVars, OutsideWorker, OutsideRecovery

(***************************************************************************)
(* While nothing fails, a PENDING log is always in somebody's hands.  The  *)
(* property is inductive once a failed job of a PENDING log is known to    *)
(* have its onFailed handler pending: adding such a job again is ignored,  *)
(* so nothing else would ever settle its log.                              *)
(***************************************************************************)
HandOver(d) ==
    log[d] = "PENDING" => /\ InHand(d)
                          /\ jobState[d] = "failed" => d \in failing

Handled == faults = 0 => \A d \in Deliveries : HandOver(d)

LEMMA HandledInit == Init => Handled
BY DEF Init, Handled, HandOver

\* No log becomes PENDING, and nobody lets go of one.
LEMMA HandsKept ==
    ASSUME NEW d \in Deliveries, HandOver(d),
           log'[d] = "PENDING" => log[d] = "PENDING",
           UNCHANGED <<jobState, intake, recoveryVars>>,
           d \in failing => d \in failing'
    PROVE  HandOver(d)'
BY DEF HandOver, InHand, Current, LiveStates

\* A job that is live after the step needs nobody else.
LEMMA LiveIsInHand ==
    ASSUME NEW d \in Deliveries, jobState'[d] \in LiveStates
    PROVE  HandOver(d)'
BY DEF HandOver, InHand, LiveStates

LEMMA AddHandsOver ==
    ASSUME TypeOK, NEW d \in Deliveries, NEW e \in Deliveries, Add(e),
           HandOver(d), UNCHANGED <<log, failing>>,
           d # e /\ InHand(d) => InHand(d)',
           CompletedMeansSettled
    PROVE  HandOver(d)'
<1> USE DEF TypeOK, QueueTypeOK
<1>1. CASE d = e
    <2>1. CASE jobState[d] = "absent"
        BY <1>1, <2>1, LiveIsInHand DEF Add, LiveStates
    <2>2. CASE jobState[d] # "absent"
        <3>1. jobState[d] \in LiveStates \cup {"completed", "failed"}
            BY <2>2 DEF JobStates, LiveStates
        <3>2. UNCHANGED jobState
            BY <1>1, <2>2 DEF Add
        <3>3. QED
            BY <3>1, <3>2, LiveIsInHand
               DEF HandOver, InHand, CompletedMeansSettled
    <2>3. QED
        BY <2>1, <2>2
<1>2. CASE d # e
    BY <1>2 DEF Add, HandOver
<1>3. QED
    BY <1>1, <1>2

LEMMA WorkerHands ==
    ASSUME Truthful, NEW w \in Workers, Worker(w), LogForward,
           NEW d \in Deliveries, HandOver(d), faults' = 0
    PROVE  HandOver(d)'
<1> USE DEF Truthful, TypeOK, QueueTypeOK
<1>1. log'[d] = "PENDING" => log[d] = "PENDING"
    BY DEF Worker, TakeJob, TryAcquire, ReadLog, ReadBot, SendAccepted,
           SendUnheard, SendUnreached, SendRejected, MarkSent, MarkFailed,
           CallFails, SetStatus, DelayJob, Return, Throw
<1>2. CASE UNCHANGED <<jobState, failing>>
    BY <1>1, <1>2, HandsKept
       DEF Worker, TakeJob, TryAcquire, ReadLog, ReadBot, SendAccepted,
           SendUnheard, SendUnreached, SendRejected, MarkSent, MarkFailed,
           CallFails, DelayJob, Return, Throw
<1>3. ASSUME NEW e \in Deliveries, TakeJob(w, e) PROVE HandOver(d)'
    <2>1. CASE d = e
        BY <1>3, <2>1, LiveIsInHand DEF TakeJob, Fetch, LiveStates
    <2>2. CASE d # e
        BY <1>1, <1>3, <2>2
           DEF TakeJob, Fetch, HandOver, InHand, Current
    <2>3. QED
        BY <2>1, <2>2
<1>4. ASSUME DelayJob(w), Holds(w, job[w]) PROVE HandOver(d)'
    <2>1. CASE d = job[w]
        BY <1>4, <2>1, LiveIsInHand
           DEF DelayJob, MoveToDelayed, Leave, LiveStates
    <2>2. CASE d # job[w]
        BY <1>1, <1>4, <2>2
           DEF DelayJob, MoveToDelayed, Leave, HandOver, InHand, Current
    <2>3. QED
        BY <2>1, <2>2
<1>5. ASSUME Return(w), Holds(w, job[w]) PROVE HandOver(d)'
    <2>1. CASE d = job[w]
        BY <1>5, <2>1 DEF Return, WorkersKnow, HandOver, AtStep
    <2>2. CASE d # job[w]
        BY <1>1, <1>5, <2>2
           DEF Return, MoveToCompleted, Leave, HandOver, InHand, Current
    <2>3. QED
        BY <2>1, <2>2
<1>6. ASSUME Throw(w), Holds(w, job[w]) PROVE HandOver(d)'
    <2> DEFINE u == pc[w] = "throwUnrecoverable"
    <2>1. /\ MoveToFailed(w, job[w], u)
          /\ failing \subseteq failing'
          /\ FailureIsFinal(attemptsMade[job[w]] + 1, u) => job[w] \in failing'
        BY <1>6 DEF Throw, AtStep
    <2>2. CASE d = job[w]
        <3>1. CASE WillRetry(d, u)
            BY <2>1, <2>2, <3>1, LiveIsInHand
               DEF MoveToFailed, Leave, LiveStates
        <3>2. CASE ~WillRetry(d, u)
            <4>1. FailureIsFinal(attemptsMade[d] + 1, u)
                BY <3>2 DEF WillRetry, FailureIsFinal
            <4>2. QED
                BY <2>1, <2>2, <4>1 DEF HandOver, InHand
        <3>3. QED
            BY <3>1, <3>2
    <2>3. CASE d # job[w]
        BY <1>1, <1>6, <2>1, <2>3
           DEF Throw, MoveToFailed, Leave, HandOver, InHand, Current
    <2>4. QED
        BY <2>2, <2>3
<1>7. QED
    BY <1>2, <1>3, <1>4, <1>5, <1>6
       DEF Worker, TryAcquire, ReadLog, ReadBot, SendAccepted, SendUnheard,
           SendUnreached, SendRejected, MarkSent, MarkFailed, CallFails,
           DelayJob, Return, Throw

LEMMA RecoveryHands ==
    ASSUME Truthful, NEW r \in Recoverers, Recovery(r),
           NEW d \in Deliveries, HandOver(d), faults' = 0
    PROVE  HandOver(d)'
<1> USE DEF Truthful, TypeOK, QueueTypeOK
<1>1. CASE FindStuck(r)
    BY <1>1 DEF FindStuck, HandOver, InHand, Current
<1>2. ASSUME NEW e \in Deliveries, GetJob(r, e) \/ GetState(r, e)
      PROVE  HandOver(d)'
    BY <1>2
       DEF GetJob, GetState, GotoR, Advance, HandOver, InHand, Current
<1>3. ASSUME NEW e \in Deliveries, RemoveJob(r, e) PROVE HandOver(d)'
    <2>1. CASE d = e
        BY <1>3, <2>1 DEF RemoveJob, Remove, GotoR, HandOver, InHand, Current
    <2>2. CASE d # e
        BY <1>3, <2>2 DEF RemoveJob, Remove, GotoR, HandOver, InHand, Current
    <2>3. QED
        BY <2>1, <2>2
<1>4. ASSUME NEW e \in Deliveries, RemoveRejected(r, e) PROVE HandOver(d)'
    BY <1>4, FaultsAssumption DEF RemoveRejected, ProcessDies, Fault
<1>5. ASSUME NEW e \in Deliveries, AddJob(r, e) PROVE HandOver(d)'
    <2>1. ASSUME d # e, InHand(d) PROVE InHand(d)'
        <3>1. d \in intake \cup failing => InHand(d)'
            BY <1>5 DEF AddJob, InHand
        <3>2. jobState[d] \in LiveStates => InHand(d)'
            BY <1>5, <2>1 DEF AddJob, Add, InHand, LiveStates
        <3>3. ASSUME NEW q \in Recoverers, rpc[q] = "add", Current(q, d)
              PROVE  InHand(d)'
            <4>1. q # r
                BY <1>5, <2>1, <3>3, NAssumption, DeliveriesAssumption
                   DEF AddJob, Current
            <4>2. rpc'[q] = "add" /\ Current(q, d)'
                BY <1>5, <3>3, <4>1 DEF AddJob, Advance, Current
            <4>3. QED
                BY <4>2 DEF InHand
        <3>4. QED
            BY <2>1, <3>1, <3>2, <3>3 DEF InHand
    <2>2. QED
        BY <1>5, <2>1, AddHandsOver DEF AddJob
<1>6. QED
    BY <1>1, <1>2, <1>3, <1>4, <1>5 DEF Recovery

LEMMA EnvironmentHands ==
    ASSUME Truthful, Environment, NEW d \in Deliveries, HandOver(d),
           faults' = 0
    PROVE  HandOver(d)'
<1> USE DEF Truthful, TypeOK, QueueTypeOK
<1>1. faults \in Nat
    BY FaultsAssumption
<1>2. ASSUME NEW e \in Deliveries, CreateLog(e) PROVE HandOver(d)'
    BY <1>2
       DEF CreateLog, HandOver, InHand, Current, KnownLogs
<1>3. ASSUME NEW e \in Deliveries, EnqueueJob(e) PROVE HandOver(d)'
    <2>1. ASSUME d # e, InHand(d) PROVE InHand(d)'
        BY <1>3, <2>1 DEF EnqueueJob, Add, InHand, Current
    <2>2. QED
        BY <1>3, <2>1, AddHandsOver DEF EnqueueJob
<1>4. ASSUME NEW e \in Deliveries, OnFailed(e) PROVE HandOver(d)'
    BY <1>4 DEF OnFailed, SetStatus, HandOver, InHand, Current
<1>5. ASSUME NEW e \in Deliveries, EnqueueFails(e) \/ LoseLock(e)
      PROVE  HandOver(d)'
    BY <1>1, <1>5 DEF EnqueueFails, LoseLock, Fault
<1>6. CASE Crash \/ LoseRedis
    BY <1>1, <1>6 DEF Crash, ProcessDies, LoseRedis, Fault
<1>7. ASSUME NEW e \in Deliveries, Upkeep(e) PROVE HandOver(d)'
    <2>1. CASE Promote(e)
        BY <1>7, <2>1
           DEF Upkeep, Promote, HandOver, InHand, Current, LiveStates
    <2>2. CASE Stall(e)
        BY <1>7, <2>2
           DEF Upkeep, Stall, HandOver, InHand, Current, LiveStates
    <2>3. CASE Evict(e)
        <3>1. CASE d = e
            BY <1>7, <2>3, <3>1
               DEF Upkeep, Evict, HandOver, InHand, CompletedMeansSettled
        <3>2. CASE d # e
            BY <1>7, <2>3, <3>2 DEF Upkeep, Evict, HandOver, InHand, Current
        <3>3. QED
            BY <3>1, <3>2
    <2>4. QED
        BY <1>7, <2>1, <2>2, <2>3 DEF Upkeep
<1>8. ASSUME NEW e \in Deliveries, DeleteRule(e) PROVE HandOver(d)'
    BY <1>8, HandsKept DEF DeleteRule
<1>9. CASE Age
    BY <1>9, HandsKept DEF Age
<1>10. QED
    BY <1>2, <1>3, <1>4, <1>5, <1>6, <1>7, <1>8, <1>9 DEF Environment

\* Nothing mends a fault.
LEMMA FaultsOnlyGrow ==
    ASSUME TypeOK, [Next]_vars, faults' = 0 PROVE faults = 0
<1>1. faults \in Nat
    BY FaultsAssumption DEF TypeOK
<1>2. ASSUME NEW w \in Workers, Worker(w) PROVE faults = 0
    BY <1>1, <1>2
       DEF Worker, TakeJob, TryAcquire, ReadLog, ReadBot, SendAccepted,
           SendUnheard, SendUnreached, SendRejected, MarkSent, MarkFailed,
           CallFails, DelayJob, Return, Throw, Fault
<1>3. ASSUME NEW r \in Recoverers, Recovery(r) PROVE faults = 0
    BY <1>1, <1>3
       DEF Recovery, FindStuck, GetJob, GetState, RemoveJob, RemoveRejected,
           AddJob, ProcessDies, Fault
<1>4. CASE Environment
    BY <1>1, <1>4
       DEF Environment, CreateLog, EnqueueJob, EnqueueFails, OnFailed,
           LoseLock, Upkeep, DeleteRule, Age, Crash, ProcessDies, LoseRedis,
           Fault
<1>5. CASE UNCHANGED vars
    BY <1>5 DEF vars
<1>6. QED
    BY <1>2, <1>3, <1>4, <1>5 DEF Next

LEMMA HandledInductive == Spec => []Handled
<1>1. Truthful /\ Handled /\ [Next]_vars => Handled'
    <2> SUFFICES ASSUME Truthful, Handled, [Next]_vars, faults' = 0,
                        NEW d \in Deliveries
                 PROVE  HandOver(d)'
        BY DEF Handled
    <2>1. HandOver(d)
        BY FaultsOnlyGrow DEF Handled, Truthful
    <2>2. LogForward
        BY LogMovesForward DEF Truthful
    <2>3. CASE UNCHANGED vars
        BY <2>1, <2>3, HandsKept DEF vars
    <2>4. QED
        BY <2>1, <2>2, <2>3, WorkerHands, RecoveryHands, EnvironmentHands
           DEF Next
<1>2. QED
    BY HandledInit, TruthfulInductive, <1>1, PTL DEF Spec

\* Until something fails, no PENDING log is forgotten.
THEOREM PendingInHand == Spec => []PendingIsInHand
<1>1. Handled => PendingIsInHand
    BY DEF Handled, HandOver, PendingIsInHand
<1>2. QED
    BY <1>1, HandledInductive, PTL

-----------------------------------------------------------------------------
(***************************************************************************)
(* How often a message may reach its chat: once, and once more for every   *)
(* crash, loss or error.                                                   *)
(*                                                                         *)
(* The inductive invariant is a budget.  For every log, the copies in the  *)
(* chat, the workers that have lost the lock of its job and may still      *)
(* send (its zombies), and one more while a regular attempt may still send *)
(* (the log is not closed) are together at most 1 + faults.  A send spends *)
(* what allowed it; only a fault makes a zombie or reopens a log.          *)
(***************************************************************************)
PreSend == {"tryAcquire", "readLog", "readBot", "sendMessage"}

\* The lock of a job is held by a worker that processes the job.
LocksHeld ==
    \A d \in Deliveries, w \in Workers :
        lock[d] = w => jobState[d] = "active" /\ pc[w] # "idle" /\ job[w] = d

Zombies(d) == {w \in Workers : pc[w] \in PreSend /\ job[w] = d /\ lock[d] # w}

\* No regular attempt will send: its worker has sent and is about to say so,
\* or the log is settled and its worker, if any, has not read it before that.
Closed(d) ==
    \/ \E w \in Workers : lock[d] = w /\ pc[w] = "markSent"
    \/ /\ log[d] \in {"SENT", "deleted"}
       /\ \A w \in Workers :
             lock[d] = w => pc[w] \notin {"readBot", "sendMessage"}

Cost(d) ==
    accepted[d] + Cardinality(Zombies(d)) + (IF Closed(d) THEN 0 ELSE 1)

Budget == \A d \in Deliveries : Cost(d) <= 1 + faults

Frugal == Truthful /\ LocksHeld /\ Budget

(***************************************************************************)
(* The ways a step may change the cost of a log.                           *)
(***************************************************************************)
LEMMA ZombiesFinite ==
    \A d \in Deliveries :
        IsFiniteSet(Zombies(d)) /\ Cardinality(Zombies(d)) \in Nat
<1>1. \A d \in Deliveries : Zombies(d) \in SUBSET Workers
    BY DEF Zombies
<1>2. QED
    BY <1>1, WorkersAssumption, FS_Subset, FS_CardinalityType

LEMMA ZombiesFiniteNext ==
    \A d \in Deliveries :
        IsFiniteSet(Zombies(d)') /\ Cardinality(Zombies(d)') \in Nat
<1>1. \A d \in Deliveries : Zombies(d)' \in SUBSET Workers
    BY DEF Zombies
<1>2. QED
    BY <1>1, WorkersAssumption, FS_Subset, FS_CardinalityType

LEMMA CostUnchanged ==
    ASSUME Frugal, TypeOK', NEW d \in Deliveries,
           Zombies(d)' \subseteq Zombies(d),
           accepted'[d] = accepted[d],
           Closed(d) => Closed(d)',
           faults' >= faults
    PROVE  Cost(d)' <= 1 + faults'
<1>1. Cardinality(Zombies(d)') <= Cardinality(Zombies(d))
    BY ZombiesFinite, FS_Subset
<1>2. QED
    BY <1>1, ZombiesFinite, ZombiesFiniteNext
       DEF Cost, Frugal, Budget, Truthful, TypeOK

LEMMA CostOfZombieSend ==
    ASSUME Frugal, TypeOK', NEW d \in Deliveries, NEW w \in Zombies(d),
           Zombies(d)' \subseteq Zombies(d) \ {w},
           accepted'[d] = accepted[d] + 1,
           Closed(d) => Closed(d)',
           faults' >= faults
    PROVE  Cost(d)' <= 1 + faults'
<1>1. /\ IsFiniteSet(Zombies(d) \ {w})
      /\ Cardinality(Zombies(d) \ {w}) = Cardinality(Zombies(d)) - 1
    BY ZombiesFinite, FS_RemoveElement
<1>2. Cardinality(Zombies(d)') <= Cardinality(Zombies(d)) - 1
    BY <1>1, FS_Subset
<1>3. QED
    BY <1>2, ZombiesFinite, ZombiesFiniteNext
       DEF Cost, Frugal, Budget, Truthful, TypeOK

LEMMA CostOfRegularSend ==
    ASSUME Frugal, TypeOK', NEW d \in Deliveries,
           Zombies(d)' \subseteq Zombies(d),
           accepted'[d] = accepted[d] + 1,
           ~Closed(d), Closed(d)',
           faults' >= faults
    PROVE  Cost(d)' <= 1 + faults'
<1>1. Cardinality(Zombies(d)') <= Cardinality(Zombies(d))
    BY ZombiesFinite, FS_Subset
<1>2. QED
    BY <1>1, ZombiesFinite, ZombiesFiniteNext
       DEF Cost, Frugal, Budget, Truthful, TypeOK

\* A fault pays for one of: a copy, a zombie, a log that is open again.
LEMMA CostOfFault ==
    ASSUME Frugal, TypeOK', NEW d \in Deliveries, faults' = faults + 1,
           \/ /\ Zombies(d)' \subseteq Zombies(d)
              /\ accepted'[d] = accepted[d]
           \/ /\ Zombies(d)' \subseteq Zombies(d)
              /\ accepted'[d] = accepted[d] + 1
              /\ Closed(d) => Closed(d)'
           \/ /\ \E w \in Workers : Zombies(d)' \subseteq Zombies(d) \cup {w}
              /\ accepted'[d] = accepted[d]
              /\ Closed(d) => Closed(d)'
    PROVE  Cost(d)' <= 1 + faults'
<1>1. CASE Zombies(d)' \subseteq Zombies(d)
    <2>1. Cardinality(Zombies(d)') <= Cardinality(Zombies(d))
        BY <1>1, ZombiesFinite, FS_Subset
    <2>2. \/ accepted'[d] = accepted[d]
          \/ accepted'[d] = accepted[d] + 1 /\ (Closed(d) => Closed(d)')
        OBVIOUS
    <2>3. QED
        BY <2>1, <2>2, ZombiesFinite, ZombiesFiniteNext
           DEF Cost, Frugal, Budget, Truthful, TypeOK
<1>2. ASSUME NEW w \in Workers,
             Zombies(d)' \subseteq Zombies(d) \cup {w},
             accepted'[d] = accepted[d],
             Closed(d) => Closed(d)'
      PROVE  Cost(d)' <= 1 + faults'
    <2> DEFINE more == Zombies(d) \cup {w}
    <2>1. /\ IsFiniteSet(more)
          /\ Cardinality(more) = IF w \in Zombies(d) THEN Cardinality(Zombies(d))
                                 ELSE Cardinality(Zombies(d)) + 1
        BY ZombiesFinite, FS_AddElement
    <2>2. Cardinality(Zombies(d)') <= Cardinality(more)
        <3>1. Zombies(d)' \in SUBSET more
            BY <1>2
        <3>2. QED
            BY <2>1, <3>1, FS_Subset
    <2>3. QED
        BY <1>2, <2>1, <2>2, ZombiesFinite, ZombiesFiniteNext
           DEF Cost, Frugal, Budget, Truthful, TypeOK
<1>3. QED
    BY <1>1, <1>2

(***************************************************************************)
(* The locks.                                                              *)
(***************************************************************************)
LEMMA LocksHeldInit == Init => LocksHeld
BY UnlockedAssumption DEF Init, QueueInit, LocksHeld

LEMMA LeaveKeepsLocks ==
    ASSUME TypeOK, LocksHeld, NEW v \in Workers, pc[v] # "idle", Drop(v),
           \/ \E state \in JobStates : Leave(v, job[v], state)
           \/ ~Holds(v, job[v]) /\ UNCHANGED queueVars
    PROVE  LocksHeld'
<1> USE UnlockedAssumption DEF TypeOK, QueueTypeOK, LocksHeld, Drop, Goto
<1>1. ASSUME NEW state \in JobStates, Leave(v, job[v], state) PROVE LocksHeld'
    BY <1>1 DEF Leave, Holds
<1>2. CASE ~Holds(v, job[v]) /\ UNCHANGED queueVars
    BY <1>2 DEF Holds
<1>3. QED
    BY <1>1, <1>2

LEMMA WorkerKeepsLocks ==
    ASSUME TypeOK, LocksHeld, NEW v \in Workers, Worker(v)
    PROVE  LocksHeld'
<1> USE UnlockedAssumption
        DEF TypeOK, QueueTypeOK, LocksHeld, Goto, AtStep, AwaitSteps
<1>1. ASSUME NEW e \in Deliveries, TakeJob(v, e) PROVE LocksHeld'
    BY <1>1 DEF TakeJob, Fetch
<1>3. ASSUME NEW b \in BOOLEAN, TryAcquire(v, b) \/ ReadBot(v, b)
      PROVE  LocksHeld'
    BY <1>3 DEF TryAcquire, ReadBot
<1>4. CASE ReadLog(v)
    BY <1>4 DEF ReadLog, StepForLog
<1>5. CASE SendAccepted(v)
    BY <1>5, ResultOfOk DEF SendAccepted
<1>6. CASE SendUnheard(v) \/ SendUnreached(v)
    BY <1>6, ResultOfTransport DEF SendUnheard, SendUnreached
<1>7. ASSUME NEW a \in Answers, SendRejected(v, a) PROVE LocksHeld'
    BY <1>7, ResultOfAnswer DEF SendRejected
<1>8. CASE MarkSent(v) \/ MarkFailed(v) \/ CallFails(v)
    BY <1>8 DEF MarkSent, MarkFailed, CallFails
<1>9. CASE DelayJob(v)
    BY <1>9, LeaveKeepsLocks DEF DelayJob, MoveToDelayed, JobStates
<1>10. CASE Return(v)
    BY <1>10, LeaveKeepsLocks DEF Return, MoveToCompleted, JobStates
<1>11. CASE Throw(v)
    BY <1>11, LeaveKeepsLocks DEF Throw, MoveToFailed, JobStates
<1>12. QED
    BY <1>1, <1>3, <1>4, <1>5, <1>6, <1>7, <1>8, <1>9, <1>10, <1>11
       DEF Worker

\* Whatever the workers do not do: a job is added, moved or removed without
\* its lock, or the lock is taken away.
LEMMA QueueKeepsLocks ==
    ASSUME TypeOK, LocksHeld,
           UNCHANGED workerVars,
           \A d \in Deliveries :
               \/ lock'[d] = Unlocked
               \/ lock'[d] = lock[d] /\ jobState'[d] = jobState[d]
    PROVE  LocksHeld'
BY UnlockedAssumption DEF LocksHeld

LEMMA AddKeepsLocks ==
    ASSUME TypeOK, LocksHeld, NEW e \in Deliveries, Add(e)
    PROVE  \A d \in Deliveries :
               \/ lock'[d] = Unlocked
               \/ lock'[d] = lock[d] /\ jobState'[d] = jobState[d]
BY UnlockedAssumption DEF LocksHeld, Add, TypeOK, QueueTypeOK

LEMMA DiesKeepsLocks ==
    ASSUME ProcessDies PROVE LocksHeld'
BY UnlockedAssumption DEF ProcessDies, ExpireAllLocks, LocksHeld

LEMMA RecoveryKeepsLocks ==
    ASSUME TypeOK, LocksHeld, NEW r \in Recoverers, Recovery(r)
    PROVE  LocksHeld'
<1>1. CASE FindStuck(r)
    BY <1>1, QueueKeepsLocks DEF FindStuck
<1>2. ASSUME NEW e \in Deliveries, GetJob(r, e) \/ GetState(r, e)
      PROVE  LocksHeld'
    BY <1>2, QueueKeepsLocks DEF GetJob, GetState
<1>3. ASSUME NEW e \in Deliveries, RemoveJob(r, e) PROVE LocksHeld'
    BY <1>3, QueueKeepsLocks
       DEF RemoveJob, Remove, Locked, TypeOK, QueueTypeOK
<1>4. ASSUME NEW e \in Deliveries, RemoveRejected(r, e) PROVE LocksHeld'
    BY <1>4, DiesKeepsLocks DEF RemoveRejected
<1>5. ASSUME NEW e \in Deliveries, AddJob(r, e) PROVE LocksHeld'
    BY <1>5, AddKeepsLocks, QueueKeepsLocks DEF AddJob
<1>6. QED
    BY <1>1, <1>2, <1>3, <1>4, <1>5 DEF Recovery

LEMMA EnvironmentKeepsLocks ==
    ASSUME TypeOK, LocksHeld, Environment
    PROVE  LocksHeld'
<1>1. ASSUME NEW e \in Deliveries,
             CreateLog(e) \/ EnqueueFails(e) \/ OnFailed(e) \/ DeleteRule(e)
      PROVE  LocksHeld'
    BY <1>1, QueueKeepsLocks DEF CreateLog, EnqueueFails, OnFailed, DeleteRule
<1>2. ASSUME NEW e \in Deliveries, EnqueueJob(e) PROVE LocksHeld'
    BY <1>2, AddKeepsLocks, QueueKeepsLocks DEF EnqueueJob
<1>3. ASSUME NEW e \in Deliveries, LoseLock(e) PROVE LocksHeld'
    BY <1>3, QueueKeepsLocks DEF LoseLock, ExpireLock, TypeOK, QueueTypeOK
<1>4. ASSUME NEW e \in Deliveries, Upkeep(e) PROVE LocksHeld'
    <2>1. lock[e] = Unlocked /\ UNCHANGED lock
        BY <1>4
           DEF Upkeep, Promote, Stall, Evict, Locked, LocksHeld, TypeOK,
               QueueTypeOK
    <2>2. \A d \in Deliveries : d # e => jobState'[d] = jobState[d]
        BY <1>4 DEF Upkeep, Promote, Stall, Evict, TypeOK, QueueTypeOK
    <2>3. QED
        BY <1>4, <2>1, <2>2, QueueKeepsLocks DEF Upkeep
<1>5. CASE Age
    BY <1>5, QueueKeepsLocks DEF Age
<1>6. CASE Crash
    BY <1>6, DiesKeepsLocks DEF Crash
<1>7. CASE LoseRedis
    BY <1>7, QueueKeepsLocks DEF LoseRedis, Flush
<1>8. QED
    BY <1>1, <1>2, <1>3, <1>4, <1>5, <1>6, <1>7 DEF Environment

(***************************************************************************)
(* What the steps do to zombies and closed logs.                           *)
(***************************************************************************)
Tidy(d) == Zombies(d)' \subseteq Zombies(d) /\ (Closed(d) => Closed(d)')

\* A worker goes from one call to the next.
LEMMA TidyStep ==
    ASSUME Frugal, LogForward, NEW d \in Deliveries,
           NEW v \in Workers, pc[v] # "idle",
           NEW step \in WorkerSteps, Goto(v, step), UNCHANGED <<lock, job>>,
           step \in PreSend => pc[v] \in PreSend,
           pc[v] = "markSent" => log'[job[v]] \in {"SENT", "deleted"},
           step \in {"readBot", "sendMessage"} =>
               \/ pc[v] \in {"readBot", "sendMessage"}
               \/ log[job[v]] \notin {"SENT", "deleted"}
    PROVE  Tidy(d)
<1> USE DEF Frugal, Truthful, TypeOK, Goto
<1>1. Zombies(d)' \subseteq Zombies(d)
    BY DEF Zombies
<1>2. ASSUME NEW w \in Workers, lock[d] = w, pc[w] = "markSent"
      PROVE  Closed(d)'
    <2>1. CASE w = v
        <3>1. job[v] = d
            BY <1>2, <2>1 DEF LocksHeld
        <3>2. log'[d] \in {"SENT", "deleted"}
            BY <1>2, <2>1, <3>1
        <3>3. \A u \in Workers : lock'[d] = u => u = v
            BY <1>2, <2>1
        <3>4. pc'[v] \notin {"readBot", "sendMessage"}
            BY <1>2, <2>1 DEF PreSend
        <3>5. QED
            BY <3>2, <3>3, <3>4 DEF Closed
    <2>2. CASE w # v
        BY <1>2, <2>2 DEF Closed
    <2>3. QED
        BY <2>1, <2>2
<1>3. ASSUME log[d] \in {"SENT", "deleted"},
             \A w \in Workers :
                 lock[d] = w => pc[w] \notin {"readBot", "sendMessage"}
      PROVE  Closed(d)'
    <2>1. log'[d] \in {"SENT", "deleted"}
        BY <1>3 DEF LogForward
    <2>2. ASSUME NEW w \in Workers, lock'[d] = w
          PROVE  pc'[w] \notin {"readBot", "sendMessage"}
        BY <1>3, <2>2 DEF LocksHeld
    <2>3. QED
        BY <2>1, <2>2 DEF Closed
<1>4. QED
    BY <1>1, <1>2, <1>3 DEF Tidy, Closed

\* A worker takes a job: the job was locked by nobody.
LEMMA TidyTake ==
    ASSUME Frugal, NEW d \in Deliveries, NEW v \in Workers,
           NEW e \in Deliveries, TakeJob(v, e)
    PROVE  Tidy(d)
<1> USE UnlockedAssumption
        DEF Frugal, Truthful, TypeOK, QueueTypeOK, TakeJob, Fetch, Goto, AtStep
<1>1. \A w \in Workers : lock[e] # w
    BY DEF LocksHeld
<1>2. \A f \in Deliveries : lock[f] # v
    BY DEF LocksHeld
<1>3. Zombies(d)' \subseteq Zombies(d)
    BY <1>1 DEF Zombies
<1>4. Closed(d) => Closed(d)'
    <2>1. CASE d = e
        BY <1>1, <2>1 DEF Closed
    <2>2. CASE d # e
        BY <1>2, <2>2 DEF Closed
    <2>3. QED
        BY <2>1, <2>2
<1>5. QED
    BY <1>3, <1>4 DEF Tidy

\* A worker is done with its job and unlocks it.
LEMMA TidyLeave ==
    ASSUME Frugal, NEW d \in Deliveries,
           NEW v \in Workers, pc[v] \notin {"idle", "markSent"}, Drop(v),
           UNCHANGED log,
           \/ \E state \in JobStates : Leave(v, job[v], state)
           \/ ~Holds(v, job[v]) /\ UNCHANGED queueVars
    PROVE  Tidy(d)
<1> USE UnlockedAssumption
        DEF Frugal, Truthful, TypeOK, QueueTypeOK, Drop, Goto
<1>1. job[v] \in Deliveries
    OBVIOUS
<1>2. \/ lock' = [lock EXCEPT ![job[v]] = Unlocked] /\ lock[job[v]] = v
      \/ UNCHANGED lock /\ \A f \in Deliveries : lock[f] # v
    <2>1. ASSUME NEW state \in JobStates, Leave(v, job[v], state)
          PROVE  /\ lock' = [lock EXCEPT ![job[v]] = Unlocked]
                 /\ lock[job[v]] = v
        BY <2>1 DEF Leave, Holds
    <2>2. ASSUME ~Holds(v, job[v]), NEW f \in Deliveries PROVE lock[f] # v
        BY <2>2 DEF Holds, LocksHeld
    <2>3. QED
        BY <2>1, <2>2
<1>3. Zombies(d)' \subseteq Zombies(d)
    BY <1>1, <1>2 DEF Zombies, PreSend
<1>4. \A w \in Workers :
          /\ lock'[d] = w => lock[d] = w /\ pc'[w] = pc[w]
          /\ lock[d] = w /\ w # v => lock'[d] = w
    BY <1>1, <1>2 DEF LocksHeld
<1>5. Closed(d) => Closed(d)'
    BY <1>4 DEF Closed
<1>6. QED
    BY <1>3, <1>5 DEF Tidy

LEMMA WorkerKeepsBudget ==
    ASSUME Frugal, LogForward, TypeOK', NEW v \in Workers, Worker(v),
           NEW d \in Deliveries
    PROVE  Cost(d)' <= 1 + faults'
<1> USE DEF AtStep, PreSend
<1>1. /\ faults \in Nat
      /\ accepted \in [Deliveries -> Nat]
      /\ pc[v] \in WorkerSteps
      /\ pc[v] # "idle" => job[v] \in Deliveries
    BY FaultsAssumption DEF Frugal, Truthful, TypeOK
<1>2. ASSUME NEW e \in Deliveries, TakeJob(v, e) PROVE Cost(d)' <= 1 + faults'
    <2>1. Tidy(d)
        BY <1>2, TidyTake
    <2>2. QED
        BY <1>1, <1>2, <2>1, CostUnchanged DEF Tidy, TakeJob
<1>3. ASSUME NEW b \in BOOLEAN, TryAcquire(v, b) \/ ReadBot(v, b)
      PROVE  Cost(d)' <= 1 + faults'
    <2>1. Tidy(d)
        BY <1>1, <1>3, TidyStep
           DEF TryAcquire, ReadBot, WorkerSteps, AwaitSteps
    <2>2. QED
        BY <1>1, <1>3, <2>1, CostUnchanged DEF Tidy, TryAcquire, ReadBot
<1>4. CASE ReadLog(v)
    <2>1. Tidy(d)
        BY <1>1, <1>4, TidyStep
           DEF ReadLog, StepForLog, WorkerSteps, AwaitSteps, EndSteps
    <2>2. QED
        BY <1>1, <1>4, <2>1, CostUnchanged DEF Tidy, ReadLog
<1>5. CASE SendUnreached(v)
    <2>1. Tidy(d)
        BY <1>1, <1>5, TidyStep, ResultOfTransport
           DEF SendUnreached, WorkerSteps, EndSteps
    <2>2. QED
        BY <1>1, <1>5, <2>1, CostUnchanged DEF Tidy, SendUnreached
<1>6. ASSUME NEW a \in Answers, SendRejected(v, a)
      PROVE  Cost(d)' <= 1 + faults'
    <2>1. Tidy(d)
        BY <1>1, <1>6, TidyStep, ResultOfAnswer
           DEF SendRejected, WorkerSteps, EndSteps, AwaitSteps
    <2>2. QED
        BY <1>1, <1>6, <2>1, CostUnchanged DEF Tidy, SendRejected
<1>7. CASE MarkSent(v)
    <2>1. log'[job[v]] \in {"SENT", "deleted"}
        BY <1>1, <1>7
           DEF MarkSent, SetStatus, Frugal, Truthful, TypeOK, KnownLogs,
               LogStatuses
    <2>2. Tidy(d)
        BY <1>1, <1>7, <2>1, TidyStep DEF MarkSent, WorkerSteps, EndSteps
    <2>3. QED
        BY <1>1, <1>7, <2>2, CostUnchanged DEF Tidy, MarkSent
<1>8. CASE MarkFailed(v)
    <2>1. Tidy(d)
        BY <1>1, <1>8, TidyStep DEF MarkFailed, WorkerSteps, EndSteps
    <2>2. QED
        BY <1>1, <1>8, <2>1, CostUnchanged DEF Tidy, MarkFailed
<1>9. CASE CallFails(v)
    <2>1. Zombies(d)' \subseteq Zombies(d)
        BY <1>1, <1>9
           DEF CallFails, Zombies, Goto, Frugal, Truthful, TypeOK
    <2>2. QED
        BY <1>9, <2>1, CostOfFault DEF CallFails, Fault
<1>10. CASE DelayJob(v) \/ Return(v) \/ Throw(v)
    <2>1. Tidy(d)
        BY <1>10, TidyLeave
           DEF DelayJob, Return, Throw, MoveToDelayed, MoveToCompleted,
               MoveToFailed, JobStates
    <2>2. QED
        BY <1>1, <1>10, <2>1, CostUnchanged DEF Tidy, DelayJob, Return, Throw
<1>11. ASSUME SendAccepted(v) \/ SendUnheard(v), job[v] # d
       PROVE  Cost(d)' <= 1 + faults'
    <2>1. Tidy(d)
        BY <1>1, <1>11, TidyStep, ResultOfOk, ResultOfTransport
           DEF SendAccepted, SendUnheard, WorkerSteps, AwaitSteps, EndSteps
    <2>2. accepted'[d] = accepted[d] /\ faults' >= faults
        BY <1>1, <1>11 DEF SendAccepted, SendUnheard, Accept, Fault
    <2>3. QED
        BY <2>1, <2>2, CostUnchanged DEF Tidy
<1>12. ASSUME SendAccepted(v), job[v] = d PROVE Cost(d)' <= 1 + faults'
    <2>1. accepted'[d] = accepted[d] + 1 /\ faults' >= faults
        BY <1>1, <1>12 DEF SendAccepted, Accept
    <2>2. Tidy(d)
        BY <1>1, <1>12, TidyStep, ResultOfOk
           DEF SendAccepted, WorkerSteps, AwaitSteps
    <2>3. CASE lock[d] = v
        <3>1. ~Closed(d)
            BY <1>12, <2>3 DEF SendAccepted, Closed
        <3>2. Closed(d)'
            BY <1>1, <1>12, <2>3, ResultOfOk
               DEF SendAccepted, Closed, Goto, Frugal, Truthful, TypeOK
        <3>3. QED
            BY <2>1, <2>2, <3>1, <3>2, CostOfRegularSend DEF Tidy
    <2>4. CASE lock[d] # v
        <3>1. v \in Zombies(d)
            BY <1>12, <2>4 DEF SendAccepted, Zombies
        <3>2. Zombies(d)' \subseteq Zombies(d) \ {v}
            BY <1>1, <1>12, <2>2, ResultOfOk
               DEF Tidy, Zombies, SendAccepted, Goto, Frugal, Truthful, TypeOK
        <3>3. QED
            BY <2>1, <2>2, <3>1, <3>2, CostOfZombieSend DEF Tidy
    <2>5. QED
        BY <2>3, <2>4
<1>13. ASSUME SendUnheard(v), job[v] = d PROVE Cost(d)' <= 1 + faults'
    <2>1. accepted'[d] = accepted[d] + 1 /\ faults' = faults + 1
        BY <1>1, <1>13 DEF SendUnheard, Accept, Fault
    <2>2. Tidy(d)
        BY <1>1, <1>13, TidyStep, ResultOfTransport
           DEF SendUnheard, WorkerSteps, EndSteps
    <2>3. QED
        BY <2>1, <2>2, CostOfFault DEF Tidy
<1>14. QED
    BY <1>2, <1>3, <1>4, <1>5, <1>6, <1>7, <1>8, <1>9, <1>10, <1>11, <1>12,
       <1>13 DEF Worker

LEMMA DiesWithinBudget ==
    ASSUME Frugal, TypeOK', NEW d \in Deliveries, ProcessDies
    PROVE  Cost(d)' <= 1 + faults'
<1>1. Zombies(d)' \subseteq Zombies(d)
    BY DEF ProcessDies, Zombies, PreSend
<1>2. QED
    BY <1>1, CostOfFault DEF ProcessDies, Fault

LEMMA RecoveryKeepsBudget ==
    ASSUME Frugal, TypeOK', NEW r \in Recoverers, Recovery(r),
           NEW d \in Deliveries
    PROVE  Cost(d)' <= 1 + faults'
<1>1. faults \in Nat
    BY FaultsAssumption DEF Frugal, Truthful, TypeOK
<1>2. CASE UNCHANGED <<log, pc, job, lock, accepted, faults>>
    BY <1>1, <1>2, CostUnchanged DEF Zombies, Closed
<1>3. ASSUME NEW e \in Deliveries, RemoveRejected(r, e)
      PROVE  Cost(d)' <= 1 + faults'
    BY <1>3, DiesWithinBudget DEF RemoveRejected
<1>4. QED
    BY <1>2, <1>3
       DEF Recovery, FindStuck, GetJob, GetState, RemoveJob, Remove, AddJob,
           Add

LEMMA EnvironmentKeepsBudget ==
    ASSUME Frugal, LogForward, TypeOK', Environment, NEW d \in Deliveries
    PROVE  Cost(d)' <= 1 + faults'
<1>1. faults \in Nat
    BY FaultsAssumption DEF Frugal, Truthful, TypeOK
<1>2. CASE UNCHANGED <<pc, job, lock, accepted, faults>>
    <2>1. Tidy(d)
        BY <1>2 DEF Tidy, Zombies, Closed, LogForward
    <2>2. QED
        BY <1>1, <1>2, <2>1, CostUnchanged DEF Tidy
<1>3. ASSUME NEW e \in Deliveries, EnqueueFails(e)
      PROVE  Cost(d)' <= 1 + faults'
    BY <1>1, <1>3, CostOfFault DEF EnqueueFails, Fault, Zombies
\* A lock that is lost makes a zombie of a worker that has not sent yet, and
\* reopens the log of one that has.
<1>4. ASSUME lock'[d] \in {lock[d], Unlocked}, faults' = faults + 1,
             UNCHANGED <<log, pc, job, accepted>>
      PROVE  Cost(d)' <= 1 + faults'
    <2>1. CASE \E w \in Workers : lock[d] = w /\ pc[w] = "markSent"
        <3>1. Zombies(d)' \subseteq Zombies(d)
            BY <1>4, <2>1 DEF Zombies, PreSend
        <3>2. QED
            BY <1>4, <3>1, CostOfFault
    <2>2. CASE ~ \E w \in Workers : lock[d] = w /\ pc[w] = "markSent"
        <3>1. Closed(d) => Closed(d)'
            BY <1>4, <2>2, UnlockedAssumption DEF Closed
        <3>2. CASE lock[d] \in Workers
            <4>1. Zombies(d)' \subseteq Zombies(d) \cup {lock[d]}
                BY <1>4 DEF Zombies
            <4>2. QED
                BY <1>4, <3>1, <3>2, <4>1, CostOfFault
        <3>3. CASE lock[d] \notin Workers
            <4>1. Zombies(d)' \subseteq Zombies(d)
                BY <1>4, <3>3 DEF Zombies
            <4>2. QED
                BY <1>4, <4>1, CostOfFault
        <3>4. QED
            BY <3>2, <3>3
    <2>3. QED
        BY <2>1, <2>2
<1>5. ASSUME NEW e \in Deliveries, LoseLock(e) PROVE Cost(d)' <= 1 + faults'
    BY <1>4, <1>5
       DEF LoseLock, ExpireLock, Fault, Frugal, Truthful, TypeOK, QueueTypeOK
<1>6. CASE LoseRedis
    BY <1>4, <1>6 DEF LoseRedis, Flush, Fault
<1>7. CASE Crash
    BY <1>7, DiesWithinBudget DEF Crash
<1>8. ASSUME NEW e \in Deliveries, Upkeep(e) PROVE Cost(d)' <= 1 + faults'
    BY <1>2, <1>8 DEF Upkeep, Promote, Stall, Evict
<1>9. ASSUME NEW e \in Deliveries,
             CreateLog(e) \/ EnqueueJob(e) \/ OnFailed(e) \/ DeleteRule(e)
      PROVE  Cost(d)' <= 1 + faults'
    BY <1>2, <1>9 DEF CreateLog, EnqueueJob, Add, OnFailed, DeleteRule
<1>10. CASE Age
    BY <1>2, <1>10 DEF Age
<1>11. QED
    BY <1>3, <1>5, <1>6, <1>7, <1>8, <1>9, <1>10 DEF Environment

LEMMA FrugalInit == Init => Frugal
<1> SUFFICES ASSUME Init PROVE Frugal
    OBVIOUS
<1>1. ASSUME NEW d \in Deliveries PROVE Cost(d) <= 1 + faults
    <2>1. Zombies(d) = {}
        BY DEF Init, Zombies, PreSend
    <2>2. QED
        BY <2>1, FS_EmptySet DEF Init, Cost
<1>2. QED
    BY <1>1, TruthfulInit, LocksHeldInit DEF Frugal, Budget

LEMMA FrugalInductive == Spec => []Frugal
<1>1. Frugal /\ Truthful' /\ [Next]_vars => Frugal'
    <2> SUFFICES ASSUME Frugal, Truthful', [Next]_vars PROVE Frugal'
        OBVIOUS
    <2>1. LogForward
        BY LogMovesForward DEF Frugal, Truthful
    <2>2. LocksHeld'
        <3>1. CASE UNCHANGED vars
            BY <3>1 DEF vars, Frugal, LocksHeld
        <3>2. QED
            BY <3>1, WorkerKeepsLocks, RecoveryKeepsLocks,
               EnvironmentKeepsLocks DEF Next, Frugal, Truthful
    <2>3. ASSUME NEW d \in Deliveries PROVE Cost(d)' <= 1 + faults'
        <3>1. CASE UNCHANGED vars
            BY <3>1 DEF vars, Frugal, Budget, Cost, Zombies, Closed
        <3>2. QED
            BY <2>1, <3>1, WorkerKeepsBudget, RecoveryKeepsBudget,
               EnvironmentKeepsBudget DEF Next, Truthful
    <2>4. QED
        BY <2>2, <2>3 DEF Frugal, Budget
<1>2. QED
    BY FrugalInit, TruthfulInductive, <1>1, PTL DEF Spec

\* A message reaches its chat at most once, plus once for every crash, loss
\* or error, whatever the number of workers and of overlapping recoveries.
THEOREM OnceAndOncePerFault == Spec => []OneCopyPerFault
<1>1. Frugal => OneCopyPerFault
    <2> SUFFICES ASSUME Frugal, NEW d \in Deliveries
                 PROVE  accepted[d] <= 1 + faults
        BY DEF OneCopyPerFault
    <2>1. Cost(d) <= 1 + faults
        BY DEF Frugal, Budget
    <2>2. accepted[d] \in Nat /\ faults \in Nat
        BY FaultsAssumption DEF Frugal, Truthful, TypeOK
    <2>3. QED
        BY <2>1, <2>2, ZombiesFinite DEF Cost
<1>2. QED
    BY <1>1, FrugalInductive, PTL
=============================================================================
