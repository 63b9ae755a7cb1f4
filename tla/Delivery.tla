------------------------------ MODULE Delivery ------------------------------
(***************************************************************************)
(* One notification log from its creation to its last status: the intake   *)
(* that creates the log and enqueues its job, the TelegramProcessor that   *)
(* sends it, its onFailed handler, and the PendingDeliveryRecoveryService  *)
(* that requeues what was lost.  One action per awaited call, so that      *)
(* workers, handlers and recovery runs interleave wherever the Node event  *)
(* loop lets them.  The limiter's and the bot's answers are left open.     *)
(***************************************************************************)
EXTENDS JobQueue, TelegramErrors, FiniteSets

CONSTANTS
    N,              \* number of deliveries; 1..N in the order of createdAt
    Recoverers,     \* recover() runs that may overlap
    BatchSize,      \* take: 50
    MaxFaults,      \* bound: crashes, losses and errors in a behaviour
    Answers         \* the error answers of Telegram that are explored

ASSUME NAssumption == N \in Nat \ {0}
ASSUME WorkersAssumption == IsFiniteSet(Workers)
ASSUME DeliveriesAssumption == Deliveries = 1..N
ASSUME BatchAssumption == BatchSize \in Nat \ {0}
ASSUME FaultsAssumption == MaxFaults \in Nat
ASSUME AnswersAssumption == Answers \subseteq ErrorAnswers

VARIABLES
    log,        \* status of each notification log; "deleted" with its rule
    aged,       \* the logs 1..aged are older than STUCK_AFTER_MS
    intake,     \* logs created by a request that has not yet enqueued the job
    pc, job,    \* the call each worker awaits, and the job it processes
    failing,    \* logs for which an onFailed handler awaits its update
    rpc, todo,  \* the call each recover() awaits, and the logs it has left
    accepted,   \* how many copies of the message Telegram has accepted
    faults      \* crashes, losses and errors so far

workerVars == <<pc, job>>
recoveryVars == <<rpc, todo>>
vars == <<log, aged, intake, queueVars, workerVars, failing, recoveryVars,
          accepted, faults>>

NoJob == 0

\* The calls process() awaits, then the three ways it may end.
AwaitSteps == {"tryAcquire", "readLog", "readBot", "sendMessage", "markSent",
               "markFailed", "moveToDelayed"}
EndSteps == {"return", "throw", "throwUnrecoverable"}
WorkerSteps == {"idle"} \cup AwaitSteps \cup EndSteps

RecoverySteps == {"idle", "getJob", "getState", "remove", "add"}

LogStatuses == {"none", "PENDING", "SENT", "FAILED", "deleted"}

\* Every variable has a value the code can give it.
TypeOK ==
    /\ QueueTypeOK
    /\ log \in [Deliveries -> LogStatuses]
    /\ aged \in 0..N
    /\ intake \subseteq Deliveries
    /\ pc \in [Workers -> WorkerSteps]
    /\ job \in [Workers -> Deliveries \cup {NoJob}]
    /\ \A w \in Workers : pc[w] # "idle" => job[w] \in Deliveries
    /\ failing \subseteq Deliveries
    /\ rpc \in [Recoverers -> RecoverySteps]
    /\ todo \in [Recoverers -> SUBSET Deliveries]
    /\ accepted \in [Deliveries -> Nat]
    /\ faults \in 0..MaxFaults

Init ==
    /\ QueueInit
    /\ log = [d \in Deliveries |-> "none"]
    /\ aged = 0
    /\ intake = {}
    /\ pc = [w \in Workers |-> "idle"]
    /\ job = [w \in Workers |-> NoJob]
    /\ failing = {}
    /\ rpc = [r \in Recoverers |-> "idle"]
    /\ todo = [r \in Recoverers |-> {}]
    /\ accepted = [d \in Deliveries |-> 0]
    /\ faults = 0

Created(d) == log[d] \notin {"none", "deleted"}

Fault == faults < MaxFaults /\ faults' = faults + 1

-----------------------------------------------------------------------------
(***************************************************************************)
(* EventsService.handle, as far as one log goes.                           *)
(***************************************************************************)
CreateLog(d) ==
    /\ log[d] = "none"
    /\ \A e \in Deliveries : e < d => log[e] # "none"
    /\ log' = [log EXCEPT ![d] = "PENDING"]
    /\ intake' = intake \cup {d}
    /\ UNCHANGED <<aged, queueVars, workerVars, failing, recoveryVars,
                   accepted, faults>>

EnqueueJob(d) ==
    /\ d \in intake
    /\ Add(d)
    /\ intake' = intake \ {d}
    /\ UNCHANGED <<log, aged, workerVars, failing, recoveryVars, accepted,
                   faults>>

\* queue.add rejects: the request ends with a 500, the log stays PENDING.
EnqueueFails(d) ==
    /\ d \in intake
    /\ Fault
    /\ intake' = intake \ {d}
    /\ UNCHANGED <<log, aged, queueVars, workerVars, failing, recoveryVars,
                   accepted>>

-----------------------------------------------------------------------------
(***************************************************************************)
(* TelegramProcessor.process.                                              *)
(***************************************************************************)
Goto(w, step) == pc' = [pc EXCEPT ![w] = step]

AtStep(w, step) == pc[w] = step

\* The part of the state the processor's own awaits leave alone.
OutsideWorker == <<aged, intake, failing, recoveryVars>>

\* Mutant: the update by id alone, without `status: { not: SENT }`.
SetStatusOfSent(d, status) ==
    IF log[d] = "deleted" THEN log ELSE [log EXCEPT ![d] = status]

\* updateMany where the id matches and the status is not SENT.
SetStatus(d, status) ==
    IF log[d] \in {"PENDING", "FAILED"}
    THEN [log EXCEPT ![d] = status]
    ELSE log

TakeJob(w, d) ==
    /\ AtStep(w, "idle")
    /\ Fetch(w, d)
    /\ job' = [job EXCEPT ![w] = d]
    /\ Goto(w, IF StalledTooOften(d) THEN "throwUnrecoverable"
                                     ELSE "tryAcquire")
    /\ UNCHANGED <<OutsideWorker, log, accepted, faults>>

TryAcquire(w, allowed) ==
    /\ AtStep(w, "tryAcquire")
    /\ Goto(w, IF allowed THEN "readLog" ELSE "moveToDelayed")
    /\ UNCHANGED <<OutsideWorker, log, queueVars, job, accepted, faults>>

\* Mutant: no early return for a log that is SENT already.
StepForLogAlways(status) ==
    IF status = "deleted" THEN "throwUnrecoverable" ELSE "readBot"

StepForLog(status) ==
    CASE status = "SENT" -> "return"
      [] status = "deleted" -> "throwUnrecoverable"
      [] OTHER -> "readBot"

ReadLog(w) ==
    /\ AtStep(w, "readLog")
    /\ Goto(w, StepForLog(log[job[w]]))
    /\ UNCHANGED <<OutsideWorker, log, queueVars, job, accepted, faults>>

ReadBot(w, usable) ==
    /\ AtStep(w, "readBot")
    /\ Goto(w, IF usable THEN "sendMessage" ELSE "markFailed")
    /\ UNCHANGED <<OutsideWorker, log, queueVars, job, accepted, faults>>

\* Mutants: whatever will not be retried counts as sent; the last throw of
\* process() is missing.
StepForResultHopeful(result) ==
    IF result.retryable THEN "throw" ELSE "markSent"

StepForResultSilent(result) ==
    IF result.ok THEN "markSent"
    ELSE IF ~result.retryable THEN "markFailed"
    ELSE IF result.retryAfterMs > 0 THEN "moveToDelayed"
    ELSE "return"

StepForResult(result) ==
    IF result.ok THEN "markSent"
    ELSE IF ~result.retryable THEN "markFailed"
    ELSE IF result.retryAfterMs > 0 THEN "moveToDelayed"
    ELSE "throw"

Accept(d) == accepted' = [accepted EXCEPT ![d] = @ + 1]

SendAccepted(w) ==
    /\ AtStep(w, "sendMessage")
    /\ Accept(job[w])
    /\ Goto(w, StepForResult(Ok))
    /\ UNCHANGED <<OutsideWorker, log, queueVars, job, faults>>

\* Telegram accepts the message, the answer is lost or later than 10 s.
SendUnheard(w) ==
    /\ AtStep(w, "sendMessage")
    /\ Fault
    /\ Accept(job[w])
    /\ Goto(w, StepForResult(classifyTransportFailure))
    /\ UNCHANGED <<OutsideWorker, log, queueVars, job>>

SendRejected(w, answer) ==
    /\ AtStep(w, "sendMessage")
    /\ Goto(w, StepForResult(classifyTelegramFailure(answer)))
    /\ UNCHANGED <<OutsideWorker, log, queueVars, job, accepted, faults>>

SendUnreached(w) ==
    /\ AtStep(w, "sendMessage")
    /\ Goto(w, StepForResult(classifyTransportFailure))
    /\ UNCHANGED <<OutsideWorker, log, queueVars, job, accepted, faults>>

MarkSent(w) ==
    /\ AtStep(w, "markSent")
    /\ log' = SetStatus(job[w], "SENT")
    /\ Goto(w, "return")
    /\ UNCHANGED <<OutsideWorker, queueVars, job, accepted, faults>>

MarkFailed(w) ==
    /\ AtStep(w, "markFailed")
    /\ log' = SetStatus(job[w], "FAILED")
    /\ Goto(w, "throwUnrecoverable")
    /\ UNCHANGED <<OutsideWorker, queueVars, job, accepted, faults>>

\* A database or Redis call of process() rejects; a write it asked for may
\* have been applied nevertheless.
CallFails(w) ==
    /\ pc[w] \in AwaitSteps \ {"sendMessage"}
    /\ Fault
    /\ \/ UNCHANGED log
       \/ AtStep(w, "markSent") /\ log' = SetStatus(job[w], "SENT")
       \/ AtStep(w, "markFailed") /\ log' = SetStatus(job[w], "FAILED")
    /\ Goto(w, "throw")
    /\ UNCHANGED <<OutsideWorker, queueVars, job, accepted>>

-----------------------------------------------------------------------------
(***************************************************************************)
(* How the worker leaves the job.  Without the lock none of the moves has  *)
(* an effect: the worker reports an error and takes another job.           *)
(***************************************************************************)
\* Mutant: process() runs on after the job has been moved away.
DropJobOnly(w) ==
    /\ job' = [job EXCEPT ![w] = NoJob]
    /\ UNCHANGED pc

Drop(w) ==
    /\ Goto(w, "idle")
    /\ job' = [job EXCEPT ![w] = NoJob]

\* delayJob: moveToDelayed, then DelayedError, which moves nothing more.
DelayJob(w) ==
    /\ AtStep(w, "moveToDelayed")
    /\ IF Holds(w, job[w]) THEN MoveToDelayed(w, job[w])
                           ELSE UNCHANGED queueVars
    /\ Drop(w)
    /\ UNCHANGED <<OutsideWorker, log, accepted, faults>>

Return(w) ==
    /\ AtStep(w, "return")
    /\ IF Holds(w, job[w]) THEN MoveToCompleted(w, job[w])
                           ELSE UNCHANGED queueVars
    /\ Drop(w)
    /\ UNCHANGED <<OutsideWorker, log, accepted, faults>>

\* Mutant: off by one at the last attempt.
FailureIsFinalLate(attempts, unrecoverable) ==
    ~(attempts <= MaxAttempts /\ ~unrecoverable)

\* The early return of onFailed, for a job that has made so many attempts.
FailureIsFinal(attempts, unrecoverable) ==
    ~(attempts < MaxAttempts /\ ~unrecoverable)

\* BullMQ counts the attempt, moves the job and emits 'failed'; the handler
\* runs up to its updateMany.  Calls pending for one log are merged.
Throw(w) ==
    LET d == job[w]
        unrecoverable == AtStep(w, "throwUnrecoverable")
    IN  /\ pc[w] \in {"throw", "throwUnrecoverable"}
        /\ IF Holds(w, d)
           THEN /\ MoveToFailed(w, d, unrecoverable)
                /\ failing' = IF FailureIsFinal(attemptsMade[d] + 1,
                                                unrecoverable)
                              THEN failing \cup {d} ELSE failing
           ELSE UNCHANGED <<queueVars, failing>>
        /\ Drop(w)
        /\ UNCHANGED <<log, aged, intake, recoveryVars, accepted, faults>>

OnFailed(d) ==
    /\ d \in failing
    /\ failing' = failing \ {d}
    /\ log' = SetStatus(d, "FAILED")
    /\ UNCHANGED <<aged, intake, queueVars, workerVars, recoveryVars,
                   accepted, faults>>

-----------------------------------------------------------------------------
(***************************************************************************)
(* PendingDeliveryRecoveryService.recover.                                 *)
(***************************************************************************)
LiveStates == {"waiting", "active", "delayed"}

\* Mutant: only a job that is gone is requeued, not one that failed.
RequeueAbsentOnly(state) == state = "absent"

\* An absent job makes getState answer 'unknown'.
shouldRequeueStuckJob(state) == state \notin LiveStates

Stuck == {d \in Deliveries : log[d] = "PENDING" /\ d <= aged}

Batch == {d \in Stuck : Cardinality({e \in Stuck : e < d}) < BatchSize}

\* d is the log the for loop of r has come to.
Current(r, d) == d \in todo[r] /\ \A e \in todo[r] : d <= e

Advance(r, d) ==
    /\ todo' = [todo EXCEPT ![r] = @ \ {d}]
    /\ rpc' = [rpc EXCEPT ![r] = IF todo[r] = {d} THEN "idle" ELSE "getJob"]

GotoR(r, step) == rpc' = [rpc EXCEPT ![r] = step] /\ UNCHANGED todo

OutsideRecovery == <<log, aged, intake, workerVars, failing, accepted>>

FindStuck(r) ==
    /\ rpc[r] = "idle"
    /\ Batch # {}
    /\ todo' = [todo EXCEPT ![r] = Batch]
    /\ rpc' = [rpc EXCEPT ![r] = "getJob"]
    /\ UNCHANGED <<OutsideRecovery, queueVars, faults>>

GetJob(r, d) ==
    /\ rpc[r] = "getJob"
    /\ Current(r, d)
    /\ GotoR(r, IF jobState[d] = "absent" THEN "add" ELSE "getState")
    /\ UNCHANGED <<OutsideRecovery, queueVars, faults>>

GetState(r, d) ==
    /\ rpc[r] = "getState"
    /\ Current(r, d)
    /\ IF shouldRequeueStuckJob(jobState[d]) THEN GotoR(r, "remove")
                                             ELSE Advance(r, d)
    /\ UNCHANGED <<OutsideRecovery, queueVars, faults>>

RemoveJob(r, d) ==
    /\ rpc[r] = "remove"
    /\ Current(r, d)
    /\ Remove(d)
    /\ GotoR(r, "add")
    /\ UNCHANGED <<OutsideRecovery, faults>>

AddJob(r, d) ==
    /\ rpc[r] = "add"
    /\ Current(r, d)
    /\ Add(d)
    /\ Advance(r, d)
    /\ UNCHANGED <<OutsideRecovery, faults>>

-----------------------------------------------------------------------------
(***************************************************************************)
(* The end of the process, and what the rest of the world does.            *)
(***************************************************************************)
\* Everything in the memory of the process is gone, its locks expire.
ProcessDies ==
    /\ Fault
    /\ ExpireAllLocks
    /\ pc' = [w \in Workers |-> "idle"]
    /\ job' = [w \in Workers |-> NoJob]
    /\ rpc' = [r \in Recoverers |-> "idle"]
    /\ todo' = [r \in Recoverers |-> {}]
    /\ intake' = {}
    /\ failing' = {}
    /\ UNCHANGED <<log, aged, accepted>>

Crash == ProcessDies

\* remove() of a job that is locked by now rejects; nothing catches it, as
\* recover() is started with `void`, and Node ends the process.
RemoveRejected(r, d) ==
    /\ rpc[r] = "remove"
    /\ Current(r, d)
    /\ Locked(d)
    /\ ProcessDies

LoseLock(d) ==
    /\ Fault
    /\ ExpireLock(d)
    /\ UNCHANGED <<log, aged, intake, workerVars, failing, recoveryVars,
                   accepted>>

LoseRedis ==
    /\ Fault
    /\ Flush
    /\ UNCHANGED <<log, aged, intake, workerVars, failing, recoveryVars,
                   accepted>>

Upkeep(d) ==
    /\ Promote(d) \/ Stall(d) \/ Evict(d)
    /\ UNCHANGED <<log, aged, intake, workerVars, failing, recoveryVars,
                   accepted, faults>>

Age ==
    /\ aged < N
    /\ log[aged + 1] # "none"
    /\ aged' = aged + 1
    /\ UNCHANGED <<log, intake, queueVars, workerVars, failing, recoveryVars,
                   accepted, faults>>

\* An admin deletes the routing rule; its logs go with it (onDelete: Cascade).
DeleteRule(d) ==
    /\ Created(d)
    /\ log' = [log EXCEPT ![d] = "deleted"]
    /\ UNCHANGED <<aged, intake, queueVars, workerVars, failing, recoveryVars,
                   accepted, faults>>

-----------------------------------------------------------------------------
Worker(w) ==
    \/ \E d \in Deliveries : TakeJob(w, d)
    \/ \E b \in BOOLEAN : TryAcquire(w, b) \/ ReadBot(w, b)
    \/ ReadLog(w)
    \/ SendAccepted(w) \/ SendUnheard(w) \/ SendUnreached(w)
    \/ \E a \in Answers : SendRejected(w, a)
    \/ MarkSent(w) \/ MarkFailed(w) \/ CallFails(w)
    \/ DelayJob(w) \/ Return(w) \/ Throw(w)

Recovery(r) ==
    \/ FindStuck(r)
    \/ \E d \in Deliveries :
          \/ GetJob(r, d) \/ GetState(r, d) \/ RemoveJob(r, d)
          \/ RemoveRejected(r, d) \/ AddJob(r, d)

Environment ==
    \/ \E d \in Deliveries :
          \/ CreateLog(d) \/ EnqueueJob(d) \/ EnqueueFails(d) \/ OnFailed(d)
          \/ LoseLock(d) \/ Upkeep(d) \/ DeleteRule(d)
    \/ Age \/ Crash \/ LoseRedis

Next ==
    \/ \E w \in Workers : Worker(w)
    \/ \E r \in Recoverers : Recovery(r)
    \/ Environment

Spec == Init /\ [][Next]_vars

-----------------------------------------------------------------------------
(***************************************************************************)
(* Fairness.  The event loop runs every awaited call to its answer; BullMQ *)
(* promotes delayed jobs, finds stalled ones and hands out waiting jobs in *)
(* FIFO order; the interval starts recover() again and again.  A job that  *)
(* comes back to the limiter or to Telegram for ever is let through once:  *)
(* the limiter's window is reset every second, and Telegram's flood wait   *)
(* ends.  No crash, loss or error is ever obliged to happen.               *)
(***************************************************************************)
Throttling(answer) ==
    StepForResult(classifyTelegramFailure(answer)) = "moveToDelayed"

Decisive(w) ==
    \/ SendAccepted(w) \/ SendUnreached(w)
    \/ \E a \in Answers : ~Throttling(a) /\ SendRejected(w, a)

Continue(w) ==
    \/ \E b \in BOOLEAN : TryAcquire(w, b) \/ ReadBot(w, b)
    \/ ReadLog(w)
    \/ SendAccepted(w) \/ SendUnreached(w)
    \/ \E a \in Answers : SendRejected(w, a)
    \/ MarkSent(w) \/ MarkFailed(w)
    \/ DelayJob(w) \/ Return(w) \/ Throw(w)

Fairness ==
    /\ \A w \in Workers : WF_vars(Continue(w))
    /\ \A r \in Recoverers : WF_vars(Recovery(r))
    /\ \A d \in Deliveries :
          /\ SF_vars(\E w \in Workers : TakeJob(w, d))
          /\ SF_vars(\E w \in Workers : job[w] = d /\ TryAcquire(w, TRUE))
          /\ SF_vars(\E w \in Workers : job[w] = d /\ Decisive(w))
          /\ WF_vars(EnqueueJob(d))
          /\ WF_vars(OnFailed(d))
          /\ WF_vars((Promote(d) \/ Stall(d)) /\ Upkeep(d))
    /\ WF_vars(Age)

FairSpec == Spec /\ Fairness

-----------------------------------------------------------------------------
(***************************************************************************)
(* Properties.                                                             *)
(***************************************************************************)
\* A log says SENT only when Telegram has accepted at least one copy of the
\* message: updateMany to SENT is reached from `sent.ok` alone.
SentMeansAccepted ==
    \A d \in Deliveries : log[d] = "SENT" => accepted[d] >= 1

\* Without faults a message reaches the chat at most once, and each crash,
\* loss or lost answer costs at most one more copy: requeueing a stale batch,
\* overlapping recoveries and the attempts of one job never repeat a message
\* that was confirmed.
OneCopyPerFault == \A d \in Deliveries : accepted[d] <= 1 + faults

\* The queue calls a job completed only after its log is SENT, or gone with
\* its rule: process() returns normally in no other case.
CompletedMeansSettled ==
    \A d \in Deliveries :
        jobState[d] = "completed" => log[d] \in {"SENT", "deleted"}

\* No late handler, no second worker and no recovery takes SENT back.
SentIsFinal ==
    [][\A d \in Deliveries :
          log[d] = "SENT" => log'[d] \in {"SENT", "deleted"}]_vars

\* As long as nothing has failed, a PENDING log is in somebody's hands: the
\* request that created it, a live job, the handler of its failed job, or the
\* recovery that is about to add its job again.
InHand(d) ==
    \/ d \in intake \cup failing
    \/ jobState[d] \in LiveStates
    \/ \E r \in Recoverers : rpc[r] = "add" /\ Current(r, d)

PendingIsInHand ==
    faults = 0 => \A d \in Deliveries : log[d] = "PENDING" => InHand(d)

\* Every PENDING log is settled in the end, whatever was lost on the way: a
\* job that never was added, a crash, an expired lock, an empty Redis.
PendingIsSettled ==
    \A d \in Deliveries : log[d] = "PENDING" ~> log[d] # "PENDING"

-----------------------------------------------------------------------------
(***************************************************************************)
(* What docs/integration.md:121-128 says of the life of a log, and the     *)
(* code does not keep.                                                     *)
(***************************************************************************)
\* FAILED is an end: nothing follows it in the documented life cycle.
FailedIsFinal ==
    [][\A d \in Deliveries :
          log[d] = "FAILED" => log'[d] \in {"FAILED", "deleted"}]_vars
=============================================================================
