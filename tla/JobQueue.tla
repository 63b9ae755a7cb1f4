------------------------------ MODULE JobQueue ------------------------------
(***************************************************************************)
(* The BullMQ queue "telegram-send" as the hub uses it.  BullMQ itself is  *)
(* an external library: each operator below is one atomic Redis script,    *)
(* described by its effect on the jobs the hub put there.  A job is named  *)
(* by the notification log it carries (jobId = log.id), so the queue is a  *)
(* function of the deliveries.  The options that shape it (attempts,       *)
(* backoff, eviction) come from src/src/queue/queue.module.ts.             *)
(***************************************************************************)
EXTENDS Naturals

CONSTANTS
    Deliveries,     \* the jobs, each named by its notification log
    Workers,        \* the slots of the processor (concurrency: 3)
    MaxAttempts,    \* defaultJobOptions.attempts (8)
    MaxStalled,     \* BullMQ's maxStalledCount, its default of 1
    Unlocked        \* no worker holds the lock of the job

ASSUME AttemptsAssumption == MaxAttempts \in Nat \ {0}
ASSUME StalledAssumption == MaxStalled \in Nat
ASSUME UnlockedAssumption == Unlocked \notin Workers

VARIABLES
    jobState,       \* where each job is, "absent" when the queue has none
    attemptsMade,   \* job.attemptsMade
    stalls,         \* how often the job was found active without a lock
    lock            \* the worker whose token locks the job

queueVars == <<jobState, attemptsMade, stalls, lock>>

JobStates == {"absent", "waiting", "active", "delayed", "completed", "failed"}

QueueTypeOK ==
    /\ jobState \in [Deliveries -> JobStates]
    /\ attemptsMade \in [Deliveries -> Nat]
    /\ stalls \in [Deliveries -> Nat]
    /\ lock \in [Deliveries -> Workers \cup {Unlocked}]

QueueInit ==
    /\ jobState = [d \in Deliveries |-> "absent"]
    /\ attemptsMade = [d \in Deliveries |-> 0]
    /\ stalls = [d \in Deliveries |-> 0]
    /\ lock = [d \in Deliveries |-> Unlocked]

Locked(d) == lock[d] # Unlocked

Holds(w, d) == jobState[d] = "active" /\ lock[d] = w

(***************************************************************************)
(* The client side: add and remove.  Adding a job whose id the queue still *)
(* knows, in whatever state, is ignored.                                   *)
(***************************************************************************)
Add(d) ==
    IF jobState[d] = "absent"
    THEN /\ jobState' = [jobState EXCEPT ![d] = "waiting"]
         /\ attemptsMade' = [attemptsMade EXCEPT ![d] = 0]
         /\ stalls' = [stalls EXCEPT ![d] = 0]
         /\ UNCHANGED lock
    ELSE UNCHANGED queueVars

\* Removing an absent job does nothing; a locked one cannot be removed.
Remove(d) ==
    /\ ~Locked(d)
    /\ jobState' = [jobState EXCEPT ![d] = "absent"]
    /\ UNCHANGED <<attemptsMade, stalls, lock>>

(***************************************************************************)
(* The worker side.  Every move of an active job needs its lock.           *)
(***************************************************************************)
Fetch(w, d) ==
    /\ jobState[d] = "waiting"
    /\ jobState' = [jobState EXCEPT ![d] = "active"]
    /\ lock' = [lock EXCEPT ![d] = w]
    /\ UNCHANGED <<attemptsMade, stalls>>

Leave(w, d, state) ==
    /\ Holds(w, d)
    /\ jobState' = [jobState EXCEPT ![d] = state]
    /\ lock' = [lock EXCEPT ![d] = Unlocked]
    /\ UNCHANGED stalls

MoveToCompleted(w, d) == Leave(w, d, "completed") /\ UNCHANGED attemptsMade

\* Job.moveToDelayed does not count an attempt.
MoveToDelayed(w, d) == Leave(w, d, "delayed") /\ UNCHANGED attemptsMade

WillRetry(d, unrecoverable) ==
    attemptsMade[d] + 1 < MaxAttempts /\ ~unrecoverable

\* A retry waits out its exponential backoff among the delayed jobs.
MoveToFailed(w, d, unrecoverable) ==
    /\ Leave(w, d, IF WillRetry(d, unrecoverable) THEN "delayed" ELSE "failed")
    /\ attemptsMade' = [attemptsMade EXCEPT ![d] = @ + 1]

(***************************************************************************)
(* The queue's own upkeep.                                                 *)
(***************************************************************************)
Promote(d) ==
    /\ jobState[d] = "delayed"
    /\ jobState' = [jobState EXCEPT ![d] = "waiting"]
    /\ UNCHANGED <<attemptsMade, stalls, lock>>

Stall(d) ==
    /\ jobState[d] = "active"
    /\ ~Locked(d)
    /\ jobState' = [jobState EXCEPT ![d] = "waiting"]
    /\ stalls' = [stalls EXCEPT ![d] = @ + 1]
    /\ UNCHANGED <<attemptsMade, lock>>

StalledTooOften(d) == stalls[d] > MaxStalled

\* removeOnComplete: 1000, removeOnFail: 5000.
Evict(d) ==
    /\ jobState[d] \in {"completed", "failed"}
    /\ jobState' = [jobState EXCEPT ![d] = "absent"]
    /\ UNCHANGED <<attemptsMade, stalls, lock>>

\* A lock whose renewals did not reach Redis in time.
ExpireLock(d) ==
    /\ Locked(d)
    /\ lock' = [lock EXCEPT ![d] = Unlocked]
    /\ UNCHANGED <<jobState, attemptsMade, stalls>>

\* The owner of every lock is gone; the jobs stay where Redis has them.
ExpireAllLocks ==
    /\ lock' = [d \in Deliveries |-> Unlocked]
    /\ UNCHANGED <<jobState, attemptsMade, stalls>>

\* Redis comes back empty.
Flush ==
    /\ jobState' = [d \in Deliveries |-> "absent"]
    /\ lock' = [d \in Deliveries |-> Unlocked]
    /\ UNCHANGED <<attemptsMade, stalls>>
=============================================================================
