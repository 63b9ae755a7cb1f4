------------------------------ MODULE HubMonitor ------------------------------
(***************************************************************************)
(* HubMonitorService: a tick every minute that probes the dependencies and *)
(* counts the failed deliveries of the last 15 minutes.  The interval does *)
(* not wait for the tick before, so ticks overlap, and every await of a    *)
(* tick lets another one run.                                              *)
(***************************************************************************)
EXTENDS HubDependencies, Naturals, FiniteSets

CONSTANTS
    Ticks,          \* bound: ticks that may overlap
    Logs,           \* the notification logs
    Threshold       \* HUB_ALERT_FAIL_THRESHOLD

ASSUME ThresholdAssumption == Threshold \in Nat \ {0}
ASSUME LogsAssumption == IsFiniteSet(Logs)

VARIABLES
    depsDown, failureAlerted,   \* the fields of the service
    pc,             \* what each tick awaits
    postgresOk,     \* the first half of the snapshot of each tick
    counted,        \* the count each tick was given
    log,            \* status of each notification log, "none" before
    created,        \* "fresh" while createdAt lies in the last 15 minutes
    failed,         \* the same of the moment the log became FAILED
    \* History, which no guard reads; it outlives the process.
    alerted,        \* the spike that is going on has been alerted
    overtaken,      \* ticks that had a lower count when that alert was decided
    forgotten       \* the process died since, or such a tick has decided

fieldVars == <<depsDown, failureAlerted>>
historyVars == <<alerted, overtaken, forgotten>>
tickVars == <<pc, postgresOk, counted>>
logVars == <<log, created, failed>>
vars == <<hubVars, fieldVars, tickVars, logVars, historyVars>>

Steps == {"idle", "pingPostgres", "pingRedis", "alertReady", "count",
          "decide", "alertSpike"}

\* Every variable has a value the code can give it, and no tick outlives the
\* process.
TypeOK ==
    /\ HubTypeOK
    /\ depsDown \in BOOLEAN
    /\ failureAlerted \in BOOLEAN
    /\ alerted \in BOOLEAN
    /\ overtaken \subseteq Ticks
    /\ forgotten \in BOOLEAN
    /\ pc \in [Ticks -> Steps]
    /\ ~Running => \A t \in Ticks : pc[t] = "idle"
    /\ postgresOk \in [Ticks -> BOOLEAN]
    /\ counted \in [Ticks -> Nat]
    /\ log \in [Logs -> {"none", "PENDING", "SENT", "FAILED"}]
    /\ created \in [Logs -> {"fresh", "old"}]
    /\ failed \in [Logs -> {"fresh", "old"}]

Init ==
    /\ HubInit
    /\ depsDown = FALSE
    /\ failureAlerted = FALSE
    /\ alerted = FALSE
    /\ overtaken = {}
    /\ forgotten = FALSE
    /\ pc = [t \in Ticks |-> "idle"]
    /\ postgresOk = [t \in Ticks |-> FALSE]
    /\ counted = [t \in Ticks |-> 0]
    /\ log = [l \in Logs |-> "none"]
    /\ created = [l \in Logs |-> "fresh"]
    /\ failed = [l \in Logs |-> "fresh"]

-----------------------------------------------------------------------------
(***************************************************************************)
(* tick = checkDependencies, then checkFailedDeliveries.                   *)
(***************************************************************************)
Goto(t, step) == pc' = [pc EXCEPT ![t] = step]

\* Mutant: the timers are not cleared when the module is destroyed.
AtAnyTime(t, step) == pc[t] = step

At(t, step) == Running /\ pc[t] = step

StartTick(t) ==
    /\ At(t, "idle")
    /\ Goto(t, "pingPostgres")
    /\ UNCHANGED <<hubVars, fieldVars, postgresOk, counted, logVars, historyVars>>

PingPostgres(t) ==
    /\ At(t, "pingPostgres")
    /\ postgresOk' = [postgresOk EXCEPT ![t] = pingPostgres]
    /\ Goto(t, "pingRedis")
    /\ UNCHANGED <<hubVars, fieldVars, counted, logVars, historyVars>>

Healthy(t) == postgresOk[t] /\ pingRedis

\* "down", "recovered" or null.
readyTransition(wasDown, isDown) ==
    IF isDown /\ ~wasDown THEN "down"
    ELSE IF ~isDown /\ wasDown THEN "recovered"
    ELSE "null"

\* Mutant: the field is set and never cleared.
DepsDownSticky(isDown) == depsDown \/ isDown

DepsDownAfter(isDown) == isDown

\* The ping is answered; transition and field change without an await between.
PingRedis(t) ==
    /\ At(t, "pingRedis")
    /\ PingAnswered
    /\ Goto(t, IF readyTransition(depsDown, ~Healthy(t)) = "null"
               THEN "count" ELSE "alertReady")
    /\ depsDown' = DepsDownAfter(~Healthy(t))
    /\ UNCHANGED <<hubVars, failureAlerted, postgresOk, counted, logVars, historyVars>>

\* alert() resolves whether or not Telegram takes the message, after 10 s at
\* the latest, and nothing is remembered of the outcome.
AlertReady(t) ==
    /\ At(t, "alertReady")
    /\ Goto(t, "count")
    /\ UNCHANGED <<hubVars, fieldVars, postgresOk, counted, logVars, historyVars>>

\* Mutant: the count is of all FAILED logs.
FailedLogsEver == {l \in Logs : log[l] = "FAILED"}

\* status: FAILED, createdAt: { gte: since }.
FailedLogs == {l \in Logs : log[l] = "FAILED" /\ created[l] = "fresh"}

\* A count that rejects ends the tick.
Count(t) ==
    /\ At(t, "count")
    /\ IF pingPostgres
       THEN /\ counted' = [counted EXCEPT ![t] = Cardinality(FailedLogs)]
            /\ Goto(t, "decide")
       ELSE Goto(t, "idle") /\ UNCHANGED counted
    /\ UNCHANGED <<hubVars, fieldVars, postgresOk, logVars, historyVars>>

\* Mutants: the flag is never set, or only above the threshold.
FlagNever(count) == FALSE
FlagAfterMore(count) == count > Threshold

FlagAfter(count) == IF count < Threshold THEN FALSE ELSE TRUE

Spiking == Cardinality(FailedLogs) >= Threshold

\* An alert starts the history of the spike anew; every other decision is
\* forgotten or not by whether the alert overtook it.
Remember(t, alerting) ==
    IF alerting /\ Spiking
    THEN /\ alerted' = TRUE
         /\ overtaken' = {s \in Ticks : pc[s] = "decide" /\ counted[s] < Threshold}
         /\ forgotten' = FALSE
    ELSE /\ overtaken' = overtaken \ {t}
         /\ forgotten' = (forgotten \/ t \in overtaken)
         /\ UNCHANGED alerted

Decide(t) ==
    LET alerting == counted[t] >= Threshold /\ ~failureAlerted
    IN  /\ At(t, "decide")
        /\ Goto(t, IF alerting THEN "alertSpike" ELSE "idle")
        /\ failureAlerted' = FlagAfter(counted[t])
        /\ Remember(t, alerting)
        /\ UNCHANGED <<hubVars, depsDown, postgresOk, counted, logVars>>

AlertSpike(t) ==
    /\ At(t, "alertSpike")
    /\ Goto(t, "idle")
    /\ UNCHANGED <<hubVars, fieldVars, postgresOk, counted, logVars, historyVars>>

Tick(t) ==
    \/ StartTick(t) \/ PingPostgres(t) \/ PingRedis(t) \/ AlertReady(t)
    \/ Count(t) \/ Decide(t) \/ AlertSpike(t)

-----------------------------------------------------------------------------
(***************************************************************************)
(* The logs, as far as the count sees them, and the process.               *)
(***************************************************************************)
SetLog(l, status) == log' = [log EXCEPT ![l] = status]

CreateLog(l) ==
    /\ log[l] = "none"
    /\ SetLog(l, "PENDING")
    /\ UNCHANGED <<created, failed>>

SetSent(l) ==
    /\ log[l] \in {"PENDING", "FAILED"}
    /\ SetLog(l, "SENT")
    /\ UNCHANGED <<created, failed>>

SetFailed(l) ==
    /\ log[l] = "PENDING"
    /\ SetLog(l, "FAILED")
    /\ UNCHANGED <<created, failed>>

\* 15 minutes pass since the log was created, or since it failed, which is
\* never earlier.
CreatedAges(l) ==
    /\ log[l] # "none"
    /\ created' = [created EXCEPT ![l] = "old"]
    /\ UNCHANGED <<log, failed>>

FailureAges(l) ==
    /\ log[l] = "FAILED" /\ created[l] = "old"
    /\ failed' = [failed EXCEPT ![l] = "old"]
    /\ UNCHANGED <<log, created>>

\* A spike is over when fewer than Threshold failures are in the window.
SpikeGoesOn ==
    /\ alerted' = (alerted /\ Spiking')
    /\ overtaken' = IF Spiking' THEN overtaken ELSE {}
    /\ forgotten' = (forgotten /\ Spiking')

LogChanges ==
    /\ \E l \in Logs : \/ CreateLog(l) \/ SetSent(l) \/ SetFailed(l)
                       \/ CreatedAges(l) \/ FailureAges(l)
    /\ SpikeGoesOn
    /\ UNCHANGED <<hubVars, fieldVars, tickVars>>

\* The fields and the ticks are in the memory of the process.
ProcessDies ==
    /\ Die
    /\ depsDown' = FALSE
    /\ failureAlerted' = FALSE
    /\ forgotten' = alerted
    /\ overtaken' = {}
    /\ pc' = [t \in Ticks |-> "idle"]
    /\ postgresOk' = [t \in Ticks |-> FALSE]
    /\ counted' = [t \in Ticks |-> 0]
    /\ UNCHANGED <<logVars, alerted>>

World ==
    /\ PostgresChanges \/ RedisChanges \/ Restart
    /\ UNCHANGED <<fieldVars, tickVars, logVars, historyVars>>

Next == (\E t \in Ticks : Tick(t)) \/ LogChanges \/ World \/ ProcessDies

Spec == Init /\ [][Next]_vars

\* The timers fire, awaited calls that have an outcome return, and recover()
\* runs into a lost Postgres.
Fairness ==
    /\ \A t \in Ticks : WF_vars(Tick(t))
    /\ WF_vars(RecoverRejected /\ ProcessDies)
    /\ WF_vars(Restart /\ World)

FairSpec == Spec /\ Fairness

-----------------------------------------------------------------------------
(***************************************************************************)
(* Properties.                                                             *)
(***************************************************************************)
\* A tick never counts more than the deliveries that became FAILED in the
\* last 15 minutes: the window on createdAt is the narrower one.
CountIsOfRecentFailures ==
    [][\A t \in Ticks :
          Count(t) /\ pingPostgres =>
            counted'[t] <= Cardinality({l \in Logs : log[l] = "FAILED"
                                                     /\ failed[l] = "fresh"})]_vars

\* One spike, the time in which the failures in the window reach the threshold,
\* is alerted once.  It is alerted again only when the flag was forgotten: the
\* process died, or a tick that had a count below the threshold before the
\* alert decided after it.
OneAlertPerSpike ==
    [][\A t \in Ticks :
          pc[t] = "decide" /\ pc'[t] = "alertSpike" /\ Spiking /\ alerted
          => forgotten]_vars

\* Overlapping ticks with old snapshots do not keep the field wrong: while the
\* process runs and the dependencies stay as they are, it ends up right.
StaysUp == Running /\ pingPostgres /\ pingRedis
StaysRefusing == Running /\ redis = "refusing"

FieldSettles ==
    /\ <>[]StaysUp => <>[]~depsDown
    /\ <>[]StaysRefusing => <>[]depsDown

\* A spike of fresh deliveries that lasts is flagged, as long as both services
\* answer.
SpikeIsFlagged ==
    <>[](StaysUp /\ Spiking) => <>[]failureAlerted

-----------------------------------------------------------------------------
(***************************************************************************)
(* What docs/operations.md:46 promises and the code does not keep.         *)
(***************************************************************************)
\* With Node alive and Redis gone, the hub itself notices it.
RedisOutageIsNoticed ==
    <>[](Running /\ pingPostgres /\ redis = "unreachable") => <>depsDown

\* When so many deliveries have failed within 15 minutes, a tick sees them.
SpikeIsCounted ==
    [][\A t \in Ticks :
          /\ Count(t) /\ pingPostgres
          /\ Cardinality({l \in Logs : log[l] = "FAILED" /\ failed[l] = "fresh"})
               >= Threshold
          => counted'[t] >= Threshold]_vars
=============================================================================
