--------------------------- MODULE HubMonitorProofs ---------------------------
(***************************************************************************)
(* What holds of HubMonitor for any number of overlapping ticks and logs.  *)
(***************************************************************************)
EXTENDS HubMonitor, FiniteSetTheorems, TLAPS

USE DEF hubVars, fieldVars, tickVars, logVars, historyVars

(***************************************************************************)
(* Unless the alert of a spike was forgotten the flag is set, and of the   *)
(* ticks about to decide only those the alert overtook can clear it: a     *)
(* count that is taken during the spike reaches the threshold.  And no     *)
(* failure is older than the log that failed.                              *)
(***************************************************************************)
SpikeIsRemembered ==
    /\ alerted => Spiking
    /\ alerted /\ ~forgotten =>
          /\ failureAlerted
          /\ \A t \in Ticks :
                pc[t] = "decide" /\ counted[t] < Threshold => t \in overtaken

FailsAfterCreation == \A l \in Logs : failed[l] = "old" => created[l] = "old"

Inv == TypeOK /\ SpikeIsRemembered /\ FailsAfterCreation

LEMMA InvInit == Init => Inv
<1> SUFFICES ASSUME Init PROVE Inv
    OBVIOUS
<1> USE DEF Init, HubInit
<1>1. HubTypeOK /\ Running
    BY DEF HubTypeOK, Running
<1>2. pc \in [Ticks -> Steps] /\ counted \in [Ticks -> Nat]
    BY DEF Steps
<1>3. /\ log \in [Logs -> {"none", "PENDING", "SENT", "FAILED"}]
      /\ created \in [Logs -> {"fresh", "old"}]
      /\ failed \in [Logs -> {"fresh", "old"}]
    OBVIOUS
<1>4. postgresOk \in [Ticks -> BOOLEAN]
    BY Zenon
<1>5. /\ depsDown = FALSE /\ failureAlerted = FALSE
      /\ alerted = FALSE /\ overtaken = {} /\ forgotten = FALSE
    OBVIOUS
<1>6. TypeOK
    <2>1. depsDown \in BOOLEAN /\ failureAlerted \in BOOLEAN
        BY <1>5
    <2>2. alerted \in BOOLEAN /\ overtaken \subseteq Ticks /\ forgotten \in BOOLEAN
        BY <1>5
    <2>3. QED
        BY <1>1, <1>2, <1>3, <1>4, <2>1, <2>2 DEF TypeOK
<1>7. SpikeIsRemembered /\ FailsAfterCreation
    BY DEF SpikeIsRemembered, FailsAfterCreation
<1>8. QED
    BY <1>6, <1>7 DEF Inv

LEMMA CountIsNat == Cardinality(FailedLogs) \in Nat
BY LogsAssumption, FS_Subset, FS_CardinalityType DEF FailedLogs

\* A step that leaves logs and history alone keeps a spike remembered, if it
\* leaves the flag alone and brings no tick to its decision with a low count.
LEMMA RememberedStays ==
    ASSUME SpikeIsRemembered, UNCHANGED <<log, created, historyVars, failureAlerted>>,
           \A t \in Ticks : pc'[t] = "decide" =>
              \/ pc[t] = "decide" /\ counted'[t] = counted[t]
              \/ Spiking => counted'[t] >= Threshold /\ counted'[t] \in Nat
    PROVE  SpikeIsRemembered'
<1>1. Spiking' = Spiking
    BY DEF Spiking, FailedLogs
<1>2. \A t \in Ticks : pc'[t] = "decide" /\ counted'[t] < Threshold /\ Spiking =>
            pc[t] = "decide" /\ counted[t] < Threshold
    BY ThresholdAssumption
<1>3. QED
    BY <1>1, <1>2 DEF SpikeIsRemembered

LEMMA InvTick == ASSUME Inv, NEW t \in Ticks, Tick(t) PROVE Inv'
<1> USE DEF Inv, TypeOK, HubTypeOK, Steps, At, Running, Goto
<1>1. CASE StartTick(t)
    <2>1. SpikeIsRemembered'
        BY <1>1, RememberedStays DEF StartTick
    <2>2. QED
        BY <1>1, <2>1 DEF StartTick, FailsAfterCreation
<1>2. CASE PingPostgres(t)
    <2>1. SpikeIsRemembered'
        BY <1>2, RememberedStays DEF PingPostgres
    <2>2. QED
        BY <1>2, <2>1 DEF PingPostgres, pingPostgres, FailsAfterCreation
<1>3. CASE PingRedis(t)
    <2>1. SpikeIsRemembered'
        BY <1>3, RememberedStays DEF PingRedis
    <2>2. QED
        BY <1>3, <2>1
           DEF PingRedis, Healthy, pingRedis, DepsDownAfter, FailsAfterCreation
<1>4. CASE AlertReady(t)
    <2>1. SpikeIsRemembered'
        BY <1>4, RememberedStays DEF AlertReady
    <2>2. QED
        BY <1>4, <2>1 DEF AlertReady, FailsAfterCreation
<1>5. CASE Count(t)
    <2>1. pc'[t] = "decide" => counted'[t] = Cardinality(FailedLogs)
        BY <1>5 DEF Count
    <2>2. SpikeIsRemembered'
        <3>1. \A s \in Ticks : s # t => pc'[s] = pc[s] /\ counted'[s] = counted[s]
            BY <1>5 DEF Count
        <3>2. UNCHANGED <<log, created, historyVars, failureAlerted>>
            BY <1>5 DEF Count
        <3>3. QED
            BY <2>1, <3>1, <3>2, RememberedStays, CountIsNat DEF Spiking
    <2>3. QED
        BY <1>5, <2>2, CountIsNat DEF Count, FailsAfterCreation
<1>6. CASE Decide(t)
    <2>1. failureAlerted' \in BOOLEAN
        BY <1>6 DEF Decide, FlagAfter
    <2>2. /\ alerted' \in BOOLEAN /\ overtaken' \subseteq Ticks
          /\ forgotten' \in BOOLEAN
        BY <1>6 DEF Decide, Remember
    <2>3. pc' \in [Ticks -> Steps]
        BY <1>6 DEF Decide
    <2>4. SpikeIsRemembered'
        <3>1. Spiking' = Spiking
            BY <1>6 DEF Decide, Spiking, FailedLogs
        <3>2. \A s \in Ticks : pc'[s] = "decide" =>
                    s # t /\ pc[s] = "decide" /\ counted'[s] = counted[s]
            BY <1>6 DEF Decide
        <3>3. CASE counted[t] >= Threshold /\ ~failureAlerted /\ Spiking
            <4>1. failureAlerted' = TRUE
                BY <1>6, <3>3, ThresholdAssumption DEF Decide, FlagAfter
            <4>2. /\ alerted' = TRUE /\ forgotten' = FALSE
                  /\ overtaken' = {s \in Ticks : pc[s] = "decide"
                                                 /\ counted[s] < Threshold}
                BY <1>6, <3>3 DEF Decide, Remember
            <4>3. QED
                BY <3>1, <3>2, <3>3, <4>1, <4>2 DEF SpikeIsRemembered
        <3>4. CASE ~(counted[t] >= Threshold /\ ~failureAlerted /\ Spiking)
            <4>1. /\ overtaken' = overtaken \ {t}
                  /\ forgotten' = (forgotten \/ t \in overtaken)
                  /\ alerted' = alerted
                BY <1>6, <3>4 DEF Decide, Remember
            <4>2. ASSUME alerted, ~forgotten, t \notin overtaken
                  PROVE  failureAlerted'
                <5>1. ~(counted[t] < Threshold)
                    BY <1>6, <4>2 DEF SpikeIsRemembered, Decide
                <5>2. QED
                    BY <1>6, <5>1 DEF Decide, FlagAfter
            <4>3. QED
                BY <3>1, <3>2, <4>1, <4>2 DEF SpikeIsRemembered
        <3>5. QED
            BY <3>3, <3>4
    <2>5. QED
        BY <1>6, <2>1, <2>2, <2>3, <2>4 DEF Decide, FailsAfterCreation
<1>7. CASE AlertSpike(t)
    <2>1. SpikeIsRemembered'
        BY <1>7, RememberedStays DEF AlertSpike
    <2>2. QED
        BY <1>7, <2>1 DEF AlertSpike, FailsAfterCreation
<1>8. QED
    BY <1>1, <1>2, <1>3, <1>4, <1>5, <1>6, <1>7 DEF Tick

LEMMA InvOthers ==
    ASSUME Inv, LogChanges \/ World \/ ProcessDies \/ UNCHANGED vars PROVE Inv'
<1> USE DEF Inv, TypeOK, HubTypeOK, Running
<1>1. CASE LogChanges
    <2>1. /\ alerted' \in BOOLEAN /\ overtaken' \subseteq Ticks
          /\ forgotten' \in BOOLEAN
        BY <1>1 DEF LogChanges, SpikeGoesOn
    <2>2. SpikeIsRemembered'
        BY <1>1 DEF LogChanges, SpikeGoesOn, SpikeIsRemembered
    <2>3. /\ log' \in [Logs -> {"none", "PENDING", "SENT", "FAILED"}]
          /\ created' \in [Logs -> {"fresh", "old"}]
          /\ failed' \in [Logs -> {"fresh", "old"}]
          /\ FailsAfterCreation'
        <3>1. ASSUME NEW l \in Logs, CreateLog(l) \/ SetSent(l) \/ SetFailed(l)
              PROVE  /\ log' \in [Logs -> {"none", "PENDING", "SENT", "FAILED"}]
                     /\ created' \in [Logs -> {"fresh", "old"}]
                     /\ failed' \in [Logs -> {"fresh", "old"}]
                     /\ FailsAfterCreation'
            BY <3>1 DEF CreateLog, SetSent, SetFailed, SetLog, FailsAfterCreation
        <3>2. ASSUME NEW l \in Logs, CreatedAges(l) \/ FailureAges(l)
              PROVE  /\ log' \in [Logs -> {"none", "PENDING", "SENT", "FAILED"}]
                     /\ created' \in [Logs -> {"fresh", "old"}]
                     /\ failed' \in [Logs -> {"fresh", "old"}]
                     /\ FailsAfterCreation'
            BY <3>2 DEF CreatedAges, FailureAges, FailsAfterCreation
        <3>3. QED
            BY <1>1, <3>1, <3>2 DEF LogChanges
    <2>4. QED
        BY <1>1, <2>1, <2>2, <2>3 DEF LogChanges
<1>2. CASE World
    <2>1. SpikeIsRemembered'
        BY <1>2, RememberedStays DEF World
    <2>2. QED
        BY <1>2, <2>1
           DEF World, PostgresChanges, RedisChanges, Restart, FailsAfterCreation
<1>3. CASE ProcessDies
    <2>1. pc' \in [Ticks -> Steps] /\ \A t \in Ticks : pc'[t] = "idle"
        BY <1>3 DEF ProcessDies, Steps
    <2>2. counted' \in [Ticks -> Nat] /\ postgresOk' \in [Ticks -> BOOLEAN]
        BY <1>3 DEF ProcessDies
    <2>3. HubTypeOK' /\ depsDown' \in BOOLEAN /\ failureAlerted' \in BOOLEAN
        BY <1>3 DEF ProcessDies, Die
    <2>4. /\ alerted' = alerted /\ forgotten' = alerted /\ overtaken' = {}
          /\ UNCHANGED logVars
        BY <1>3 DEF ProcessDies
    <2>5. SpikeIsRemembered'
        BY <2>4 DEF SpikeIsRemembered, Spiking, FailedLogs
    <2>6. FailsAfterCreation'
        BY <2>4 DEF FailsAfterCreation
    <2>7. QED
        BY <2>1, <2>2, <2>3, <2>4, <2>5, <2>6
<1>4. CASE UNCHANGED vars
    <2>1. SpikeIsRemembered'
        BY <1>4, RememberedStays DEF vars
    <2>2. QED
        BY <1>4, <2>1 DEF vars, FailsAfterCreation
<1>5. QED
    BY <1>1, <1>2, <1>3, <1>4

LEMMA InvStep == Inv /\ [Next]_vars => Inv'
BY InvTick, InvOthers DEF Next

THEOREM Invariance == Spec => []Inv
BY InvInit, InvStep, PTL DEF Spec

\* Every variable keeps its type, and no tick outlives the process.
THEOREM MonitorTypeCorrect == Spec => []TypeOK
<1>1. Inv => TypeOK
    BY DEF Inv
<1>2. QED
    BY <1>1, Invariance, PTL

\* However many ticks overlap and however often the process is restarted: a
\* spike that was alerted is alerted again only if the process died since, or a
\* tick with an older count, below the threshold, decided since.
THEOREM SpikesAlertedOnce == Spec => OneAlertPerSpike
<1>1. ASSUME Inv, Next, NEW t \in Ticks,
             pc[t] = "decide", pc'[t] = "alertSpike", Spiking, alerted
      PROVE  forgotten
    <2>1. PICK s \in Ticks : Tick(s)
        BY <1>1
           DEF Next, LogChanges, World, ProcessDies, PostgresChanges, RedisChanges,
               Inv, TypeOK
    <2>2. Decide(t)
        BY <1>1, <2>1
           DEF Tick, StartTick, PingPostgres, PingRedis, AlertReady, Count, Decide,
               AlertSpike, At, Goto, Inv, TypeOK
    <2>3. ~failureAlerted
        BY <1>1, <2>2 DEF Decide, Goto, Inv, TypeOK
    <2>4. QED
        BY <1>1, <2>3 DEF Inv, SpikeIsRemembered
<1>2. Inv /\ [Next]_vars =>
        [\A t \in Ticks :
            pc[t] = "decide" /\ pc'[t] = "alertSpike" /\ Spiking /\ alerted
            => forgotten]_vars
    BY <1>1
<1>3. QED
    BY <1>2, Invariance, PTL DEF Spec, OneAlertPerSpike

\* A count is never above the number of failures of the last 15 minutes.
THEOREM CountsRecentFailures == Spec => CountIsOfRecentFailures
<1> DEFINE Recent == {l \in Logs : log[l] = "FAILED" /\ failed[l] = "fresh"}
<1>1. ASSUME Inv, NEW t \in Ticks, Count(t), pingPostgres
      PROVE  counted'[t] <= Cardinality(Recent)
    <2>1. IsFiniteSet(Recent)
        BY LogsAssumption, FS_Subset
    <2>2. FailedLogs \subseteq Recent
        BY <1>1 DEF FailedLogs, Inv, FailsAfterCreation, TypeOK
    <2>3. Cardinality(FailedLogs) <= Cardinality(Recent)
        BY <2>1, <2>2, FS_Subset
    <2>4. counted'[t] = Cardinality(FailedLogs)
        BY <1>1 DEF Count, Inv, TypeOK
    <2>5. QED
        BY <2>3, <2>4
<1>2. Inv /\ [Next]_vars =>
        [\A t \in Ticks : Count(t) /\ pingPostgres =>
            counted'[t] <= Cardinality({l \in Logs : log[l] = "FAILED"
                                                     /\ failed[l] = "fresh"})]_vars
    BY <1>1
<1>3. QED
    BY <1>2, Invariance, PTL DEF Spec, CountIsOfRecentFailures
=============================================================================
