------------------------------- MODULE Watchdog -------------------------------
(***************************************************************************)
(* scripts/watchdog.sh, started every minute by a timer that does not let  *)
(* runs overlap: it asks GET /health/ready, keeps a file while the hub     *)
(* does not answer, and writes to the alert chat when the file comes and   *)
(* when it goes.                                                           *)
(***************************************************************************)
EXTENDS HubDependencies, Naturals

CONSTANT MaxFaults  \* bound: messages lost, runs killed and files lost

VARIABLES
    pc,             \* where the script, and the request it waits for, is
    file,           \* STATE_FILE exists
    told,           \* what the alert chat has been told last
    faults

scriptVars == <<pc, file, told, faults>>
vars == <<hubVars, scriptVars>>

Steps == {"idle", "pingPostgres", "pingRedis", "up", "down", "sendUp", "sendDown"}

\* Every variable has a value the script can give it; it writes only after it
\* has changed the file.
TypeOK ==
    /\ HubTypeOK
    /\ pc \in Steps
    /\ file \in BOOLEAN
    /\ told \in {"up", "down"}
    /\ faults \in 0..MaxFaults
    /\ pc = "sendUp" => ~file

Init ==
    /\ HubInit
    /\ pc = "idle"
    /\ file = FALSE
    /\ told = "up"
    /\ faults = 0

-----------------------------------------------------------------------------
(***************************************************************************)
(* curl -f --max-time 5: HealthService.ready answers 200 when both pings   *)
(* do, 503 when one rejects, and not at all while a ping is pending.       *)
(***************************************************************************)
Ask ==
    /\ pc = "idle"
    /\ pc' = IF Running THEN "pingPostgres" ELSE "down"
    /\ UNCHANGED <<hubVars, file, told, faults>>

\* probe() pings Redis whatever Postgres says.
PingPostgres ==
    /\ pc = "pingPostgres"
    /\ Running
    /\ \/ pingPostgres /\ pc' = "pingRedis"
       \/ ~pingPostgres /\ PingAnswered /\ pc' = "down"
    /\ UNCHANGED <<hubVars, file, told, faults>>

PingRedis ==
    /\ pc = "pingRedis"
    /\ Running
    /\ PingAnswered
    /\ pc' = IF pingRedis THEN "up" ELSE "down"
    /\ UNCHANGED <<hubVars, file, told, faults>>

NoAnswer ==
    /\ pc \in {"pingPostgres", "pingRedis"}
    /\ ~Running \/ ~PingAnswered
    /\ pc' = "down"
    /\ UNCHANGED <<hubVars, file, told, faults>>

-----------------------------------------------------------------------------
(***************************************************************************)
(* The rest of the script.                                                 *)
(***************************************************************************)
\* Mutant: the file is left where it is.
FileAfterUpKept == file

FileAfterUp == FALSE

\* rm -f, then send_alert.
SeeUp ==
    /\ pc = "up"
    /\ file' = FileAfterUp
    /\ pc' = IF file THEN "sendUp" ELSE "idle"
    /\ UNCHANGED <<hubVars, told, faults>>

\* Mutant: there is no touch.
FileAfterDownSame == file

FileAfterDown == TRUE

\* touch, then send_alert.
SeeDown ==
    /\ pc = "down"
    /\ file' = FileAfterDown
    /\ pc' = IF ~file THEN "sendDown" ELSE "idle"
    /\ UNCHANGED <<hubVars, told, faults>>

Message == IF pc = "sendUp" THEN "up" ELSE "down"

Send ==
    /\ pc \in {"sendUp", "sendDown"}
    /\ told' = Message
    /\ pc' = "idle"
    /\ UNCHANGED <<hubVars, file, faults>>

Fault == faults < MaxFaults /\ faults' = faults + 1

\* Telegram does not answer, or refuses; set -e ends the script.
SendFails ==
    /\ pc \in {"sendUp", "sendDown"}
    /\ Fault
    /\ told' \in {told, Message}
    /\ pc' = "idle"
    /\ UNCHANGED <<hubVars, file>>

Killed ==
    /\ pc # "idle"
    /\ Fault
    /\ pc' = "idle"
    /\ UNCHANGED <<hubVars, file, told>>

\* The file lies in /tmp.
FileLost ==
    /\ file
    /\ pc = "idle"
    /\ Fault
    /\ file' = FALSE
    /\ UNCHANGED <<hubVars, pc, told>>

Script ==
    \/ Ask \/ PingPostgres \/ PingRedis \/ NoAnswer
    \/ SeeUp \/ SeeDown \/ Send

Hub ==
    /\ PostgresChanges \/ RedisChanges \/ Restart \/ Die
    /\ UNCHANGED scriptVars

Next == Script \/ SendFails \/ Killed \/ FileLost \/ Hub

Spec == Init /\ [][Next]_vars

\* The timer goes on firing and a run that was started comes to its end.
FairSpec == Spec /\ WF_vars(Script)

-----------------------------------------------------------------------------
(***************************************************************************)
(* Properties.                                                             *)
(***************************************************************************)
\* Between runs the chat knows what the file says, unless a message was lost.
ToldMatchesFile == pc = "idle" /\ faults = 0 => (told = "down" <=> file)

LastingOutage == <>[]~Running \/ <>[](postgres = "down") \/ <>[](redis # "up")

LastingUptime == <>[](Running /\ postgres = "up" /\ redis = "up")

\* An outage that lasts, of the process or of either service and also when
\* /health/ready hangs on Redis, ends up in the chat, and so does its end, when
\* no message is lost.
OutageIsTold ==
    [](faults = 0) =>
        /\ LastingOutage => <>[](told = "down")
        /\ LastingUptime => <>[](told = "up")

\* Whatever was lost before, an outage is told when the script comes to it
\* without its file.
LaterOutageIsTold ==
    <>(faults = MaxFaults /\ pc = "idle" /\ ~file)
        => (LastingOutage => <>[](told = "down"))
=============================================================================
