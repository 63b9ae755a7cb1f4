------------------------------ MODULE MCHubGuards ------------------------------
(***************************************************************************)
(* The two guards beside the delivery, for TLC: the rate limiter of a bot  *)
(* and the watchdog script.  They share no state; Init chooses which of    *)
(* them runs, and the variables of the other keep their first values.      *)
(***************************************************************************)
EXTENDS BotRateLimiter

CONSTANT MaxFaults  \* of Watchdog

ASSUME FaultsAssumption == MaxFaults \in Nat

VARIABLES part, postgres, redis, process, watchPc, file, told, faults

Watch == INSTANCE Watchdog WITH pc <- watchPc

watchVars == <<postgres, redis, process, watchPc, file, told, faults>>
allVars == <<part, vars, watchVars>>

GuardsInit == part \in {"limiter", "watchdog"} /\ Init /\ Watch!Init

LimiterRuns == part = "limiter" /\ Next /\ UNCHANGED <<part, watchVars>>
WatchdogRuns == part = "watchdog" /\ Watch!Next /\ UNCHANGED <<part, vars>>

GuardsNext == LimiterRuns \/ WatchdogRuns

GuardsSpec ==
    /\ GuardsInit /\ [][GuardsNext]_allVars
    /\ WF_allVars(part = "watchdog" /\ Watch!Script /\ UNCHANGED <<part, vars>>)

-----------------------------------------------------------------------------
\* The types of the limiter and those of the watchdog.
GuardsTypeOK == TypeOK /\ Watch!TypeOK

\* Watchdog: between runs the chat knows what the file says, unless a message
\* was lost.
ToldMatchesFile == Watch!ToldMatchesFile

\* Watchdog: an outage that lasts ends up in the chat, and so does its end,
\* when no message is lost.
OutageIsTold == Watch!OutageIsTold

\* Watchdog: whatever was lost before, an outage is told when the script comes
\* to it without its file.
LaterOutageIsTold == Watch!LaterOutageIsTold
=============================================================================
