------------------------------ MODULE EventIntake ------------------------------
(***************************************************************************)
(* POST /events: EventsService.handle, one action per awaited call, for    *)
(* requests that run concurrently in one Node process, next to the admin   *)
(* API that edits clients and rules, and with errors and crashes between   *)
(* any two calls.  A request creates at most one log per rule, so a log is *)
(* named <<request, rule>>, and so is the job that carries it.             *)
(***************************************************************************)
EXTENDS Naturals, FiniteSets

CONSTANTS
    Requests,       \* calls of POST /events, each made once
    Clients, Types, Keys,
    Rules,          \* routing rules
    RuleClient,     \* the client of each rule; a row that an admin gives to
                    \* another client or type counts as another rule
    RuleType,       \* the notification type of each rule
    UnknownType,    \* a code no notification type has
    NoKey,          \* dto.idempotency_key is not given
    None,           \* no rule
    MaxInFlight,    \* bound: requests in progress at a time
    MaxFaults,      \* bound: errors and crashes in a behaviour
    MaxEdits        \* bound: edits by admins in a behaviour

ASSUME RulesAssumption ==
    RuleClient \in [Rules -> Clients] /\ RuleType \in [Rules -> Types]
ASSUME KeysAssumption == NoKey \notin Keys
ASSUME TypesAssumption == UnknownType \notin Types
ASSUME BoundsAssumption ==
    MaxInFlight \in Nat /\ MaxFaults \in Nat /\ MaxEdits \in Nat

VARIABLES
    client,         \* each client row: "active", "inactive" or "deleted"
    rule,           \* each rule row; "active" when rule and bot are active
    logs,           \* the NotificationLog rows
    jobs,           \* the jobs that were ever added to the queue
    stored,         \* EventIdempotency: the response under a key, if any
    pc, dto,        \* the call each request awaits, and its body
    todo,           \* the rules of the request still to handle
    current,        \* the rule whose log was created last
    deliveries,     \* the deliveries of the result so far
    answer,         \* the HTTP status sent, 0 before
    before,         \* requests that had their 200 when this one started
    faults, edits

dbVars == <<client, rule, logs, stored>>
requestVars == <<pc, dto, todo, current, deliveries, answer, before>>
vars == <<dbVars, jobs, requestVars, faults, edits>>

Logs == Requests \X Rules

Steps == {"new", "findClient", "findIdempotent", "findType", "findRules",
          "createLog", "addJob", "saveKey", "findWinner", "done"}

Dtos == [client : Clients, type : Types \cup {UnknownType},
         key : Keys \cup {NoKey}]

Answers == {0, 200, 400, 404, 500}

HasKey(q) == dto[q].key # NoKey

\* Every variable has a value the code can give it.
TypeOK ==
    /\ client \in [Clients -> {"active", "inactive", "deleted"}]
    /\ rule \in [Rules -> {"active", "inactive", "deleted"}]
    /\ logs \subseteq Logs
    /\ jobs \subseteq Logs
    /\ stored \in [Clients \X Keys -> SUBSET SUBSET Logs]
    /\ pc \in [Requests -> Steps]
    /\ dto \in [Requests -> Dtos]
    /\ todo \in [Requests -> SUBSET Rules]
    /\ current \in [Requests -> Rules \cup {None}]
    /\ \A q \in Requests :
          /\ pc[q] = "addJob" => current[q] \in Rules
          /\ pc[q] \in {"findIdempotent", "saveKey", "findWinner"} => HasKey(q)
    /\ deliveries \in [Requests -> SUBSET Logs]
    /\ answer \in [Requests -> Answers]
    /\ before \in [Requests -> SUBSET Requests]
    /\ faults \in 0 .. MaxFaults
    /\ edits \in 0 .. MaxEdits

Init ==
    /\ client \in [Clients -> {"active", "inactive"}]
    /\ rule = [r \in Rules |-> "active"]
    /\ logs = {}
    /\ jobs = {}
    /\ stored = [k \in Clients \X Keys |-> {}]
    /\ pc = [q \in Requests |-> "new"]
    /\ dto \in [Requests -> Dtos]
    /\ todo = [q \in Requests |-> {}]
    /\ current = [q \in Requests |-> None]
    /\ deliveries = [q \in Requests |-> {}]
    /\ answer = [q \in Requests |-> 0]
    /\ before = [q \in Requests |-> {}]
    /\ faults = 0
    /\ edits = 0

InFlight == {q \in Requests : pc[q] \notin {"new", "done"}}

Accepted == {q \in Requests : answer[q] = 200}

\* clientId_key, the unique index of EventIdempotency.
KeyOf(q) == <<dto[q].client, dto[q].key>>

-----------------------------------------------------------------------------
(***************************************************************************)
(* EventsService.handle.                                                   *)
(***************************************************************************)
Goto(q, step) == pc' = [pc EXCEPT ![q] = step]

Answer(q, status) ==
    /\ Goto(q, "done")
    /\ answer' = [answer EXCEPT ![q] = status]

Arrive(q) ==
    /\ pc[q] = "new"
    /\ Cardinality(InFlight) < MaxInFlight
    /\ Goto(q, "findClient")
    /\ before' = [before EXCEPT ![q] = Accepted]
    /\ UNCHANGED <<dbVars, jobs, dto, todo, current, deliveries, answer,
                   faults, edits>>

\* Mutants: the key is left to the unique index; it is looked up even when
\* there is none.
AfterClientUnchecked(q) == "findType"
AfterClientAlways(q) == "findIdempotent"

AfterClient(q) == IF HasKey(q) THEN "findIdempotent" ELSE "findType"

\* Unknown clients get 404, inactive ones 400, before the key is looked at.
FindClient(q) ==
    /\ pc[q] = "findClient"
    /\ CASE client[dto[q].client] = "deleted" -> Answer(q, 404)
         [] client[dto[q].client] = "inactive" -> Answer(q, 400)
         [] OTHER -> Goto(q, AfterClient(q)) /\ UNCHANGED answer
    /\ UNCHANGED <<dbVars, jobs, dto, todo, current, deliveries, before,
                   faults, edits>>

\* Mutant: keys are looked up without their client.
FindIdempotentOfAny(q) ==
    UNION {stored[<<c, dto[q].key>>] : c \in Clients}

FindIdempotent(q) == stored[KeyOf(q)]

Replay(q) ==
    /\ \E response \in FindIdempotent(q) :
          deliveries' = [deliveries EXCEPT ![q] = response]
    /\ Answer(q, 200)

LookUpKey(q) ==
    /\ pc[q] = "findIdempotent"
    /\ IF FindIdempotent(q) # {}
       THEN Replay(q)
       ELSE Goto(q, "findType") /\ UNCHANGED <<deliveries, answer>>
    /\ UNCHANGED <<dbVars, jobs, dto, todo, current, before, faults, edits>>

FindType(q) ==
    /\ pc[q] = "findType"
    /\ IF dto[q].type \in Types
       THEN Goto(q, "findRules") /\ UNCHANGED answer
       ELSE Answer(q, 404)
    /\ UNCHANGED <<dbVars, jobs, dto, todo, current, deliveries, before,
                   faults, edits>>

Matching(q) ==
    {r \in Rules : /\ RuleClient[r] = dto[q].client
                   /\ RuleType[r] = dto[q].type
                   /\ rule[r] = "active"}

\* The loop has the rules `left` to handle; after it the key is saved.
Loop(q, left) ==
    /\ todo' = [todo EXCEPT ![q] = left]
    /\ IF left # {}
       THEN Goto(q, "createLog") /\ UNCHANGED answer
       ELSE IF HasKey(q)
       THEN Goto(q, "saveKey") /\ UNCHANGED answer
       ELSE Answer(q, 200)

FindRules(q) ==
    /\ pc[q] = "findRules"
    /\ Loop(q, Matching(q))
    /\ UNCHANGED <<dbVars, jobs, dto, current, deliveries, before, faults,
                   edits>>

\* A rule that was deleted since fails the insert by its foreign key.
CreateLog(q, r) ==
    /\ pc[q] = "createLog"
    /\ r \in todo[q]
    /\ IF rule[r] = "deleted"
       THEN Answer(q, 500) /\ UNCHANGED <<logs, current>>
       ELSE /\ logs' = logs \cup {<<q, r>>}
            /\ current' = [current EXCEPT ![q] = r]
            /\ Goto(q, "addJob")
            /\ UNCHANGED answer
    /\ UNCHANGED <<client, rule, stored, jobs, dto, todo, deliveries, before,
                   faults, edits>>

\* Mutant: add() is not awaited, and fails unnoticed.
AddedUnawaited(q) == {jobs, jobs \cup {<<q, current[q]>>}}

\* The jobs after add() has resolved.
Added(q) == {jobs \cup {<<q, current[q]>>}}

AddJob(q) ==
    /\ pc[q] = "addJob"
    /\ jobs' \in Added(q)
    /\ deliveries' = [deliveries EXCEPT ![q] = @ \cup {<<q, current[q]>>}]
    /\ Loop(q, todo[q] \ {current[q]})
    /\ UNCHANGED <<dbVars, dto, current, before, faults, edits>>

\* Mutant: the row is written whether or not there is one (an upsert).
KeyTakenNever(q) == FALSE

\* P2002: another request has stored its response since the look-up.
KeyTaken(q) == stored[KeyOf(q)] # {}

\* A deleted client fails the insert by its foreign key.
SaveKey(q) ==
    /\ pc[q] = "saveKey"
    /\ IF client[dto[q].client] = "deleted"
       THEN Answer(q, 500) /\ UNCHANGED stored
       ELSE IF KeyTaken(q)
       THEN Goto(q, "findWinner") /\ UNCHANGED <<stored, answer>>
       ELSE /\ stored' = [stored EXCEPT ![KeyOf(q)] = {deliveries[q]}]
            /\ Answer(q, 200)
    /\ UNCHANGED <<client, rule, logs, jobs, dto, todo, current, deliveries,
                   before, faults, edits>>

FindWinner(q) ==
    /\ pc[q] = "findWinner"
    /\ IF FindIdempotent(q) # {}
       THEN Replay(q)
       ELSE Answer(q, 500) /\ UNCHANGED deliveries
    /\ UNCHANGED <<dbVars, jobs, dto, todo, current, before, faults, edits>>

-----------------------------------------------------------------------------
(***************************************************************************)
(* Failures.                                                               *)
(***************************************************************************)
Fault == faults < MaxFaults /\ faults' = faults + 1

\* The awaited call rejects and the request ends with a 500; what the call
\* was to write may have been written.
CallFails(q) ==
    /\ q \in InFlight
    /\ Fault
    /\ Answer(q, 500)
    /\ \/ UNCHANGED <<logs, jobs, stored>>
       \/ /\ pc[q] = "createLog"
          /\ \E r \in todo[q] : rule[r] # "deleted" /\ logs' = logs \cup {<<q, r>>}
          /\ UNCHANGED <<jobs, stored>>
       \/ /\ pc[q] = "addJob"
          /\ jobs' = jobs \cup {<<q, current[q]>>}
          /\ UNCHANGED <<logs, stored>>
       \/ /\ pc[q] = "saveKey"
          /\ client[dto[q].client] # "deleted" /\ ~KeyTaken(q)
          /\ stored' = [stored EXCEPT ![KeyOf(q)] = {deliveries[q]}]
          /\ UNCHANGED <<logs, jobs>>
    /\ UNCHANGED <<client, rule, dto, todo, current, deliveries, before, edits>>

\* The process dies: no request in progress is ever answered.
Crash ==
    /\ Fault
    /\ InFlight # {}
    /\ pc' = [q \in Requests |-> IF q \in InFlight THEN "done" ELSE pc[q]]
    /\ UNCHANGED <<dbVars, jobs, dto, todo, current, deliveries, answer,
                   before, edits>>

-----------------------------------------------------------------------------
(***************************************************************************)
(* The admin API, as far as the intake reads what it writes.               *)
(***************************************************************************)
Edit == edits < MaxEdits /\ edits' = edits + 1

ToggleClient(c) ==
    /\ client[c] # "deleted"
    /\ client' = [client EXCEPT ![c] = IF @ = "active" THEN "inactive"
                                                       ELSE "active"]
    /\ UNCHANGED <<rule, logs, stored>>

\* The rule's own flag or that of its bot.
ToggleRule(r) ==
    /\ rule[r] # "deleted"
    /\ rule' = [rule EXCEPT ![r] = IF @ = "active" THEN "inactive"
                                                   ELSE "active"]
    /\ UNCHANGED <<client, logs, stored>>

\* The logs of a rule go with it.
DeleteRule(r) ==
    /\ rule[r] # "deleted"
    /\ rule' = [rule EXCEPT ![r] = "deleted"]
    /\ logs' = {l \in logs : l[2] # r}
    /\ UNCHANGED <<client, stored>>

\* Refused while the client has a rule; its keys go with it.
DeleteClient(c) ==
    /\ client[c] # "deleted"
    /\ \A r \in Rules : RuleClient[r] = c => rule[r] = "deleted"
    /\ client' = [client EXCEPT ![c] = "deleted"]
    /\ stored' = [k \in Clients \X Keys |-> IF k[1] = c THEN {} ELSE stored[k]]
    /\ UNCHANGED <<rule, logs>>

Admin ==
    /\ Edit
    /\ \/ \E c \in Clients : ToggleClient(c) \/ DeleteClient(c)
       \/ \E r \in Rules : ToggleRule(r) \/ DeleteRule(r)
    /\ UNCHANGED <<jobs, requestVars, faults>>

-----------------------------------------------------------------------------
Handle(q) ==
    \/ Arrive(q) \/ FindClient(q) \/ LookUpKey(q) \/ FindType(q)
    \/ FindRules(q) \/ AddJob(q) \/ SaveKey(q) \/ FindWinner(q)
    \/ \E r \in Rules : CreateLog(q, r)
    \/ CallFails(q)

Next == (\E q \in Requests : Handle(q)) \/ Crash \/ Admin

Spec == Init /\ [][Next]_vars

-----------------------------------------------------------------------------
(***************************************************************************)
(* Properties.                                                             *)
(***************************************************************************)
SameKey(p, q) == HasKey(p) /\ HasKey(q) /\ KeyOf(p) = KeyOf(q)

\* Every 200 that is sent for one client and key names the same deliveries,
\* also when the requests raced each other to the unique index.
SameAnswer ==
    \A p, q \in Accepted : SameKey(p, q) => deliveries[p] = deliveries[q]

\* A request that arrives after a 200 was sent for its client and key adds
\* no log and no job, whatever else happens meanwhile.
RepeatCreatesNothing ==
    \A q \in Requests : \A p \in before[q] :
        SameKey(p, q) => \A r \in Rules : <<q, r>> \notin logs \cup jobs

\* A 200 names only deliveries whose jobs were added to the queue
\* (docs/integration.md:13), own and replayed ones alike.
AcceptedMeansQueued == \A q \in Accepted : deliveries[q] \subseteq jobs

\* No client is answered with the deliveries of another.
AnswerStaysWithClient ==
    \A q \in Accepted : \A l \in deliveries[q] : RuleClient[l[2]] = dto[q].client

\* One client and key never lead to two jobs for the same rule
\* (README.md:36, docs/integration.md:111-114).
OneJobPerKey ==
    \A p, q \in Requests : \A r \in Rules :
        SameKey(p, q) /\ <<p, r>> \in jobs /\ <<q, r>> \in jobs => p = q
=============================================================================
