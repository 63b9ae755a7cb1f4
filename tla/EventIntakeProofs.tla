--------------------------- MODULE EventIntakeProofs ---------------------------
(***************************************************************************)
(* What holds of EventIntake for any number of requests, rules and keys.   *)
(***************************************************************************)
EXTENDS EventIntake, TLAPS

USE DEF dbVars, requestVars

(***************************************************************************)
(* Type correctness.                                                       *)
(***************************************************************************)
LEMMA TypeInit == Init => TypeOK
BY BoundsAssumption DEF Init, TypeOK, Steps, Answers

LEMMA KeyType ==
    ASSUME TypeOK, NEW q \in Requests, HasKey(q)
    PROVE  KeyOf(q) \in Clients \X Keys
BY DEF TypeOK, KeyOf, HasKey, Dtos

LEMMA ResponseType ==
    ASSUME TypeOK, NEW q \in Requests, HasKey(q),
           NEW response \in FindIdempotent(q)
    PROVE  response \in SUBSET Logs
BY KeyType DEF TypeOK, FindIdempotent

LEMMA LoopType ==
    ASSUME TypeOK, NEW q \in Requests, NEW left \in SUBSET Rules,
           Loop(q, left), UNCHANGED <<dto, current>>
    PROVE  /\ todo' \in [Requests -> SUBSET Rules]
           /\ pc' \in [Requests -> Steps]
           /\ answer' \in [Requests -> Answers]
           /\ \A p \in Requests :
                 /\ pc'[p] = "addJob" => current'[p] \in Rules
                 /\ pc'[p] \in {"findIdempotent", "saveKey", "findWinner"}
                      => HasKey(p)'
<1> USE DEF TypeOK, Loop, Goto, Answer, HasKey, Steps, Answers
<1>1. todo' \in [Requests -> SUBSET Rules]
    OBVIOUS
<1>2. CASE left # {}
    BY <1>1, <1>2
<1>3. CASE left = {} /\ HasKey(q)
    BY <1>1, <1>3
<1>4. CASE left = {} /\ ~HasKey(q)
    BY <1>1, <1>4
<1>5. QED
    BY <1>2, <1>3, <1>4

LEMMA TypeHandle ==
    ASSUME TypeOK, NEW q \in Requests, Handle(q) PROVE TypeOK'
<1> USE DEF TypeOK, Steps, Answers, Goto, Answer, HasKey
<1>1. CASE Arrive(q)
    BY <1>1 DEF Arrive, Accepted
<1>2. CASE FindClient(q)
    BY <1>2 DEF FindClient, AfterClient
<1>3. CASE LookUpKey(q)
    <2>1. CASE FindIdempotent(q) # {}
        <3>1. PICK response \in FindIdempotent(q) :
                 deliveries' = [deliveries EXCEPT ![q] = response]
            BY <1>3, <2>1 DEF LookUpKey, Replay
        <3>2. response \in SUBSET Logs
            BY <1>3, ResponseType DEF LookUpKey
        <3>3. deliveries' \in [Requests -> SUBSET Logs]
            BY <3>1, <3>2
        <3>4. pc' = [pc EXCEPT ![q] = "done"] /\ answer' = [answer EXCEPT ![q] = 200]
            BY <1>3, <2>1 DEF LookUpKey, Replay
        <3>5. QED
            BY <1>3, <3>3, <3>4 DEF LookUpKey
    <2>2. CASE FindIdempotent(q) = {}
        BY <1>3, <2>2 DEF LookUpKey
    <2>3. QED
        BY <2>1, <2>2
<1>4. CASE FindType(q)
    <2>1. CASE dto[q].type \in Types
        BY <1>4, <2>1 DEF FindType
    <2>2. CASE dto[q].type \notin Types
        BY <1>4, <2>2 DEF FindType
    <2>3. QED
        BY <2>1, <2>2
<1>5. CASE FindRules(q)
    <2>1. Matching(q) \in SUBSET Rules
        BY DEF Matching
    <2>2. Loop(q, Matching(q)) /\ UNCHANGED <<dto, current>>
        BY <1>5 DEF FindRules
    <2>3. QED
        BY <1>5, <2>1, <2>2, LoopType DEF FindRules
<1>6. ASSUME NEW r \in Rules, CreateLog(q, r) PROVE TypeOK'
    BY <1>6 DEF CreateLog, Logs
<1>7. CASE AddJob(q)
    <2>1. jobs' \subseteq Logs /\ deliveries' \in [Requests -> SUBSET Logs]
        BY <1>7 DEF AddJob, Added, Logs
    <2>2. QED
        BY <1>7, <2>1, LoopType DEF AddJob
<1>8. CASE SaveKey(q)
    <2>1. KeyOf(q) \in Clients \X Keys
        BY <1>8, KeyType DEF SaveKey
    <2>2. {deliveries[q]} \in SUBSET SUBSET Logs
        OBVIOUS
    <2>3. stored' \in [Clients \X Keys -> SUBSET SUBSET Logs]
        BY <1>8, <2>1, <2>2 DEF SaveKey
    <2>4. \/ pc' = [pc EXCEPT ![q] = "findWinner"] /\ answer' = answer
          \/ \E status \in {200, 500} :
                /\ pc' = [pc EXCEPT ![q] = "done"]
                /\ answer' = [answer EXCEPT ![q] = status]
        BY <1>8 DEF SaveKey
    <2>5. QED
        BY <1>8, <2>3, <2>4 DEF SaveKey
<1>9. CASE FindWinner(q)
    <2>1. CASE FindIdempotent(q) # {}
        <3>1. PICK response \in FindIdempotent(q) :
                 deliveries' = [deliveries EXCEPT ![q] = response]
            BY <1>9, <2>1 DEF FindWinner, Replay
        <3>2. response \in SUBSET Logs
            BY <1>9, ResponseType DEF FindWinner
        <3>3. deliveries' \in [Requests -> SUBSET Logs]
            BY <3>1, <3>2
        <3>4. pc' = [pc EXCEPT ![q] = "done"] /\ answer' = [answer EXCEPT ![q] = 200]
            BY <1>9, <2>1 DEF FindWinner, Replay
        <3>5. QED
            BY <1>9, <3>3, <3>4 DEF FindWinner
    <2>2. CASE FindIdempotent(q) = {}
        BY <1>9, <2>2 DEF FindWinner
    <2>3. QED
        BY <2>1, <2>2
<1>10. CASE CallFails(q)
    <2>1. HasKey(q) => KeyOf(q) \in Clients \X Keys
        BY KeyType
    <2>2. stored' \in [Clients \X Keys -> SUBSET SUBSET Logs]
        BY <1>10, <2>1 DEF CallFails
    <2>3. logs' \subseteq Logs /\ jobs' \subseteq Logs
        BY <1>10 DEF CallFails, Logs
    <2>4. QED
        BY <1>10, <2>2, <2>3, BoundsAssumption DEF CallFails, Fault
<1>11. QED
    BY <1>1, <1>2, <1>3, <1>4, <1>5, <1>6, <1>7, <1>8, <1>9, <1>10 DEF Handle

LEMMA TypeOthers ==
    ASSUME TypeOK, Crash \/ Admin \/ UNCHANGED vars PROVE TypeOK'
<1> USE DEF TypeOK
<1>1. CASE Crash
    BY <1>1, BoundsAssumption DEF Crash, Fault, Steps, HasKey
<1>2. CASE Admin
    <2>1. edits' \in 0 .. MaxEdits
        BY <1>2, BoundsAssumption DEF Admin, Edit
    <2>2. ASSUME NEW c \in Clients, ToggleClient(c) \/ DeleteClient(c)
          PROVE  TypeOK'
        BY <1>2, <2>1, <2>2 DEF Admin, ToggleClient, DeleteClient, HasKey
    <2>3. ASSUME NEW r \in Rules, ToggleRule(r) \/ DeleteRule(r)
          PROVE  TypeOK'
        BY <1>2, <2>1, <2>3 DEF Admin, ToggleRule, DeleteRule, HasKey
    <2>4. QED
        BY <1>2, <2>2, <2>3 DEF Admin
<1>3. CASE UNCHANGED vars
    BY <1>3 DEF vars, HasKey
<1>4. QED
    BY <1>1, <1>2, <1>3

\* Every variable keeps its type.
THEOREM TypeCorrect == Spec => []TypeOK
<1>1. TypeOK /\ [Next]_vars => TypeOK'
    BY TypeHandle, TypeOthers DEF Next
<1>2. QED
    BY TypeInit, <1>1, PTL DEF Spec

(***************************************************************************)
(* One answer per key.  A request owns the deliveries it has collected; a  *)
(* stored response is the one every accepted request of its key was given. *)
(***************************************************************************)
OfClient(c, l) == RuleClient[l[2]] = c

\* What a request has collected, and what is stored, is in the queue.
DeliveriesQueued ==
    /\ \A q \in Requests : deliveries[q] \subseteq jobs
    /\ \A k \in Clients \X Keys : \A response \in stored[k] : response \subseteq jobs

\* And belongs to the client that asked.
Owns(q) ==
    /\ \A r \in todo[q] : RuleClient[r] = dto[q].client
    /\ pc[q] = "addJob" => RuleClient[current[q]] = dto[q].client
    /\ \A l \in deliveries[q] : OfClient(dto[q].client, l)

StoredOwned ==
    \A k \in Clients \X Keys :
        \A response \in stored[k] : \A l \in response : OfClient(k[1], l)

DeliveriesOwned == (\A q \in Requests : Owns(q)) /\ StoredOwned

\* A deleted client has neither rules nor keys.
DeletedIsBare ==
    \A c \in Clients : client[c] = "deleted" =>
        /\ \A r \in Rules : RuleClient[r] = c => rule[r] = "deleted"
        /\ \A k \in Keys : stored[<<c, k>>] = {}

\* There is one response under a key.
OneResponse ==
    \A k \in Clients \X Keys : \A a, b \in stored[k] : a = b

\* A request with a key that has its 200 was given that response, which stays
\* as long as the client exists.
HoldsStored(q) ==
    /\ answer[q] # 0 => pc[q] = "done"
    /\ answer[q] = 200 /\ HasKey(q) /\ client[dto[q].client] # "deleted"
         => deliveries[q] \in stored[KeyOf(q)]

AcceptedIsStored == \A q \in Requests : HoldsStored(q)

Answered ==
    /\ DeliveriesQueued
    /\ DeletedIsBare
    /\ OneResponse
    /\ AcceptedIsStored
    /\ SameAnswer

Consistent == TypeOK /\ Answered /\ DeliveriesOwned

LEMMA ConsistentInit == Init => Consistent
BY TypeInit
   DEF Init, Consistent, Answered, DeliveriesQueued, DeliveriesOwned,
       Owns, StoredOwned, OfClient, DeletedIsBare, OneResponse, AcceptedIsStored, HoldsStored, SameAnswer,
       Accepted

\* What a step of request q leaves alone.
OthersRest(q) ==
    /\ \A p \in Requests \ {q} :
          pc'[p] = pc[p] /\ deliveries'[p] = deliveries[p] /\ answer'[p] = answer[p]
    /\ UNCHANGED <<client, rule, dto>>
    /\ jobs \subseteq jobs'
    /\ deliveries'[q] \subseteq jobs'
    /\ answer'[q] # 0 => pc'[q] = "done"

LEMMA SameRequest ==
    ASSUME dto' = dto, NEW p
    PROVE  KeyOf(p)' = KeyOf(p) /\ HasKey(p)' = HasKey(p)
BY DEF KeyOf, HasKey

LEMMA HoldsOn ==
    ASSUME NEW p, HoldsStored(p), dto' = dto, client' = client,
           pc'[p] = pc[p], deliveries'[p] = deliveries[p], answer'[p] = answer[p],
           answer[p] = 200 /\ HasKey(p) /\ client[dto[p].client] # "deleted"
             => stored'[KeyOf(p)] = stored[KeyOf(p)]
    PROVE  HoldsStored(p)'
BY SameRequest DEF HoldsStored

\* A step that gives no 200 to a request with a key.
LEMMA SilentStep ==
    ASSUME Consistent, TypeOK', NEW q \in Requests, pc[q] # "done",
           OthersRest(q), UNCHANGED stored, answer'[q] = 200 => ~HasKey(q)
    PROVE  Answered'
<1> USE DEF Consistent, Answered, TypeOK, OthersRest
<1>1. DeliveriesQueued'
    BY DEF DeliveriesQueued
<1>2. DeletedIsBare'
    BY DEF DeletedIsBare
<1>3. OneResponse'
    BY DEF OneResponse
<1>a. ASSUME NEW p \in Requests, p # q PROVE HoldsStored(p)'
    BY <1>a, HoldsOn DEF AcceptedIsStored
<1>b. HoldsStored(q)'
    BY DEF HoldsStored, HasKey
<1>c. AcceptedIsStored'
    BY <1>a, <1>b DEF AcceptedIsStored
<1>4. SameAnswer'
    BY DEF SameAnswer, Accepted, SameKey, HasKey, KeyOf
<1>5. QED
    BY <1>1, <1>2, <1>3, <1>c, <1>4

\* The stored response is the answer of everyone who had a 200 before.
LEMMA ReplayStep ==
    ASSUME Consistent, TypeOK', NEW q \in Requests, pc[q] # "done", HasKey(q),
           Replay(q), UNCHANGED <<client, rule, dto, jobs, stored>>
    PROVE  Answered'
<1> USE DEF Consistent, Answered
<1> DEFINE k == KeyOf(q)
<1>1. PICK response \in stored[k] :
         deliveries' = [deliveries EXCEPT ![q] = response]
    BY DEF Replay, FindIdempotent
<1>2. k \in Clients \X Keys /\ k[1] = dto[q].client /\ stored[k] # {}
    BY <1>1, KeyType DEF KeyOf
<1>3. /\ answer' = [answer EXCEPT ![q] = 200]
      /\ pc' = [pc EXCEPT ![q] = "done"]
    BY DEF Replay, Answer, Goto
<1>4. DeliveriesQueued'
    BY <1>1, <1>2 DEF DeliveriesQueued, TypeOK
<1>5. DeletedIsBare' /\ client[dto[q].client] # "deleted"
    BY <1>2 DEF DeletedIsBare, TypeOK, KeyOf, Dtos
<1>a. OneResponse'
    BY DEF OneResponse
<1>b. ASSUME NEW p \in Requests, p # q PROVE HoldsStored(p)'
    BY <1>1, <1>3, <1>b, HoldsOn DEF AcceptedIsStored, TypeOK
<1>c. HoldsStored(q)'
    BY <1>1, <1>3 DEF HoldsStored, TypeOK, HasKey, KeyOf
<1>6. AcceptedIsStored'
    BY <1>b, <1>c DEF AcceptedIsStored
<1>7. ASSUME NEW p \in Accepted, p # q, SameKey(p, q)
      PROVE  deliveries[p] = response
    BY <1>1, <1>2, <1>5, <1>7 DEF AcceptedIsStored, HoldsStored, OneResponse, Accepted, SameKey,
           KeyOf
<1>8. SameAnswer'
    BY <1>1, <1>3, <1>7
       DEF SameAnswer, Accepted, SameKey, HasKey, KeyOf, TypeOK
<1>9. QED
    BY <1>4, <1>5, <1>a, <1>6, <1>8

\* The first response under a key, whether the request learns of it or not.
LEMMA StoreStep ==
    ASSUME Consistent, TypeOK', NEW q \in Requests, pc[q] # "done", HasKey(q),
           client[dto[q].client] # "deleted", stored[KeyOf(q)] = {},
           stored' = [stored EXCEPT ![KeyOf(q)] = {deliveries[q]}],
           NEW status \in {200, 500}, Answer(q, status),
           UNCHANGED <<client, rule, dto, jobs, deliveries>>
    PROVE  Answered'
<1> USE DEF Consistent, Answered
<1>1. KeyOf(q) \in Clients \X Keys
    BY KeyType
<1>2. \A p \in Accepted : ~SameKey(p, q)
    BY <1>1 DEF AcceptedIsStored, HoldsStored, OneResponse, Accepted, SameKey,
           KeyOf
<1>3. /\ answer' = [answer EXCEPT ![q] = status]
      /\ pc' = [pc EXCEPT ![q] = "done"]
    BY DEF Answer, Goto
<1>4. DeliveriesQueued'
    BY <1>1 DEF DeliveriesQueued, TypeOK
<1>5. DeletedIsBare'
    BY <1>1 DEF DeletedIsBare, TypeOK, KeyOf, Dtos
<1>a. OneResponse'
    BY <1>1 DEF OneResponse, TypeOK
<1>b. ASSUME NEW p \in Requests, p # q PROVE HoldsStored(p)'
    <2>1. answer[p] = 200 /\ HasKey(p) => KeyOf(p) # KeyOf(q)
        BY <1>2 DEF Accepted, SameKey
    <2>2. HasKey(p) => KeyOf(p) \in Clients \X Keys
        BY KeyType
    <2>3. answer[p] = 200 /\ HasKey(p) => stored'[KeyOf(p)] = stored[KeyOf(p)]
        BY <1>1, <2>1, <2>2 DEF TypeOK
    <2>4. deliveries'[p] = deliveries[p] /\ pc'[p] = pc[p] /\ answer'[p] = answer[p]
        BY <1>3, <1>b DEF TypeOK
    <2>5. HoldsStored(p)
        BY DEF AcceptedIsStored
    <2>6. QED
        BY <2>3, <2>4, <2>5, HoldsOn
<1>c. HoldsStored(q)'
    BY <1>1, <1>3 DEF HoldsStored, TypeOK, HasKey, KeyOf
<1>6. AcceptedIsStored'
    BY <1>b, <1>c DEF AcceptedIsStored
<1>7. SameAnswer'
    BY <1>2, <1>3 DEF SameAnswer, Accepted, SameKey, HasKey, KeyOf, TypeOK
<1>8. QED
    BY <1>4, <1>5, <1>a, <1>6, <1>7

LEMMA AnsweredHandle ==
    ASSUME Consistent, TypeOK', NEW q \in Requests, Handle(q) PROVE Answered'
<1> USE DEF Consistent, TypeOK, Goto, Answer
<1> DEFINE Silent ==
        /\ pc[q] # "done"
        /\ OthersRest(q)
        /\ UNCHANGED stored
        /\ answer'[q] = 200 => ~HasKey(q)
<1>0. answer[q] # 0 => pc[q] = "done"
    BY DEF Answered, AcceptedIsStored, HoldsStored
<1>a. deliveries[q] \subseteq jobs
    BY DEF Answered, DeliveriesQueued
<1>b. Silent => Answered'
    BY SilentStep
<1>1. CASE Arrive(q)
    BY <1>0, <1>a, <1>b, <1>1 DEF Arrive, OthersRest
<1>2. CASE FindClient(q)
    BY <1>0, <1>a, <1>b, <1>2 DEF FindClient, OthersRest
<1>3. CASE LookUpKey(q)
    <2>1. CASE FindIdempotent(q) # {}
        BY <1>3, <2>1, ReplayStep DEF LookUpKey
    <2>2. CASE FindIdempotent(q) = {}
        BY <1>0, <1>a, <1>b, <1>3, <2>2 DEF LookUpKey, OthersRest
    <2>3. QED
        BY <2>1, <2>2
<1>4. CASE FindType(q)
    BY <1>0, <1>a, <1>b, <1>4 DEF FindType, OthersRest
<1>5. CASE FindRules(q)
    BY <1>0, <1>a, <1>b, <1>5 DEF FindRules, Loop, OthersRest
<1>6. ASSUME NEW r \in Rules, CreateLog(q, r) PROVE Answered'
    BY <1>0, <1>a, <1>b, <1>6 DEF CreateLog, OthersRest
<1>7. CASE AddJob(q)
    BY <1>0, <1>a, <1>b, <1>7 DEF AddJob, Added, Loop, OthersRest
<1>8. CASE SaveKey(q)
    <2>1. CASE client[dto[q].client] = "deleted"
        BY <1>0, <1>a, <1>b, <1>8, <2>1 DEF SaveKey, OthersRest
    <2>2. CASE client[dto[q].client] # "deleted" /\ KeyTaken(q)
        BY <1>0, <1>a, <1>b, <1>8, <2>2 DEF SaveKey, OthersRest
    <2>3. CASE client[dto[q].client] # "deleted" /\ ~KeyTaken(q)
        BY <1>8, <2>3, StoreStep DEF SaveKey, KeyTaken
    <2>4. QED
        BY <2>1, <2>2, <2>3
<1>9. CASE FindWinner(q)
    <2>1. CASE FindIdempotent(q) # {}
        BY <1>9, <2>1, ReplayStep DEF FindWinner
    <2>2. CASE FindIdempotent(q) = {}
        BY <1>0, <1>a, <1>b, <1>9, <2>2 DEF FindWinner, OthersRest
    <2>3. QED
        BY <2>1, <2>2
<1>10. CASE CallFails(q)
    <2>1. CASE UNCHANGED stored
        BY <1>0, <1>a, <1>b, <1>10, <2>1 DEF CallFails, InFlight, OthersRest
    <2>2. CASE stored' # stored
        BY <1>10, <2>2, StoreStep DEF CallFails, KeyTaken
    <2>3. QED
        BY <2>1, <2>2
<1>11. QED
    BY <1>1, <1>2, <1>3, <1>4, <1>5, <1>6, <1>7, <1>8, <1>9, <1>10 DEF Handle

\* A request that takes over the response stored under its key.
LEMMA OwnedReplay ==
    ASSUME Consistent, NEW q \in Requests, HasKey(q), Replay(q),
           UNCHANGED <<dto, todo, current, stored>>
    PROVE  DeliveriesOwned'
<1> USE DEF Consistent, TypeOK, DeliveriesOwned, Owns
<1>1. PICK response \in stored[KeyOf(q)] :
         deliveries' = [deliveries EXCEPT ![q] = response]
    BY DEF Replay, FindIdempotent
<1>2. \A l \in response : OfClient(dto[q].client, l)
    BY KeyType DEF StoredOwned, KeyOf
<1>3. pc' = [pc EXCEPT ![q] = "done"]
    BY DEF Replay, Answer, Goto
<1>4. ASSUME NEW p \in Requests PROVE Owns(p)'
    <2>1. CASE p = q
        BY <1>1, <1>2, <1>3, <2>1 DEF OfClient
    <2>2. CASE p # q
        BY <1>1, <1>3, <2>2 DEF OfClient
    <2>3. QED
        BY <2>1, <2>2
<1>5. StoredOwned'
    BY DEF StoredOwned, OfClient
<1>6. QED
    BY <1>4, <1>5

\* A request that at most stores what it has collected.
LEMMA OwnedStore ==
    ASSUME Consistent, TypeOK', NEW q \in Requests,
           UNCHANGED <<dto, todo, current, deliveries>>,
           \A p \in Requests : pc'[p] = "addJob" => pc[p] = "addJob",
           \/ UNCHANGED stored
           \/ HasKey(q) /\ stored' = [stored EXCEPT ![KeyOf(q)] = {deliveries[q]}]
    PROVE  DeliveriesOwned'
<1> USE DEF Consistent, TypeOK, DeliveriesOwned
<1>1. \A p \in Requests : Owns(p)'
    BY DEF Owns, OfClient
<1>2. CASE UNCHANGED stored
    BY <1>1, <1>2 DEF StoredOwned, OfClient
<1>3. CASE HasKey(q) /\ stored' = [stored EXCEPT ![KeyOf(q)] = {deliveries[q]}]
    <2>1. KeyOf(q) \in Clients \X Keys /\ KeyOf(q)[1] = dto[q].client
        BY <1>3, KeyType DEF KeyOf
    <2>2. \A l \in deliveries[q] : OfClient(KeyOf(q)[1], l)
        BY <2>1 DEF Owns
    <2>3. ASSUME NEW k \in Clients \X Keys, NEW response \in stored'[k],
                 NEW l \in response
          PROVE  OfClient(k[1], l)
        <3>1. CASE k = KeyOf(q)
            BY <1>3, <2>1, <2>2, <2>3, <3>1
        <3>2. CASE k # KeyOf(q)
            BY <1>3, <2>3, <3>2 DEF StoredOwned
        <3>3. QED
            BY <3>1, <3>2
    <2>4. StoredOwned'
        BY <2>3 DEF StoredOwned, OfClient
    <2>5. QED
        BY <1>1, <2>4
<1>4. QED
    BY <1>2, <1>3

LEMMA OwnedHandle ==
    ASSUME Consistent, TypeOK', NEW q \in Requests, Handle(q)
    PROVE  DeliveriesOwned'
<1> USE DEF Consistent, TypeOK, Goto, Answer, DeliveriesOwned, Owns,
            StoredOwned, OfClient
<1>1. CASE Arrive(q)
    BY <1>1 DEF Arrive
<1>2. CASE FindClient(q)
    BY <1>2 DEF FindClient, AfterClient
<1>3. CASE LookUpKey(q)
    <2>1. CASE FindIdempotent(q) # {}
        BY <1>3, <2>1, OwnedReplay DEF LookUpKey
    <2>2. CASE FindIdempotent(q) = {}
        BY <1>3, <2>2 DEF LookUpKey
    <2>3. QED
        BY <2>1, <2>2
<1>4. CASE FindType(q)
    BY <1>4 DEF FindType
<1>5. CASE FindRules(q)
    BY <1>5 DEF FindRules, Loop, Matching
<1>6. ASSUME NEW r \in Rules, CreateLog(q, r) PROVE DeliveriesOwned'
    BY <1>6 DEF CreateLog
<1>7. CASE AddJob(q)
    BY <1>7 DEF AddJob, Loop
<1>8. CASE SaveKey(q)
    <2>1. UNCHANGED <<dto, todo, current, deliveries>> /\ HasKey(q)
        BY <1>8 DEF SaveKey
    <2>2. \A p \in Requests : pc'[p] = "addJob" => pc[p] = "addJob"
        BY <1>8 DEF SaveKey
    <2>3. UNCHANGED stored \/ stored' = [stored EXCEPT ![KeyOf(q)] = {deliveries[q]}]
        BY <1>8 DEF SaveKey
    <2>4. QED
        BY <2>1, <2>2, <2>3, OwnedStore
<1>9. CASE FindWinner(q)
    <2>1. CASE FindIdempotent(q) # {}
        BY <1>9, <2>1, OwnedReplay DEF FindWinner
    <2>2. CASE FindIdempotent(q) = {}
        BY <1>9, <2>2 DEF FindWinner
    <2>3. QED
        BY <2>1, <2>2
<1>10. CASE CallFails(q)
    BY <1>10, OwnedStore DEF CallFails
<1>11. QED
    BY <1>1, <1>2, <1>3, <1>4, <1>5, <1>6, <1>7, <1>8, <1>9, <1>10 DEF Handle

LEMMA ConsistentCrash ==
    ASSUME Consistent, TypeOK', Crash PROVE Answered' /\ DeliveriesOwned'
<1> USE DEF Consistent, Answered, TypeOK, Crash, InFlight
<1>1. DeliveriesQueued' /\ DeletedIsBare' /\ OneResponse'
    BY DEF DeliveriesQueued, DeletedIsBare, OneResponse
<1>2. AcceptedIsStored'
    BY SameRequest DEF AcceptedIsStored, HoldsStored
<1>3. SameAnswer'
    BY DEF SameAnswer, Accepted, SameKey, HasKey, KeyOf
<1>4. DeliveriesOwned'
    BY DEF DeliveriesOwned, Owns, StoredOwned, OfClient
<1>5. QED
    BY <1>1, <1>2, <1>3, <1>4

\* Admins touch no request and no job.
LEMMA ConsistentAdmin ==
    ASSUME Consistent, TypeOK', Admin PROVE Answered' /\ DeliveriesOwned'
<1> USE DEF Consistent, Answered, TypeOK
<1>1. UNCHANGED <<requestVars, jobs>>
    BY DEF Admin
<1>2. SameAnswer'
    BY <1>1 DEF SameAnswer, Accepted, SameKey, HasKey, KeyOf
<1>3. ASSUME NEW c \in Clients, DeleteClient(c)
      PROVE  Answered' /\ DeliveriesOwned'
    <2>1. \A k \in Clients \X Keys : stored'[k] = {} \/ stored'[k] = stored[k]
        BY <1>3 DEF DeleteClient
    <2>2. DeliveriesQueued' /\ OneResponse' /\ DeliveriesOwned'
        <3>1. DeliveriesQueued'
            BY <1>1, <2>1 DEF DeliveriesQueued
        <3>2. OneResponse'
            BY <2>1 DEF OneResponse
        <3>3. (\A p \in Requests : Owns(p))'
            BY <1>1 DEF DeliveriesOwned, Owns, OfClient
        <3>4. StoredOwned'
            BY <2>1 DEF DeliveriesOwned, StoredOwned, OfClient
        <3>5. QED
            BY <3>1, <3>2, <3>3, <3>4 DEF DeliveriesOwned
    <2>3. DeletedIsBare'
        BY <1>3 DEF DeletedIsBare, DeleteClient
    <2>4. ASSUME NEW p \in Requests PROVE HoldsStored(p)'
        <3>1. HoldsStored(p) /\ UNCHANGED <<answer, pc, dto, deliveries>>
            BY <1>1 DEF AcceptedIsStored
        <3>2. CASE client'[dto[p].client] # "deleted" /\ HasKey(p)
            <4>1. KeyOf(p) \in Clients \X Keys /\ KeyOf(p)[1] # c
                BY <1>3, <3>2, KeyType DEF DeleteClient, KeyOf
            <4>2. stored'[KeyOf(p)] = stored[KeyOf(p)]
                BY <1>3, <4>1 DEF DeleteClient
            <4>3. client[dto[p].client] # "deleted"
                BY <1>3, <3>2 DEF DeleteClient, Dtos
            <4>4. QED
                BY <3>1, <3>2, <4>2, <4>3, SameRequest DEF HoldsStored
        <3>3. CASE client'[dto[p].client] = "deleted" \/ ~HasKey(p)
            BY <3>1, <3>3, SameRequest DEF HoldsStored
        <3>4. QED
            BY <3>2, <3>3
    <2>5. QED
        BY <1>2, <2>2, <2>3, <2>4 DEF AcceptedIsStored
<1>4. ASSUME UNCHANGED stored,
             \A c \in Clients : client'[c] = "deleted" <=> client[c] = "deleted",
             \A r \in Rules : rule[r] = "deleted" => rule'[r] = "deleted"
      PROVE  Answered' /\ DeliveriesOwned'
    <2>1. DeliveriesQueued' /\ DeletedIsBare' /\ OneResponse' /\ DeliveriesOwned'
        BY <1>1, <1>4
           DEF DeliveriesQueued, DeletedIsBare, OneResponse, DeliveriesOwned,
               Owns, StoredOwned, OfClient
    <2>2. AcceptedIsStored'
        BY <1>1, <1>4, SameRequest DEF AcceptedIsStored, HoldsStored, Dtos
    <2>3. QED
        BY <1>2, <2>1, <2>2
<1>5. ASSUME NEW c \in Clients, ToggleClient(c)
      PROVE  Answered' /\ DeliveriesOwned'
    BY <1>4, <1>5 DEF ToggleClient
<1>6. ASSUME NEW r \in Rules, ToggleRule(r) \/ DeleteRule(r)
      PROVE  Answered' /\ DeliveriesOwned'
    BY <1>4, <1>6 DEF ToggleRule, DeleteRule
<1>7. QED
    BY <1>3, <1>5, <1>6 DEF Admin

LEMMA ConsistentStep ==
    ASSUME Consistent, [Next]_vars PROVE Consistent'
<1>1. TypeOK'
    BY TypeHandle, TypeOthers DEF Next, Consistent
<1>2. ASSUME NEW q \in Requests, Handle(q) PROVE Consistent'
    BY <1>1, <1>2, AnsweredHandle, OwnedHandle DEF Consistent
<1>3. CASE Crash \/ Admin
    BY <1>1, <1>3, ConsistentCrash, ConsistentAdmin DEF Consistent
<1>4. CASE UNCHANGED vars
    <2> USE <1>4 DEF vars, Consistent, Answered
    <2>1. DeliveriesQueued' /\ DeletedIsBare' /\ OneResponse'
        BY DEF DeliveriesQueued, DeletedIsBare, OneResponse
    <2>2. AcceptedIsStored'
        BY SameRequest DEF AcceptedIsStored, HoldsStored
    <2>3. SameAnswer'
        BY DEF SameAnswer, Accepted, SameKey, HasKey, KeyOf
    <2>4. DeliveriesOwned'
        BY DEF DeliveriesOwned, Owns, StoredOwned, OfClient
    <2>5. QED
        BY <1>1, <2>1, <2>2, <2>3, <2>4
<1>5. QED
    BY <1>2, <1>3, <1>4 DEF Next

THEOREM AlwaysConsistent == Spec => []Consistent
BY ConsistentInit, ConsistentStep, PTL DEF Spec

\* Two requests with one client and key that both get a 200 get the same
\* deliveries, however they and the admins' edits interleave.
THEOREM OneAnswerPerKey == Spec => []SameAnswer
<1>1. Consistent => SameAnswer
    BY DEF Consistent, Answered
<1>2. QED
    BY <1>1, AlwaysConsistent, PTL

\* A 200 names deliveries that are in the queue.
THEOREM AnswersAreQueued == Spec => []AcceptedMeansQueued
<1>1. Consistent => AcceptedMeansQueued
    BY DEF Consistent, Answered, DeliveriesQueued, AcceptedMeansQueued, Accepted
<1>2. QED
    BY <1>1, AlwaysConsistent, PTL

\* A 200 names deliveries of the client that asked.
THEOREM AnswersStayWithClient == Spec => []AnswerStaysWithClient
<1>1. Consistent => AnswerStaysWithClient
    BY DEF Consistent, DeliveriesOwned, Owns, OfClient, AnswerStaysWithClient,
           Accepted
<1>2. QED
    BY <1>1, AlwaysConsistent, PTL

(***************************************************************************)
(* Repeats.  A request that knows of an earlier 200 for its key is         *)
(* answered from the store, or its client is gone and so are its rules.    *)
(***************************************************************************)
Bare(q) == \A r \in Rules : <<q, r>> \notin logs \cup jobs

ReadSteps == {"new", "findClient", "findIdempotent", "findType", "findRules"}

AnsweredFromStore(q) ==
    \/ pc[q] \in {"findClient", "findIdempotent", "done"}
    \/ /\ client[dto[q].client] = "deleted"
       /\ pc[q] \in {"findType", "findRules", "saveKey"}

Frugal(q) ==
    /\ pc[q] \in ReadSteps => Bare(q)
    /\ pc[q] = "new" => before[q] = {}
    /\ \A p \in before[q] :
          SameKey(p, q) => answer[p] = 200 /\ Bare(q) /\ AnsweredFromStore(q)

LEMMA FrugalInit == Init => \A q \in Requests : Frugal(q)
BY DEF Init, Frugal, Bare

\* A step that leaves q where it is.
LEMMA FrugalOther ==
    ASSUME Consistent, NEW q \in Requests, Frugal(q),
           UNCHANGED <<dto, before>>, pc'[q] = pc[q],
           \A p \in Requests : answer[p] = 200 => answer'[p] = 200,
           \A r \in Rules : <<q, r>> \in logs' \cup jobs' => <<q, r>> \in logs \cup jobs,
           client[dto[q].client] = "deleted" => client'[dto[q].client] = "deleted"
    PROVE  Frugal(q)'
BY DEF Consistent, TypeOK, Frugal, Bare, AnsweredFromStore, SameKey, HasKey, KeyOf

\* A 200 stays: the request it went to takes no more steps.
LEMMA AnswerStays ==
    ASSUME Consistent, [Next]_vars, NEW p \in Requests, answer[p] = 200
    PROVE  answer'[p] = 200
<1>1. pc[p] = "done"
    BY DEF Consistent, Answered, AcceptedIsStored, HoldsStored
<1>2. ASSUME NEW q \in Requests, Handle(q) PROVE answer'[p] = 200
    <2>1. pc[q] # "done"
        BY <1>2
           DEF Handle, Arrive, FindClient, LookUpKey, FindType, FindRules,
               CreateLog, AddJob, SaveKey, FindWinner, CallFails, InFlight
    <2>2. answer' = answer \/ \E a \in Answers : answer' = [answer EXCEPT ![q] = a]
        BY <1>2
           DEF Handle, Arrive, FindClient, LookUpKey, FindType, FindRules,
               CreateLog, AddJob, SaveKey, FindWinner, CallFails, Loop, Replay,
               Answer, Answers
    <2>3. QED
        BY <1>1, <2>1, <2>2 DEF Consistent, TypeOK
<1>3. CASE Crash \/ Admin \/ UNCHANGED vars
    BY <1>3 DEF Crash, Admin, vars
<1>4. QED
    BY <1>2, <1>3 DEF Next

\* What a step of another request may not do to q.
LEMMA FrugalHandleOther ==
    ASSUME Consistent, NEW p \in Requests, Handle(p), NEW q \in Requests,
           q # p, Frugal(q)
    PROVE  Frugal(q)'
<1>1. \A o \in Requests : answer[o] = 200 => answer'[o] = 200
    BY AnswerStays DEF Next
<1>2. CASE Arrive(p)
    BY <1>1, <1>2
       DEF Arrive, Goto, Consistent, TypeOK, Frugal, Bare, AnsweredFromStore,
           SameKey, HasKey, KeyOf
<1>3. CASE ~Arrive(p)
    <2>1. UNCHANGED <<dto, before, client>>
        BY <1>3
           DEF Handle, FindClient, LookUpKey, FindType, FindRules, CreateLog,
               AddJob, SaveKey, FindWinner, CallFails
    <2>2. pc'[q] = pc[q]
        BY <1>3
           DEF Handle, FindClient, LookUpKey, FindType, FindRules, CreateLog,
               AddJob, SaveKey, FindWinner, CallFails, Loop, Replay, Answer,
               Goto, Consistent, TypeOK
    <2>3. \A r \in Rules : <<q, r>> \in logs' \cup jobs' => <<q, r>> \in logs \cup jobs
        BY <1>3
           DEF Handle, FindClient, LookUpKey, FindType, FindRules, CreateLog,
               AddJob, Added, SaveKey, FindWinner, CallFails
    <2>4. QED
        BY <1>1, <2>1, <2>2, <2>3, FrugalOther
<1>4. QED
    BY <1>2, <1>3

\* Of the deliveries of a repeat nothing is in the tables or in the queue.
LEMMA FrugalHandleOwn ==
    ASSUME Consistent, NEW q \in Requests, Handle(q), Frugal(q)
    PROVE  Frugal(q)'
<1> USE DEF Consistent, TypeOK, Goto, Answer
<1>0. \A o \in Requests : answer[o] = 200 => answer'[o] = 200
    BY AnswerStays DEF Next
<1> USE <1>0 DEF Frugal, Bare, ReadSteps, AnsweredFromStore, SameKey
<1>1. CASE Arrive(q)
    BY <1>1 DEF Arrive, Accepted
<1>2. CASE FindClient(q)
    BY <1>2, SameRequest DEF FindClient, AfterClient
<1>3. CASE LookUpKey(q)
    <2>1. UNCHANGED <<client, logs, jobs, dto, before>> /\ pc[q] = "findIdempotent"
        BY <1>3 DEF LookUpKey
    <2>2. CASE FindIdempotent(q) # {}
        BY <1>3, <2>1, <2>2, SameRequest DEF LookUpKey, Replay
    <2>3. CASE FindIdempotent(q) = {}
        <3>1. ASSUME NEW p \in before[q], SameKey(p, q)
              PROVE  client[dto[q].client] = "deleted"
            <4>1. p \in Requests /\ answer[p] = 200
                BY <3>1
            <4>2. HoldsStored(p)
                BY <4>1 DEF Answered, AcceptedIsStored
            <4>3. dto[p].client = dto[q].client /\ stored[KeyOf(p)] = {}
                BY <2>3, <3>1 DEF FindIdempotent, KeyOf
            <4>4. QED
                BY <3>1, <4>1, <4>2, <4>3 DEF HoldsStored
        <3>2. pc' = [pc EXCEPT ![q] = "findType"] /\ answer' = answer
            BY <1>3, <2>3 DEF LookUpKey
        <3>3. QED
            BY <2>1, <3>1, <3>2, SameRequest
    <2>4. QED
        BY <2>2, <2>3
<1>4. CASE FindType(q)
    BY <1>4, SameRequest DEF FindType
<1>5. CASE FindRules(q)
    <2>1. UNCHANGED <<client, logs, jobs, dto, before>> /\ pc[q] = "findRules"
        BY <1>5 DEF FindRules
    <2>2. client[dto[q].client] = "deleted" => Matching(q) = {}
        BY DEF Matching, Answered, DeletedIsBare, Dtos
    <2>3. pc'[q] \in {"createLog", "saveKey", "done"}
        BY <1>5 DEF FindRules, Loop
    <2>4. client[dto[q].client] = "deleted" => pc'[q] \in {"saveKey", "done"}
        BY <1>5, <2>2 DEF FindRules, Loop
    <2>5. QED
        BY <2>1, <2>3, <2>4, SameRequest
<1>6. ASSUME NEW r \in Rules, CreateLog(q, r) PROVE Frugal(q)'
    BY <1>6, SameRequest DEF CreateLog
<1>7. CASE AddJob(q)
    BY <1>7, SameRequest DEF AddJob, Loop
<1>8. CASE SaveKey(q)
    BY <1>8, SameRequest DEF SaveKey
<1>9. CASE FindWinner(q)
    BY <1>9, SameRequest DEF FindWinner, Replay
<1>10. CASE CallFails(q)
    BY <1>10, SameRequest DEF CallFails, InFlight
<1>11. QED
    BY <1>1, <1>2, <1>3, <1>4, <1>5, <1>6, <1>7, <1>8, <1>9, <1>10 DEF Handle

LEMMA FrugalStep ==
    ASSUME Consistent, [Next]_vars, \A q \in Requests : Frugal(q)
    PROVE  \A q \in Requests : Frugal(q)'
<1>1. ASSUME NEW p \in Requests, Handle(p), NEW q \in Requests
      PROVE  Frugal(q)'
    BY <1>1, FrugalHandleOther, FrugalHandleOwn
<1>2. CASE Admin
    BY <1>2, FrugalOther
       DEF Admin, ToggleClient, DeleteClient, ToggleRule, DeleteRule,
           requestVars, Consistent, TypeOK, Dtos
<1>3. CASE Crash
    BY <1>3, SameRequest
       DEF Crash, InFlight, Consistent, TypeOK, Frugal, Bare,
           AnsweredFromStore, ReadSteps, SameKey
<1>4. CASE UNCHANGED vars
    BY <1>4, FrugalOther DEF vars
<1>5. QED
    BY <1>1, <1>2, <1>3, <1>4 DEF Next

\* A request that starts after a 200 for its client and key adds nothing.
THEOREM RepeatsCreateNothing == Spec => []RepeatCreatesNothing
<1>1. Consistent /\ (\A q \in Requests : Frugal(q)) => RepeatCreatesNothing
    BY DEF RepeatCreatesNothing, Frugal, Bare
<1>2. Consistent /\ (\A q \in Requests : Frugal(q)) /\ [Next]_vars
        => (\A q \in Requests : Frugal(q))'
    BY FrugalStep
<1>3. QED
    BY <1>1, <1>2, FrugalInit, AlwaysConsistent, PTL DEF Spec
=============================================================================
