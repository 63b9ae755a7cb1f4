-------------------------- MODULE DesignPersistProofs --------------------------
(***************************************************************************)
(* Proofs about DesignPersist, for any number of agents, projects and      *)
(* pages and any slugs.                                                    *)
(***************************************************************************)
EXTENDS DesignPersist, TLAPS

LEMMA MasterIsPath ==
    ASSUME request \in [Agents -> Requests], NEW a \in Agents
    PROVE  /\ Master(a) \in Paths
           /\ HasPage(a) => PageFile(a) \in Paths
           /\ request[a].force \in BOOLEAN
BY SlugAssumption DEF Requests, Paths, Master, PageFile, HasPage

StepOf(a) ==
    \/ Open(a) \/ Write(a) \/ Publish(a) \/ PublishFails(a)
    \/ Cleanup(a) \/ CleanupFails(a)
    \/ Crash(a)

\* Every variable keeps its type.
THEOREM PersistTypeCorrect == Spec => []TypeOK
<1>1. Init => TypeOK
  <2> SUFFICES ASSUME Init PROVE TypeOK
    OBVIOUS
  <2>1. file \in [Paths -> Contents \cup {Absent}]
    <3>1. [by |-> Earlier, whole |-> TRUE] \in Contents
      BY DEF Contents
    <3> QED
      BY <3>1 DEF Init
  <2>2. request \in [Agents -> Requests]
    BY DEF Init
  <2>3. \A a \in Agents : Master(a) \in Paths
    BY <2>2, MasterIsPath
  <2>4. target \in [Agents -> Paths] /\ \A a \in Agents : target[a] = Master(a)
    BY <2>3 DEF Init
  <2> QED
    BY <2>1, <2>2, <2>4 DEF Init, TypeOK, Steps
<1>2. TypeOK /\ [Next]_vars => TypeOK'
  <2> SUFFICES ASSUME TypeOK, [Next]_vars PROVE TypeOK'
    OBVIOUS
  <2> USE DEF TypeOK, Goto, Ends, Steps
  <2>1. CASE UNCHANGED vars
    BY <2>1 DEF vars, Master, PageFile, HasPage
  <2>2. ASSUME NEW a \in Agents, Open(a) PROVE TypeOK'
    BY <2>2 DEF Open, Master, PageFile, HasPage
  <2>3. ASSUME NEW a \in Agents, Write(a) PROVE TypeOK'
    BY <2>3 DEF Write, Master, PageFile, HasPage
  <2>4. ASSUME NEW a \in Agents, Publish(a) PROVE TypeOK'
    <3>1. UNCHANGED <<request, target, created, status>>
      BY <2>4 DEF Publish
    <3>2. file' \in [Paths -> Contents \cup {Absent}]
      <4> DEFINE content == [by |-> a, whole |-> temp[a] = "full"]
      <4>1. content \in Contents
        BY DEF Contents
      <4>2. file' = file \/ file' = [file EXCEPT ![target[a]] = content]
        BY <2>4 DEF Publish
      <4> HIDE DEF content
      <4> QED
        BY <4>1, <4>2
    <3>3. temp' \in [Agents -> {"none", "partial", "full"}]
      BY <2>4 DEF Publish
    <3>4. published' \subseteq Agents \X Paths
      BY <2>4 DEF Publish
    <3>5. /\ outcome' \in [Agents -> {"none", "made", "exists", "raised", "kept"}]
          /\ pc' \in [Agents -> Steps \cup {"returned", "crashed"}]
      BY <2>4 DEF Publish
    <3> QED
      BY <3>1, <3>2, <3>3, <3>4, <3>5 DEF Master, PageFile, HasPage
  <2>5. ASSUME NEW a \in Agents, Cleanup(a) PROVE TypeOK'
    <3>1. UNCHANGED <<file, request, published>>
      BY <2>5 DEF Cleanup
    <3>2. temp' \in [Agents -> {"none", "partial", "full"}]
      BY <2>5 DEF Cleanup, Unlink
    <3>3. created' \in [Agents -> SUBSET Paths]
      BY <2>5 DEF Cleanup, CreatedNow
    <3>4. /\ status' \in [Agents -> {"none", "success", "skipped_exists", "raised"}]
          /\ outcome' \in [Agents -> {"none", "made", "exists", "raised", "kept"}]
          /\ pc' \in [Agents -> Steps \cup {"returned", "crashed"}]
      BY <2>5 DEF Cleanup, Return
    <3>5. \/ target' = target
          \/ HasPage(a) /\ target' = [target EXCEPT ![a] = PageFile(a)]
      BY <2>5 DEF Cleanup, Return
    <3>6. HasPage(a) => PageFile(a) \in Paths
      BY MasterIsPath
    <3>7. /\ target' \in [Agents -> Paths]
          /\ \A b \in Agents :
                target'[b] \in IF HasPage(b) THEN {Master(b), PageFile(b)} ELSE {Master(b)}
      BY <3>5, <3>6
    <3> QED
      BY <3>1, <3>2, <3>3, <3>4, <3>7 DEF Master, PageFile, HasPage
  <2>6. ASSUME NEW a \in Agents, Crash(a) PROVE TypeOK'
    BY <2>6 DEF Crash, Master, PageFile, HasPage
  <2>7. ASSUME NEW a \in Agents, PublishFails(a) PROVE TypeOK'
    BY <2>7 DEF PublishFails, Master, PageFile, HasPage
  <2>8. ASSUME NEW a \in Agents, CleanupFails(a) PROVE TypeOK'
    BY <2>8 DEF CleanupFails, Return, Master, PageFile, HasPage
  <2> QED
    BY <2>1, <2>2, <2>3, <2>4, <2>5, <2>6, <2>7, <2>8 DEF Next
<1> QED
  BY <1>1, <1>2, PTL DEF Spec

-----------------------------------------------------------------------------
\* What an agent publishes has been written and flushed.
FullWhenPublished == \A a \in Agents : pc[a] = "publish" => temp[a] = "full"

LEMMA FullInvariant == Spec => []FullWhenPublished
<1>1. Init => FullWhenPublished
  BY DEF Init, FullWhenPublished
<1>2. TypeOK /\ FullWhenPublished /\ [Next]_vars => FullWhenPublished'
  <2> SUFFICES ASSUME TypeOK, FullWhenPublished, [Next]_vars PROVE FullWhenPublished'
    OBVIOUS
  <2> USE DEF TypeOK, FullWhenPublished, Goto, Steps
  <2>1. CASE UNCHANGED vars
    BY <2>1 DEF vars
  <2>2. ASSUME NEW a \in Agents, Open(a) PROVE FullWhenPublished'
    BY <2>2 DEF Open
  <2>3. ASSUME NEW a \in Agents, Write(a) PROVE FullWhenPublished'
    BY <2>3 DEF Write
  <2>4. ASSUME NEW a \in Agents, Publish(a) PROVE FullWhenPublished'
    BY <2>4 DEF Publish
  <2>5. ASSUME NEW a \in Agents, Cleanup(a) PROVE FullWhenPublished'
    BY <2>5 DEF Cleanup, Return, Unlink
  <2>6. ASSUME NEW a \in Agents, PublishFails(a) \/ CleanupFails(a) \/ Crash(a)
        PROVE  FullWhenPublished'
    BY <2>6 DEF PublishFails, CleanupFails, Return, Crash
  <2> QED
    BY <2>1, <2>2, <2>3, <2>4, <2>5, <2>6 DEF Next
<1> QED
  BY <1>1, <1>2, PersistTypeCorrect, PTL DEF Spec

\* The agents implement the shelf: whatever the order of their system calls,
\* whichever of them raise and wherever they crash, a path changes to a whole design only, and an
\* existing one only by an agent run with --force.
THEOREM PersistImplementsShelf == Spec => PersistsAsPromised
<1> DEFINE told == {a \in Agents : request[a].force}
<1>1. Init => Shelf!Init
  BY DEF Init, Shelf!Init, Shelf!Design
<1>2. TypeOK /\ FullWhenPublished /\ [Next]_vars => [Shelf!Next]_<<file, told>>
  <2> SUFFICES ASSUME TypeOK, FullWhenPublished, [Next]_vars
               PROVE  [Shelf!Next]_<<file, told>>
    OBVIOUS
  <2>1. told' = told
    BY DEF vars, Next, Open, Write, Publish, PublishFails, Cleanup, CleanupFails, Crash
  <2>2. ASSUME NEW a \in Agents, Publish(a), MayPublish(a) PROVE Shelf!Next
    <3>1. pc[a] = "publish" /\ temp[a] = "full" /\ target[a] \in Paths
      BY <2>2 DEF Publish, FullWhenPublished, TypeOK
    <3>2. file' = [file EXCEPT ![target[a]] = Shelf!Design(a)]
      BY <2>2, <3>1 DEF Publish, Shelf!Design
    <3>3. a \in told \/ file[target[a]] = Absent
      BY <2>2 DEF MayPublish
    <3>4. Shelf!Put(a, target[a])
      BY <3>2, <3>3, <2>1 DEF Shelf!Put
    <3> QED
      BY <3>1, <3>4 DEF Shelf!Next
  <2>3. ASSUME ~ \E a \in Agents : Publish(a) /\ MayPublish(a) PROVE file' = file
    BY <2>3 DEF vars, Next, Open, Write, Publish, PublishFails, Cleanup, CleanupFails, Crash
  <2> QED
    BY <2>1, <2>2, <2>3
<1> QED
  BY <1>1, <1>2, PersistTypeCorrect, FullInvariant, PTL DEF Spec, PersistsAsPromised, Shelf!Spec

-----------------------------------------------------------------------------
\* The first write of a run finds no temporary file of its own, and an unlink
\* that raised has ended the run.
TempInvariant ==
    \A a \in Agents :
        /\ pc[a] = "open" => temp[a] = "none"
        /\ outcome[a] = "kept" => pc[a] = "returned" /\ status[a] = "raised"
        /\ pc[a] = "returned" /\ temp[a] # "none" => outcome[a] = "kept"

\* A run that was not killed leaves a temporary file only if it could not
\* unlink it, and then it raises.
THEOREM TempsAccounted == Spec => []TempIsAccountedFor
<1>1. Init => TempInvariant
  BY DEF Init, TempInvariant
<1>2. TypeOK /\ TempInvariant /\ [Next]_vars => TempInvariant'
  <2> SUFFICES ASSUME TypeOK, TempInvariant, [Next]_vars PROVE TempInvariant'
    OBVIOUS
  <2> USE DEF TypeOK, TempInvariant, Goto, Ends, Steps
  <2>1. CASE UNCHANGED vars
    BY <2>1 DEF vars
  <2>2. ASSUME NEW a \in Agents, Open(a) PROVE TempInvariant'
    BY <2>2 DEF Open
  <2>3. ASSUME NEW a \in Agents, Write(a) PROVE TempInvariant'
    BY <2>3 DEF Write
  <2>4. ASSUME NEW a \in Agents, Publish(a) PROVE TempInvariant'
    BY <2>4 DEF Publish
  <2>5. ASSUME NEW a \in Agents, PublishFails(a) PROVE TempInvariant'
    BY <2>5 DEF PublishFails
  <2>6. ASSUME NEW a \in Agents, Cleanup(a) PROVE TempInvariant'
    <3>1. temp' = [temp EXCEPT ![a] = "none"] /\ pc[a] = "cleanup" /\ outcome[a] # "kept"
      BY <2>6 DEF Cleanup, Unlink
    <3>2. /\ outcome'[a] # "kept"
          /\ \A b \in Agents \ {a} : /\ pc'[b] = pc[b] /\ outcome'[b] = outcome[b]
                                    /\ status'[b] = status[b]
      BY <2>6, <3>1 DEF Cleanup, Return
    <3> QED
      BY <3>1, <3>2
  <2>7. ASSUME NEW a \in Agents, CleanupFails(a) PROVE TempInvariant'
    BY <2>7 DEF CleanupFails, Return
  <2>8. ASSUME NEW a \in Agents, Crash(a) PROVE TempInvariant'
    BY <2>8 DEF Crash
  <2> QED
    BY <2>1, <2>2, <2>3, <2>4, <2>5, <2>6, <2>7, <2>8 DEF Next
<1>3. TempInvariant => TempIsAccountedFor
  BY DEF TempInvariant, TempIsAccountedFor
<1> QED
  BY <1>1, <1>2, <1>3, PersistTypeCorrect, PTL DEF Spec

-----------------------------------------------------------------------------
Mine(a) == {p \in Paths : <<a, p>> \in published}

\* What a run has published is what it has noted, or notes when the write it
\* cleans up after has ended.
NotedBy(a) ==
    /\ pc[a] \in {"open", "write", "publish"} => created[a] = Mine(a)
    /\ pc[a] = "cleanup" => CreatedNow(a) = Mine(a)
    /\ status[a] = "success" =>
          pc[a] = "returned" /\ created[a] = Mine(a) /\ created[a] # {}
    /\ status[a] = "skipped_exists" =>
          pc[a] = "returned" /\ created[a] = Mine(a) /\ created[a] = {}

NotedWhenPublished == \A a \in Agents : NotedBy(a)

\* A step of one agent leaves what the others published and noted alone.
LEMMA NotedByOthers ==
    ASSUME TypeOK, NotedWhenPublished, NEW a \in Agents, NEW b \in Agents, a # b,
           StepOf(a)
    PROVE  /\ pc'[b] = pc[b] /\ outcome'[b] = outcome[b] /\ created'[b] = created[b]
           /\ status'[b] = status[b] /\ target'[b] = target[b]
           /\ Mine(b)' = Mine(b)
BY DEF StepOf, TypeOK, Open, Write, Publish, PublishFails, Cleanup, CleanupFails, Crash,
       Return, Goto, Ends, Mine

\* The report of a run is true: it names the paths the run published, and
\* it was skipped only if it published none.
THEOREM ReportsAreTrue == Spec => []ReportIsTrue
<1>1. Init => NotedWhenPublished
  BY DEF Init, NotedWhenPublished, NotedBy, Mine
<1>2. TypeOK /\ NotedWhenPublished /\ [Next]_vars => NotedWhenPublished'
  <2> SUFFICES ASSUME TypeOK, NotedWhenPublished, [Next]_vars, NEW b \in Agents
               PROVE  NotedBy(b)'
    BY DEF NotedWhenPublished
  <2> USE DEF NotedBy
  <2>1. CASE UNCHANGED vars
    BY <2>1 DEF vars, NotedWhenPublished, Mine, CreatedNow
  <2>2. ASSUME NEW a \in Agents, a # b, StepOf(a)
        PROVE  /\ pc'[b] = pc[b] /\ outcome'[b] = outcome[b] /\ created'[b] = created[b]
               /\ status'[b] = status[b] /\ target'[b] = target[b]
               /\ Mine(b)' = Mine(b)
    BY <2>2, NotedByOthers
  <2>3. CASE Open(b) \/ Write(b)
    <3>1. created[b] = Mine(b) /\ status[b] \notin {"success", "skipped_exists"}
      BY <2>3 DEF Open, Write, NotedWhenPublished
    <3>2. /\ created' = created /\ status' = status /\ published' = published
          /\ \/ pc'[b] \in {"write", "publish"}
             \/ pc'[b] = "cleanup" /\ outcome'[b] = "raised"
      BY <2>3 DEF Open, Write, Goto, Ends, TypeOK
    <3> QED
      BY <3>1, <3>2 DEF Mine, CreatedNow
  <2>6. CASE Crash(b)
    <3>1. status[b] \notin {"success", "skipped_exists"}
      BY <2>6 DEF Crash, Steps, NotedWhenPublished
    <3>2. status' = status /\ pc'[b] = "crashed"
      BY <2>6 DEF Crash, Goto, TypeOK
    <3> QED
      BY <3>1, <3>2
  <2>7. CASE PublishFails(b)
    <3>1. created[b] = Mine(b) /\ status[b] \notin {"success", "skipped_exists"}
      BY <2>7 DEF PublishFails, NotedWhenPublished
    <3>2. /\ created' = created /\ status' = status /\ published' = published
          /\ pc'[b] = "cleanup" /\ outcome'[b] = "raised"
      BY <2>7 DEF PublishFails, Goto, Ends, TypeOK
    <3> QED
      BY <3>1, <3>2 DEF Mine, CreatedNow
  <2>8. CASE CleanupFails(b)
    <3>1. pc'[b] = "returned" /\ status'[b] = "raised"
      BY <2>8 DEF CleanupFails, Return, Goto, TypeOK
    <3> QED
      BY <3>1
  <2>4. CASE Publish(b)
    <3>1. target[b] \in Paths /\ created[b] = Mine(b) /\ status[b] \notin {"success", "skipped_exists"}
      BY <2>4 DEF Publish, TypeOK, NotedWhenPublished
    <3>2. pc'[b] = "cleanup" /\ created' = created /\ status' = status /\ target' = target
      BY <2>4 DEF Publish, TypeOK, Goto
    <3>3. CASE MayPublish(b)
      <4>1. outcome'[b] = "made" /\ published' = published \cup {<<b, target[b]>>}
        BY <2>4, <3>3 DEF Publish, Ends, TypeOK
      <4>2. Mine(b)' = Mine(b) \cup {target[b]}
        BY <4>1, <3>1 DEF Mine
      <4> QED
        BY <4>1, <4>2, <3>1, <3>2 DEF CreatedNow
    <3>4. CASE ~MayPublish(b)
      <4>1. outcome'[b] = "exists" /\ published' = published
        BY <2>4, <3>4 DEF Publish, Ends, TypeOK
      <4> QED
        BY <4>1, <3>1, <3>2 DEF CreatedNow, Mine
    <3> QED
      BY <3>3, <3>4
  <2>5. CASE Cleanup(b)
    <3>1. CreatedNow(b) = Mine(b) /\ created'[b] = CreatedNow(b) /\ Mine(b)' = Mine(b)
      BY <2>5 DEF Cleanup, TypeOK, NotedWhenPublished, Mine
    <3>2. status[b] \notin {"success", "skipped_exists"}
      BY <2>5 DEF Cleanup, NotedWhenPublished
    <3>3. \/ pc'[b] = "returned" /\ status'[b] = "raised"
          \/ pc'[b] = "open" /\ status' = status
          \/ pc'[b] = "returned"
             /\ status'[b] = IF CreatedNow(b) = {} THEN "skipped_exists" ELSE "success"
      BY <2>5 DEF Cleanup, Return, Goto, TypeOK
    <3> QED
      BY <3>1, <3>2, <3>3
  <2>9. ASSUME NEW a \in Agents, a # b, StepOf(a) PROVE NotedBy(b)'
    BY <2>2, <2>9 DEF NotedWhenPublished, CreatedNow
  <2> QED
    BY <2>1, <2>3, <2>4, <2>5, <2>6, <2>7, <2>8, <2>9 DEF Next, StepOf
<1>3. NotedWhenPublished => ReportIsTrue
  BY DEF NotedWhenPublished, NotedBy, ReportIsTrue, Mine
<1> QED
  BY <1>1, <1>2, <1>3, PersistTypeCorrect, PTL DEF Spec

-----------------------------------------------------------------------------
\* A run of search.py --persist that returns says what it did, whichever calls
\* raised, and leaves nothing but designs unless it could not and raises.
THEOREM RunsEndInOrder == Spec => []EndsInOrder
  BY TempsAccounted, ReportsAreTrue, PTL DEF EndsInOrder
=============================================================================
