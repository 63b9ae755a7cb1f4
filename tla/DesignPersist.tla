----------------------------- MODULE DesignPersist -----------------------------
(***************************************************************************)
(* Agents that persist a design system at the same time: each runs         *)
(* search.py --persist once, that is persist_design_system on one project  *)
(* and perhaps one page.  A file is written to a temporary file of the     *)
(* same directory and then published: renamed over its path with --force,  *)
(* linked to it (which fails when the path exists) without.                *)
(***************************************************************************)
CONSTANTS
    Agents,         \* processes of search.py, each one run
    Projects,       \* project names
    Pages, NoPage,  \* page names, and a run without --page
    Slugs, Slug,    \* safe_slug: names that differ may have one slug
    Earlier,        \* whoever wrote the files that are there at first
    Absent

ASSUME SlugAssumption == Slug \in [Projects \cup Pages -> Slugs]
ASSUME NamesAssumption ==
    /\ NoPage \notin Pages
    /\ "MASTER" \notin Slugs
    /\ Earlier \notin Agents

Requests == [project : Projects, page : Pages \cup {NoPage}, force : BOOLEAN]

\* A path below design-system/: the project's MASTER.md or a page of it.
Paths == [project : Slugs, file : Slugs \cup {"MASTER"}]

Contents == [by : Agents \cup {Earlier}, whole : BOOLEAN]

ASSUME AbsentAssumption == Absent \notin Contents

VARIABLES
    file,       \* what each path holds
    temp,       \* the temporary file of an agent, as far as it is on disk
    request,    \* what each agent was asked for
    pc,         \* the next system call of each agent
    target,     \* the path it is writing
    outcome,    \* how the write of a file ended: "kept" when its temporary
                \* file could not be removed
    created,    \* its created_files
    status,     \* what it reports
    published   \* each publication there was: who, and where

vars == <<file, temp, request, pc, target, outcome, created, status, published>>

\* Mutant: the project's name is used as it is.
MasterUnslugged(a) == [project |-> request[a].project, file |-> "MASTER"]

Master(a) == [project |-> Slug[request[a].project], file |-> "MASTER"]

PageFile(a) == [project |-> Slug[request[a].project], file |-> Slug[request[a].page]]

HasPage(a) == request[a].page # NoPage

Steps == {"open", "write", "publish", "cleanup"}

\* Every variable has a value the code can give it.
TypeOK ==
    /\ file \in [Paths -> Contents \cup {Absent}]
    /\ temp \in [Agents -> {"none", "partial", "full"}]
    /\ request \in [Agents -> Requests]
    /\ pc \in [Agents -> Steps \cup {"returned", "crashed"}]
    /\ target \in [Agents -> Paths]
    /\ \A a \in Agents : target[a] \in IF HasPage(a) THEN {Master(a), PageFile(a)} ELSE {Master(a)}
    /\ outcome \in [Agents -> {"none", "made", "exists", "raised", "kept"}]
    /\ created \in [Agents -> SUBSET Paths]
    /\ status \in [Agents -> {"none", "success", "skipped_exists", "raised"}]
    /\ published \subseteq Agents \X Paths

\* Whole files of earlier runs, and agents that have made the directories.
Init ==
    /\ file \in [Paths -> {[by |-> Earlier, whole |-> TRUE], Absent}]
    /\ request \in [Agents -> Requests]
    /\ temp = [a \in Agents |-> "none"]
    /\ pc = [a \in Agents |-> "open"]
    /\ target = [a \in Agents |-> Master(a)]
    /\ outcome = [a \in Agents |-> "none"]
    /\ created = [a \in Agents |-> {}]
    /\ status = [a \in Agents |-> "none"]
    /\ published = {}

Goto(a, step) == pc' = [pc EXCEPT ![a] = step]
Ends(a, how) == outcome' = [outcome EXCEPT ![a] = how]

-----------------------------------------------------------------------------
(***************************************************************************)
(* _write_persisted_file.                                                  *)
(***************************************************************************)

\* NamedTemporaryFile, under a name nobody else has; the disk may refuse it.
Open(a) ==
    /\ pc[a] = "open"
    /\ \/ /\ temp' = [temp EXCEPT ![a] = "partial"]
          /\ Goto(a, "write")
          /\ UNCHANGED outcome
       \/ /\ Ends(a, "raised")
          /\ Goto(a, "cleanup")
          /\ UNCHANGED temp
    /\ UNCHANGED <<file, request, target, created, status, published>>

\* Mutant: the file is published before it is flushed.
WriteUnflushed(a) ==
    /\ pc[a] = "write"
    /\ Goto(a, "publish")
    /\ UNCHANGED <<file, temp, request, target, outcome, created, status, published>>

\* write, flush and fsync; a disk that is full raises on the way.
Write(a) ==
    /\ pc[a] = "write"
    /\ \/ /\ temp' = [temp EXCEPT ![a] = "full"]
          /\ Goto(a, "publish")
          /\ UNCHANGED outcome
       \/ /\ Ends(a, "raised")
          /\ Goto(a, "cleanup")
          /\ UNCHANGED temp
    /\ UNCHANGED <<file, request, target, created, status, published>>

\* Mutant: os.replace whether --force was given or not.
MayPublishAlways(a) == TRUE

\* os.replace goes over any file, os.link only where there is none yet.
MayPublish(a) == request[a].force \/ file[target[a]] = Absent

Publish(a) ==
    /\ pc[a] = "publish"
    /\ IF MayPublish(a)
       THEN /\ file' = [file EXCEPT ![target[a]] = [by |-> a, whole |-> temp[a] = "full"]]
            /\ temp' = IF request[a].force THEN [temp EXCEPT ![a] = "none"] ELSE temp
            /\ published' = published \cup {<<a, target[a]>>}
            /\ Ends(a, "made")
       ELSE /\ Ends(a, "exists")
            /\ UNCHANGED <<file, temp, published>>
    /\ Goto(a, "cleanup")
    /\ UNCHANGED <<request, target, created, status>>

\* os.replace or os.link raises for another reason: no links on this file
\* system, no permission, a disk that fails.
PublishFails(a) ==
    /\ pc[a] = "publish"
    /\ Ends(a, "raised")
    /\ Goto(a, "cleanup")
    /\ UNCHANGED <<file, temp, request, target, created, status, published>>

-----------------------------------------------------------------------------
(***************************************************************************)
(* persist_design_system.                                                  *)
(***************************************************************************)

\* Mutant: a file another agent was quicker to make counts as created.
CreatedByAnyone(a) ==
    IF outcome[a] # "raised" THEN created[a] \cup {target[a]} ELSE created[a]

\* created_files, once the call has returned.
CreatedNow(a) == IF outcome[a] = "made" THEN created[a] \cup {target[a]} ELSE created[a]

Return(a, how) ==
    /\ status' = [status EXCEPT ![a] = how]
    /\ Goto(a, "returned")
    /\ UNCHANGED target

\* Mutant: the temporary file is removed only when nothing was raised.
UnlinkIfPublished(a) == IF outcome[a] = "made" THEN "none" ELSE temp[a]

\* The finally clause: temp_name is unlinked if it is still there.
Unlink(a) == "none"

\* MASTER.md first, then the page, whether or not MASTER.md was made; a run
\* that made neither is skipped.
Cleanup(a) ==
    /\ pc[a] = "cleanup"
    /\ temp' = [temp EXCEPT ![a] = Unlink(a)]
    /\ created' = [created EXCEPT ![a] = CreatedNow(a)]
    /\ CASE outcome[a] = "raised" -> Return(a, "raised") /\ UNCHANGED outcome
         [] outcome[a] # "raised" /\ target[a] = Master(a) /\ HasPage(a) ->
               /\ target' = [target EXCEPT ![a] = PageFile(a)]
               /\ Goto(a, "open")
               /\ Ends(a, "none")
               /\ UNCHANGED status
         [] OTHER -> /\ Return(a, IF CreatedNow(a) = {} THEN "skipped_exists" ELSE "success")
                     /\ UNCHANGED outcome
    /\ UNCHANGED <<file, request, published>>

\* The unlink raises, in the place of whatever was raised before: no handler
\* takes it, and a design that was linked is not noted.
CleanupFails(a) ==
    /\ pc[a] = "cleanup" /\ temp[a] # "none"
    /\ Ends(a, "kept")
    /\ Return(a, "raised")
    /\ UNCHANGED <<file, temp, request, created, published>>

\* The process dies; the directory stays as it is.
Crash(a) ==
    /\ pc[a] \in Steps
    /\ Goto(a, "crashed")
    /\ UNCHANGED <<file, temp, request, target, outcome, created, status, published>>

Next ==
    \E a \in Agents :
        \/ Open(a) \/ Write(a) \/ Publish(a) \/ PublishFails(a)
        \/ Cleanup(a) \/ CleanupFails(a)
        \/ Crash(a)

Spec == Init /\ [][Next]_vars

-----------------------------------------------------------------------------
(***************************************************************************)
(* What is claimed.                                                        *)
(***************************************************************************)
Shelf == INSTANCE DesignShelf WITH
            shelf <- file, forced <- {a \in Agents : request[a].force}

\* Every change of a path puts a whole design there, and over another file
\* only with --force: the agents' system calls, in any order and with any
\* crash between them, implement the shelf.
PersistsAsPromised == Shelf!Spec

\* created_files is true: an agent that reports success names exactly the paths
\* it published, and at least one, and one that reports it skipped published
\* none, even if calls of other agents fail or a call of its own did.
ReportIsTrue ==
    \A a \in Agents :
        LET mine == {p \in Paths : <<a, p>> \in published}
        IN  /\ status[a] = "success" => created[a] = mine /\ mine # {}
            /\ status[a] = "skipped_exists" => mine = {}

\* A temporary file stays beside the designs only after a run that was killed,
\* or that could not unlink it: and that one ends with an exception, whatever
\* it published before.
TempIsAccountedFor ==
    \A a \in Agents :
        /\ pc[a] = "returned" /\ temp[a] # "none" => outcome[a] = "kept"
        /\ outcome[a] = "kept" => status[a] = "raised"

\* How a run ends, whatever the others did meanwhile and whichever of its
\* system calls raised: what it reports is so, and what it could not clean up
\* it does not pass over.
EndsInOrder == ReportIsTrue /\ TempIsAccountedFor
===============================================================================
