------------------------------- MODULE ShadcnAdd -------------------------------
(***************************************************************************)
(* ui-styling/scripts/shadcn_add.py, run by several agents in one project: *)
(* ShadcnInstaller looks at components.json and at the components there    *)
(* are, and then has npx shadcn add the ones it was asked for.             *)
(***************************************************************************)
EXTENDS Naturals

CONSTANTS
    Agents,         \* runs of the script
    Components      \* names of components

VARIABLES
    config,         \* what components.json tells the script
    installed,      \* the components that have a file
    request,        \* what each run is asked for
    pc,             \* the next step of each run
    added,          \* the components its npx has come by
    met,            \* history: those of them that had a file by then
    since,          \* history: those that other runs wrote since it looked
    result          \* (success, message) without the wording

vars == <<config, installed, request, pc, added, met, since, result>>

\* components.json is not there; it cannot be read or is no JSON; it is JSON
\* of another shape; its alias is not where the script takes it to be, "@/"
\* left out; the project has no TypeScript, so that its components are .jsx;
\* or none of this.  Nobody changes it while the script runs.
Configs == {"absent", "malformed", "odd", "elsewhere", "jsx", "plain"}

\* --all, --list, or names; every run may have --overwrite and --dry-run.
Requests ==
    [does : {"add", "all", "list"}, want : SUBSET Components,
     overwrite : BOOLEAN, dry : BOOLEAN]

Init ==
    /\ config \in Configs
    /\ installed \in SUBSET Components
    /\ request \in [Agents -> {r \in Requests :
          r.does # "add" => r.want = IF r.does = "all" THEN Components ELSE {}}]
    /\ pc = [a \in Agents |-> "start"]
    /\ added = [a \in Agents |-> {}]
    /\ met = [a \in Agents |-> {}]
    /\ since = [a \in Agents |-> {}]
    /\ result = [a \in Agents |-> "none"]

Goto(a, step) == pc' = [pc EXCEPT ![a] = step] /\ UNCHANGED result

Return(a, how) ==
    /\ result' = [result EXCEPT ![a] = how]
    /\ pc' = [pc EXCEPT ![a] = "done"]

\* _get_shadcn_version comes before --dry-run; a package.json that cannot be
\* read, or is of another shape, ends the run.
Launch(a) ==
    \/ Return(a, "raised")
    \/ IF request[a].dry THEN Return(a, "dry") ELSE Goto(a, "npx")

\* check_shadcn_config, and what main and add_components refuse at once.
Start(a) ==
    /\ pc[a] = "start"
    /\ CASE request[a].does = "add" /\ request[a].want = {} -> Return(a, "refused")
         [] config = "absent" -> Return(a, "refused")
         [] config # "absent" /\ request[a].does = "all" -> Launch(a)
         [] OTHER -> Goto(a, "look")
    /\ UNCHANGED <<config, installed, request, added, met, since>>

\* get_installed_components: the names of the *.tsx files where the alias of
\* the components leads, if that can be told at all.
InstalledComponents == IF config = "plain" THEN installed ELSE {}

\* Mutant: only a request for nothing new is refused.
AlreadyInstalledAll(a) == request[a].want \subseteq InstalledComponents

AlreadyInstalled(a) == request[a].want \cap InstalledComponents # {}

\* A configuration of another shape has no get: an AttributeError.
Look(a) ==
    /\ pc[a] = "look"
    /\ since' = [since EXCEPT ![a] = {}]
    /\ CASE config = "odd" -> Return(a, "raised")
         [] config # "odd" /\ request[a].does = "list" -> Return(a, "listed")
         [] config # "odd" /\ request[a].does = "add" /\ AlreadyInstalled(a)
               /\ ~request[a].overwrite -> Return(a, "refused")
         [] OTHER -> Launch(a)
    /\ UNCHANGED <<config, installed, request, added, met>>

-----------------------------------------------------------------------------
(***************************************************************************)
(* subprocess.run of npx shadcn add.                                       *)
(***************************************************************************)

\* npx takes one component after the other; where there is a file already, it
\* is npx that decides on it.
NpxAdd(a) ==
    /\ pc[a] = "npx"
    /\ \E c \in request[a].want \ added[a] :
          /\ installed' = installed \cup {c}
          /\ added' = [added EXCEPT ![a] = @ \cup {c}]
          /\ met' = [met EXCEPT ![a] = @ \cup ({c} \cap installed)]
          /\ since' = [b \in Agents |-> since[b] \cup IF b = a THEN {} ELSE {c}]
    /\ UNCHANGED <<config, request, pc, result>>

\* Mutant: without check=True a failed command counts.
OutcomeUnchecked(exit) == IF exit = "not found" THEN "failed" ELSE "success"

\* check=True makes a CalledProcessError of an exit status that is not 0; npx
\* may not be there either.
Outcome(exit) == IF exit = "ok" THEN "success" ELSE "failed"

NpxExit(a) ==
    /\ pc[a] = "npx"
    /\ \E exit \in {"ok", "error", "not found"} :
          /\ exit = "ok" => added[a] = request[a].want
          /\ exit = "not found" => added[a] = {}
          /\ Return(a, Outcome(exit))
    /\ UNCHANGED <<config, installed, request, added, met, since>>

Next == \E a \in Agents : Start(a) \/ Look(a) \/ NpxAdd(a) \/ NpxExit(a)

-----------------------------------------------------------------------------
\* What the check before npx is worth.  Where the script can see the files, npx
\* is told to add a component that has one, without --overwrite, only if
\* another run wrote that file between the look of this run and its npx.  (A run
\* with --all does not look, and where components.json hides the files a look
\* does not help.)
MetOnlyInARace ==
    \A a \in Agents :
        config = "plain" /\ request[a].does = "add" /\ ~request[a].overwrite
        => met[a] \subseteq since[a]

\* A run that says it added its components left them all in the project.
SuccessMeansInstalled ==
    \A a \in Agents : result[a] = "success" => request[a].want \subseteq installed
=============================================================================
