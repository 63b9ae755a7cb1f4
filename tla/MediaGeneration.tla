---------------------------- MODULE MediaGeneration ----------------------------
(***************************************************************************)
(* The generators of the design skill: icon/generate.py, logo/generate.py  *)
(* and cip/generate.py.  A run asks the model for one image or for a batch *)
(* and saves what comes back under names made of a slug and an index, a    *)
(* size, a style or the time in seconds.  A call may bring nothing or an   *)
(* error, a write may fail with the file truncated, and somebody may take  *)
(* the logo a mockup is to show away.                                      *)
(***************************************************************************)
EXTENDS Naturals, Sequences, FiniteSets, SequencesExt, TLC

CONSTANTS
    MaxCount,       \* bound: what a batch may be asked for
    BatchStyles,    \* len(batch_styles) of the logo batch (9)
    MaxClock,       \* bound: seconds
    Absent

VARIABLES
    environ,        \* the keys there are after load_env
    clock,          \* the time in seconds
    file,           \* what each path holds
    cmd, count,     \* what the run was asked for
    logo,           \* the file of --logo: "there", "gone" or "not given"
    edits,          \* the run sends the logo with its requests
    pc, item,       \* its next step, and the item of the batch it is at
    path,           \* where it saves the item
    found,          \* the SVGs of a batch answer
    wakeAt,         \* when its time.sleep ends
    calledAt,       \* when it called the model
    saved,          \* the items it wrote in full
    results         \* what it returns

asked == <<environ, cmd, count>>
batchVars == <<item, wakeAt, saved, results>>
logoVars == <<logo, edits>>
vars == <<asked, clock, file, logoVars, pc, path, found, calledAt, batchVars>>

\* main of icon/generate.py, of logo/generate.py and of cip/generate.py.
IconCommands == {"icon", "icon_batch", "icon_sizes"}
LogoCommands == {"logo", "logo_batch"}
CipCommands == {"cip", "cip_set"}
Commands == IconCommands \cup LogoCommands \cup CipCommands
Items == 1 .. MaxCount

KeyNames == {"GEMINI_API_KEY", "GOOGLE_API_KEY"}

\* load_env: the variables of the process, and those of the .env files that
\* are not set yet.
LoadEnv(process, envFiles) == process \cup UNION envFiles

\* The key generate_icon and generate_logo need, and generate_with_nano_banana.
GeminiKey == "GEMINI_API_KEY" \in environ
EitherKey == environ # {}

\* What a requested deliverable is called once build_cip_prompt has searched
\* it: two requests may find one deliverable.
Deliverables == {"letterhead", "vehicle"}

Paths ==
    [kind : {"icon", "logo"}, tag : 0 .. MaxClock]
        \cup [kind : {"icon_batch", "icon_sizes", "logo_batch"}, tag : Items]
        \cup [kind : {"mockup"}, of : Deliverables, tag : 0 .. MaxClock]

Images == [item : Items, whole : BOOLEAN]
NoPath == [kind |-> "icon", tag |-> 0]

\* Every variable has a value the code can give it.
TypeOK ==
    /\ environ \subseteq KeyNames
    /\ clock \in 0 .. MaxClock
    /\ file \in [Paths -> Images \cup {Absent}]
    /\ cmd \in Commands /\ count \in Items
    /\ logo \in {"there", "gone", "not given"} /\ edits \in BOOLEAN
    /\ pc \in {"begin", "set", "call", "answer", "open", "write", "sleep", "done"}
    /\ item \in Items
    /\ path \in Paths
    /\ found \in 0 .. MaxCount
    /\ wakeAt \in 0 .. MaxClock + 2
    /\ calledAt \in Seq(0 .. MaxClock)
    /\ saved \subseteq Items
    /\ results \in Seq([item : Items, path : Paths])

Init ==
    /\ \E process, envFile \in SUBSET KeyNames : environ = LoadEnv(process, {envFile})
    /\ cmd \in Commands /\ count \in Items
    /\ cmd \in {"icon", "logo", "cip"} => count = 1
    /\ clock = 0
    /\ file = [p \in Paths |-> Absent]
    /\ logo \in IF cmd \in CipCommands THEN {"there", "not given"} ELSE {"not given"}
    /\ edits = FALSE
    /\ pc = IF cmd \in CipCommands THEN "begin" ELSE "call"
    /\ item = 1 /\ path = NoPath /\ found = 0
    /\ wakeAt = 0 /\ calledAt = <<>>
    /\ saved = {} /\ results = <<>>

Tick ==
    /\ clock < MaxClock
    /\ clock' = clock + 1
    /\ UNCHANGED <<asked, file, logoVars, pc, path, found, calledAt, batchVars>>

\* Somebody takes the logo away while the run has still to load it.
LogoIsTakenAway ==
    /\ pc \in {"begin", "set"}
    /\ logo = "there"
    /\ logo' = "gone"
    /\ UNCHANGED <<asked, clock, file, edits, pc, path, found, calledAt, batchVars>>

-----------------------------------------------------------------------------
(***************************************************************************)
(* The logo of a mockup: main loads it, and generate_cip_set loads it      *)
(* again.                                                                  *)
(***************************************************************************)
beforeTheCalls == <<asked, clock, file, logo, path, found, calledAt, batchVars>>

\* check_logo_required: what the user says without --logo.
CheckLogoRequired == {"continue", "generate", "exit"}

\* main: a logo that cannot be loaded ends the run.
Begin ==
    /\ pc = "begin"
    /\ edits' = (logo = "there")
    /\ \E action \in CheckLogoRequired :
          pc' = IF logo = "gone" \/ (logo = "not given" /\ action # "continue") THEN "done"
                ELSE IF cmd = "cip_set" THEN "set" ELSE "call"
    /\ UNCHANGED beforeTheCalls

\* Mutant: main does not pass --logo on to the set.
LoadsNothing == FALSE

\* load_logo_image
LoadsAgain == logo = "there"

\* generate_cip_set: a logo that cannot be loaded now is left out.
BeginSet ==
    /\ pc = "set"
    /\ edits' = LoadsAgain
    /\ pc' = "call"
    /\ UNCHANGED beforeTheCalls

-----------------------------------------------------------------------------
(***************************************************************************)
(* The loops of the batches.                                               *)
(***************************************************************************)

\* time.sleep: a second after every size, two between the requests for logos.
Pause ==
    CASE cmd = "icon_sizes" -> 1
      [] cmd = "logo_batch" -> IF item < count THEN 2 ELSE 0
      [] OTHER -> 0

\* Mutant: a request that brought nothing is followed by the next at once.
PauseAfterSuccess == IF saved' # saved THEN Pause ELSE 0

PauseAfter == Pause

\* How many items the loop has: an SVG batch those it found, a logo batch
\* not more than it has styles.
Length ==
    CASE cmd = "icon_batch" -> found
      [] cmd = "logo_batch" -> IF count < BatchStyles THEN count ELSE BatchStyles
      [] OTHER -> count

\* Mutant: the loop goes one item too far.
IsPastLast == item > Length

IsLast == item >= Length

GoOn ==
    /\ wakeAt' = clock + PauseAfter
    /\ IF IsLast
       THEN pc' = "done" /\ UNCHANGED item
       ELSE /\ item' = item + 1
            /\ pc' = IF cmd = "icon_batch" THEN "open" ELSE "sleep"

\* Mutant: the first item that fails gives the batch up.
SharesTheTry == FALSE

\* One call per item: an item that fails leaves the others alone.  The SVGs
\* of one answer share a try, so that one that fails gives them all up.
HasItsOwnTry == cmd # "icon_batch"

Fails ==
    /\ UNCHANGED saved
    /\ IF HasItsOwnTry
       THEN GoOn /\ UNCHANGED results
       ELSE results' = <<>> /\ pc' = "done" /\ UNCHANGED <<item, wakeAt>>

Wake ==
    /\ pc = "sleep"
    /\ clock >= wakeAt
    /\ pc' = "call"
    /\ UNCHANGED <<asked, clock, file, logoVars, path, found, calledAt, batchVars>>

-----------------------------------------------------------------------------
(***************************************************************************)
(* The call, what it brings, and the file.                                 *)
(***************************************************************************)

\* Without a key there is no call.
Calls(hasKey) ==
    /\ pc = "call"
    /\ IF hasKey
       THEN /\ calledAt' = Append(calledAt, clock)
            /\ pc' = "answer"
            /\ UNCHANGED batchVars
       ELSE Fails /\ UNCHANGED calledAt
    /\ UNCHANGED <<asked, clock, file, logoVars, path, found>>

\* generate_icon, the generate_batch of icons, generate_logo, and
\* generate_with_nano_banana.
CallIcon == cmd \in {"icon", "icon_sizes"} /\ Calls(GeminiKey)
CallIconBatch == cmd = "icon_batch" /\ Calls(GeminiKey)
CallLogo == cmd \in LogoCommands /\ Calls(GeminiKey)
CallCip == cmd = "cip" /\ Calls(EitherKey)
CallCipSet == cmd = "cip_set" /\ Calls(EitherKey)

\* Mutant: the size is not part of the name of an icon.
NameWithoutSize(i) == [kind |-> cmd, tag |-> IF cmd = "icon_sizes" THEN 1 ELSE i]

\* Batches number their files or name them for a size (each asked for once)
\* or a style.
NameInBatch(i) == [kind |-> cmd, tag |-> i]

\* A single icon or logo, without --output, and a mockup are named for the
\* second; a mockup also for the deliverable.
SecondPath == [kind |-> cmd, tag |-> clock]
MockupPaths == [kind : {"mockup"}, of : Deliverables, tag : {clock}]

\* Nothing, or an error, or something to save.
Answers(number) ==
    /\ pc = "answer"
    /\ \/ Fails /\ UNCHANGED found
       \/ /\ found' \in number
          /\ pc' = "open"
          /\ UNCHANGED batchVars
    /\ UNCHANGED <<asked, clock, file, logoVars, path, calledAt>>

\* extract_svgs finds any number of SVGs, of which a batch keeps as many as
\* it was asked for.
Extracted == 1 .. count

AnswerIcon == cmd \in {"icon", "icon_sizes"} /\ Answers({1})
AnswerIconBatch == cmd = "icon_batch" /\ Answers(Extracted)
AnswerLogo == cmd \in LogoCommands /\ Answers({1})
AnswerCip == cmd \in CipCommands /\ Answers({1})

\* open(path, "w") truncates what is there, or raises.
Opens(paths) ==
    /\ pc = "open"
    /\ path' \in paths
    /\ \/ /\ file' = [file EXCEPT ![path'] = [item |-> item, whole |-> FALSE]]
          /\ pc' = "write"
          /\ UNCHANGED batchVars
       \/ Fails /\ UNCHANGED file
    /\ UNCHANGED <<asked, clock, logoVars, found, calledAt>>

OpenIcon == cmd = "icon" /\ Opens({SecondPath})
OpenIconBatch == cmd = "icon_batch" /\ Opens({NameInBatch(item)})
OpenIconSize == cmd = "icon_sizes" /\ Opens({NameInBatch(item)})
OpenLogo == cmd = "logo" /\ Opens({SecondPath})
OpenLogoBatch == cmd = "logo_batch" /\ Opens({NameInBatch(item)})
OpenMockup == cmd \in CipCommands /\ Opens(MockupPaths)

Write ==
    /\ pc = "write"
    /\ \/ /\ file' = [file EXCEPT ![path] = [item |-> item, whole |-> TRUE]]
          /\ saved' = saved \cup {item}
          /\ results' = Append(results, [item |-> item, path |-> path])
          /\ GoOn
       \/ Fails /\ UNCHANGED file
    /\ UNCHANGED <<asked, clock, logoVars, path, found, calledAt>>

Next ==
    \/ Tick \/ LogoIsTakenAway \/ Begin \/ BeginSet
    \/ CallIcon \/ CallIconBatch \/ CallLogo \/ CallCip \/ CallCipSet
    \/ AnswerIcon \/ AnswerIconBatch \/ AnswerLogo \/ AnswerCip
    \/ OpenIcon \/ OpenIconBatch \/ OpenIconSize
    \/ OpenLogo \/ OpenLogoBatch \/ OpenMockup
    \/ Write \/ Wake

-----------------------------------------------------------------------------
(***************************************************************************)
(* What is claimed.                                                        *)
(***************************************************************************)
Reported == {results[k].item : k \in DOMAIN results}

\* Partial failure: a run returns the items it saved, each once; an item that
\* failed neither is among them nor keeps a later one from its request.  The
\* SVGs of one answer are returned all or none.
ReportedIsSaved ==
    pc = "done" =>
        /\ Len(results) = Cardinality(Reported)
        /\ IF cmd = "icon_batch"
           THEN Reported # {} => Reported = saved /\ saved = 1 .. found
           ELSE /\ Reported = saved
                /\ calledAt # <<>> => Len(calledAt) = Length

\* The file of a result still holds the item it was returned for, in full:
\* no later item of the batch has taken its name.
BatchKeepsItsFiles ==
    cmd \notin CipCommands =>
        \A k \in DOMAIN results :
            file[results[k].path] = [item |-> results[k].item, whole |-> TRUE]

\* The pauses keep the requests of a batch apart, whatever became of them:
\* a second between the sizes of an icon, two between logos.
RequestsAreSpaced ==
    \A k \in 2 .. Len(calledAt) :
        calledAt[k] >= calledAt[k - 1] +
            (CASE cmd = "icon_sizes" -> 1 [] cmd = "logo_batch" -> 2 [] OTHER -> 0)

\* The mockups of a run with --logo are made with the logo, unless somebody
\* took it away before the set loaded it again ("falling back to
\* text-to-image mode", cip/generate.py:305): what main checked is not what
\* the set uses.
LogoIsUsed ==
    logo = "there" /\ pc \notin {"begin", "set"} => edits
=============================================================================
