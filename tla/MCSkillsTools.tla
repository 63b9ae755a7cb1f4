----------------------------- MODULE MCSkillsTools -----------------------------
(***************************************************************************)
(* The tools of the design and styling skills for TLC: the generators of   *)
(* images, the installer of components, the Tailwind configuration, the    *)
(* recommendations for slides, their backgrounds, and the decks with their *)
(* validator, once with decks that are generated (decks) and once with     *)
(* pages of any marks (pages).  The tools have no state in common: Init    *)
(* chooses which one runs, and the variables of the others stay as they    *)
(* are.                                                                    *)
(***************************************************************************)
EXTENDS Naturals, Sequences, SequencesExt, TLC

CONSTANTS
    MaxCount, BatchStyles, MaxClock, Absent,                    \* of MediaGeneration
    Agents, Components,                                         \* of ShadcnAdd
    Sections, Keys, Values, Plugins, BadPlugin, MaxCalls, NoColon,  \* of TailwindConfig
    Lengths,                                                    \* of SlideDeck
    Writers, MaxMinute, MinutesOfDay, MaxSlides, ByHand         \* of DeckFiles

ASSUME BatchAssumption ==
    MaxCount \in Nat \ {0} /\ BatchStyles \in Nat \ {0} /\ MaxClock \in Nat

\* The configuration keeps its sections and its plugins apart.
ASSUME SectionsAssumption == "plugins" \notin Sections

ASSUME LengthsAssumption == Lengths \subseteq Nat

MCLengths == 1 .. 14

Symmetry ==
    Permutations(Agents) \cup Permutations(Components) \cup Permutations(Values)
        \cup Permutations(Writers)

VARIABLES
    tool,
    environ, clock, file, cmd, count, logo, edits, pc, item, path, found, wakeAt, calledAt, saved, results,
    config, installed, request, agentPc, added, met, since, result,
    extend, plugins, given, output, told, calls,
    total, position, context, before,
    minute, deckFile, deckRequest, deckPc, deckPath, named, left, read, exit,
    tokens, rows, asked, overlay

Media == INSTANCE MediaGeneration
Shadcn == INSTANCE ShadcnAdd WITH pc <- agentPc
Tailwind == INSTANCE TailwindConfig
Slides == INSTANCE SlideDeck
Decks == INSTANCE DeckFiles
    WITH file <- deckFile, request <- deckRequest, pc <- deckPc, path <- deckPath
Background == INSTANCE BrandBackground

ASSUME DecksAssumption ==
    /\ MaxMinute \in Nat /\ MinutesOfDay \in Nat \ {0}
    /\ ByHand \subseteq Seq(Decks!Marks)
    /\ Absent \notin [by : Writers \cup {"hand"}, doc : Seq(Decks!Marks)]

\* Pages with up to four marks after the import.  For the validator "rgb",
\* "rgba" and "hsl" are alike.
Page == INSTANCE TokenValidator
MCByHand ==
    {<<"tokens.css">> \o marks :
        marks \in BoundedSeq(Page!Marks \ {"tokens.css", "rgba", "hsl"}, 4)}

\* The writers of a directory of pages do nothing.
MCIdle == [command |-> "demo", slides |-> Decks!DemoSlides]

mediaVars == <<environ, clock, file, cmd, count, logo, edits, pc, item, path, found, wakeAt, calledAt, saved, results>>
shadcnVars == <<config, installed, request, agentPc, added, met, since, result>>
tailwindVars == <<extend, plugins, given, output, told, calls>>
slidesVars == <<total, position, context, before>>
deckVars == <<minute, deckFile, deckRequest, deckPc, deckPath, named, left, read, exit>>
backgroundVars == <<tokens, rows, asked, overlay>>
allVars == <<tool, mediaVars, shadcnVars, tailwindVars, slidesVars, deckVars, backgroundVars>>

ToolsInit ==
    /\ tool \in {"media", "shadcn", "tailwind", "slides", "decks", "pages", "background"}
    /\ IF tool = "media" THEN Media!Init ELSE
          /\ environ = 0 /\ clock = 0 /\ file = 0 /\ cmd = 0 /\ count = 0 /\ logo = 0 /\ edits = 0 /\ pc = "idle" /\ item = 0
          /\ path = 0 /\ found = 0 /\ wakeAt = 0 /\ calledAt = 0 /\ saved = 0 /\ results = 0
    /\ IF tool = "shadcn" THEN Shadcn!Init ELSE
          /\ config = 0 /\ installed = 0 /\ request = 0
          /\ agentPc = 0 /\ added = 0 /\ met = 0 /\ since = 0 /\ result = 0
    /\ IF tool = "tailwind" THEN Tailwind!Init ELSE
          extend = 0 /\ plugins = 0 /\ given = 0 /\ output = 0 /\ told = 0 /\ calls = 0
    /\ IF tool = "slides" THEN Slides!Init ELSE
          total = 0 /\ position = 0 /\ context = 0 /\ before = 0
    /\ CASE tool = "decks" -> deckFile = [p \in Decks!Paths |-> Absent] /\ Decks!Init
         [] tool = "pages" -> deckRequest = [w \in Writers |-> MCIdle] /\ Decks!Init
         [] OTHER ->
              /\ minute = 0 /\ deckFile = 0 /\ deckRequest = 0 /\ deckPc = 0 /\ deckPath = 0
              /\ named = 0 /\ left = 0 /\ read = 0 /\ exit = 0
    /\ IF tool = "background" THEN Background!Init ELSE
          tokens = 0 /\ rows = 0 /\ asked = 0 /\ overlay = 0

\* The variables of the other tools.
Others ==
    /\ UNCHANGED tool
    /\ tool # "media" => UNCHANGED mediaVars
    /\ tool # "shadcn" => UNCHANGED shadcnVars
    /\ tool # "tailwind" => UNCHANGED tailwindVars
    /\ tool # "slides" => UNCHANGED slidesVars
    /\ tool \notin {"decks", "pages"} => UNCHANGED deckVars
    /\ tool # "background" => UNCHANGED backgroundVars

ToolsNext ==
    /\ \/ tool = "media" /\ Media!Next
       \/ tool = "shadcn" /\ Shadcn!Next
       \/ tool = "tailwind" /\ Tailwind!Next
       \/ tool = "slides" /\ Slides!Next
       \/ tool = "decks" /\ Decks!Next
       \/ tool = "pages" /\ Decks!Check
       \/ tool = "background" /\ Background!Next
    /\ Others

ToolsSpec == ToolsInit /\ [][ToolsNext]_allVars

-----------------------------------------------------------------------------
\* MediaGeneration: a run returns the items it saved, each once (the SVGs of one
\* answer all or none); the file of a result still holds its item; requests keep
\* their distance; and mockups show the logo as long as it is there.
BatchIsAsReported ==
    tool = "media" =>
        /\ Media!TypeOK
        /\ Media!ReportedIsSaved
        /\ Media!BatchKeepsItsFiles
        /\ Media!RequestsAreSpaced
        /\ Media!LogoIsUsed

\* The ui-styling skill.  ShadcnAdd: where the script can see the files, npx comes
\* by one it was not told to overwrite only if another run wrote it since the
\* look, and a run that says it added its components left them all there.
\* TailwindConfig: what is written has everything that was given, once.
StylingIsAsTold ==
    /\ tool = "shadcn" => Shadcn!MetOnlyInARace /\ Shadcn!SuccessMeansInstalled
    /\ tool = "tailwind" => Tailwind!WrittenIsComplete

\* What fills a slide.  SlideDeck: in decks of nine slides or more no two slides
\* after each other are full-bleed, and a full-bleed slide has an image.
\* BrandBackground: whatever is missing of a token file, the overlay above the
\* image is made of colours, and of colours of one layer.
SlidesAreComposed ==
    /\ tool = "slides" => Slides!ApartInLongDecks /\ Slides!FullBleedHasAnImage
    /\ tool = "background" => Background!OverlayHasColours /\ Background!GradientIsOfOneLayer

\* DeckFiles: a deck stays in its file, whatever the runs with other files do;
\* the validator passes decks but for the diamond of the solution slide and
\* texts that look like colours; and how its verdict differs from a browser's
\* reading of the page is known mark by mark.
DecksAreJudgedRightly ==
    /\ tool = "decks" =>
          Decks!GeneratedDeckStays /\ Decks!GeneratedDecksPass /\ Decks!ExitTellsTheStyle
    /\ tool = "pages" => Decks!ExitTellsTheStyle
=============================================================================
