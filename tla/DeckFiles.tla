------------------------------- MODULE DeckFiles -------------------------------
(***************************************************************************)
(* The decks of assets/designs/slides: agents run generate-slide.py, which *)
(* writes a deck to a file named for the minute or the day or to --output, *)
(* and html-token-validator.py, which reads the files of the directory one *)
(* after the other.                                                        *)
(***************************************************************************)
EXTENDS TokenValidator

CONSTANTS
    Writers,        \* runs of generate-slide.py
    MaxMinute,      \* bound: minutes; one day has MinutesOfDay of them
    MinutesOfDay,
    MaxSlides,      \* bound: slides of a deck
    ByHand,         \* documents of the directory that no generator wrote
    Absent

VARIABLES
    minute,         \* datetime.now()
    file,           \* what each path of the directory holds
    request,        \* the arguments of each writer
    pc,             \* its next step
    path,           \* its output_path
    named,          \* the minute in which it chose it
    left,           \* the paths the validator has still to read, by their place
    read,           \* what it read of each, and whether it passed
    exit            \* how far it is, or how it exits

writerVars == <<request, pc, path, named>>
checkVars == <<left, read, exit>>
vars == <<minute, file, writerVars, checkVars>>

-----------------------------------------------------------------------------
(***************************************************************************)
(* generate_deck.                                                          *)
(***************************************************************************)

\* int(value) raises for the bars of a chart whose value is not a number.
BadChart == [type |-> "chart", text |-> "NaN"]

\* Slides that differ in their marks: those of metrics, charts and testimonials
\* have the marks of problems.  A text may look like a colour ("#100").
Slides ==
    [type : {"title", "problem", "solution", "cta"}, text : {"plain", "hash"}]
        \cup {[type |-> "unknown", text |-> "plain"], BadChart}

\* Of each type the text next to an inline style, if there is one.
Text(slide) == IF slide.text = "hash" THEN <<"lookalike">> ELSE <<>>

(***************************************************************************)
(* SLIDE_GENERATORS: the diamond of the solution slide (&#9670;) has the   *)
(* form of a colour; the closing slide has white with transparency; a type *)
(* without a generator is left out.                                        *)
(***************************************************************************)
MarksOf(slide) ==
    CASE slide.type = "title" -> Text(slide)
      [] slide.type = "problem" -> <<"style=", "end">> \o Text(slide)
      [] slide.type = "solution" -> Text(slide) \o <<"style=", "end", "lookalike">>
      [] slide.type = "cta" -> Text(slide) \o <<"style=", "brand-rgba", "end">>
      [] OTHER -> <<>>

Template == <<"url", "gap", "tokens.css", "<style", "</style">>

GenerateDeck(slides) ==
    LET html[k \in 0 .. Len(slides)] ==
            IF k = 0 THEN Template ELSE html[k - 1] \o (<<"gap">> \o MarksOf(slides[k]))
    IN  html[Len(slides)]

-----------------------------------------------------------------------------
(***************************************************************************)
(* The directory.                                                          *)
(***************************************************************************)

\* In the order of their names: byhand.html, deck-..., demo-..., out.html.
PathSeq ==
    <<[kind |-> "byhand", tag |-> 0]>>
        \o [t \in 1 .. MaxMinute + 1 |-> [kind |-> "deck", tag |-> t - 1]]
        \o [t \in 1 .. MaxMinute + 1 |-> [kind |-> "demo", tag |-> t - 1]]
        \o <<[kind |-> "output", tag |-> 0]>>
Paths == ToSet(PathSeq)
NoPath == PathSeq[1]

\* demo_slides: title, problem, solution, metrics, chart, testimonial, cta.
DemoSlides ==
    [k \in 1 .. 7 |->
        [type |-> <<"title", "problem", "solution", "problem", "problem", "problem", "cta">>[k],
         text |-> "plain"]]

Requests ==
    [command : {"json", "output"}, slides : BoundedSeq(Slides, MaxSlides)]
        \cup [command : {"demo"}, slides : {DemoSlides}]

\* A file that is not there fails as one that has no import.
DocOf(content) == IF content = Absent THEN <<>> ELSE content.doc

Init ==
    /\ minute = 0
    /\ \E byHand \in [by : {"hand"}, doc : ByHand] \cup {Absent} :
          file = [p \in Paths |-> IF p.kind = "byhand" THEN byHand ELSE Absent]
    /\ request \in [Writers -> Requests]
    /\ pc = [w \in Writers |-> "generate"]
    /\ path = [w \in Writers |-> NoPath]
    /\ named = [w \in Writers |-> 0]
    /\ left = {} /\ read = <<>> /\ exit = "idle"

Tick ==
    /\ minute < MaxMinute
    /\ minute' = minute + 1
    /\ UNCHANGED <<file, writerVars, checkVars>>

-----------------------------------------------------------------------------
(***************************************************************************)
(* main of generate-slide.py: the deck is made, then its path is named,    *)
(* then the file is opened and written.                                    *)
(***************************************************************************)
Generate(w) ==
    /\ pc[w] = "generate"
    /\ pc' = [pc EXCEPT ![w] =
                IF \E k \in DOMAIN request[w].slides : request[w].slides[k] = BadChart
                THEN "raised" ELSE "name"]
    /\ UNCHANGED <<minute, file, request, path, named, checkVars>>

\* Mutant: the name of a deck has the day alone.
NameOfTheDay(command, now) ==
    [kind |-> "deck", tag |-> now \div MinutesOfDay]

\* deck-%y%m%d-%H%M and demo-pitch-%y%m%d.
NameAt(command, now) ==
    CASE command = "json" -> [kind |-> "deck", tag |-> now]
      [] command = "demo" -> [kind |-> "demo", tag |-> now \div MinutesOfDay]
      [] command = "output" -> [kind |-> "output", tag |-> 0]

Name(w) ==
    /\ pc[w] = "name"
    /\ path' = [path EXCEPT ![w] = NameAt(request[w].command, minute)]
    /\ named' = [named EXCEPT ![w] = minute]
    /\ pc' = [pc EXCEPT ![w] = "open"]
    /\ UNCHANGED <<minute, file, request, checkVars>>

Deck(w) == [by |-> w, doc |-> GenerateDeck(request[w].slides)]

\* write_text truncates the file and then writes it.
Open(w) ==
    /\ pc[w] = "open"
    /\ file' = [file EXCEPT ![path[w]] = [by |-> w, doc |-> <<>>]]
    /\ pc' = [pc EXCEPT ![w] = "write"]
    /\ UNCHANGED <<minute, request, path, named, checkVars>>

Write(w) ==
    /\ pc[w] = "write"
    /\ file' = [file EXCEPT ![path[w]] = Deck(w)]
    /\ pc' = [pc EXCEPT ![w] = "done"]
    /\ UNCHANGED <<minute, request, path, named, checkVars>>

-----------------------------------------------------------------------------
(***************************************************************************)
(* main of html-token-validator.py, also behind slide-token-validator.py.  *)
(***************************************************************************)

\* validate_directory takes the files that are there now; a path that is
\* given, here that of byhand.html, is read whether it is there or not.
StartCheck ==
    /\ exit = "idle"
    /\ \/ left' = {k \in DOMAIN PathSeq : file[PathSeq[k]] # Absent}
       \/ left' = {1}
    /\ exit' = "reading"
    /\ UNCHANGED <<minute, file, writerVars, read>>

\* validate_file
ValidateFile ==
    /\ left # {}
    /\ LET p == PathSeq[Min(left)] IN
          read' = [q \in DOMAIN read \cup {p} |->
                     IF q = p THEN [content |-> file[p], passed |-> Passes(DocOf(file[p]))]
                     ELSE read[q]]
    /\ left' = left \ {Min(left)}
    /\ UNCHANGED <<minute, file, writerVars, exit>>

PrintSummary ==
    /\ exit = "reading" /\ left = {}
    /\ exit' = IF \A p \in DOMAIN read : read[p].passed THEN "success" ELSE "failure"
    /\ UNCHANGED <<minute, file, writerVars, left, read>>

Check == StartCheck \/ ValidateFile \/ PrintSummary

Next ==
    \/ Tick
    \/ \E w \in Writers : Generate(w) \/ Name(w) \/ Open(w) \/ Write(w)
    \/ Check

-----------------------------------------------------------------------------
(***************************************************************************)
(* What is claimed.                                                        *)
(***************************************************************************)

\* Whoever has the same file to write: the decks of one minute, the demos of
\* one day, the runs with the same --output.
TakesTheFileOf(v, w) ==
    /\ v # w
    /\ pc[v] \in {"open", "write", "done"}
    /\ request[v].command = request[w].command
    /\ CASE request[w].command = "json" -> named[v] = named[w]
         [] request[w].command = "demo" -> named[v] \div MinutesOfDay = named[w] \div MinutesOfDay
         [] OTHER -> TRUE

\* A deck that was generated stays where it was written unless a run that takes
\* its file does so, and then what is there is of one such run: all of its
\* deck, or nothing of it as long as that run is writing.  Runs of other
\* minutes, days and paths leave it alone, wherever they fail.
GeneratedDeckStays ==
    \A w \in Writers :
        pc[w] = "done" =>
            \E v \in Writers :
                /\ v = w \/ TakesTheFileOf(v, w)
                /\ \/ file[path[w]] = Deck(v)
                   \/ pc[v] = "write" /\ file[path[w]] = [by |-> v, doc |-> <<>>]

\* "ALL styles MUST use CSS variables" (generate-slide.py:5): the validator
\* passes a whole deck of the generator unless it has a solution slide, whose
\* diamond it takes for a colour, or a text that looks like a colour next to
\* an inline style.
GeneratedDecksPass ==
    \A p \in DOMAIN read :
        \A w \in Writers :
            read[p].content = Deck(w) =>
                (read[p].passed <=>
                    \A k \in DOMAIN request[w].slides :
                        LET slide == request[w].slides[k]
                        IN  /\ slide.type # "solution"
                            /\ slide.text = "hash" => slide.type = "title")

\* What the exit is worth.  The validator succeeds exactly if every document it
\* read has the import, has no literal that styles the page, as a browser reads
\* it, but for those that it overlooks, and nothing that raises a false alarm.
\* Of a file whose writing had only begun it says that the import is missing.
ExitTellsTheStyle ==
    exit \in {"success", "failure"} /\ (\A p \in DOMAIN read : TagsAreTags(DocOf(read[p].content))) =>
        (exit = "success" <=>
            \A p \in DOMAIN read :
                LET doc == DocOf(read[p].content)
                IN  /\ \E i \in DOMAIN doc : doc[i] = "tokens.css"
                    /\ StylesThePage(doc) \subseteq Overlooked(doc)
                    /\ FalseAlarms(doc) = {})
================================================================================
