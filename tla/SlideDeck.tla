------------------------------- MODULE SlideDeck -------------------------------
(***************************************************************************)
(* design-system/scripts/slide_search_core.py: an agent builds a deck and  *)
(* asks search_with_context for one slide after the other, with the        *)
(* position (from 1), the length of the deck and the emotion of the slide  *)
(* before.                                                                 *)
(***************************************************************************)
EXTENDS Naturals, Sequences, SequencesExt

CONSTANTS
    Lengths         \* the lengths of the decks that are built

VARIABLES
    total,          \* slides of this deck
    position,       \* the last slide that was asked for
    context,        \* its recommendation
    before          \* the recommendation of the slide before it

vars == <<total, position, context, before>>

None == "none"
NoContext == [goal |-> None, emotion |-> None, fullBleed |-> FALSE, break |-> FALSE, background |-> None]

Init ==
    /\ total \in Lengths
    /\ position = 0
    /\ context = NoContext /\ before = NoContext

-----------------------------------------------------------------------------
(***************************************************************************)
(* The goal, and the row of slide-layout-logic.csv for it; a goal without  *)
(* a row of its own gets that of features.                                 *)
(***************************************************************************)
Domains == <<"strategy", "layout", "copy", "chart">>

\* detect_domain: the first of the domains with the most keywords.
DetectDomain(score) ==
    LET best == SelectSeq(Domains, LAMBDA d : \A e \in ToSet(Domains) : score[d] >= score[e])
    IN  IF score[Head(best)] > 0 THEN Head(best) ELSE "strategy"

\* The words that name a goal, in the order they are looked for.
GoalWords == <<"problem", "solution", "cta", "hook", "traction">>

\* search_with_context: a word that names a goal goes before the domain.
GoalOf(words, score) ==
    Head(SelectSeq(GoalWords, LAMBDA w : w \in words) \o <<DetectDomain(score)>>)

LayoutLogic == [
    hook     |-> [emotion |-> "curiosity",   usesBackground |-> TRUE],
    problem  |-> [emotion |-> "frustration", usesBackground |-> FALSE],
    solution |-> [emotion |-> "relief",      usesBackground |-> TRUE],
    traction |-> [emotion |-> "confidence",  usesBackground |-> FALSE],
    cta      |-> [emotion |-> "urgency",     usesBackground |-> TRUE],
    features |-> [emotion |-> "clarity",     usesBackground |-> FALSE]]

\* get_layout_for_goal
Layout(goal) == LayoutLogic[IF goal \in DOMAIN LayoutLogic THEN goal ELSE "features"]

\* The slide types of slide-backgrounds.csv.
Backgrounds == {"hero", "vision", "team", "testimonial", "cta", "problem", "solution", "hook", "social", "demo"}

\* get_background_config, for a layout that uses a background image.
Background(goal) ==
    IF Layout(goal).usesBackground /\ goal \in Backgrounds THEN goal ELSE None

-----------------------------------------------------------------------------
(***************************************************************************)
(* The place of a slide in its deck.                                       *)
(***************************************************************************)

\* Mutant: the deck is cut in four.
QuarterPositions(n) == {1, n \div 4, (n \div 4) * 2, n - 1}

StrategicPositions(n) == {1, n \div 3, (n \div 3) * 2, n - 1}

\* Mutant: every strong emotion of the table counts.
StrongBeats == {"hope", "urgency", "fear", "curiosity", "frustration"}

HighEmotionBeats == {"hope", "urgency", "fear", "curiosity"}

\* should_use_full_bleed
FullBleed(i, n, emotion) ==
    /\ emotion \in HighEmotionBeats
    /\ n >= 3
    /\ i \in StrategicPositions(n)

\* calculate_pattern_break: of the emotions it knows only the one before.
PatternBreak(i, n, previous) ==
    /\ n >= 5
    /\ i \in {n \div 3, (n \div 3) * 2} \/ previous \in {"frustration", "hope", "fear"}

\* search_with_context
Recommend(goal, i, n, previous) ==
    LET emotion == Layout(goal).emotion
    IN  [goal |-> goal, emotion |-> emotion, fullBleed |-> FullBleed(i, n, emotion),
         break |-> PatternBreak(i, n, previous), background |-> Background(goal)]

\* The goals that queries come to.
Goals == {GoalOf(words, score) : words \in SUBSET ToSet(GoalWords), score \in [ToSet(Domains) -> 0 .. 1]}

\* The agent may leave the emotion of the slide before out.
Ask ==
    /\ position < total
    /\ position' = position + 1
    /\ \E goal \in Goals, previous \in {context.emotion, None} :
          context' = Recommend(goal, position', total, previous)
    /\ before' = context
    /\ UNCHANGED total

Next == Ask

-----------------------------------------------------------------------------
\* "Never consecutive full-bleed" (slide_search_core.py:307).
NeverConsecutive == ~(before.fullBleed /\ context.fullBleed)

\* In a deck of nine slides, the length search_with_context assumes, or more,
\* no two slides after each other are full-bleed, whatever they are about.
ApartInLongDecks == total >= 9 => NeverConsecutive

\* A slide that is to fill the page with an image has one: three tables, one
\* by goal, one by emotion and one by slide type, agree on it.
FullBleedHasAnImage == context.fullBleed => context.background # None
===============================================================================
