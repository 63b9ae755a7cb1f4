----------------------------- MODULE DesignDecision -----------------------------
(***************************************************************************)
(* How DesignSystemGenerator.generate comes to one colour mode: the rules  *)
(* of the category (reasoning_contract.py) and the query, the style that   *)
(* was chosen, and then the palette and the anti-patterns that have to     *)
(* agree with it.  The data of a step are chosen when the step needs them  *)
(* and only kept as far as a later step or a property reads them.          *)
(***************************************************************************)
EXTENDS Naturals, Sequences, SequencesExt

CONSTANTS
    Conditions,             \* conditions that a query may signal
    MaxRules, MaxPalettes   \* bounds: rules of a category, palettes found

VARIABLES
    step,           \* the next step of generate, "done", or "ValueError"
    asksDark,       \* the query has a phrase such as "dark mode"
    preferred,      \* preferred_mode of the rules
    mode,           \* color_mode
    palettes,       \* the results of the color search, best first
    palette,        \* best_color
    advice          \* the clauses of the anti_patterns that are returned

vars == <<step, asksDark, preferred, mode, palettes, palette, advice>>

None == "none"

Init ==
    /\ step = "reasoning"
    /\ asksDark \in BOOLEAN
    /\ preferred = None /\ mode = None
    /\ palettes = <<>> /\ palette = <<>>
    /\ advice = {}

-----------------------------------------------------------------------------
(***************************************************************************)
(* reasoning_contract.py: of the actions only mode: is told apart, the     *)
(* others have no part in the mode.                                        *)
(***************************************************************************)
Actions == {<<"other">>, <<"dark">>, <<"light">>, <<"dark", "other", "light">>}
RuleSets == UNION {[1 .. n -> [condition : Conditions \cup {"must_have", "unknown"}, actions : Actions]]
                      : n \in 0 .. MaxRules}

\* parse_decision_rules: known conditions, each of them once.
Parses(rules) ==
    /\ \A k \in DOMAIN rules : rules[k].condition # "unknown"
    /\ \A j, k \in DOMAIN rules : rules[j].condition = rules[k].condition => j = k

Active(rules, signals) ==
    SelectSeq(rules, LAMBDA r : r.condition \in signals \cup {"must_have"})

\* apply_decision_rules: a later mode action takes the place of an earlier one.
AppliedMode(rules, signals) ==
    FoldLeft(LAMBDA m, r : FoldLeft(LAMBDA n, a : IF a \in {"dark", "light"} THEN a ELSE n, m, r.actions),
             None, Active(rules, signals))

\* _apply_reasoning; a category without a rule prefers no mode.  Nothing
\* catches the ValueError of parse_decision_rules.
ApplyReasoning ==
    /\ step = "reasoning"
    /\ \E rules \in RuleSets, signals \in SUBSET Conditions :
          IF Parses(rules)
          THEN step' = "mode" /\ preferred' = AppliedMode(rules, signals)
          ELSE step' = "ValueError" /\ UNCHANGED preferred
    /\ UNCHANGED <<asksDark, mode, palettes, palette, advice>>

-----------------------------------------------------------------------------
(***************************************************************************)
(* The mode.                                                               *)
(***************************************************************************)
Styles ==
    [preferred : {"dark", "light", "auto"},
     darkOnly : BOOLEAN,        \* light not-recommended and dark supported
     marked : BOOLEAN]          \* a phrase such as "dark mode primary"

\* _style_is_dark_primary
DarkPrimary(style) ==
    style.preferred = "dark" \/ (style.preferred = "auto" /\ (style.darkOnly \/ style.marked))

\* _resolve_color_mode comes second to the rules.
ResolveMode ==
    /\ step = "mode"
    /\ \E style \in Styles :
          mode' = CASE preferred # None -> preferred
                    [] preferred = None /\ (asksDark \/ DarkPrimary(style)) -> "dark"
                    [] OTHER -> "light"
    /\ step' = "palette"
    /\ UNCHANGED <<asksDark, preferred, palettes, palette, advice>>

-----------------------------------------------------------------------------
(***************************************************************************)
(* The palette.  A background is dark, light or no color (_palette_is_dark *)
(* takes the last two for light); of the ring, the accent and the primary  *)
(* it is told whether their contrast with the derived background is enough *)
(* (that of no color is 0).                                                *)
(***************************************************************************)
Palettes ==
    [ofCategory : BOOLEAN, background : {"dark", "light", "no color"},
     ring : BOOLEAN, accent : BOOLEAN, primary : BOOLEAN]

\* Mutant: the ring of the palette is kept like its other brand tokens.
RingAsItIs(candidates) == candidates[1]

\* Whether the ring is visible: the first candidate with a ratio of 3, else
\* #60A5FA, which has it.
RingOf(candidates) ==
    LET visible == {k \in DOMAIN candidates : candidates[k]}
    IN  visible = {} \/ candidates[Min(visible)]

\* _derive_dark_palette keeps the accent and the primary.
DeriveDark(p) ==
    [p EXCEPT !.background = "dark", !.ring = RingOf(<<p.ring, p.accent, p.primary>>)]

\* Mutant: the palette of the category as it is.
OfCategoryAsItIs(p, m) == p

OfCategory(p, m) == IF m = "dark" /\ p.background # "dark" THEN DeriveDark(p) ELSE p

\* _select_palette_for_mode: light does not filter.
ForMode(found, m) ==
    LET category == {k \in DOMAIN found : found[k].ofCategory}
        dark == {k \in DOMAIN found : found[k].background = "dark"}
    IN  CASE found = <<>> -> <<>>
          [] category # {} -> <<OfCategory(found[Min(category)], m)>>
          [] found # <<>> /\ category = {} /\ m = "dark" /\ dark # {} -> <<found[Min(dark)]>>
          [] OTHER -> <<found[1]>>

SelectPalette ==
    /\ step = "palette"
    /\ palettes' \in UNION {[1 .. n -> Palettes] : n \in 0 .. MaxPalettes}
    /\ palette' = ForMode(palettes', mode)
    /\ step' = "advice"
    /\ UNCHANGED <<asksDark, preferred, mode, advice>>

\* _filter_anti_patterns_for_mode
FilterAdvice ==
    /\ step = "advice"
    /\ \E given \in SUBSET {"dark mode", "other"} :
          advice' = IF mode = "dark" THEN given \ {"dark mode"} ELSE given
    /\ step' = "done"
    /\ UNCHANGED <<asksDark, preferred, mode, palettes, palette>>

Next == ApplyReasoning \/ ResolveMode \/ SelectPalette \/ FilterAdvice

-----------------------------------------------------------------------------
\* A design that is to be dark, because a rule, the query or the style says so,
\* neither advises against dark mode nor has a light palette, but where the
\* search found neither the palette of the category nor any dark one; and the
\* focus ring of a palette that was darkened can be seen.
DarkDesignIsDark ==
    step = "done" /\ mode = "dark" =>
        /\ "dark mode" \notin advice
        /\ palette # <<>> /\ palette[1].background # "dark" =>
              \A k \in DOMAIN palettes : ~palettes[k].ofCategory /\ palettes[k].background # "dark"
        /\ palette # <<>> /\ palette[1] \notin ToSet(palettes) => palette[1].ring
===============================================================================
