--------------------------- MODULE MCSkillsCatalogue ---------------------------
(***************************************************************************)
(* The parts of ui-ux-pro-max for TLC: what it persists, its search while  *)
(* the data change, its style catalogue, and the mode of a design.  They   *)
(* are separate processes with no state in common: Init chooses which part *)
(* runs, and the variables of the others stay as they are.                 *)
(***************************************************************************)
EXTENDS DesignPersist, Naturals, Sequences, TLC

CONSTANTS
    NumRows, Attempts, MaxWrites, MaxCalls, NoEntry,    \* of SearchCache
    Order, Names, MaxKeywords, MaxEdits,    \* of StyleCatalog
    Conditions, MaxRules, MaxPalettes       \* of DesignDecision

MCSlugs == {"slug"}

MCSlug == [n \in Projects \cup Pages |-> "slug"]

MCOrder == <<"s1", "s2", "s3">>

Symmetry == Permutations(Agents) \cup Permutations(Pages)

VARIABLES
    part,
    past, unread, csvCache, bm25Cache, keywords, cachePc, phase, call, tries, before,
    cacheRows, variant, answer, calls,
    rows, rule, edits,
    step, asksDark, preferred, mode, palettes, palette, advice

Cache == INSTANCE SearchCache WITH pc <- cachePc, rows <- cacheRows, None <- NoEntry
Styles == INSTANCE StyleCatalog
Decision == INSTANCE DesignDecision

\* A file has a row and is read at least once, and None is no entry of a cache.
ASSUME CacheAssumption ==
    /\ NumRows \in Nat \ {0} /\ Attempts \in Nat \ {0}
    /\ MaxWrites \in Nat /\ MaxCalls \in Nat
    /\ NoEntry \notin Cache!Signatures \cup Cache!Snapshots

\* A style has one row, and what stands for no name is none.
ASSUME StylesAssumption ==
    /\ Order \in Seq(Styles!Ids) /\ Order # <<>>
    /\ \A j, k \in DOMAIN Order : Order[j] = Order[k] => j = k
    /\ {Styles!None, Styles!Unknown} \cap (Styles!Ids \cup Names) = {}
    /\ Styles!Landing \notin Styles!Ids
    /\ MaxKeywords \in Nat

cacheVars == <<past, unread, csvCache, bm25Cache, keywords, cachePc, phase, call, tries, before,
               cacheRows, variant, answer, calls>>
stylesVars == <<rows, rule, edits>>
decisionVars == <<step, asksDark, preferred, mode, palettes, palette, advice>>
allVars == <<part, vars, cacheVars, stylesVars, decisionVars>>

\* Agents that were asked for the same and have nothing to overwrite.
PersistIdles ==
    /\ file = [p \in Paths |-> Absent]
    /\ \A a \in Agents : request[a] = [project |-> CHOOSE p \in Projects : TRUE, page |-> NoPage, force |-> FALSE]

CatalogueInit ==
    /\ part \in {"persist", "cache", "styles", "decision"}
    /\ Init
    /\ part # "persist" => PersistIdles
    /\ IF part = "cache" THEN Cache!Init ELSE
          /\ past = 0 /\ unread = 0 /\ csvCache = 0 /\ bm25Cache = 0 /\ keywords = 0 /\ cachePc = "idle"
          /\ phase = 0 /\ call = 0 /\ tries = 0 /\ before = 0 /\ cacheRows = 0 /\ variant = 0
          /\ answer = 0 /\ calls = 0
    /\ IF part = "styles" THEN Styles!Init ELSE
          rows = 0 /\ rule = 0 /\ edits = 0
    /\ IF part = "decision" THEN Decision!Init ELSE
          /\ step = "idle" /\ asksDark = 0 /\ preferred = 0 /\ mode = 0
          /\ palettes = 0 /\ palette = 0 /\ advice = 0

CatalogueNext ==
    \/ part = "persist" /\ Next /\ UNCHANGED <<part, cacheVars, stylesVars, decisionVars>>
    \/ part = "cache" /\ Cache!Next /\ UNCHANGED <<part, vars, stylesVars, decisionVars>>
    \/ part = "styles" /\ Styles!Next /\ UNCHANGED <<part, vars, cacheVars, decisionVars>>
    \/ part = "decision" /\ Decision!Next /\ UNCHANGED <<part, vars, cacheVars, stylesVars>>

CatalogueSpec == CatalogueInit /\ [][CatalogueNext]_allVars

-----------------------------------------------------------------------------
\* The types of what is persisted, and those of the search.
CatalogueTypeOK == TypeOK /\ (part = "cache" => Cache!TypeOK)

\* SearchCache: a search answers from the file as it was at some time during
\* the call, and with the generation it was asked for.
AnswersAreCurrent == part = "cache" => Cache!AnswersAreCurrent

\* SearchCache: what one call leaves in the caches another may use.  Rows filed
\* under a signature are what the file held when it had that signature; the
\* index a query is ranked with was fitted on the very rows its positions are
\* looked up in; keywords that a later call takes for good are those of the
\* file, or the seed where the file could not be read.
CachesAreSound ==
    part = "cache" =>
        Cache!SnapshotsAreWhole /\ Cache!IndexFitsRows /\ Cache!KeywordsAreOfTheFile

\* StyleCatalog: in a catalogue the validator accepts, search shows the style
\* the generator takes under a name, and the dial, then the rule, decides the
\* style of a design, whatever ranks well.
RuleAndSearchAgree ==
    part = "styles" => Styles!RoutesAgree /\ Styles!StyleIsNamed

\* DesignDecision: a design that is to be dark is dark throughout.
DarkDesignIsDark == part = "decision" => Decision!DarkDesignIsDark
=============================================================================
