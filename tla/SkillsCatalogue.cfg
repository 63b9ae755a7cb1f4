\* Three agents that persist, two of them perhaps on one page; a file saved
\* twice under two calls; three styles edited twice; two rules and palettes.
SPECIFICATION CatalogueSpec
CONSTANTS
    Agents = {a1, a2, a3}
    Projects = {p1}
    Pages = {g1}
    NoPage = NoPage
    Slugs <- MCSlugs
    Slug <- MCSlug
    Earlier = Earlier
    Absent = Absent
    NumRows = 2
    Attempts = 2
    MaxWrites = 2
    MaxCalls = 2
    NoEntry = NoEntry
    Order <- MCOrder
    Names = {"alias"}
    MaxKeywords = 2
    MaxEdits = 2
    Conditions = {"if_dashboard", "if_health"}
    MaxRules = 2
    MaxPalettes = 2
INVARIANTS
    CatalogueTypeOK EndsInOrder AnswersAreCurrent CachesAreSound
    RuleAndSearchAgree DarkDesignIsDark
PROPERTIES PersistsAsPromised
SYMMETRY Symmetry
CHECK_DEADLOCK FALSE
