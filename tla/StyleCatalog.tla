------------------------------ MODULE StyleCatalog ------------------------------
(***************************************************************************)
(* The style catalogue of ui-ux-pro-max (styles.csv and the rules of       *)
(* ui-reasoning.csv) while it is edited, validate_data.py that accepts or  *)
(* rejects it, and the two places that find a style by one of its names:   *)
(* search of core.py and DesignSystemGenerator of design_system.py.        *)
(***************************************************************************)
EXTENDS Naturals, Sequences, SequencesExt, FiniteSetsExt

CONSTANTS
    Order,          \* the Style IDs in the order of their rows
    Names,          \* further names: categories and aliases
    MaxKeywords,    \* bound: keywords of a dial
    MaxEdits        \* bound: edits of the catalogue

VARIABLES
    rows,           \* the rows, by Style ID
    rule,           \* the rule of a category: its Style_Priority and style: action
    edits

vars == <<rows, rule, edits>>

None == ""
Ids == ToSet(Order)
Landing == "landing pattern"
Unknown == "unknown id"

\* redirect is the Replacement ID; its domain is landing for Landing and style
\* for the others.
Rows ==
    [names : SUBSET Names, status : {"active", "supplemental", "deprecated"},
     parent : Ids \cup {Unknown, None}, redirect : Ids \cup {Landing, Unknown, None}]

Rules == [priority : Ids \cup Names \cup {Unknown}, action : Ids \cup {Unknown, None}]

\* The style_keywords of a tier of --variance: in DIAL_TIERS some are names of
\* styles and some are not.
Dials ==
    UNION {[1 .. n -> Ids \cup Names \cup {Unknown}] : n \in 0 .. MaxKeywords}

Init ==
    /\ rows = [i \in Ids |-> [names |-> {}, status |-> "active", parent |-> None, redirect |-> None]]
    /\ rule = [priority |-> Head(Order), action |-> None]
    /\ edits = 0

Identities(table, i) == {i} \cup table[i].names

\* Where the rows with a name are.
Named(table, name) == {k \in DOMAIN Order : name \in Identities(table, Order[k])}

\* style_lookup has the last row of a name, _style_identity takes the first.
LastNamed(table, name) ==
    IF Named(table, name) = {} THEN None ELSE Order[Max(Named(table, name))]
FirstNamed(table, name) ==
    IF Named(table, name) = {} THEN None ELSE Order[Min(Named(table, name))]

-----------------------------------------------------------------------------
(***************************************************************************)
(* validate_data.py.                                                       *)
(***************************************************************************)

\* Statuses, parents and redirects row by row.  Every Style ID is a target of
\* a style redirect, a deprecated one too.
RowIsSound(row) ==
    /\ row.status = "supplemental" => row.parent # None
    /\ row.status = "deprecated" =>
          /\ (row.parent # None) # (row.redirect # None)
          /\ row.redirect # Unknown
    /\ row.status # "deprecated" => row.redirect = None

IdentitiesAreUnambiguous(table) ==
    \A i, j \in Ids : i # j => Identities(table, i) \cap Identities(table, j) = {}

\* Mutant: the last check of a parent is left out.
ParentsExist(table) ==
    \A i \in Ids : table[i].parent # None => table[i].parent \in Ids \ {i}

\* A parent that is active ends its chain, so there is no cycle either.
ParentsAreActive(table) ==
    \A i \in Ids : table[i].parent # None =>
        table[i].parent \in Ids \ {i} /\ table[table[i].parent].status = "active"

\* Mutant: a reference need only be resolved.
ReferenceIsKnown(table, name) == LastNamed(table, name) # None

\* The references of products and rules.
ReferenceIsLive(table, name) ==
    /\ LastNamed(table, name) # None
    /\ table[LastNamed(table, name)].status # "deprecated"

\* _check_style_contract, and _check_reasoning_contract for the style: actions.
Valid(table, r) ==
    /\ \A i \in Ids : RowIsSound(table[i])
    /\ IdentitiesAreUnambiguous(table)
    /\ ParentsAreActive(table)
    /\ ReferenceIsLive(table, r.priority)
    /\ r.action \in Ids \cup {None}

Edit ==
    /\ edits < MaxEdits
    /\ edits' = edits + 1
    /\ \/ rows' \in {[rows EXCEPT ![i] = row] : i \in Ids, row \in Rows} /\ UNCHANGED rule
       \/ rule' \in Rules /\ UNCHANGED rows

Next == Edit

-----------------------------------------------------------------------------
(***************************************************************************)
(* search of core.py for the name of a style: the row it shows, a redirect *)
(* to another domain, or None for the ranking of the active rows.          *)
(***************************************************************************)
Redirect == "redirect"

\* _style_search_destination: one hop, whatever the row it leads to.
Destination(table, i) ==
    CASE table[i].status # "deprecated" -> i
      [] table[i].status = "deprecated" /\ table[i].parent # None -> table[i].parent
      [] table[i].status = "deprecated" /\ table[i].parent = None /\ table[i].redirect \in Ids ->
            table[i].redirect
      [] OTHER -> IF table[i].redirect = Landing THEN Redirect ELSE None

\* search
Search(table, name) ==
    IF FirstNamed(table, name) = None THEN None ELSE Destination(table, FirstNamed(table, name))

-----------------------------------------------------------------------------
(***************************************************************************)
(* DesignSystemGenerator.                                                  *)
(***************************************************************************)

\* The rows _resolve_style comes by: from a deprecated one it goes to that of
\* its Parent ID.
Reached(table, i) ==
    LET closed == {S \in SUBSET Ids :
            i \in S /\ \A j \in S : table[j].status = "deprecated" =>
                           LastNamed(table, table[j].parent) \in S \cup {None}}
    IN  {j \in Ids : \A S \in closed : j \in S}

\* _resolve_style: where parents end, or lead back to a row that was seen,
\* there is nothing.
ResolveStyle(table, name) ==
    LET live == {j \in Reached(table, LastNamed(table, name)) : table[j].status # "deprecated"}
    IN  IF LastNamed(table, name) = None \/ live = {} THEN None ELSE CHOOSE j \in live : TRUE

\* _apply_reasoning: the style of an action comes before the Style_Priority.
StylePriority(table, r) ==
    LET named == ResolveStyle(table, r.action)
    IN  (IF r.action = None THEN <<>> ELSE <<IF named = None THEN r.action ELSE named>>)
            \o <<r.priority>>

\* Mutant: the dial only adds to what the rule names.
EffectivePriorityRuleFirst(table, r, dial) == StylePriority(table, r) \o dial

\* generate: the keywords of --variance come before both.
EffectivePriority(table, r, dial) == dial \o StylePriority(table, r)

\* _select_best_match, when the search found anything: the first name that
\* resolves, or (None) a result of the search its keywords decide on.
SelectBestMatch(table, priorities) ==
    LET resolving == {k \in DOMAIN priorities : ResolveStyle(table, priorities[k]) # None}
    IN  IF resolving = {} THEN None
        ELSE ResolveStyle(table, priorities[Min(resolving)])

-----------------------------------------------------------------------------
(***************************************************************************)
(* What is claimed of a catalogue that validate_data.py accepts, whatever  *)
(* edits it went through.  Nothing checks it when it is read: between an   *)
(* edit and the next validation none of this need hold.                    *)
(***************************************************************************)

\* The style a name stands for: its row, or that of a deprecated row's parent.
StyleOf(table, name) ==
    LET i == LastNamed(table, name)
    IN  IF i = None \/ table[i].status # "deprecated" THEN i ELSE table[i].parent

\* When the generator takes a name for a style, search shows the same style
\* under that name.
RoutesAgree ==
    Valid(rows, rule) =>
        \A name \in Ids \cup Names :
            LET style == ResolveStyle(rows, name)
            IN  style # None => Search(rows, name) = style

\* The style of a design is named, never one that merely ranks well: by the
\* first keyword of the dial that stands for a style; by the rule's action,
\* where no keyword does; by its Style_Priority, where the action does not
\* either, and that one is the very row of this name and no substitute.
StyleIsNamed ==
    Valid(rows, rule) =>
        \A dial \in Dials :
            LET byDial == {k \in DOMAIN dial : StyleOf(rows, dial[k]) # None}
            IN  SelectBestMatch(rows, EffectivePriority(rows, rule, dial)) =
                    CASE byDial # {} -> StyleOf(rows, dial[Min(byDial)])
                      [] byDial = {} /\ StyleOf(rows, rule.action) # None ->
                            StyleOf(rows, rule.action)
                      [] OTHER -> LastNamed(rows, rule.priority)
=============================================================================
