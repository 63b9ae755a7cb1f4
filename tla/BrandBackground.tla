---------------------------- MODULE BrandBackground ----------------------------
(***************************************************************************)
(* design-system/scripts/fetch-background.py: the image of a slide and the *)
(* overlay above it, in the colours of assets/design-tokens.json.  A team  *)
(* edits the token file and the table of backgrounds by hand.              *)
(***************************************************************************)
VARIABLES
    tokens,         \* the token file
    rows,           \* slide-backgrounds.csv: the overlay of each slide type
    asked,          \* the slide type of the run
    overlay         \* the colours of the overlay it returns

vars == <<tokens, rows, asked, overlay>>

Roles == {"primary", "secondary", "accent", "background"}

\* The $value of a semantic colour: none, or a reference to a primitive token
\* (or a colour), to another semantic token, or to a group of tokens.
Semantic == {"absent", "{primitive}", "{semantic}", "{group}"}

\* The roles for which the primitives have a palette with its colour.
TokenFiles ==
    [there : {TRUE}, semantic : [Roles -> Semantic], palettes : SUBSET Roles]
        \cup [there : {FALSE}]

SlideTypes == {"hero", "pricing"}           \* pricing has no row
Overlays == {"gradient-dark", "gradient-brand", "gradient-accent", "blur-dark", "glow"}
Nothing == "none"

-----------------------------------------------------------------------------
(***************************************************************************)
(* load_brand_colors.                                                      *)
(***************************************************************************)

\* resolve_token_reference takes one step: what it finds may be a reference
\* again, or an object.
ResolveTokenReference(ref) ==
    CASE ref = "{primitive}" -> "colour"
      [] ref = "{semantic}" -> "reference"
      [] ref = "{group}" -> "object"
      [] ref = "absent" -> Nothing

Or(value, default) == IF value = Nothing THEN default ELSE value
From(layer, value) == [layer |-> layer, is |-> value]

FromSemantic(semantic) ==
    LET v == [role \in Roles |-> ResolveTokenReference(semantic[role])]
    IN  [primary |-> From("semantic", v["primary"]), secondary |-> From("semantic", v["secondary"]),
         accent |-> From("semantic", Or(v["accent"], v["primary"])),
         background |-> From("semantic", Or(v["background"], "colour"))]

\* The first palette of each role with a colour, or the default.
FromPalettes(palettes) ==
    [role \in Roles |-> From(IF role \in palettes THEN "palette" ELSE "default", "colour")]

\* Mutant: one of the two is enough.
HasAColour(semantic) ==
    \E role \in {"primary", "secondary"} : ResolveTokenReference(semantic[role]) # Nothing

HasBoth(semantic) ==
    \A role \in {"primary", "secondary"} : ResolveTokenReference(semantic[role]) # Nothing

\* Mutant: each colour that is missing is looked for on its own.
LoadRoleByRole(file) ==
    IF ~file.there THEN FromPalettes({}) ELSE
    [role \in Roles |->
        IF ResolveTokenReference(file.semantic[role]) # Nothing
        THEN FromSemantic(file.semantic)[role]
        ELSE FromPalettes(file.palettes)[role]]

LoadBrandColors(file) ==
    IF ~file.there THEN FromPalettes({})
    ELSE IF HasBoth(file.semantic) THEN FromSemantic(file.semantic)
    ELSE FromPalettes(file.palettes)

-----------------------------------------------------------------------------
(***************************************************************************)
(* get_background_image.                                                   *)
(***************************************************************************)

\* The colours of the brand an overlay is made of; an overlay that is not
\* known is gradient-dark, and blur-dark is black for every brand.
RolesOf(style) ==
    CASE style = "gradient-brand" -> {"primary", "secondary"}
      [] style = "gradient-accent" -> {"accent"}
      [] style = "blur-dark" -> {}
      [] OTHER -> {"background"}

OverlayStyle(type) == IF type \in DOMAIN rows THEN rows[type] ELSE "gradient-dark"

\* A type without curated images gets those of hero: there always is a URL.
GetBackgroundImage(type) ==
    [role \in RolesOf(OverlayStyle(type)) |-> LoadBrandColors(tokens)[role]]

Init ==
    /\ tokens \in TokenFiles
    /\ rows \in [{"hero"} -> Overlays]
    /\ asked = Nothing /\ overlay = <<>>

Main ==
    /\ asked = Nothing
    /\ asked' \in SlideTypes
    /\ overlay' = GetBackgroundImage(asked')
    /\ UNCHANGED <<tokens, rows>>

Next == Main

-----------------------------------------------------------------------------
(***************************************************************************)
(* What is claimed.                                                        *)
(***************************************************************************)

\* A reference to a primitive is resolved; "Resolves semantic token references
\* to actual hex values" (fetch-background.py:42) holds for such files only.
OneStep(file) ==
    file.there => \A role \in Roles : file.semantic[role] \notin {"{semantic}", "{group}"}

\* Whatever is missing of a token file, an overlay is made of colours.
OverlayHasColours ==
    OneStep(tokens) =>
        \A role \in DOMAIN overlay : overlay[role].is = "colour"

\* A gradient of two brand colours never mixes a semantic colour with one of
\* the palettes or the defaults.
GradientIsOfOneLayer ==
    LET layers == {overlay[role].layer : role \in DOMAIN overlay}
    IN  "semantic" \in layers => layers = {"semantic"}
================================================================================
