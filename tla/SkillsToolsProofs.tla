-------------------------- MODULE SkillsToolsProofs --------------------------
(***************************************************************************)
(* What holds of the tools of the design and styling skills for any number *)
(* of agents, components, sections, names and plugins, slides, colours and *)
(* decks.                                                                  *)
(* Each tool has an inductive invariant of its own; it is one of ToolsSpec *)
(* wherever Init chose that tool.                                          *)
(***************************************************************************)
EXTENDS MCSkillsTools, FiniteSetTheorems, WellFoundedInduction, TLAPS

LEMMA ToolStays == ASSUME [ToolsNext]_allVars PROVE tool' = tool
BY DEF ToolsNext, Others, allVars

-----------------------------------------------------------------------------
(***************************************************************************)
(* ShadcnAdd.  A run looks once, and of what it means to add only another  *)
(* run can write anything before its own npx does.                         *)
(***************************************************************************)
ShadcnSteps == {"start", "look", "npx", "done"}

ShadcnTypes ==
    /\ config \in Shadcn!Configs
    /\ installed \in SUBSET Components
    /\ request \in [Agents -> Shadcn!Requests]
    /\ agentPc \in [Agents -> ShadcnSteps]
    /\ added \in [Agents -> SUBSET Components]
    /\ met \in [Agents -> SUBSET Components]
    /\ since \in [Agents -> SUBSET Components]
    /\ result \in [Agents -> {"none", "refused", "dry", "listed", "raised", "success", "failed"}]

\* A run whose look counts.
Looks(a) == config = "plain" /\ request[a].does = "add" /\ ~request[a].overwrite

ShadcnInv ==
    /\ ShadcnTypes
    /\ \A a \in Agents :
          /\ added[a] \subseteq installed
          /\ agentPc[a] \in {"start", "look"} => added[a] = {} /\ met[a] = {}
          /\ agentPc[a] = "npx" /\ Looks(a) =>
                (request[a].want \ added[a]) \cap installed \subseteq since[a]
          /\ Looks(a) => met[a] \subseteq since[a]
          /\ result[a] = "success" => added[a] = request[a].want
          /\ agentPc[a] # "done" => result[a] = "none"

LEMMA ShadcnStarts == ASSUME Shadcn!Init PROVE ShadcnInv
BY DEF Shadcn!Init, ShadcnInv, ShadcnTypes, ShadcnSteps, Looks

LEMMA StartKeeps ==
    ASSUME ShadcnInv, NEW b \in Agents, Shadcn!Start(b) PROVE ShadcnInv'
<1>1. /\ agentPc[b] = "start"
      /\ UNCHANGED <<config, installed, request, added, met, since>>
      /\ \/ Shadcn!Return(b, "refused")
         \/ Shadcn!Launch(b) /\ request[b].does = "all"
         \/ Shadcn!Goto(b, "look")
    BY DEF Shadcn!Start
<1>2. CASE Shadcn!Return(b, "refused")
    BY <1>1, <1>2 DEF Shadcn!Return, ShadcnInv, ShadcnTypes, ShadcnSteps, Looks
<1>3. CASE Shadcn!Launch(b) /\ request[b].does = "all"
    BY <1>1, <1>3 DEF Shadcn!Launch, Shadcn!Return, Shadcn!Goto, ShadcnInv, ShadcnTypes,
                      ShadcnSteps, Looks
<1>4. CASE Shadcn!Goto(b, "look")
    BY <1>1, <1>4 DEF Shadcn!Goto, ShadcnInv, ShadcnTypes, ShadcnSteps, Looks
<1>5. QED
    BY <1>1, <1>2, <1>3, <1>4

LEMMA LookKeeps ==
    ASSUME ShadcnInv, NEW b \in Agents, Shadcn!Look(b) PROVE ShadcnInv'
<1>1. /\ agentPc[b] = "look"
      /\ UNCHANGED <<config, installed, request, added, met>>
      /\ since' = [since EXCEPT ![b] = {}]
      /\ \/ \E how \in {"raised", "listed", "refused"} : Shadcn!Return(b, how)
         \/ /\ Shadcn!Launch(b)
            /\ Looks(b) => request[b].want \cap installed = {}
    BY DEF Shadcn!Look, Shadcn!AlreadyInstalled, Shadcn!InstalledComponents, Looks
<1>2. CASE \E how \in {"raised", "listed", "refused"} : Shadcn!Return(b, how)
    BY <1>1, <1>2 DEF Shadcn!Return, ShadcnInv, ShadcnTypes, ShadcnSteps, Looks
<1>3. CASE Shadcn!Launch(b) /\ (Looks(b) => request[b].want \cap installed = {})
    BY <1>1, <1>3 DEF Shadcn!Launch, Shadcn!Return, Shadcn!Goto, ShadcnInv, ShadcnTypes,
                      ShadcnSteps, Looks
<1>4. QED
    BY <1>1, <1>2, <1>3

LEMMA NpxAddKeeps ==
    ASSUME ShadcnInv, NEW b \in Agents, Shadcn!NpxAdd(b) PROVE ShadcnInv'
<1>1. PICK c \in request[b].want \ added[b] :
          /\ agentPc[b] = "npx"
          /\ installed' = installed \cup {c}
          /\ added' = [added EXCEPT ![b] = @ \cup {c}]
          /\ met' = [met EXCEPT ![b] = @ \cup ({c} \cap installed)]
          /\ since' = [a \in Agents |-> since[a] \cup IF a = b THEN {} ELSE {c}]
          /\ UNCHANGED <<config, request, agentPc, result>>
    BY DEF Shadcn!NpxAdd
<1>2. c \in Components
    BY DEF ShadcnInv, ShadcnTypes, Shadcn!Requests
<1>3. ShadcnTypes'
    BY <1>1, <1>2 DEF ShadcnInv, ShadcnTypes
<1>4. ASSUME NEW a \in Agents, a # b
      PROVE  /\ added'[a] = added[a] /\ met'[a] = met[a]
             /\ since'[a] = since[a] \cup {c}
    BY <1>1, <1>4 DEF ShadcnInv, ShadcnTypes
<1>5. /\ added'[b] = added[b] \cup {c} /\ met'[b] = met[b] \cup ({c} \cap installed)
      /\ since'[b] = since[b]
    BY <1>1 DEF ShadcnInv, ShadcnTypes
<1>6. result[b] = "none"
    BY <1>1 DEF ShadcnInv
<1>7. QED
    BY <1>1, <1>3, <1>4, <1>5, <1>6 DEF ShadcnInv, Looks

LEMMA NpxExitKeeps ==
    ASSUME ShadcnInv, NEW b \in Agents, Shadcn!NpxExit(b) PROVE ShadcnInv'
<1>1. PICK how \in {"success", "failed"} :
          /\ agentPc[b] = "npx"
          /\ how = "success" => added[b] = request[b].want
          /\ Shadcn!Return(b, how)
          /\ UNCHANGED <<config, installed, request, added, met, since>>
    BY DEF Shadcn!NpxExit, Shadcn!Outcome
<1>2. QED
    BY <1>1 DEF Shadcn!Return, ShadcnInv, ShadcnTypes, ShadcnSteps, Looks

LEMMA ShadcnStutters == ASSUME ShadcnInv, UNCHANGED shadcnVars PROVE ShadcnInv'
BY DEF shadcnVars, ShadcnInv, ShadcnTypes, Looks

LEMMA ShadcnStep ==
    ASSUME ShadcnInv, [ToolsNext]_allVars, tool = "shadcn" PROVE ShadcnInv'
<1>1. CASE Shadcn!Next
    BY <1>1, StartKeeps, LookKeeps, NpxAddKeeps, NpxExitKeeps DEF Shadcn!Next
<1>2. CASE UNCHANGED allVars
    BY <1>2, ShadcnStutters DEF allVars
<1>3. QED
    BY <1>1, <1>2 DEF ToolsNext

LEMMA ShadcnKeeps == ToolsSpec => [](tool = "shadcn" => ShadcnInv)
<1>1. ToolsInit => (tool = "shadcn" => ShadcnInv)
    BY ShadcnStarts DEF ToolsInit
<1>2. (tool = "shadcn" => ShadcnInv) /\ [ToolsNext]_allVars
        => (tool = "shadcn" => ShadcnInv)'
    BY ShadcnStep, ToolStays
<1>3. QED
    BY <1>1, <1>2, PTL DEF ToolsSpec

-----------------------------------------------------------------------------
(***************************************************************************)
(* TailwindConfig.  What has been given is there in the configuration that *)
(* would be written next, and a plugin is in it once.                      *)
(***************************************************************************)
Once(list) == \A i, j \in DOMAIN list : list[i] = list[j] => i = j

TailwindInv ==
    /\ plugins \in Seq(Plugins \cup {BadPlugin})
    /\ Once(plugins)
    /\ \A s \in Sections, k \in Keys :
          <<s, k>> \in given => s \in DOMAIN extend /\ k \in DOMAIN extend[s]
    /\ \A p \in Plugins : <<"plugins", p>> \in given => p \in Tailwind!ToSet(plugins)

LEMMA WithPluginAdds ==
    ASSUME NEW list \in Seq(Plugins \cup {BadPlugin}), Once(list),
           NEW p \in Plugins \cup {BadPlugin},
           NEW longer, longer = Tailwind!WithPlugin(list, p)
    PROVE  /\ longer \in Seq(Plugins \cup {BadPlugin})
           /\ Once(longer)
           /\ Tailwind!ToSet(longer) = Tailwind!ToSet(list) \cup {p}
<1>1. CASE p \in Tailwind!ToSet(list)
    BY <1>1 DEF Tailwind!WithPlugin
<1>2. CASE p \notin Tailwind!ToSet(list)
    <2>1. longer = Append(list, p)
        BY <1>2 DEF Tailwind!WithPlugin
    <2>2. longer \in Seq(Plugins \cup {BadPlugin})
        BY <2>1
    <2>3. /\ DOMAIN longer = DOMAIN list \cup {Len(list) + 1}
          /\ Len(list) + 1 \notin DOMAIN list
          /\ \A i \in DOMAIN list : longer[i] = list[i]
          /\ longer[Len(list) + 1] = p
        BY <2>1
    <2>4. Once(longer)
        BY <1>2, <2>3 DEF Once, Tailwind!ToSet
    <2>5. Tailwind!ToSet(longer) = Tailwind!ToSet(list) \cup {p}
        BY <2>3 DEF Tailwind!ToSet
    <2>6. QED
        BY <2>2, <2>4, <2>5
<1>3. QED
    BY <1>1, <1>2

LEMMA WithBothAdds ==
    ASSUME TailwindInv, NEW p \in Plugins \cup {BadPlugin},
           NEW q \in Plugins \cup {BadPlugin}, NEW longer,
           longer = Tailwind!WithBoth(<<p, q>>)
    PROVE  /\ longer \in Seq(Plugins \cup {BadPlugin})
           /\ Once(longer)
           /\ Tailwind!ToSet(longer) = Tailwind!ToSet(plugins) \cup {p, q}
<1>1. PICK one : one = Tailwind!WithPlugin(plugins, p)
    OBVIOUS
<1>2. /\ one \in Seq(Plugins \cup {BadPlugin}) /\ Once(one)
      /\ Tailwind!ToSet(one) = Tailwind!ToSet(plugins) \cup {p}
    BY <1>1, WithPluginAdds DEF TailwindInv
<1>3. longer = Tailwind!WithPlugin(one, q)
    BY <1>1 DEF Tailwind!WithBoth
<1>4. /\ longer \in Seq(Plugins \cup {BadPlugin}) /\ Once(longer)
      /\ Tailwind!ToSet(longer) = Tailwind!ToSet(one) \cup {q}
    BY <1>2, <1>3, WithPluginAdds
<1>5. QED
    BY <1>2, <1>4

\* A section that is updated keeps what it had and takes what is new.
LEMMA SectionGrows ==
    ASSUME TailwindInv, NEW s \in Sections, NEW new,
           NEW longer,
           longer = Tailwind!Update(extend, Tailwind!Entry(s, Tailwind!Merged(s, new)))
    PROVE  \A t \in Sections, k \in Keys :
              <<t, k>> \in given \/ (t = s /\ k \in DOMAIN new)
                  => t \in DOMAIN longer /\ k \in DOMAIN longer[t]
<1>1. /\ DOMAIN longer = DOMAIN extend \cup {s}
      /\ \A t \in DOMAIN extend \ {s} : longer[t] = extend[t]
      /\ longer[s] = Tailwind!Merged(s, new)
    BY DEF Tailwind!Update, Tailwind!Entry
<1>2. /\ DOMAIN longer[s] = DOMAIN Tailwind!Section(s) \cup DOMAIN new
    BY <1>1 DEF Tailwind!Update, Tailwind!Merged
<1>3. s \in DOMAIN extend => Tailwind!Section(s) = extend[s]
    BY DEF Tailwind!Section
<1>4. QED
    BY <1>1, <1>2, <1>3 DEF TailwindInv

LEMMA TailwindStarts == ASSUME Tailwind!Init PROVE TailwindInv
BY DEF Tailwind!Init, TailwindInv, Once

LEMMA AddKeeps == ASSUME TailwindInv, Tailwind!Add PROVE TailwindInv'
<1>1. PICK s \in Sections, k \in Keys, v \in Values :
          /\ extend' = Tailwind!Update(extend, Tailwind!Entry(s,
                          Tailwind!Merged(s, Tailwind!Entry(k, v))))
          /\ given' = given \cup {<<s, k>>}
          /\ plugins' = plugins
    BY DEF Tailwind!Add
<1>2. \A t \in Sections, l \in Keys :
          <<t, l>> \in given' => t \in DOMAIN extend' /\ l \in DOMAIN extend'[t]
    <2>1. DOMAIN Tailwind!Entry(k, v) = {k}
        BY DEF Tailwind!Entry
    <2>2. QED
        BY <1>1, <2>1, SectionGrows
<1>3. \A p \in Plugins : <<"plugins", p>> \in given' => <<"plugins", p>> \in given
    BY <1>1, SectionsAssumption
<1>4. QED
    BY <1>1, <1>2, <1>3 DEF TailwindInv, Tailwind!ToSet

LEMMA AddPluginsKeeps ==
    ASSUME TailwindInv, Tailwind!AddPlugins PROVE TailwindInv'
<1>1. PICK p \in Plugins \cup {BadPlugin}, q \in Plugins \cup {BadPlugin} :
          /\ plugins' = Tailwind!WithBoth(<<p, q>>)
          /\ given' = given \cup Tailwind!OfPlugins(<<p, q>>)
          /\ extend' = extend
    BY DEF Tailwind!AddPlugins
<1>2. Tailwind!OfPlugins(<<p, q>>) = {<<"plugins", p>>, <<"plugins", q>>}
    BY DEF Tailwind!OfPlugins, Tailwind!ToSet
<1>3. QED
    BY <1>1, <1>2, WithBothAdds, SectionsAssumption DEF TailwindInv

LEMMA MainKeeps == ASSUME TailwindInv, Tailwind!Main PROVE TailwindInv'
<1>1. CASE UNCHANGED <<plugins, given, extend>>
    BY <1>1 DEF TailwindInv, Once, Tailwind!ToSet
<1>2. CASE ~UNCHANGED <<plugins, given, extend>>
    <2>1. PICK s \in Sections, first \in Tailwind!Specs, second \in Tailwind!Specs,
               asks \in Tailwind!Recommended \cup {<<>>} :
              /\ extend' = Tailwind!Update(extend, Tailwind!Entry(s,
                              Tailwind!Merged(s, Tailwind!Parsed(first, second))))
              /\ plugins' = IF asks = <<>> THEN plugins ELSE Tailwind!WithBoth(asks)
              /\ given' = {<<s, first.name>>, <<s, second.name>>}
                              \cup Tailwind!OfPlugins(asks)
        BY <1>2 DEF Tailwind!Main
    <2>2. DOMAIN Tailwind!Parsed(first, second) = {first.name, second.name}
        BY DEF Tailwind!Parsed, Tailwind!Update, Tailwind!Entry
    <2>3. \A t \in Sections, l \in Keys :
              <<t, l>> \in given' => t \in DOMAIN extend' /\ l \in DOMAIN extend'[t]
        <3>1. SUFFICES ASSUME NEW t \in Sections, NEW l \in Keys, <<t, l>> \in given'
                       PROVE  t = s /\ l \in {first.name, second.name}
            BY <2>1, <2>2, SectionGrows
        <3>2. <<t, l>> \notin Tailwind!OfPlugins(asks)
            BY SectionsAssumption DEF Tailwind!OfPlugins
        <3>3. QED
            BY <2>1, <3>1, <3>2
    <2>4. /\ plugins' \in Seq(Plugins \cup {BadPlugin}) /\ Once(plugins')
          /\ \A p \in Plugins : <<"plugins", p>> \in given' => p \in Tailwind!ToSet(plugins')
        <3>1. CASE asks = <<>>
            BY <2>1, <3>1, SectionsAssumption
               DEF Tailwind!OfPlugins, Tailwind!ToSet, TailwindInv
        <3>2. CASE asks # <<>>
            <4>1. PICK p \in Plugins, q \in Plugins : asks = <<p, q>>
                BY <2>1, <3>2 DEF Tailwind!Recommended
            <4>2. Tailwind!OfPlugins(asks) = {<<"plugins", p>>, <<"plugins", q>>}
                BY <4>1 DEF Tailwind!OfPlugins, Tailwind!ToSet
            <4>3. /\ plugins' \in Seq(Plugins \cup {BadPlugin}) /\ Once(plugins')
                  /\ Tailwind!ToSet(plugins') = Tailwind!ToSet(plugins) \cup {p, q}
                BY <2>1, <3>2, <4>1, WithBothAdds
            <4>4. QED
                BY <2>1, <4>2, <4>3, SectionsAssumption
        <3>3. QED
            BY <3>1, <3>2
    <2>5. QED
        BY <2>3, <2>4 DEF TailwindInv, Once, Tailwind!ToSet
<1>3. QED
    BY <1>1, <1>2

LEMMA TailwindStep ==
    ASSUME TailwindInv, [ToolsNext]_allVars, tool = "tailwind" PROVE TailwindInv'
<1>1. CASE Tailwind!Next
    <2>1. CASE Tailwind!WriteConfig
        BY <2>1 DEF Tailwind!WriteConfig, TailwindInv, Once, Tailwind!ToSet
    <2>2. QED
        BY <1>1, <2>1, AddKeeps, AddPluginsKeeps, MainKeeps DEF Tailwind!Next
<1>2. CASE UNCHANGED allVars
    BY <1>2 DEF allVars, tailwindVars, TailwindInv, Once, Tailwind!ToSet
<1>3. QED
    BY <1>1, <1>2 DEF ToolsNext

LEMMA TailwindKeeps == ToolsSpec => [](tool = "tailwind" => TailwindInv)
<1>1. ToolsInit => (tool = "tailwind" => TailwindInv)
    BY TailwindStarts DEF ToolsInit
<1>2. (tool = "tailwind" => TailwindInv) /\ [ToolsNext]_allVars
        => (tool = "tailwind" => TailwindInv)'
    BY TailwindStep, ToolStays
<1>3. QED
    BY <1>1, <1>2, PTL DEF ToolsSpec

\* However many agents install components at once: where the script can see the
\* files, npx comes by a component it was not told to overwrite only if another
\* run wrote it since the look, and a run that says so has added all of its
\* components; and in whatever order sections and plugins are given to the
\* Tailwind generator, what is written has all of them, and each plugin once.
THEOREM StylingTruthful == ToolsSpec => []StylingIsAsTold
<1>1. ShadcnInv => Shadcn!MetOnlyInARace /\ Shadcn!SuccessMeansInstalled
    BY DEF ShadcnInv, Looks, Shadcn!MetOnlyInARace, Shadcn!SuccessMeansInstalled
<1>2. TailwindInv => Tailwind!WrittenIsComplete
    <2>1. TailwindInv => \A p \in Plugins : <<"plugins", p>> \in given =>
              \E i \in DOMAIN plugins :
                 plugins[i] = p /\ \A j \in DOMAIN plugins : plugins[j] = p => i = j
        BY DEF TailwindInv, Once, Tailwind!ToSet
    <2>2. output = Tailwind!Config => output.extend = extend /\ output.plugins = plugins
        BY DEF Tailwind!Config
    <2>3. QED
        BY <2>1, <2>2 DEF TailwindInv, Tailwind!WrittenIsComplete
<1>3. QED
    BY <1>1, <1>2, ShadcnKeeps, TailwindKeeps, PTL DEF StylingIsAsTold

-----------------------------------------------------------------------------
(***************************************************************************)
(* SlideDeck.  A slide is full-bleed at four places of its deck only, and  *)
(* from nine slides on no two of them are neighbours.                      *)
(***************************************************************************)
SlidesInv ==
    /\ total \in Nat /\ position \in Nat
    /\ context.fullBleed => position \in Slides!StrategicPositions(total)
    /\ before.fullBleed => position - 1 \in Slides!StrategicPositions(total)
    /\ Slides!FullBleedHasAnImage

LEMMA StrategicPositionsLieApart ==
    ASSUME NEW n \in Nat, n >= 9, NEW i \in Nat,
           i \in Slides!StrategicPositions(n)
    PROVE  i - 1 \notin Slides!StrategicPositions(n)
<1> DEFINE third == n \div 3
<1>1. third \in Nat /\ 3 * third <= n /\ n < 3 * third + 3
    OBVIOUS
<1>2. i \in {1, third, third * 2, n - 1}
    BY DEF Slides!StrategicPositions
<1> HIDE DEF third
<1>3. i - 1 \notin {1, third, third * 2, n - 1}
    BY <1>1, <1>2
<1>4. QED
    BY <1>3 DEF Slides!StrategicPositions, third

\* The two strong emotions of the layouts, curiosity and urgency, are those of
\* hook and cta, and both have a background.
LEMMA StrongLayoutsHaveBackgrounds ==
    ASSUME NEW goal, Slides!Layout(goal).emotion \in Slides!HighEmotionBeats
    PROVE  Slides!Background(goal) # Slides!None
<1>1. goal \in {"hook", "cta"}
    BY DEF Slides!Layout, Slides!LayoutLogic, Slides!HighEmotionBeats
<1>2. QED
    BY <1>1 DEF Slides!Background, Slides!Backgrounds, Slides!Layout,
                Slides!LayoutLogic, Slides!None

LEMMA AskKeeps == ASSUME SlidesInv, Slides!Ask PROVE SlidesInv'
<1>1. PICK goal \in Slides!Goals, previous \in {context.emotion, Slides!None} :
          context' = Slides!Recommend(goal, position', total, previous)
    BY DEF Slides!Ask
<1>2. /\ position' = position + 1 /\ position' \in Nat /\ total' = total
      /\ before' = context
    BY DEF Slides!Ask, SlidesInv
<1>3. context'.fullBleed =>
          /\ position' \in Slides!StrategicPositions(total)
          /\ Slides!Layout(goal).emotion \in Slides!HighEmotionBeats
    BY <1>1 DEF Slides!Recommend, Slides!FullBleed
<1>4. Slides!FullBleedHasAnImage'
    BY <1>1, <1>3, StrongLayoutsHaveBackgrounds
       DEF Slides!Recommend, Slides!FullBleedHasAnImage
<1>5. before'.fullBleed => position' - 1 \in Slides!StrategicPositions(total)
    BY <1>2 DEF SlidesInv
<1>6. QED
    BY <1>2, <1>3, <1>4, <1>5 DEF SlidesInv, Slides!StrategicPositions

LEMMA SlidesStep ==
    ASSUME SlidesInv, [ToolsNext]_allVars, tool = "slides" PROVE SlidesInv'
<1>1. CASE Slides!Next
    BY <1>1, AskKeeps DEF Slides!Next
<1>2. CASE UNCHANGED allVars
    BY <1>2 DEF allVars, slidesVars, SlidesInv, Slides!StrategicPositions,
                Slides!FullBleedHasAnImage
<1>3. QED
    BY <1>1, <1>2 DEF ToolsNext

LEMMA SlidesKeeps == ToolsSpec => [](tool = "slides" => SlidesInv)
<1>1. ToolsInit => (tool = "slides" => SlidesInv)
    BY LengthsAssumption
       DEF ToolsInit, Slides!Init, Slides!NoContext, SlidesInv,
           Slides!FullBleedHasAnImage
<1>2. (tool = "slides" => SlidesInv) /\ [ToolsNext]_allVars
        => (tool = "slides" => SlidesInv)'
    BY SlidesStep, ToolStays
<1>3. QED
    BY <1>1, <1>2, PTL DEF ToolsSpec

-----------------------------------------------------------------------------
(***************************************************************************)
(* BrandBackground.  The colours come from one layer, for they are taken   *)
(* from the semantic one only when primary and secondary are both there.   *)
(***************************************************************************)
BackgroundInv ==
    /\ tokens \in Background!TokenFiles
    /\ Background!OverlayHasColours
    /\ Background!GradientIsOfOneLayer

LEMMA OverlayIsOfBrand ==
    ASSUME NEW type, NEW role \in DOMAIN Background!GetBackgroundImage(type)
    PROVE  /\ role \in Background!Roles
           /\ Background!GetBackgroundImage(type)[role]
                = Background!LoadBrandColors(tokens)[role]
BY DEF Background!GetBackgroundImage, Background!RolesOf, Background!Roles

LEMMA BrandIsOfOneLayer ==
    ASSUME NEW store \in Background!TokenFiles
    PROVE  LET colors == Background!LoadBrandColors(store)
           IN  \/ \A role \in Background!Roles : colors[role].layer = "semantic"
               \/ \A role \in Background!Roles : colors[role].layer # "semantic"
BY DEF Background!LoadBrandColors, Background!FromPalettes,
       Background!FromSemantic, Background!From, Background!Roles

LEMMA BrandHasColours ==
    ASSUME NEW store \in Background!TokenFiles, Background!OneStep(store),
           NEW role \in Background!Roles
    PROVE  Background!LoadBrandColors(store)[role].is = "colour"
<1>1. CASE store.there /\ Background!HasBoth(store.semantic)
    <2>1. \A r \in Background!Roles : store.semantic[r] \in {"absent", "{primitive}"}
        <3>1. store.semantic \in [Background!Roles -> Background!Semantic]
            BY <1>1 DEF Background!TokenFiles
        <3>2. \A r \in Background!Roles :
                  store.semantic[r] \notin {"{semantic}", "{group}"}
            BY <1>1 DEF Background!OneStep
        <3>3. QED
            BY <3>1, <3>2 DEF Background!Semantic
    <2>2. \A r \in {"primary", "secondary"} : store.semantic[r] = "{primitive}"
        BY <1>1, <2>1 DEF Background!HasBoth, Background!ResolveTokenReference,
                          Background!Roles, Background!Nothing
    <2>3. \A r \in Background!Roles :
              Background!ResolveTokenReference(store.semantic[r])
                  \in {"colour", Background!Nothing}
        BY <2>1 DEF Background!ResolveTokenReference
    <2>4. \A r \in {"primary", "secondary"} :
              Background!ResolveTokenReference(store.semantic[r]) = "colour"
        BY <2>2 DEF Background!ResolveTokenReference
    <2>5. Background!FromSemantic(store.semantic)[role].is = "colour"
        BY <2>3, <2>4
           DEF Background!FromSemantic, Background!From, Background!Or,
               Background!Roles
    <2>6. QED
        BY <1>1, <2>5 DEF Background!LoadBrandColors
<1>2. CASE ~(store.there /\ Background!HasBoth(store.semantic))
    BY <1>2 DEF Background!LoadBrandColors, Background!FromPalettes, Background!From
<1>3. QED
    BY <1>1, <1>2

LEMMA MainKeepsBackground ==
    ASSUME BackgroundInv, Background!Main PROVE BackgroundInv'
<1>1. PICK type : overlay' = Background!GetBackgroundImage(type)
    BY DEF Background!Main
<1>2. \A role \in DOMAIN overlay' :
          /\ role \in Background!Roles
          /\ overlay'[role] = Background!LoadBrandColors(tokens)[role]
    BY <1>1, OverlayIsOfBrand
<1>3. tokens' = tokens /\ tokens \in Background!TokenFiles
    BY DEF Background!Main, BackgroundInv
<1>4. Background!OverlayHasColours'
    BY <1>2, <1>3, BrandHasColours
       DEF Background!OverlayHasColours, Background!OneStep
<1>5. Background!GradientIsOfOneLayer'
    BY <1>2, <1>3, BrandIsOfOneLayer DEF Background!GradientIsOfOneLayer
<1>6. QED
    BY <1>3, <1>4, <1>5 DEF BackgroundInv

LEMMA BackgroundStep ==
    ASSUME BackgroundInv, [ToolsNext]_allVars, tool = "background"
    PROVE  BackgroundInv'
<1>1. CASE Background!Next
    BY <1>1, MainKeepsBackground DEF Background!Next
<1>2. CASE UNCHANGED allVars
    BY <1>2 DEF allVars, backgroundVars, BackgroundInv,
                Background!OverlayHasColours, Background!OneStep,
                Background!GradientIsOfOneLayer
<1>3. QED
    BY <1>1, <1>2 DEF ToolsNext

LEMMA BackgroundKeeps == ToolsSpec => [](tool = "background" => BackgroundInv)
<1>1. ToolsInit => (tool = "background" => BackgroundInv)
    BY DEF ToolsInit, Background!Init, BackgroundInv,
           Background!OverlayHasColours, Background!GradientIsOfOneLayer
<1>2. (tool = "background" => BackgroundInv) /\ [ToolsNext]_allVars
        => (tool = "background" => BackgroundInv)'
    BY BackgroundStep, ToolStays
<1>3. QED
    BY <1>1, <1>2, PTL DEF ToolsSpec

\* In decks of any length from nine slides on no two slides after each other
\* are full-bleed, a full-bleed slide has an image, and whatever a token file
\* leaves out, the overlay above the image has colours, of one layer.
THEOREM SlidesComposed == ToolsSpec => []SlidesAreComposed
<1>1. SlidesInv => Slides!ApartInLongDecks /\ Slides!FullBleedHasAnImage
    BY StrategicPositionsLieApart
       DEF SlidesInv, Slides!ApartInLongDecks, Slides!NeverConsecutive
<1>2. BackgroundInv => Background!OverlayHasColours /\ Background!GradientIsOfOneLayer
    BY DEF BackgroundInv
<1>3. QED
    BY <1>1, <1>2, SlidesKeeps, BackgroundKeeps, PTL DEF SlidesAreComposed

-----------------------------------------------------------------------------
(***************************************************************************)
(* MediaGeneration.  An item is behind its run when the loop goes on, so   *)
(* that the items of the results lie before it, each with a file of its    *)
(* own; and the request for an item is its only one.                       *)
(***************************************************************************)
HasKey == IF cmd \in Media!CipCommands THEN Media!EitherKey ELSE Media!GeminiKey

OwnTry == cmd # "icon_batch"

NamedInBatch == cmd \in {"icon_batch", "icon_sizes", "logo_batch"}

\* What RequestsAreSpaced demands between two requests.
Gap == CASE cmd = "icon_sizes" -> 1 [] cmd = "logo_batch" -> 2 [] OTHER -> 0

BatchIsInBounds ==
    /\ cmd \in {"icon", "logo", "cip"} => count = 1
    /\ cmd \in {"icon", "icon_sizes", "logo", "logo_batch", "icon_batch"}
           => pc \notin {"begin", "set"}
    /\ found <= count
    /\ OwnTry => item <= Media!Length
    /\ ~OwnTry =>
          /\ pc # "sleep"
          /\ pc \in {"call", "answer"} => item = 1
          /\ pc \in {"open", "write"} => item <= found

\* One request for each item up to the one the run is at.
CallsAreCounted ==
    OwnTry =>
        /\ ~HasKey => calledAt = <<>>
        /\ HasKey /\ pc \in {"begin", "set", "call", "sleep"} => Len(calledAt) = item - 1
        /\ HasKey /\ pc \in {"answer", "open", "write"} => Len(calledAt) = item
        /\ pc = "done" /\ calledAt # <<>> => Len(calledAt) = Media!Length

ResultsAreSaved ==
    /\ Len(results) = Cardinality(Media!Reported)
    /\ pc # "done" => \A i \in saved : i < item
    /\ OwnTry \/ pc # "done" => Media!Reported = saved
    /\ ~OwnTry /\ pc # "done" => saved = 1 .. item - 1
    /\ ~OwnTry /\ pc = "done" =>
          results = <<>> \/ (Media!Reported = saved /\ saved = 1 .. found)

FilesAreNamed ==
    NamedInBatch =>
        /\ pc = "write" => path = Media!NameInBatch(item)
        /\ \A k \in DOMAIN results : results[k].path = Media!NameInBatch(results[k].item)

CallsKeepDistance ==
    /\ \A k \in DOMAIN calledAt : calledAt[k] <= clock
    /\ pc \in {"begin", "set"} => calledAt = <<>>
    /\ pc = "sleep" => \A k \in DOMAIN calledAt : calledAt[k] + Gap <= wakeAt
    /\ pc = "call" => \A k \in DOMAIN calledAt : calledAt[k] + Gap <= clock

MediaInv ==
    /\ Media!TypeOK
    /\ BatchIsInBounds
    /\ CallsAreCounted
    /\ ResultsAreSaved
    /\ FilesAreNamed
    /\ CallsKeepDistance
    /\ Media!BatchKeepsItsFiles
    /\ Media!RequestsAreSpaced
    /\ Media!LogoIsUsed

LEMMA MediaCardinality == \A S : Media!Cardinality(S) = Cardinality(S)
BY DEF Media!Cardinality, Cardinality

LEMMA NumberTypes ==
    ASSUME Media!TypeOK
    PROVE  /\ count \in 1 .. MaxCount /\ item \in 1 .. MaxCount
           /\ count \in Nat \ {0} /\ item \in Nat \ {0}
           /\ found \in Nat /\ clock \in Nat /\ wakeAt \in Nat
<1>1. count \in Media!Items /\ item \in Media!Items
    BY DEF Media!TypeOK
<1>2. count \in 1 .. MaxCount /\ item \in 1 .. MaxCount
    BY <1>1 DEF Media!Items
<1>3. /\ found \in 0 .. MaxCount /\ clock \in 0 .. MaxClock
      /\ wakeAt \in 0 .. MaxClock + 2
    BY DEF Media!TypeOK
<1>4. QED
    BY <1>2, <1>3, BatchAssumption

LEMMA MomentTypes ==
    ASSUME Media!TypeOK
    PROVE  Len(calledAt) \in Nat /\ \A k \in DOMAIN calledAt : calledAt[k] \in Nat
<1>1. calledAt \in Seq(0 .. MaxClock)
    BY DEF Media!TypeOK
<1>2. QED
    BY <1>1, BatchAssumption

LEMMA SavedTypes ==
    ASSUME Media!TypeOK
    PROVE  saved \subseteq Nat \ {0}
<1>1. saved \subseteq Media!Items
    BY DEF Media!TypeOK
<1>2. QED
    BY <1>1, BatchAssumption DEF Media!Items

LEMMA ResultType ==
    ASSUME Media!TypeOK, NEW k \in DOMAIN results
    PROVE  results[k].item \in Media!Items
<1> DEFINE Results == [item : Media!Items, path : Media!Paths]
<1>1. results \in Seq(Results)
    BY DEF Media!TypeOK
<1>2. results[k] \in Results
    <2> HIDE DEF Results
    <2>1. QED
        BY <1>1
<1>3. QED
    BY <1>2

LEMMA ReportedType ==
    ASSUME Media!TypeOK
    PROVE  IsFiniteSet(Media!Reported) /\ Media!Reported \subseteq Media!Items
<1>1. Media!Reported \subseteq Media!Items
    BY ResultType DEF Media!Reported
<1>2. IsFiniteSet(Media!Items)
    BY BatchAssumption, FS_Interval DEF Media!Items
<1>3. QED
    BY <1>1, <1>2, FS_Subset

LEMMA LengthCases ==
    /\ cmd = "icon_batch" => Media!Length = found
    /\ cmd = "logo_batch" =>
          Media!Length = IF count < BatchStyles THEN count ELSE BatchStyles
    /\ cmd \notin {"icon_batch", "logo_batch"} => Media!Length = count
BY DEF Media!Length

LEMMA LengthType ==
    ASSUME Media!TypeOK, OwnTry
    PROVE  Media!Length \in Nat \ {0} /\ Media!Length <= count
<1>1. count \in Nat \ {0}
    BY NumberTypes
<1>2. CASE cmd = "logo_batch"
    <2>1. Media!Length = IF count < BatchStyles THEN count ELSE BatchStyles
        BY <1>2, LengthCases
    <2>2. QED
        BY <1>1, <2>1, BatchAssumption
<1>3. CASE cmd # "logo_batch"
    BY <1>1, <1>3, LengthCases DEF OwnTry
<1>4. QED
    BY <1>2, <1>3

LEMMA GapCases ==
    /\ cmd = "icon_sizes" => Gap = 1
    /\ cmd = "logo_batch" => Gap = 2
    /\ cmd \notin {"icon_sizes", "logo_batch"} => Gap = 0
    /\ Gap \in 0 .. 2
BY DEF Gap

LEMMA PauseCases ==
    /\ cmd = "icon_sizes" => Media!PauseAfter = 1
    /\ cmd = "logo_batch" => Media!PauseAfter = IF item < count THEN 2 ELSE 0
    /\ cmd \notin {"icon_sizes", "logo_batch"} => Media!PauseAfter = 0
    /\ Media!PauseAfter \in 0 .. 2
BY DEF Media!PauseAfter, Media!Pause

(***************************************************************************)
(* The steps outside the loop.                                             *)
(***************************************************************************)
LEMMA MediaStarts == ASSUME Media!Init PROVE MediaInv
<1>1. /\ item = 1 /\ results = <<>> /\ calledAt = <<>> /\ saved = {} /\ found = 0
      /\ pc = IF cmd \in Media!CipCommands THEN "begin" ELSE "call"
      /\ cmd \in {"icon", "logo", "cip"} => count = 1
    BY DEF Media!Init
<1>2. Cardinality(Media!Reported) = 0 /\ Media!Reported = {}
    <2>1. Media!Reported = {}
        BY <1>1 DEF Media!Reported
    <2>2. QED
        BY <2>1, FS_EmptySet
<1>3. Media!TypeOK
    <2>1. environ \subseteq Media!KeyNames
        <3>1. PICK process, envFile \in SUBSET Media!KeyNames :
                  environ = process \cup envFile
            BY DEF Media!Init, Media!LoadEnv
        <3>2. QED
            BY <3>1
    <2>2. 1 \in Media!Items /\ 0 \in 0 .. MaxClock /\ 0 \in 0 .. MaxCount
        BY BatchAssumption DEF Media!Items
    <2>3. path \in Media!Paths
        BY <2>2 DEF Media!NoPath, Media!Paths, Media!Init
    <2>4. wakeAt \in 0 .. MaxClock + 2 /\ clock \in 0 .. MaxClock
        <3>1. wakeAt = 0 /\ clock = 0
            BY DEF Media!Init
        <3>2. QED
            BY <3>1, BatchAssumption
    <2>5. file \in [Media!Paths -> Media!Images \cup {Absent}]
        BY DEF Media!Init
    <2>6. cmd \in Media!Commands /\ count \in Media!Items /\ edits \in BOOLEAN
        BY DEF Media!Init
    <2>7. logo \in {"there", "gone", "not given"}
        BY DEF Media!Init
    <2>8. pc \in {"begin", "set", "call", "answer", "open", "write", "sleep", "done"}
        BY <1>1
    <2>9. /\ calledAt \in Seq(0 .. MaxClock) /\ saved \subseteq Media!Items
          /\ results \in Seq([item : Media!Items, path : Media!Paths])
        BY <1>1
    <2>10. item \in Media!Items /\ found \in 0 .. MaxCount
        BY <1>1, <2>2
    <2>11. QED
        BY <2>1, <2>3, <2>4, <2>5, <2>6, <2>7, <2>8, <2>9, <2>10, Zenon
           DEF Media!TypeOK
<1>4. BatchIsInBounds
    <2>1. found <= count /\ (OwnTry => item <= Media!Length)
        BY <1>1, <1>3, LengthType, NumberTypes
    <2>2. pc \in {"begin", "call"} /\ (pc = "begin" => cmd \in {"cip", "cip_set"})
        BY <1>1 DEF Media!CipCommands
    <2>3. QED
        BY <1>1, <2>1, <2>2 DEF BatchIsInBounds, OwnTry
<1>5. pc \in {"begin", "call"}
    BY <1>1
<1>6. CallsAreCounted
    BY <1>1, <1>5 DEF CallsAreCounted
<1>7. ResultsAreSaved
    BY <1>1, <1>2, <1>5 DEF ResultsAreSaved
<1>8. FilesAreNamed /\ CallsKeepDistance
    BY <1>1, <1>5 DEF FilesAreNamed, CallsKeepDistance
<1>9. Media!BatchKeepsItsFiles /\ Media!RequestsAreSpaced
    BY <1>1 DEF Media!BatchKeepsItsFiles, Media!RequestsAreSpaced
<1>10. Media!LogoIsUsed
    <2>1. logo = "there" => cmd \in Media!CipCommands
        BY DEF Media!Init
    <2>2. QED
        BY <1>1, <2>1 DEF Media!LogoIsUsed
<1>11. QED
    BY <1>3, <1>4, <1>6, <1>7, <1>8, <1>9, <1>10 DEF MediaInv

\* RequestsAreSpaced, said with Gap.
LEMMA SpacedByGap ==
    Media!RequestsAreSpaced <=>
        \A k \in 2 .. Len(calledAt) : calledAt[k] >= calledAt[k - 1] + Gap
BY DEF Media!RequestsAreSpaced, Gap

LEMMA RequestStays ==
    ASSUME UNCHANGED <<environ, cmd, count>>
    PROVE  /\ Gap' = Gap /\ HasKey' = HasKey /\ OwnTry' = OwnTry
           /\ NamedInBatch' = NamedInBatch
           /\ found' = found \/ OwnTry => Media!Length' = Media!Length
BY DEF Gap, HasKey, OwnTry, NamedInBatch, Media!Length, Media!EitherKey,
       Media!GeminiKey

LEMMA TickKeeps == ASSUME MediaInv, Media!Tick PROVE MediaInv'
<1> USE DEF MediaInv
<1>1. /\ UNCHANGED <<environ, cmd, count, file, logo, edits, pc, path, found,
                     calledAt, item, wakeAt, saved, results>>
      /\ clock' = clock + 1 /\ clock < MaxClock
    BY DEF Media!Tick, Media!asked, Media!logoVars, Media!batchVars
<1>2. clock \in Nat /\ clock' \in 0 .. MaxClock
    BY <1>1, NumberTypes, BatchAssumption
<1>3. Media!TypeOK'
    BY <1>1, <1>2 DEF Media!TypeOK
<1>4. BatchIsInBounds' /\ CallsAreCounted' /\ ResultsAreSaved' /\ FilesAreNamed'
    BY <1>1, RequestStays
       DEF BatchIsInBounds, CallsAreCounted, ResultsAreSaved, FilesAreNamed,
           Media!Reported, Media!NameInBatch
<1>5. CallsKeepDistance'
    <2>1. \A k \in DOMAIN calledAt : calledAt[k] \in Nat
        BY MomentTypes
    <2>2. Gap \in Nat
        BY GapCases
    <2>3. QED
        BY <1>1, <1>2, <2>1, <2>2, RequestStays DEF CallsKeepDistance
<1>6. Media!BatchKeepsItsFiles' /\ Media!RequestsAreSpaced' /\ Media!LogoIsUsed'
    BY <1>1 DEF Media!BatchKeepsItsFiles, Media!RequestsAreSpaced, Media!LogoIsUsed
<1>7. QED
    BY <1>3, <1>4, <1>5, <1>6

\* Whoever takes the logo away does so before the run has looked at it.
LEMMA LogoKeeps == ASSUME MediaInv, Media!LogoIsTakenAway PROVE MediaInv'
<1> USE DEF MediaInv
<1>1. /\ UNCHANGED <<environ, cmd, count, file, clock, edits, pc, path, found,
                     calledAt, item, wakeAt, saved, results>>
      /\ logo' = "gone"
    BY DEF Media!LogoIsTakenAway, Media!asked, Media!batchVars
<1>2. Media!TypeOK'
    BY <1>1 DEF Media!TypeOK
<1>3. BatchIsInBounds' /\ CallsAreCounted' /\ ResultsAreSaved' /\ FilesAreNamed'
    BY <1>1, RequestStays
       DEF BatchIsInBounds, CallsAreCounted, ResultsAreSaved, FilesAreNamed,
           Media!Reported, Media!NameInBatch
<1>4. CallsKeepDistance' /\ Media!LogoIsUsed'
    BY <1>1, RequestStays DEF CallsKeepDistance, Media!LogoIsUsed
<1>5. Media!BatchKeepsItsFiles' /\ Media!RequestsAreSpaced'
    BY <1>1 DEF Media!BatchKeepsItsFiles, Media!RequestsAreSpaced
<1>6. QED
    BY <1>2, <1>3, <1>4, <1>5

LEMMA BeginKeeps ==
    ASSUME MediaInv, Media!Begin \/ Media!BeginSet PROVE MediaInv'
<1> USE DEF MediaInv
<1>1. /\ UNCHANGED <<environ, cmd, count, file, clock, logo, path, found,
                     calledAt, item, wakeAt, saved, results>>
      /\ pc \in {"begin", "set"}
      /\ edits' = (logo = "there")
      /\ pc' \in {"set", "call", "done"}
      /\ pc' = "set" => cmd = "cip_set"
    BY DEF Media!Begin, Media!BeginSet, Media!beforeTheCalls, Media!asked,
           Media!batchVars, Media!LoadsAgain
<1>2. OwnTry
    BY <1>1 DEF BatchIsInBounds, OwnTry
<1>3. calledAt = <<>>
    BY <1>1 DEF CallsKeepDistance
<1>4. Media!TypeOK'
    BY <1>1 DEF Media!TypeOK
<1>5. BatchIsInBounds'
    BY <1>1, <1>2, RequestStays DEF BatchIsInBounds
<1>6. CallsAreCounted'
    BY <1>1, <1>3, RequestStays DEF CallsAreCounted
<1>7. ResultsAreSaved' /\ FilesAreNamed'
    BY <1>1, <1>2, RequestStays
       DEF ResultsAreSaved, FilesAreNamed, Media!Reported, Media!NameInBatch
<1>8. CallsKeepDistance'
    BY <1>1, <1>3, RequestStays DEF CallsKeepDistance
<1>9. Media!LogoIsUsed'
    BY <1>1, Zenon DEF Media!LogoIsUsed
<1>10. Media!BatchKeepsItsFiles' /\ Media!RequestsAreSpaced'
    BY <1>1 DEF Media!BatchKeepsItsFiles, Media!RequestsAreSpaced
<1>11. QED
    BY <1>4, <1>5, <1>6, <1>7, <1>8, <1>9, <1>10

LEMMA WakeKeeps == ASSUME MediaInv, Media!Wake PROVE MediaInv'
<1> USE DEF MediaInv
<1>1. /\ UNCHANGED <<environ, cmd, count, file, clock, logo, edits, path, found,
                     calledAt, item, wakeAt, saved, results>>
      /\ pc = "sleep" /\ pc' = "call" /\ clock >= wakeAt
    BY DEF Media!Wake, Media!asked, Media!logoVars, Media!batchVars
<1>2. OwnTry
    BY <1>1 DEF BatchIsInBounds
<1>3. Media!TypeOK'
    BY <1>1 DEF Media!TypeOK
<1>4. BatchIsInBounds' /\ CallsAreCounted' /\ ResultsAreSaved' /\ FilesAreNamed'
    BY <1>1, <1>2, RequestStays
       DEF BatchIsInBounds, CallsAreCounted, ResultsAreSaved, FilesAreNamed,
           Media!Reported, Media!NameInBatch
<1>5. CallsKeepDistance'
    <2>1. \A k \in DOMAIN calledAt : calledAt[k] \in Nat
        BY MomentTypes
    <2>2. Gap \in Nat /\ clock \in Nat /\ wakeAt \in Nat
        BY GapCases, NumberTypes
    <2>3. QED
        BY <1>1, <2>1, <2>2, RequestStays DEF CallsKeepDistance
<1>6. Media!BatchKeepsItsFiles' /\ Media!RequestsAreSpaced' /\ Media!LogoIsUsed'
    BY <1>1 DEF Media!BatchKeepsItsFiles, Media!RequestsAreSpaced, Media!LogoIsUsed
<1>7. QED
    BY <1>3, <1>4, <1>5, <1>6

(***************************************************************************)
(* The steps of the loop.                                                  *)
(***************************************************************************)
LEMMA GoOnGoesOn ==
    ASSUME MediaInv, Media!GoOn, OwnTry \/ pc \in {"open", "write"}
    PROVE  /\ item' \in Media!Items
           /\ wakeAt' \in 0 .. MaxClock + 2
           /\ \/ pc' = "done" /\ item' = item /\ item = Media!Length
              \/ /\ pc' = IF OwnTry THEN "sleep" ELSE "open"
                 /\ item' = item + 1 /\ item' <= Media!Length
                 /\ wakeAt' = clock + Gap
<1> USE DEF MediaInv
<1>1. item \in Nat \ {0} /\ item <= Media!Length /\ Media!Length \in Nat
    <2>1. CASE OwnTry
        BY <2>1, NumberTypes, LengthType DEF BatchIsInBounds
    <2>2. CASE ~OwnTry
        BY <2>2, NumberTypes, LengthCases DEF BatchIsInBounds, OwnTry
    <2>3. QED
        BY <2>1, <2>2
<1>2. Media!Length <= MaxCount
    <2>1. count <= MaxCount /\ found <= count /\ count \in Nat /\ found \in Nat
        BY NumberTypes, BatchAssumption DEF BatchIsInBounds
    <2>2. CASE OwnTry
        BY <2>1, <2>2, LengthType, BatchAssumption
    <2>3. CASE ~OwnTry
        BY <2>1, <2>3, LengthCases, BatchAssumption DEF OwnTry
    <2>4. QED
        BY <2>2, <2>3
<1>3. wakeAt' = clock + Media!PauseAfter
    BY DEF Media!GoOn
<1>4. wakeAt' \in 0 .. MaxClock + 2
    <2>1. clock \in 0 .. MaxClock
        BY DEF Media!TypeOK
    <2>2. Media!PauseAfter \in 0 .. 2
        BY PauseCases
    <2>3. QED
        BY <1>3, <2>1, <2>2, BatchAssumption
<1>5. CASE item >= Media!Length
    <2>1. pc' = "done" /\ item' = item
        BY <1>5 DEF Media!GoOn, Media!IsLast
    <2>2. item = Media!Length
        BY <1>1, <1>5
    <2>3. item' \in Media!Items
        BY <2>1 DEF Media!TypeOK
    <2>4. QED
        BY <1>4, <2>1, <2>2, <2>3
<1>6. CASE ~(item >= Media!Length)
    <2>1. pc' = (IF OwnTry THEN "sleep" ELSE "open") /\ item' = item + 1
        BY <1>6 DEF Media!GoOn, Media!IsLast, OwnTry
    <2>2. item < Media!Length /\ item + 1 <= Media!Length
        BY <1>1, <1>6
    <2>3. item + 1 \in 1 .. MaxCount
        BY <1>1, <1>2, <2>2, BatchAssumption
    <2>4. Media!PauseAfter = Gap
        <3>1. CASE cmd = "logo_batch"
            <4>1. Media!Length <= count /\ count \in Nat
                BY <3>1, LengthType, NumberTypes DEF OwnTry
            <4>2. item < count
                BY <1>1, <2>2, <4>1
            <4>3. QED
                BY <3>1, <4>2, PauseCases, GapCases
        <3>2. CASE cmd # "logo_batch"
            BY <3>2, PauseCases, GapCases
        <3>3. QED
            BY <3>1, <3>2
    <2>5. QED
        BY <1>3, <1>4, <2>1, <2>2, <2>3, <2>4 DEF Media!Items
<1>7. QED
    BY <1>5, <1>6

\* An item that fails: the loop goes on to the next, and only the SVGs of one
\* answer are given up together.
LEMMA FailsKeeps ==
    ASSUME MediaInv, Media!Fails,
           pc \in {"call", "answer", "open", "write"},
           pc = "call" => ~HasKey,
           UNCHANGED <<environ, cmd, count, clock, file, logo, edits, found, calledAt>>,
           path' \in Media!Paths
    PROVE  MediaInv'
<1> USE DEF MediaInv
<1>1. saved' = saved
    BY DEF Media!Fails
<1>2. /\ Gap' = Gap /\ HasKey' = HasKey /\ OwnTry' = OwnTry
      /\ NamedInBatch' = NamedInBatch /\ Media!Length' = Media!Length
    BY RequestStays
<1>3. Media!BatchKeepsItsFiles' /\ Media!RequestsAreSpaced' /\ Media!LogoIsUsed'
    <2>1. Media!BatchKeepsItsFiles'
        BY DEF Media!BatchKeepsItsFiles, Media!Fails
    <2>2. pc' \notin {"begin", "set"}
        BY DEF Media!Fails, Media!GoOn
    <2>3. Media!LogoIsUsed'
        BY <2>2 DEF Media!LogoIsUsed
    <2>4. QED
        BY <2>1, <2>3 DEF Media!RequestsAreSpaced
<1>4. CASE OwnTry
    <2>1. Media!GoOn /\ results' = results
        BY <1>4 DEF Media!Fails, Media!HasItsOwnTry, OwnTry
    <2>2. /\ item' \in Media!Items /\ wakeAt' \in 0 .. MaxClock + 2
          /\ \/ pc' = "done" /\ item' = item /\ item = Media!Length
             \/ /\ pc' = "sleep" /\ item' = item + 1 /\ item' <= Media!Length
                /\ wakeAt' = clock + Gap
        BY <1>4, <2>1, GoOnGoesOn
    <2>3. item \in Nat \ {0} /\ Len(calledAt) \in Nat /\ clock \in Nat /\ Gap \in Nat
        BY NumberTypes, MomentTypes, GapCases
    <2>4. Media!TypeOK'
        BY <1>1, <2>1, <2>2 DEF Media!TypeOK
    <2>5. BatchIsInBounds'
        BY <1>2, <1>4, <2>2 DEF BatchIsInBounds
    <2>6. CallsAreCounted'
        <3>1. CASE ~HasKey
            BY <1>2, <1>4, <3>1 DEF CallsAreCounted
        <3>2. CASE HasKey
            <4>1. Len(calledAt) = item
                BY <1>4, <3>2 DEF CallsAreCounted
            <4>2. QED
                BY <1>2, <1>4, <2>2, <2>3, <3>2, <4>1 DEF CallsAreCounted
        <3>3. QED
            BY <3>1, <3>2
    <2>7. ResultsAreSaved'
        <3>1. \A i \in saved : i < item /\ i \in Nat
            BY SavedTypes DEF ResultsAreSaved
        <3>2. pc' # "done" => \A i \in saved' : i < item'
            BY <1>1, <2>2, <2>3, <3>1
        <3>3. Media!Reported' = Media!Reported /\ Len(results)' = Len(results)
            BY <2>1 DEF Media!Reported
        <3>4. QED
            BY <1>1, <1>2, <1>4, <3>2, <3>3 DEF ResultsAreSaved
    <2>8. FilesAreNamed'
        BY <1>2, <2>1, <2>2 DEF FilesAreNamed, Media!NameInBatch
    <2>9. CallsKeepDistance'
        <3>1. \A k \in DOMAIN calledAt : calledAt[k] <= clock /\ calledAt[k] \in Nat
            BY MomentTypes DEF CallsKeepDistance
        <3>2. QED
            BY <1>2, <2>2, <2>3, <3>1 DEF CallsKeepDistance
    <2>10. QED
        BY <1>3, <2>4, <2>5, <2>6, <2>7, <2>8, <2>9
<1>5. CASE ~OwnTry
    <2>1. results' = <<>> /\ pc' = "done" /\ UNCHANGED <<item, wakeAt>>
        BY <1>5 DEF Media!Fails, Media!HasItsOwnTry, OwnTry
    <2>2. Media!TypeOK'
        <3> DEFINE Results == Seq([item : Media!Items, path : Media!Paths])
        <3>1. results' \in Results
            BY <2>1
        <3>2. saved' \subseteq Media!Items /\ item' \in Media!Items
            BY <1>1, <2>1 DEF Media!TypeOK
        <3>3. wakeAt' \in 0 .. MaxClock + 2
            BY <2>1 DEF Media!TypeOK
        <3>4. QED
            BY <2>1, <3>1, <3>2, <3>3 DEF Media!TypeOK
    <2>3. BatchIsInBounds' /\ CallsAreCounted'
        BY <1>2, <1>5, <2>1 DEF BatchIsInBounds, CallsAreCounted
    <2>4. ResultsAreSaved'
        <3>1. Media!Reported' = {}
            BY <2>1 DEF Media!Reported
        <3>2. Len(results)' = Cardinality(Media!Reported')
            BY <2>1, <3>1, FS_EmptySet
        <3>3. QED
            BY <1>2, <1>5, <2>1, <3>2 DEF ResultsAreSaved
    <2>5. FilesAreNamed' /\ CallsKeepDistance'
        BY <1>2, <2>1 DEF FilesAreNamed, CallsKeepDistance
    <2>6. QED
        BY <1>3, <2>2, <2>3, <2>4, <2>5
<1>6. QED
    BY <1>4, <1>5

LEMMA CallsKeeps ==
    ASSUME MediaInv, NEW hasKey, hasKey = HasKey, Media!Calls(hasKey)
    PROVE  MediaInv'
<1> USE DEF MediaInv
<1>1. /\ UNCHANGED <<environ, cmd, count, clock, file, logo, edits, path, found>>
      /\ pc = "call"
    BY DEF Media!Calls, Media!asked, Media!logoVars
<1>2. CASE ~HasKey
    <2>1. Media!Fails /\ UNCHANGED calledAt
        BY <1>2 DEF Media!Calls
    <2>2. path' \in Media!Paths
        BY <1>1 DEF Media!TypeOK
    <2>3. QED
        BY <1>1, <1>2, <2>1, <2>2, FailsKeeps
<1>3. CASE HasKey
    <2>1. /\ calledAt' = Append(calledAt, clock) /\ pc' = "answer"
          /\ UNCHANGED <<item, wakeAt, saved, results>>
        BY <1>3 DEF Media!Calls, Media!batchVars
    <2>2. /\ Gap' = Gap /\ HasKey' = HasKey /\ OwnTry' = OwnTry
          /\ NamedInBatch' = NamedInBatch /\ Media!Length' = Media!Length
        BY <1>1, RequestStays
    <2>3. /\ calledAt \in Seq(0 .. MaxClock) /\ clock \in 0 .. MaxClock
          /\ clock \in Nat /\ item \in Nat /\ Gap \in Nat
        <3>1. calledAt \in Seq(0 .. MaxClock) /\ clock \in 0 .. MaxClock
            BY DEF Media!TypeOK
        <3>2. QED
            BY <3>1, NumberTypes, GapCases
    <2>4. /\ calledAt' \in Seq(0 .. MaxClock)
          /\ Len(calledAt') = Len(calledAt) + 1 /\ Len(calledAt) \in Nat
          /\ \A k \in DOMAIN calledAt' :
                calledAt'[k] = IF k = Len(calledAt) + 1 THEN clock ELSE calledAt[k]
          /\ \A k \in DOMAIN calledAt' : k # Len(calledAt) + 1 => k \in DOMAIN calledAt
        <3>1. calledAt' \in Seq(0 .. MaxClock)
            BY <2>1, <2>3
        <3>2. /\ Len(calledAt') = Len(calledAt) + 1 /\ Len(calledAt) \in Nat
              /\ DOMAIN calledAt = 1 .. Len(calledAt)
              /\ DOMAIN calledAt' = 1 .. Len(calledAt) + 1
            BY <2>1, <2>3
        <3>3. \A k \in DOMAIN calledAt' :
                calledAt'[k] = IF k = Len(calledAt) + 1 THEN clock ELSE calledAt[k]
            BY <2>1, <2>3, <3>2
        <3>4. QED
            BY <3>1, <3>2, <3>3
    <2>5. Media!TypeOK'
        BY <1>1, <2>1, <2>4, Zenon DEF Media!TypeOK
    <2>6. BatchIsInBounds'
        BY <1>1, <2>1, <2>2 DEF BatchIsInBounds
    <2>7. CallsAreCounted'
        <3>1. OwnTry => Len(calledAt) = item - 1
            BY <1>1, <1>3 DEF CallsAreCounted
        <3>2. QED
            BY <1>3, <2>1, <2>2, <2>3, <2>4, <3>1 DEF CallsAreCounted
    <2>8. ResultsAreSaved' /\ FilesAreNamed'
        BY <1>1, <2>1, <2>2
           DEF ResultsAreSaved, FilesAreNamed, Media!Reported, Media!NameInBatch
    <2>9. CallsKeepDistance'
        <3>1. \A k \in DOMAIN calledAt : calledAt[k] <= clock
            BY DEF CallsKeepDistance
        <3>2. \A k \in DOMAIN calledAt' : calledAt'[k] <= clock
            BY <2>3, <2>4, <3>1
        <3>3. QED
            BY <1>1, <2>1, <3>2 DEF CallsKeepDistance
    <2>10. Media!RequestsAreSpaced'
        <3>1. \A k \in 2 .. Len(calledAt) : calledAt[k] >= calledAt[k - 1] + Gap
            BY SpacedByGap
        <3>2. \A k \in DOMAIN calledAt : calledAt[k] + Gap <= clock /\ calledAt[k] \in Nat
            BY <1>1, MomentTypes DEF CallsKeepDistance
        <3>3. \A k \in 2 .. Len(calledAt') : calledAt'[k] >= calledAt'[k - 1] + Gap'
            <4> TAKE k \in 2 .. Len(calledAt')
            <4>1. Len(calledAt) \in Nat /\ Gap' = Gap
                BY <2>2, MomentTypes
            <4>2. CASE k \in 2 .. Len(calledAt)
                <5>1. calledAt'[k] = calledAt[k] /\ calledAt'[k - 1] = calledAt[k - 1]
                    BY <2>1, <2>3, <4>1, <4>2
                <5>2. QED
                    BY <3>1, <4>1, <4>2, <5>1
            <4>3. CASE k = Len(calledAt) + 1
                <5>1. /\ k - 1 \in DOMAIN calledAt
                      /\ calledAt'[k] = clock /\ calledAt'[k - 1] = calledAt[k - 1]
                    BY <2>1, <2>3, <4>1, <4>3
                <5>2. QED
                    BY <2>3, <3>2, <4>1, <5>1
            <4>4. QED
                BY <2>4, <4>1, <4>2, <4>3
        <3>4. Media!RequestsAreSpaced' <=>
                  \A k \in 2 .. Len(calledAt') : calledAt'[k] >= calledAt'[k - 1] + Gap'
            BY DEF Media!RequestsAreSpaced, Gap
        <3>5. QED
            BY <3>3, <3>4
    <2>11. Media!BatchKeepsItsFiles' /\ Media!LogoIsUsed'
        BY <1>1, <2>1 DEF Media!BatchKeepsItsFiles, Media!LogoIsUsed
    <2>12. QED
        BY <2>5, <2>6, <2>7, <2>8, <2>9, <2>10, <2>11
<1>4. QED
    BY <1>2, <1>3

LEMMA AnswersKeeps ==
    ASSUME MediaInv, NEW number, number \subseteq 1 .. count, Media!Answers(number)
    PROVE  MediaInv'
<1> USE DEF MediaInv
<1>1. /\ UNCHANGED <<environ, cmd, count, clock, file, logo, edits, path, calledAt>>
      /\ pc = "answer"
    BY DEF Media!Answers, Media!asked, Media!logoVars
<1>2. CASE Media!Fails /\ UNCHANGED found
    <2>1. path' \in Media!Paths
        BY <1>1 DEF Media!TypeOK
    <2>2. QED
        BY <1>1, <1>2, <2>1, FailsKeeps
<1>3. CASE ~(Media!Fails /\ UNCHANGED found)
    <2>1. /\ found' \in number /\ pc' = "open"
          /\ UNCHANGED <<item, wakeAt, saved, results>>
        BY <1>3 DEF Media!Answers, Media!batchVars
    <2>2. /\ Gap' = Gap /\ HasKey' = HasKey /\ OwnTry' = OwnTry
          /\ NamedInBatch' = NamedInBatch
          /\ OwnTry => Media!Length' = Media!Length
        BY <1>1, RequestStays
    <2>3. found' \in 1 .. count /\ found' \in 0 .. MaxCount
        <3>1. count \in 1 .. MaxCount /\ MaxCount \in Nat
            BY NumberTypes, BatchAssumption
        <3>2. QED
            BY <2>1, <3>1
    <2>4. Media!TypeOK'
        BY <1>1, <2>1, <2>3 DEF Media!TypeOK
    <2>5. BatchIsInBounds'
        <3>1. found' <= count' /\ found' >= 1
            BY <1>1, <2>3, NumberTypes
        <3>2. ~OwnTry => item' = 1 /\ item' <= found'
            BY <1>1, <2>1, <3>1 DEF BatchIsInBounds
        <3>3. QED
            BY <1>1, <2>1, <2>2, <3>1, <3>2 DEF BatchIsInBounds
    <2>6. CallsAreCounted'
        BY <1>1, <2>1, <2>2 DEF CallsAreCounted
    <2>7. ResultsAreSaved' /\ FilesAreNamed'
        BY <1>1, <2>1, <2>2
           DEF ResultsAreSaved, FilesAreNamed, Media!Reported, Media!NameInBatch
    <2>8. CallsKeepDistance'
        BY <1>1, <2>1, <2>2 DEF CallsKeepDistance
    <2>9. Media!BatchKeepsItsFiles' /\ Media!RequestsAreSpaced' /\ Media!LogoIsUsed'
        BY <1>1, <2>1
           DEF Media!BatchKeepsItsFiles, Media!RequestsAreSpaced, Media!LogoIsUsed
    <2>10. QED
        BY <2>4, <2>5, <2>6, <2>7, <2>8, <2>9
<1>4. QED
    BY <1>2, <1>3

\* The items of the results have files of their own: not the one the run is at.
LEMMA OthersFilesStay ==
    ASSUME MediaInv, pc \in {"open", "write"}, cmd \notin Media!CipCommands,
           NEW p, NamedInBatch => p = Media!NameInBatch(item),
           NEW k \in DOMAIN results
    PROVE  results[k].path # p
<1>1. saved \subseteq Nat \ {0} /\ item \in Nat
    BY SavedTypes, NumberTypes DEF MediaInv
<1>2. results[k].item \in saved /\ results[k].item < item
    BY DEF MediaInv, ResultsAreSaved, Media!Reported
<1>3. CASE NamedInBatch
    <2>1. results[k].item # item
        BY <1>1, <1>2
    <2>2. results[k].path = Media!NameInBatch(results[k].item)
        BY <1>3 DEF MediaInv, FilesAreNamed
    <2>3. QED
        BY <1>3, <2>1, <2>2 DEF Media!NameInBatch
<1>4. CASE ~NamedInBatch
    <2>1. cmd \in {"icon", "logo"}
        BY <1>4 DEF NamedInBatch, MediaInv, Media!TypeOK, Media!Commands,
                    Media!IconCommands, Media!LogoCommands, Media!CipCommands
    <2>2. count = 1 /\ Media!Length = count /\ OwnTry
        BY <2>1, LengthCases DEF MediaInv, BatchIsInBounds, OwnTry
    <2>3. item <= 1
        BY <2>2 DEF MediaInv, BatchIsInBounds
    <2>4. saved = {}
        <3>1. \A i \in saved : i < item
            BY DEF MediaInv, ResultsAreSaved
        <3>2. QED
            BY <1>1, <2>3, <3>1
    <2>5. QED
        BY <1>2, <2>4
<1>5. QED
    BY <1>3, <1>4

LEMMA OpensKeeps ==
    ASSUME MediaInv, NEW paths, paths \subseteq Media!Paths,
           NamedInBatch => paths = {Media!NameInBatch(item)}, Media!Opens(paths)
    PROVE  MediaInv'
<1> USE DEF MediaInv
<1>1. /\ UNCHANGED <<environ, cmd, count, clock, logo, edits, found, calledAt>>
      /\ pc = "open" /\ path' \in paths
    BY DEF Media!Opens, Media!asked, Media!logoVars
<1>2. path' \in Media!Paths /\ (NamedInBatch => path' = Media!NameInBatch(item))
    BY <1>1
<1>3. CASE Media!Fails /\ UNCHANGED file
    BY <1>1, <1>2, <1>3, FailsKeeps
<1>4. CASE ~(Media!Fails /\ UNCHANGED file)
    <2>1. /\ file' = [file EXCEPT ![path'] = [item |-> item, whole |-> FALSE]]
          /\ pc' = "write"
          /\ UNCHANGED <<item, wakeAt, saved, results>>
        BY <1>4 DEF Media!Opens, Media!batchVars
    <2>2. /\ Gap' = Gap /\ HasKey' = HasKey /\ OwnTry' = OwnTry
          /\ NamedInBatch' = NamedInBatch /\ Media!Length' = Media!Length
        BY <1>1, RequestStays
    <2>3. Media!TypeOK'
        <3>1. file' \in [Media!Paths -> Media!Images \cup {Absent}]
            <4>1. file \in [Media!Paths -> Media!Images \cup {Absent}]
                BY DEF Media!TypeOK
            <4>2. [item |-> item, whole |-> FALSE] \in Media!Images
                BY DEF Media!TypeOK, Media!Images
            <4>3. QED
                BY <2>1, <4>1, <4>2
        <3>2. QED
            BY <1>1, <1>2, <2>1, <3>1 DEF Media!TypeOK
    <2>4. BatchIsInBounds' /\ CallsAreCounted'
        BY <1>1, <2>1, <2>2 DEF BatchIsInBounds, CallsAreCounted
    <2>5. ResultsAreSaved' /\ FilesAreNamed'
        BY <1>1, <1>2, <2>1, <2>2
           DEF ResultsAreSaved, FilesAreNamed, Media!Reported, Media!NameInBatch
    <2>6. CallsKeepDistance'
        BY <1>1, <2>1, <2>2 DEF CallsKeepDistance
    <2>7. Media!BatchKeepsItsFiles'
        <3>1. cmd \notin Media!CipCommands =>
                  \A k \in DOMAIN results : results[k].path # path'
            BY <1>1, <1>2, OthersFilesStay
        <3>2. file \in [Media!Paths -> Media!Images \cup {Absent}]
            BY DEF Media!TypeOK
        <3>3. \A p : p # path' => file'[p] = file[p]
            BY <2>1, <3>2
        <3>4. QED
            BY <1>1, <2>1, <3>1, <3>3 DEF Media!BatchKeepsItsFiles
    <2>8. Media!RequestsAreSpaced' /\ Media!LogoIsUsed'
        BY <1>1, <2>1 DEF Media!RequestsAreSpaced, Media!LogoIsUsed
    <2>9. QED
        BY <2>3, <2>4, <2>5, <2>6, <2>7, <2>8
<1>5. QED
    BY <1>3, <1>4

LEMMA WriteKeeps == ASSUME MediaInv, Media!Write PROVE MediaInv'
<1> USE DEF MediaInv
<1>1. /\ UNCHANGED <<environ, cmd, count, clock, logo, edits, path, found, calledAt>>
      /\ pc = "write"
    BY DEF Media!Write, Media!asked, Media!logoVars
<1>2. path \in Media!Paths /\ path' \in Media!Paths
    BY <1>1 DEF Media!TypeOK
<1>3. CASE Media!Fails /\ UNCHANGED file
    BY <1>1, <1>2, <1>3, FailsKeeps
<1>4. CASE ~(Media!Fails /\ UNCHANGED file)
    <2>1. /\ file' = [file EXCEPT ![path] = [item |-> item, whole |-> TRUE]]
          /\ saved' = saved \cup {item}
          /\ results' = Append(results, [item |-> item, path |-> path])
          /\ Media!GoOn
        BY <1>4 DEF Media!Write
    <2>2. /\ Gap' = Gap /\ HasKey' = HasKey /\ OwnTry' = OwnTry
          /\ NamedInBatch' = NamedInBatch /\ Media!Length' = Media!Length
        BY <1>1, RequestStays
    <2>3. /\ item' \in Media!Items /\ wakeAt' \in 0 .. MaxClock + 2
          /\ \/ pc' = "done" /\ item' = item /\ item = Media!Length
             \/ /\ pc' = IF OwnTry THEN "sleep" ELSE "open"
                /\ item' = item + 1 /\ item' <= Media!Length
                /\ wakeAt' = clock + Gap
        BY <1>1, <2>1, GoOnGoesOn
    <2>4. /\ item \in Nat \ {0} /\ Len(calledAt) \in Nat /\ clock \in Nat
          /\ Gap \in Nat /\ found \in Nat
        BY NumberTypes, MomentTypes, GapCases
    <2>5. ~OwnTry => Media!Length = found
        BY LengthCases DEF OwnTry
    <2>6. /\ Media!Reported = saved /\ Len(results) = Cardinality(Media!Reported)
          /\ \A i \in saved : i < item
          /\ ~OwnTry => saved = 1 .. item - 1
        BY <1>1 DEF ResultsAreSaved
    <2> DEFINE Results == [item : Media!Items, path : Media!Paths]
               new == [item |-> item, path |-> path]
    <2>7. results \in Seq(Results) /\ new \in Results /\ new.item = item /\ new.path = path
        BY <1>2 DEF Media!TypeOK
    <2>8. results' = Append(results, new)
        BY <2>1
    <2>9. /\ results' \in Seq(Results)
          /\ Len(results) \in Nat /\ Len(results') = Len(results) + 1
          /\ DOMAIN results = 1 .. Len(results)
          /\ DOMAIN results' = 1 .. Len(results) + 1
          /\ results'[Len(results) + 1] = new
          /\ \A k \in DOMAIN results : results'[k] = results[k]
        <3> HIDE DEF Results, new
        <3>1. QED
            BY <2>7, <2>8
    <2>10. \A k \in DOMAIN results' :
              \/ k \in DOMAIN results /\ results'[k] = results[k]
              \/ results'[k] = new
        BY <2>9
    <2>11. Media!Reported' = Media!Reported \cup {item}
        <3>1. \A k \in DOMAIN results' :
                 results'[k].item \in Media!Reported \cup {item}
            BY <2>7, <2>10 DEF Media!Reported
        <3>2. \A k \in DOMAIN results :
                 k \in DOMAIN results' /\ results'[k].item = results[k].item
            BY <2>9
        <3>3. Len(results) + 1 \in DOMAIN results' /\ results'[Len(results) + 1].item = item
            BY <2>7, <2>9
        <3>4. QED
            BY <3>1, <3>2, <3>3 DEF Media!Reported
    <2>12. Media!TypeOK'
        <3>1. file' \in [Media!Paths -> Media!Images \cup {Absent}]
            <4>1. file \in [Media!Paths -> Media!Images \cup {Absent}]
                BY DEF Media!TypeOK
            <4>2. [item |-> item, whole |-> TRUE] \in Media!Images
                BY DEF Media!TypeOK, Media!Images
            <4>3. QED
                BY <2>1, <4>1, <4>2
        <3>2. saved' \subseteq Media!Items
            BY <2>1 DEF Media!TypeOK
        <3>3. results' \in Seq([item : Media!Items, path : Media!Paths])
            BY <2>9
        <3>4. pc' \in {"done", "sleep", "open"}
            BY <2>3
        <3>5. QED
            BY <1>1, <2>3, <3>1, <3>2, <3>3, <3>4, Zenon DEF Media!TypeOK
    <2>13. BatchIsInBounds'
        BY <1>1, <2>2, <2>3, <2>5 DEF BatchIsInBounds
    <2>14. CallsAreCounted'
        <3>1. OwnTry /\ HasKey => Len(calledAt) = item
            BY <1>1 DEF CallsAreCounted
        <3>2. OwnTry /\ ~HasKey => calledAt = <<>>
            BY DEF CallsAreCounted
        <3>3. QED
            BY <1>1, <2>2, <2>3, <2>4, <3>1, <3>2 DEF CallsAreCounted
    <2>15. ResultsAreSaved'
        <3>1. item \notin Media!Reported
            BY <2>4, <2>6
        <3>2. Len(results') = Cardinality(Media!Reported')
            <4>1. IsFiniteSet(Media!Reported)
                BY ReportedType
            <4>2. Cardinality(Media!Reported \cup {item}) = Cardinality(Media!Reported) + 1
                BY <3>1, <4>1, FS_AddElement
            <4>3. QED
                BY <2>6, <2>9, <2>11, <4>2
        <3>3. Media!Reported' = saved'
            BY <2>1, <2>6, <2>11
        <3>4. \A i \in saved : i \in Nat
            BY SavedTypes
        <3>5. pc' # "done" => \A i \in saved' : i < item'
            BY <2>1, <2>3, <2>4, <2>6, <3>4
        <3>6. ~OwnTry => saved' = 1 .. item
            BY <2>1, <2>4, <2>6
        <3>7. ~OwnTry /\ pc' # "done" => saved' = 1 .. item' - 1
            BY <2>3, <2>4, <3>6
        <3>8. ~OwnTry /\ pc' = "done" => saved' = 1 .. found'
            BY <1>1, <2>3, <2>5, <3>6
        <3>9. QED
            BY <2>2, <3>2, <3>3, <3>5, <3>7, <3>8 DEF ResultsAreSaved
    <2>16. FilesAreNamed'
        <3>1. NamedInBatch => path = Media!NameInBatch(item)
            BY <1>1 DEF FilesAreNamed
        <3>2. NamedInBatch => \A k \in DOMAIN results' :
                 results'[k].path = Media!NameInBatch(results'[k].item)
            BY <2>7, <2>10, <3>1 DEF FilesAreNamed
        <3>3. \A i : Media!NameInBatch(i)' = Media!NameInBatch(i)
            BY <1>1 DEF Media!NameInBatch
        <3>4. pc' # "write"
            BY <2>3
        <3>5. QED
            BY <1>1, <2>2, <3>2, <3>4 DEF FilesAreNamed, Media!NameInBatch
    <2>17. CallsKeepDistance'
        <3>1. \A k \in DOMAIN calledAt : calledAt[k] <= clock /\ calledAt[k] \in Nat
            BY MomentTypes DEF CallsKeepDistance
        <3>2. QED
            BY <1>1, <2>2, <2>3, <2>4, <3>1 DEF CallsKeepDistance
    <2>18. Media!BatchKeepsItsFiles'
        <3>1. NamedInBatch => path = Media!NameInBatch(item)
            BY <1>1 DEF FilesAreNamed
        <3>2. cmd \notin Media!CipCommands =>
                  \A k \in DOMAIN results : results[k].path # path
            BY <1>1, <3>1, OthersFilesStay
        <3>3. file \in [Media!Paths -> Media!Images \cup {Absent}]
            BY DEF Media!TypeOK
        <3>4. /\ \A p : p # path => file'[p] = file[p]
              /\ file'[path] = [item |-> item, whole |-> TRUE]
            BY <1>2, <2>1, <3>3
        <3>5. QED
            BY <1>1, <2>7, <2>10, <3>2, <3>4 DEF Media!BatchKeepsItsFiles
    <2>19. Media!RequestsAreSpaced' /\ Media!LogoIsUsed'
        BY <1>1, <2>3 DEF Media!RequestsAreSpaced, Media!LogoIsUsed
    <2>20. QED
        BY <2>12, <2>13, <2>14, <2>15, <2>16, <2>17, <2>18, <2>19
<1>5. QED
    BY <1>3, <1>4

LEMMA MediaStep ==
    ASSUME MediaInv, [ToolsNext]_allVars, tool = "media"
    PROVE  MediaInv'
<1>1. count \in 1 .. MaxCount /\ count \in Nat
    BY NumberTypes DEF MediaInv
<1>2. CASE Media!Tick \/ Media!LogoIsTakenAway \/ Media!Begin \/ Media!BeginSet \/ Media!Wake
    BY <1>2, TickKeeps, LogoKeeps, BeginKeeps, WakeKeeps
<1>3. CASE \/ Media!CallIcon \/ Media!CallIconBatch \/ Media!CallLogo
           \/ Media!CallCip \/ Media!CallCipSet
    <2>1. \/ HasKey = Media!GeminiKey /\ Media!Calls(Media!GeminiKey)
          \/ HasKey = Media!EitherKey /\ Media!Calls(Media!EitherKey)
        BY <1>3 DEF Media!CallIcon, Media!CallIconBatch, Media!CallLogo, Media!CallCip,
                    Media!CallCipSet, HasKey, Media!CipCommands, Media!LogoCommands
    <2>2. QED
        BY <2>1, CallsKeeps
<1>4. CASE \/ Media!AnswerIcon \/ Media!AnswerIconBatch \/ Media!AnswerLogo
           \/ Media!AnswerCip
    <2>1. Media!Answers({1}) \/ Media!Answers(1 .. count)
        BY <1>4 DEF Media!AnswerIcon, Media!AnswerIconBatch, Media!AnswerLogo,
                    Media!AnswerCip, Media!Extracted
    <2>2. {1} \subseteq 1 .. count
        BY <1>1
    <2>3. QED
        BY <2>1, <2>2, AnswersKeeps
<1>5. CASE \/ Media!OpenIcon \/ Media!OpenIconBatch \/ Media!OpenIconSize
           \/ Media!OpenLogo \/ Media!OpenLogoBatch \/ Media!OpenMockup
    <2>1. item \in Media!Items /\ clock \in 0 .. MaxClock
        BY DEF MediaInv, Media!TypeOK
    <2>2. CASE NamedInBatch
        <3>1. Media!Opens({Media!NameInBatch(item)})
            BY <1>5, <2>2
               DEF NamedInBatch, Media!OpenIcon, Media!OpenIconBatch,
                   Media!OpenIconSize, Media!OpenLogo, Media!OpenLogoBatch,
                   Media!OpenMockup, Media!CipCommands
        <3>2. Media!NameInBatch(item) \in Media!Paths
            BY <2>1, <2>2 DEF NamedInBatch, Media!NameInBatch, Media!Paths
        <3>3. QED
            BY <3>1, <3>2, OpensKeeps
    <2>3. CASE ~NamedInBatch
        <3>1. \/ cmd \in {"icon", "logo"} /\ Media!Opens({Media!SecondPath})
              \/ Media!Opens(Media!MockupPaths)
            BY <1>5, <2>3
               DEF NamedInBatch, Media!OpenIcon, Media!OpenIconBatch,
                   Media!OpenIconSize, Media!OpenLogo, Media!OpenLogoBatch,
                   Media!OpenMockup
        <3>2. cmd \in {"icon", "logo"} => Media!SecondPath \in Media!Paths
            BY <2>1 DEF Media!SecondPath, Media!Paths
        <3>3. Media!MockupPaths \subseteq Media!Paths
            BY <2>1 DEF Media!MockupPaths, Media!Paths
        <3>4. QED
            BY <2>3, <3>1, <3>2, <3>3, OpensKeeps
    <2>4. QED
        BY <2>2, <2>3
<1>6. CASE Media!Write
    BY <1>6, WriteKeeps
<1>7. CASE UNCHANGED allVars
    <2>1. UNCHANGED mediaVars
        BY <1>7 DEF allVars
    <2>2. Media!TypeOK'
        BY <2>1 DEF mediaVars, MediaInv, Media!TypeOK
    <2>3. BatchIsInBounds' /\ CallsAreCounted' /\ ResultsAreSaved' /\ FilesAreNamed'
        BY <2>1, RequestStays
           DEF mediaVars, MediaInv, BatchIsInBounds, CallsAreCounted,
               ResultsAreSaved, FilesAreNamed, Media!Reported, Media!NameInBatch
    <2>4. CallsKeepDistance'
        BY <2>1, RequestStays DEF mediaVars, MediaInv, CallsKeepDistance
    <2>5. Media!BatchKeepsItsFiles' /\ Media!RequestsAreSpaced' /\ Media!LogoIsUsed'
        BY <2>1 DEF mediaVars, MediaInv, Media!BatchKeepsItsFiles,
                    Media!RequestsAreSpaced, Media!LogoIsUsed
    <2>6. QED
        BY <2>2, <2>3, <2>4, <2>5 DEF MediaInv
<1>8. Media!Next \/ UNCHANGED allVars
    BY DEF ToolsNext
<1>9. QED
    BY <1>2, <1>3, <1>4, <1>5, <1>6, <1>7, <1>8 DEF Media!Next

LEMMA MediaKeeps == ToolsSpec => [](tool = "media" => MediaInv)
<1>1. ToolsInit => (tool = "media" => MediaInv)
    BY MediaStarts DEF ToolsInit
<1>2. (tool = "media" => MediaInv) /\ [ToolsNext]_allVars
        => (tool = "media" => MediaInv)'
    BY MediaStep, ToolStays
<1>3. QED
    BY <1>1, <1>2, PTL DEF ToolsSpec

LEMMA DoneIsReported == ASSUME MediaInv PROVE Media!ReportedIsSaved
<1>1. Media!Cardinality(Media!Reported) = Cardinality(Media!Reported)
    BY MediaCardinality
<1>2. ASSUME pc = "done"
      PROVE  /\ Len(results) = Cardinality(Media!Reported)
             /\ ~OwnTry => (Media!Reported # {} => Media!Reported = saved /\ saved = 1 .. found)
             /\ OwnTry => /\ Media!Reported = saved
                          /\ calledAt # <<>> => Len(calledAt) = Media!Length
    <2>1. results = <<>> => Media!Reported = {}
        BY DEF Media!Reported
    <2>2. QED
        BY <1>2, <2>1 DEF MediaInv, ResultsAreSaved, CallsAreCounted
<1>3. QED
    BY <1>1, <1>2 DEF Media!ReportedIsSaved, OwnTry

\* For a batch of any size and at any pace: a run of a generator returns the
\* items it saved, each once (the SVGs of one answer all or none), with every
\* item requested whatever became of those before it; the file of a result
\* still holds its item in full; requests keep their distance; and mockups are
\* made with the logo as long as it is there.
THEOREM BatchesReported == ToolsSpec => []BatchIsAsReported
<1>1. MediaInv => /\ Media!TypeOK /\ Media!BatchKeepsItsFiles
                  /\ Media!RequestsAreSpaced /\ Media!LogoIsUsed
    BY DEF MediaInv
<1>2. QED
    BY <1>1, MediaKeeps, DoneIsReported, PTL DEF BatchIsAsReported

-----------------------------------------------------------------------------
(***************************************************************************)
(* Induction along a document and along a deck.                            *)
(***************************************************************************)
LEMMA LeastOf ==
    ASSUME NEW S \in SUBSET Nat, S # {}
    PROVE  \E x \in S : \A y \in S : x <= y
<1> DEFINE R == OpToRel(<, Nat)
<1>1. IsWellFoundedOn(R, Nat)
    BY NatLessThanWellFounded
<1>2. \A y, x \in Nat : y < x => <<y, x>> \in R
    BY DEF OpToRel
<1> HIDE DEF R
<1>3. PICK x \in S : \A y \in S : ~(<<y, x>> \in R)
    <2>1. S \subseteq Nat
        OBVIOUS
    <2>2. QED
        BY <1>1, <2>1, WFMin, Zenon
<1>4. ASSUME NEW y \in S PROVE x <= y
    <2>1. x \in Nat /\ y \in Nat /\ <<y, x>> \notin R
        BY <1>3
    <2>2. ~(y < x)
        BY <1>2, <2>1
    <2>3. QED
        BY <2>1, <2>2
<1>5. QED
    BY <1>4

\* A set stands for the property, which the provers cannot be given.
LEMMA UpTo ==
    ASSUME NEW n \in Nat, NEW S, 0 \in S, \A k \in 1 .. n : k - 1 \in S => k \in S
    PROVE  \A k \in 0 .. n : k \in S
<1> DEFINE Missing == {k \in 0 .. n : k \notin S}
<1>1. Missing \in SUBSET Nat
    OBVIOUS
<1> SUFFICES ASSUME Missing # {} PROVE FALSE
    OBVIOUS
<1>2. PICK x \in Missing : \A y \in Missing : x <= y
    BY <1>1, LeastOf
<1>3. x \in 1 .. n /\ x \notin S
    BY <1>2
<1>4. x - 1 \in 0 .. n /\ ~(x <= x - 1)
    BY <1>3
<1>5. x - 1 \in S
    BY <1>2, <1>4
<1>6. QED
    BY <1>3, <1>5

\* A function that is defined step by step exists, whatever its steps are.
Stepwise(X, base, n, next) == base \in X /\ n \in Nat /\ next \in [1 .. n -> [X -> X]]

LEMMA StepByStep ==
    ASSUME NEW X, NEW base, NEW n, NEW next, Stepwise(X, base, n, next)
    PROVE  \E f \in [0 .. n -> X] : f[0] = base /\ \A k \in 1 .. n : f[k] = next[k][f[k - 1]]
<1>0. base \in X /\ n \in Nat /\ next \in [1 .. n -> [X -> X]]
    BY DEF Stepwise
<1> DEFINE Good(m, f) == f[0] = base /\ \A k \in 1 .. m : f[k] = next[k][f[k - 1]]
           S == {m \in 0 .. n : \E f \in [0 .. m -> X] : Good(m, f)}
<1>1. 0 \in S
    <2>1. PICK f : f = [k \in 0 .. 0 |-> base]
        OBVIOUS
    <2>2. f \in [0 .. 0 -> X] /\ f[0] = base
        BY <1>0, <2>1
    <2>3. Good(0, f)
        BY <2>2
    <2>4. QED
        BY <1>0, <2>2, <2>3
<1>2. ASSUME NEW m \in 1 .. n, m - 1 \in S PROVE m \in S
    <2>1. PICK f \in [0 .. m - 1 -> X] : Good(m - 1, f)
        BY <1>2
    <2>2. PICK x \in X : x = next[m][f[m - 1]]
        <3>1. f[m - 1] \in X /\ next[m] \in [X -> X]
            BY <1>0
        <3>2. QED
            BY <3>1
    <2>3. PICK g : g = [k \in 0 .. m |-> IF k = m THEN x ELSE f[k]]
        OBVIOUS
    <2>4. g \in [0 .. m -> X]
        BY <2>3
    <2>5. \A k \in 0 .. m - 1 : g[k] = f[k]
        BY <2>3
    <2>6. g[m] = x
        BY <2>3
    <2>7. Good(m, g)
        <3>1. g[0] = base
            BY <2>1, <2>5
        <3>2. ASSUME NEW k \in 1 .. m PROVE g[k] = next[k][g[k - 1]]
            <4>1. CASE k = m
                BY <2>2, <2>5, <2>6, <4>1
            <4>2. CASE k # m
                <5>1. k \in 1 .. m - 1 /\ k \in 0 .. m - 1 /\ k - 1 \in 0 .. m - 1
                    BY <1>0, <4>2
                <5>2. QED
                    BY <2>1, <2>5, <5>1
            <4>3. QED
                BY <4>1, <4>2
        <3>3. QED
            BY <3>1, <3>2
    <2> HIDE DEF Good
    <2>8. QED
        BY <2>4, <2>7
<1> HIDE DEF S
<1>3. n \in S
    <2>1. \A k \in 1 .. n : k - 1 \in S => k \in S
        BY <1>2
    <2>2. \A k \in 0 .. n : k \in S
        BY <1>0, <1>1, <2>1, UpTo
    <2>3. QED
        BY <1>0, <2>2
<1>4. QED
    BY <1>3 DEF S

-----------------------------------------------------------------------------
(***************************************************************************)
(* TokenValidator.  Where no block has the tag of another in its text, the *)
(* last tag before a mark tells the block the mark is in.                  *)
(***************************************************************************)
Docs == Seq(Decks!Marks)

Blocks == {"body", "inline", "style", "script"}

LEMMA AfterType == \A b \in Blocks : \A m : Decks!After(b, m) \in Blocks
BY Zenon DEF Decks!After, Blocks

LEMMA AfterCases ==
    \A b \in Blocks : \A m :
        /\ b = "body" /\ m = "<style" => Decks!After(b, m) = "style"
        /\ b = "body" /\ m = "<script" => Decks!After(b, m) = "script"
        /\ b = "style" /\ m = "</style" => Decks!After(b, m) = "body"
        /\ b = "script" /\ m = "</script" => Decks!After(b, m) = "body"
        /\ b \in {"body", "inline"} /\ m \notin Decks!Tags =>
              Decks!After(b, m) \in {"body", "inline"}
        /\ b \in {"style", "script"} /\ m \notin Decks!Tags => Decks!After(b, m) = b
BY DEF Decks!After, Blocks, Decks!Tags

LEMMA BlockAtSteps ==
    ASSUME NEW doc \in Docs
    PROVE  /\ Decks!BlockAt(doc)[1] = "body"
           /\ \A i \in DOMAIN doc :
                 Decks!BlockAt(doc)[i + 1] = Decks!After(Decks!BlockAt(doc)[i], doc[i])
<1> DEFINE n == Len(doc)
           steps == [k \in 1 .. n |-> [b \in Blocks |-> Decks!After(b, doc[k])]]
<1>1. n \in Nat /\ DOMAIN doc = 1 .. n
    BY DEF Docs
<1>2. steps \in [1 .. n -> [Blocks -> Blocks]]
    BY AfterType
<1>3. PICK f \in [0 .. n -> Blocks] :
          f[0] = "body" /\ \A k \in 1 .. n : f[k] = steps[k][f[k - 1]]
    <2>1. "body" \in Blocks
        BY DEF Blocks
    <2> HIDE DEF n, steps
    <2>2. Stepwise(Blocks, "body", n, steps)
        BY <1>1, <1>2, <2>1 DEF Stepwise
    <2>3. QED
        BY <2>2, StepByStep
<1>4. \A k \in 1 .. n : f[k] = Decks!After(f[k - 1], doc[k])
    <2> TAKE k \in 1 .. n
    <2>1. k - 1 \in 0 .. n
        BY <1>1
    <2>2. f[k - 1] \in Blocks
        BY <2>1
    <2>3. QED
        BY <1>3, <2>2
<1> DEFINE Defines(g) ==
        g = [i \in 1 .. n + 1 |-> IF i = 1 THEN "body" ELSE Decks!After(g[i - 1], doc[i - 1])]
<1>5. \E g : Defines(g)
    <2>1. PICK g : g = [i \in 1 .. n + 1 |-> f[i - 1]]
        OBVIOUS
    <2>2. \A i \in 1 .. n + 1 : g[i] = IF i = 1 THEN "body" ELSE Decks!After(g[i - 1], doc[i - 1])
        <3> TAKE i \in 1 .. n + 1
        <3>1. CASE i = 1
            BY <1>1, <1>3, <2>1, <3>1
        <3>2. CASE i # 1
            <4>1. i - 1 \in 1 .. n /\ i - 1 \in 1 .. n + 1
                BY <1>1, <3>2
            <4>2. g[i] = f[i - 1] /\ g[i - 1] = f[i - 1 - 1]
                BY <2>1, <4>1
            <4>3. QED
                BY <1>4, <3>2, <4>1, <4>2
        <3>3. QED
            BY <3>1, <3>2
    <2>3. Defines(g)
        BY <2>1, <2>2
    <2>4. QED
        BY <2>3
<1>6. PICK g : g = Decks!BlockAt(doc)
    OBVIOUS
<1>7. g = CHOOSE h : Defines(h)
    BY <1>6 DEF Decks!BlockAt
<1>8. Defines(g)
    <2> HIDE DEF Defines
    <2>1. QED
        BY <1>5, <1>7
<1>9. QED
    BY <1>1, <1>6, <1>8

LEMMA LastBeforeSteps ==
    ASSUME NEW doc \in Docs, NEW mark
    PROVE  /\ Decks!LastBefore(doc, 1, mark) = 0
           /\ \A i \in DOMAIN doc :
                 /\ Decks!LastBefore(doc, i, mark) \in 0 .. i - 1
                 /\ Decks!LastBefore(doc, i + 1, mark) =
                       IF doc[i] = mark THEN i ELSE Decks!LastBefore(doc, i, mark)
<1> DEFINE n == Len(doc)
           Here(i) == {0} \cup {j \in 1 .. i - 1 : doc[j] = mark}
           last(i) == Decks!LastBefore(doc, i, mark)
<1>1. n \in Nat /\ DOMAIN doc = 1 .. n
    BY DEF Docs
<1>2. \A i : last(i) = Decks!Max(Here(i))
    BY DEF Decks!LastBefore
<1> HIDE DEF last
<1>3. last(1) = 0
    <2>1. Here(1) = {0}
        OBVIOUS
    <2>2. Decks!Max({0}) = 0
        BY DEF Decks!Max
    <2>3. QED
        BY <1>2, <2>1, <2>2
<1>4. ASSUME NEW i \in 1 .. n PROVE last(i + 1) = IF doc[i] = mark THEN i ELSE last(i)
    <2>1. CASE doc[i] = mark
        <3>1. i \in Here(i + 1) /\ \A j \in Here(i + 1) : j \in Nat /\ i >= j
            BY <1>1, <2>1
        <3> HIDE DEF Here
        <3>2. \A k \in Here(i + 1) : (\A j \in Here(i + 1) : k >= j) => k = i
            BY <1>1, <3>1
        <3>3. Decks!Max(Here(i + 1)) = i
            BY <3>1, <3>2 DEF Decks!Max
        <3>4. QED
            BY <1>2, <2>1, <3>3
    <2>2. CASE doc[i] # mark
        <3>1. Here(i + 1) = Here(i)
            BY <1>1, <2>2
        <3>2. QED
            BY <1>2, <2>2, <3>1
    <2>3. QED
        BY <2>1, <2>2
<1>5. \A k \in 0 .. n : last(k + 1) \in 0 .. k
    <2> DEFINE S == {k \in 0 .. n : last(k + 1) \in 0 .. k}
    <2>1. 0 \in S
        BY <1>1, <1>3
    <2>2. ASSUME NEW k \in 1 .. n, k - 1 \in S PROVE k \in S
        BY <1>4, <2>2
    <2> HIDE DEF S
    <2>3. \A k \in 0 .. n : k \in S
        <3>1. \A k \in 1 .. n : k - 1 \in S => k \in S
            BY <2>2
        <3>2. QED
            BY <1>1, <2>1, <3>1, UpTo
    <2>4. QED
        BY <2>3 DEF S
<1>6. \A i \in 1 .. n : last(i) \in 0 .. i - 1
    <2> TAKE i \in 1 .. n
    <2>1. i - 1 \in 0 .. n /\ i - 1 + 1 = i
        BY <1>1
    <2>2. QED
        BY <1>5, <2>1
<1>7. QED
    BY <1>1, <1>3, <1>4, <1>6 DEF last

LEMMA BlocksByTags ==
    ASSUME NEW doc \in Docs, Decks!TagsAreTags(doc), NEW i \in DOMAIN doc
    PROVE  /\ Decks!BlockAt(doc)[i] \in Blocks
           /\ Decks!IsInsideBlock(doc, i, "<style", "</style") <=> Decks!BlockAt(doc)[i] = "style"
           /\ Decks!IsInsideBlock(doc, i, "<script", "</script") <=> Decks!BlockAt(doc)[i] = "script"
<1> DEFINE n == Len(doc)
           last(k, mark) == Decks!LastBefore(doc, k, mark)
           at(k) == Decks!BlockAt(doc)[k]
           Told(k) ==
               /\ at(k) \in Blocks
               /\ last(k, "<style") > last(k, "</style") <=> at(k) = "style"
               /\ last(k, "<script") > last(k, "</script") <=> at(k) = "script"
           S == {k \in 0 .. n : Told(k + 1)}
<1>1. n \in Nat /\ DOMAIN doc = 1 .. n
    BY DEF Docs
<1>2. /\ \A mark : last(1, mark) = 0
      /\ \A mark : \A k \in 1 .. n :
            /\ last(k, mark) \in 0 .. k - 1
            /\ last(k + 1, mark) = IF doc[k] = mark THEN k ELSE last(k, mark)
    BY <1>1, LastBeforeSteps
<1>3. at(1) = "body" /\ \A k \in 1 .. n : at(k + 1) = Decks!After(at(k), doc[k])
    BY <1>1, BlockAtSteps
<1>4. \A k \in 1 .. n :
         /\ doc[k] \in {"<style", "<script"} => at(k) = "body"
         /\ doc[k] = "</style" => at(k) = "style"
         /\ doc[k] = "</script" => at(k) = "script"
    BY <1>1 DEF Decks!TagsAreTags
<1> HIDE DEF n, last, at
<1>5. 0 \in S
    BY <1>1, <1>2, <1>3 DEF Blocks
<1>6. ASSUME NEW k \in 1 .. n, Told(k) PROVE Told(k + 1)
    <2>1. at(k + 1) \in Blocks
        BY <1>3, <1>6, AfterType
    <2>2. \A mark : last(k, mark) \in Nat /\ last(k, mark) < k /\ k \in Nat
        BY <1>1, <1>2
    <2>3. \A mark : last(k + 1, mark) = IF doc[k] = mark THEN k ELSE last(k, mark)
        BY <1>2
    <2>4. CASE doc[k] = "<style"
        BY <1>3, <1>4, <1>6, <2>2, <2>3, <2>4, AfterCases DEF Blocks
    <2>5. CASE doc[k] = "<script"
        BY <1>3, <1>4, <1>6, <2>2, <2>3, <2>5, AfterCases DEF Blocks
    <2>6. CASE doc[k] = "</style"
        BY <1>3, <1>4, <1>6, <2>2, <2>3, <2>6, AfterCases DEF Blocks
    <2>7. CASE doc[k] = "</script"
        BY <1>3, <1>4, <1>6, <2>2, <2>3, <2>7, AfterCases DEF Blocks
    <2>8. CASE doc[k] \notin Decks!Tags
        <3>1. /\ at(k) \in Blocks
              /\ at(k) \in {"body", "inline"} => at(k + 1) \in {"body", "inline"}
              /\ at(k) \in {"style", "script"} => at(k + 1) = at(k)
            BY <1>3, <1>6, <2>8, AfterCases
        <3>2. \A mark \in Decks!Tags : last(k + 1, mark) = last(k, mark)
            BY <2>3, <2>8
        <3>3. QED
            BY <1>6, <3>1, <3>2 DEF Decks!Tags, Blocks
    <2>9. QED
        BY <2>4, <2>5, <2>6, <2>7, <2>8 DEF Decks!Tags
<1>7. \A k \in 0 .. n : k \in S
    <2>1. ASSUME NEW k \in 1 .. n, k - 1 \in S PROVE k \in S
        <3>1. k - 1 + 1 = k /\ k \in 0 .. n
            BY <1>1
        <3>2. Told(k)
            BY <2>1, <3>1
        <3> HIDE DEF Told
        <3>3. QED
            BY <1>6, <3>1, <3>2
    <2> HIDE DEF S
    <2>2. \A k \in 1 .. n : k - 1 \in S => k \in S
        BY <2>1
    <2>3. QED
        BY <1>1, <1>5, <2>2, UpTo
<1>8. Told(i)
    <2>1. i - 1 \in 0 .. n /\ i - 1 + 1 = i
        BY <1>1
    <2> HIDE DEF Told
    <2>2. QED
        BY <1>7, <2>1
<1>9. QED
    BY <1>8 DEF Decks!IsInsideBlock, last, at

\* So that what is found is what styles the page and is not overlooked, and what
\* raises a false alarm.
LEMMA FoundIsStyle ==
    ASSUME NEW doc \in Docs, Decks!TagsAreTags(doc)
    PROVE  Decks!Hardcoded(doc) =
               (Decks!StylesThePage(doc) \ Decks!Overlooked(doc)) \cup Decks!FalseAlarms(doc)
<1>1. ASSUME NEW i \in DOMAIN doc
      PROVE  i \in Decks!Hardcoded(doc) <=>
                \/ i \in Decks!StylesThePage(doc) /\ i \notin Decks!Overlooked(doc)
                \/ i \in Decks!FalseAlarms(doc)
    <2>1. PICK b \in Blocks : b = Decks!BlockAt(doc)[i]
        BY BlocksByTags
    <2>2. i \in Decks!Hardcoded(doc) <=>
              /\ doc[i] \in Decks!Forms
              /\ b # "script" /\ ~Decks!IsAllowed(doc, i)
              /\ b = "style" \/ "style=" \in Decks!Context(doc, i)
        BY <2>1, BlocksByTags DEF Decks!Hardcoded
    <2>3. i \in Decks!StylesThePage(doc) <=>
              doc[i] \in Decks!Literals \cup {"unseen"} /\ b \in {"style", "inline"}
        BY <2>1 DEF Decks!StylesThePage
    <2>4. i \in Decks!Overlooked(doc) <=>
              /\ i \in Decks!StylesThePage(doc)
              /\ \/ Decks!IsAllowed(doc, i)
                 \/ doc[i] = "unseen"
                 \/ b = "inline" /\ "style=" \notin Decks!Context(doc, i)
        BY <2>1 DEF Decks!Overlooked
    <2>5. i \in Decks!FalseAlarms(doc) <=>
              /\ i \notin Decks!StylesThePage(doc)
              /\ doc[i] \in Decks!Forms /\ ~Decks!IsAllowed(doc, i)
              /\ \/ b = "style"
                 \/ b \in {"body", "inline"} /\ "style=" \in Decks!Context(doc, i)
        BY <2>1 DEF Decks!FalseAlarms
    <2>6. doc[i] = "unseen" => doc[i] \notin Decks!Forms
        BY DEF Decks!Forms, Decks!Literals
    <2>7. doc[i] \in Decks!Literals => doc[i] \in Decks!Forms
        BY DEF Decks!Forms
    <2>8. QED
        BY <2>2, <2>3, <2>4, <2>5, <2>6, <2>7 DEF Blocks
<1>2. QED
    BY <1>1 DEF Decks!Hardcoded, Decks!StylesThePage, Decks!Overlooked, Decks!FalseAlarms

-----------------------------------------------------------------------------
(***************************************************************************)
(* DeckFiles.  A gap is before each slide, so that what the validator says *)
(* of a deck is what it says of its slides one by one.                     *)
(***************************************************************************)
DeckMarks == {"gap", "style=", "end", "lookalike", "brand-rgba"}

\* What looks like a colour, near an inline style.
Flagged(s) ==
    \E i, j \in DOMAIN s : s[i] = "lookalike" /\ s[j] = "style=" /\ j \in Decks!Near(s, i)

Clean(slide) == slide.type # "solution" /\ (slide.text = "hash" => slide.type = "title")

LEMMA JoinedSeq ==
    ASSUME NEW S, NEW s \in Seq(S), NEW t \in Seq(S)
    PROVE  /\ s \o t \in Seq(S)
           /\ Len(s \o t) = Len(s) + Len(t)
           /\ DOMAIN (s \o t) = 1 .. Len(s) + Len(t)
           /\ \A k \in 1 .. Len(s) : (s \o t)[k] = s[k]
           /\ \A k \in 1 .. Len(t) : (s \o t)[Len(s) + k] = t[k]
OBVIOUS

\* A document, and one that begins with a gap, one after the other.
Apart(h, t, g, m, n) ==
    /\ h \in Docs /\ t \in Docs /\ g = h \o t
    /\ m \in Nat /\ m = Len(h) /\ n \in Nat /\ n = Len(t) /\ n >= 1 /\ t[1] = "gap"

NearKept(h, t, g, m, n) ==
    /\ DOMAIN g = 1 .. m + n /\ DOMAIN h = 1 .. m /\ DOMAIN t = 1 .. n
    /\ \A k \in 1 .. m : g[k] = h[k]
    /\ \A k \in 1 .. n : g[m + k] = t[k]
    /\ \A i, j \in 1 .. m : j \in Decks!Near(h, i) <=> j \in Decks!Near(g, i)
    /\ \A i, j \in 1 .. n : j \in Decks!Near(t, i) <=> m + j \in Decks!Near(g, m + i)
    /\ \A i \in 1 .. m, j \in m + 2 .. m + n :
          j \notin Decks!Near(g, i) /\ i \notin Decks!Near(g, j)

LEMMA NearApart ==
    ASSUME NEW h, NEW t, NEW g, NEW m, NEW n, Apart(h, t, g, m, n)
    PROVE  NearKept(h, t, g, m, n)
<1>0. /\ h \in Docs /\ t \in Docs /\ g = h \o t
      /\ m \in Nat /\ m = Len(h) /\ n \in Nat /\ n = Len(t) /\ n >= 1 /\ t[1] = "gap"
    BY DEF Apart
<1>1. /\ DOMAIN g = 1 .. m + n /\ DOMAIN h = 1 .. m /\ DOMAIN t = 1 .. n
      /\ \A k \in 1 .. m : g[k] = h[k]
      /\ \A k \in 1 .. n : g[m + k] = t[k]
    BY <1>0, JoinedSeq DEF Docs
<1>d. DOMAIN h = 1 .. m /\ DOMAIN t = 1 .. n
    BY <1>1
<1>l. PICK l \in Nat : l = m + n /\ DOMAIN g = 1 .. l
    BY <1>0, <1>1
<1> DEFINE Between(k, i, j) == (i < k /\ k < j) \/ (j < k /\ k < i)
<1>2. ASSUME NEW d, NEW e, DOMAIN d = 1 .. e, NEW i \in 1 .. e, NEW j \in 1 .. e
      PROVE  j \in Decks!Near(d, i) <=>
                /\ j \in i - 2 .. i + 2
                /\ \A k \in 1 .. e : Between(k, i, j) => d[k] # "gap"
    BY <1>2 DEF Decks!Near
<1>3. ASSUME NEW i \in 1 .. m, NEW j \in 1 .. m
      PROVE  j \in Decks!Near(h, i) <=> j \in Decks!Near(g, i)
    <2>1. i \in 1 .. l /\ j \in 1 .. l
        BY <1>0, <1>l
    <2>2. \A k \in 1 .. l : Between(k, i, j) => k \in 1 .. m
        BY <1>0, <1>l
    <2>3. \A k \in 1 .. m : k \in 1 .. l
        BY <1>0, <1>l
    <2> HIDE DEF Between
    <2>4. j \in Decks!Near(h, i) <=>
              j \in i - 2 .. i + 2 /\ \A k \in 1 .. m : Between(k, i, j) => h[k] # "gap"
        BY <1>d DEF Decks!Near, Between
    <2>5. j \in Decks!Near(g, i) <=>
              j \in i - 2 .. i + 2 /\ \A k \in 1 .. l : Between(k, i, j) => g[k] # "gap"
        BY <1>l, <2>1 DEF Decks!Near, Between
    <2>6. QED
        BY <1>1, <2>2, <2>3, <2>4, <2>5
<1>4. ASSUME NEW i \in 1 .. n, NEW j \in 1 .. n
      PROVE  j \in Decks!Near(t, i) <=> m + j \in Decks!Near(g, m + i)
    <2>1. PICK u, v \in 1 .. l : u = m + i /\ v = m + j
        BY <1>0, <1>l
    <2>2. ASSUME NEW k \in 1 .. l, Between(k, u, v)
          PROVE  k - m \in 1 .. n /\ m + (k - m) = k /\ Between(k - m, i, j)
        BY <1>0, <1>l, <2>1, <2>2
    <2>3. ASSUME NEW k \in 1 .. n, Between(k, i, j)
          PROVE  m + k \in 1 .. l /\ Between(m + k, u, v)
        BY <1>0, <1>l, <2>1, <2>3
    <2>4. v \in u - 2 .. u + 2 <=> j \in i - 2 .. i + 2
        BY <1>0, <2>1
    <2> HIDE DEF Between
    <2>5. j \in Decks!Near(t, i) <=>
              j \in i - 2 .. i + 2 /\ \A k \in 1 .. n : Between(k, i, j) => t[k] # "gap"
        BY <1>d DEF Decks!Near, Between
    <2>6. v \in Decks!Near(g, u) <=>
              /\ v \in u - 2 .. u + 2
              /\ \A k \in 1 .. l : Between(k, u, v) => g[k] # "gap"
        BY <1>l, <2>1 DEF Decks!Near, Between
    <2>7. ASSUME \A k \in 1 .. n : Between(k, i, j) => t[k] # "gap",
                 NEW k \in 1 .. l, Between(k, u, v)
          PROVE  g[k] # "gap"
        <3>1. k - m \in 1 .. n /\ m + (k - m) = k /\ Between(k - m, i, j)
            BY <2>2, <2>7
        <3>2. g[m + (k - m)] = t[k - m]
            BY <1>1, <3>1
        <3>3. QED
            BY <2>7, <3>1, <3>2
    <2>8. ASSUME \A k \in 1 .. l : Between(k, u, v) => g[k] # "gap",
                 NEW k \in 1 .. n, Between(k, i, j)
          PROVE  t[k] # "gap"
        <3>1. m + k \in 1 .. l /\ Between(m + k, u, v)
            BY <2>3, <2>8
        <3>2. g[m + k] # "gap"
            BY <2>8, <3>1
        <3>3. QED
            BY <1>1, <3>2
    <2>9. j \in Decks!Near(t, i) <=> v \in Decks!Near(g, u)
        BY <2>4, <2>5, <2>6, <2>7, <2>8
    <2>10. QED
        BY <2>1, <2>9
<1>5. ASSUME NEW i \in 1 .. m, NEW j \in m + 2 .. m + n
      PROVE  j \notin Decks!Near(g, i) /\ i \notin Decks!Near(g, j)
    <2>1. PICK c \in 1 .. l : c = m + 1
        BY <1>0, <1>l
    <2>2. g[c] = "gap"
        BY <1>0, <1>1, <2>1
    <2>3. i \in 1 .. l /\ j \in 1 .. l
        BY <1>0, <1>l
    <2>4. Between(c, i, j) /\ Between(c, j, i)
        BY <1>0, <2>1
    <2> HIDE DEF Between
    <2>5. j \notin Decks!Near(g, i)
        BY <1>l, <1>2, <2>2, <2>3, <2>4
    <2>6. i \notin Decks!Near(g, j)
        BY <1>l, <1>2, <2>2, <2>3, <2>4
    <2>7. QED
        BY <2>5, <2>6
<1>6. QED
    BY <1>1, <1>3, <1>4, <1>5 DEF NearKept

LEMMA FlaggedApart ==
    ASSUME NEW h \in Docs, NEW t \in Docs, Len(t) >= 1, t[1] = "gap"
    PROVE  Flagged(h \o t) <=> Flagged(h) \/ Flagged(t)
<1>1. PICK g : g = h \o t
    OBVIOUS
<1>2. PICK m \in Nat, n \in Nat : m = Len(h) /\ n = Len(t) /\ n >= 1
    BY DEF Docs
<1>3. /\ DOMAIN g = 1 .. m + n /\ DOMAIN h = 1 .. m /\ DOMAIN t = 1 .. n
      /\ \A k \in 1 .. m : g[k] = h[k]
      /\ \A k \in 1 .. n : g[m + k] = t[k]
      /\ \A i, j \in 1 .. m : j \in Decks!Near(h, i) <=> j \in Decks!Near(g, i)
      /\ \A i, j \in 1 .. n : j \in Decks!Near(t, i) <=> m + j \in Decks!Near(g, m + i)
      /\ \A i \in 1 .. m, j \in m + 2 .. m + n :
            j \notin Decks!Near(g, i) /\ i \notin Decks!Near(g, j)
    <2>1. Apart(h, t, g, m, n)
        BY <1>1, <1>2 DEF Apart
    <2>2. NearKept(h, t, g, m, n)
        BY <2>1, NearApart
    <2>3. QED
        BY <2>2 DEF NearKept
<1>5. ASSUME Flagged(h) PROVE Flagged(g)
    <2>1. PICK i, j \in 1 .. m :
              h[i] = "lookalike" /\ h[j] = "style=" /\ j \in Decks!Near(h, i)
        BY <1>3, <1>5 DEF Flagged
    <2>2. /\ i \in DOMAIN g /\ j \in DOMAIN g
          /\ g[i] = "lookalike" /\ g[j] = "style=" /\ j \in Decks!Near(g, i)
        BY <1>3, <2>1
    <2>3. QED
        BY <2>2 DEF Flagged
<1>6. ASSUME Flagged(t) PROVE Flagged(g)
    <2>1. PICK i, j \in 1 .. n :
              t[i] = "lookalike" /\ t[j] = "style=" /\ j \in Decks!Near(t, i)
        BY <1>3, <1>6 DEF Flagged
    <2>2. m + i \in DOMAIN g /\ m + j \in DOMAIN g
        BY <1>3, <2>1
    <2>3. g[m + i] = "lookalike" /\ g[m + j] = "style=" /\ m + j \in Decks!Near(g, m + i)
        BY <1>3, <2>1
    <2>4. QED
        BY <2>2, <2>3 DEF Flagged
<1>7. ASSUME Flagged(g) PROVE Flagged(h) \/ Flagged(t)
    <2>1. PICK i, j \in 1 .. m + n :
              g[i] = "lookalike" /\ g[j] = "style=" /\ j \in Decks!Near(g, i)
        BY <1>3, <1>7 DEF Flagged
    <2>2. i # m + 1 /\ j # m + 1
        <3>1. g[m + 1] = "gap"
            BY <1>2, <1>3
        <3>2. QED
            BY <2>1, <3>1
    <2>3. CASE i <= m
        <3>1. i \in 1 .. m
            BY <2>1, <2>3
        <3>2. j \notin m + 2 .. m + n
            BY <1>3, <2>1, <3>1
        <3>3. j \in 1 .. m
            BY <2>1, <2>2, <3>2
        <3>4. h[i] = "lookalike" /\ h[j] = "style=" /\ j \in Decks!Near(h, i)
            BY <1>3, <2>1, <3>1, <3>3
        <3>5. QED
            BY <1>3, <3>1, <3>3, <3>4 DEF Flagged
    <2>4. CASE i > m
        <3>1. i \in m + 2 .. m + n
            BY <2>1, <2>2, <2>4
        <3>2. j \notin 1 .. m
            BY <1>3, <2>1, <3>1
        <3>3. PICK k, l \in 1 .. n : i = m + k /\ j = m + l
            <4>1. i - m \in 1 .. n /\ j - m \in 1 .. n
                BY <2>1, <3>1, <3>2
            <4>2. i = m + (i - m) /\ j = m + (j - m)
                BY <2>1
            <4>3. QED
                BY <4>1, <4>2
        <3>4. t[k] = "lookalike" /\ t[l] = "style="
            BY <1>3, <2>1, <3>3
        <3>5. l \in Decks!Near(t, k)
            BY <1>3, <2>1, <3>3
        <3>6. QED
            BY <1>3, <3>4, <3>5 DEF Flagged
    <2>5. QED
        BY <2>1, <2>3, <2>4
<1>8. QED
    BY <1>1, <1>5, <1>6, <1>7

\* One mark before others.
LEMMA OneBefore ==
    ASSUME NEW S, NEW a \in S, NEW s \in Seq(S)
    PROVE  /\ <<a>> \o s \in Seq(S)
           /\ Len(<<a>> \o s) = Len(s) + 1
           /\ (<<a>> \o s)[1] = a
           /\ \A k \in 1 .. Len(s) : (<<a>> \o s)[k + 1] = s[k]
<1>1. PICK one : one = <<a>>
    OBVIOUS
<1>2. one \in Seq(S) /\ Len(one) = 1 /\ one[1] = a
    BY <1>1
<1>3. /\ one \o s \in Seq(S) /\ Len(one \o s) = 1 + Len(s)
      /\ (one \o s)[1] = a
      /\ \A k \in 1 .. Len(s) : (one \o s)[1 + k] = s[k]
    <2>1. /\ one \o s \in Seq(S) /\ Len(one \o s) = Len(one) + Len(s)
          /\ \A k \in 1 .. Len(one) : (one \o s)[k] = one[k]
          /\ \A k \in 1 .. Len(s) : (one \o s)[Len(one) + k] = s[k]
        BY <1>2, JoinedSeq
    <2>2. 1 \in 1 .. Len(one)
        BY <1>2
    <2>3. QED
        BY <1>2, <2>1, <2>2
<1>4. Len(s) \in Nat
    OBVIOUS
<1>5. QED
    BY <1>1, <1>3, <1>4

LEMMA MarksOfCases ==
    ASSUME NEW slide
    PROVE  /\ slide.type = "title" => Decks!MarksOf(slide) = Decks!Text(slide)
           /\ slide.type = "problem" =>
                 Decks!MarksOf(slide) = <<"style=", "end">> \o Decks!Text(slide)
           /\ slide.type = "solution" =>
                 Decks!MarksOf(slide) = Decks!Text(slide) \o <<"style=", "end", "lookalike">>
           /\ slide.type = "cta" =>
                 Decks!MarksOf(slide) = Decks!Text(slide) \o <<"style=", "brand-rgba", "end">>
           /\ slide.type \notin {"title", "problem", "solution", "cta"} => Decks!MarksOf(slide) = <<>>
BY DEF Decks!MarksOf

LEMMA SameSeq ==
    ASSUME NEW S, NEW s \in Seq(S), NEW t \in Seq(S), Len(s) = Len(t),
           \A k \in 1 .. Len(s) : s[k] = t[k]
    PROVE  s = t
OBVIOUS

Follows(S, a, s, t) ==
    /\ a \in S /\ s \in Seq(S) /\ t \in Seq(S) /\ Len(t) = Len(s) + 1 /\ t[1] = a
    /\ \A k \in 1 .. Len(s) : t[k + 1] = s[k]

LEMMA FollowsJoined ==
    ASSUME NEW S, NEW a, NEW s, NEW t, Follows(S, a, s, t)
    PROVE  <<a>> \o s = t
<1>1. PICK u : u = <<a>> \o s
    OBVIOUS
<1>2. /\ a \in S /\ s \in Seq(S) /\ t \in Seq(S) /\ Len(t) = Len(s) + 1 /\ t[1] = a
      /\ \A k \in 1 .. Len(s) : t[k + 1] = s[k]
    BY DEF Follows
<1>3. u \in Seq(S) /\ Len(u) = Len(t) /\ u[1] = t[1] /\ \A k \in 1 .. Len(s) : u[k + 1] = t[k + 1]
    BY <1>1, <1>2, OneBefore
<1>4. ASSUME NEW k \in 1 .. Len(u) PROVE u[k] = t[k]
    <2>1. CASE k = 1
        BY <1>3, <2>1
    <2>2. CASE k # 1
        <3>1. k - 1 \in 1 .. Len(s) /\ k - 1 + 1 = k
            BY <1>2, <1>3, <2>2
        <3>2. QED
            BY <1>3, <3>1
    <2>3. QED
        BY <2>1, <2>2
<1>5. u = t
    BY <1>2, <1>3, <1>4, SameSeq
<1>6. QED
    BY <1>1, <1>5

LEMMA SpelledOut ==
    /\ \A a, b : <<a>> \o <<b>> = <<a, b>>
    /\ \A a, b, c : <<a>> \o <<b, c>> = <<a, b, c>>
    /\ \A a, b, c, d : <<a>> \o <<b, c, d>> = <<a, b, c, d>>
    /\ \A a, b, c, d, e : <<a>> \o <<b, c, d, e>> = <<a, b, c, d, e>>
<1>1. ASSUME NEW a, NEW b PROVE <<a>> \o <<b>> = <<a, b>>
    <2>1. PICK S : S = {a, b}
        OBVIOUS
    <2>2. PICK s, t : s = <<b>> /\ t = <<a, b>>
        OBVIOUS
    <2>3. a \in S /\ s \in Seq(S) /\ t \in Seq(S)
        BY <2>1, <2>2
    <2>4. Len(s) = 1 /\ Len(t) = 2 /\ t[1] = a
        BY <2>2
    <2>5. \A k \in 1 .. Len(s) : t[k + 1] = s[k]
        BY <2>2
    <2>6. Follows(S, a, s, t)
        BY <2>3, <2>4, <2>5 DEF Follows
    <2>7. <<a>> \o s = t
        BY <2>6, FollowsJoined
    <2>8. QED
        BY <2>2, <2>7
<1>2. ASSUME NEW a, NEW b, NEW c PROVE <<a>> \o <<b, c>> = <<a, b, c>>
    <2>1. PICK S : S = {a, b, c}
        OBVIOUS
    <2>2. PICK s, t : s = <<b, c>> /\ t = <<a, b, c>>
        OBVIOUS
    <2>3. a \in S /\ s \in Seq(S) /\ t \in Seq(S)
        BY <2>1, <2>2
    <2>4. Len(s) = 2 /\ Len(t) = 3 /\ t[1] = a
        BY <2>2
    <2>5. \A k \in 1 .. Len(s) : t[k + 1] = s[k]
        BY <2>2
    <2>6. Follows(S, a, s, t)
        BY <2>3, <2>4, <2>5 DEF Follows
    <2>7. <<a>> \o s = t
        BY <2>6, FollowsJoined
    <2>8. QED
        BY <2>2, <2>7
<1>3. ASSUME NEW a, NEW b, NEW c, NEW d PROVE <<a>> \o <<b, c, d>> = <<a, b, c, d>>
    <2>1. PICK S : S = {a, b, c, d}
        OBVIOUS
    <2>2. PICK s, t : s = <<b, c, d>> /\ t = <<a, b, c, d>>
        OBVIOUS
    <2>3. a \in S /\ s \in Seq(S) /\ t \in Seq(S)
        BY <2>1, <2>2
    <2>4. Len(s) = 3 /\ Len(t) = 4 /\ t[1] = a
        BY <2>2
    <2>5. \A k \in 1 .. Len(s) : t[k + 1] = s[k]
        BY <2>2
    <2>6. Follows(S, a, s, t)
        BY <2>3, <2>4, <2>5 DEF Follows
    <2>7. <<a>> \o s = t
        BY <2>6, FollowsJoined
    <2>8. QED
        BY <2>2, <2>7
<1>4. ASSUME NEW a, NEW b, NEW c, NEW d, NEW e PROVE <<a>> \o <<b, c, d, e>> = <<a, b, c, d, e>>
    <2>1. PICK S : S = {a, b, c, d, e}
        OBVIOUS
    <2>2. PICK s, t : s = <<b, c, d, e>> /\ t = <<a, b, c, d, e>>
        OBVIOUS
    <2>3. a \in S /\ s \in Seq(S) /\ t \in Seq(S)
        BY <2>1, <2>2
    <2>4. Len(s) = 4 /\ Len(t) = 5 /\ t[1] = a
        BY <2>2
    <2>5. \A k \in 1 .. Len(s) : t[k + 1] = s[k]
        BY <2>2
    <2>6. Follows(S, a, s, t)
        BY <2>3, <2>4, <2>5 DEF Follows
    <2>7. <<a>> \o s = t
        BY <2>6, FollowsJoined
    <2>8. QED
        BY <2>2, <2>7
<1>5. QED
    BY <1>1, <1>2, <1>3, <1>4

LEMMA OneAfterTwo == ASSUME NEW a, NEW b, NEW c PROVE <<a, b>> \o <<c>> = <<a, b, c>>
<1>1. PICK S : S = {a, b, c}
    OBVIOUS
<1>2. PICK s, t, u, g : s = <<a, b>> /\ t = <<c>> /\ u = <<a, b, c>> /\ g = s \o t
    OBVIOUS
<1>3. s \in Seq(S) /\ t \in Seq(S) /\ u \in Seq(S) /\ Len(s) = 2 /\ Len(t) = 1 /\ Len(u) = 3
    BY <1>1, <1>2
<1>4. /\ g \in Seq(S) /\ Len(g) = Len(s) + Len(t)
      /\ \A k \in 1 .. Len(s) : g[k] = s[k]
      /\ \A k \in 1 .. Len(t) : g[Len(s) + k] = t[k]
    BY <1>2, <1>3, JoinedSeq
<1>5. g[1] = s[1] /\ g[2] = s[2] /\ g[3] = t[1]
    <2>1. 1 \in 1 .. Len(s) /\ 2 \in 1 .. Len(s) /\ 1 \in 1 .. Len(t) /\ Len(s) + 1 = 3
        BY <1>3
    <2>2. QED
        BY <1>4, <2>1
<1>6. g[1] = u[1] /\ g[2] = u[2] /\ g[3] = u[3]
    BY <1>2, <1>5
<1>7. Len(g) = Len(u) /\ \A k \in 1 .. Len(g) : g[k] = u[k]
    <2>1. Len(g) = 3
        BY <1>3, <1>4
    <2>2. \A k \in 1 .. 3 : k = 1 \/ k = 2 \/ k = 3
        OBVIOUS
    <2>3. QED
        BY <1>3, <1>6, <2>1, <2>2
<1>8. g = u
    BY <1>3, <1>4, <1>7, SameSeq
<1>9. QED
    BY <1>2, <1>8

LEMMA SlideMarks ==
    ASSUME NEW slide, NEW x, x = Decks!MarksOf(slide)
    PROVE  /\ slide.text # "hash" =>
                 /\ slide.type = "title" => x = <<>>
                 /\ slide.type = "problem" => x = <<"style=", "end">>
                 /\ slide.type = "solution" => x = <<"style=", "end", "lookalike">>
                 /\ slide.type = "cta" => x = <<"style=", "brand-rgba", "end">>
           /\ slide.text = "hash" =>
                 /\ slide.type = "title" => x = <<"lookalike">>
                 /\ slide.type = "problem" => x = <<"style=", "end", "lookalike">>
                 /\ slide.type = "solution" => x = <<"lookalike", "style=", "end", "lookalike">>
                 /\ slide.type = "cta" => x = <<"lookalike", "style=", "brand-rgba", "end">>
           /\ slide.type \notin {"title", "problem", "solution", "cta"} => x = <<>>
<1>1. CASE slide.text # "hash"
    <2>1. Decks!Text(slide) = <<>>
        BY <1>1 DEF Decks!Text
    <2>2. /\ <<"style=", "end">> \o <<>> = <<"style=", "end">>
          /\ <<>> \o <<"style=", "end", "lookalike">> = <<"style=", "end", "lookalike">>
          /\ <<>> \o <<"style=", "brand-rgba", "end">> = <<"style=", "brand-rgba", "end">>
        OBVIOUS
    <2>3. QED
        BY <1>1, <2>1, <2>2, MarksOfCases
<1>2. CASE slide.text = "hash"
    <2>1. Decks!Text(slide) = <<"lookalike">>
        BY <1>2 DEF Decks!Text
    <2>2. /\ <<"style=", "end">> \o <<"lookalike">> = <<"style=", "end", "lookalike">>
          /\ <<"lookalike">> \o <<"style=", "end", "lookalike">> =
                <<"lookalike", "style=", "end", "lookalike">>
          /\ <<"lookalike">> \o <<"style=", "brand-rgba", "end">> =
                <<"lookalike", "style=", "brand-rgba", "end">>
        BY SpelledOut, OneAfterTwo
    <2>3. QED
        BY <1>2, <2>1, <2>2, MarksOfCases
<1>3. QED
    BY <1>1, <1>2

\* The gap before each of them.
LEMMA GapBefore ==
    ASSUME NEW x, NEW t, t = <<"gap">> \o x
    PROVE  /\ x = <<"style=", "end">> =>
                 t = <<"gap", "style=", "end">>
           /\ x = <<"style=", "end", "lookalike">> =>
                 t = <<"gap", "style=", "end", "lookalike">>
           /\ x = <<"style=", "brand-rgba", "end">> =>
                 t = <<"gap", "style=", "brand-rgba", "end">>
           /\ x = <<"lookalike">> =>
                 t = <<"gap", "lookalike">>
           /\ x = <<"lookalike", "style=", "end", "lookalike">> =>
                 t = <<"gap", "lookalike", "style=", "end", "lookalike">>
           /\ x = <<"lookalike", "style=", "brand-rgba", "end">> =>
                 t = <<"gap", "lookalike", "style=", "brand-rgba", "end">>
<1>1. <<"gap">> \o <<"style=", "end">> = <<"gap", "style=", "end">>
    BY SpelledOut, Zenon
<1>2. <<"gap">> \o <<"style=", "end", "lookalike">> = <<"gap", "style=", "end", "lookalike">>
    BY SpelledOut, Zenon
<1>3. <<"gap">> \o <<"style=", "brand-rgba", "end">> = <<"gap", "style=", "brand-rgba", "end">>
    BY SpelledOut, Zenon
<1>4. <<"gap">> \o <<"lookalike">> = <<"gap", "lookalike">>
    BY SpelledOut, Zenon
<1>5. <<"gap">> \o <<"lookalike", "style=", "end", "lookalike">> =
      <<"gap", "lookalike", "style=", "end", "lookalike">>
    <2>1. \A a, b, c, d, e : <<a>> \o <<b, c, d, e>> = <<a, b, c, d, e>>
        BY SpelledOut, Zenon
    <2>2. QED
        BY <2>1, Zenon
<1>6. <<"gap">> \o <<"lookalike", "style=", "brand-rgba", "end">> =
      <<"gap", "lookalike", "style=", "brand-rgba", "end">>
    <2>1. \A a, b, c, d, e : <<a>> \o <<b, c, d, e>> = <<a, b, c, d, e>>
        BY SpelledOut, Zenon
    <2>2. QED
        BY <2>1, Zenon
<1>7. QED
    BY <1>1, <1>2, <1>3, <1>4, <1>5, <1>6, Zenon

LEMMA NotFlagged ==
    ASSUME NEW t, \A k \in DOMAIN t : t[k] # "lookalike" \/ \A j \in DOMAIN t : t[j] # "style="
    PROVE  ~Flagged(t)
BY DEF Flagged

LEMMA SlideFlagged ==
    ASSUME NEW slide \in Decks!Slides
    PROVE  LET t == <<"gap">> \o Decks!MarksOf(slide) IN
           /\ t \in Seq(DeckMarks) /\ Len(t) >= 1 /\ t[1] = "gap"
           /\ Flagged(t) <=> ~Clean(slide)
<1>1. PICK t : t = <<"gap">> \o Decks!MarksOf(slide)
    OBVIOUS
<1>2. /\ slide.type \in {"title", "problem", "solution", "cta", "unknown", "chart"}
      /\ slide.type = "unknown" => slide.text = "plain"
      /\ slide.type = "chart" => slide.text = "NaN"
    BY DEF Decks!Slides, Decks!BadChart
<1>3. /\ "gap" \in DeckMarks /\ "lookalike" \in DeckMarks /\ "style=" \in DeckMarks
      /\ "end" \in DeckMarks /\ "brand-rgba" \in DeckMarks
    BY DEF DeckMarks
<1>4. \/ Clean(slide) /\ t \in {<<"gap">>, <<"gap", "lookalike">>, <<"gap", "style=", "end">>,
                                <<"gap", "style=", "brand-rgba", "end">>}
      \/ ~Clean(slide) /\ t \in {<<"gap", "style=", "end", "lookalike">>,
                                 <<"gap", "lookalike", "style=", "end", "lookalike">>,
                                 <<"gap", "lookalike", "style=", "brand-rgba", "end">>}
    <2>1. <<"gap">> \o <<>> = <<"gap">>
        OBVIOUS
    <2>2. PICK x : x = Decks!MarksOf(slide)
        OBVIOUS
    <2>3. CASE slide.text # "hash"
        <3>1. x \in {<<>>, <<"style=", "end">>, <<"style=", "end", "lookalike">>,
                     <<"style=", "brand-rgba", "end">>}
            BY <1>2, <2>2, <2>3, SlideMarks
        <3>2. x = <<"style=", "end", "lookalike">> <=> slide.type = "solution"
            BY <1>2, <2>2, <2>3, SlideMarks
        <3>3. Clean(slide) <=> slide.type # "solution"
            BY <2>3 DEF Clean
        <3>4. /\ x = <<>> => t = <<"gap">>
              /\ x = <<"style=", "end">> => t = <<"gap", "style=", "end">>
              /\ x = <<"style=", "end", "lookalike">> => t = <<"gap", "style=", "end", "lookalike">>
              /\ x = <<"style=", "brand-rgba", "end">> => t = <<"gap", "style=", "brand-rgba", "end">>
            <4>1. t = <<"gap">> \o x
                BY <1>1, <2>2
            <4>2. x = <<>> => t = <<"gap">>
                BY <2>1, <4>1, Zenon
            <4>3. QED
                BY <4>1, <4>2, GapBefore, Zenon
        <3>5. QED
            BY <3>1, <3>2, <3>3, <3>4
    <2>4. CASE slide.text = "hash"
        <3>1. slide.type \in {"title", "problem", "solution", "cta"}
            BY <1>2, <2>4
        <3>2. /\ slide.type = "title" => x = <<"lookalike">>
              /\ slide.type = "problem" => x = <<"style=", "end", "lookalike">>
              /\ slide.type = "solution" => x = <<"lookalike", "style=", "end", "lookalike">>
              /\ slide.type = "cta" => x = <<"lookalike", "style=", "brand-rgba", "end">>
            BY <2>2, <2>4, SlideMarks
        <3>3. Clean(slide) <=> slide.type = "title"
            BY <2>4 DEF Clean
        <3>4. t = <<"gap">> \o x
            BY <1>1, <2>2
        <3>5. /\ x = <<"lookalike">> => t = <<"gap", "lookalike">>
              /\ x = <<"style=", "end", "lookalike">> => t = <<"gap", "style=", "end", "lookalike">>
            BY <3>4, GapBefore, Zenon
        <3>6. /\ x = <<"lookalike", "style=", "end", "lookalike">> =>
                    t = <<"gap", "lookalike", "style=", "end", "lookalike">>
              /\ x = <<"lookalike", "style=", "brand-rgba", "end">> =>
                    t = <<"gap", "lookalike", "style=", "brand-rgba", "end">>
            BY <3>4, GapBefore, Zenon
        <3>7. QED
            BY <3>1, <3>2, <3>3, <3>5, <3>6
    <2>5. QED
        BY <2>3, <2>4
<1>5. ASSUME t \in {<<"gap">>, <<"gap", "lookalike">>, <<"gap", "style=", "end">>,
                   <<"gap", "style=", "brand-rgba", "end">>}
      PROVE  t \in Seq(DeckMarks) /\ Len(t) >= 1 /\ t[1] = "gap" /\ ~Flagged(t)
    <2>1. CASE t = <<"gap">>
        <3>1. t \in Seq(DeckMarks) /\ Len(t) = 1 /\ DOMAIN t = 1 .. 1
            BY <1>3, <2>1
        <3>2. t[1] = "gap"
            BY <2>1
        <3>3. QED
            BY <3>1, <3>2, NotFlagged
    <2>2. CASE t = <<"gap", "lookalike">>
        <3>1. t \in Seq(DeckMarks) /\ Len(t) = 2 /\ DOMAIN t = 1 .. 2
            BY <1>3, <2>2
        <3>2. t[1] = "gap" /\ t[2] = "lookalike"
            BY <2>2
        <3>3. QED
            BY <3>1, <3>2, NotFlagged
    <2>3. CASE t = <<"gap", "style=", "end">>
        <3>1. t \in Seq(DeckMarks) /\ Len(t) = 3 /\ DOMAIN t = 1 .. 3
            BY <1>3, <2>3
        <3>2. t[1] = "gap" /\ t[2] = "style=" /\ t[3] = "end"
            BY <2>3
        <3>3. QED
            BY <3>1, <3>2, NotFlagged
    <2>4. CASE t = <<"gap", "style=", "brand-rgba", "end">>
        <3>1. t \in Seq(DeckMarks) /\ Len(t) = 4 /\ DOMAIN t = 1 .. 4
            BY <1>3, <2>4
        <3>2. t[1] = "gap" /\ t[2] = "style=" /\ t[3] = "brand-rgba" /\ t[4] = "end"
            BY <2>4
        <3>3. QED
            BY <3>1, <3>2, NotFlagged
    <2>5. QED
        BY <1>5, <2>1, <2>2, <2>3, <2>4
<1>6. ASSUME t \in {<<"gap", "style=", "end", "lookalike">>,
                    <<"gap", "lookalike", "style=", "end", "lookalike">>,
                   <<"gap", "lookalike", "style=", "brand-rgba", "end">>}
      PROVE  t \in Seq(DeckMarks) /\ Len(t) >= 1 /\ t[1] = "gap" /\ Flagged(t)
    <2>1. CASE t = <<"gap", "style=", "end", "lookalike">>
        <3>1. t \in Seq(DeckMarks) /\ Len(t) = 4 /\ DOMAIN t = 1 .. 4 /\ t[1] = "gap"
            BY <1>3, <2>1
        <3>2. /\ 4 \in DOMAIN t /\ 2 \in DOMAIN t
              /\ t[4] = "lookalike" /\ t[2] = "style=" /\ t[3] = "end"
            BY <2>1
        <3>3. 2 \in Decks!Near(t, 4)
            <4>1. \A k \in DOMAIN t : (4 < k /\ k < 2) \/ (2 < k /\ k < 4) => t[k] # "gap"
                BY <3>1, <3>2
            <4>2. 2 \in 4 - 2 .. 4 + 2
                OBVIOUS
            <4>3. QED
                BY <3>2, <4>1, <4>2 DEF Decks!Near
        <3>4. QED
            BY <3>1, <3>2, <3>3 DEF Flagged
    <2>2. CASE t = <<"gap", "lookalike", "style=", "end", "lookalike">>
        <3>1. t \in Seq(DeckMarks) /\ Len(t) = 5 /\ DOMAIN t = 1 .. 5 /\ t[1] = "gap"
            BY <1>3, <2>2
        <3>2. /\ 2 \in DOMAIN t /\ 3 \in DOMAIN t
              /\ t[2] = "lookalike" /\ t[3] = "style="
            BY <2>2
        <3>3. 3 \in Decks!Near(t, 2)
            <4>1. \A k \in DOMAIN t : (2 < k /\ k < 3) \/ (3 < k /\ k < 2) => t[k] # "gap"
                BY <3>1, <3>2
            <4>2. 3 \in 2 - 2 .. 2 + 2
                OBVIOUS
            <4>3. QED
                BY <3>2, <4>1, <4>2 DEF Decks!Near
        <3>4. QED
            BY <3>1, <3>2, <3>3 DEF Flagged
    <2>3. CASE t = <<"gap", "lookalike", "style=", "brand-rgba", "end">>
        <3>1. t \in Seq(DeckMarks) /\ Len(t) = 5 /\ DOMAIN t = 1 .. 5 /\ t[1] = "gap"
            BY <1>3, <2>3
        <3>2. /\ 2 \in DOMAIN t /\ 3 \in DOMAIN t
              /\ t[2] = "lookalike" /\ t[3] = "style="
            BY <2>3
        <3>3. 3 \in Decks!Near(t, 2)
            <4>1. \A k \in DOMAIN t : (2 < k /\ k < 3) \/ (3 < k /\ k < 2) => t[k] # "gap"
                BY <3>1, <3>2
            <4>2. 3 \in 2 - 2 .. 2 + 2
                OBVIOUS
            <4>3. QED
                BY <3>2, <4>1, <4>2 DEF Decks!Near
        <3>4. QED
            BY <3>1, <3>2, <3>3 DEF Flagged
    <2>4. QED
        BY <1>6, <2>1, <2>2, <2>3
<1>7. QED
    BY <1>1, <1>4, <1>5, <1>6

\* The template, then slide after slide.
DeckShape(h) ==
    /\ h \in Docs /\ Len(h) >= 5
    /\ h[1] = "url" /\ h[2] = "gap" /\ h[3] = "tokens.css" /\ h[4] = "<style" /\ h[5] = "</style"
    /\ \A i \in 6 .. Len(h) : h[i] \in DeckMarks

Added(slide) == <<"gap">> \o Decks!MarksOf(slide)

LEMMA MarkTypes ==
    /\ DeckMarks \subseteq Decks!Marks
    /\ {"url", "gap", "tokens.css", "<style", "</style"} \subseteq Decks!Marks
BY DEF DeckMarks, Decks!Marks, Decks!Tags, Decks!Forms, Decks!Literals

LEMMA AddedType ==
    ASSUME NEW slide \in Decks!Slides
    PROVE  /\ Added(slide) \in Docs /\ Added(slide) \in Seq(DeckMarks)
           /\ Len(Added(slide)) >= 1 /\ Added(slide)[1] = "gap"
           /\ Flagged(Added(slide)) <=> ~Clean(slide)
BY SlideFlagged, MarkTypes DEF Added, Docs

LEMMA HtmlSteps ==
    ASSUME NEW slides \in Seq(Decks!Slides)
    PROVE  \E html \in [0 .. Len(slides) -> Docs] :
              /\ html[0] = Decks!Template
              /\ \A k \in 1 .. Len(slides) : html[k] = html[k - 1] \o Added(slides[k])
              /\ Decks!GenerateDeck(slides) = html[Len(slides)]
<1>1. PICK n : n = Len(slides)
    OBVIOUS
<1>2. n \in Nat /\ \A k \in 1 .. n : slides[k] \in Decks!Slides
    BY <1>1
<1>3. PICK f \in [0 .. n -> Docs] :
          f[0] = Decks!Template /\ \A k \in 1 .. n : f[k] = f[k - 1] \o Added(slides[k])
    <2>1. PICK steps : steps = [k \in 1 .. n |-> [h \in Docs |-> h \o Added(slides[k])]]
        OBVIOUS
    <2>2. steps \in [1 .. n -> [Docs -> Docs]]
        <3>1. \A k \in 1 .. n : Added(slides[k]) \in Docs
            BY <1>2, AddedType
        <3>2. \A h, t \in Docs : h \o t \in Docs
            BY JoinedSeq DEF Docs
        <3>3. ASSUME NEW k \in 1 .. n PROVE [h \in Docs |-> h \o Added(slides[k])] \in [Docs -> Docs]
            BY <3>1, <3>2
        <3>4. QED
            BY <2>1, <3>3, Zenon
    <2>3. Decks!Template \in Docs
        BY MarkTypes DEF Decks!Template, Docs
    <2>4. PICK f \in [0 .. n -> Docs] :
              f[0] = Decks!Template /\ \A k \in 1 .. n : f[k] = steps[k][f[k - 1]]
        <3>1. Stepwise(Docs, Decks!Template, n, steps)
            BY <1>2, <2>2, <2>3 DEF Stepwise
        <3>2. QED
            BY <3>1, StepByStep
    <2>5. ASSUME NEW k \in 1 .. n PROVE f[k] = f[k - 1] \o Added(slides[k])
        <3>1. k - 1 \in 0 .. n
            BY <1>2
        <3>2. f[k - 1] \in Docs
            BY <2>4, <3>1, Zenon
        <3>3. steps[k] = [h \in Docs |-> h \o Added(slides[k])]
            BY <2>1, Zenon
        <3>4. steps[k][f[k - 1]] = f[k - 1] \o Added(slides[k])
            BY <3>2, <3>3, Zenon
        <3>5. QED
            BY <2>4, <3>4, Zenon
    <2>6. QED
        BY <2>4, <2>5, Zenon
<1> DEFINE Defines(g) ==
        g = [k \in 0 .. Len(slides) |->
                IF k = 0 THEN Decks!Template
                ELSE g[k - 1] \o (<<"gap">> \o Decks!MarksOf(slides[k]))]
<1>4. \E g : Defines(g)
    <2>1. \A k \in 0 .. n :
             f[k] = IF k = 0 THEN Decks!Template
                    ELSE f[k - 1] \o (<<"gap">> \o Decks!MarksOf(slides[k]))
        <3> TAKE k \in 0 .. n
        <3>1. CASE k = 0
            BY <1>3, <3>1
        <3>2. CASE k # 0
            <4>1. k \in 1 .. n
                BY <1>2, <3>2
            <4>2. f[k] = f[k - 1] \o Added(slides[k])
                BY <1>3, <4>1, Zenon
            <4>3. QED
                BY <3>2, <4>2, Zenon DEF Added
        <3>3. QED
            BY <3>1, <3>2
    <2>2. f = [k \in 0 .. n |-> f[k]]
        BY <1>3
    <2>3. Defines(f)
        BY <1>1, <2>1, <2>2
    <2>4. QED
        BY <2>3
<1>5. PICK g : g = CHOOSE h : Defines(h)
    OBVIOUS
<1>6. Defines(g)
    <2> HIDE DEF Defines
    <2>1. QED
        BY <1>4, <1>5
<1>7. Decks!GenerateDeck(slides) = g[n]
    BY <1>1, <1>5 DEF Decks!GenerateDeck
<1>8. /\ DOMAIN g = 0 .. n /\ g = [k \in 0 .. n |-> g[k]]
      /\ g[0] = Decks!Template
      /\ \A k \in 1 .. n : g[k] = g[k - 1] \o Added(slides[k])
    BY <1>1, <1>2, <1>6 DEF Added
<1> HIDE DEF Defines
<1>9. \A k \in 0 .. n : g[k] = f[k]
    <2>1. PICK S : S = {k \in 0 .. n : g[k] = f[k]}
        OBVIOUS
    <2>2. 0 \in S
        BY <1>2, <1>3, <1>8, <2>1
    <2>3. ASSUME NEW k \in 1 .. n, k - 1 \in S PROVE k \in S
        <3>1. g[k - 1] = f[k - 1]
            BY <2>1, <2>3, Zenon
        <3>2. g[k] = f[k]
            BY <1>3, <1>8, <3>1, Zenon
        <3>3. k \in 0 .. n
            BY <1>2
        <3>4. QED
            BY <2>1, <3>2, <3>3
    <2>4. \A k \in 0 .. n : k \in S
        BY <1>2, <2>2, <2>3, UpTo
    <2>5. QED
        BY <2>1, <2>4, Zenon
<1>10. g \in [0 .. n -> Docs]
    BY <1>3, <1>8, <1>9
<1>11. QED
    BY <1>1, <1>7, <1>8, <1>10

LEMMA ShapeStays ==
    ASSUME NEW h, DeckShape(h), NEW t \in Docs, t \in Seq(DeckMarks)
    PROVE  DeckShape(h \o t)
<1>1. PICK g : g = h \o t
    OBVIOUS
<1>2. /\ g \in Docs /\ Len(g) = Len(h) + Len(t)
      /\ \A k \in 1 .. Len(h) : g[k] = h[k]
      /\ \A k \in 1 .. Len(t) : g[Len(h) + k] = t[k]
    <2>1. h \in Docs
        BY DEF DeckShape
    <2> DEFINE M == Decks!Marks
    <2>2. h \in Seq(M) /\ t \in Seq(M)
        BY <2>1 DEF Docs
    <2> HIDE DEF M
    <2>3. /\ g \in Seq(M) /\ Len(g) = Len(h) + Len(t)
          /\ \A k \in 1 .. Len(h) : g[k] = h[k]
          /\ \A k \in 1 .. Len(t) : g[Len(h) + k] = t[k]
        BY <1>1, <2>2, JoinedSeq
    <2>4. QED
        BY <2>3 DEF M, Docs
<1>3. Len(h) \in Nat /\ Len(t) \in Nat /\ Len(h) >= 5
    BY DEF DeckShape, Docs
<1>4. /\ g[1] = "url" /\ g[2] = "gap" /\ g[3] = "tokens.css" /\ g[4] = "<style" /\ g[5] = "</style"
    <2>1. /\ h[1] = "url" /\ h[2] = "gap" /\ h[3] = "tokens.css"
          /\ h[4] = "<style" /\ h[5] = "</style"
        BY DEF DeckShape
    <2>2. \A k \in 1 .. 5 : g[k] = h[k]
        BY <1>2, <1>3
    <2>3. QED
        BY <2>1, <2>2
<1>5. ASSUME NEW i \in 6 .. Len(g) PROVE g[i] \in DeckMarks
    <2>1. CASE i <= Len(h)
        BY <1>2, <1>3, <2>1 DEF DeckShape
    <2>2. CASE i > Len(h)
        <3>1. i - Len(h) \in 1 .. Len(t) /\ Len(h) + (i - Len(h)) = i
            BY <1>2, <1>3, <2>2
        <3>2. t[i - Len(h)] \in DeckMarks
            BY <3>1
        <3>3. QED
            BY <1>2, <3>1, <3>2
    <2>3. QED
        BY <1>2, <1>3, <2>1, <2>2
<1>6. DeckShape(g)
    <2>1. Len(g) >= 5 /\ g \in Docs
        BY <1>2, <1>3
    <2>2. \A i \in 6 .. Len(g) : g[i] \in DeckMarks
        BY <1>5
    <2>3. QED
        BY <1>4, <2>1, <2>2 DEF DeckShape
<1>7. QED
    BY <1>1, <1>6

LEMMA DeckOfSlides ==
    ASSUME NEW slides \in Seq(Decks!Slides)
    PROVE  /\ DeckShape(Decks!GenerateDeck(slides))
           /\ Flagged(Decks!GenerateDeck(slides)) <=>
                 \E k \in DOMAIN slides : ~Clean(slides[k])
<1> DEFINE n == Len(slides)
<1>1. n \in Nat /\ DOMAIN slides = 1 .. n /\ \A k \in 1 .. n : slides[k] \in Decks!Slides
    OBVIOUS
<1>2. PICK html \in [0 .. n -> Docs] :
          /\ html[0] = Decks!Template
          /\ \A k \in 1 .. n : html[k] = html[k - 1] \o Added(slides[k])
          /\ Decks!GenerateDeck(slides) = html[n]
    <2>1. slides \in Seq(Decks!Slides)
        OBVIOUS
    <2>2. QED
        BY <2>1, HtmlSteps
<1> HIDE DEF n
<1> DEFINE Judged(k) ==
        /\ DeckShape(html[k])
        /\ Flagged(html[k]) <=> \E j \in 1 .. k : ~Clean(slides[j])
    S == {k \in 0 .. n : Judged(k)}
<1>3. Judged(0)
    <2>1. PICK t : t = Decks!Template
        OBVIOUS
    <2>2. /\ t \in Docs /\ Len(t) = 5 /\ DOMAIN t = 1 .. 5
          /\ t[1] = "url" /\ t[2] = "gap" /\ t[3] = "tokens.css" /\ t[4] = "<style" /\ t[5] = "</style"
        BY <2>1, MarkTypes DEF Decks!Template, Docs
    <2>3. DeckShape(t)
        BY <2>2 DEF DeckShape
    <2>4. ~Flagged(t)
        BY <2>2, NotFlagged
    <2>5. QED
        BY <1>2, <2>1, <2>3, <2>4
<1>4. ASSUME NEW k \in 1 .. n, Judged(k - 1) PROVE Judged(k)
    <2>1. slides[k] \in Decks!Slides /\ html[k] = html[k - 1] \o Added(slides[k])
        BY <1>1, <1>2
    <2>2. DeckShape(html[k])
        BY <1>4, <2>1, AddedType, ShapeStays
    <2>3. Flagged(html[k]) <=> Flagged(html[k - 1]) \/ ~Clean(slides[k])
        <3>1. html[k - 1] \in Docs
            BY <1>4 DEF DeckShape
        <3>2. QED
            BY <2>1, <3>1, AddedType, FlaggedApart
    <2>4. (\E j \in 1 .. k : ~Clean(slides[j])) <=>
              (\E j \in 1 .. k - 1 : ~Clean(slides[j])) \/ ~Clean(slides[k])
        BY <1>1
    <2>5. QED
        BY <1>4, <2>2, <2>3, <2>4
<1>5. n \in S
    <2>1. 0 \in S
        BY <1>1, <1>3
    <2>2. ASSUME NEW k \in 1 .. n, k - 1 \in S PROVE k \in S
        <3>1. Judged(k - 1) /\ k \in 0 .. n
            BY <1>1, <2>2
        <3> HIDE DEF Judged
        <3>2. QED
            BY <1>4, <3>1
    <2> HIDE DEF S
    <2>3. \A k \in 1 .. n : k - 1 \in S => k \in S
        BY <2>2
    <2>4. \A k \in 0 .. n : k \in S
        BY <1>1, <2>1, <2>3, UpTo
    <2>5. QED
        BY <1>1, <2>4
<1>6. QED
    BY <1>1, <1>2, <1>5

\* No tag follows the style block of the template, and nothing near the slides
\* excuses a colour.
LEMMA DeckIsJudged ==
    ASSUME NEW h, DeckShape(h)
    PROVE  Decks!Passes(h) <=> ~Flagged(h)
<1>1. h \in Docs /\ DOMAIN h = 1 .. Len(h) /\ Len(h) \in Nat /\ Len(h) >= 5
    BY DEF DeckShape, Docs
<1>2. ~Decks!MissingImport(h)
    BY <1>1 DEF DeckShape, Decks!MissingImport
<1>3. ASSUME NEW i \in DOMAIN h, h[i] \in Decks!Forms
      PROVE  i \in 6 .. Len(h) /\ h[i] \in {"lookalike", "brand-rgba"}
    <2>1. i \in 6 .. Len(h)
        BY <1>1, <1>3 DEF DeckShape, Decks!Forms, Decks!Literals
    <2>2. QED
        BY <1>3, <2>1 DEF DeckShape, DeckMarks, Decks!Forms, Decks!Literals
<1>4. ASSUME NEW i \in 6 .. Len(h)
      PROVE  /\ ~Decks!IsInsideBlock(h, i, "<script", "</script")
             /\ ~Decks!IsInsideBlock(h, i, "<style", "</style")
             /\ "url" \notin Decks!Context(h, i) /\ "hex-fallback" \notin Decks!Context(h, i)
    <2>1. \A j \in 1 .. i - 1 : h[j] \notin {"<script", "</script"}
        BY <1>1 DEF DeckShape, DeckMarks
    <2>2. \A j \in 1 .. i - 1 : h[j] = "<style" <=> j = 4
        BY <1>1 DEF DeckShape, DeckMarks
    <2>3. \A j \in 1 .. i - 1 : h[j] = "</style" <=> j = 5
        BY <1>1 DEF DeckShape, DeckMarks
    <2>4. Decks!LastBefore(h, i, "<script") = 0 /\ Decks!LastBefore(h, i, "</script") = 0
        <3>1. {j \in 1 .. i - 1 : h[j] = "<script"} = {} /\ {j \in 1 .. i - 1 : h[j] = "</script"} = {}
            BY <2>1
        <3>2. Decks!Max({0} \cup {}) = 0
            BY DEF Decks!Max
        <3>3. QED
            BY <3>1, <3>2 DEF Decks!LastBefore
    <2>5. Decks!LastBefore(h, i, "<style") = 4 /\ Decks!LastBefore(h, i, "</style") = 5
        <3>1. /\ {j \in 1 .. i - 1 : h[j] = "<style"} = {4}
              /\ {j \in 1 .. i - 1 : h[j] = "</style"} = {5}
            BY <2>2, <2>3
        <3>2. Decks!Max({0} \cup {4}) = 4 /\ Decks!Max({0} \cup {5}) = 5
            BY DEF Decks!Max
        <3>3. QED
            BY <3>1, <3>2 DEF Decks!LastBefore
    <2>6. ASSUME NEW j \in Decks!Near(h, i) PROVE h[j] \in DeckMarks \cup {"<style", "</style"}
        <3>1. j \in DOMAIN h /\ j \in i - 2 .. i + 2
            BY DEF Decks!Near
        <3>2. j \in 4 .. Len(h)
            BY <1>1, <3>1
        <3>3. QED
            BY <3>2 DEF DeckShape
    <2>7. "url" \notin Decks!Context(h, i) /\ "hex-fallback" \notin Decks!Context(h, i)
        BY <2>6 DEF Decks!Context, DeckMarks
    <2>8. QED
        BY <2>4, <2>5, <2>7 DEF Decks!IsInsideBlock
<1>5. ASSUME NEW i \in DOMAIN h
      PROVE  i \in Decks!Hardcoded(h) <=> h[i] = "lookalike" /\ "style=" \in Decks!Context(h, i)
    <2>1. CASE h[i] \in Decks!Forms
        <3>1. i \in 6 .. Len(h) /\ h[i] \in {"lookalike", "brand-rgba"}
            BY <1>3, <2>1
        <3>2. Decks!IsAllowed(h, i) <=> h[i] = "brand-rgba"
            BY <1>4, <3>1 DEF Decks!IsAllowed
        <3>3. QED
            BY <1>4, <2>1, <3>1, <3>2 DEF Decks!Hardcoded
    <2>2. CASE h[i] \notin Decks!Forms
        BY <2>2 DEF Decks!Hardcoded, Decks!Forms
    <2>3. QED
        BY <2>1, <2>2
<1>6. Decks!Hardcoded(h) = {} <=> ~Flagged(h)
    <2>1. \A i : i \in Decks!Hardcoded(h) => i \in DOMAIN h
        BY DEF Decks!Hardcoded
    <2>2. \A i : "style=" \in Decks!Context(h, i) <=>
             \E j \in DOMAIN h : h[j] = "style=" /\ j \in Decks!Near(h, i)
        BY DEF Decks!Context, Decks!Near
    <2>3. QED
        BY <1>5, <2>1, <2>2 DEF Flagged
<1>7. QED
    BY <1>2, <1>6 DEF Decks!Passes

-----------------------------------------------------------------------------
(***************************************************************************)
(* DeckFiles.  A path is named once, and whoever opens the file of a deck  *)
(* that is done has the same name for it.                                  *)
(***************************************************************************)
Contents == [by : Writers \cup {"hand"}, doc : Docs]

DeckTypes ==
    /\ minute \in 0 .. MaxMinute
    /\ deckFile \in [Decks!Paths -> Contents \cup {Absent}]
    /\ deckRequest \in [Writers -> [command : {"json", "demo", "output"}, slides : Seq(Decks!Slides)]]
    /\ deckPc \in [Writers -> {"generate", "raised", "name", "open", "write", "done"}]
    /\ deckPath \in [Writers -> Decks!Paths]
    /\ named \in [Writers -> 0 .. MaxMinute]

\* The path of a writer is the one of the minute in which it chose it.
PathsAreNamed ==
    \A w \in Writers :
        deckPc[w] \in {"open", "write", "done"} =>
            deckPath[w] = Decks!NameAt(deckRequest[w].command, named[w])

\* What was read was judged as it was then.
ReadsAreJudged ==
    \A p \in DOMAIN read :
        /\ read[p].content \in Contents \cup {Absent}
        /\ read[p].passed <=> Decks!Passes(Decks!DocOf(read[p].content))

AllPassed == \A p \in DOMAIN read : read[p].passed

\* The exit says what was judged, of all that was to be read.
ReadInv ==
    /\ left \subseteq DOMAIN Decks!PathSeq
    /\ exit \in {"idle", "reading", "success", "failure"}
    /\ exit # "reading" => left = {}
    /\ ReadsAreJudged
    /\ exit \in {"success", "failure"} => (exit = "success" <=> AllPassed)

DeckInv == DeckTypes /\ PathsAreNamed /\ Decks!GeneratedDeckStays /\ ReadInv

Joins(S, s, t, g) == s \in Seq(S) /\ t \in Seq(S) /\ g = s \o t

LEMMA Joined ==
    ASSUME NEW S, NEW s, NEW t, NEW g, Joins(S, s, t, g)
    PROVE  /\ g \in Seq(S) /\ Len(g) = Len(s) + Len(t)
           /\ \A k \in 1 .. Len(s) : g[k] = s[k]
           /\ \A k \in 1 .. Len(t) : g[Len(s) + k] = t[k]
<1>1. s \in Seq(S) /\ t \in Seq(S) /\ g = s \o t
    BY DEF Joins
<1>2. QED
    BY <1>1, JoinedSeq

LEMMA PathIsKept ==
    /\ Decks!PathSeq \in Seq([kind : {"byhand", "deck", "demo", "output"}, tag : Nat])
    /\ Decks!NoPath \in Decks!Paths
    /\ \A t \in 0 .. MaxMinute :
          /\ [kind |-> "deck", tag |-> t] \in Decks!Paths
          /\ [kind |-> "demo", tag |-> t] \in Decks!Paths
    /\ [kind |-> "output", tag |-> 0] \in Decks!Paths
    /\ 1 \in DOMAIN Decks!PathSeq
    /\ \A k \in DOMAIN Decks!PathSeq : Decks!PathSeq[k] \in Decks!Paths
<1>1. PICK R : R = [kind : {"byhand", "deck", "demo", "output"}, tag : Nat]
    OBVIOUS
<1>2. PICK a : a = <<[kind |-> "byhand", tag |-> 0]>>
    OBVIOUS
<1>3. PICK d : d = [t \in 1 .. MaxMinute + 1 |-> [kind |-> "deck", tag |-> t - 1]]
    OBVIOUS
<1>4. PICK e : e = [t \in 1 .. MaxMinute + 1 |-> [kind |-> "demo", tag |-> t - 1]]
    OBVIOUS
<1>5. PICK o : o = <<[kind |-> "output", tag |-> 0]>>
    OBVIOUS
<1>6. MaxMinute \in Nat
    BY DecksAssumption
<1>7. a \in Seq(R) /\ Len(a) = 1
    BY <1>1, <1>2
<1>8. o \in Seq(R) /\ Len(o) = 1 /\ o[1] = [kind |-> "output", tag |-> 0]
    BY <1>1, <1>5
<1>9. d \in [1 .. MaxMinute + 1 -> R] /\ e \in [1 .. MaxMinute + 1 -> R]
    BY <1>1, <1>3, <1>4, <1>6
<1>10. /\ d \in Seq(R) /\ Len(d) = MaxMinute + 1
       /\ e \in Seq(R) /\ Len(e) = MaxMinute + 1
    BY <1>6, <1>9
<1>11. PICK ad : ad = a \o d
    OBVIOUS
<1>12. PICK ade : ade = ad \o e
    OBVIOUS
<1>13. PICK p : p = ade \o o
    OBVIOUS
<1>14. Decks!PathSeq = p
    BY <1>2, <1>3, <1>4, <1>5, <1>11, <1>12, <1>13 DEF Decks!PathSeq
<1>15. /\ ad \in Seq(R) /\ Len(ad) = MaxMinute + 2
       /\ \A k \in 1 .. MaxMinute + 1 : ad[k + 1] = d[k]
    <2>1. /\ ad \in Seq(R) /\ Len(ad) = Len(a) + Len(d)
          /\ \A k \in 1 .. Len(d) : ad[Len(a) + k] = d[k]
        <3>1. Joins(R, a, d, ad)
            BY <1>7, <1>10, <1>11 DEF Joins
        <3>2. QED
            BY <3>1, Joined
    <2>2. \A k \in 1 .. MaxMinute + 1 : ad[1 + k] = d[k]
        BY <1>7, <1>10, <2>1
    <2>3. Len(ad) = MaxMinute + 2
        BY <1>6, <1>7, <1>10, <2>1
    <2>4. ASSUME NEW k \in 1 .. MaxMinute + 1 PROVE ad[k + 1] = d[k]
        <3>1. k + 1 = 1 + k
            BY <1>6
        <3>2. QED
            BY <2>2, <3>1, Zenon
    <2>5. QED
        BY <2>1, <2>3, <2>4
<1>16. /\ ade \in Seq(R) /\ Len(ade) = 2 * MaxMinute + 3
       /\ \A k \in 1 .. MaxMinute + 1 : ade[k + 1] = d[k]
       /\ \A k \in 1 .. MaxMinute + 1 : ade[MaxMinute + 2 + k] = e[k]
    <2>1. /\ ade \in Seq(R) /\ Len(ade) = Len(ad) + Len(e)
          /\ \A k \in 1 .. Len(ad) : ade[k] = ad[k]
          /\ \A k \in 1 .. Len(e) : ade[Len(ad) + k] = e[k]
        <3>1. Joins(R, ad, e, ade)
            BY <1>10, <1>12, <1>15 DEF Joins
        <3>2. QED
            BY <3>1, Joined
    <2>2. ASSUME NEW k \in 1 .. MaxMinute + 1 PROVE ade[k + 1] = d[k]
        <3>1. k + 1 \in 1 .. Len(ad)
            BY <1>6, <1>15
        <3>2. ade[k + 1] = ad[k + 1]
            BY <2>1, <3>1, Zenon
        <3>3. QED
            BY <1>15, <3>2
    <2>3. Len(ade) = 2 * MaxMinute + 3
        BY <1>6, <1>10, <1>15, <2>1
    <2>4. \A k \in 1 .. MaxMinute + 1 : ade[MaxMinute + 2 + k] = e[k]
        BY <1>10, <1>15, <2>1
    <2>5. QED
        BY <2>1, <2>2, <2>3, <2>4
<1>17. /\ p \in Seq(R) /\ Len(p) = 2 * MaxMinute + 4
       /\ \A k \in 1 .. MaxMinute + 1 : p[k + 1] = d[k]
       /\ \A k \in 1 .. MaxMinute + 1 : p[MaxMinute + 2 + k] = e[k]
       /\ p[2 * MaxMinute + 4] = [kind |-> "output", tag |-> 0]
    <2>1. /\ p \in Seq(R) /\ Len(p) = Len(ade) + Len(o)
          /\ \A k \in 1 .. Len(ade) : p[k] = ade[k]
          /\ \A k \in 1 .. Len(o) : p[Len(ade) + k] = o[k]
        <3>1. Joins(R, ade, o, p)
            BY <1>8, <1>13, <1>16 DEF Joins
        <3>2. QED
            BY <3>1, Joined
    <2>2. ASSUME NEW k \in 1 .. MaxMinute + 1
          PROVE  p[k + 1] = d[k] /\ p[MaxMinute + 2 + k] = e[k]
        <3>1. k + 1 \in 1 .. Len(ade) /\ MaxMinute + 2 + k \in 1 .. Len(ade)
            BY <1>6, <1>16
        <3>2. p[k + 1] = ade[k + 1] /\ p[MaxMinute + 2 + k] = ade[MaxMinute + 2 + k]
            BY <2>1, <3>1, Zenon
        <3>3. QED
            BY <1>16, <3>2
    <2>3. Len(p) = 2 * MaxMinute + 4
        BY <1>6, <1>8, <1>16, <2>1
    <2>4. p[2 * MaxMinute + 4] = o[1]
        <3>1. 1 \in 1 .. Len(o)
            BY <1>8
        <3>2. p[Len(ade) + 1] = o[1]
            BY <2>1, <3>1, Zenon
        <3>3. Len(ade) + 1 = 2 * MaxMinute + 4
            BY <1>6, <1>16
        <3>4. QED
            BY <3>2, <3>3, Zenon
    <2>5. QED
        BY <1>8, <2>1, <2>2, <2>3, <2>4
<1>18. \A k \in 1 .. 2 * MaxMinute + 4 : p[k] \in Decks!Paths
    <2>1. DOMAIN p = 1 .. 2 * MaxMinute + 4
        BY <1>6, <1>17
    <2>2. QED
        BY <1>14, <2>1 DEF Decks!Paths, Decks!ToSet
<1>19. ASSUME NEW t \in 0 .. MaxMinute
       PROVE  /\ [kind |-> "deck", tag |-> t] \in Decks!Paths
              /\ [kind |-> "demo", tag |-> t] \in Decks!Paths
    <2>1. t + 1 \in 1 .. MaxMinute + 1 /\ (t + 1) - 1 = t
        BY <1>6
    <2>2. d[t + 1] = [kind |-> "deck", tag |-> t] /\ e[t + 1] = [kind |-> "demo", tag |-> t]
        BY <1>3, <1>4, <2>1
    <2>3. p[(t + 1) + 1] = d[t + 1] /\ p[MaxMinute + 2 + (t + 1)] = e[t + 1]
        BY <1>17, <2>1
    <2>4. /\ (t + 1) + 1 \in 1 .. 2 * MaxMinute + 4
          /\ MaxMinute + 2 + (t + 1) \in 1 .. 2 * MaxMinute + 4
        BY <1>6
    <2>5. QED
        BY <1>18, <2>2, <2>3, <2>4
<1>20. [kind |-> "output", tag |-> 0] \in Decks!Paths
    <2>1. 2 * MaxMinute + 4 \in 1 .. 2 * MaxMinute + 4
        BY <1>6
    <2>2. QED
        BY <1>17, <1>18, <2>1
<1>21. Decks!NoPath \in Decks!Paths
    <2>1. 1 \in 1 .. 2 * MaxMinute + 4
        BY <1>6
    <2>2. QED
        BY <1>14, <1>18, <2>1 DEF Decks!NoPath
<1>22. \A k \in DOMAIN p : p[k] \in Decks!Paths
    BY <1>14 DEF Decks!Paths, Decks!ToSet
<1>23. 1 \in DOMAIN p
    BY <1>6, <1>17
<1>24. QED
    BY <1>1, <1>14, <1>17, <1>19, <1>20, <1>21, <1>22, <1>23

LEMMA DayOfMinute ==
    ASSUME NEW now \in 0 .. MaxMinute
    PROVE  now \div MinutesOfDay \in 0 .. MaxMinute
BY DecksAssumption

\* The name of each command.
LEMMA NameCases ==
    ASSUME NEW command \in {"json", "demo", "output"}, NEW now
    PROVE  /\ command = "json" => Decks!NameAt(command, now) = [kind |-> "deck", tag |-> now]
           /\ command = "demo" =>
                Decks!NameAt(command, now) = [kind |-> "demo", tag |-> now \div MinutesOfDay]
           /\ command = "output" => Decks!NameAt(command, now) = [kind |-> "output", tag |-> 0]
BY DEF Decks!NameAt

LEMMA NameIsAPath ==
    ASSUME NEW command \in {"json", "demo", "output"}, NEW now \in 0 .. MaxMinute
    PROVE  Decks!NameAt(command, now) \in Decks!Paths
<1>1. CASE command = "json"
    BY <1>1, NameCases, PathIsKept
<1>2. CASE command = "demo"
    BY <1>2, NameCases, PathIsKept, DayOfMinute
<1>3. CASE command = "output"
    BY <1>3, NameCases, PathIsKept
<1>4. QED
    BY <1>1, <1>2, <1>3

\* Names are equal only if the commands are and what is left of the minutes is.
LEMMA NamesDiffer ==
    ASSUME NEW c \in {"json", "demo", "output"}, NEW d \in {"json", "demo", "output"},
           NEW m, NEW n, Decks!NameAt(c, m) = Decks!NameAt(d, n)
    PROVE  /\ c = d
           /\ c = "json" => m = n
           /\ c = "demo" => m \div MinutesOfDay = n \div MinutesOfDay
<1>1. PICK x : x = Decks!NameAt(c, m)
    OBVIOUS
<1>2. PICK k : k = m \div MinutesOfDay
    OBVIOUS
<1>3. PICK l : l = n \div MinutesOfDay
    OBVIOUS
<1>4. /\ c = "json" => x = [kind |-> "deck", tag |-> m]
      /\ c = "demo" => x = [kind |-> "demo", tag |-> k]
      /\ c = "output" => x = [kind |-> "output", tag |-> 0]
    BY <1>1, <1>2, NameCases, Zenon
<1>5. /\ d = "json" => x = [kind |-> "deck", tag |-> n]
      /\ d = "demo" => x = [kind |-> "demo", tag |-> l]
      /\ d = "output" => x = [kind |-> "output", tag |-> 0]
    BY <1>1, <1>3, NameCases, Zenon
<1>6. c = d /\ (c = "json" => m = n) /\ (c = "demo" => k = l)
    BY <1>4, <1>5
<1>7. QED
    BY <1>2, <1>3, <1>6

LEMMA TakesCases ==
    ASSUME NEW v, NEW w, v # w, deckPc[v] \in {"open", "write", "done"},
           deckRequest[v].command = deckRequest[w].command,
           deckRequest[w].command = "json" => named[v] = named[w],
           deckRequest[w].command = "demo" =>
               named[v] \div MinutesOfDay = named[w] \div MinutesOfDay
    PROVE  Decks!TakesTheFileOf(v, w)
BY DEF Decks!TakesTheFileOf

\* Who takes the file of a deck has its path.
LEMMA TakesThePath ==
    ASSUME DeckTypes, PathsAreNamed, NEW v \in Writers, NEW w \in Writers,
           deckPc[w] = "done", Decks!TakesTheFileOf(v, w)
    PROVE  deckPath[v] = deckPath[w]
<1>1. /\ deckPath[v] = Decks!NameAt(deckRequest[v].command, named[v])
      /\ deckPath[w] = Decks!NameAt(deckRequest[w].command, named[w])
    BY DEF PathsAreNamed, Decks!TakesTheFileOf
<1>2. PICK c : c = deckRequest[w].command
    OBVIOUS
<1>3. deckRequest[v].command = c /\ c \in {"json", "demo", "output"}
    BY <1>2 DEF DeckTypes, Decks!TakesTheFileOf
<1>4. /\ c = "json" => named[v] = named[w]
      /\ c = "demo" => named[v] \div MinutesOfDay = named[w] \div MinutesOfDay
    BY <1>2 DEF Decks!TakesTheFileOf
<1>5. Decks!NameAt(c, named[v]) = Decks!NameAt(c, named[w])
    BY <1>3, <1>4, NameCases
<1>6. QED
    BY <1>1, <1>2, <1>3, <1>5

-----------------------------------------------------------------------------
(***************************************************************************)
(* The steps of the writers and of the validator.                          *)
(***************************************************************************)
DeckRequests == [command : {"json", "demo", "output"}, slides : Seq(Decks!Slides)]

LEMMA FunctionIsSeq ==
    ASSUME NEW S, NEW k \in Nat, NEW s \in [1 .. k -> S] PROVE s \in Seq(S)
OBVIOUS

LEMMA BoundedIsSeq == ASSUME NEW S, NEW m PROVE Decks!BoundedSeq(S, m) \subseteq Seq(S)
<1>1. ASSUME NEW k \in 0 .. m, NEW s \in [1 .. k -> S] PROVE s \in Seq(S)
    <2>1. k \in Nat
        OBVIOUS
    <2>2. QED
        BY <2>1, FunctionIsSeq
<1>2. QED
    BY <1>1 DEF Decks!BoundedSeq, Decks!SeqOf

LEMMA RequestTypes == Decks!Requests \subseteq DeckRequests
<1>1. Decks!DemoSlides \in Seq(Decks!Slides)
    <2>1. PICK types : types = <<"title", "problem", "solution", "problem", "problem", "problem", "cta">>
        OBVIOUS
    <2>2. \A k \in 1 .. 7 : types[k] \in {"title", "problem", "solution", "cta"}
        <3>1. /\ types[1] = "title" /\ types[2] = "problem" /\ types[3] = "solution"
              /\ types[4] = "problem" /\ types[5] = "problem" /\ types[6] = "problem"
              /\ types[7] = "cta"
            BY <2>1
        <3>2. QED
            BY <3>1
    <2>3. PICK demo : demo = [k \in 1 .. 7 |-> [type |-> types[k], text |-> "plain"]]
        OBVIOUS
    <2>4. Decks!DemoSlides = demo
        BY <2>1, <2>3 DEF Decks!DemoSlides
    <2>5. \A k \in 1 .. 7 : [type |-> types[k], text |-> "plain"] \in Decks!Slides
        BY <2>2 DEF Decks!Slides
    <2>6. demo \in [1 .. 7 -> Decks!Slides]
        BY <2>3, <2>5, Zenon
    <2>7. demo \in Seq(Decks!Slides)
        BY <2>6, FunctionIsSeq
    <2>8. QED
        BY <2>4, <2>7
<1>2. Decks!BoundedSeq(Decks!Slides, MaxSlides) \subseteq Seq(Decks!Slides)
    BY BoundedIsSeq
<1>3. QED
    BY <1>1, <1>2 DEF Decks!Requests, DeckRequests

LEMMA DeckStarts == ASSUME Decks!Init PROVE DeckInv
<1>1. DeckTypes
    <2>1. minute = 0 /\ 0 \in 0 .. MaxMinute
        BY DecksAssumption DEF Decks!Init
    <2>2. deckFile \in [Decks!Paths -> Contents \cup {Absent}]
        <3>1. PICK byHand \in [by : {"hand"}, doc : ByHand] \cup {Absent} :
                  deckFile = [p \in Decks!Paths |-> IF p.kind = "byhand" THEN byHand ELSE Absent]
            BY DEF Decks!Init
        <3>2. byHand \in Contents \cup {Absent}
            BY DecksAssumption DEF Contents, Docs
        <3>3. QED
            BY <3>1, <3>2
    <2>3. deckRequest \in [Writers -> DeckRequests]
        BY RequestTypes DEF Decks!Init
    <2>4. deckPc \in [Writers -> {"generate", "raised", "name", "open", "write", "done"}]
        BY DEF Decks!Init
    <2>5. deckPath \in [Writers -> Decks!Paths] /\ named \in [Writers -> 0 .. MaxMinute]
        BY <2>1, PathIsKept DEF Decks!Init
    <2>6. QED
        BY <2>1, <2>2, <2>3, <2>4, <2>5 DEF DeckTypes, DeckRequests
<1>2. PathsAreNamed /\ Decks!GeneratedDeckStays
    BY DEF Decks!Init, PathsAreNamed, Decks!GeneratedDeckStays
<1>3. ReadInv
    BY DEF Decks!Init, ReadInv, ReadsAreJudged
<1>4. QED
    BY <1>1, <1>2, <1>3 DEF DeckInv

LEMMA DeckType ==
    ASSUME DeckTypes, NEW w \in Writers
    PROVE  Decks!Deck(w) \in Contents /\ Decks!Deck(w) # Absent
<1>1. deckRequest[w].slides \in Seq(Decks!Slides)
    BY DEF DeckTypes
<1>2. Decks!GenerateDeck(deckRequest[w].slides) \in Docs
    BY <1>1, DeckOfSlides DEF DeckShape
<1>3. Decks!Deck(w) \in Contents
    BY <1>2 DEF Decks!Deck, Contents
<1>4. QED
    BY <1>3, DecksAssumption DEF Contents, Docs

\* What GeneratedDeckStays says of the file of u.
HoldsTheFileOf(v, u) ==
    /\ v = u \/ Decks!TakesTheFileOf(v, u)
    /\ \/ deckFile[deckPath[u]] = Decks!Deck(v)
       \/ deckPc[v] = "write" /\ deckFile[deckPath[u]] = [by |-> v, doc |-> <<>>]

LEMMA WriterKeeps ==
    ASSUME DeckInv, NEW w \in Writers,
           Decks!Generate(w) \/ Decks!Name(w) \/ Decks!Open(w) \/ Decks!Write(w)
    PROVE  DeckInv'
<1>1. DeckTypes /\ PathsAreNamed /\ Decks!GeneratedDeckStays /\ ReadInv
    BY DEF DeckInv
<1>2. DeckTypes'
    <2>1. CASE Decks!Generate(w)
        BY <1>1, <2>1 DEF DeckTypes, Decks!Generate
    <2>2. CASE Decks!Name(w)
        <3>1. Decks!NameAt(deckRequest[w].command, minute) \in Decks!Paths
            BY <1>1, NameIsAPath DEF DeckTypes
        <3>2. QED
            BY <1>1, <2>2, <3>1 DEF DeckTypes, Decks!Name
    <2>3. CASE Decks!Open(w)
        <3>1. [by |-> w, doc |-> <<>>] \in Contents
            BY DEF Contents, Docs
        <3>2. QED
            BY <1>1, <2>3, <3>1 DEF DeckTypes, Decks!Open
    <2>4. CASE Decks!Write(w)
        BY <1>1, <2>4, DeckType DEF DeckTypes, Decks!Write
    <2>5. QED
        BY <2>1, <2>2, <2>3, <2>4
<1>3. PathsAreNamed'
    BY <1>1 DEF DeckTypes, PathsAreNamed, Decks!Generate, Decks!Name, Decks!Open, Decks!Write
<1>4. ReadInv'
    BY <1>1 DEF ReadInv, ReadsAreJudged, AllPassed, Decks!Generate, Decks!Name, Decks!Open,
           Decks!Write, Decks!checkVars
<1>5. deckRequest' = deckRequest
    BY DEF Decks!Generate, Decks!Name, Decks!Open, Decks!Write
<1>6. ASSUME NEW u \in Writers, deckPc[u] \in {"open", "write", "done"}
      PROVE  deckPc'[u] \in {"open", "write", "done"} /\ named'[u] = named[u]
              /\ deckPath'[u] = deckPath[u]
    BY <1>1, <1>6 DEF DeckTypes, Decks!Generate, Decks!Name, Decks!Open, Decks!Write
<1>7. ASSUME NEW v \in Writers, NEW u \in Writers, deckPc[u] = "done", Decks!TakesTheFileOf(v, u)
      PROVE  Decks!TakesTheFileOf(v, u)'
    <2>1. named'[u] = named[u] /\ named'[v] = named[v] /\ deckPc'[v] \in {"open", "write", "done"}
        BY <1>6, <1>7 DEF Decks!TakesTheFileOf
    <2>2. QED
        BY <1>5, <1>7, <2>1 DEF Decks!TakesTheFileOf
<1>8. ASSUME NEW u \in Writers, deckPc[u] = "done",
            ~(deckPath[w] = deckPath[u] /\ (Decks!Open(w) \/ Decks!Write(w)))
      PROVE  \E v \in Writers : HoldsTheFileOf(v, u)'
    <2>1. PICK v \in Writers : HoldsTheFileOf(v, u)
        BY <1>1, <1>8 DEF Decks!GeneratedDeckStays, HoldsTheFileOf
    <2>2. v = u \/ Decks!TakesTheFileOf(v, u)'
        BY <1>7, <1>8, <2>1 DEF HoldsTheFileOf
    <2>3. deckPath'[u] = deckPath[u] /\ deckFile'[deckPath[u]] = deckFile[deckPath[u]]
        BY <1>1, <1>6, <1>8 DEF DeckTypes, Decks!Generate, Decks!Name, Decks!Open, Decks!Write
    <2>4. CASE deckFile[deckPath[u]] = Decks!Deck(v)
        <3>1. Decks!Deck(v)' = Decks!Deck(v)
            BY <1>5 DEF Decks!Deck
        <3>2. HoldsTheFileOf(v, u)'
            BY <2>2, <2>3, <2>4, <3>1 DEF HoldsTheFileOf
        <3>3. QED
            BY <3>2
    <2>5. CASE deckPc[v] = "write" /\ deckFile[deckPath[u]] = [by |-> v, doc |-> <<>>]
        <3>1. v # w
            <4>1. SUFFICES ASSUME v = w PROVE FALSE
                OBVIOUS
            <4>2. Decks!Write(w)
                BY <2>5, <4>1 DEF Decks!Generate, Decks!Name, Decks!Open
            <4>3. Decks!TakesTheFileOf(w, u)
                BY <1>8, <2>1, <2>5, <4>1 DEF HoldsTheFileOf
            <4>4. deckPath[w] = deckPath[u]
                BY <1>1, <1>8, <4>3, TakesThePath
            <4>5. QED
                BY <1>8, <4>2, <4>4
        <3>2. deckPc'[v] = "write"
            BY <1>1, <2>5, <3>1 DEF DeckTypes, Decks!Generate, Decks!Name, Decks!Open, Decks!Write
        <3>3. HoldsTheFileOf(v, u)'
            BY <2>2, <2>3, <2>5, <3>2 DEF HoldsTheFileOf
        <3>4. QED
            BY <3>3
    <2>6. QED
        BY <2>1, <2>4, <2>5 DEF HoldsTheFileOf
<1>9. ASSUME NEW u \in Writers, deckPc[u] = "done", deckPath[w] = deckPath[u],
            Decks!Open(w) \/ Decks!Write(w)
      PROVE  HoldsTheFileOf(w, u)'
    <2>1. deckPc[w] \in {"open", "write"}
        BY <1>9 DEF Decks!Open, Decks!Write
    <2>2. Decks!NameAt(deckRequest[w].command, named[w])
              = Decks!NameAt(deckRequest[u].command, named[u])
        BY <1>1, <1>9, <2>1 DEF PathsAreNamed
    <2>3. /\ deckRequest[w].command \in {"json", "demo", "output"}
          /\ deckRequest[u].command \in {"json", "demo", "output"}
        BY <1>1 DEF DeckTypes
    <2>4. /\ deckRequest[w].command = deckRequest[u].command
          /\ deckRequest[u].command = "json" => named[w] = named[u]
          /\ deckRequest[u].command = "demo" =>
                 named[w] \div MinutesOfDay = named[u] \div MinutesOfDay
        BY <2>2, <2>3, NamesDiffer
    <2>5. w # u /\ deckPc[w] \in {"open", "write", "done"}
        BY <1>9, <2>1
    <2>6. Decks!TakesTheFileOf(w, u)
        BY <2>4, <2>5, TakesCases
    <2>7. Decks!TakesTheFileOf(w, u)' /\ deckPath'[u] = deckPath[u]
        BY <1>6, <1>7, <1>9, <2>6
    <2>8. CASE Decks!Open(w)
        <3>1. deckPc'[w] = "write" /\ deckFile'[deckPath[u]] = [by |-> w, doc |-> <<>>]
            BY <1>1, <1>9, <2>8 DEF DeckTypes, Decks!Open
        <3>2. QED
            BY <2>7, <3>1 DEF HoldsTheFileOf
    <2>9. CASE Decks!Write(w)
        <3>1. deckFile'[deckPath[u]] = Decks!Deck(w)
            BY <1>1, <1>9, <2>9 DEF DeckTypes, Decks!Write
        <3>2. Decks!Deck(w)' = Decks!Deck(w)
            BY <1>5 DEF Decks!Deck
        <3>3. QED
            BY <2>7, <3>1, <3>2 DEF HoldsTheFileOf
    <2>10. QED
        BY <1>9, <2>8, <2>9
<1>10. ASSUME NEW u \in Writers, deckPc[u] # "done", deckPc'[u] = "done"
       PROVE  HoldsTheFileOf(u, u)'
    <2>1. Decks!Write(w) /\ u = w
        BY <1>1, <1>10 DEF DeckTypes, Decks!Generate, Decks!Name, Decks!Open, Decks!Write
    <2>2. Decks!Deck(u)' = Decks!Deck(u)
        BY <1>5 DEF Decks!Deck
    <2>3. deckFile'[deckPath'[u]] = Decks!Deck(u)
        BY <1>1, <2>1 DEF DeckTypes, Decks!Write
    <2>4. QED
        BY <2>2, <2>3 DEF HoldsTheFileOf
<1>11. Decks!GeneratedDeckStays'
    <2>1. ASSUME NEW u \in Writers, deckPc'[u] = "done" PROVE \E v \in Writers : HoldsTheFileOf(v, u)'
        BY <1>8, <1>9, <1>10, <2>1
    <2>2. QED
        BY <2>1 DEF Decks!GeneratedDeckStays, HoldsTheFileOf
<1>12. QED
    BY <1>2, <1>3, <1>4, <1>11 DEF DeckInv

LEMMA DeckTickKeeps == ASSUME DeckInv, Decks!Tick PROVE DeckInv'
<1>1. deckRequest' = deckRequest /\ deckPc' = deckPc /\ named' = named /\ deckPath' = deckPath
      /\ deckFile' = deckFile /\ left' = left /\ read' = read /\ exit' = exit
    BY DEF Decks!Tick, Decks!writerVars, Decks!checkVars
<1>2. minute' \in 0 .. MaxMinute
    BY DecksAssumption DEF DeckInv, DeckTypes, Decks!Tick
<1>3. DeckTypes' /\ PathsAreNamed' /\ ReadInv'
    BY <1>1, <1>2 DEF DeckInv, DeckTypes, PathsAreNamed, ReadInv, ReadsAreJudged, AllPassed
<1>4. Decks!GeneratedDeckStays'
    BY <1>1 DEF DeckInv, Decks!GeneratedDeckStays, Decks!TakesTheFileOf, Decks!Deck
<1>5. QED
    BY <1>3, <1>4 DEF DeckInv

\* The validator writes nothing.
LEMMA CheckKeeps == ASSUME DeckInv, Decks!Check PROVE DeckInv'
<1>1. deckRequest' = deckRequest /\ deckPc' = deckPc /\ named' = named /\ deckPath' = deckPath
      /\ deckFile' = deckFile /\ minute' = minute
    BY DEF Decks!Check, Decks!StartCheck, Decks!ValidateFile, Decks!PrintSummary, Decks!writerVars
<1>2. DeckTypes' /\ PathsAreNamed'
    BY <1>1 DEF DeckInv, DeckTypes, PathsAreNamed
<1>3. Decks!GeneratedDeckStays'
    BY <1>1 DEF DeckInv, Decks!GeneratedDeckStays, Decks!TakesTheFileOf, Decks!Deck
<1>4. DeckTypes /\ ReadInv
    BY DEF DeckInv
<1>5. ASSUME Decks!StartCheck PROVE ReadInv'
    <2>1. exit = "idle" /\ exit' = "reading" /\ read' = read
        BY <1>5 DEF Decks!StartCheck
    <2>2. 1 \in DOMAIN Decks!PathSeq
        BY PathIsKept
    <2>3. left' \subseteq DOMAIN Decks!PathSeq
        BY <1>5, <2>2 DEF Decks!StartCheck
    <2>4. ReadsAreJudged'
        BY <1>4, <2>1 DEF ReadInv, ReadsAreJudged
    <2>5. QED
        BY <2>1, <2>3, <2>4 DEF ReadInv
<1>6. ASSUME Decks!ValidateFile PROVE ReadInv'
    <2>1. PICK k : k = Decks!Min(left)
        OBVIOUS
    <2>2. k \in DOMAIN Decks!PathSeq
        <3>1. left \in SUBSET Nat /\ left # {}
            BY <1>4, <1>6, PathIsKept DEF ReadInv, Decks!ValidateFile
        <3>2. \E x \in left : \A y \in left : x <= y
            BY <3>1, LeastOf
        <3>3. k \in left
            BY <2>1, <3>2 DEF Decks!Min
        <3>4. QED
            BY <1>4, <3>3 DEF ReadInv
    <2>3. PICK p : p = Decks!PathSeq[k]
        OBVIOUS
    <2>4. p \in Decks!Paths
        BY <2>2, <2>3, PathIsKept
    <2>5. /\ left # {} /\ left' = left \ {k} /\ exit' = exit
          /\ read' = [q \in DOMAIN read \cup {p} |->
                        IF q = p
                        THEN [content |-> deckFile[p],
                              passed |-> Decks!Passes(Decks!DocOf(deckFile[p]))]
                        ELSE read[q]]
        BY <1>6, <2>1, <2>3 DEF Decks!ValidateFile
    <2>6. exit = "reading" /\ exit' = "reading"
        BY <1>4, <2>5 DEF ReadInv
    <2>7. deckFile[p] \in Contents \cup {Absent}
        BY <1>4, <2>4 DEF DeckTypes
    <2>8. ASSUME NEW q \in DOMAIN read'
          PROVE  /\ read'[q].content \in Contents \cup {Absent}
                 /\ read'[q].passed <=> Decks!Passes(Decks!DocOf(read'[q].content))
        <3>1. CASE q = p
            BY <2>5, <2>7, <3>1
        <3>2. CASE q # p
            <4>1. q \in DOMAIN read /\ read'[q] = read[q]
                BY <2>5, <2>8, <3>2
            <4>2. QED
                BY <1>4, <4>1 DEF ReadInv, ReadsAreJudged
        <3>3. QED
            BY <3>1, <3>2
    <2>9. left' \subseteq DOMAIN Decks!PathSeq
        BY <1>4, <2>5 DEF ReadInv
    <2>10. ReadsAreJudged'
        BY <2>8 DEF ReadsAreJudged
    <2>11. QED
        BY <2>6, <2>9, <2>10 DEF ReadInv
<1>7. ASSUME Decks!PrintSummary PROVE ReadInv'
    <2>1. /\ left = {} /\ left' = left /\ read' = read
          /\ exit' = IF AllPassed THEN "success" ELSE "failure"
        BY <1>7 DEF Decks!PrintSummary, AllPassed
    <2>2. exit' \in {"success", "failure"} /\ (exit' = "success" <=> AllPassed)
        BY <2>1
    <2>3. ReadsAreJudged' /\ (AllPassed' <=> AllPassed)
        BY <1>4, <2>1 DEF ReadInv, ReadsAreJudged, AllPassed
    <2>4. left' \subseteq DOMAIN Decks!PathSeq /\ (exit' # "reading" => left' = {})
        BY <2>1
    <2>5. QED
        BY <2>2, <2>3, <2>4 DEF ReadInv
<1>8. ReadInv'
    BY <1>5, <1>6, <1>7 DEF Decks!Check
<1>9. QED
    BY <1>2, <1>3, <1>8 DEF DeckInv

LEMMA DeckStutters == ASSUME DeckInv, UNCHANGED deckVars PROVE DeckInv'
<1>1. DeckTypes' /\ PathsAreNamed' /\ ReadInv'
    BY DEF deckVars, DeckInv, DeckTypes, PathsAreNamed, ReadInv, ReadsAreJudged, AllPassed
<1>2. Decks!GeneratedDeckStays'
    BY DEF deckVars, DeckInv, Decks!GeneratedDeckStays, Decks!TakesTheFileOf, Decks!Deck
<1>3. QED
    BY <1>1, <1>2 DEF DeckInv

LEMMA DecksPass == ASSUME DeckInv PROVE Decks!GeneratedDecksPass
<1>1. ASSUME NEW p \in DOMAIN read, NEW w \in Writers, read[p].content = Decks!Deck(w)
      PROVE  read[p].passed <=> \A k \in DOMAIN deckRequest[w].slides : Clean(deckRequest[w].slides[k])
    <2>1. PICK slides : slides = deckRequest[w].slides
        OBVIOUS
    <2>2. slides \in Seq(Decks!Slides)
        BY <2>1 DEF DeckInv, DeckTypes
    <2>3. PICK doc : doc = Decks!GenerateDeck(slides)
        OBVIOUS
    <2>4. DeckShape(doc) /\ (Flagged(doc) <=> \E k \in DOMAIN slides : ~Clean(slides[k]))
        BY <2>2, <2>3, DeckOfSlides
    <2>5. Decks!Passes(doc) <=> ~Flagged(doc)
        BY <2>4, DeckIsJudged
    <2>6. Decks!DocOf(read[p].content) = doc
        <3>1. read[p].content # Absent
            BY <1>1, DeckType DEF DeckInv
        <3>2. read[p].content.doc = doc
            BY <1>1, <2>1, <2>3 DEF Decks!Deck
        <3>3. QED
            BY <3>1, <3>2 DEF Decks!DocOf
    <2>7. read[p].passed <=> Decks!Passes(doc)
        BY <2>6 DEF DeckInv, ReadInv, ReadsAreJudged
    <2>8. QED
        BY <2>1, <2>4, <2>5, <2>7
<1>2. QED
    BY <1>1 DEF Decks!GeneratedDecksPass, Clean

LEMMA ExitTells == ASSUME DeckInv PROVE Decks!ExitTellsTheStyle
<1>1. SUFFICES ASSUME exit \in {"success", "failure"},
                      \A p \in DOMAIN read : Decks!TagsAreTags(Decks!DocOf(read[p].content))
               PROVE  exit = "success" <=>
                        \A p \in DOMAIN read :
                            LET doc == Decks!DocOf(read[p].content)
                            IN  /\ \E i \in DOMAIN doc : doc[i] = "tokens.css"
                                /\ Decks!StylesThePage(doc) \subseteq Decks!Overlooked(doc)
                                /\ Decks!FalseAlarms(doc) = {}
    BY DEF Decks!ExitTellsTheStyle
<1>2. ASSUME NEW p \in DOMAIN read
      PROVE  read[p].passed <=>
                LET doc == Decks!DocOf(read[p].content)
                IN  /\ \E i \in DOMAIN doc : doc[i] = "tokens.css"
                    /\ Decks!StylesThePage(doc) \subseteq Decks!Overlooked(doc)
                    /\ Decks!FalseAlarms(doc) = {}
    <2>0. PICK doc : doc = Decks!DocOf(read[p].content)
        OBVIOUS
    <2>1. read[p].content \in Contents \cup {Absent}
        BY DEF DeckInv, ReadInv, ReadsAreJudged
    <2>2. doc \in Docs
        BY <2>0, <2>1 DEF Decks!DocOf, Contents, Docs
    <2>3. Decks!Hardcoded(doc) =
              (Decks!StylesThePage(doc) \ Decks!Overlooked(doc)) \cup Decks!FalseAlarms(doc)
        BY <1>1, <2>0, <2>2, FoundIsStyle
    <2>4. read[p].passed <=> Decks!Passes(doc)
        BY <2>0 DEF DeckInv, ReadInv, ReadsAreJudged
    <2>5. Decks!Hardcoded(doc) = {} <=>
              Decks!StylesThePage(doc) \subseteq Decks!Overlooked(doc) /\ Decks!FalseAlarms(doc) = {}
        BY <2>3
    <2>6. QED
        BY <2>0, <2>4, <2>5 DEF Decks!Passes, Decks!MissingImport
<1>3. exit = "success" <=> \A p \in DOMAIN read : read[p].passed
    BY <1>1 DEF DeckInv, ReadInv, AllPassed
<1>4. QED
    BY <1>2, <1>3

LEMMA DeckInvInit == ASSUME ToolsInit, tool \in {"decks", "pages"} PROVE DeckInv
<1>1. Decks!Init
    BY DEF ToolsInit
<1>2. QED
    BY <1>1, DeckStarts

LEMMA DeckStep ==
    ASSUME DeckInv, [ToolsNext]_allVars, tool \in {"decks", "pages"} PROVE DeckInv'
<1>1. CASE Decks!Next
    BY <1>1, WriterKeeps, DeckTickKeeps, CheckKeeps DEF Decks!Next
<1>2. CASE Decks!Check
    BY <1>2, CheckKeeps
<1>3. CASE UNCHANGED allVars
    BY <1>3, DeckStutters DEF allVars
<1>4. QED
    BY <1>1, <1>2, <1>3 DEF ToolsNext

\* For any writers, any length of a day, decks of any slides and pages of any
\* marks: what is in the file of a deck that was generated is the deck, or that
\* of a run with the same name, whole unless that run is still writing; the
\* validator passes just the decks without the diamond and without texts that
\* look like colours at a style; and, wherever no block has the tag of another
\* in its text, it succeeds just if every page has the import, all that styles
\* it as a browser reads it is a token or overlooked, and nothing raises a false
\* alarm, although it judges a mark by the last tag before it alone.
THEOREM DecksJudged == ToolsSpec => []DecksAreJudgedRightly
<1>1. ToolsInit => (tool \in {"decks", "pages"} => DeckInv)
    BY DeckInvInit
<1>2. (tool \in {"decks", "pages"} => DeckInv) /\ [ToolsNext]_allVars
        => (tool \in {"decks", "pages"} => DeckInv)'
    <2>1. SUFFICES ASSUME tool \in {"decks", "pages"} => DeckInv, [ToolsNext]_allVars,
                          tool' \in {"decks", "pages"}
                   PROVE  DeckInv'
        OBVIOUS
    <2>2. tool' = tool
        BY <2>1 DEF ToolsNext, Others, allVars
    <2>3. QED
        BY <2>1, <2>2, DeckStep
<1>3. (tool \in {"decks", "pages"} => DeckInv) => DecksAreJudgedRightly
    BY DecksPass, ExitTells DEF DecksAreJudgedRightly, DeckInv
<1>4. QED
    BY <1>1, <1>2, <1>3, PTL DEF ToolsSpec
=============================================================================
