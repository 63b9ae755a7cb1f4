----------------------------- MODULE TailwindConfig -----------------------------
(***************************************************************************)
(* ui-styling/scripts/tailwind_config_gen.py: a TailwindConfigGenerator    *)
(* whose add_... methods are called in any order, its write_config, and    *)
(* the command line that does it all once.                                 *)
(***************************************************************************)
EXTENDS Naturals, Sequences, SequencesExt

CONSTANTS
    Sections,       \* colors, fontFamily, spacing, screens
    Keys, Values,   \* names and values in a section
    Plugins,        \* plugin names that are valid npm package names
    BadPlugin,      \* one that is not
    MaxCalls,       \* bound: calls of the generator
    NoColon         \* an argument that is not NAME:VALUE

VARIABLES
    extend,         \* config["theme"]["extend"]: a section once it is used
    plugins,        \* config["plugins"]
    given,          \* every (section, name), plugins among them, given so far
    output,         \* the configuration file: absent, truncated or whole
    told,           \* what the last write_config returned or raised
    calls

vars == <<extend, plugins, given, output, told, calls>>

Config == [is |-> "whole", extend |-> extend, plugins |-> plugins]
Truncated == [is |-> "truncated", extend |-> <<>>, plugins |-> <<>>]

Init ==
    /\ extend = <<>>
    /\ plugins = <<>>
    /\ given = {}
    /\ output \in {[Truncated EXCEPT !.is = "absent"], [Truncated EXCEPT !.is = "whole"]}
    /\ told = "none"
    /\ calls = 0

Calls == calls < MaxCalls /\ calls' = calls + 1

\* dict.update
Update(old, new) ==
    [k \in DOMAIN old \cup DOMAIN new |-> IF k \in DOMAIN new THEN new[k] ELSE old[k]]

Entry(key, value) == [k \in {key} |-> value]

\* What is noted of plugins that were asked for.
OfPlugins(list) == {<<"plugins", p>> : p \in ToSet(list)}

Section(s) == IF s \in DOMAIN extend THEN extend[s] ELSE <<>>

\* Mutant: a second call replaces what the first one added.
MergedAlone(s, new) == new

\* add_colors, add_fonts, add_spacing, add_breakpoints; a palette of shades is
\* one value of a color.
Merged(s, new) == Update(Section(s), new)

Add ==
    /\ Calls
    /\ \E s \in Sections, k \in Keys, v \in Values :
          /\ extend' = Update(extend, Entry(s, Merged(s, Entry(k, v))))
          /\ given' = given \cup {<<s, k>>}
    /\ UNCHANGED <<plugins, output, told>>

\* Mutant: a plugin is appended each time it is asked for.
WithPluginAgain(list, p) == Append(list, p)

WithPlugin(list, p) == IF p \in ToSet(list) THEN list ELSE Append(list, p)

\* One plugin after the other; the same twice stands for a list of one.
WithBoth(asked) == WithPlugin(WithPlugin(plugins, asked[1]), asked[2])

AddPlugins ==
    /\ Calls
    /\ \E asked \in {<<p, q>> : p, q \in Plugins \cup {BadPlugin}} :
          /\ plugins' = WithBoth(asked)
          /\ given' = given \cup OfPlugins(asked)
    /\ UNCHANGED <<extend, output, told>>

\* write_config: an OSError is returned as a failure, the ValueError of a
\* plugin name is not caught.
WriteConfig ==
    /\ Calls
    /\ IF BadPlugin \in ToSet(plugins)
       THEN output' = output /\ told' = "ValueError"
       ELSE \/ output' = Config /\ told' = "written"
            \/ output' \in {output, Truncated} /\ told' = "failed"
    /\ UNCHANGED <<extend, plugins, given>>

-----------------------------------------------------------------------------
(***************************************************************************)
(* main: the options in their order, then the file.                        *)
(***************************************************************************)
Specs == [name : Keys, value : Values]
Malformed == [name |-> NoColon, value |-> NoColon]

\* The NAME:VALUE arguments of one option; a later one of the same name wins.
Parsed(first, second) == 
    Update(Entry(first.name, first.value), Entry(second.name, second.value))

\* recommend_plugins: one plugin, and for nextjs a second.
Recommended == {<<p, q>> : p, q \in Plugins}

\* An argument without a colon ends the run before anything is written.
Main ==
    /\ calls = 0 /\ calls' = MaxCalls
    /\ \E s \in Sections, first \in Specs, second \in Specs \cup {Malformed}, asked \in Recommended \cup {<<>>} :
          IF second = Malformed
          THEN told' = "exit 1" /\ UNCHANGED <<extend, plugins, given, output>>
          ELSE /\ extend' = Update(extend, Entry(s, Merged(s, Parsed(first, second))))
               /\ plugins' = IF asked = <<>> THEN plugins ELSE WithBoth(asked)
               /\ given' = {<<s, first.name>>, <<s, second.name>>} \cup OfPlugins(asked)
               /\ \/ output' = Config' /\ told' = "written"
                  \/ output' \in {output, Truncated} /\ told' = "failed"
                  \/ output' = output /\ told' = "validated"

Next == Add \/ AddPlugins \/ WriteConfig \/ Main

-----------------------------------------------------------------------------
\* What is written has every name and plugin that was given, in whatever order
\* the methods were called, and every plugin once.
WrittenIsComplete ==
    told = "written" /\ output = Config =>
        /\ \A s \in Sections, k \in Keys :
              <<s, k>> \in given => s \in DOMAIN output.extend /\ k \in DOMAIN output.extend[s]
        /\ \A p \in Plugins : <<"plugins", p>> \in given =>
              \E i \in DOMAIN output.plugins :
                 output.plugins[i] = p /\ \A j \in DOMAIN output.plugins : output.plugins[j] = p => i = j
=============================================================================
