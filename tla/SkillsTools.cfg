\* Batches of up to three in three seconds; two agents and two components;
\* four calls of the Tailwind generator; decks of up to 14 slides;
\* two runs of the generator in two minutes of a day; pages of four marks.
SPECIFICATION ToolsSpec
CONSTANTS
    MaxCount = 3
    BatchStyles = 2
    MaxClock = 3
    Absent = Absent
    Agents = {a1, a2}
    Components = {c1, c2}
    Sections = {"colors", "spacing"}
    Keys = {"primary", "card"}
    Values = {v1, v2}
    Plugins = {"forms", "typography"}
    BadPlugin = "bad plugin"
    MaxCalls = 4
    NoColon = "no colon"
    Lengths <- MCLengths
    Writers = {w1, w2}
    MaxMinute = 1
    MinutesOfDay = 2
    MaxSlides = 1
    ByHand <- MCByHand
INVARIANTS BatchIsAsReported StylingIsAsTold SlidesAreComposed DecksAreJudgedRightly
SYMMETRY Symmetry
CHECK_DEADLOCK FALSE
