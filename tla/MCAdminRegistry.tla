---------------------------- MODULE MCAdminRegistry ----------------------------
\* AdminRegistry for TLC.
EXTENDS AdminRegistry, TLC

Symmetry ==
    Permutations(Calls) \cup Permutations(Kinds) \cup Permutations(Ids) \cup Permutations(Names)
=============================================================================
