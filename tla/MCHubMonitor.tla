----------------------------- MODULE MCHubMonitor -----------------------------
EXTENDS HubMonitor, TLC

Symmetry == Permutations(Ticks) \cup Permutations(Logs)
=============================================================================
