----------------------------- MODULE MCPvClock -----------------------------
EXTENDS PvClock, TLC

Symmetry == Permutations(Cpus)
=============================================================================
