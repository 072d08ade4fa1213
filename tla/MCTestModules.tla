--------------------------- MODULE MCTestModules ---------------------------
EXTENDS TestModules, TLC

\* Processes are interchangeable; the properties name none of them.
ProcSymmetry == Permutations(Procs)
=============================================================================
