----------------------------- MODULE MCSccIoctl -----------------------------
EXTENDS SccIoctl, TLC

\* Processes, slots and owners are interchangeable; the properties name none.
Symmetry == Permutations(Procs) \union Permutations(Slots) \union Permutations(Owners)
=============================================================================
