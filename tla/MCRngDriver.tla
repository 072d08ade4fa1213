----------------------------- MODULE MCRngDriver -----------------------------
EXTENDS RngDriver, TLC

\* Threads, files and contexts are interchangeable; the properties name none.
Symmetry == Permutations(Threads) \union Permutations(Files) \union Permutations(Ctxs)
=============================================================================
