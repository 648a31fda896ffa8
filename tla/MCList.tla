----------------------------- MODULE MCList -----------------------------
EXTENDS List, TLC

Symmetric == Permutations(Handles) \cup Permutations(Elements)
==========================================================================
