-------------------------- MODULE MCUnionFind --------------------------
EXTENDS UnionFind
==========================================================================
