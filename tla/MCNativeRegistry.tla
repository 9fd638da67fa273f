-------------------------- MODULE MCNativeRegistry --------------------------
\* Two threads and two addresses: what is freed by one invocation is used
\* again by the next, and a ring of two is longer than an audit walks.
EXTENDS NativeRegistry, TLC

Symmetry == Permutations(Threads) \union Permutations(Nodes)
=============================================================================
