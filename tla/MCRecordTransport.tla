-------------------------- MODULE MCRecordTransport -------------------------
\* Two slots are full at the third record; two threads, so that one presents
\* again what the other is taking.
EXTENDS RecordTransport, TLC

Symmetry == Permutations(Threads) \union Permutations(Nodes)
=============================================================================
