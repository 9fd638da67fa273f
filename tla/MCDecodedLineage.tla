-------------------------- MODULE MCDecodedLineage --------------------------
EXTENDS DecodedLineage, TLC

\* The decoder's way to pick events agrees with the library's, on short journals.
ASSUME PicksAssumption ==
    \A log \in SeqOf(1 .. 4, 5) :
        InOrder(log, {i \in DOMAIN log : log[i] > 2}) = SelectSeq(log, LAMBDA e : e > 2)
=============================================================================
