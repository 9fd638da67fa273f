--------------------------- MODULE MCDecodedCause ---------------------------
EXTENDS DecodedCause, TLC

\* Room for one request from end to end and part of a second.
Room == [dispatch |-> 2, action |-> 8, birth |-> 4, transport |-> 5, renderer |-> 2, lineage |-> 2]
=============================================================================
