------------------------------ MODULE MCEvents -------------------------------
EXTENDS Events

CONSTANTS o, p

\* The numbers of an identifier differ, so that none can pass for another.
MCIds == {[owner |-> o, dseq |-> 1, gseq |-> 2, oseq |-> 3, provider |-> p],
          [owner |-> o, dseq |-> 2, gseq |-> 3, oseq |-> 1, provider |-> p]}
=============================================================================
