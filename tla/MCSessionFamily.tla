---------------------------- MODULE MCSessionFamily ----------------------------
EXTENDS SessionFamily

\* Rows are interchangeable, so they are inserted in the order of their numbers.
\* An ACTION_CONSTRAINT rather than a SYMMETRY set: it is sound for the liveness
\* property as well, an insertion being possible in this order whenever one is.
InOrder == \A r \in issued' \ issued : \A q \in Row : q < r => q \in issued
=============================================================================
