------------------------ MODULE MCOpportunityAcquire ------------------------
EXTENDS OpportunityAcquire

CONSTANTS r1, r2, d1, d2

\* An object smaller than a range, three ranges with a short last one, the same
\* with other bytes, and one range more than the budget.
MCObjects == <<1, 5, 5, 7>>

\* The objects whose size does not change.
MCSameSize == <<5, 5>>
=============================================================================
