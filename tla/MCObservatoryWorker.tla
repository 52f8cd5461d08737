------------------------ MODULE MCObservatoryWorker ------------------------
EXTENDS ObservatoryWorker

CONSTANTS r1, r2,
          allow,    \* 200 and a document that allows the target
          deny,     \* 200 and a document that denies it
          broken,   \* 200 and a document that does not parse
          missing   \* 404

MCDecision == [b \in Bodies |-> b # deny]
=============================================================================
