--------------------------- MODULE MCEgressWorker ---------------------------
EXTENDS EgressWorker

CONSTANTS w1, w2, o1, o2, g1

MCOriginOf == [o \in Orders |-> g1]
MCNotBefore == [o \in Orders |-> IF o = o2 THEN 1 ELSE 0]
MCExpiresAt == [o \in Orders |-> IF o = o1 THEN 2 ELSE 9]
MCThreshold == [o \in Orders |-> IF o = o1 THEN 1 ELSE 2]
MCCooldown == [o \in Orders |-> 1]
MCControls == {[halted |-> FALSE, revoked |-> {}],
               [halted |-> FALSE, revoked |-> {g1}]}
=============================================================================
