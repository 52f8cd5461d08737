------------------------------ MODULE OneShot ------------------------------
(***************************************************************************)
(* What every sealed-order component promises: an order authorises at most  *)
(* one retrieval, its evidence is published only after that retrieval, and  *)
(* publication is final.  An order whose run dies or fails is burned: it is *)
(* neither retried nor published later.                                     *)
(***************************************************************************)
CONSTANT Orders          \* sealed orders, identified by their digest

VARIABLES phase,         \* phase[o]: where order o is in its only life
          retrievals     \* retrievals[o]: requests let out for order o

Phases == {"sealed", "claimed", "retrieving", "published", "burned"}

OneShotInit == /\ phase = [o \in Orders |-> "sealed"]
               /\ retrievals = [o \in Orders |-> 0]

Move(o, from, to) == /\ phase[o] \in from
                     /\ phase' = [phase EXCEPT ![o] = to]

Claim(o) == Move(o, {"sealed"}, "claimed") /\ UNCHANGED retrievals

Retrieve(o) == /\ Move(o, {"claimed"}, "retrieving")
               /\ retrievals' = [retrievals EXCEPT ![o] = 1]

Publish(o) == Move(o, {"retrieving"}, "published") /\ UNCHANGED retrievals

Abandon(o) == Move(o, {"claimed", "retrieving"}, "burned") /\ UNCHANGED retrievals

OneShotNext == \E o \in Orders : Claim(o) \/ Retrieve(o) \/ Publish(o) \/ Abandon(o)

OneShotSpec == OneShotInit /\ [][OneShotNext]_<<phase, retrievals>>
=============================================================================
