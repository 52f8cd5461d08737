------------------------------ MODULE MCLabApi ------------------------------
EXTENDS LabApi, TLC

CONSTANTS q1, q2, q3, c1, c2, o1

\* A second client competes for the one bucket of the table.
MCClientOf == q1 :> c1 @@ q2 :> c1 @@ q3 :> c2
MCOriginOf == [q \in Requests |-> o1]
=============================================================================
