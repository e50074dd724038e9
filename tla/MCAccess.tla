------------------------------ MODULE MCAccess ------------------------------
\* Access for TLC.
EXTENDS Access, TLC

CONSTANTS u1, u2

\* A second operator, and another validator.
MCSettings == {[validator |-> u1, operators |-> {u2}], [validator |-> u2, operators |-> {}]}

MCSymmetry == Permutations(Nonces) \cup Permutations(Secrets) \cup Permutations(Handlers)
=============================================================================
