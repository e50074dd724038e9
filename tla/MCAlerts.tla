------------------------------ MODULE MCAlerts ------------------------------
\* Alerts for TLC: a daemon of the next release beside an API of this one, and
\* active sets without the pool, with a tie, and with the pool at a share below a slot.
EXTENDS Alerts, TLC

MCEmbedded == [daemon |-> {1, 2}, api |-> {1}]

MCActiveSets ==
  {2 :> 3 @@ 3 :> 4,
   1 :> 1 @@ 2 :> 1 @@ 3 :> 1,
   1 :> 1 @@ 2 :> 6 @@ 3 :> 6}
=============================================================================
