------------------------------ MODULE MCReplay ------------------------------
(* Small instances of Replay for TLC.                                      *)
EXTENDS Replay

CONSTANTS alice, bob, carol

ThreeAddrs == {alice, bob, carol}

\* Carol delegates but has no active balance.
Stakes == [a \in ThreeAddrs |-> CASE a = alice -> 1000 [] a = bob -> 3000 [] a = carol -> 0]

\* Of a reward of 10 Bob's product exceeds the words of the configurations, of one of
\* 3 Alice's share next to him is zero, and some batches have no reward at all.
Rewards == [b \in 0..MaxHead |-> CASE b % 3 = 0 -> 10 [] b % 3 = 1 -> 3 [] OTHER -> 0]
=============================================================================
