----------------------------- MODULE MCPayouts -----------------------------
(* Small instances of Payouts for TLC.                                     *)
EXTENDS Payouts

CONSTANTS alice, bob

OneAddr == {alice}
TwoAddrs == {alice, bob}

\* Two payslips of one staker, in two epochs, of different worth.
Slips2 == {1, 2}
OwnerSame2 == [s \in Slips2 |-> alice]
OwnerSplit2 == [s \in Slips2 |-> IF s = 1 THEN alice ELSE bob]
Amount2 == [s \in Slips2 |-> s]
Epoch2 == [s \in Slips2 |-> s]

\* One payslip.
Slips1 == {1}
Owner1 == [s \in Slips1 |-> alice]
Amount1 == [s \in Slips1 |-> 1]
=============================================================================
