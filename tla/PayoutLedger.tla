---------------------------- MODULE PayoutLedger ----------------------------
(***************************************************************************)
(* What the payout pipeline promises, with no database, no daemon and no   *)
(* transaction in sight: a payslip is owed, is out for payment, and is     *)
(* paid; money for it lands on the chain only while it is out for payment, *)
(* and only once; it is written off as unpaid only if nothing has landed.  *)
(***************************************************************************)
CONSTANT Slips

VARIABLES
  state,   \* [Slips -> {"none", "owed", "out", "paid"}]
  landed   \* the payslips whose payment is final on the chain

vars == <<state, landed>>

Init ==
  /\ state = [s \in Slips |-> "none"]
  /\ landed = {}

Move(S, from, to) ==
  /\ \A s \in S : state[s] = from
  /\ state' = [s \in Slips |-> IF s \in S THEN to ELSE state[s]]
  /\ UNCHANGED landed

Accrue(S) == Move(S, "none", "owed")

Submit(S) == S \cap landed = {} /\ Move(S, "owed", "out")

Land(S) ==
  /\ \A s \in S : state[s] = "out"
  /\ S \cap landed = {}
  /\ landed' = landed \cup S
  /\ UNCHANGED state

Settle(S) == S \subseteq landed /\ Move(S, "out", "paid")

GiveUp(S) == S \cap landed = {} /\ Move(S, "out", "owed")

Next == \E S \in SUBSET Slips :
          Accrue(S) \/ Submit(S) \/ Land(S) \/ Settle(S) \/ GiveUp(S)

Spec == Init /\ [][Next]_vars
=============================================================================
