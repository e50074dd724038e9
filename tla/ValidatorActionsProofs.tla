----------------------- MODULE ValidatorActionsProofs -----------------------
(***************************************************************************)
(* Proofs about ValidatorActions, for any number of requests, sends, jails *)
(* and faults.                                                             *)
(***************************************************************************)
EXTENDS ValidatorActions, TLAPS

-----------------------------------------------------------------------------
(* The inductive invariant.                                                *)

\* What the daemon relies on between two of its statements: the row it has
\* claimed is still its own, nothing was sent for it before the call, and the rows
\* whose transactions it looks up have one.
ClaimHeld ==
  /\ pc \in {"claimed", "answered"} => cur # 0 /\ actions[cur].state = "processing"
  /\ pc = "claimed" => \A t \in DOMAIN chain : chain[t].row # cur
  /\ \A i \in toCheck : actions[i].tx # NoTx

\* A transaction is signed for no row, or for one of the table.
RowsKnown == \A t \in DOMAIN chain : chain[t].row \in {0} \cup DOMAIN actions

\* The rows of the daemon's own reactivations are never up for a claim.
ReactivationRow(r) ==
  r.action = "reactivate" =>
    /\ r.state \in {"null", "confirmed", "failed"}
    /\ r.outcome \in {"pending", "failed"}

ReactivationRows == \A i \in DOMAIN actions : ReactivationRow(actions[i])

\* From the check of MayReactivate to the row that records the reactivation, no
\* other is outstanding, and the operator's requests are only requests.
ReactivationClear ==
  pc \in {"react_send", "react_record"} =>
    /\ ~HasPending("reactivate")
    /\ \A a \in Requestable : \A i \in Outstanding(a) : IsRequested(actions[i])

IInv ==
  /\ TypeOK
  /\ ClaimHeld
  /\ RowsKnown /\ RequestSentOnce
  /\ ConfirmedIsFinal
  /\ ReactivationRows
  /\ ReactivationClear
  /\ OneOutstanding

-----------------------------------------------------------------------------
(* Facts about the operators.                                              *)

\* A row read back has its type.
LEMMA RowType ==
  ASSUME TypeOK, NEW i \in DOMAIN actions
  PROVE  /\ actions[i].action \in Actions /\ actions[i].state \in States
         /\ actions[i].outcome \in Outcomes /\ actions[i].tx \in {NoTx} \cup DOMAIN chain
<1>1. actions[i] \in Row
  BY DEF TypeOK
<1> QED
  BY <1>1 DEF TypeOK, Row

\* Updating a row changes its state, outcome and transaction, and no other row.
LEMMA UpdateFacts ==
  ASSUME TypeOK, NEW i \in DOMAIN actions, NEW st \in States, NEW o \in Outcomes,
         NEW t \in {NoTx} \cup DOMAIN chain, NEW q, q = Update(i, st, o, t)
  PROVE  /\ q \in Seq(Row)
         /\ DOMAIN q = DOMAIN actions
         /\ \A j \in DOMAIN actions : j # i => q[j] = actions[j]
         /\ q[i].action = actions[i].action /\ q[i].state = st
         /\ q[i].outcome = o /\ q[i].tx = t
<1> DEFINE v == [action |-> actions[i].action, state |-> st, outcome |-> o, tx |-> t]
<1>1. v \in Row
  <2>1. t \in Nat \cup {NoTx}
    BY DEF TypeOK
  <2> QED
    BY <2>1, RowType DEF Row
<1>2. v.action = actions[i].action /\ v.state = st /\ v.outcome = o /\ v.tx = t
  OBVIOUS
<1>3. q = [actions EXCEPT ![i] = v]
  BY DEF Update
<1> HIDE DEF v
<1> QED
  BY <1>1, <1>2, <1>3 DEF TypeOK

\* What the typing of a step that updates a row needs.
LEMMA UpdateType ==
  ASSUME TypeOK, NEW i \in DOMAIN actions, NEW st \in States, NEW o \in Outcomes,
         NEW t \in {NoTx} \cup DOMAIN chain, NEW q, q = Update(i, st, o, t)
  PROVE  /\ q \in Seq(Row)
         /\ DOMAIN q = DOMAIN actions
         /\ \A j \in DOMAIN q : q[j].tx \in {NoTx} \cup DOMAIN chain
<1>1. /\ q \in Seq(Row)
      /\ DOMAIN q = DOMAIN actions
      /\ \A j \in DOMAIN actions : j # i => q[j] = actions[j]
      /\ q[i].tx = t
  BY UpdateFacts
<1> QED
  BY <1>1, RowType

\* A new row comes last, under the next id.
LEMMA AppendFacts ==
  ASSUME NEW R, NEW q \in Seq(R), NEW v \in R, NEW p, p = Append(q, v)
  PROVE  /\ p \in Seq(R)
         /\ Len(p) = Len(q) + 1
         /\ Len(q) + 1 \notin DOMAIN q
         /\ DOMAIN p = DOMAIN q \cup {Len(q) + 1}
         /\ \A j \in DOMAIN q : p[j] = q[j]
         /\ p[Len(q) + 1] = v
OBVIOUS

\* The node's transactions keep their type when there is a new one.
LEMMA DeliverType ==
  ASSUME TypeOK, NEW a \in Actions, NEW i \in Nat, chain' = Deliver(a, i)
  PROVE  chain' \in Seq(ChainTx) /\ DOMAIN chain' = DOMAIN chain \cup {Len(chain')}
<1> DEFINE v == [action |-> a, row |-> i, status |-> "sent"]
<1>1. v \in ChainTx
  BY DEF ChainTx
<1>2. chain \in Seq(ChainTx) /\ chain' = Append(chain, v)
  BY DEF Deliver, TypeOK
<1> HIDE DEF v
<1> QED
  BY <1>1, <1>2

\* A transaction keeps its action and its request whatever becomes of it.
LEMMA SetStatusFacts ==
  ASSUME TypeOK, NEW t \in DOMAIN chain,
         NEW st \in {"sent", "included_ok", "included_bad", "ok", "bad"}, SetStatus(t, st)
  PROVE  /\ chain' \in Seq(ChainTx)
         /\ DOMAIN chain' = DOMAIN chain
         /\ Len(chain') = Len(chain)
         /\ \A s \in DOMAIN chain : chain'[s].action = chain[s].action /\ chain'[s].row = chain[s].row
         /\ \A s \in DOMAIN chain : s # t => chain'[s] = chain[s]
<1> DEFINE v == [action |-> chain[t].action, row |-> chain[t].row, status |-> st]
<1>1. v \in ChainTx /\ v.action = chain[t].action /\ v.row = chain[t].row
  <2>1. chain[t] \in ChainTx
    BY DEF TypeOK
  <2> QED
    BY <2>1 DEF ChainTx
<1>2. chain' = [chain EXCEPT ![t] = v]
  BY DEF SetStatus
<1> HIDE DEF v
<1> QED
  BY <1>1, <1>2 DEF TypeOK

-----------------------------------------------------------------------------
(* The steps, by what they do to the table and the chain.                  *)

\* The daemon moves on, or the jail does; table and chain stay as they are.
Quiet ==
  \/ ProcessRequestedActions
  \/ \E i \in todo : SkipRequest(i)
  \/ SignOrSendFails \/ RequestsFail
  \/ CheckSubmitted \/ EndCheck
  \/ \E i \in toCheck : LeaveSubmitted(i)
  \/ RunAutoReactivate \/ NoReactivation \/ SignReactivateFails \/ SendReactivateFails
  \/ InsertReactivationFails
  \/ Crash \/ Restart \/ Jail \/ CoolDown
  \/ UNCHANGED vars

\* The chain works on a transaction it has.
ChainStep == \E t \in DOMAIN chain : Include(t) \/ Revert(t) \/ MakeFinal(t)

\* Every step is quiet, one of the chain's, or one of those that write to the
\* table or send.
LEMMA NextCases ==
  ASSUME [Next]_vars
  PROVE  \/ Quiet
         \/ ChainStep
         \/ \E a \in Requestable : QueueValidatorAction(a)
         \/ \E a \in Requestable : RunValidatorCLI(a)
         \/ \E i \in DOMAIN actions : CancelAction(i)
         \/ \E i \in todo : MarkProcessing(i)
         \/ ReleaseProcessing
         \/ SignAndSend
         \/ RecordAnswer
         \/ \E i \in toCheck : CompleteSubmitted(i)
         \/ SendReactivate
         \/ InsertReactivation
BY DEF Next, Quiet, ChainStep, Operator, Requests, Reactivation, Faults, Chain

\* Steps that touch neither the table nor the chain.
LEMMA QuietFacts ==
  ASSUME Quiet
  PROVE  UNCHANGED <<actions, chain>>
BY DEF Quiet, ProcessRequestedActions, SkipRequest, SignOrSendFails, RequestsFail,
       CheckSubmitted, EndCheck, LeaveSubmitted, RunAutoReactivate, NoReactivation,
       SignReactivateFails, SendReactivateFails, InsertReactivationFails, Crash, Restart,
       Jail, CoolDown, vars

\* The chain moves one transaction that is not final yet, and nothing else.
LEMMA ChainStepFacts ==
  ASSUME TypeOK, ChainStep
  PROVE  /\ UNCHANGED <<actions, pc, todo, toCheck, cur, answer, jails, faults>>
         /\ chain' \in Seq(ChainTx)
         /\ DOMAIN chain' = DOMAIN chain
         /\ Len(chain') = Len(chain)
         /\ \A s \in DOMAIN chain : chain'[s].action = chain[s].action /\ chain'[s].row = chain[s].row
         /\ \A s \in DOMAIN chain : chain[s].status = "ok" => chain'[s] = chain[s]
         /\ jail' \in {"free", "cooling", "ready"}
<1>1. PICK t \in DOMAIN chain : Include(t) \/ Revert(t) \/ MakeFinal(t)
  BY DEF ChainStep
<1>2. PICK st \in {"sent", "included_ok", "included_bad", "ok", "bad"} : SetStatus(t, st)
  BY <1>1 DEF Include, Revert, MakeFinal
<1>3. chain[t].status # "ok"
  BY <1>1 DEF Include, Revert, MakeFinal
<1>4. UNCHANGED <<actions, pc, todo, toCheck, cur, answer, jails, faults>>
  BY <1>1 DEF Include, Revert, MakeFinal, local
<1>5. jail' \in {"free", "cooling", "ready"}
  BY <1>1 DEF Include, Revert, MakeFinal, TypeOK
<1> QED
  BY <1>2, <1>3, <1>4, <1>5, SetStatusFacts

-----------------------------------------------------------------------------
(* The typing of every step.                                               *)

\* Every step keeps the types; ClaimHeld gives the row that an answer is recorded in.
LEMMA TypeNext ==
  ASSUME TypeOK, ClaimHeld, [Next]_vars
  PROVE  TypeOK'
<1>1. CASE Quiet
  <2>1. UNCHANGED <<actions, chain>>
    BY <1>1, QuietFacts
  <2>2. jail' \in {"free", "cooling", "ready"} /\ pc' \in Phases
        /\ jails' \in 0..MaxJails /\ faults' \in 0..MaxFaults
    BY <1>1, ValidatorActionsAssumption
    DEF TypeOK, Quiet, ProcessRequestedActions, SkipRequest, SignOrSendFails, RequestsFail,
        CheckSubmitted, EndCheck, LeaveSubmitted, RunAutoReactivate, NoReactivation,
        SignReactivateFails, SendReactivateFails, InsertReactivationFails, Crash, Restart,
        Jail, CoolDown, vars, Phases
  <2>3. todo' \subseteq DOMAIN actions /\ toCheck' \subseteq DOMAIN actions
        /\ cur' \in {0} \cup DOMAIN actions /\ answer' \in {NoTx} \cup DOMAIN chain
    BY <1>1
    DEF TypeOK, Quiet, ProcessRequestedActions, SkipRequest, SignOrSendFails, RequestsFail,
        CheckSubmitted, EndCheck, LeaveSubmitted, RunAutoReactivate, NoReactivation,
        SignReactivateFails, SendReactivateFails, InsertReactivationFails, Crash, Restart,
        Jail, CoolDown, vars, local, GetRequestedValidatorActions, ListSubmitted
  <2> QED
    BY <2>1, <2>2, <2>3 DEF TypeOK
<1>2. CASE ChainStep
  BY <1>2, ChainStepFacts DEF TypeOK
<1>3. ASSUME NEW a \in Requestable, QueueValidatorAction(a)
      PROVE  TypeOK'
  <2> DEFINE v == [action |-> a, state |-> "requested", outcome |-> "requested", tx |-> NoTx]
  <2>1. v \in Row /\ v.tx = NoTx
    BY DEF Row, Actions, Requestable, States, Outcomes
  <2>2. actions' = Append(actions, v)
        /\ UNCHANGED <<chain, jail, pc, todo, toCheck, cur, answer, jails, faults>>
    BY <1>3 DEF QueueValidatorAction, local
  <2> HIDE DEF v
  <2> QED
    BY <2>1, <2>2, AppendFacts DEF TypeOK
<1>4. ASSUME NEW a \in Requestable, RunValidatorCLI(a)
      PROVE  TypeOK'
  <2>1. a \in Actions /\ 0 \in Nat
    BY DEF Actions
  <2>2. chain' = Deliver(a, 0)
        /\ UNCHANGED <<actions, jail, pc, todo, toCheck, cur, answer, jails, faults>>
    BY <1>4 DEF RunValidatorCLI, local
  <2>3. chain' \in Seq(ChainTx) /\ DOMAIN chain' = DOMAIN chain \cup {Len(chain')}
    BY <2>1, <2>2, DeliverType
  <2> QED
    BY <2>1, <2>2, <2>3 DEF TypeOK
<1>5. ASSUME NEW i \in DOMAIN actions, CancelAction(i)
      PROVE  TypeOK'
  <2>1. actions' = Update(i, "cancelled", "cancelled", actions[i].tx)
        /\ UNCHANGED <<chain, jail, pc, todo, toCheck, cur, answer, jails, faults>>
    BY <1>5 DEF CancelAction, local
  <2>2. /\ actions' \in Seq(Row) /\ DOMAIN actions' = DOMAIN actions
        /\ \A j \in DOMAIN actions' : actions'[j].tx \in {NoTx} \cup DOMAIN chain
    BY <2>1, UpdateType, RowType DEF States, Outcomes
  <2> QED
    BY <2>1, <2>2 DEF TypeOK
<1>6. ASSUME NEW i \in todo, MarkProcessing(i)
      PROVE  TypeOK'
  <2>1. i \in DOMAIN actions
    BY DEF TypeOK
  <2>2. actions' = Update(i, "processing", actions[i].outcome, actions[i].tx)
        /\ todo' = todo \ {i} /\ cur' = i /\ pc' = "claimed"
        /\ UNCHANGED <<chain, jail, toCheck, answer, jails, faults>>
    BY <1>6 DEF MarkProcessing
  <2>3. /\ actions' \in Seq(Row) /\ DOMAIN actions' = DOMAIN actions
        /\ \A j \in DOMAIN actions' : actions'[j].tx \in {NoTx} \cup DOMAIN chain
    BY <2>1, <2>2, UpdateType, RowType DEF States
  <2> QED
    BY <2>1, <2>2, <2>3 DEF TypeOK, Phases
<1>7. CASE ReleaseProcessing
  <2>1. cur \in DOMAIN actions
    BY <1>7 DEF ReleaseProcessing, ClaimHeld, TypeOK
  <2>2. actions' = Update(cur, "requested", actions[cur].outcome, actions[cur].tx)
        /\ pc' = "down" /\ todo' = {} /\ cur' = 0
        /\ UNCHANGED <<chain, jail, toCheck, answer, jails>>
    BY <1>7 DEF ReleaseProcessing
  <2>3. faults' \in 0..MaxFaults
    BY <1>7, ValidatorActionsAssumption DEF ReleaseProcessing, TypeOK
  <2>4. /\ actions' \in Seq(Row) /\ DOMAIN actions' = DOMAIN actions
        /\ \A j \in DOMAIN actions' : actions'[j].tx \in {NoTx} \cup DOMAIN chain
    BY <2>1, <2>2, <2>3, UpdateType, RowType DEF States
  <2> QED
    BY <2>1, <2>2, <2>3, <2>4 DEF TypeOK, Phases
<1>8. CASE SignAndSend
  <2>1. cur \in DOMAIN actions
    BY <1>8 DEF SignAndSend, ClaimHeld, TypeOK
  <2>2. PICK a \in Actions : a = actions[cur].action
    BY <2>1, RowType
  <2>3. cur \in Nat /\ chain' = Deliver(a, cur)
    BY <1>8, <2>1, <2>2 DEF SignAndSend, TypeOK
  <2>4. pc' = "answered" /\ answer' \in {Len(chain'), NoTx}
        /\ UNCHANGED <<actions, jail, todo, toCheck, cur, jails, faults>>
    BY <1>8 DEF SignAndSend
  <2>5. chain' \in Seq(ChainTx) /\ DOMAIN chain' = DOMAIN chain \cup {Len(chain')}
    BY <2>2, <2>3, DeliverType
  <2> QED
    BY <2>2, <2>4, <2>5 DEF TypeOK, Phases
<1>9. CASE RecordAnswer
  <2>1. cur \in DOMAIN actions
    BY <1>9 DEF RecordAnswer, ClaimHeld, TypeOK
  <2>2. pc' = "requests" /\ cur' = 0 /\ answer' = NoTx
        /\ UNCHANGED <<chain, jail, todo, toCheck, jails, faults>>
    BY <1>9 DEF RecordAnswer
  <2>3. PICK st \in States, o \in Outcomes, t \in {NoTx} \cup DOMAIN chain :
          actions' = Update(cur, st, o, t)
    <3>1. CASE answer = NoTx
      <4>1. actions' = Update(cur, "failed", actions[cur].outcome, actions[cur].tx)
        BY <1>9, <3>1 DEF RecordAnswer, Recorded
      <4> QED
        BY <2>1, <4>1, RowType DEF States
    <3>2. CASE answer # NoTx
      <4>1. actions' = Update(cur, "submitted", "pending", answer)
        BY <1>9, <3>2 DEF RecordAnswer, Recorded
      <4> QED
        BY <4>1 DEF States, Outcomes, TypeOK
    <3> QED
      BY <3>1, <3>2
  <2>4. /\ actions' \in Seq(Row) /\ DOMAIN actions' = DOMAIN actions
        /\ \A j \in DOMAIN actions' : actions'[j].tx \in {NoTx} \cup DOMAIN chain
    BY <2>1, <2>3, UpdateType
  <2> QED
    BY <2>2, <2>4 DEF TypeOK, Phases
<1>10. ASSUME NEW i \in toCheck, CompleteSubmitted(i)
       PROVE  TypeOK'
  <2>1. i \in DOMAIN actions
    BY DEF TypeOK
  <2>2. PICK st \in FinalState(actions[i].tx) :
          actions' = Update(i, st, actions[i].outcome, actions[i].tx)
    BY <1>10 DEF CompleteSubmitted
  <2>3. st \in States
    BY DEF FinalState, States
  <2>4. toCheck' = toCheck \ {i} /\ UNCHANGED <<chain, jail, pc, todo, cur, answer, jails, faults>>
    BY <1>10 DEF CompleteSubmitted
  <2>5. /\ actions' \in Seq(Row) /\ DOMAIN actions' = DOMAIN actions
        /\ \A j \in DOMAIN actions' : actions'[j].tx \in {NoTx} \cup DOMAIN chain
    BY <2>1, <2>2, <2>3, UpdateType, RowType
  <2> QED
    BY <2>1, <2>4, <2>5 DEF TypeOK
<1>11. CASE SendReactivate
  <2>1. "reactivate" \in Actions /\ 0 \in Nat
    BY DEF Actions
  <2>2. chain' = Deliver("reactivate", 0)
    BY <1>11 DEF SendReactivate
  <2>3. pc' = "react_record" /\ answer' \in {Len(chain'), NoTx}
        /\ UNCHANGED <<actions, jail, todo, toCheck, cur, jails, faults>>
    BY <1>11 DEF SendReactivate
  <2>4. chain' \in Seq(ChainTx) /\ DOMAIN chain' = DOMAIN chain \cup {Len(chain')}
    BY <2>1, <2>2, DeliverType
  <2> QED
    BY <2>1, <2>3, <2>4 DEF TypeOK, Phases
<1>12. CASE InsertReactivation
  <2>1. PICK o \in {"failed", "pending"} :
          actions' = Append(actions, [action |-> "reactivate", state |-> "null",
                                      tx |-> answer, outcome |-> o])
    BY <1>12 DEF InsertReactivation
  <2> DEFINE v == [action |-> "reactivate", state |-> "null", tx |-> answer, outcome |-> o]
  <2>2. v \in Row /\ v.tx = answer
    <3>1. answer \in Nat \cup {NoTx}
      BY DEF TypeOK
    <3> QED
      BY <3>1 DEF Row, Actions, States, Outcomes
  <2>3. actions' = Append(actions, v)
    BY <2>1
  <2>4. answer' = NoTx /\ pc' = "tick" /\ UNCHANGED <<chain, jail, todo, toCheck, cur, jails, faults>>
    BY <1>12 DEF InsertReactivation
  <2> HIDE DEF v
  <2> QED
    BY <2>2, <2>3, <2>4, AppendFacts DEF TypeOK, Phases
<1> QED
  BY <1>1, <1>2, <1>3, <1>4, <1>5, <1>6, <1>7, <1>8, <1>9, <1>10, <1>11, <1>12, NextCases

-----------------------------------------------------------------------------
(* What each step that writes or sends does, in the terms of the invariant. *)

\* Row i gets a state, an outcome and a transaction; the others stay.
Rewritten(i, st, o, t) ==
  /\ i \in DOMAIN actions
  /\ DOMAIN actions' = DOMAIN actions
  /\ \A j \in DOMAIN actions : j # i => actions'[j] = actions[j]
  /\ actions'[i].action = actions[i].action /\ actions'[i].state = st
  /\ actions'[i].outcome = o /\ actions'[i].tx = t

\* Row n is new.
Added(n, a, st, o, t) ==
  /\ n \notin DOMAIN actions /\ n # 0
  /\ DOMAIN actions' = DOMAIN actions \cup {n}
  /\ \A j \in DOMAIN actions : actions'[j] = actions[j]
  /\ actions'[n].action = a /\ actions'[n].state = st
  /\ actions'[n].outcome = o /\ actions'[n].tx = t

\* Transaction n is new.
SentAs(n, a, i) ==
  /\ n \notin DOMAIN chain /\ n = Len(chain') /\ Len(chain') = Len(chain) + 1
  /\ DOMAIN chain' = DOMAIN chain \cup {n}
  /\ \A t \in DOMAIN chain : chain'[t] = chain[t]
  /\ chain'[n].action = a /\ chain'[n].row = i /\ chain'[n].status = "sent"

\* A delivery is a new transaction.
LEMMA DeliverSends ==
  ASSUME TypeOK, NEW a \in Actions, NEW i \in Nat, chain' = Deliver(a, i)
  PROVE  SentAs(Len(chain'), a, i)
<1> DEFINE v == [action |-> a, row |-> i, status |-> "sent"]
<1>1. v.action = a /\ v.row = i /\ v.status = "sent"
  OBVIOUS
<1>2. chain \in Seq(ChainTx) /\ chain' = Append(chain, v)
  BY DEF Deliver, TypeOK
<1> HIDE DEF v
<1>3. /\ Len(chain') = Len(chain) + 1
      /\ Len(chain') \notin DOMAIN chain
      /\ DOMAIN chain' = DOMAIN chain \cup {Len(chain')}
      /\ \A t \in DOMAIN chain : chain'[t] = chain[t]
      /\ chain'[Len(chain')] = v
  BY <1>2
<1> QED
  BY <1>1, <1>3 DEF SentAs

\* A queued request is a new row, of an action none is outstanding for.
LEMMA QueueFacts ==
  ASSUME TypeOK, NEW a \in Requestable, QueueValidatorAction(a)
  PROVE  /\ Outstanding(a) = {}
         /\ \E n : Added(n, a, "requested", "requested", NoTx)
         /\ UNCHANGED <<chain, pc, toCheck, cur>>
<1> DEFINE v == [action |-> a, state |-> "requested", outcome |-> "requested", tx |-> NoTx]
<1>1. v \in Row /\ v.action = a /\ v.state = "requested" /\ v.outcome = "requested" /\ v.tx = NoTx
  BY DEF Row, Actions, States, Outcomes
<1>2. actions' = Append(actions, v)
  BY DEF QueueValidatorAction
<1> HIDE DEF v
<1>3. Added(Len(actions) + 1, a, "requested", "requested", NoTx)
  <2>1. actions \in Seq(Row) /\ Len(actions) \in Nat
    BY DEF TypeOK
  <2> QED
    BY <1>1, <1>2, <2>1, AppendFacts DEF Added
<1> QED
  BY <1>3 DEF QueueValidatorAction, local

\* The command line sends a transaction that no row knows of.
LEMMA CLIFacts ==
  ASSUME TypeOK, NEW a \in Requestable, RunValidatorCLI(a)
  PROVE  (\E n : SentAs(n, a, 0)) /\ UNCHANGED <<actions, pc, toCheck, cur>>
<1>1. a \in Actions /\ 0 \in Nat
  BY DEF Actions
<1>2. chain' = Deliver(a, 0)
  BY DEF RunValidatorCLI
<1>3. SentAs(Len(chain'), a, 0)
  BY <1>1, <1>2, DeliverSends
<1> QED
  BY <1>3 DEF RunValidatorCLI, local

\* Only a row that is still requested is cancelled.
LEMMA CancelFacts ==
  ASSUME TypeOK, NEW i \in DOMAIN actions, CancelAction(i)
  PROVE  /\ IsRequested(actions[i])
         /\ Rewritten(i, "cancelled", "cancelled", actions[i].tx)
         /\ UNCHANGED <<chain, pc, toCheck, cur>>
<1>1. actions' = Update(i, "cancelled", "cancelled", actions[i].tx)
  BY DEF CancelAction
<1> QED
  BY <1>1, UpdateFacts, RowType DEF Rewritten, CancelAction, local, States, Outcomes

\* Claiming a row moves it from requested to processing, and the daemon holds it.
LEMMA MarkFacts ==
  ASSUME TypeOK, NEW i \in todo, MarkProcessing(i)
  PROVE  /\ IsRequested(actions[i])
         /\ Rewritten(i, "processing", actions[i].outcome, actions[i].tx)
         /\ cur' = i /\ pc' = "claimed"
         /\ UNCHANGED <<chain, toCheck>>
<1>1. i \in DOMAIN actions
  BY DEF TypeOK
<1>2. actions' = Update(i, "processing", actions[i].outcome, actions[i].tx)
  BY DEF MarkProcessing
<1> QED
  BY <1>1, <1>2, UpdateFacts, RowType DEF Rewritten, MarkProcessing, Claimable, States

\* A claim that is given back makes the row requested again, and nothing was sent for it.
LEMMA ReleaseFacts ==
  ASSUME TypeOK, ClaimHeld, ReleaseProcessing
  PROVE  /\ pc = "claimed" /\ pc' = "down"
         /\ Rewritten(cur, "requested", actions[cur].outcome, actions[cur].tx)
         /\ UNCHANGED <<chain, toCheck>>
<1>1. cur \in DOMAIN actions
  BY DEF ReleaseProcessing, ClaimHeld, TypeOK
<1>2. actions' = Update(cur, "requested", actions[cur].outcome, actions[cur].tx)
  BY DEF ReleaseProcessing
<1> QED
  BY <1>1, <1>2, UpdateFacts, RowType DEF Rewritten, ReleaseProcessing, States

\* Signing sends for the claimed row, of its action, and leaves the table alone.
LEMMA SignFacts ==
  ASSUME TypeOK, ClaimHeld, SignAndSend
  PROVE  /\ pc = "claimed" /\ pc' = "answered"
         /\ cur \in DOMAIN actions
         /\ \E n : SentAs(n, actions[cur].action, cur)
         /\ UNCHANGED <<actions, toCheck, cur>>
<1>1. cur \in DOMAIN actions /\ cur \in Nat
  BY DEF SignAndSend, ClaimHeld, TypeOK
<1>2. PICK a \in Actions : a = actions[cur].action
  BY <1>1, RowType
<1>3. chain' = Deliver(a, cur)
  BY <1>2 DEF SignAndSend
<1>4. SentAs(Len(chain'), a, cur)
  BY <1>1, <1>3, DeliverSends
<1> QED
  BY <1>1, <1>2, <1>4 DEF SignAndSend

\* The answer makes the claimed row submitted, with its transaction, or failed.
LEMMA RecordFacts ==
  ASSUME TypeOK, ClaimHeld, RecordAnswer
  PROVE  /\ pc = "answered" /\ pc' = "requests"
         /\ \/ Rewritten(cur, "failed", actions[cur].outcome, actions[cur].tx)
            \/ answer # NoTx /\ Rewritten(cur, "submitted", "pending", answer)
         /\ UNCHANGED <<chain, toCheck>>
<1>1. cur \in DOMAIN actions
  BY DEF RecordAnswer, ClaimHeld, TypeOK
<1>2. CASE answer = NoTx
  <2>1. actions' = Update(cur, "failed", actions[cur].outcome, actions[cur].tx)
    BY <1>2 DEF RecordAnswer, Recorded
  <2> QED
    BY <1>1, <2>1, UpdateFacts, RowType DEF Rewritten, RecordAnswer, States
<1>3. CASE answer # NoTx
  <2>1. actions' = Update(cur, "submitted", "pending", answer)
    BY <1>3 DEF RecordAnswer, Recorded
  <2>2. answer \in {NoTx} \cup DOMAIN chain
    BY DEF TypeOK
  <2> QED
    BY <1>1, <1>3, <2>1, <2>2, UpdateFacts DEF Rewritten, RecordAnswer, States, Outcomes
<1> QED
  BY <1>2, <1>3

\* A submitted row is confirmed when its transaction is final and good, or has failed.
LEMMA CompleteFacts ==
  ASSUME TypeOK, NEW i \in toCheck, CompleteSubmitted(i)
  PROVE  /\ IsSubmitted(actions[i])
         /\ pc = "check" /\ toCheck' \subseteq toCheck
         /\ \/ /\ chain[actions[i].tx].status = "ok"
               /\ Rewritten(i, "confirmed", actions[i].outcome, actions[i].tx)
            \/ Rewritten(i, "failed", actions[i].outcome, actions[i].tx)
         /\ UNCHANGED <<chain, pc, cur>>
<1>1. i \in DOMAIN actions
  BY DEF TypeOK
<1>2. PICK st \in FinalState(actions[i].tx) :
        actions' = Update(i, st, actions[i].outcome, actions[i].tx)
  BY DEF CompleteSubmitted
<1>3. st \in States /\ (st = "failed" \/ (st = "confirmed" /\ chain[actions[i].tx].status = "ok"))
  BY DEF FinalState, States
<1>4. Rewritten(i, st, actions[i].outcome, actions[i].tx)
  BY <1>1, <1>2, <1>3, UpdateFacts, RowType DEF Rewritten
<1> QED
  BY <1>3, <1>4 DEF CompleteSubmitted

\* The automatic reactivation sends before it has a row.
LEMMA SendReactivateFacts ==
  ASSUME TypeOK, SendReactivate
  PROVE  /\ pc = "react_send" /\ pc' = "react_record"
         /\ \E n : SentAs(n, "reactivate", 0)
         /\ UNCHANGED <<actions, toCheck, cur>>
<1>1. "reactivate" \in Actions /\ 0 \in Nat
  BY DEF Actions
<1>2. chain' = Deliver("reactivate", 0)
  BY DEF SendReactivate
<1>3. SentAs(Len(chain'), "reactivate", 0)
  BY <1>1, <1>2, DeliverSends
<1> QED
  BY <1>3 DEF SendReactivate

\* The row of an automatic reactivation is new, and has no state but its outcome.
LEMMA InsertReactivationFacts ==
  ASSUME TypeOK, InsertReactivation
  PROVE  /\ pc = "react_record" /\ pc' = "tick"
         /\ \E n : \E o \in {"pending", "failed"} : Added(n, "reactivate", "null", o, answer)
         /\ UNCHANGED <<chain, toCheck, cur>>
<1>1. PICK o \in {"pending", "failed"} :
        actions' = Append(actions, [action |-> "reactivate", state |-> "null",
                                    tx |-> answer, outcome |-> o])
  BY DEF InsertReactivation
<1> DEFINE v == [action |-> "reactivate", state |-> "null", tx |-> answer, outcome |-> o]
<1>2. v \in Row /\ v.action = "reactivate" /\ v.state = "null" /\ v.outcome = o /\ v.tx = answer
  <2>1. answer \in Nat \cup {NoTx}
    BY DEF TypeOK
  <2> QED
    BY <2>1 DEF Row, Actions, States, Outcomes
<1>3. actions' = Append(actions, v)
  BY <1>1
<1> HIDE DEF v
<1>4. Added(Len(actions) + 1, "reactivate", "null", o, answer)
  <2>1. actions \in Seq(Row) /\ Len(actions) \in Nat
    BY DEF TypeOK
  <2> QED
    BY <1>2, <1>3, <2>1, AppendFacts DEF Added
<1> QED
  BY <1>4 DEF InsertReactivation

-----------------------------------------------------------------------------
(* Each part of the invariant is kept.                                     *)

\* The claim is kept: only the daemon touches a row that is processing.
LEMMA ClaimHeldNext ==
  ASSUME TypeOK, ClaimHeld, RowsKnown, RequestSentOnce, [Next]_vars
  PROVE  ClaimHeld'
<1>1. CASE Quiet
  <2>1. UNCHANGED <<actions, chain>>
    BY <1>1, QuietFacts
  <2>2. /\ pc' = "claimed" => pc = "claimed" /\ cur' = cur
        /\ pc' = "answered" => pc \in {"claimed", "answered"} /\ cur' = cur
    BY <1>1
    DEF Quiet, ProcessRequestedActions, SkipRequest, SignOrSendFails, RequestsFail,
        CheckSubmitted, EndCheck, LeaveSubmitted, RunAutoReactivate, NoReactivation,
        SignReactivateFails, SendReactivateFails, InsertReactivationFails, Crash, Restart,
        Jail, CoolDown, vars, local
  <2>3. \A i \in toCheck' : i \in toCheck \/ actions[i].tx # NoTx
    BY <1>1
    DEF Quiet, ProcessRequestedActions, SkipRequest, SignOrSendFails, RequestsFail,
        CheckSubmitted, EndCheck, LeaveSubmitted, RunAutoReactivate, NoReactivation,
        SignReactivateFails, SendReactivateFails, InsertReactivationFails, Crash, Restart,
        Jail, CoolDown, vars, local
  <2> QED
    BY <2>1, <2>2, <2>3 DEF ClaimHeld
<1>2. CASE ChainStep
  BY <1>2, ChainStepFacts DEF ClaimHeld
<1>3. ASSUME NEW a \in Requestable, QueueValidatorAction(a)
      PROVE  ClaimHeld'
  <2>1. PICK n : Added(n, a, "requested", "requested", NoTx)
    BY <1>3, QueueFacts
  <2>2. UNCHANGED <<chain, pc, toCheck, cur>>
    BY <1>3, QueueFacts
  <2> QED
    BY <2>1, <2>2 DEF ClaimHeld, Added, TypeOK
<1>4. ASSUME NEW a \in Requestable, RunValidatorCLI(a)
      PROVE  ClaimHeld'
  <2>1. PICK n : SentAs(n, a, 0)
    BY <1>4, CLIFacts
  <2>2. UNCHANGED <<actions, pc, toCheck, cur>>
    BY <1>4, CLIFacts
  <2> QED
    BY <2>1, <2>2 DEF ClaimHeld, SentAs, TypeOK
<1>5. ASSUME NEW i \in DOMAIN actions, CancelAction(i)
      PROVE  ClaimHeld'
  BY <1>5, CancelFacts DEF ClaimHeld, Rewritten, IsRequested, TypeOK
<1>6. ASSUME NEW i \in todo, MarkProcessing(i)
      PROVE  ClaimHeld'
  <2>1. i # 0 /\ actions'[i].state = "processing"
    BY <1>6, MarkFacts DEF Rewritten, TypeOK
  <2>2. \A t \in DOMAIN chain : chain[t].row # i
    BY <1>6, <2>1, MarkFacts DEF IsRequested, RequestSentOnce
  <2> QED
    BY <1>6, <2>1, <2>2, MarkFacts DEF ClaimHeld, Rewritten, TypeOK
<1>7. CASE ReleaseProcessing
  BY <1>7, ReleaseFacts DEF ClaimHeld, Rewritten, TypeOK
<1>8. CASE SignAndSend
  BY <1>8, SignFacts DEF ClaimHeld
<1>9. CASE RecordAnswer
  BY <1>9, RecordFacts DEF ClaimHeld, Rewritten, TypeOK
<1>10. ASSUME NEW i \in toCheck, CompleteSubmitted(i)
       PROVE  ClaimHeld'
  BY <1>10, CompleteFacts DEF ClaimHeld, Rewritten, TypeOK
<1>11. CASE SendReactivate
  BY <1>11, SendReactivateFacts DEF ClaimHeld
<1>12. CASE InsertReactivation
  BY <1>12, InsertReactivationFacts DEF ClaimHeld, Added, TypeOK
<1> QED
  BY <1>1, <1>2, <1>3, <1>4, <1>5, <1>6, <1>7, <1>8, <1>9, <1>10, <1>11, <1>12, NextCases

\* A request is sent once: the claim comes before the call, and a row is up for a
\* claim only while nothing was sent for it.
LEMMA SentOnceNext ==
  ASSUME TypeOK, ClaimHeld, RowsKnown, RequestSentOnce, [Next]_vars
  PROVE  RowsKnown' /\ RequestSentOnce'
<1>1. CASE Quiet
  BY <1>1, QuietFacts DEF RowsKnown, RequestSentOnce
<1>2. CASE ChainStep
  BY <1>2, ChainStepFacts DEF RowsKnown, RequestSentOnce
<1>3. ASSUME NEW a \in Requestable, QueueValidatorAction(a)
      PROVE  RowsKnown' /\ RequestSentOnce'
  <2>1. PICK n : Added(n, a, "requested", "requested", NoTx)
    BY <1>3, QueueFacts
  <2>2. UNCHANGED <<chain, pc, toCheck, cur>>
    BY <1>3, QueueFacts
  <2> QED
    BY <2>1, <2>2 DEF RowsKnown, RequestSentOnce, Added
<1>4. ASSUME NEW a \in Requestable, RunValidatorCLI(a)
      PROVE  RowsKnown' /\ RequestSentOnce'
  <2>1. PICK n : SentAs(n, a, 0)
    BY <1>4, CLIFacts
  <2>2. UNCHANGED <<actions, pc, toCheck, cur>>
    BY <1>4, CLIFacts
  <2> QED
    BY <2>1, <2>2 DEF RowsKnown, RequestSentOnce, SentAs
<1>5. ASSUME NEW i \in DOMAIN actions, CancelAction(i)
      PROVE  RowsKnown' /\ RequestSentOnce'
  BY <1>5, CancelFacts DEF RowsKnown, RequestSentOnce, Rewritten, IsRequested
<1>6. ASSUME NEW i \in todo, MarkProcessing(i)
      PROVE  RowsKnown' /\ RequestSentOnce'
  BY <1>6, MarkFacts DEF RowsKnown, RequestSentOnce, Rewritten
<1>7. CASE ReleaseProcessing
  BY <1>7, ReleaseFacts DEF RowsKnown, RequestSentOnce, Rewritten, ClaimHeld
<1>8. CASE SignAndSend
  <2>1. PICK n : SentAs(n, actions[cur].action, cur)
    BY <1>8, SignFacts
  <2>2. pc = "claimed" /\ cur \in DOMAIN actions /\ UNCHANGED actions
    BY <1>8, SignFacts
  <2> QED
    BY <2>1, <2>2 DEF RowsKnown, RequestSentOnce, SentAs, ClaimHeld
<1>9. CASE RecordAnswer
  <2>1. PICK st, o, t : st \in {"failed", "submitted"} /\ Rewritten(cur, st, o, t)
    BY <1>9, RecordFacts
  <2>2. UNCHANGED chain
    BY <1>9, RecordFacts
  <2> QED
    BY <2>1, <2>2 DEF RowsKnown, RequestSentOnce, Rewritten
<1>10. ASSUME NEW i \in toCheck, CompleteSubmitted(i)
       PROVE  RowsKnown' /\ RequestSentOnce'
  <2>1. PICK st, o, t : st \in {"failed", "confirmed"} /\ Rewritten(i, st, o, t)
    BY <1>10, CompleteFacts
  <2>2. UNCHANGED chain
    BY <1>10, CompleteFacts
  <2> QED
    BY <2>1, <2>2 DEF RowsKnown, RequestSentOnce, Rewritten
<1>11. CASE SendReactivate
  BY <1>11, SendReactivateFacts DEF RowsKnown, RequestSentOnce, SentAs
<1>12. CASE InsertReactivation
  <2>1. PICK n, o : Added(n, "reactivate", "null", o, answer)
    BY <1>12, InsertReactivationFacts
  <2>2. UNCHANGED chain
    BY <1>12, InsertReactivationFacts
  <2> QED
    BY <2>1, <2>2 DEF RowsKnown, RequestSentOnce, Added
<1> QED
  BY <1>1, <1>2, <1>3, <1>4, <1>5, <1>6, <1>7, <1>8, <1>9, <1>10, <1>11, <1>12, NextCases

\* A confirmed row stays backed by its final transaction.
LEMMA ConfirmedNext ==
  ASSUME TypeOK, ClaimHeld, ConfirmedIsFinal, [Next]_vars
  PROVE  ConfirmedIsFinal'
<1> USE DEF ConfirmedIsFinal
<1>1. CASE Quiet
  BY <1>1, QuietFacts
<1>2. CASE ChainStep
  BY <1>2, ChainStepFacts, RowType
<1>3. ASSUME NEW a \in Requestable, QueueValidatorAction(a)
      PROVE  ConfirmedIsFinal'
  <2>1. PICK n : Added(n, a, "requested", "requested", NoTx)
    BY <1>3, QueueFacts
  <2>2. UNCHANGED <<chain, pc, toCheck, cur>>
    BY <1>3, QueueFacts
  <2> QED
    BY <2>1, <2>2 DEF Added
<1>4. ASSUME NEW a \in Requestable, RunValidatorCLI(a)
      PROVE  ConfirmedIsFinal'
  <2>1. PICK n : SentAs(n, a, 0)
    BY <1>4, CLIFacts
  <2>2. UNCHANGED <<actions, pc, toCheck, cur>>
    BY <1>4, CLIFacts
  <2> QED
    BY <2>1, <2>2, RowType DEF SentAs
<1>5. ASSUME NEW i \in DOMAIN actions, CancelAction(i)
      PROVE  ConfirmedIsFinal'
  BY <1>5, CancelFacts DEF Rewritten
<1>6. ASSUME NEW i \in todo, MarkProcessing(i)
      PROVE  ConfirmedIsFinal'
  BY <1>6, MarkFacts DEF Rewritten
<1>7. CASE ReleaseProcessing
  BY <1>7, ReleaseFacts DEF Rewritten
<1>8. CASE SignAndSend
  <2>1. PICK n : SentAs(n, actions[cur].action, cur)
    BY <1>8, SignFacts
  <2>2. UNCHANGED actions
    BY <1>8, SignFacts
  <2> QED
    BY <2>1, <2>2, RowType DEF SentAs
<1>9. CASE RecordAnswer
  <2>1. PICK st, o, t : st \in {"failed", "submitted"} /\ Rewritten(cur, st, o, t)
    BY <1>9, RecordFacts
  <2>2. UNCHANGED chain
    BY <1>9, RecordFacts
  <2> QED
    BY <2>1, <2>2 DEF Rewritten
<1>10. ASSUME NEW i \in toCheck, CompleteSubmitted(i)
       PROVE  ConfirmedIsFinal'
  <2>1. PICK st \in {"failed", "confirmed"} :
          /\ Rewritten(i, st, actions[i].outcome, actions[i].tx)
          /\ st = "confirmed" => chain[actions[i].tx].status = "ok"
    BY <1>10, CompleteFacts
  <2>2. actions[i].tx # NoTx
    BY DEF ClaimHeld
  <2>3. UNCHANGED chain
    BY <1>10, CompleteFacts
  <2> QED
    BY <2>1, <2>2, <2>3 DEF Rewritten
<1>11. CASE SendReactivate
  <2>1. PICK n : SentAs(n, "reactivate", 0)
    BY <1>11, SendReactivateFacts
  <2>2. UNCHANGED actions
    BY <1>11, SendReactivateFacts
  <2> QED
    BY <2>1, <2>2, RowType DEF SentAs
<1>12. CASE InsertReactivation
  <2>1. PICK n, o : Added(n, "reactivate", "null", o, answer)
    BY <1>12, InsertReactivationFacts
  <2>2. UNCHANGED chain
    BY <1>12, InsertReactivationFacts
  <2> QED
    BY <2>1, <2>2 DEF Added
<1> QED
  BY <1>1, <1>2, <1>3, <1>4, <1>5, <1>6, <1>7, <1>8, <1>9, <1>10, <1>11, <1>12, NextCases

\* Nothing but a confirmation changes the row of a reactivation.
LEMMA ReactivationRowsNext ==
  ASSUME TypeOK, ClaimHeld, ReactivationRows, [Next]_vars
  PROVE  ReactivationRows'
<1> USE DEF ReactivationRows, ReactivationRow
<1>1. CASE Quiet
  BY <1>1, QuietFacts
<1>2. CASE ChainStep
  BY <1>2, ChainStepFacts
<1>3. ASSUME NEW a \in Requestable, QueueValidatorAction(a)
      PROVE  ReactivationRows'
  BY <1>3, QueueFacts DEF Added, Requestable
<1>4. ASSUME NEW a \in Requestable, RunValidatorCLI(a)
      PROVE  ReactivationRows'
  BY <1>4, CLIFacts
<1>5. ASSUME NEW i \in DOMAIN actions, CancelAction(i)
      PROVE  ReactivationRows'
  BY <1>5, CancelFacts DEF Rewritten, IsRequested
<1>6. ASSUME NEW i \in todo, MarkProcessing(i)
      PROVE  ReactivationRows'
  BY <1>6, MarkFacts DEF Rewritten, IsRequested
<1>7. CASE ReleaseProcessing
  BY <1>7, ReleaseFacts DEF Rewritten, ClaimHeld
<1>8. CASE SignAndSend
  BY <1>8, SignFacts
<1>9. CASE RecordAnswer
  <2>1. PICK st, o, t : st \in {"failed", "submitted"} /\ Rewritten(cur, st, o, t)
    BY <1>9, RecordFacts
  <2>2. actions[cur].state = "processing"
    BY <1>9, RecordFacts DEF ClaimHeld
  <2> QED
    BY <2>1, <2>2 DEF Rewritten
<1>10. ASSUME NEW i \in toCheck, CompleteSubmitted(i)
       PROVE  ReactivationRows'
  <2>1. PICK st \in {"failed", "confirmed"} :
          Rewritten(i, st, actions[i].outcome, actions[i].tx)
    BY <1>10, CompleteFacts
  <2> QED
    BY <2>1 DEF Rewritten
<1>11. CASE SendReactivate
  BY <1>11, SendReactivateFacts
<1>12. CASE InsertReactivation
  BY <1>12, InsertReactivationFacts DEF Added
<1> QED
  BY <1>1, <1>2, <1>3, <1>4, <1>5, <1>6, <1>7, <1>8, <1>9, <1>10, <1>11, <1>12, NextCases

\* A row that is rewritten was outstanding already, if it is afterwards.
LEMMA RewrittenOutstanding ==
  ASSUME NEW i, NEW st, NEW o, NEW t, Rewritten(i, st, o, t),
         IsOutstanding(actions[i]) \/ st \in {"confirmed", "failed", "cancelled"},
         NEW a
  PROVE  Outstanding(a)' \subseteq Outstanding(a)
BY DEF Rewritten, Outstanding, IsOutstanding, IsRequested, IsSubmitted

\* From the check to the record of a reactivation, the check stays true: the
\* operator's part of the table can only gain requests, and the daemon is busy.
LEMMA ReactivationClearNext ==
  ASSUME TypeOK, ClaimHeld, ReactivationRows, ReactivationClear, [Next]_vars
  PROVE  ReactivationClear'
<1>1. CASE Quiet
  <2>1. UNCHANGED <<actions, chain>>
    BY <1>1, QuietFacts
  <2>2. pc' \in {"react_send", "react_record"} =>
          pc \in {"react_send", "react_record"} \/ MayReactivate
    BY <1>1
    DEF Quiet, ProcessRequestedActions, SkipRequest, SignOrSendFails, RequestsFail,
        CheckSubmitted, EndCheck, LeaveSubmitted, RunAutoReactivate, NoReactivation,
        SignReactivateFails, SendReactivateFails, InsertReactivationFails, Crash, Restart,
        Jail, CoolDown, vars
  <2> QED
    BY <2>1, <2>2
    DEF ReactivationClear, MayReactivate, HasPending, Outstanding, IsOutstanding,
        IsRequested, IsSubmitted
<1>2. CASE ChainStep
  BY <1>2, ChainStepFacts
  DEF ReactivationClear, HasPending, Outstanding, IsOutstanding, IsRequested, IsSubmitted
<1>3. ASSUME NEW a \in Requestable, QueueValidatorAction(a)
      PROVE  ReactivationClear'
  <2>1. PICK n : Added(n, a, "requested", "requested", NoTx)
    BY <1>3, QueueFacts
  <2>2. UNCHANGED pc
    BY <1>3, QueueFacts
  <2> QED
    BY <2>1, <2>2
    DEF ReactivationClear, HasPending, Outstanding, IsOutstanding, IsRequested, IsSubmitted,
        Added
<1>4. ASSUME NEW a \in Requestable, RunValidatorCLI(a)
      PROVE  ReactivationClear'
  BY <1>4, CLIFacts
  DEF ReactivationClear, HasPending, Outstanding, IsOutstanding, IsRequested, IsSubmitted
<1>5. ASSUME NEW i \in DOMAIN actions, CancelAction(i)
      PROVE  ReactivationClear'
  <2>1. Rewritten(i, "cancelled", "cancelled", actions[i].tx) /\ UNCHANGED pc
    BY <1>5, CancelFacts
  <2> QED
    BY <2>1
    DEF ReactivationClear, HasPending, Outstanding, IsOutstanding, IsRequested, IsSubmitted,
        Rewritten
<1>6. ASSUME NEW i \in todo, MarkProcessing(i)
      PROVE  ReactivationClear'
  BY <1>6, MarkFacts DEF ReactivationClear
<1>7. CASE ReleaseProcessing
  BY <1>7, ReleaseFacts DEF ReactivationClear
<1>8. CASE SignAndSend
  BY <1>8, SignFacts DEF ReactivationClear
<1>9. CASE RecordAnswer
  BY <1>9, RecordFacts DEF ReactivationClear
<1>10. ASSUME NEW i \in toCheck, CompleteSubmitted(i)
       PROVE  ReactivationClear'
  BY <1>10, CompleteFacts DEF ReactivationClear
<1>11. CASE SendReactivate
  BY <1>11, SendReactivateFacts
  DEF ReactivationClear, HasPending, Outstanding, IsOutstanding, IsRequested, IsSubmitted
<1>12. CASE InsertReactivation
  BY <1>12, InsertReactivationFacts DEF ReactivationClear
<1> QED
  BY <1>1, <1>2, <1>3, <1>4, <1>5, <1>6, <1>7, <1>8, <1>9, <1>10, <1>11, <1>12, NextCases

\* A second outstanding row is neither added nor brought back.
LEMMA OneOutstandingNext ==
  ASSUME TypeOK, ClaimHeld, ReactivationRows, ReactivationClear, OneOutstanding, [Next]_vars
  PROVE  OneOutstanding'
<1>0. SUFFICES \/ \A a \in Actions : Outstanding(a)' \subseteq Outstanding(a)
               \/ OneOutstanding'
  BY DEF OneOutstanding
<1>a. ASSUME UNCHANGED actions
      PROVE  \A a \in Actions : Outstanding(a)' \subseteq Outstanding(a)
  BY <1>a DEF Outstanding, IsOutstanding, IsRequested, IsSubmitted
<1>b. ASSUME NEW n, NEW a \in Actions, NEW st, NEW o, NEW t, Added(n, a, st, o, t),
             Outstanding(a) = {}
      PROVE  OneOutstanding'
  <2>1. \A b \in Actions : Outstanding(b)' \subseteq Outstanding(b) \cup (IF b = a THEN {n} ELSE {})
    BY <1>b DEF Added, Outstanding, IsOutstanding, IsRequested, IsSubmitted
  <2> QED
    BY <1>b, <2>1 DEF OneOutstanding
<1>1. CASE Quiet
  BY <1>1, <1>a, QuietFacts
<1>2. CASE ChainStep
  BY <1>2, <1>a, ChainStepFacts
<1>3. ASSUME NEW a \in Requestable, QueueValidatorAction(a)
      PROVE  OneOutstanding'
  <2>1. PICK n : Added(n, a, "requested", "requested", NoTx)
    BY <1>3, QueueFacts
  <2>2. Outstanding(a) = {} /\ a \in Actions
    BY <1>3, QueueFacts DEF Actions
  <2> QED
    BY <1>b, <2>1, <2>2
<1>4. ASSUME NEW a \in Requestable, RunValidatorCLI(a)
      PROVE  \A b \in Actions : Outstanding(b)' \subseteq Outstanding(b)
  BY <1>4, <1>a, CLIFacts
<1>5. ASSUME NEW i \in DOMAIN actions, CancelAction(i)
      PROVE  \A a \in Actions : Outstanding(a)' \subseteq Outstanding(a)
  <2>1. Rewritten(i, "cancelled", "cancelled", actions[i].tx)
    BY <1>5, CancelFacts
  <2> QED
    BY <2>1, RewrittenOutstanding
<1>6. ASSUME NEW i \in todo, MarkProcessing(i)
      PROVE  \A a \in Actions : Outstanding(a)' \subseteq Outstanding(a)
  <2>1. Rewritten(i, "processing", actions[i].outcome, actions[i].tx)
        /\ IsOutstanding(actions[i])
    BY <1>6, MarkFacts DEF IsOutstanding
  <2> QED
    BY <2>1, RewrittenOutstanding
<1>7. CASE ReleaseProcessing
  <2>1. Rewritten(cur, "requested", actions[cur].outcome, actions[cur].tx)
        /\ IsOutstanding(actions[cur])
    BY <1>7, ReleaseFacts DEF IsOutstanding, ClaimHeld
  <2> QED
    BY <2>1, RewrittenOutstanding
<1>8. CASE SignAndSend
  BY <1>8, <1>a, SignFacts
<1>9. CASE RecordAnswer
  <2>1. PICK st, o, t : Rewritten(cur, st, o, t)
    BY <1>9, RecordFacts
  <2>2. IsOutstanding(actions[cur])
    BY <1>9, RecordFacts DEF IsOutstanding, ClaimHeld
  <2> QED
    BY <2>1, <2>2, RewrittenOutstanding
<1>10. ASSUME NEW i \in toCheck, CompleteSubmitted(i)
       PROVE  \A a \in Actions : Outstanding(a)' \subseteq Outstanding(a)
  <2>1. PICK st, o, t : Rewritten(i, st, o, t)
    BY <1>10, CompleteFacts
  <2>2. IsOutstanding(actions[i])
    BY <1>10, CompleteFacts DEF IsOutstanding
  <2> QED
    BY <2>1, <2>2, RewrittenOutstanding
<1>11. CASE SendReactivate
  BY <1>11, <1>a, SendReactivateFacts
<1>12. CASE InsertReactivation
  <2>1. PICK n, o : Added(n, "reactivate", "null", o, answer)
    BY <1>12, InsertReactivationFacts
  <2>2. Outstanding("reactivate") = {}
    <3>1. ~HasPending("reactivate")
      BY <1>12, InsertReactivationFacts DEF ReactivationClear
    <3> QED
      BY <3>1 DEF HasPending, Outstanding, IsOutstanding, IsRequested, IsSubmitted,
                  ReactivationRows, ReactivationRow
  <2>3. "reactivate" \in Actions
    BY DEF Actions
  <2> QED
    BY <1>b, <2>1, <2>2, <2>3
<1> QED
  BY <1>1, <1>2, <1>3, <1>4, <1>5, <1>6, <1>7, <1>8, <1>9, <1>10, <1>11, <1>12, NextCases

-----------------------------------------------------------------------------
(* The theorems.                                                           *)

\* The invariant holds in every reachable state.
THEOREM Invariance == Spec => []IInv
<1>1. Init => IInv
  <2> SUFFICES ASSUME Init PROVE IInv
    OBVIOUS
  <2>1. PICK s \in Inherited : actions = s
    BY DEF Init
  <2>2. TypeOK
    <3>1. s \in Seq(Row) /\ \A i \in DOMAIN s : s[i].tx = NoTx
      <4>1. CASE s = <<>>
        BY <4>1
      <4>2. CASE s # <<>>
        <5>1. PICK o \in {"requested", "failed"} :
                s = <<[action |-> "deactivate", state |-> "null", outcome |-> o, tx |-> NoTx]>>
          BY <4>2 DEF Inherited
        <5> DEFINE v == [action |-> "deactivate", state |-> "null", outcome |-> o, tx |-> NoTx]
        <5>2. v \in Row /\ v.tx = NoTx
          BY DEF Row, Actions, Requestable, States, Outcomes
        <5> HIDE DEF v
        <5>3. s = <<v>>
          BY <5>1 DEF v
        <5> QED
          BY <5>2, <5>3
      <4> QED
        BY <4>1, <4>2
    <3> QED
      BY <2>1, <3>1, ValidatorActionsAssumption DEF Init, TypeOK, Phases
  <2>3. DOMAIN chain = {} /\ pc = "tick" /\ toCheck = {}
    BY DEF Init
  <2>4. \A i \in DOMAIN actions : i = 1 /\ actions[i].state = "null" /\ actions[i].action = "deactivate"
    BY <2>1 DEF Inherited
  <2> QED
    BY <2>2, <2>3, <2>4
    DEF IInv, ClaimHeld, RowsKnown, RequestSentOnce, ConfirmedIsFinal, ReactivationRows,
        ReactivationRow, ReactivationClear, OneOutstanding, Outstanding
<1>2. IInv /\ [Next]_vars => IInv'
  BY TypeNext, ClaimHeldNext, SentOnceNext, ConfirmedNext, ReactivationRowsNext,
     ReactivationClearNext, OneOutstandingNext DEF IInv
<1> QED
  BY <1>1, <1>2, PTL DEF Spec

\* The state of the table, the daemon's and the chain's are of their types
\* (TypeOK); a row's transaction is always one the node was given.
THEOREM TypeCorrect == Spec => []TypeOK
<1>1. IInv => TypeOK
  BY DEF IInv
<1> QED
  BY <1>1, Invariance, PTL

\* However often requests are read, claimed, released and cancelled, and wherever
\* the daemon stops, a request is signed at most once, and a row with a transaction
\* on its way is past "requested" for good (processRequestedActions).
THEOREM SentOnce == Spec => []RequestSentOnce
<1>1. IInv => RequestSentOnce
  BY DEF IInv
<1> QED
  BY <1>1, Invariance, PTL

\* There is at most one outstanding row of each action, the operator's and the
\* daemon's own (queueAndAuditValidatorAction, runAutoReactivate).
THEOREM OneAtATime == Spec => []OneOutstanding
<1>1. IInv => OneOutstanding
  BY DEF IInv
<1> QED
  BY <1>1, Invariance, PTL

\* A row reads confirmed only if its transaction is final and succeeded
\* (checkSubmittedValidatorActions).
THEOREM ConfirmedTrue == Spec => []ConfirmedIsFinal
<1>1. IInv => ConfirmedIsFinal
  BY DEF IInv
<1> QED
  BY <1>1, Invariance, PTL

\* A row whose state is an end state never changes again, whatever lists of ids the
\* daemon or the operator still hold.
THEOREM EndsStay == Spec => EndStatesStay
<1> DEFINE End(r) == r.state \in {"confirmed", "failed", "cancelled"}
<1>1. ASSUME IInv, [Next]_vars
      PROVE  \A i \in DOMAIN actions : End(actions[i]) => actions'[i] = actions[i]
  <2> USE <1>1 DEF IInv
  <2>0. ASSUME NEW i, NEW st, NEW o, NEW t, Rewritten(i, st, o, t), ~End(actions[i])
        PROVE  \A j \in DOMAIN actions : End(actions[j]) => actions'[j] = actions[j]
    BY <2>0 DEF Rewritten
  <2>1. CASE Quiet
    BY <2>1, QuietFacts
  <2>2. CASE ChainStep
    BY <2>2, ChainStepFacts
  <2>3. ASSUME NEW a \in Requestable, QueueValidatorAction(a)
        PROVE  \A i \in DOMAIN actions : actions'[i] = actions[i]
    BY <2>3, QueueFacts DEF Added
  <2>4. ASSUME NEW a \in Requestable, RunValidatorCLI(a)
        PROVE  actions' = actions
    BY <2>4, CLIFacts
  <2>5. ASSUME NEW i \in DOMAIN actions, CancelAction(i)
        PROVE  \A j \in DOMAIN actions : End(actions[j]) => actions'[j] = actions[j]
    BY <2>0, <2>5, CancelFacts DEF IsRequested
  <2>6. ASSUME NEW i \in todo, MarkProcessing(i)
        PROVE  \A j \in DOMAIN actions : End(actions[j]) => actions'[j] = actions[j]
    BY <2>0, <2>6, MarkFacts DEF IsRequested
  <2>7. CASE ReleaseProcessing
    BY <2>0, <2>7, ReleaseFacts DEF ClaimHeld
  <2>8. CASE SignAndSend
    BY <2>8, SignFacts
  <2>9. CASE RecordAnswer
    BY <2>0, <2>9, RecordFacts DEF ClaimHeld
  <2>10. ASSUME NEW i \in toCheck, CompleteSubmitted(i)
         PROVE  \A j \in DOMAIN actions : End(actions[j]) => actions'[j] = actions[j]
    BY <2>0, <2>10, CompleteFacts DEF IsSubmitted
  <2>11. CASE SendReactivate
    BY <2>11, SendReactivateFacts
  <2>12. CASE InsertReactivation
    BY <2>12, InsertReactivationFacts DEF Added
  <2> QED
    BY <2>1, <2>2, <2>3, <2>4, <2>5, <2>6, <2>7, <2>8, <2>9, <2>10, <2>11, <2>12, NextCases
<1>2. IInv /\ [Next]_vars =>
        [\A i \in DOMAIN actions : actions[i].state \in {"confirmed", "failed", "cancelled"} =>
           actions'[i] = actions[i]]_vars
  BY <1>1
<1> QED
  BY <1>2, Invariance, PTL DEF Spec, EndStatesStay

\* A reactivation goes out only while the operator's outstanding requests are no
\* more than requests: none is claimed or on its way (runAutoReactivate).
THEOREM Yields == Spec => ReactivationYields
<1> DEFINE Sends == Len(chain') > Len(chain) /\ chain'[Len(chain')].action = "reactivate"
           Clear == \A a \in Requestable : \A i \in Outstanding(a) : IsRequested(actions[i])
<1>1. ASSUME IInv, [Next]_vars, Sends
      PROVE  Clear
  <2> USE <1>1 DEF IInv
  <2>0. Len(chain) \in Nat
    BY DEF TypeOK
  <2>1. CASE Quiet
    BY <2>0, <2>1, QuietFacts
  <2>2. CASE ChainStep
    BY <2>0, <2>2, ChainStepFacts
  <2>3. ASSUME NEW a \in Requestable, QueueValidatorAction(a)
        PROVE  FALSE
    BY <2>0, <2>3, QueueFacts
  <2>4. ASSUME NEW a \in Requestable, RunValidatorCLI(a)
        PROVE  FALSE
    BY <2>4, CLIFacts DEF SentAs, Requestable
  <2>5. ASSUME NEW i \in DOMAIN actions, CancelAction(i)
        PROVE  FALSE
    BY <2>0, <2>5, CancelFacts
  <2>6. ASSUME NEW i \in todo, MarkProcessing(i)
        PROVE  FALSE
    BY <2>0, <2>6, MarkFacts
  <2>7. CASE ReleaseProcessing
    BY <2>0, <2>7, ReleaseFacts
  <2>8. CASE SignAndSend
    <3>1. actions[cur].action = "reactivate" /\ cur \in DOMAIN actions /\ actions[cur].state = "processing"
      BY <2>8, SignFacts DEF SentAs, ClaimHeld
    <3> QED
      BY <3>1 DEF ReactivationRows, ReactivationRow
  <2>9. CASE RecordAnswer
    BY <2>0, <2>9, RecordFacts
  <2>10. ASSUME NEW i \in toCheck, CompleteSubmitted(i)
         PROVE  FALSE
    BY <2>0, <2>10, CompleteFacts
  <2>11. CASE SendReactivate
    BY <2>11, SendReactivateFacts DEF ReactivationClear
  <2>12. CASE InsertReactivation
    BY <2>0, <2>12, InsertReactivationFacts
  <2> QED
    BY <2>1, <2>2, <2>3, <2>4, <2>5, <2>6, <2>7, <2>8, <2>9, <2>10, <2>11, <2>12, NextCases
<1>2. IInv /\ [Next]_vars => [Sends => Clear]_vars
  BY <1>1
<1> QED
  BY <1>2, Invariance, PTL DEF Spec, ReactivationYields
=============================================================================
