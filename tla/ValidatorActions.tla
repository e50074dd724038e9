-------------------------- MODULE ValidatorActions --------------------------
(***************************************************************************)
(* How a validator action travels: the operator queues or cancels it       *)
(* through the API process (operator_operations_handlers.go), the daemon   *)
(* claims, signs, submits and later confirms it, and reactivates a jailed  *)
(* validator by itself (internal/pool/lifecycle.go). Both sides meet in    *)
(* the validator_actions table only, one statement at a time.              *)
(***************************************************************************)
EXTENDS Integers, Sequences, FiniteSets

CONSTANTS
  NoTx,          \* SQL NULL in the tx_hash column
  PageLimit,     \* LIMIT of the query behind checkSubmittedValidatorActions
  MaxRequests,   \* bound: rows of validator_actions while the operator adds some
  MaxRows,       \* bound: rows of validator_actions
  MaxSends,      \* bound: transactions that reach the node
  MaxJails,      \* bound: times the validator is jailed
  MaxFaults      \* bound: crashes, shutdowns and database errors

ASSUME ValidatorActionsAssumption ==
  /\ NoTx \notin Nat
  /\ PageLimit \in Nat /\ MaxSends \in Nat /\ MaxJails \in Nat /\ MaxFaults \in Nat
  /\ MaxRequests \in Nat /\ MaxRows \in Nat /\ MaxRequests < MaxRows

Requestable == {"deactivate", "retire"}
Actions     == Requestable \cup {"reactivate"}
States      == {"null", "requested", "processing", "submitted", "confirmed",
                "failed", "cancelled"}
Outcomes    == {"requested", "pending", "failed", "cancelled"}

VARIABLES
  \* the table
  actions,   \* sequence of [action, state, outcome, tx], the id being the index
  \* the chain, as the node sees it
  chain,     \* sequence of [action, row, status]: the transactions it was given,
             \* and (history) the request each was signed for, 0 if none
  jail,      \* "free"; "cooling" while JailedFrom > head; "ready" once it is not
  \* the daemon: lost in a crash
  pc,        \* where in its tick it is
  todo,      \* ProcessRequestedActions: ids left
  toCheck,   \* checkSubmittedValidatorActions: ids left
  cur,       \* the id it has claimed, 0 if none
  answer,    \* the hash SendTransaction returned, NoTx for an error
  \* bookkeeping of the model
  jails,     \* times the validator was jailed
  faults     \* crashes, shutdowns and database errors so far

local == <<todo, toCheck, cur, answer>>
vars  == <<actions, chain, jail, pc, local, jails, faults>>

Row     == [action : Actions, state : States, outcome : Outcomes, tx : Nat \cup {NoTx}]
ChainTx == [action : Actions, row : Nat,
            status : {"sent", "included_ok", "included_bad", "ok", "bad"}]
Phases  == {"tick", "requests", "claimed", "answered", "check", "react",
            "react_send", "react_record", "down"}

TypeOK ==
  /\ actions \in Seq(Row)
  /\ chain \in Seq(ChainTx)
  /\ jail \in {"free", "cooling", "ready"}
  /\ pc \in Phases
  /\ todo \subseteq DOMAIN actions
  /\ toCheck \subseteq DOMAIN actions
  /\ cur \in {0} \cup DOMAIN actions
  /\ answer \in {NoTx} \cup DOMAIN chain
  /\ \A i \in DOMAIN actions : actions[i].tx \in {NoTx} \cup DOMAIN chain
  /\ jails \in 0..MaxJails
  /\ faults \in 0..MaxFaults

\* A table from before the state column: rows whose outcome is their state.
Inherited ==
  {<<>>} \cup {<<[action |-> "deactivate", state |-> "null", outcome |-> o, tx |-> NoTx]>> :
                 o \in {"requested", "failed"}}

Init ==
  /\ actions \in Inherited
  /\ chain = <<>>
  /\ jail = "free"
  /\ pc = "tick"
  /\ todo = {} /\ toCheck = {} /\ cur = 0 /\ answer = NoTx
  /\ jails = 0 /\ faults = 0

-----------------------------------------------------------------------------
(* The table's answers. A NULL state is read through the outcome column.   *)

IsRequested(r) == r.state = "requested" \/ (r.state = "null" /\ r.outcome = "requested")

IsSubmitted(r) == r.state = "submitted" \/ (r.state = "null" /\ r.outcome = "pending")

IsOutstanding(r) == IsRequested(r) \/ r.state = "processing" \/ IsSubmitted(r)

\* Mutant: a claimed action is forgotten.
OutstandingUnclaimed(a) ==
  {i \in DOMAIN actions : actions[i].action = a
                          /\ (IsRequested(actions[i]) \/ IsSubmitted(actions[i]))}

\* Query HasOutstandingValidatorAction, and the NOT EXISTS clause of
\* InsertRequestedValidatorAction.
Outstanding(a) ==
  {i \in DOMAIN actions : actions[i].action = a /\ IsOutstanding(actions[i])}

\* Query HasPendingValidatorAction: it looks at the outcome column alone.
HasPending(a) ==
  \E i \in DOMAIN actions : actions[i].action = a /\ actions[i].outcome = "pending"

\* Query GetRequestedValidatorActions.
GetRequestedValidatorActions == {i \in DOMAIN actions : IsRequested(actions[i])}

\* Query ListValidatorActions for status submitted: the newest PageLimit rows.
ListSubmitted ==
  LET S == {i \in DOMAIN actions : IsSubmitted(actions[i])}
  IN  {i \in S : Cardinality({j \in S : j > i}) < PageLimit}

\* Row i with its state, outcome and transaction replaced.
Update(i, st, out, t) ==
  [actions EXCEPT ![i] = [action |-> actions[i].action, state |-> st, outcome |-> out, tx |-> t]]

\* The node gets a transaction for action a, signed for request i. Its number
\* stands for its hash.
Deliver(a, i) == Append(chain, [action |-> a, row |-> i, status |-> "sent"])

-----------------------------------------------------------------------------
(* The operator, through the API process or the command line.              *)

\* queueAndAuditValidatorAction: refused while one is outstanding.
QueueValidatorAction(a) ==
  /\ Len(actions) < MaxRequests
  /\ Outstanding(a) = {}
  /\ actions' = Append(actions, [action |-> a, state |-> "requested",
                                 outcome |-> "requested", tx |-> NoTx])
  /\ UNCHANGED <<chain, jail, pc, local, jails, faults>>

\* CancelRequestedValidatorAction: refused once the daemon has claimed it.
CancelAction(i) ==
  /\ IsRequested(actions[i])
  /\ actions' = Update(i, "cancelled", "cancelled", actions[i].tx)
  /\ UNCHANGED <<chain, jail, pc, local, jails, faults>>

\* "gopool validator deactivate|retire" signs and sends past the table.
RunValidatorCLI(a) ==
  /\ Len(chain) < MaxSends
  /\ chain' = Deliver(a, 0)
  /\ UNCHANGED <<actions, jail, pc, local, jails, faults>>

-----------------------------------------------------------------------------
(* ProcessRequestedActions                                                 *)

\* The requested ids are read once, before the loop.
ProcessRequestedActions ==
  /\ pc = "tick"
  /\ pc' = "requests"
  /\ todo' = GetRequestedValidatorActions
  /\ UNCHANGED <<actions, chain, jail, toCheck, cur, answer, jails, faults>>

\* Mutant: the claim trusts the list read before the loop.
ClaimableOnList(i) == i \in DOMAIN actions

\* The WHERE clause of MarkValidatorActionProcessing.
Claimable(i) == IsRequested(actions[i])

\* The next request in id order.
NextRequest(i) == i \in todo /\ \A j \in todo : i <= j

\* MarkValidatorActionProcessing claims the request before signing.
MarkProcessing(i) ==
  /\ pc = "requests"
  /\ NextRequest(i)
  /\ Claimable(i)
  /\ actions' = Update(i, "processing", actions[i].outcome, actions[i].tx)
  /\ todo' = todo \ {i}
  /\ cur' = i
  /\ pc' = "claimed"
  /\ UNCHANGED <<chain, jail, toCheck, answer, jails, faults>>

\* A concurrent cancellation won: no row, on to the next request.
SkipRequest(i) ==
  /\ pc = "requests"
  /\ NextRequest(i)
  /\ ~Claimable(i)
  /\ todo' = todo \ {i}
  /\ UNCHANGED <<actions, chain, jail, pc, toCheck, cur, answer, jails, faults>>

\* Mutant: the row is given back after signing as well.
ReleaseAfterSend ==
  /\ pc \in {"claimed", "answered"}
  /\ faults < MaxFaults
  /\ faults' = faults + 1
  /\ actions' = Update(cur, "requested", actions[cur].outcome, actions[cur].tx)
  /\ pc' = "down"
  /\ todo' = {} /\ cur' = 0 /\ answer' = NoTx
  /\ UNCHANGED <<chain, jail, toCheck, jails>>

\* Shut down before signing: recoverClaimedValidatorAction gives the row back.
ReleaseProcessing ==
  /\ pc = "claimed"
  /\ faults < MaxFaults
  /\ faults' = faults + 1
  /\ actions' = Update(cur, "requested", actions[cur].outcome, actions[cur].tx)
  /\ pc' = "down"
  /\ todo' = {} /\ cur' = 0
  /\ UNCHANGED <<chain, jail, toCheck, answer, jails>>

\* Deactivate and Retire: the node gets the transaction and answers with its
\* hash, or the answer is lost and the call returns an error.
SignAndSend ==
  /\ pc = "claimed"
  /\ Len(chain) < MaxSends
  /\ pc' = "answered"
  /\ chain' = Deliver(actions[cur].action, cur)
  /\ answer' \in {Len(chain'), NoTx}
  /\ UNCHANGED <<actions, jail, todo, toCheck, cur, jails, faults>>

\* The call fails before the node has the transaction.
SignOrSendFails ==
  /\ pc = "claimed"
  /\ pc' = "answered"
  /\ answer' = NoTx
  /\ UNCHANGED <<actions, chain, jail, todo, toCheck, cur, jails, faults>>

\* SubmitValidatorAction, or UpdateValidatorActionState with failed.
Recorded ==
  IF answer = NoTx THEN Update(cur, "failed", actions[cur].outcome, actions[cur].tx)
  ELSE Update(cur, "submitted", "pending", answer)

RecordAnswer ==
  /\ pc = "answered"
  /\ actions' = Recorded
  /\ pc' = "requests"
  /\ cur' = 0 /\ answer' = NoTx
  /\ UNCHANGED <<chain, jail, todo, toCheck, jails, faults>>

\* A statement of the loop fails: the rest of the phase is left out, and a row
\* claimed by now stays as it is.
RequestsFail ==
  /\ pc \in {"requests", "answered"}
  /\ faults < MaxFaults
  /\ faults' = faults + 1
  /\ pc' = "react"
  /\ todo' = {} /\ cur' = 0 /\ answer' = NoTx
  /\ UNCHANGED <<actions, chain, jail, toCheck, jails>>

-----------------------------------------------------------------------------
(* checkSubmittedValidatorActions                                          *)

CheckSubmitted ==
  /\ pc = "requests"
  /\ todo = {}
  /\ pc' = "check"
  /\ toCheck' = {i \in ListSubmitted : actions[i].tx # NoTx}
  /\ UNCHANGED <<actions, chain, jail, todo, cur, answer, jails, faults>>

\* Mutant: included is as good as final.
FinalStateOnInclusion(t) ==
  IF chain[t].status \in {"included_ok", "ok"} THEN {"confirmed"}
  ELSE IF chain[t].status \in {"included_bad", "bad"} THEN {"failed"} ELSE {}

\* Mutant: the status word of the transactions table.
FinalStateCompleted(t) ==
  IF chain[t].status = "ok" THEN {"completed"}
  ELSE IF chain[t].status = "bad" THEN {"failed"} ELSE {}

\* The state that the confirmation of transaction t calls for, if it is final.
FinalState(t) ==
  IF chain[t].status = "ok" THEN {"confirmed"}
  ELSE IF chain[t].status = "bad" THEN {"failed"} ELSE {}

\* CompleteSubmittedValidatorAction: the state changes, the outcome stays.
CompleteSubmitted(i) ==
  /\ pc = "check"
  /\ IsSubmitted(actions[i])
  /\ \E st \in FinalState(actions[i].tx) :
       actions' = Update(i, st, actions[i].outcome, actions[i].tx)
  /\ toCheck' = toCheck \ {i}
  /\ UNCHANGED <<chain, jail, pc, todo, cur, answer, jails, faults>>

\* Not found, not final, or the call failed.
LeaveSubmitted(i) ==
  /\ pc = "check"
  /\ toCheck' = toCheck \ {i}
  /\ UNCHANGED <<actions, chain, jail, pc, todo, cur, answer, jails, faults>>

EndCheck ==
  /\ pc = "check"
  /\ toCheck = {}
  /\ pc' = "react"
  /\ UNCHANGED <<actions, chain, jail, local, jails, faults>>

-----------------------------------------------------------------------------
(* runAutoReactivate                                                       *)

\* Mutant: the operator's requests are not looked at.
MayReactivateOverOperator == jail = "ready" /\ ~HasPending("reactivate")

\* The cooldown has elapsed, no reactivation is pending and no request of the
\* operator is outstanding.
MayReactivate ==
  /\ jail = "ready"
  /\ ~HasPending("reactivate")
  /\ \A a \in Requestable : Outstanding(a) = {}

RunAutoReactivate ==
  /\ pc = "react"
  /\ MayReactivate
  /\ Len(actions) < MaxRows
  /\ pc' = "react_send"
  /\ UNCHANGED <<actions, chain, jail, local, jails, faults>>

\* Nothing to do, auto_reactivate is off, or a query failed.
NoReactivation ==
  /\ pc = "react"
  /\ pc' = "tick"
  /\ UNCHANGED <<actions, chain, jail, local, jails, faults>>

SendReactivate ==
  /\ pc = "react_send"
  /\ Len(chain) < MaxSends
  /\ pc' = "react_record"
  /\ chain' = Deliver("reactivate", 0)
  /\ answer' \in {Len(chain'), NoTx}
  /\ UNCHANGED <<actions, jail, todo, toCheck, cur, jails, faults>>

\* The transaction is not built or signed: the tick ends with no row.
SignReactivateFails ==
  /\ pc = "react_send"
  /\ pc' = "tick"
  /\ UNCHANGED <<actions, chain, jail, local, jails, faults>>

\* The node does not get the transaction.
SendReactivateFails ==
  /\ pc = "react_send"
  /\ pc' = "react_record"
  /\ answer' = NoTx
  /\ UNCHANGED <<actions, chain, jail, todo, toCheck, cur, jails, faults>>

\* InsertValidatorAction: a row without a state, pending or failed.
InsertReactivation ==
  /\ pc = "react_record"
  /\ actions' = Append(actions, [action |-> "reactivate", state |-> "null", tx |-> answer,
                                 outcome |-> IF answer = NoTx THEN "failed" ELSE "pending"])
  /\ answer' = NoTx
  /\ pc' = "tick"
  /\ UNCHANGED <<chain, jail, todo, toCheck, cur, jails, faults>>

\* The insert fails: the transaction is out and no row knows of it.
InsertReactivationFails ==
  /\ pc = "react_record"
  /\ faults < MaxFaults
  /\ faults' = faults + 1
  /\ answer' = NoTx
  /\ pc' = "tick"
  /\ UNCHANGED <<actions, chain, jail, todo, toCheck, cur, jails>>

-----------------------------------------------------------------------------
(* The daemon stops, at any statement or call, and starts again.           *)

Crash ==
  /\ pc # "down"
  /\ faults < MaxFaults
  /\ faults' = faults + 1
  /\ pc' = "down"
  /\ todo' = {} /\ toCheck' = {} /\ cur' = 0 /\ answer' = NoTx
  /\ UNCHANGED <<actions, chain, jail, jails>>

Restart ==
  /\ pc = "down"
  /\ pc' = "tick"
  /\ UNCHANGED <<actions, chain, jail, local, jails, faults>>

-----------------------------------------------------------------------------
(* The chain: a transaction is included, perhaps reverted, then final; a   *)
(* final reactivation frees a validator whose cooldown is over.            *)

SetStatus(t, st) == chain' = [chain EXCEPT ![t] = [action |-> chain[t].action,
                                                   row |-> chain[t].row, status |-> st]]

Include(t) ==
  /\ chain[t].status = "sent"
  /\ \/ SetStatus(t, "included_bad")
     \/ /\ chain[t].action = "reactivate" => jail = "ready"
        /\ SetStatus(t, "included_ok")
  /\ UNCHANGED <<actions, jail, pc, local, jails, faults>>

Revert(t) ==
  /\ chain[t].status \in {"included_ok", "included_bad"}
  /\ SetStatus(t, "sent")
  /\ UNCHANGED <<actions, jail, pc, local, jails, faults>>

MakeFinal(t) ==
  /\ \/ /\ chain[t].status = "included_ok"
        /\ SetStatus(t, "ok")
        /\ jail' = IF chain[t].action = "reactivate" THEN "free" ELSE jail
     \/ /\ chain[t].status = "included_bad"
        /\ SetStatus(t, "bad")
        /\ UNCHANGED jail
  /\ UNCHANGED <<actions, pc, local, jails, faults>>

Jail ==
  /\ jail = "free"
  /\ jails < MaxJails
  /\ jail' = "cooling"
  /\ jails' = jails + 1
  /\ UNCHANGED <<actions, chain, pc, local, faults>>

CoolDown ==
  /\ jail = "cooling"
  /\ jail' = "ready"
  /\ UNCHANGED <<actions, chain, pc, local, jails, faults>>

-----------------------------------------------------------------------------
Operator ==
  \/ \E a \in Requestable : QueueValidatorAction(a) \/ RunValidatorCLI(a)
  \/ \E i \in DOMAIN actions : CancelAction(i)

Requests ==
  \/ ProcessRequestedActions
  \/ \E i \in todo : MarkProcessing(i) \/ SkipRequest(i)
  \/ SignAndSend \/ SignOrSendFails \/ RecordAnswer
  \/ CheckSubmitted
  \/ \E i \in toCheck : CompleteSubmitted(i) \/ LeaveSubmitted(i)
  \/ EndCheck

Reactivation ==
  \/ RunAutoReactivate \/ NoReactivation
  \/ SendReactivate \/ SignReactivateFails \/ SendReactivateFails
  \/ InsertReactivation

Faults ==
  \/ ReleaseProcessing \/ RequestsFail \/ InsertReactivationFails
  \/ Crash

Chain ==
  \/ \E t \in DOMAIN chain : Include(t) \/ Revert(t) \/ MakeFinal(t)
  \/ Jail \/ CoolDown

Next == Operator \/ Requests \/ Reactivation \/ Faults \/ Restart \/ Chain

Spec == Init /\ [][Next]_vars

\* The daemon keeps ticking and is restarted; the node answers in the end, and
\* what it answers is final in the end; a configured reactivation is not put
\* off for ever. The operator owes nothing.
Fairness ==
  /\ WF_vars(Requests \/ Reactivation \/ Restart)
  /\ SF_vars(\E i \in toCheck : CompleteSubmitted(i))
  /\ SF_vars(RunAutoReactivate)
  /\ SF_vars(\E t \in DOMAIN chain : MakeFinal(t))

FairSpec == Spec /\ Fairness

-----------------------------------------------------------------------------
(* What the lifecycle guarantees.                                          *)

\* There is never more than one outstanding row of an action: two operators, a
\* request racing the daemon's claim, a shutdown that releases the claim, and a
\* reactivation the daemon starts by itself all leave one at most. Hence the
\* page checkSubmittedValidatorActions reads, newest first, starves no row.
OneOutstanding ==
  \A a \in Actions : \A i, j \in Outstanding(a) : i = j

\* A request is signed at most once, and one that reads requested or cancelled
\* was never signed: a row with a transaction on its way is past "requested" for
\* good, whatever list of ids the daemon holds and wherever it stopped.
RequestSentOnce ==
  /\ \A s, t \in DOMAIN chain : chain[s].row = chain[t].row /\ chain[s].row # 0 => s = t
  /\ \A t \in DOMAIN chain : chain[t].row # 0 =>
       actions[chain[t].row].state \in {"processing", "submitted", "confirmed", "failed"}

\* An action reads confirmed only if its transaction is final and succeeded.
ConfirmedIsFinal ==
  \A i \in DOMAIN actions : actions[i].state = "confirmed" =>
    actions[i].tx # NoTx /\ chain[actions[i].tx].status = "ok"

\* Confirmed, failed and cancelled are the end: no late answer, cancellation,
\* confirmation or claim from a list read earlier changes such a row.
EndStatesStay ==
  [][\A i \in DOMAIN actions : actions[i].state \in {"confirmed", "failed", "cancelled"} =>
       actions'[i] = actions[i]]_vars

\* The daemon never sends a reactivation while a request of the operator is
\* claimed or submitted; one that arrives after the check is still requested,
\* and is sent after the reactivation.
ReactivationYields ==
  [][Len(chain') > Len(chain) /\ chain'[Len(chain')].action = "reactivate" =>
       \A a \in Requestable : \A i \in Outstanding(a) : IsRequested(actions[i])]_vars

\* The comment on runAutoReactivate: the pending outcome that guards against
\* resending is cleared once the validator is no longer jailed.
PendingClears ==
  (jail = "free" /\ HasPending("reactivate"))
    ~> (jail # "free" \/ ~HasPending("reactivate"))
=============================================================================
