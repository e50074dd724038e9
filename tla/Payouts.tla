------------------------------ MODULE Payouts ------------------------------
(***************************************************************************)
(* How GoPool pays its stakers: the daemon's payout pipeline               *)
(* (internal/pool/payout.go, confirmation.go, stuck.go), the operator's    *)
(* retry and skip requests arriving from the API process at any moment     *)
(* (internal/api), the three SQLite tables they share, and the chain the   *)
(* payouts land on.                                                        *)
(*                                                                         *)
(* The daemon is one goroutine; a step of this module is one statement or  *)
(* one transaction on the database, or one call to the node, so that the   *)
(* API, the chain and a crash can come between any two of them.            *)
(***************************************************************************)
EXTENDS Integers, Sequences, FiniteSets, FiniteSetsExt

CONSTANTS
  Addrs,        \* staker addresses
  Slips,        \* ids of the payslips that checkpoints will ever insert
  Epochs,       \* epochs those payslips belong to
  Owner,        \* Owner[s], the address payslip s is owed to
  Amount,       \* Amount[s], what payslip s is worth, in luna
  EpochOf,      \* EpochOf[s], through the reward row of the payslip's batch
  MinPayout,    \* config: min_payout_luna
  StuckAfter,   \* config and policy: StuckPayoutEpochs * BlocksPerEpoch
  Window,       \* chain: blocks during which a transaction may be included
  FinalLag,     \* chain: blocks within which an inclusion becomes final
  DryRunModes,  \* config: the values dry_run takes across restarts
  NoTx,         \* SQL NULL in a tx_hash column
  MaxHead,      \* bound: height of the last block
  MaxSubmit,    \* bound: last height at which a payout is submitted
  MaxAudits,    \* bound: rows of audit_logs
  MaxFaults     \* bound: crashes and database errors

Total(S) == MapThenSumSet(LAMBDA s : Amount[s], S)

Totals == {Total(S) : S \in SUBSET Slips}

\* A transaction hash is a function of what is signed: the recipient, the
\* amount and the validity start height. The fee and the kind of the transfer
\* are left out: two payouts that differ only in them count as one here.
Hash == [addr : Addrs, amount : Totals, head : Nat]

ASSUME PayoutsAssumption ==
  /\ Owner \in [Slips -> Addrs]
  /\ EpochOf \in [Slips -> Epochs]
  /\ Amount \in [Slips -> Nat \ {0}]
  /\ MinPayout \in Nat
  /\ StuckAfter \in Nat /\ Window \in Nat /\ FinalLag \in Nat
  /\ DryRunModes \subseteq BOOLEAN
  /\ MaxHead \in Nat /\ MaxSubmit \in Nat
  /\ MaxAudits \in Nat /\ MaxFaults \in Nat

ASSUME NoTxAssumption == NoTx \notin Hash

\* What a retry rests on and no line of the code checks: by the time a payout
\* counts as stuck, its transaction can no longer enter the chain and any
\* inclusion of it is final.
ASSUME StuckOutlivesTransaction ==
  StuckAfter > 0 => StuckAfter + 1 >= Window + FinalLag

VARIABLES
  \* the database, shared by the daemon and the API
  payslips,      \* [Slips -> [status, tx]]
  audit_logs,    \* sequence of payout rows, the id being the index
  transactions,  \* hash -> status, for the hashes inserted
  epochs,        \* [Epochs -> status]
  \* the chain, as the node the daemon talks to sees it
  head,          \* its height
  chain,         \* hash -> what became of a transaction that reached the node
  \* the daemon: lost in a crash
  pc,            \* where in its tick it is
  dryRun,        \* the dry_run flag of the running configuration
  rows,          \* runPayouts: the eligible rows left
  approved,      \* processApprovedPayouts: the audit rows left
  unsettled,     \* runConfirmations: the pending transactions left
  seen,          \* the height this phase read when it began
  cur,           \* the transaction being broadcast or settled
  outcome,       \* the status being given to it
  \* bookkeeping of the model
  covers,        \* history: hash -> the payslips a submission took on
  faults         \* crashes and database errors so far

db     == <<payslips, audit_logs, transactions, epochs>>
local  == <<rows, approved, unsettled, seen, cur, outcome>>
vars   == <<db, head, chain, pc, dryRun, local, covers, faults>>

SlipStatus  == {"absent", "pending", "awaiting_confirmation", "completed", "failed"}
AuditStatus == {"approved", "dry_run", "executed", "skipped"}
TxStatus    == {"awaiting_confirmation", "completed", "failed"}
ChainStatus == {"sent", "included_ok", "included_bad", "ok", "bad"}
Phases      == {"tick", "payouts", "approved", "broadcast", "confirm", "settle", "down"}

TypeOK ==
  /\ payslips \in [Slips -> [status : SlipStatus, tx : Hash \cup {NoTx}]]
  /\ audit_logs \in Seq([addr : Addrs, amount : Totals, status : AuditStatus,
                         tx : Hash \cup {NoTx}])
  /\ epochs \in [Epochs -> {"in_progress", "completed"}]
  /\ DOMAIN transactions \subseteq Hash
  /\ \A h \in DOMAIN transactions : transactions[h] \in TxStatus
  /\ DOMAIN chain \subseteq Hash
  /\ \A h \in DOMAIN chain : chain[h] \in ChainStatus
  /\ head \in Nat /\ seen \in Nat
  /\ pc \in Phases
  /\ dryRun \in BOOLEAN
  /\ rows \subseteq [addr : Addrs, total : Totals]
  /\ approved \subseteq 1..Len(audit_logs)
  /\ unsettled \subseteq DOMAIN transactions
  /\ cur \in Hash \cup {NoTx}
  /\ outcome \in TxStatus
  /\ DOMAIN covers = DOMAIN transactions
  /\ \A h \in DOMAIN covers : covers[h] \subseteq Slips
  /\ faults \in 0..MaxFaults

Init ==
  /\ payslips = [s \in Slips |-> [status |-> "absent", tx |-> NoTx]]
  /\ audit_logs = <<>>
  /\ transactions = <<>>
  /\ epochs = [e \in Epochs |-> "in_progress"]
  /\ head = 1
  /\ chain = <<>>
  /\ pc = "tick"
  /\ dryRun \in DryRunModes
  /\ rows = {} /\ approved = {} /\ unsettled = {}
  /\ seen = 0 /\ cur = NoTx /\ outcome = "failed"
  /\ covers = <<>>
  /\ faults = 0

Put(f, k, v) == [x \in DOMAIN f \cup {k} |-> IF x = k THEN v ELSE f[x]]

-----------------------------------------------------------------------------
(* The database's answers.                                                 *)

Pending(a) == {s \in Slips : Owner[s] = a /\ payslips[s].status = "pending"}

AwaitingOf(a) ==
  {h \in DOMAIN transactions : h.addr = a /\ transactions[h] = "awaiting_confirmation"}

ApprovedOf(a) ==
  {i \in DOMAIN audit_logs : audit_logs[i].addr = a /\ audit_logs[i].status = "approved"}

\* Mutant: the query forgets that a transaction may be awaiting confirmation.
EligibleWhileAwaiting(a) == ApprovedOf(a) = {} /\ Total(Pending(a)) >= MinPayout

\* The NOT EXISTS and HAVING clauses of GetEligibleForPayout: neither an approved
\* payout nor one awaiting confirmation, and at least the minimum owed.
Eligible(a) ==
  /\ ApprovedOf(a) = {}
  /\ AwaitingOf(a) = {}
  /\ Total(Pending(a)) >= MinPayout

\* Query GetEligibleForPayout: one row for every eligible address.
GetEligibleForPayout ==
  {[addr |-> a, total |-> Total(Pending(a))] :
     a \in {b \in Addrs : Pending(b) # {} /\ Eligible(b)}}

\* Query GetPendingTransactions.
GetPendingTransactions ==
  {h \in DOMAIN transactions : transactions[h] = "awaiting_confirmation"}

\* Mutant: row numbers taken from 0 where ids start at 1.
ApprovedFromZero ==
  {i \in 0..Len(audit_logs) : i = 0 \/ audit_logs[i].status = "approved"}

\* Query ListApprovedAuditLogs.
ListApprovedAuditLogs ==
  {i \in DOMAIN audit_logs : audit_logs[i].status = "approved"}

\* Query FinalizeCompletedEpochs: an epoch in progress all of whose payslips,
\* and there is one, are completed.
FinalizeCompletedEpochs ==
  LET inserted(e) == {s \in Slips : EpochOf[s] = e /\ payslips[s].status # "absent"}
  IN  [e \in Epochs |->
         IF /\ epochs[e] = "in_progress"
            /\ inserted(e) # {}
            /\ \A s \in inserted(e) : payslips[s].status = "completed"
         THEN "completed" ELSE epochs[e]]

\* Mutant: payslips are selected by address instead of by transaction.
SettleByAddress(h, st) ==
  [s \in Slips |-> IF payslips[s].tx # NoTx /\ Owner[s] = h.addr
                   THEN [status |-> st, tx |-> payslips[s].tx] ELSE payslips[s]]

\* Every payslip attached to h gets status st (FinalizePayslips and
\* UpdatePayslipStatusFailed: neither looks at the status the payslip has).
SettlePayslips(h, st) ==
  [s \in Slips |-> IF payslips[s].tx = h THEN [status |-> st, tx |-> payslips[s].tx]
                   ELSE payslips[s]]

\* Mutant: one block early.
IsStuckEarly(h, height) == height - h.head >= StuckAfter

\* Mutant: the age of a payout is never looked at.
NeverStuck(h, height) == FALSE

\* IsStuck for a recorded submission height. A height of 0 stands for the
\* failed read of the head that runConfirmations ignores, a threshold of 0 for
\* the setting that turns the check off.
IsStuck(h, height) == StuckAfter > 0 /\ height - h.head > StuckAfter

\* The updates of one audit row: its status and its transaction.
UpdateAuditLog(i, st, h) ==
  [audit_logs EXCEPT ![i] = [addr |-> audit_logs[i].addr, amount |-> audit_logs[i].amount,
                             status |-> st, tx |-> h]]

-----------------------------------------------------------------------------
(* runPayouts                                                              *)

\* Checkpoint processing, earlier in the same tick, inserts a payslip.
InsertPayslip(s) ==
  /\ pc = "tick"
  /\ payslips[s].status = "absent"
  /\ payslips' = [payslips EXCEPT ![s] = [status |-> "pending", tx |-> NoTx]]
  /\ UNCHANGED <<audit_logs, transactions, epochs, head, chain, pc, dryRun,
                 local, covers, faults>>

\* The eligible rows are read once, before the loop; an error of the query or
\* of the node's height or balance ends the phase with nothing done.
RunPayouts ==
  /\ pc = "tick"
  /\ pc' = "payouts"
  /\ rows' \in {GetEligibleForPayout, {}}
  /\ UNCHANGED <<db, head, chain, dryRun, approved, unsettled, seen, cur,
                 outcome, covers, faults>>

\* A row that clears the fee floor and fits the balance becomes an audit row
\* of the amount that was read, approved at once or recorded as a dry run.
InsertAuditLog(r) ==
  /\ pc = "payouts"
  /\ Len(audit_logs) < MaxAudits
  /\ rows' = rows \ {r}
  /\ audit_logs' = Append(audit_logs,
       [addr |-> r.addr, amount |-> r.total, tx |-> NoTx,
        status |-> IF dryRun THEN "dry_run" ELSE "approved"])
  /\ UNCHANGED <<payslips, transactions, epochs, head, chain, pc, dryRun,
                 approved, unsettled, seen, cur, outcome, covers, faults>>

\* A row held by the fee floor or by the balance, or dropped on an error.
HoldRow(r) ==
  /\ pc = "payouts"
  /\ rows' = rows \ {r}
  /\ UNCHANGED <<db, head, chain, pc, dryRun, approved, unsettled, seen, cur,
                 outcome, covers, faults>>

-----------------------------------------------------------------------------
(* processApprovedPayouts                                                  *)

\* The rows the loop goes over: none in dry run.
ApprovedToProcess == IF dryRun THEN {} ELSE ListApprovedAuditLogs

\* The approved rows and the height are read once, before the loop.
ProcessApprovedPayouts ==
  /\ pc = "payouts"
  /\ rows = {}
  /\ pc' = "approved"
  /\ approved' \in {ApprovedToProcess, {}}
  /\ seen' = head
  /\ UNCHANGED <<db, head, chain, dryRun, rows, unsettled, cur, outcome,
                 covers, faults>>

\* An approved row held by the balance, or on which building, signing or
\* persisting failed: it stays as it is for the next tick.
HoldApproved(i) ==
  /\ pc = "approved"
  /\ approved' = approved \ {i}
  /\ UNCHANGED <<db, head, chain, pc, dryRun, rows, unsettled, seen, cur,
                 outcome, covers, faults>>

PayoutHash(i) ==
  [addr |-> audit_logs[i].addr, amount |-> audit_logs[i].amount, head |-> seen]

\* One database transaction: claim the audit row if it is still approved, move
\* every payslip of the address that is pending now to the new transaction, and
\* insert the transaction unless its hash is taken or the address already has
\* one awaiting confirmation (the partial unique index).
PersistPayoutSubmission(i) ==
  LET h == PayoutHash(i)
      taken == Pending(h.addr)
  IN  /\ pc = "approved"
      /\ seen <= MaxSubmit
      /\ audit_logs[i].status = "approved"
      /\ h \notin DOMAIN transactions
      /\ AwaitingOf(h.addr) = {}
      /\ audit_logs' = UpdateAuditLog(i, "executed", h)
      /\ payslips' = [s \in Slips |->
           IF s \in taken THEN [status |-> "awaiting_confirmation", tx |-> h]
           ELSE payslips[s]]
      /\ transactions' = Put(transactions, h, "awaiting_confirmation")
      /\ covers' = Put(covers, h, taken)
      /\ approved' = approved \ {i}
      /\ cur' = h
      /\ pc' = "broadcast"
      /\ UNCHANGED <<epochs, head, chain, dryRun, rows, unsettled, seen,
                     outcome, faults>>

\* Mutant: after an error the transaction is rebuilt at the new head and resent.
DeliverRebuilt == {chain, Put(chain, cur, "sent"), Put(chain, [cur EXCEPT !.head = head], "sent")}

\* The node gets the transaction or it does not, and an error answer says
\* nothing about which.
Deliver == {chain, Put(chain, cur, "sent")}

\* SendTransaction: the loop goes on whatever the answer.
SendTransaction ==
  /\ pc = "broadcast"
  /\ pc' = "approved"
  /\ cur' = NoTx
  /\ chain' \in Deliver
  /\ UNCHANGED <<db, head, dryRun, rows, approved, unsettled, seen, outcome,
                 covers, faults>>

-----------------------------------------------------------------------------
(* runConfirmations                                                        *)

\* The pending transactions are read, then the height; a failed read of the
\* height leaves it 0.
RunConfirmations ==
  /\ pc = "approved"
  /\ approved = {}
  /\ pc' = "confirm"
  /\ unsettled' = GetPendingTransactions
  /\ seen' \in {head, 0}
  /\ UNCHANGED <<db, head, chain, dryRun, rows, approved, cur, outcome,
                 covers, faults>>

\* CheckTransaction says neither "final" nor, the payout being stuck, gives it
\* up; or the call failed.
LeavePending(h) ==
  /\ pc = "confirm"
  /\ unsettled' = unsettled \ {h}
  /\ UNCHANGED <<db, head, chain, pc, dryRun, rows, approved, seen, cur,
                 outcome, covers, faults>>

\* Mutant: an inclusion that is not final is taken for a result.
VerdictOnInclusion(h) ==
  LET known == h \in DOMAIN chain
  IN  IF known /\ chain[h] \in {"included_ok", "ok"} THEN {"completed"}
      ELSE IF known /\ chain[h] \in {"included_bad", "bad"} THEN {"failed"}
      ELSE IF IsStuck(h, seen) THEN {"failed"} ELSE {}

\* confirmationOutcome, and the two stuck branches: the status a transaction
\* gets, if any. Only a final result is decisive.
Verdicts(h) ==
  LET known == h \in DOMAIN chain
  IN  IF known /\ chain[h] = "ok" THEN {"completed"}
      ELSE IF known /\ chain[h] = "bad" THEN {"failed"}
      ELSE IF IsStuck(h, seen) THEN {"failed"} ELSE {}

\* SetTransactionStatus, the first of the two statements that settle a payout.
SetTransactionStatus(h) ==
  /\ pc = "confirm"
  /\ outcome' \in Verdicts(h)
  /\ transactions' = [transactions EXCEPT ![h] = outcome']
  /\ unsettled' = unsettled \ {h}
  /\ cur' = h
  /\ pc' = "settle"
  /\ UNCHANGED <<payslips, audit_logs, epochs, head, chain, dryRun, rows,
                 approved, seen, covers, faults>>

\* FinalizePayslips or UpdatePayslipStatusFailed, the second statement.
UpdatePayslips ==
  /\ pc = "settle"
  /\ payslips' = SettlePayslips(cur, outcome)
  /\ pc' = "confirm"
  /\ cur' = NoTx
  /\ UNCHANGED <<audit_logs, transactions, epochs, head, chain, dryRun, rows,
                 approved, unsettled, seen, outcome, covers, faults>>

\* The second statement fails: the error ends the tick, except that for a stuck
\* payout it is logged and the loop goes on.
UpdatePayslipsFails ==
  LET gaveUp == outcome = "failed" /\ ~(cur \in DOMAIN chain /\ chain[cur] = "bad")
  IN  /\ pc = "settle"
      /\ faults < MaxFaults
      /\ faults' = faults + 1
      /\ pc' = IF gaveUp THEN "confirm" ELSE "tick"
      /\ unsettled' = IF gaveUp THEN unsettled ELSE {}
      /\ cur' = NoTx
      /\ UNCHANGED <<db, head, chain, dryRun, rows, approved, seen, outcome, covers>>

\* Any other statement of the phase fails, and the tick ends with nothing done.
ConfirmationsFail ==
  /\ pc = "confirm"
  /\ pc' = "tick"
  /\ unsettled' = {}
  /\ UNCHANGED <<db, head, chain, dryRun, rows, approved, seen, cur, outcome,
                 covers, faults>>

\* The last statement of the tick.
FinishTick ==
  /\ pc = "confirm"
  /\ unsettled = {}
  /\ epochs' = FinalizeCompletedEpochs
  /\ pc' = "tick"
  /\ UNCHANGED <<payslips, audit_logs, transactions, head, chain, dryRun,
                 local, covers, faults>>

-----------------------------------------------------------------------------
(* The daemon stops and starts: a crash, a kill, a reload of the           *)
(* configuration. What it held in memory is lost.                          *)

Crash ==
  /\ pc # "down"
  /\ faults < MaxFaults
  /\ faults' = faults + 1
  /\ pc' = "down"
  /\ rows' = {} /\ approved' = {} /\ unsettled' = {}
  /\ seen' = 0 /\ cur' = NoTx /\ outcome' = "failed"
  /\ UNCHANGED <<db, head, chain, dryRun, covers>>

Restart ==
  /\ pc = "down"
  /\ pc' = "tick"
  /\ dryRun' \in DryRunModes
  /\ UNCHANGED <<db, head, chain, local, covers, faults>>

-----------------------------------------------------------------------------
(* The API process: the operator's requests, at any time.                  *)

\* Mutant: a payout can be retried while it is awaiting confirmation.
RetryableInFlight(h) == {s \in Slips : payslips[s].tx = h /\ payslips[s].status # "completed"}

\* The WHERE clause of RetryFailedPayoutPayslips: the failed payslips of a failed
\* transaction, unless the address has another transaction in flight.
Retryable(h) ==
  {s \in Slips : /\ payslips[s].tx = h
                 /\ payslips[s].status = "failed"
                 /\ transactions[h] = "failed"
                 /\ AwaitingOf(Owner[s]) \ {h} = {}}

\* The operator's retry: the payslips go back to pending; it is refused when
\* there are none.
RetryPayout(h) ==
  /\ Retryable(h) # {}
  /\ payslips' = [s \in Slips |-> IF s \in Retryable(h)
                    THEN [status |-> "pending", tx |-> NoTx] ELSE payslips[s]]
  /\ UNCHANGED <<audit_logs, transactions, epochs, head, chain, pc, dryRun,
                 local, covers, faults>>

\* handleAuditSkip sets the status whatever it was.
SkipAudit(i) ==
  /\ audit_logs[i].status # "skipped"
  /\ audit_logs' = UpdateAuditLog(i, "skipped", audit_logs[i].tx)
  /\ UNCHANGED <<payslips, transactions, epochs, head, chain, pc, dryRun,
                 local, covers, faults>>

-----------------------------------------------------------------------------
(* The chain. A transaction is included only inside its validity window,   *)
(* an inclusion in a micro block can still be reverted, and the next macro *)
(* block makes it final.                                                   *)

Included(h) == chain[h] \in {"included_ok", "included_bad"}

Include(h) ==
  /\ chain[h] = "sent"
  /\ h.head <= head /\ head < h.head + Window
  /\ \E res \in {"included_ok", "included_bad"} : chain' = [chain EXCEPT ![h] = res]
  /\ UNCHANGED <<db, head, pc, dryRun, local, covers, faults>>

Revert(h) ==
  /\ Included(h)
  /\ chain' = [chain EXCEPT ![h] = "sent"]
  /\ UNCHANGED <<db, head, pc, dryRun, local, covers, faults>>

MakeFinal(h) ==
  /\ Included(h)
  /\ chain' = [chain EXCEPT ![h] = IF chain[h] = "included_ok" THEN "ok" ELSE "bad"]
  /\ UNCHANGED <<db, head, pc, dryRun, local, covers, faults>>

ProduceBlock ==
  /\ head < MaxHead
  /\ \A h \in DOMAIN chain : Included(h) => head + 1 < h.head + Window + FinalLag
  /\ head' = head + 1
  /\ UNCHANGED <<db, chain, pc, dryRun, local, covers, faults>>

-----------------------------------------------------------------------------
Daemon ==
  \/ \E s \in Slips : InsertPayslip(s)
  \/ RunPayouts
  \/ \E r \in rows : InsertAuditLog(r) \/ HoldRow(r)
  \/ ProcessApprovedPayouts
  \/ \E i \in approved : PersistPayoutSubmission(i) \/ HoldApproved(i)
  \/ SendTransaction
  \/ RunConfirmations
  \/ \E h \in unsettled : SetTransactionStatus(h) \/ LeavePending(h)
  \/ UpdatePayslips
  \/ UpdatePayslipsFails
  \/ ConfirmationsFail
  \/ FinishTick
  \/ Crash
  \/ Restart

Operator ==
  \/ \E h \in DOMAIN transactions : RetryPayout(h)
  \/ \E i \in DOMAIN audit_logs : SkipAudit(i)

Chain ==
  \/ \E h \in DOMAIN chain : Include(h) \/ Revert(h) \/ MakeFinal(h)
  \/ ProduceBlock

Next == Daemon \/ Operator \/ Chain

Spec == Init /\ [][Next]_vars

-----------------------------------------------------------------------------
(* Fairness. The daemon keeps ticking and is restarted when it stops; the  *)
(* node answers a query that is asked again and again; the chain produces  *)
(* blocks and macro blocks. Nothing makes the operator act, the payslips   *)
(* accrue, or a transaction be included.                                   *)

Step ==
  \/ RunPayouts \/ ProcessApprovedPayouts \/ SendTransaction
  \/ \E r \in rows : InsertAuditLog(r) \/ HoldRow(r)
  \/ \E i \in approved : PersistPayoutSubmission(i) \/ HoldApproved(i)
  \/ RunConfirmations
  \/ \E h \in unsettled : SetTransactionStatus(h) \/ LeavePending(h)
  \/ UpdatePayslips \/ FinishTick \/ Restart

Fairness ==
  /\ WF_vars(Step)
  /\ SF_vars(RunConfirmations /\ seen' = head)
  /\ \A a \in Addrs :
       SF_vars(\E h \in unsettled : h.addr = a /\ SetTransactionStatus(h))
  /\ SF_vars(\E h \in DOMAIN chain : MakeFinal(h))
  /\ SF_vars(ProduceBlock)

FairSpec == Spec /\ Fairness

-----------------------------------------------------------------------------
(* What the pipeline guarantees.                                           *)

\* Transaction h has paid, or may still: it is on the chain and did not fail,
\* or the node holds it, or is about to, while its validity window is open.
MayPay(h) ==
  \/ h \in DOMAIN chain /\ chain[h] \in {"included_ok", "ok"}
  \/ /\ \/ h \in DOMAIN chain /\ chain[h] \in {"sent", "included_bad"}
        \/ pc = "broadcast" /\ cur = h
     /\ head < h.head + Window

\* An address never has two payouts under way at once, approved or awaiting
\* confirmation, whatever the operator skips and wherever the daemon crashes:
\* the rows runPayouts reads and the claim in persistPayoutSubmission exclude
\* each other.
OnePayoutPerAddress ==
  \A a \in Addrs :
    /\ ApprovedOf(a) = {} \/ AwaitingOf(a) = {}
    /\ \A i, j \in ApprovedOf(a) : i = j
    /\ \A g, h \in AwaitingOf(a) : g = h

\* No payslip is paid twice: of the transactions that took it on, at most one
\* ever pays. The retry of a payout given up as stuck and the lost answer of a
\* broadcast are what puts this at risk.
NoDoublePayment ==
  \A g, h \in DOMAIN covers :
    g # h /\ covers[g] \cap covers[h] # {} => ~MayPay(g) \/ ~MayPay(h)

\* A payslip that can be paid again, because it is pending or failed, is not
\* covered by any transaction that has paid it or may still: this is what makes
\* the operator's retry of a failed or stuck payout safe.
OwedIsUnpaid ==
  \A s \in Slips : payslips[s].status \in {"pending", "failed"} =>
    \A h \in DOMAIN covers : s \in covers[h] => ~MayPay(h)

\* A payslip reads completed only when the chain has made its payment final:
\* an inclusion in a micro block is not enough for runConfirmations.
CompletedIsPaid ==
  \A s \in Slips : payslips[s].status = "completed" =>
    payslips[s].tx \in DOMAIN chain /\ chain[payslips[s].tx] = "ok"

\* Whatever reaches the chain was recorded first, and as long as it may pay the
\* payslips it took on point at it: persistPayoutSubmission commits before
\* SendTransaction, so a crash or a lost answer leaves a payout that is tracked.
SentIsTracked ==
  \A h \in DOMAIN chain :
    /\ h \in DOMAIN transactions
    /\ MayPay(h) => \A s \in covers[h] : payslips[s].tx = h

\* A completed payslip keeps its status and its transaction for ever, although
\* UpdatePayslipStatusFailed selects by hash alone.
CompletedIsTerminal ==
  [][\A s \in Slips : payslips[s].status = "completed" => payslips'[s] = payslips[s]]_vars

\* A payout awaiting confirmation does not stay so for ever: it is confirmed, it
\* fails, or it is given up as stuck, also when the broadcast was lost or the
\* daemon crashed; and its payslips follow, unless a crash or a database error
\* comes in between (runConfirmations; see SettledTogether).
PayoutsSettle ==
  /\ \A a \in Addrs : AwaitingOf(a) # {} ~> AwaitingOf(a) = {}
  /\ \A s \in Slips : payslips[s].status = "awaiting_confirmation"
                        ~> payslips[s].status \in {"completed", "failed"} \/ faults > 0

\* The comment on runConfirmations: once a transaction is settled, and the
\* daemon is between two ticks, its payslips are settled as well, finalized or
\* visibly failed so that the operator can retry them.
SettledTogether ==
  pc = "tick" => \A s \in Slips : payslips[s].status = "awaiting_confirmation" =>
                   transactions[payslips[s].tx] = "awaiting_confirmation"

\* The payout record reconciles: the amount of a payout transaction is the sum
\* of the payslips that its confirmation will mark completed.
AmountReconciles == \A h \in DOMAIN covers : h.amount = Total(covers[h])

\* The abstract ledger this pipeline implements: failed payslips are owed, and
\* money has landed when the chain made a covering transaction final.
LedgerState ==
  [s \in Slips |->
     CASE payslips[s].status = "absent" -> "none"
       [] payslips[s].status \in {"pending", "failed"} -> "owed"
       [] payslips[s].status = "awaiting_confirmation" -> "out"
       [] payslips[s].status = "completed" -> "paid"]

Landed == UNION {covers[h] : h \in {g \in DOMAIN chain : chain[g] = "ok"}}

Ledger == INSTANCE PayoutLedger WITH state <- LedgerState, landed <- Landed

\* Every step of the pipeline is a step of the ledger or changes nothing in it.
ImplementsLedger == Ledger!Spec
-----------------------------------------------------------------------------
(* The inductive invariant behind the safety properties.                   *)

\* The eligible rows stay eligible until they are audited, one per address.
RowsFresh ==
  /\ pc # "payouts" => rows = {}
  /\ \A r \in rows : ApprovedOf(r.addr) = {} /\ AwaitingOf(r.addr) = {}
  /\ \A q, r \in rows : q.addr = r.addr => q = r

\* Where each phase of the tick keeps its hands.
PhaseFacts ==
  /\ seen <= head
  /\ pc \notin {"confirm", "settle"} => unsettled = {}
  /\ \A h \in unsettled : transactions[h] = "awaiting_confirmation"
  /\ pc = "broadcast" => /\ cur \in DOMAIN transactions \ DOMAIN chain
                         /\ transactions[cur] = "awaiting_confirmation"
  /\ pc = "settle" => /\ cur \in DOMAIN transactions
                      /\ outcome = transactions[cur]
                      /\ outcome # "awaiting_confirmation"

\* A payslip points at a transaction exactly while it is attached to it, and any
\* other transaction that ever took it on has been recorded as failed.
SlipsLinked ==
  /\ DOMAIN chain \subseteq DOMAIN transactions
  /\ \A s \in Slips :
       /\ payslips[s].status \in {"absent", "pending"} <=> payslips[s].tx = NoTx
       /\ payslips[s].tx # NoTx =>
            payslips[s].tx \in DOMAIN covers /\ s \in covers[payslips[s].tx]
       /\ payslips[s].status \in {"completed", "failed"} =>
            transactions[payslips[s].tx] = payslips[s].status
       /\ \A h \in DOMAIN covers :
            s \in covers[h] /\ h # payslips[s].tx => transactions[h] = "failed"

\* The database's verdict on a transaction is the chain's: completed is final,
\* and failed can never pay.
VerdictsHold ==
  /\ \A h \in DOMAIN transactions :
       /\ transactions[h] = "completed" => h \in DOMAIN chain /\ chain[h] = "ok"
       /\ transactions[h] = "failed" => ~MayPay(h)
  /\ \A h \in DOMAIN chain : Included(h) => head < h.head + Window + FinalLag

IInv == TypeOK /\ OnePayoutPerAddress /\ RowsFresh /\ PhaseFacts /\ SlipsLinked /\ VerdictsHold
=============================================================================
