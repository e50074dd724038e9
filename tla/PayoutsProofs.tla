---------------------------- MODULE PayoutsProofs ----------------------------
(***************************************************************************)
(* Proofs about Payouts, for any set of stakers, payslips and epochs, any  *)
(* amounts, any minimum, and every window and threshold with               *)
(* StuckOutlivesTransaction.                                               *)
(***************************************************************************)
EXTENDS Payouts, TLAPS

-----------------------------------------------------------------------------
(* Facts about the operators.                                              *)

\* What an address is owed is one of the totals.
LEMMA PendingTotal == \A a : Total(Pending(a)) \in Totals
<1>1. \A a : Pending(a) \in SUBSET Slips
  BY DEF Pending
<1> QED
  BY <1>1 DEF Totals

\* Replacing an element of a sequence keeps its type and its length.
LEMMA ExceptSeq ==
  ASSUME NEW R, NEW q \in Seq(R), NEW i \in DOMAIN q, NEW v \in R
  PROVE  /\ [q EXCEPT ![i] = v] \in Seq(R)
         /\ Len([q EXCEPT ![i] = v]) = Len(q)
         /\ DOMAIN [q EXCEPT ![i] = v] = DOMAIN q
         /\ \A j \in DOMAIN q : [q EXCEPT ![i] = v][j] = IF j = i THEN v ELSE q[j]
OBVIOUS

AuditRow == [addr : Addrs, amount : Totals, status : AuditStatus, tx : Hash \cup {NoTx}]

\* An audit row read back has its type.
LEMMA AuditRowType ==
  ASSUME TypeOK, NEW i \in DOMAIN audit_logs
  PROVE  /\ audit_logs \in Seq(AuditRow)
         /\ audit_logs[i].addr \in Addrs /\ audit_logs[i].amount \in Totals
         /\ audit_logs[i].tx \in Hash \cup {NoTx}
<1>1. audit_logs \in Seq(AuditRow)
  BY DEF TypeOK, AuditRow
<1>2. audit_logs[i] \in AuditRow
  BY <1>1
<1> QED
  BY <1>1, <1>2 DEF AuditRow

\* Updating an audit row changes its status and transaction, and no other row.
LEMMA UpdateAuditFacts ==
  ASSUME TypeOK, NEW i \in DOMAIN audit_logs, NEW st \in AuditStatus, NEW h \in Hash \cup {NoTx},
         NEW q, q = UpdateAuditLog(i, st, h)
  PROVE  /\ q \in Seq(AuditRow)
         /\ Len(q) = Len(audit_logs) /\ DOMAIN q = DOMAIN audit_logs
         /\ \A j \in DOMAIN audit_logs : j # i => q[j] = audit_logs[j]
         /\ q[i].addr = audit_logs[i].addr /\ q[i].status = st
<1> DEFINE v == [addr |-> audit_logs[i].addr, amount |-> audit_logs[i].amount,
                 status |-> st, tx |-> h]
<1>1. v \in AuditRow
  BY AuditRowType DEF AuditRow
<1>2. v.addr = audit_logs[i].addr /\ v.status = st
  OBVIOUS
<1>3. q = [audit_logs EXCEPT ![i] = v]
  BY DEF UpdateAuditLog
<1> HIDE DEF v
<1> QED
  BY <1>1, <1>2, <1>3, AuditRowType, ExceptSeq

-----------------------------------------------------------------------------
(* Type correctness.                                                       *)

\* The initial state has its types.
LEMMA InitType == Init => TypeOK
BY PayoutsAssumption DEF Init, TypeOK, SlipStatus, TxStatus, Phases

\* Every step keeps the types; PhaseFacts says which rows a phase holds.
LEMMA NextType == TypeOK /\ PhaseFacts /\ [Next]_vars => TypeOK'
<1> SUFFICES ASSUME TypeOK, PhaseFacts, [Next]_vars PROVE TypeOK'
  OBVIOUS
<1> USE PayoutsAssumption
<1>1. ASSUME NEW s \in Slips, InsertPayslip(s) PROVE TypeOK'
  BY <1>1 DEF TypeOK, InsertPayslip, local, SlipStatus
<1>2. CASE RunPayouts
  <2>1. GetEligibleForPayout \subseteq [addr : Addrs, total : Totals]
    BY PendingTotal DEF GetEligibleForPayout
  <2> QED BY <1>2, <2>1 DEF TypeOK, RunPayouts, db, Phases
<1>3. ASSUME NEW r \in rows, InsertAuditLog(r) PROVE TypeOK'
  <2>1. r.addr \in Addrs /\ r.total \in Totals
    BY DEF TypeOK
  <2> DEFINE row == [addr |-> r.addr, amount |-> r.total, tx |-> NoTx,
                     status |-> IF dryRun THEN "dry_run" ELSE "approved"]
  <2>2. row \in [addr : Addrs, amount : Totals, status : AuditStatus, tx : Hash \cup {NoTx}]
    BY <2>1 DEF AuditStatus
  <2> HIDE DEF row
  <2>3. audit_logs' = Append(audit_logs, row)
    BY <1>3 DEF InsertAuditLog, row
  <2> QED BY <1>3, <2>2, <2>3 DEF TypeOK, InsertAuditLog
<1>4. ASSUME NEW r \in rows, HoldRow(r) PROVE TypeOK'
  BY <1>4 DEF TypeOK, HoldRow, db
<1>5. CASE ProcessApprovedPayouts
  BY <1>5 DEF TypeOK, ProcessApprovedPayouts, ApprovedToProcess, ListApprovedAuditLogs, db, Phases
<1>6. ASSUME NEW i \in approved, PersistPayoutSubmission(i) PROVE TypeOK'
  <2> DEFINE h == PayoutHash(i)
  <2>1. i \in DOMAIN audit_logs /\ h \in Hash
    <3>1. i \in DOMAIN audit_logs
      BY DEF TypeOK
    <3>2. seen \in Nat
      BY DEF TypeOK
    <3> QED BY <3>1, <3>2, AuditRowType DEF PayoutHash, Hash
  <2>2. audit_logs' \in Seq(AuditRow) /\ Len(audit_logs') = Len(audit_logs)
    BY <1>6, <2>1, UpdateAuditFacts DEF PersistPayoutSubmission, AuditStatus
  <2>3. payslips' \in [Slips -> [status : SlipStatus, tx : Hash \cup {NoTx}]]
    BY <1>6, <2>1 DEF TypeOK, PersistPayoutSubmission, SlipStatus
  <2>4. /\ DOMAIN transactions' = DOMAIN transactions \cup {h}
        /\ \A g \in DOMAIN transactions' : transactions'[g] \in TxStatus
    BY <1>6, <2>1 DEF TypeOK, PersistPayoutSubmission, TxStatus, Put
  <2>5. /\ DOMAIN covers' = DOMAIN covers \cup {h}
        /\ \A g \in DOMAIN covers' : covers'[g] \subseteq Slips
    BY <1>6, <2>1 DEF TypeOK, PersistPayoutSubmission, Pending, Put
  <2> QED
    BY <1>6, <2>1, <2>2, <2>3, <2>4, <2>5 DEF TypeOK, PersistPayoutSubmission, AuditRow, Phases
<1>7. ASSUME NEW i \in approved, HoldApproved(i) PROVE TypeOK'
  BY <1>7 DEF TypeOK, HoldApproved, db
<1>8. CASE SendTransaction
  BY <1>8 DEF TypeOK, PhaseFacts, SendTransaction, Deliver, Put, db, Phases, ChainStatus
<1>9. CASE RunConfirmations
  BY <1>9 DEF TypeOK, RunConfirmations, GetPendingTransactions, db, Phases
<1>10. ASSUME NEW h \in unsettled, SetTransactionStatus(h) PROVE TypeOK'
  BY <1>10 DEF TypeOK, SetTransactionStatus, Verdicts, TxStatus, Phases
<1>11. ASSUME NEW h \in unsettled, LeavePending(h) PROVE TypeOK'
  BY <1>11 DEF TypeOK, LeavePending, db
<1>12. CASE UpdatePayslips
  BY <1>12 DEF TypeOK, UpdatePayslips, SettlePayslips, SlipStatus, TxStatus, Phases
<1>13. CASE UpdatePayslipsFails
  BY <1>13 DEF TypeOK, UpdatePayslipsFails, db, Phases
<1>14. CASE ConfirmationsFail
  BY <1>14 DEF TypeOK, ConfirmationsFail, db, Phases
<1>15. CASE FinishTick
  BY <1>15 DEF TypeOK, FinishTick, FinalizeCompletedEpochs, local, Phases
<1>16. CASE Crash
  BY <1>16 DEF TypeOK, Crash, db, Phases, TxStatus
<1>17. CASE Restart
  BY <1>17 DEF TypeOK, Restart, db, local, Phases
<1>18. ASSUME NEW h \in DOMAIN transactions, RetryPayout(h) PROVE TypeOK'
  BY <1>18 DEF TypeOK, RetryPayout, local, SlipStatus
<1>19. ASSUME NEW i \in DOMAIN audit_logs, SkipAudit(i) PROVE TypeOK'
  <2>1. audit_logs' \in Seq(AuditRow) /\ Len(audit_logs') = Len(audit_logs)
    BY <1>19, AuditRowType, UpdateAuditFacts DEF SkipAudit, AuditStatus
  <2> QED BY <1>19, <2>1 DEF TypeOK, SkipAudit, AuditRow, local
<1>20. ASSUME NEW h \in DOMAIN chain, Include(h) \/ Revert(h) \/ MakeFinal(h) PROVE TypeOK'
  BY <1>20 DEF TypeOK, Include, Revert, MakeFinal, Included, db, local, ChainStatus
<1>21. CASE ProduceBlock
  BY <1>21 DEF TypeOK, ProduceBlock, db, local
<1>22. CASE UNCHANGED vars
  BY <1>22 DEF TypeOK, vars, db, local
<1> QED
  BY <1>1, <1>2, <1>3, <1>4, <1>5, <1>6, <1>7, <1>8, <1>9, <1>10, <1>11, <1>12,
     <1>13, <1>14, <1>15, <1>16, <1>17, <1>18, <1>19, <1>20, <1>21, <1>22
  DEF Next, Daemon, Operator, Chain

-----------------------------------------------------------------------------
(* One payout per address.                                                 *)

\* At first no payout is under way.
LEMMA InitExclusive == Init => OnePayoutPerAddress /\ RowsFresh
BY DEF Init, OnePayoutPerAddress, RowsFresh, ApprovedOf, AwaitingOf

\* A row that runPayouts read stays eligible until it is audited: only the daemon
\* approves and submits, and the operator only takes approvals away.
LEMMA NextExclusive ==
  TypeOK /\ PhaseFacts /\ OnePayoutPerAddress /\ RowsFresh /\ [Next]_vars
    => OnePayoutPerAddress' /\ RowsFresh'
<1> SUFFICES ASSUME TypeOK, PhaseFacts, OnePayoutPerAddress, RowsFresh, [Next]_vars
             PROVE  OnePayoutPerAddress' /\ RowsFresh'
  OBVIOUS
<1> DEFINE Same == audit_logs' = audit_logs /\ transactions' = transactions
<1>same. ASSUME Same PROVE /\ \A a : ApprovedOf(a)' = ApprovedOf(a) /\ AwaitingOf(a)' = AwaitingOf(a)
                           /\ OnePayoutPerAddress'
  BY <1>same DEF OnePayoutPerAddress, ApprovedOf, AwaitingOf
<1>keep. ASSUME Same, rows' \subseteq rows, pc' # "payouts" => rows' = {}
         PROVE  OnePayoutPerAddress' /\ RowsFresh'
  BY <1>keep, <1>same DEF RowsFresh
<1>1. ASSUME NEW s \in Slips, InsertPayslip(s) PROVE OnePayoutPerAddress' /\ RowsFresh'
  BY <1>1, <1>keep DEF RowsFresh, InsertPayslip, local
<1>2. CASE RunPayouts
  <2>1. Same
    BY <1>2 DEF RunPayouts, db
  <2>2. \A r \in rows' : ApprovedOf(r.addr) = {} /\ AwaitingOf(r.addr) = {}
    BY <1>2 DEF RunPayouts, GetEligibleForPayout, Eligible
  <2>3. \A q, r \in rows' : q.addr = r.addr => q = r
    BY <1>2 DEF RunPayouts, GetEligibleForPayout
  <2> QED
    BY <1>2, <1>same, <2>1, <2>2, <2>3 DEF RowsFresh, RunPayouts
<1>3. ASSUME NEW r \in rows, InsertAuditLog(r) PROVE OnePayoutPerAddress' /\ RowsFresh'
  <2>1. transactions' = transactions /\ rows' = rows \ {r} /\ pc' = pc /\ pc = "payouts"
    BY <1>3 DEF InsertAuditLog
  <2>2. /\ DOMAIN audit_logs' = DOMAIN audit_logs \cup {Len(audit_logs) + 1}
        /\ Len(audit_logs) + 1 \notin DOMAIN audit_logs
        /\ \A i \in DOMAIN audit_logs : audit_logs'[i] = audit_logs[i]
        /\ audit_logs'[Len(audit_logs) + 1].addr = r.addr
    BY <1>3 DEF InsertAuditLog, TypeOK
  <2>3. ApprovedOf(r.addr)' \subseteq {Len(audit_logs) + 1}
    BY <2>2 DEF ApprovedOf, RowsFresh
  <2>4. \A a : a # r.addr => ApprovedOf(a)' = ApprovedOf(a)
    BY <2>2 DEF ApprovedOf
  <2>5. \A a : AwaitingOf(a)' = AwaitingOf(a)
    BY <2>1 DEF AwaitingOf
  <2>6. AwaitingOf(r.addr) = {}
    BY DEF RowsFresh
  <2>7. OnePayoutPerAddress'
    BY <2>3, <2>4, <2>5, <2>6 DEF OnePayoutPerAddress
  <2>8. \A q \in rows' : q \in rows /\ q.addr # r.addr
    BY <2>1 DEF RowsFresh
  <2>9. RowsFresh'
    BY <2>1, <2>4, <2>5, <2>8 DEF RowsFresh
  <2> QED BY <2>7, <2>9
<1>4. ASSUME NEW r \in rows, HoldRow(r) PROVE OnePayoutPerAddress' /\ RowsFresh'
  BY <1>4, <1>keep DEF HoldRow, db
<1>5. CASE ProcessApprovedPayouts
  BY <1>5, <1>keep DEF ProcessApprovedPayouts, db
<1>6. ASSUME NEW i \in approved, PersistPayoutSubmission(i)
      PROVE  OnePayoutPerAddress' /\ RowsFresh'
  <2>0. PayoutHash(i) \in Hash
    BY AuditRowType DEF PayoutHash, Hash, TypeOK
  <2> PICK h \in Hash : h = PayoutHash(i)
    BY <2>0
  <2>1. /\ i \in DOMAIN audit_logs /\ h.addr = audit_logs[i].addr /\ h.addr \in Addrs
        /\ i \in ApprovedOf(h.addr) /\ AwaitingOf(h.addr) = {}
    BY <1>6 DEF TypeOK, PersistPayoutSubmission, PayoutHash, ApprovedOf, Hash
  <2>2. /\ DOMAIN audit_logs' = DOMAIN audit_logs
        /\ \A j \in DOMAIN audit_logs : j # i => audit_logs'[j] = audit_logs[j]
        /\ audit_logs'[i].addr = audit_logs[i].addr /\ audit_logs'[i].status = "executed"
    BY <1>6, <2>1, UpdateAuditFacts DEF PersistPayoutSubmission, AuditStatus
  <2>3. \A a : ApprovedOf(a)' = ApprovedOf(a) \ {i}
    BY <2>2 DEF ApprovedOf
  <2>4. ApprovedOf(h.addr)' = {}
    BY <2>1, <2>3 DEF OnePayoutPerAddress
  <2>5. \A a : a # h.addr => AwaitingOf(a)' = AwaitingOf(a)
    BY <1>6 DEF PersistPayoutSubmission, AwaitingOf, Put
  <2>6. AwaitingOf(h.addr)' = {h}
    BY <1>6, <2>1 DEF PersistPayoutSubmission, AwaitingOf, Put
  <2>7. OnePayoutPerAddress'
    BY <2>3, <2>4, <2>5, <2>6 DEF OnePayoutPerAddress
  <2>8. RowsFresh'
    BY <1>6 DEF RowsFresh, PersistPayoutSubmission
  <2> QED BY <2>7, <2>8
<1>7. ASSUME NEW i \in approved, HoldApproved(i) PROVE OnePayoutPerAddress' /\ RowsFresh'
  BY <1>7, <1>keep DEF HoldApproved, RowsFresh, db
<1>8. CASE SendTransaction
  BY <1>8, <1>keep DEF SendTransaction, RowsFresh, db
<1>9. CASE RunConfirmations
  BY <1>9, <1>keep DEF RunConfirmations, RowsFresh, db
<1>10. ASSUME NEW h \in unsettled, SetTransactionStatus(h)
       PROVE  OnePayoutPerAddress' /\ RowsFresh'
  <2>1. \A a : ApprovedOf(a)' = ApprovedOf(a)
    BY <1>10 DEF SetTransactionStatus, ApprovedOf
  <2>2. \A a : AwaitingOf(a)' \subseteq AwaitingOf(a)
    BY <1>10 DEF SetTransactionStatus, AwaitingOf, Verdicts
  <2> QED BY <1>10, <2>1, <2>2 DEF OnePayoutPerAddress, RowsFresh, SetTransactionStatus
<1>11. ASSUME NEW h \in unsettled, LeavePending(h) PROVE OnePayoutPerAddress' /\ RowsFresh'
  BY <1>11, <1>keep DEF LeavePending, RowsFresh, db
<1>12. CASE UpdatePayslips
  BY <1>12, <1>keep DEF UpdatePayslips, RowsFresh
<1>13. CASE UpdatePayslipsFails
  BY <1>13, <1>keep DEF UpdatePayslipsFails, RowsFresh, db
<1>14. CASE ConfirmationsFail
  BY <1>14, <1>keep DEF ConfirmationsFail, RowsFresh, db
<1>15. CASE FinishTick
  BY <1>15, <1>keep DEF FinishTick, RowsFresh, local
<1>16. CASE Crash
  BY <1>16, <1>keep DEF Crash, db
<1>17. CASE Restart
  BY <1>17, <1>keep DEF Restart, RowsFresh, db, local
<1>18. ASSUME NEW h \in DOMAIN transactions, RetryPayout(h)
       PROVE  OnePayoutPerAddress' /\ RowsFresh'
  BY <1>18, <1>keep DEF RetryPayout, RowsFresh, local
<1>19. ASSUME NEW i \in DOMAIN audit_logs, SkipAudit(i)
       PROVE  OnePayoutPerAddress' /\ RowsFresh'
  <2>1. /\ DOMAIN audit_logs' = DOMAIN audit_logs
        /\ \A j \in DOMAIN audit_logs : j # i => audit_logs'[j] = audit_logs[j]
        /\ audit_logs'[i].status = "skipped"
    BY <1>19, AuditRowType, UpdateAuditFacts DEF SkipAudit, AuditStatus
  <2>2. \A a : ApprovedOf(a)' \subseteq ApprovedOf(a)
    BY <2>1 DEF ApprovedOf
  <2>3. \A a : AwaitingOf(a)' = AwaitingOf(a)
    BY <1>19 DEF SkipAudit, AwaitingOf
  <2> QED BY <1>19, <2>2, <2>3 DEF OnePayoutPerAddress, RowsFresh, SkipAudit, local
<1>20. ASSUME NEW h \in DOMAIN chain, Include(h) \/ Revert(h) \/ MakeFinal(h)
       PROVE  OnePayoutPerAddress' /\ RowsFresh'
  BY <1>20, <1>keep DEF Include, Revert, MakeFinal, RowsFresh, db, local
<1>21. CASE ProduceBlock
  BY <1>21, <1>keep DEF ProduceBlock, RowsFresh, db, local
<1>22. CASE UNCHANGED vars
  BY <1>22, <1>keep DEF vars, RowsFresh, db, local
<1> QED
  BY <1>1, <1>2, <1>3, <1>4, <1>5, <1>6, <1>7, <1>8, <1>9, <1>10, <1>11, <1>12,
     <1>13, <1>14, <1>15, <1>16, <1>17, <1>18, <1>19, <1>20, <1>21, <1>22
  DEF Next, Daemon, Operator, Chain

-----------------------------------------------------------------------------
(* The phases of a tick, the links of the payslips, and the verdicts.      *)

\* At first nothing is linked, sent or judged.
LEMMA InitLinks == Init => PhaseFacts /\ SlipsLinked /\ VerdictsHold
BY PayoutsAssumption DEF Init, PhaseFacts, SlipsLinked, VerdictsHold

\* Every step leaves the local state of the daemon in order for its phase.
LEMMA NextPhase ==
  TypeOK /\ PhaseFacts /\ SlipsLinked /\ [Next]_vars => PhaseFacts'
<1> SUFFICES ASSUME TypeOK, PhaseFacts, SlipsLinked, [Next]_vars PROVE PhaseFacts'
  OBVIOUS
<1>1. ASSUME NEW s \in Slips, InsertPayslip(s) PROVE PhaseFacts'
  BY <1>1 DEF PhaseFacts, InsertPayslip, local
<1>2. CASE RunPayouts
  BY <1>2 DEF PhaseFacts, RunPayouts, db
<1>3. ASSUME NEW r \in rows, InsertAuditLog(r) PROVE PhaseFacts'
  BY <1>3 DEF PhaseFacts, InsertAuditLog
<1>4. ASSUME NEW r \in rows, HoldRow(r) PROVE PhaseFacts'
  BY <1>4 DEF PhaseFacts, HoldRow, db
<1>5. CASE ProcessApprovedPayouts
  BY <1>5 DEF TypeOK, PhaseFacts, ProcessApprovedPayouts, db
<1>6. ASSUME NEW i \in approved, PersistPayoutSubmission(i) PROVE PhaseFacts'
  BY <1>6 DEF PhaseFacts, SlipsLinked, PersistPayoutSubmission, Put
<1>7. ASSUME NEW i \in approved, HoldApproved(i) PROVE PhaseFacts'
  BY <1>7 DEF PhaseFacts, HoldApproved, db
<1>8. CASE SendTransaction
  BY <1>8 DEF PhaseFacts, SendTransaction, db
<1>9. CASE RunConfirmations
  BY <1>9 DEF TypeOK, PhaseFacts, RunConfirmations, GetPendingTransactions, db
<1>10. ASSUME NEW h \in unsettled, SetTransactionStatus(h) PROVE PhaseFacts'
  BY <1>10 DEF TypeOK, PhaseFacts, SetTransactionStatus, Verdicts
<1>11. ASSUME NEW h \in unsettled, LeavePending(h) PROVE PhaseFacts'
  BY <1>11 DEF PhaseFacts, LeavePending, db
<1>12. CASE UpdatePayslips
  BY <1>12 DEF PhaseFacts, UpdatePayslips
<1>13. CASE UpdatePayslipsFails
  BY <1>13 DEF PhaseFacts, UpdatePayslipsFails, db
<1>14. CASE ConfirmationsFail
  BY <1>14 DEF PhaseFacts, ConfirmationsFail, db
<1>15. CASE FinishTick
  BY <1>15 DEF PhaseFacts, FinishTick, local
<1>16. CASE Crash
  BY <1>16 DEF TypeOK, PhaseFacts, Crash, db
<1>17. CASE Restart
  BY <1>17 DEF PhaseFacts, Restart, db, local
<1>18. ASSUME NEW h \in DOMAIN transactions, RetryPayout(h) PROVE PhaseFacts'
  BY <1>18 DEF PhaseFacts, RetryPayout, local
<1>19. ASSUME NEW i \in DOMAIN audit_logs, SkipAudit(i) PROVE PhaseFacts'
  BY <1>19 DEF PhaseFacts, SkipAudit, local
<1>20. ASSUME NEW h \in DOMAIN chain, Include(h) \/ Revert(h) \/ MakeFinal(h) PROVE PhaseFacts'
  BY <1>20 DEF PhaseFacts, Include, Revert, MakeFinal, db, local
<1>21. CASE ProduceBlock
  BY <1>21 DEF TypeOK, PhaseFacts, ProduceBlock, db, local
<1>22. CASE UNCHANGED vars
  BY <1>22 DEF PhaseFacts, vars, db, local
<1> QED
  BY <1>1, <1>2, <1>3, <1>4, <1>5, <1>6, <1>7, <1>8, <1>9, <1>10, <1>11, <1>12,
     <1>13, <1>14, <1>15, <1>16, <1>17, <1>18, <1>19, <1>20, <1>21, <1>22
  DEF Next, Daemon, Operator, Chain

\* Only a submission, a verdict, the settling of payslips, a retry and an
\* insertion touch what SlipsLinked speaks of; the rest of the steps keep it.
LEMMA NextLinked ==
  TypeOK /\ PhaseFacts /\ SlipsLinked /\ [Next]_vars => SlipsLinked'
<1> SUFFICES ASSUME TypeOK, PhaseFacts, SlipsLinked, [Next]_vars PROVE SlipsLinked'
  OBVIOUS
<1>keep. ASSUME payslips' = payslips, transactions' = transactions, covers' = covers,
                DOMAIN chain' = DOMAIN chain
         PROVE  SlipsLinked'
  BY <1>keep DEF SlipsLinked
<1>1. ASSUME NEW s \in Slips, InsertPayslip(s) PROVE SlipsLinked'
  BY <1>1 DEF TypeOK, SlipsLinked, InsertPayslip
<1>2. CASE RunPayouts
  BY <1>2, <1>keep DEF RunPayouts, db
<1>3. ASSUME NEW r \in rows, InsertAuditLog(r) PROVE SlipsLinked'
  BY <1>3, <1>keep DEF InsertAuditLog
<1>4. ASSUME NEW r \in rows, HoldRow(r) PROVE SlipsLinked'
  BY <1>4, <1>keep DEF HoldRow, db
<1>5. CASE ProcessApprovedPayouts
  BY <1>5, <1>keep DEF ProcessApprovedPayouts, db
<1>6. ASSUME NEW i \in approved, PersistPayoutSubmission(i) PROVE SlipsLinked'
  <2>0. PayoutHash(i) \in Hash
    BY AuditRowType DEF PayoutHash, Hash, TypeOK
  <2> PICK k \in Hash : k = PayoutHash(i)
    BY <2>0
  <2>1. k \notin DOMAIN transactions /\ k \notin DOMAIN covers /\ k # NoTx
    BY <1>6, NoTxAssumption DEF PersistPayoutSubmission, TypeOK
  <2>2. /\ DOMAIN transactions' = DOMAIN transactions \cup {k}
        /\ DOMAIN covers' = DOMAIN covers \cup {k}
        /\ \A h \in DOMAIN transactions : transactions'[h] = transactions[h]
        /\ \A h \in DOMAIN covers : covers'[h] = covers[h]
        /\ covers'[k] = Pending(k.addr)
        /\ chain' = chain
    BY <1>6, <2>1 DEF PersistPayoutSubmission, Put, TypeOK
  <2>3. \A s \in Slips : payslips'[s] = IF s \in Pending(k.addr)
                           THEN [status |-> "awaiting_confirmation", tx |-> k] ELSE payslips[s]
    BY <1>6 DEF PersistPayoutSubmission
  <2>4. \A s \in Pending(k.addr) : payslips[s].status = "pending" /\ payslips[s].tx = NoTx
    BY DEF Pending, SlipsLinked
  <2>5. ASSUME NEW s \in Slips
        PROVE  /\ (payslips'[s].status \in {"absent", "pending"} <=> payslips'[s].tx = NoTx)
               /\ payslips'[s].tx # NoTx =>
                    payslips'[s].tx \in DOMAIN covers' /\ s \in covers'[payslips'[s].tx]
               /\ payslips'[s].status \in {"completed", "failed"} =>
                    transactions'[payslips'[s].tx] = payslips'[s].status
               /\ \A h \in DOMAIN covers' :
                    s \in covers'[h] /\ h # payslips'[s].tx => transactions'[h] = "failed"
    <3>1. CASE s \in Pending(k.addr)
      <4>1. payslips'[s].status = "awaiting_confirmation" /\ payslips'[s].tx = k
        BY <2>3, <3>1
      <4>2. \A h \in DOMAIN covers : s \in covers[h] => transactions[h] = "failed"
        BY <2>4, <3>1, NoTxAssumption DEF SlipsLinked, TypeOK
      <4> QED BY <2>1, <2>2, <3>1, <4>1, <4>2 DEF TypeOK
    <3>2. CASE s \notin Pending(k.addr)
      <4>1. payslips'[s] = payslips[s]
        BY <2>3, <3>2
      <4> QED BY <2>1, <2>2, <3>2, <4>1 DEF SlipsLinked, TypeOK
    <3> QED BY <3>1, <3>2
  <2>6. DOMAIN chain' \subseteq DOMAIN transactions'
    BY <2>2 DEF SlipsLinked
  <2> QED BY <2>5, <2>6 DEF SlipsLinked
<1>7. ASSUME NEW i \in approved, HoldApproved(i) PROVE SlipsLinked'
  BY <1>7, <1>keep DEF HoldApproved, db
<1>8. CASE SendTransaction
  <2>1. DOMAIN chain' \subseteq DOMAIN transactions
    BY <1>8 DEF SendTransaction, Deliver, Put, PhaseFacts, SlipsLinked
  <2> QED BY <1>8, <2>1 DEF SlipsLinked, SendTransaction, db
<1>9. CASE RunConfirmations
  BY <1>9, <1>keep DEF RunConfirmations, db
<1>10. ASSUME NEW h \in unsettled, SetTransactionStatus(h) PROVE SlipsLinked'
  <2>1. transactions[h] = "awaiting_confirmation" /\ h \in DOMAIN transactions
    BY DEF PhaseFacts, TypeOK
  <2>2. /\ DOMAIN transactions' = DOMAIN transactions
        /\ \A g \in DOMAIN transactions : g # h => transactions'[g] = transactions[g]
    BY <1>10 DEF SetTransactionStatus
  <2>3. payslips' = payslips /\ covers' = covers /\ chain' = chain
    BY <1>10 DEF SetTransactionStatus
  <2> QED BY <2>1, <2>2, <2>3 DEF SlipsLinked, TypeOK
<1>11. ASSUME NEW h \in unsettled, LeavePending(h) PROVE SlipsLinked'
  BY <1>11, <1>keep DEF LeavePending, db
<1>12. CASE UpdatePayslips
  <2>1. /\ cur \in DOMAIN transactions /\ cur # NoTx
        /\ outcome = transactions[cur] /\ outcome \in {"completed", "failed"}
    BY <1>12, NoTxAssumption DEF UpdatePayslips, PhaseFacts, TypeOK, TxStatus
  <2>2. ASSUME NEW s \in Slips, payslips[s].tx = cur
        PROVE  payslips'[s] = [status |-> outcome, tx |-> cur]
    BY <1>12, <2>2 DEF UpdatePayslips, SettlePayslips
  <2>3. ASSUME NEW s \in Slips, payslips[s].tx # cur PROVE payslips'[s] = payslips[s]
    BY <1>12, <2>3 DEF UpdatePayslips, SettlePayslips
  <2>4. \A s \in Slips : payslips[s].tx = cur =>
          payslips'[s].status = outcome /\ payslips'[s].tx = cur
    BY <2>2
  <2>6. transactions' = transactions /\ covers' = covers /\ chain' = chain
    BY <1>12 DEF UpdatePayslips
  <2> QED BY <2>1, <2>3, <2>4, <2>6 DEF SlipsLinked
<1>13. CASE UpdatePayslipsFails
  BY <1>13, <1>keep DEF UpdatePayslipsFails, db
<1>14. CASE ConfirmationsFail
  BY <1>14, <1>keep DEF ConfirmationsFail, db
<1>15. CASE FinishTick
  BY <1>15, <1>keep DEF FinishTick
<1>16. CASE Crash
  BY <1>16, <1>keep DEF Crash, db
<1>17. CASE Restart
  BY <1>17, <1>keep DEF Restart, db
<1>18. ASSUME NEW h \in DOMAIN transactions, RetryPayout(h) PROVE SlipsLinked'
  <2>1. \A s \in Slips : payslips'[s] = IF s \in Retryable(h)
                           THEN [status |-> "pending", tx |-> NoTx] ELSE payslips[s]
    BY <1>18 DEF RetryPayout
  <2>2. \A s \in Retryable(h) : payslips[s].tx = h /\ transactions[h] = "failed"
    BY DEF Retryable
  <2>3. transactions' = transactions /\ covers' = covers /\ chain' = chain
    BY <1>18 DEF RetryPayout
  <2> QED BY <2>1, <2>2, <2>3 DEF SlipsLinked
<1>19. ASSUME NEW i \in DOMAIN audit_logs, SkipAudit(i) PROVE SlipsLinked'
  BY <1>19, <1>keep DEF SkipAudit
<1>20. ASSUME NEW h \in DOMAIN chain, Include(h) \/ Revert(h) \/ MakeFinal(h) PROVE SlipsLinked'
  BY <1>20, <1>keep DEF Include, Revert, MakeFinal, db
<1>21. CASE ProduceBlock
  BY <1>21, <1>keep DEF ProduceBlock, db
<1>22. CASE UNCHANGED vars
  BY <1>22, <1>keep DEF vars, db
<1> QED
  BY <1>1, <1>2, <1>3, <1>4, <1>5, <1>6, <1>7, <1>8, <1>9, <1>10, <1>11, <1>12,
     <1>13, <1>14, <1>15, <1>16, <1>17, <1>18, <1>19, <1>20, <1>21, <1>22
  DEF Next, Daemon, Operator, Chain

\* A transaction that cannot pay any more never can again: the window does not
\* reopen and a recorded hash is not broadcast a second time.
LEMMA DeadStaysDead ==
  ASSUME TypeOK, PhaseFacts, SlipsLinked, [Next]_vars,
         NEW h \in DOMAIN transactions, ~MayPay(h)
  PROVE  ~MayPay(h)'
<1> USE PayoutsAssumption
<1>0. h \in Hash /\ h.head \in Nat /\ head \in Nat
  BY DEF TypeOK, Hash
<1>keep. ASSUME chain' = chain, head' = head, pc' # "broadcast" \/ (pc' = pc /\ cur' = cur)
         PROVE  ~MayPay(h)'
  BY <1>keep DEF MayPay
<1>1. ASSUME NEW s \in Slips, InsertPayslip(s) PROVE ~MayPay(h)'
  BY <1>1, <1>keep DEF InsertPayslip, local
<1>2. CASE RunPayouts
  BY <1>2, <1>keep DEF RunPayouts
<1>3. ASSUME NEW r \in rows, InsertAuditLog(r) \/ HoldRow(r) PROVE ~MayPay(h)'
  BY <1>3, <1>keep DEF InsertAuditLog, HoldRow
<1>4. CASE ProcessApprovedPayouts
  BY <1>4, <1>keep DEF ProcessApprovedPayouts
<1>5. ASSUME NEW i \in approved, PersistPayoutSubmission(i) PROVE ~MayPay(h)'
  <2>1. cur' # h /\ chain' = chain /\ head' = head
    BY <1>5 DEF PersistPayoutSubmission
  <2> QED BY <2>1 DEF MayPay
<1>6. ASSUME NEW i \in approved, HoldApproved(i) PROVE ~MayPay(h)'
  BY <1>6, <1>keep DEF HoldApproved
<1>7. CASE SendTransaction
  <2>1. pc = "broadcast" /\ pc' = "approved" /\ head' = head /\ cur \notin DOMAIN chain
    BY <1>7 DEF SendTransaction, PhaseFacts
  <2>2. CASE chain' = chain
    BY <2>1, <2>2 DEF MayPay
  <2>3. CASE chain' = Put(chain, cur, "sent")
    BY <2>1, <2>3, <1>0 DEF MayPay, Put
  <2> QED BY <1>7, <2>2, <2>3 DEF SendTransaction, Deliver
<1>8. CASE RunConfirmations
  BY <1>8, <1>keep DEF RunConfirmations
<1>9. ASSUME NEW g \in unsettled, SetTransactionStatus(g) \/ LeavePending(g) PROVE ~MayPay(h)'
  BY <1>9, <1>keep DEF SetTransactionStatus, LeavePending
<1>10. CASE UpdatePayslips \/ UpdatePayslipsFails \/ ConfirmationsFail \/ FinishTick
  BY <1>10, <1>keep DEF UpdatePayslips, UpdatePayslipsFails, ConfirmationsFail, FinishTick
<1>11. CASE Crash \/ Restart
  BY <1>11, <1>keep DEF Crash, Restart
<1>12. ASSUME NEW g \in DOMAIN transactions, RetryPayout(g) PROVE ~MayPay(h)'
  BY <1>12, <1>keep DEF RetryPayout, local
<1>13. ASSUME NEW i \in DOMAIN audit_logs, SkipAudit(i) PROVE ~MayPay(h)'
  BY <1>13, <1>keep DEF SkipAudit, local
<1>14. ASSUME NEW g \in DOMAIN chain, Include(g) \/ Revert(g) \/ MakeFinal(g) PROVE ~MayPay(h)'
  <2>1. head' = head /\ pc' = pc /\ cur' = cur /\ DOMAIN chain' = DOMAIN chain
    BY <1>14 DEF Include, Revert, MakeFinal, local
  <2>2. CASE g # h
    BY <1>14, <2>1, <2>2 DEF MayPay, Include, Revert, MakeFinal
  <2>3. CASE g = h
    BY <1>14, <2>1, <2>3, <1>0 DEF MayPay, Include, Revert, MakeFinal, Included
  <2> QED BY <2>2, <2>3
<1>15. CASE ProduceBlock
  BY <1>15, <1>0 DEF MayPay, ProduceBlock, local
<1>16. CASE UNCHANGED vars
  BY <1>16, <1>keep DEF vars, local
<1> QED
  BY <1>1, <1>2, <1>3, <1>4, <1>5, <1>6, <1>7, <1>8, <1>9, <1>10, <1>11, <1>12,
     <1>13, <1>14, <1>15, <1>16
  DEF Next, Daemon, Operator, Chain

\* A payout given up as stuck, or reported failed by the chain, cannot pay.
LEMMA FailedVerdictIsDead ==
  ASSUME TypeOK, PhaseFacts, VerdictsHold,
         NEW h \in DOMAIN transactions, pc = "confirm", "failed" \in Verdicts(h)
  PROVE  ~MayPay(h)
<1> USE PayoutsAssumption
<1>0. h \in Hash /\ h.head \in Nat /\ head \in Nat /\ seen \in Nat
  BY DEF TypeOK, Hash
<1>1. CASE h \in DOMAIN chain /\ chain[h] = "bad"
  BY <1>1 DEF MayPay
<1>2. CASE ~(h \in DOMAIN chain /\ chain[h] = "bad")
  <2>1. ~(h \in DOMAIN chain /\ chain[h] = "ok") /\ IsStuck(h, seen)
    BY <1>2 DEF Verdicts
  <2>2. head >= h.head + Window + FinalLag
    BY <1>0, <2>1, StuckOutlivesTransaction DEF IsStuck, PhaseFacts
  <2>3. ~(h \in DOMAIN chain /\ chain[h] \in {"included_ok", "included_bad"})
    BY <1>0, <2>2 DEF VerdictsHold, Included
  <2> QED BY <1>0, <2>1, <2>2, <2>3 DEF MayPay
<1> QED BY <1>1, <1>2

\* What moves the chain or its height: a broadcast, and the chain itself.
LEMMA ChainSteps ==
  [Next]_vars =>
    \/ UNCHANGED <<chain, head>>
    \/ SendTransaction
    \/ \E h \in DOMAIN chain : Include(h) \/ Revert(h) \/ MakeFinal(h)
    \/ ProduceBlock
<1> SUFFICES ASSUME [Next]_vars, ~UNCHANGED <<chain, head>>, ~SendTransaction
             PROVE  Chain
  BY DEF Chain
<1>1. ~\E s \in Slips : InsertPayslip(s)
  BY DEF InsertPayslip
<1>2. ~\E r \in rows : InsertAuditLog(r) \/ HoldRow(r)
  BY DEF InsertAuditLog, HoldRow
<1>3. ~\E i \in approved : PersistPayoutSubmission(i) \/ HoldApproved(i)
  BY DEF PersistPayoutSubmission, HoldApproved
<1>4. ~\E h \in unsettled : SetTransactionStatus(h) \/ LeavePending(h)
  BY DEF SetTransactionStatus, LeavePending
<1>5. ~(RunPayouts \/ ProcessApprovedPayouts \/ RunConfirmations)
  BY DEF RunPayouts, ProcessApprovedPayouts, RunConfirmations
<1>6. ~(UpdatePayslips \/ UpdatePayslipsFails \/ ConfirmationsFail \/ FinishTick \/ Crash \/ Restart)
  BY DEF UpdatePayslips, UpdatePayslipsFails, ConfirmationsFail, FinishTick, Crash, Restart
<1>7. ~Operator
  BY DEF Operator, RetryPayout, SkipAudit
<1>8. ~UNCHANGED vars
  BY DEF vars
<1> QED BY <1>1, <1>2, <1>3, <1>4, <1>5, <1>6, <1>7, <1>8 DEF Next, Daemon

\* The verdicts in the database stay true of the chain.
LEMMA NextVerdicts ==
  TypeOK /\ PhaseFacts /\ SlipsLinked /\ VerdictsHold /\ [Next]_vars => VerdictsHold'
<1> SUFFICES ASSUME TypeOK, PhaseFacts, SlipsLinked, VerdictsHold, [Next]_vars
             PROVE  VerdictsHold'
  OBVIOUS
<1> USE PayoutsAssumption
<1> DEFINE Final == \A h \in DOMAIN chain : chain[h] = "ok" => h \in DOMAIN chain' /\ chain'[h] = "ok"
           InTime == \A h \in DOMAIN chain : Included(h) => head < h.head + Window + FinalLag
<1>typed. head \in Nat /\ \A h \in DOMAIN chain : h.head \in Nat
  BY DEF TypeOK, Hash
<1>1. Final /\ InTime'
  <2>0. InTime
    BY DEF VerdictsHold
  <2>1. ASSUME UNCHANGED <<chain, head>> PROVE Final /\ InTime'
    BY <2>0, <2>1 DEF Included
  <2>2. CASE SendTransaction
    <3>1. CASE chain' = chain
      BY <2>1, <2>2, <3>1 DEF SendTransaction
    <3>2. CASE chain' = Put(chain, cur, "sent")
      BY <2>0, <2>2, <3>2 DEF SendTransaction, PhaseFacts, Put, Included
    <3> QED BY <2>2, <3>1, <3>2 DEF SendTransaction, Deliver
  <2>3. ASSUME NEW g \in DOMAIN chain, Include(g) \/ Revert(g) \/ MakeFinal(g)
        PROVE  Final /\ InTime'
    BY <2>0, <2>3, <1>typed DEF Include, Revert, MakeFinal, Included
  <2>4. CASE ProduceBlock
    BY <2>0, <2>4 DEF ProduceBlock, Included
  <2> QED
    BY <2>1, <2>2, <2>3, <2>4, ChainSteps
<1>2. ASSUME \A h \in DOMAIN transactions' :
               transactions'[h] \in {"completed", "failed"} =>
                 h \in DOMAIN transactions /\ transactions'[h] = transactions[h]
      PROVE  VerdictsHold'
  BY <1>1, <1>2, DeadStaysDead DEF VerdictsHold
<1>3. ASSUME NEW h \in unsettled, SetTransactionStatus(h) PROVE VerdictsHold'
  <2>1. /\ h \in DOMAIN transactions /\ pc = "confirm" /\ chain' = chain
        /\ DOMAIN transactions' = DOMAIN transactions
        /\ transactions'[h] \in Verdicts(h)
        /\ \A g \in DOMAIN transactions : g # h => transactions'[g] = transactions[g]
    BY <1>3 DEF SetTransactionStatus, TypeOK
  <2>2. transactions'[h] = "completed" => h \in DOMAIN chain /\ chain[h] = "ok"
    BY <2>1 DEF Verdicts
  <2>3. transactions'[h] = "failed" => ~MayPay(h)'
    BY <2>1, FailedVerdictIsDead, DeadStaysDead
  <2>4. \A g \in DOMAIN transactions : g # h /\ transactions[g] = "failed" => ~MayPay(g)'
    BY DeadStaysDead DEF VerdictsHold
  <2> QED BY <1>1, <2>1, <2>2, <2>3, <2>4 DEF VerdictsHold
<1>4. ASSUME NEW i \in approved, PersistPayoutSubmission(i) PROVE VerdictsHold'
  BY <1>2, <1>4 DEF PersistPayoutSubmission, Put
<1>5. ASSUME transactions' = transactions PROVE VerdictsHold'
  BY <1>2, <1>5
<1> QED
  BY <1>3, <1>4, <1>5
  DEF Next, Daemon, Operator, Chain, vars, db, InsertPayslip, RunPayouts, InsertAuditLog,
      HoldRow, ProcessApprovedPayouts, HoldApproved, SendTransaction, RunConfirmations,
      LeavePending, UpdatePayslips, UpdatePayslipsFails, ConfirmationsFail, FinishTick,
      Crash, Restart, RetryPayout, SkipAudit, Include, Revert, MakeFinal, ProduceBlock

-----------------------------------------------------------------------------
(* The theorems.                                                           *)

\* The invariant is inductive.
THEOREM Invariance == Spec => []IInv
<1>1. Init => IInv
  BY InitType, InitExclusive, InitLinks DEF IInv
<1>2. IInv /\ [Next]_vars => IInv'
  BY NextType, NextExclusive, NextPhase, NextLinked, NextVerdicts DEF IInv
<1> QED
  BY <1>1, <1>2, PTL DEF Spec

\* The variables of the pipeline always have their types (TypeOK).
THEOREM TypeCorrect == Spec => []TypeOK
<1>1. IInv => TypeOK
  BY DEF IInv
<1> QED BY <1>1, Invariance, PTL

\* At most one payout per address is approved or awaiting confirmation, over all
\* interleavings of the daemon with the operator and with crashes.
THEOREM ExclusivePayouts == Spec => []OnePayoutPerAddress
<1>1. IInv => OnePayoutPerAddress
  BY DEF IInv
<1> QED BY <1>1, Invariance, PTL

\* What the database still owes has not been paid and cannot be any more, so the
\* operator's retry is safe; it rests on StuckOutlivesTransaction.
THEOREM RetryIsSafe == Spec => []OwedIsUnpaid
<1>1. IInv => OwedIsUnpaid
  <2> SUFFICES ASSUME IInv, NEW s \in Slips, payslips[s].status \in {"pending", "failed"},
                      NEW h \in DOMAIN covers, s \in covers[h]
               PROVE  ~MayPay(h)
    BY DEF OwedIsUnpaid
  <2>1. h \in DOMAIN transactions /\ h # NoTx
    BY NoTxAssumption DEF IInv, TypeOK
  <2>2. transactions[h] = "failed"
    BY <2>1 DEF IInv, SlipsLinked
  <2> QED BY <2>1, <2>2 DEF IInv, VerdictsHold
<1> QED BY <1>1, Invariance, PTL

\* No payslip is paid twice, whatever is retried, lost or crashed in between.
THEOREM PaidOnce == Spec => []NoDoublePayment
<1>1. IInv => NoDoublePayment
  <2> SUFFICES ASSUME IInv
               PROVE  \A g, h \in DOMAIN covers :
                        g # h /\ covers[g] \cap covers[h] # {} => ~MayPay(g) \/ ~MayPay(h)
    BY DEF NoDoublePayment
  <2> TAKE g, h \in DOMAIN covers
  <2> HAVE g # h /\ covers[g] \cap covers[h] # {}
  <2> PICK s \in Slips : s \in covers[g] /\ s \in covers[h]
    BY DEF IInv, TypeOK
  <2>1. transactions[g] = "failed" \/ transactions[h] = "failed"
    BY DEF IInv, SlipsLinked
  <2> QED BY <2>1 DEF IInv, VerdictsHold, TypeOK
<1> QED BY <1>1, Invariance, PTL

\* A payslip is completed only when its payment is final on the chain.
THEOREM CompletedMeansPaid == Spec => []CompletedIsPaid
<1>1. IInv => CompletedIsPaid
  <2> SUFFICES ASSUME IInv, NEW s \in Slips, payslips[s].status = "completed"
               PROVE  payslips[s].tx \in DOMAIN chain /\ chain[payslips[s].tx] = "ok"
    BY DEF CompletedIsPaid
  <2>1. payslips[s].tx \in DOMAIN transactions /\ transactions[payslips[s].tx] = "completed"
    BY DEF IInv, SlipsLinked, TypeOK
  <2> QED BY <2>1 DEF IInv, VerdictsHold
<1> QED BY <1>1, Invariance, PTL

\* Everything on the chain was recorded before it was sent, and its payslips
\* point at it as long as it may pay.
THEOREM Tracked == Spec => []SentIsTracked
<1>1. IInv => SentIsTracked
  <2> SUFFICES ASSUME IInv, NEW h \in DOMAIN chain
               PROVE  /\ h \in DOMAIN transactions
                      /\ MayPay(h) => \A s \in covers[h] : payslips[s].tx = h
    BY DEF SentIsTracked
  <2>1. h \in DOMAIN transactions /\ h \in DOMAIN covers /\ covers[h] \subseteq Slips
    BY DEF IInv, SlipsLinked, TypeOK
  <2>2. ASSUME MayPay(h), NEW s \in covers[h] PROVE payslips[s].tx = h
    <3>1. transactions[h] # "failed"
      BY <2>1, <2>2 DEF IInv, VerdictsHold
    <3> QED BY <2>1, <3>1 DEF IInv, SlipsLinked
  <2> QED BY <2>1, <2>2
<1> QED BY <1>1, Invariance, PTL

\* A completed payslip never changes again.
THEOREM CompletedStays == Spec => CompletedIsTerminal
<1>1. IInv /\ [Next]_vars =>
        [\A s \in Slips : payslips[s].status = "completed" => payslips'[s] = payslips[s]]_vars
  <2> SUFFICES ASSUME IInv, [Next]_vars, NEW s \in Slips, payslips[s].status = "completed"
               PROVE  payslips'[s] = payslips[s]
    OBVIOUS
  <2>1. ASSUME NEW r \in Slips, InsertPayslip(r) PROVE payslips'[s] = payslips[s]
    BY <2>1 DEF InsertPayslip, IInv, TypeOK
  <2>2. ASSUME NEW i \in approved, PersistPayoutSubmission(i) PROVE payslips'[s] = payslips[s]
    BY <2>2 DEF PersistPayoutSubmission, Pending
  <2>3. CASE UpdatePayslips
    <3>1. CASE payslips[s].tx = cur
      <4>1. outcome = "completed"
        BY <2>3, <3>1 DEF UpdatePayslips, IInv, PhaseFacts, SlipsLinked
      <4>2. payslips'[s] = [status |-> "completed", tx |-> payslips[s].tx]
        BY <2>3, <3>1, <4>1 DEF UpdatePayslips, SettlePayslips
      <4>3. payslips[s] \in [status : SlipStatus, tx : Hash \cup {NoTx}]
        BY DEF IInv, TypeOK
      <4>4. payslips[s] = [status |-> payslips[s].status, tx |-> payslips[s].tx]
        BY <4>3
      <4> QED BY <4>2, <4>4
    <3>2. CASE payslips[s].tx # cur
      BY <2>3, <3>2 DEF UpdatePayslips, SettlePayslips
    <3> QED BY <3>1, <3>2
  <2>4. ASSUME NEW h \in DOMAIN transactions, RetryPayout(h) PROVE payslips'[s] = payslips[s]
    BY <2>4 DEF RetryPayout, Retryable
  <2>5. ASSUME payslips' = payslips PROVE payslips'[s] = payslips[s]
    BY <2>5
  <2>6. ASSUME NEW r \in rows, InsertAuditLog(r) \/ HoldRow(r) PROVE payslips' = payslips
    BY <2>6 DEF InsertAuditLog, HoldRow, db
  <2>7. ASSUME NEW i \in approved, HoldApproved(i) PROVE payslips' = payslips
    BY <2>7 DEF HoldApproved, db
  <2>8. ASSUME NEW h \in unsettled, SetTransactionStatus(h) \/ LeavePending(h)
        PROVE  payslips' = payslips
    BY <2>8 DEF SetTransactionStatus, LeavePending, db
  <2>9. CASE RunPayouts \/ ProcessApprovedPayouts \/ SendTransaction \/ RunConfirmations
    BY <2>9, <2>5 DEF RunPayouts, ProcessApprovedPayouts, SendTransaction, RunConfirmations, db
  <2>10. CASE UpdatePayslipsFails \/ ConfirmationsFail \/ FinishTick \/ Crash \/ Restart
    BY <2>10, <2>5 DEF UpdatePayslipsFails, ConfirmationsFail, FinishTick, Crash, Restart, db
  <2>11. ASSUME NEW i \in DOMAIN audit_logs, SkipAudit(i) PROVE payslips' = payslips
    BY <2>11 DEF SkipAudit
  <2>12. CASE Chain
    BY <2>12, <2>5 DEF Chain, Include, Revert, MakeFinal, ProduceBlock, db
  <2>13. CASE UNCHANGED vars
    BY <2>13, <2>5 DEF vars, db
  <2> QED
    BY <2>1, <2>2, <2>3, <2>4, <2>5, <2>6, <2>7, <2>8, <2>9, <2>10, <2>11, <2>12, <2>13
    DEF Next, Daemon, Operator
<1> QED
  BY <1>1, Invariance, PTL DEF Spec, CompletedIsTerminal
-----------------------------------------------------------------------------
(* The refinement: what the tables and the chain do to the ledger.         *)

\* The ledger's name for the status of a payslip.
StateOf(st) ==
  CASE st = "absent" -> "none"
    [] st \in {"pending", "failed"} -> "owed"
    [] st = "awaiting_confirmation" -> "out"
    [] st = "completed" -> "paid"

\* What the ledger sees of a payslip is its status, before and after a step.
LEMMA LedgerStateIs ==
  /\ LedgerState = [s \in Slips |-> StateOf(payslips[s].status)]
  /\ LedgerState' = [s \in Slips |-> StateOf(payslips'[s].status)]
BY Zenon DEF LedgerState, StateOf

\* The five statuses and the four states.
LEMMA StateNames ==
  /\ StateOf("absent") = "none" /\ StateOf("completed") = "paid"
  /\ StateOf("pending") = "owed" /\ StateOf("failed") = "owed"
  /\ StateOf("awaiting_confirmation") = "out"
BY DEF StateOf

\* Money has landed for a payslip when a transaction that took it on is final.
LEMMA LandedIs ==
  /\ \A s : s \in Landed <=> \E h \in DOMAIN chain : chain[h] = "ok" /\ s \in covers[h]
  /\ \A s : s \in Landed' <=> \E h \in DOMAIN chain' : chain'[h] = "ok" /\ s \in covers'[h]
BY DEF Landed

\* For what is owed nothing has landed; for what is out, money has landed exactly
\* when its own transaction is final: any other that ever took it on has failed.
LEMMA LandedFacts ==
  ASSUME IInv, NEW s \in Slips
  PROVE  /\ payslips[s].status \in {"pending", "failed"} => s \notin Landed
         /\ payslips[s].tx # NoTx =>
              (s \in Landed <=> /\ payslips[s].tx \in DOMAIN chain
                                /\ chain[payslips[s].tx] = "ok")
<1> USE DEF IInv
<1>1. \A h \in DOMAIN chain : h \in DOMAIN transactions /\ h \in DOMAIN covers /\ h # NoTx
  BY NoTxAssumption DEF TypeOK, SlipsLinked
<1>2. \A h \in DOMAIN chain : chain[h] = "ok" => transactions[h] # "failed"
  BY <1>1 DEF VerdictsHold, MayPay
<1>3. \A h \in DOMAIN chain : chain[h] = "ok" /\ s \in covers[h] => payslips[s].tx = h
  BY <1>1, <1>2 DEF SlipsLinked
<1>4. ASSUME payslips[s].status \in {"pending", "failed"}, s \in Landed PROVE FALSE
  <2>1. PICK h \in DOMAIN chain : chain[h] = "ok" /\ s \in covers[h]
    BY <1>4, LandedIs
  <2>2. payslips[s].tx = h
    BY <1>3, <2>1
  <2>3. payslips[s].status = "failed"
    BY <1>1, <1>4, <2>1, <2>2 DEF SlipsLinked
  <2>4. transactions[h] = "failed"
    BY <2>2, <2>3 DEF SlipsLinked
  <2> QED BY <1>2, <2>1, <2>4
<1>5. ASSUME payslips[s].tx # NoTx
      PROVE  s \in Landed <=> /\ payslips[s].tx \in DOMAIN chain
                              /\ chain[payslips[s].tx] = "ok"
  <2>1. s \in covers[payslips[s].tx]
    BY <1>5 DEF SlipsLinked
  <2> QED BY <1>3, <2>1, LandedIs
<1> QED BY <1>4, <1>5

\* A step that leaves every status and every final transaction alone is a stutter.
LEMMA LedgerStutters ==
  ASSUME payslips' = payslips, chain' = chain, covers' = covers
  PROVE  UNCHANGED Ledger!vars
BY DEF Ledger!vars, LedgerState, Landed

\* A move of the ledger, from the states of its payslips before and after.
LEMMA LedgerMoves ==
  ASSUME NEW S \in SUBSET Slips, NEW from, NEW to,
         \A s \in S : StateOf(payslips[s].status) = from,
         \A s \in S : StateOf(payslips'[s].status) = to,
         \A s \in Slips \ S : StateOf(payslips'[s].status) = StateOf(payslips[s].status),
         Landed' = Landed
  PROVE  Ledger!Move(S, from, to)
<1>1. LedgerState' = [s \in Slips |-> IF s \in S THEN to ELSE LedgerState[s]]
  BY LedgerStateIs
<1>2. \A s \in S : LedgerState[s] = from
  BY LedgerStateIs
<1> QED BY <1>1, <1>2 DEF Ledger!Move

\* A checkpoint's payslip accrues.
LEMMA InsertAccrues ==
  ASSUME IInv, NEW s \in Slips, InsertPayslip(s)
  PROVE  Ledger!Accrue({s})
<1>1. Landed' = Landed
  BY DEF InsertPayslip, Landed
<1>2. /\ payslips[s].status = "absent" /\ payslips'[s].status = "pending"
      /\ \A r \in Slips \ {s} : payslips'[r] = payslips[r]
  BY DEF InsertPayslip, IInv, TypeOK
<1> QED
  BY <1>1, <1>2, StateNames, LedgerMoves DEF Ledger!Accrue

\* A submission takes out all that its address is owed, none of which has landed.
LEMMA PersistSubmits ==
  ASSUME IInv, NEW i \in approved, PersistPayoutSubmission(i)
  PROVE  \E S \in SUBSET Slips : Ledger!Submit(S)
<1> PICK h : h = PayoutHash(i)
  OBVIOUS
<1> DEFINE S == Pending(h.addr)
<1>1. S \in SUBSET Slips /\ \A s \in S : payslips[s].status = "pending"
  BY DEF Pending
<1>2. /\ \A s \in S : payslips'[s].status = "awaiting_confirmation"
      /\ \A s \in Slips \ S : payslips'[s] = payslips[s]
  BY <1>1 DEF PersistPayoutSubmission
<1>3. Landed' = Landed
  <2>1. h \notin DOMAIN chain
    BY DEF PersistPayoutSubmission, IInv, SlipsLinked
  <2>2. \A g \in DOMAIN chain : covers'[g] = covers[g]
    BY <2>1 DEF PersistPayoutSubmission, Put, IInv, SlipsLinked, TypeOK
  <2>3. chain' = chain
    BY DEF PersistPayoutSubmission
  <2> QED BY <2>2, <2>3, LandedIs
<1>4. S \cap Landed = {}
  BY <1>1, LandedFacts
<1> HIDE DEF S
<1>5. Ledger!Move(S, "owed", "out")
  BY <1>1, <1>2, <1>3, StateNames, LedgerMoves
<1> QED BY <1>1, <1>4, <1>5 DEF Ledger!Submit

\* An inclusion that becomes final lands the money of payslips that are out.
LEMMA FinalLands ==
  ASSUME IInv, NEW h \in DOMAIN chain, MakeFinal(h)
  PROVE  (\E S \in SUBSET Slips : Ledger!Land(S)) \/ UNCHANGED Ledger!vars
<1> USE DEF IInv
<1>1. /\ payslips' = payslips /\ covers' = covers /\ DOMAIN chain' = DOMAIN chain
      /\ \A g \in DOMAIN chain : g # h => chain'[g] = chain[g]
      /\ chain[h] \in {"included_ok", "included_bad"}
      /\ chain'[h] = IF chain[h] = "included_ok" THEN "ok" ELSE "bad"
  BY DEF MakeFinal, Included, db
<1>2. LedgerState' = LedgerState
  BY <1>1 DEF LedgerState
<1>3. CASE chain[h] = "included_bad"
  <2>1. \A s : s \in Landed' <=> s \in Landed
    BY <1>1, <1>3, LandedIs
  <2>2. Landed' = Landed
    BY <2>1
  <2> QED BY <1>2, <2>2 DEF Ledger!vars
<1>4. CASE chain[h] = "included_ok"
  <2>1. h \in DOMAIN transactions /\ h \in DOMAIN covers /\ h # NoTx /\ covers[h] \subseteq Slips
    BY NoTxAssumption DEF TypeOK, SlipsLinked
  <2>2. transactions[h] \notin {"failed", "completed"}
    BY <1>4, <2>1 DEF VerdictsHold, MayPay
  <2>3. \A s \in covers[h] : payslips[s].tx = h
    BY <2>1, <2>2 DEF SlipsLinked
  <2>4. \A s \in covers[h] : payslips[s].status = "awaiting_confirmation"
    <3> TAKE s \in covers[h]
    <3>1. payslips[s].status \in SlipStatus
      BY <2>1 DEF TypeOK
    <3>2. payslips[s].status \notin {"absent", "pending"}
      BY <2>1, <2>3 DEF SlipsLinked
    <3>3. payslips[s].status \notin {"completed", "failed"}
      BY <2>1, <2>2, <2>3 DEF SlipsLinked
    <3> QED BY <3>1, <3>2, <3>3 DEF SlipStatus
  <2>5. \A s \in covers[h] : LedgerState[s] = "out"
    BY <2>1, <2>4, StateNames, LedgerStateIs
  <2>6. covers[h] \cap Landed = {}
    BY <1>4, <2>1, <2>3, LandedFacts
  <2>7. \A s : s \in Landed' <=> s \in Landed \/ s \in covers[h]
    BY <1>1, <1>4, LandedIs
  <2>8. Landed' = Landed \cup covers[h]
    BY <2>7
  <2>9. Ledger!Land(covers[h])
    BY <1>2, <2>5, <2>6, <2>8 DEF Ledger!Land
  <2> QED BY <2>1, <2>9
<1> QED BY <1>1, <1>3, <1>4

\* The second statement of a settlement settles what has landed, or gives up what
\* has not; payslips an earlier attempt has settled keep the state they have.
LEMMA UpdateSettles ==
  ASSUME IInv, UpdatePayslips
  PROVE  \E S \in SUBSET Slips : Ledger!Settle(S) \/ Ledger!GiveUp(S)
<1> USE DEF IInv
<1> DEFINE S == {s \in Slips : payslips[s].tx = cur /\ payslips[s].status = "awaiting_confirmation"}
<1>1. /\ cur \in DOMAIN transactions /\ cur # NoTx /\ outcome = transactions[cur]
      /\ outcome \in {"completed", "failed"}
  BY NoTxAssumption DEF UpdatePayslips, PhaseFacts, TypeOK, TxStatus
<1>2. \A s \in Slips : payslips'[s].status = IF payslips[s].tx = cur THEN outcome
                                              ELSE payslips[s].status
  BY DEF UpdatePayslips, SettlePayslips
<1>3. S \in SUBSET Slips /\ \A s \in S : /\ payslips[s].status = "awaiting_confirmation"
                                         /\ payslips[s].tx = cur
                                         /\ payslips'[s].status = outcome
  BY <1>2
<1>4. \A s \in Slips \ S : payslips'[s].status = payslips[s].status
  <2> TAKE s \in Slips \ S
  <2>1. CASE payslips[s].tx = cur
    <3>1. payslips[s].status \in SlipStatus
      BY DEF TypeOK
    <3>2. payslips[s].status \in {"completed", "failed"}
      BY <1>1, <2>1, <3>1 DEF SlipStatus, SlipsLinked
    <3>3. payslips[s].status = outcome
      BY <1>1, <2>1, <3>2 DEF SlipsLinked
    <3> QED BY <1>2, <2>1, <3>3
  <2>2. CASE payslips[s].tx # cur
    BY <1>2, <2>2
  <2> QED BY <2>1, <2>2
<1>5. Landed' = Landed
  BY DEF UpdatePayslips, Landed
<1>6. \A s \in S : s \in Landed <=> outcome = "completed"
  <2>1. outcome = "completed" => cur \in DOMAIN chain /\ chain[cur] = "ok"
    BY <1>1 DEF VerdictsHold
  <2>2. outcome = "failed" => ~(cur \in DOMAIN chain /\ chain[cur] = "ok")
    BY <1>1 DEF VerdictsHold, MayPay
  <2> QED BY <1>1, <1>3, <2>1, <2>2, LandedFacts
<1> HIDE DEF S
<1>7. CASE outcome = "completed"
  <2>1. Ledger!Move(S, "out", "paid")
    BY <1>3, <1>4, <1>5, <1>7, StateNames, LedgerMoves
  <2>2. S \subseteq Landed
    BY <1>6, <1>7
  <2> QED BY <1>3, <2>1, <2>2 DEF Ledger!Settle
<1>8. CASE outcome = "failed"
  <2>1. Ledger!Move(S, "out", "owed")
    BY <1>3, <1>4, <1>5, <1>8, StateNames, LedgerMoves
  <2>2. S \cap Landed = {}
    BY <1>6, <1>8
  <2> QED BY <1>3, <2>1, <2>2 DEF Ledger!GiveUp
<1> QED BY <1>1, <1>7, <1>8

\* Retrying a failed payout changes nothing in the ledger: it was owed already.
LEMMA RetryStutters ==
  ASSUME NEW h \in DOMAIN transactions, RetryPayout(h)
  PROVE  UNCHANGED Ledger!vars
<1>1. \A s \in Slips : StateOf(payslips'[s].status) = StateOf(payslips[s].status)
  BY StateNames DEF RetryPayout, Retryable
<1>2. LedgerState' = LedgerState
  BY <1>1, LedgerStateIs
<1>3. Landed' = Landed
  BY DEF RetryPayout, Landed
<1> QED BY <1>2, <1>3 DEF Ledger!vars

\* A broadcast, and an inclusion that may still be reverted, land nothing.
LEMMA NothingFinal ==
  ASSUME IInv, payslips' = payslips, covers' = covers,
         \/ SendTransaction
         \/ \E h \in DOMAIN chain : Include(h) \/ Revert(h)
  PROVE  UNCHANGED Ledger!vars
<1>1. \A h : (h \in DOMAIN chain' /\ chain'[h] = "ok") <=> (h \in DOMAIN chain /\ chain[h] = "ok")
  <2>1. CASE SendTransaction
    <3>1. cur \notin DOMAIN chain
      BY <2>1 DEF SendTransaction, IInv, PhaseFacts
    <3> QED BY <2>1, <3>1 DEF SendTransaction, Deliver, Put
  <2>2. ASSUME NEW h \in DOMAIN chain, Include(h) \/ Revert(h)
        PROVE  \A g : (g \in DOMAIN chain' /\ chain'[g] = "ok") <=> (g \in DOMAIN chain /\ chain[g] = "ok")
    BY <2>2 DEF Include, Revert, Included
  <2> QED BY <2>1, <2>2
<1>2. \A s : s \in Landed' <=> s \in Landed
  BY <1>1, LandedIs
<1>3. Landed' = Landed
  BY <1>2
<1>4. LedgerState' = LedgerState
  BY DEF LedgerState
<1> QED BY <1>3, <1>4 DEF Ledger!vars

\* The pipeline implements the ledger: under every interleaving, crash and retry,
\* each of its steps accrues, submits, lands, settles or gives up a set of
\* payslips as the ledger allows, or changes nothing that the ledger can see.
THEOREM Refinement == Spec => ImplementsLedger
<1>1. Init => Ledger!Init
  <2> SUFFICES ASSUME Init PROVE Ledger!Init
    OBVIOUS
  <2>1. LedgerState = [s \in Slips |-> "none"]
    BY LedgerStateIs, StateNames DEF Init
  <2>2. Landed = {}
    BY LandedIs DEF Init
  <2> QED BY <2>1, <2>2 DEF Ledger!Init
<1>2. IInv /\ [Next]_vars => [Ledger!Next]_(Ledger!vars)
  <2> SUFFICES ASSUME IInv, [Next]_vars PROVE Ledger!Next \/ UNCHANGED Ledger!vars
    OBVIOUS
  <2>1. ASSUME NEW s \in Slips, InsertPayslip(s) PROVE Ledger!Next
    BY <2>1, InsertAccrues DEF Ledger!Next
  <2>2. ASSUME NEW i \in approved, PersistPayoutSubmission(i) PROVE Ledger!Next
    BY <2>2, PersistSubmits DEF Ledger!Next
  <2>3. ASSUME NEW h \in DOMAIN chain, MakeFinal(h)
        PROVE  Ledger!Next \/ UNCHANGED Ledger!vars
    BY <2>3, FinalLands DEF Ledger!Next
  <2>4. CASE UpdatePayslips
    BY <2>4, UpdateSettles DEF Ledger!Next
  <2>5. ASSUME NEW h \in DOMAIN transactions, RetryPayout(h) PROVE UNCHANGED Ledger!vars
    BY <2>5, RetryStutters
  <2>6. CASE SendTransaction
    BY <2>6, NothingFinal DEF SendTransaction, db
  <2>7. ASSUME NEW h \in DOMAIN chain, Include(h) \/ Revert(h) PROVE UNCHANGED Ledger!vars
    <3>1. payslips' = payslips /\ covers' = covers
      BY <2>7 DEF Include, Revert, db
    <3> QED BY <2>7, <3>1, NothingFinal
  <2>8. ASSUME NEW r \in rows, InsertAuditLog(r) \/ HoldRow(r) PROVE UNCHANGED Ledger!vars
    BY <2>8, LedgerStutters DEF InsertAuditLog, HoldRow, db
  <2>9. ASSUME NEW i \in approved, HoldApproved(i) PROVE UNCHANGED Ledger!vars
    BY <2>9, LedgerStutters DEF HoldApproved, db
  <2>10. ASSUME NEW h \in unsettled, SetTransactionStatus(h) \/ LeavePending(h)
         PROVE  UNCHANGED Ledger!vars
    BY <2>10, LedgerStutters DEF SetTransactionStatus, LeavePending, db
  <2>11. CASE RunPayouts \/ ProcessApprovedPayouts \/ RunConfirmations
    BY <2>11, LedgerStutters DEF RunPayouts, ProcessApprovedPayouts, RunConfirmations, db
  <2>12. CASE UpdatePayslipsFails \/ ConfirmationsFail \/ FinishTick \/ Crash \/ Restart
    BY <2>12, LedgerStutters
    DEF UpdatePayslipsFails, ConfirmationsFail, FinishTick, Crash, Restart, db
  <2>13. ASSUME NEW i \in DOMAIN audit_logs, SkipAudit(i) PROVE UNCHANGED Ledger!vars
    BY <2>13, LedgerStutters DEF SkipAudit
  <2>14. CASE ProduceBlock
    BY <2>14, LedgerStutters DEF ProduceBlock, db
  <2>15. CASE UNCHANGED vars
    BY <2>15, LedgerStutters DEF vars, db
  <2> QED
    BY <2>1, <2>2, <2>3, <2>4, <2>5, <2>6, <2>7, <2>8, <2>9, <2>10, <2>11, <2>12,
       <2>13, <2>14, <2>15
    DEF Next, Daemon, Operator, Chain
<1> QED
  BY <1>1, <1>2, Invariance, PTL DEF Spec, ImplementsLedger, Ledger!Spec
=============================================================================
