-------------------------- MODULE ActivationProofs --------------------------
(***************************************************************************)
(* Proofs about Activation and the ConfigStore in it, for all settings,    *)
(* any number of requests, and every deposit, stake, reserve and faucet.   *)
(***************************************************************************)
EXTENDS Activation, TLAPS

-----------------------------------------------------------------------------
(* The inductive invariant.                                                *)

\* Once its settings are checked, a request carries valid ones.
RequestsOK ==
  \A h \in Handlers : rq[h].pc \in {"write", "record", "load", "swap"} => rq[h].editable \in Settings

\* From its first load on the daemon has a configuration, and what it records is a
\* transaction.
DaemonOK ==
  /\ dpc \notin {"load", "down"} => cfg \in Config
  /\ dpc = "record" => todo \in Kinds

\* Without a fault, whatever was sent has its row or is about to get it, and what is
\* about to be sent has none.
SentHasRow ==
  faults = 0 =>
    /\ \A k \in Kinds :
         \/ sent[k] = 0
         \/ sent[k] = 1 /\ (k \in pending \/ (dpc = "record" /\ todo = k /\ answered))
    /\ dpc = "bootstrap" => todo \notin pending

IInv == TypeOK /\ RequestsOK /\ DaemonOK /\ SentHasRow

\* At first no request was sent, whatever the daemon and the file start with.
LEMMA InitIInv == Init => IInv
<1> SUFFICES ASSUME Init PROVE IInv
  OBVIOUS
<1>1. StoreTypeOK
  <2>1. file \in Config \cup {NoFile, Broken} /\ apiCfg \in Config \cup {NoFile}
    BY DEF Init, StoreInit
  <2>2. revisions \in Seq(Settings)
    <3>1. revisions = <<>> \/ \E s \in Settings : revisions = <<s>>
      <4>1. revisions \in IF file = NoFile THEN {<<>>} ELSE {<<s>> : s \in Settings}
        BY DEF Init, StoreInit
      <4> QED
        BY <4>1, Zenon
    <3>2. <<>> \in Seq(Settings) /\ \A s \in Settings : <<s>> \in Seq(Settings)
      OBVIOUS
    <3> QED
      BY <3>1, <3>2, Zenon
  <2>3. rq \in [Handlers -> Request \cup {Idle}]
    <3>1. rq = [h \in Handlers |-> Idle]
      BY DEF Init, StoreInit
    <3> QED
      BY <3>1
  <2>4. setupOnly \in BOOLEAN /\ setupComplete \in BOOLEAN /\ setupSession \in BOOLEAN
    BY Zenon DEF Init, StoreInit
  <2>5. requests \in 0..MaxRequests /\ edits \in 0..MaxTrouble /\ faults \in 0..MaxTrouble
    BY ConfigStoreAssumption DEF Init, StoreInit
  <2> QED
    BY <2>1, <2>2, <2>3, <2>4, <2>5 DEF StoreTypeOK
<1>2. TypeOK
  <2>1. sent \in [Kinds -> Nat]
    BY DEF Init
  <2>2. amount \in 0..FaucetTarget /\ balance \in 0..FaucetTarget
    BY ActivationAssumption DEF Init
  <2> QED
    BY <1>1, <2>1, <2>2 DEF Init, TypeOK, Todos
<1>3. RequestsOK
  BY DEF Init, StoreInit, RequestsOK, Idle
<1>4. DaemonOK /\ SentHasRow
  BY DEF Init, DaemonOK, SentHasRow
<1> QED
  BY <1>2, <1>3, <1>4 DEF IInv

-----------------------------------------------------------------------------
(* The store.                                                              *)

\* A request at work is one, and a step of it moves it and no other.
LEMMA StepFacts ==
  ASSUME StoreTypeOK, NEW h \in Handlers, rq[h].pc # "idle",
         NEW p \in {"check", "write", "record", "load", "swap"}, NEW c \in Config \cup {NoFile},
         Step(h, p, c)
  PROVE  /\ rq' \in [Handlers -> Request \cup {Idle}]
         /\ rq'[h].pc = p /\ rq'[h].cfg = c /\ rq'[h].editable = rq[h].editable
         /\ \A g \in Handlers : g # h => rq'[g] = rq[g]
<1>1. rq[h] \in Request /\ rq \in [Handlers -> Request \cup {Idle}]
  BY DEF StoreTypeOK, Idle
<1> DEFINE r == [rq[h] EXCEPT !.pc = p, !.cfg = c]
<1>2. r \in Request /\ r.pc = p /\ r.cfg = c /\ r.editable = rq[h].editable
  BY <1>1 DEF Request
<1>3. rq' = [rq EXCEPT ![h] = r]
  BY DEF Step
<1> HIDE DEF r
<1> QED
  BY <1>1, <1>2, <1>3

\* The end of a request frees its handler and leaves the others alone.
LEMMA EndFacts ==
  ASSUME StoreTypeOK, NEW h \in Handlers, End(h)
  PROVE  /\ rq' \in [Handlers -> Request \cup {Idle}]
         /\ rq'[h].pc = "idle"
         /\ \A g \in Handlers : g # h => rq'[g] = rq[g]
<1>1. rq' = [rq EXCEPT ![h] = Idle] /\ rq \in [Handlers -> Request \cup {Idle}]
  BY DEF End, StoreTypeOK
<1>2. Idle.pc = "idle"
  BY DEF Idle
<1> QED
  BY <1>1, <1>2

\* A new request starts with the check of what it was sent.
LEMMA StartFacts ==
  ASSUME StoreTypeOK, NEW h \in Handlers, NEW setup \in BOOLEAN,
         NEW expected \in {NoFile} \cup (Settings \X (Secrets \cup {NoSecret})),
         NEW s \in Drafts, NEW x \in Secrets \cup {NoSecret},
         Start(h, setup, expected, s, x)
  PROVE  /\ rq' \in [Handlers -> Request \cup {Idle}]
         /\ rq'[h].pc = "check"
         /\ \A g \in Handlers : g # h => rq'[g] = rq[g]
         /\ requests' \in 0..MaxRequests
         /\ UNCHANGED <<file, revisions, apiCfg, setupOnly, setupComplete, setupSession, edits, faults>>
<1> DEFINE r == [pc |-> "check", setup |-> setup, expected |-> expected,
                 editable |-> s, secret |-> x, cfg |-> NoFile]
<1>1. r \in Request /\ r.pc = "check"
  BY DEF Request
<1>2. rq' = [rq EXCEPT ![h] = r] /\ rq \in [Handlers -> Request \cup {Idle}]
  BY DEF Start, StoreTypeOK
<1>3. requests' \in 0..MaxRequests
  BY ConfigStoreAssumption DEF Start, StoreTypeOK
<1>4. UNCHANGED <<file, revisions, apiCfg, setupOnly, setupComplete, setupSession, edits, faults>>
  BY DEF Start
<1> HIDE DEF r
<1> QED
  BY <1>1, <1>2, <1>3, <1>4

\* The expected hash of a request is that of a configuration or "".
LEMMA HashType ==
  ASSUME file \in Config
  PROVE  ConfigHash(file) \in {NoFile} \cup (Settings \X (Secrets \cup {NoSecret}))
BY DEF ConfigHash, Config

\* What a request writes is a configuration.
LEMMA MergedType ==
  ASSUME NEW r \in Request, r.editable \in Settings
  PROVE  /\ Merged(r) \in Config
         /\ Merged(r).dry_run = (r.cfg # NoFile /\ r.cfg.dry_run)
<1>1. r.cfg \in Config \cup {NoFile} /\ r.secret \in Secrets \cup {NoSecret}
  BY DEF Request
<1>2. r.cfg # NoFile => r.cfg.secret \in Secrets \cup {NoSecret} /\ r.cfg.dry_run \in BOOLEAN
  BY <1>1 DEF Config
<1>3. (r.cfg # NoFile /\ r.cfg.dry_run) \in BOOLEAN
  BY <1>2
<1>4. Merged(r) = [editable |-> r.editable,
                   secret   |-> IF r.secret # NoSecret THEN r.secret
                                ELSE IF r.cfg = NoFile THEN NoSecret ELSE r.cfg.secret,
                   dry_run  |-> r.cfg # NoFile /\ r.cfg.dry_run]
  BY DEF Merged
<1> QED
  BY <1>1, <1>2, <1>3, <1>4 DEF Config

\* The steps that concern the store leave its types and the checked settings.
LEMMA StoreSteps ==
  ASSUME IInv, StoreNext
  PROVE  StoreTypeOK' /\ RequestsOK'
<1>1. StoreTypeOK /\ RequestsOK
  BY DEF IInv, TypeOK
<1>2. ASSUME NEW h \in Handlers, CheckRevision(h) PROVE StoreTypeOK' /\ RequestsOK'
  <2>1. UNCHANGED <<file, revisions, apiCfg, setupOnly, setupComplete, setupSession, requests, edits, faults>>
    BY <1>2 DEF CheckRevision
  <2>2. \/ Step(h, "write", file) /\ rq[h].editable \in Settings /\ file \in Config \cup {NoFile}
        \/ End(h)
    BY <1>1, <1>2 DEF CheckRevision, ValidateEditable, LoadOptional, StoreTypeOK
  <2>3. rq[h].pc # "idle"
    BY <1>2 DEF CheckRevision
  <2> QED
    BY <1>1, <2>1, <2>2, <2>3, StepFacts, EndFacts DEF StoreTypeOK, RequestsOK
<1>3. ASSUME NEW h \in Handlers, WriteFile(h) PROVE StoreTypeOK' /\ RequestsOK'
  <2>1. /\ UNCHANGED <<revisions, apiCfg, setupOnly, setupComplete, setupSession, requests, edits, faults>>
        /\ file' = Merged(rq[h]) /\ Step(h, "record", NoFile) /\ rq[h].pc = "write"
    BY <1>3 DEF WriteFile
  <2>2. rq[h] \in Request /\ rq[h].editable \in Settings
    BY <1>1, <2>1 DEF StoreTypeOK, RequestsOK, Idle
  <2>3. file' \in Config
    BY <2>1, <2>2, MergedType
  <2> QED
    BY <1>1, <2>1, <2>2, <2>3, StepFacts DEF StoreTypeOK, RequestsOK
<1>4. ASSUME NEW h \in Handlers, InsertConfigRevision(h) PROVE StoreTypeOK' /\ RequestsOK'
  <2>1. /\ UNCHANGED <<file, apiCfg, setupOnly, requests, edits, faults>>
        /\ revisions' = Append(revisions, rq[h].editable)
        /\ Step(h, "load", NoFile) /\ rq[h].pc = "record"
    BY <1>4 DEF InsertConfigRevision
  <2>2. rq[h] \in Request /\ rq[h].editable \in Settings
    BY <1>1, <2>1 DEF StoreTypeOK, RequestsOK, Idle
  <2>3. revisions' \in Seq(Settings)
    BY <1>1, <2>1, <2>2 DEF StoreTypeOK
  <2>4. setupComplete' \in BOOLEAN /\ setupSession' \in BOOLEAN
    BY <1>4, Zenon DEF InsertConfigRevision
  <2> QED
    BY <1>1, <2>1, <2>2, <2>3, <2>4, StepFacts DEF StoreTypeOK, RequestsOK
<1>5. ASSUME NEW h \in Handlers, LoadWritten(h) PROVE StoreTypeOK' /\ RequestsOK'
  <2>1. UNCHANGED <<file, revisions, apiCfg, setupOnly, setupComplete, setupSession, requests, edits, faults>>
    BY <1>5 DEF LoadWritten
  <2>2. (Step(h, "swap", file) /\ file \in Config) \/ End(h)
    BY <1>5 DEF LoadWritten, Usable
  <2>3. rq[h].pc = "load" /\ rq[h].editable \in Settings
    BY <1>1, <1>5 DEF LoadWritten, RequestsOK
  <2> QED
    BY <1>1, <2>1, <2>2, <2>3, StepFacts, EndFacts DEF StoreTypeOK, RequestsOK
<1>6. ASSUME NEW h \in Handlers, SwapConfig(h) PROVE StoreTypeOK' /\ RequestsOK'
  <2>1. /\ UNCHANGED <<file, revisions, setupComplete, setupSession, requests, edits, faults>>
        /\ apiCfg' = rq[h].cfg /\ End(h) /\ rq[h].pc = "swap"
    BY <1>6 DEF SwapConfig
  <2>2. rq[h] \in Request
    BY <1>1, <2>1 DEF StoreTypeOK, Idle
  <2>3. apiCfg' \in Config \cup {NoFile}
    BY <2>1, <2>2 DEF Request
  <2>4. setupOnly' \in BOOLEAN
    BY <1>6, Zenon DEF SwapConfig, SetupAfter
  <2> QED
    BY <1>1, <2>1, <2>3, <2>4, EndFacts DEF StoreTypeOK, RequestsOK
<1>7. ASSUME NEW h \in Handlers, SaveFails(h) PROVE StoreTypeOK' /\ RequestsOK'
  <2>1. UNCHANGED <<file, revisions, apiCfg, setupOnly, setupComplete, setupSession, requests, edits>> /\ End(h)
    BY <1>7 DEF SaveFails
  <2>2. faults' \in 0..MaxTrouble
    BY <1>1, <1>7, ConfigStoreAssumption DEF SaveFails, StoreTypeOK
  <2> QED
    BY <1>1, <2>1, <2>2, EndFacts DEF StoreTypeOK, RequestsOK
<1>8. ASSUME NEW h \in Handlers, NEW s \in Drafts, NEW x \in Secrets \cup {NoSecret},
             SaveSettings(h, s, x) \/ SetupRequest(h, s, x)
      PROVE  StoreTypeOK' /\ RequestsOK'
  <2>1. PICK setup \in BOOLEAN, expected \in {NoFile} \cup (Settings \X (Secrets \cup {NoSecret})) :
          Start(h, setup, expected, s, x)
    BY <1>8, HashType DEF SaveSettings, SetupRequest
  <2> QED
    BY <1>1, <2>1, StartFacts DEF StoreTypeOK, RequestsOK
<1>9. ASSUME NEW h \in Handlers, NEW i \in DOMAIN revisions, RestoreRevision(h, i)
      PROVE  StoreTypeOK' /\ RequestsOK'
  <2>1. PICK expected \in {NoFile} \cup (Settings \X (Secrets \cup {NoSecret})) :
          Start(h, FALSE, expected, revisions[i], NoSecret)
    BY <1>9, HashType DEF RestoreRevision
  <2>2. revisions[i] \in Drafts
    BY <1>1, ConfigStoreAssumption DEF StoreTypeOK
  <2> QED
    BY <1>1, <2>1, <2>2, StartFacts DEF StoreTypeOK, RequestsOK
<1>10. CASE SetupSession \/ SessionExpires
  BY <1>1, <1>10 DEF SetupSession, SessionExpires, StoreTypeOK, RequestsOK
<1>11. CASE RestartAPI
  <2>1. UNCHANGED <<file, revisions, requests, edits>> /\ rq' = [h \in Handlers |-> Idle]
    BY <1>11 DEF RestartAPI
  <2>2. apiCfg' \in Config \cup {NoFile}
    BY <1>1, <1>11 DEF RestartAPI, LoadOptional, StoreTypeOK
  <2>3. faults' \in 0..MaxTrouble
    BY <1>1, <1>11, ConfigStoreAssumption DEF RestartAPI, StoreTypeOK
  <2>4. setupOnly' \in BOOLEAN /\ setupComplete' \in BOOLEAN /\ setupSession' \in BOOLEAN
    BY <1>11, Zenon DEF RestartAPI
  <2>5. rq' \in [Handlers -> Request \cup {Idle}] /\ \A h \in Handlers : rq'[h].pc = "idle"
    BY <2>1 DEF Idle
  <2> QED
    BY <1>1, <2>1, <2>2, <2>3, <2>4, <2>5 DEF StoreTypeOK, RequestsOK
<1>12. ASSUME NEW c \in Config \cup {Broken}, EditByHand(c) PROVE StoreTypeOK' /\ RequestsOK'
  <2>1. UNCHANGED <<revisions, rq, apiCfg, setupOnly, setupComplete, setupSession, requests, faults>> /\ file' = c
    BY <1>12 DEF EditByHand, api
  <2>2. edits' \in 0..MaxTrouble
    BY <1>1, <1>12, ConfigStoreAssumption DEF EditByHand, StoreTypeOK
  <2> QED
    BY <1>1, <2>1, <2>2 DEF StoreTypeOK, RequestsOK
<1> QED
  BY <1>2, <1>3, <1>4, <1>5, <1>6, <1>7, <1>8, <1>9, <1>10, <1>11, <1>12 DEF StoreNext, Handle

-----------------------------------------------------------------------------
(* The daemon.                                                             *)

\* What runBootstrap is told: something that has no row in what was looked at, and
\* nothing at all in a dry run; the amount is in the wallet.
LEMMA NextBootstrapFacts ==
  ASSUME cfg \in Config, NEW exists \in BOOLEAN, NEW isStaker \in BOOLEAN,
         NEW b \in 0..FaucetTarget, NEW wallet \in BOOLEAN, NEW unsettled
  PROVE  LET t == NextBootstrap(exists, isStaker, b, wallet, unsettled)
         IN  /\ t \in Todos
             /\ t \in Kinds => t \notin unsettled /\ ~cfg.dry_run
             /\ Amount(t, b) \in 0..FaucetTarget
<1>1. cfg.dry_run \in BOOLEAN
  BY DEF Config
<1>2. SelfStakeAmount(b) \in 0..FaucetTarget
  BY ActivationAssumption DEF SelfStakeAmount
<1>3. PICK t : t = NextBootstrap(exists, isStaker, b, wallet, unsettled)
  OBVIOUS
<1>4. \/ t = "self_stake" /\ "self_stake" \notin unsettled /\ ~cfg.dry_run
      \/ t = "create" /\ "create" \notin unsettled /\ ~cfg.dry_run /\ b >= Deposit
      \/ t = "faucet"
      \/ t = "wait"
  <2>1. CASE cfg.dry_run
    BY <1>3, <2>1 DEF NextBootstrap
  <2>2. CASE ~cfg.dry_run /\ exists
    BY <1>3, <2>2 DEF NextBootstrap
  <2>3. CASE ~cfg.dry_run /\ ~exists
    BY <1>3, <2>3 DEF NextBootstrap
  <2> QED
    BY <1>1, <2>1, <2>2, <2>3
<1>5. Amount(t, b) \in 0..FaucetTarget
  <2>1. CASE t = "create"
    BY <1>4, <2>1, ActivationAssumption DEF Amount
  <2>2. CASE t = "self_stake"
    BY <1>2, <2>2 DEF Amount
  <2>3. CASE t \in {"faucet", "wait"}
    BY <2>3, ActivationAssumption DEF Amount
  <2> QED
    BY <1>4, <2>1, <2>2, <2>3
<1> QED
  BY <1>3, <1>4, <1>5 DEF Todos, Kinds

\* A snapshot, whichever of its reads fail.
LEMMA SnapshotFacts ==
  ASSUME IInv, SnapshotBootstrap \/ SnapshotQueryFails
  PROVE  /\ todo' \in Todos /\ amount' \in 0..FaucetTarget
         /\ todo' \in Kinds => ~cfg.dry_run /\ (SnapshotBootstrap => todo' \notin pending)
         /\ cfg \in Config /\ dpc = "ready" /\ dpc' = "bootstrap"
<1>1. cfg \in Config /\ dpc = "ready" /\ dpc' = "bootstrap"
  BY DEF IInv, DaemonOK, SnapshotBootstrap, SnapshotQueryFails
<1>2. TypeOK
  BY DEF IInv
<1>3. CASE SnapshotBootstrap
  <2>1. PICK exists \in {validator, FALSE}, isStaker \in {staker, FALSE}, b \in {balance, 0},
             wallet \in BOOLEAN :
          /\ todo' = NextBootstrap(exists, isStaker, b, wallet, pending)
          /\ amount' = Amount(todo', b)
    BY <1>3 DEF SnapshotBootstrap
  <2>2. validator \in BOOLEAN /\ staker \in BOOLEAN /\ balance \in 0..FaucetTarget
    BY <1>2 DEF TypeOK
  <2>3. exists \in BOOLEAN /\ isStaker \in BOOLEAN
    BY <2>2, Zenon
  <2>4. b \in 0..FaucetTarget
    BY <2>2, ActivationAssumption
  <2> QED
    BY <1>1, <2>1, <2>3, <2>4, NextBootstrapFacts
<1>4. CASE SnapshotQueryFails /\ ~SnapshotBootstrap
  <2>1. PICK wallet \in BOOLEAN : todo' = NextBootstrap(validator, staker, balance, wallet, {})
    BY <1>4 DEF SnapshotQueryFails
  <2>2. amount' = Amount(todo', balance)
    BY <1>4 DEF SnapshotQueryFails
  <2>3. validator \in BOOLEAN /\ staker \in BOOLEAN /\ balance \in 0..FaucetTarget
    BY <1>2 DEF TypeOK
  <2> QED
    BY <1>1, <1>4, <2>1, <2>2, <2>3, NextBootstrapFacts
<1> QED
  BY <1>3, <1>4

\* Of the store, a step of the daemon or the chain counts a fault at most.
LEMMA StoreAside ==
  ASSUME IInv, Bootstrap \/ Reload \/ Faults \/ RestartDaemon \/ Chain \/ UNCHANGED vars
  PROVE  /\ UNCHANGED <<file, revisions, api, requests, edits>>
         /\ Faults => faults' = faults + 1
         /\ ~Faults => faults' = faults
         /\ StoreTypeOK' /\ RequestsOK'
<1>1. StoreTypeOK /\ RequestsOK
  BY DEF IInv, TypeOK
<1>2. CASE Faults
  <2>1. /\ UNCHANGED <<file, revisions, api, requests, edits>>
        /\ faults' = faults + 1 /\ edits + faults < MaxTrouble
    BY <1>2 DEF Faults, SnapshotQueryFails, InsertValidatorActionFails, CrashDaemon, AnswerLost, Send
  <2>2. faults' \in 0..MaxTrouble
    BY <1>1, <2>1, ConfigStoreAssumption DEF StoreTypeOK
  <2> QED
    BY <1>1, <1>2, <2>1, <2>2 DEF StoreTypeOK, RequestsOK, api
<1>3. CASE ~Faults
  <2>1. UNCHANGED store
    <3>1. CASE Bootstrap
      BY <3>1 DEF Bootstrap, SnapshotBootstrap, SkipBootstrap, AskFaucet, SendBootstrap, Send, SendFails,
         InsertValidatorAction, BecomeReady, NotReady, store
    <3>2. CASE Reload \/ RestartDaemon
      BY <3>2 DEF Reload, WaitForDaemon, NewManager, Tick, ValidateFile, RestartDaemon
    <3>3. CASE Chain \/ UNCHANGED vars
      BY <3>3 DEF Chain, Lands, Dropped, vars
    <3> QED
      BY <1>3, <3>1, <3>2, <3>3
  <2> QED
    BY <1>1, <1>3, <2>1 DEF StoreTypeOK, RequestsOK, store, api
<1> QED
  BY <1>2, <1>3

\* A step of the daemon or the chain keeps the invariant.
LEMMA DaemonSteps ==
  ASSUME IInv, Bootstrap \/ Reload \/ Faults \/ RestartDaemon \/ Chain \/ UNCHANGED vars
  PROVE  IInv'
<1>1. StoreTypeOK' /\ RequestsOK' /\ (faults' = 0 => faults = 0)
  <2>1. faults \in Nat
    BY ConfigStoreAssumption DEF IInv, TypeOK, StoreTypeOK
  <2> QED
    BY <2>1, StoreAside
<1>2. TypeOK /\ DaemonOK /\ SentHasRow
  BY DEF IInv
<1> SUFFICES TypeOK' /\ DaemonOK' /\ SentHasRow'
  BY <1>1 DEF IInv
<1>3. CASE SnapshotBootstrap \/ SnapshotQueryFails
  <2>1. /\ todo' \in Todos /\ amount' \in 0..FaucetTarget
        /\ todo' \in Kinds => (SnapshotBootstrap => todo' \notin pending)
        /\ cfg \in Config /\ dpc = "ready" /\ dpc' = "bootstrap"
    BY <1>3, SnapshotFacts
  <2>2. UNCHANGED <<cfg, fileHash, answered, pending, validator, staker, balance, out, sent>>
    BY <1>3 DEF SnapshotBootstrap, SnapshotQueryFails, world
  <2>3. faults' = 0 => SnapshotBootstrap
    <3>1. faults \in Nat
      BY <1>2, ConfigStoreAssumption DEF TypeOK, StoreTypeOK
    <3> QED
      BY <1>3, <3>1 DEF SnapshotQueryFails
  <2>4. TypeOK'
    BY <1>1, <1>2, <2>1, <2>2 DEF TypeOK
  <2>5. pending \subseteq Kinds
    BY <1>2 DEF TypeOK
  <2>6. SentHasRow'
    BY <1>1, <1>2, <2>1, <2>2, <2>3, <2>5 DEF SentHasRow
  <2> QED
    BY <2>1, <2>2, <2>4, <2>6 DEF DaemonOK
<1>4. CASE SkipBootstrap \/ AskFaucet
  <2>1. /\ dpc = "bootstrap" /\ dpc' = "verify" /\ todo' = "wait" /\ amount' = 0
        /\ UNCHANGED <<cfg, fileHash, answered, pending, validator, staker, out, sent>>
    BY <1>4 DEF SkipBootstrap, AskFaucet, world
  <2>2. balance' \in 0..FaucetTarget
    BY <1>2, <1>4, ActivationAssumption DEF SkipBootstrap, AskFaucet, world, TypeOK
  <2>3. 0 \in 0..FaucetTarget /\ "wait" \in Todos
    BY ActivationAssumption DEF Todos
  <2>4. TypeOK'
    BY <1>1, <1>2, <2>1, <2>2, <2>3 DEF TypeOK
  <2>5. SentHasRow'
    BY <1>1, <1>2, <2>1 DEF SentHasRow
  <2> QED
    BY <1>2, <2>1, <2>4, <2>5 DEF DaemonOK
<1>5. ASSUME NEW k \in Kinds, SendBootstrap(k) \/ AnswerLost(k) PROVE TypeOK' /\ DaemonOK' /\ SentHasRow'
  <2>1. /\ dpc = "bootstrap" /\ todo = k /\ dpc' = "record"
        /\ out' = out \cup {[kind |-> k, amount |-> amount]}
        /\ sent' = [sent EXCEPT ![k] = sent[k] + 1]
        /\ UNCHANGED <<cfg, fileHash, todo, amount, pending, validator, staker, balance>>
    BY <1>5 DEF SendBootstrap, AnswerLost, Send
  <2>2. answered' \in BOOLEAN
    BY <1>5, Zenon DEF SendBootstrap, AnswerLost
  <2>3. out' \subseteq [kind : Kinds, amount : 0..FaucetTarget] /\ sent' \in [Kinds -> Nat]
    BY <1>2, <2>1 DEF TypeOK
  <2>4. TypeOK'
    BY <1>1, <1>2, <2>1, <2>2, <2>3 DEF TypeOK
  <2>5. faults' = 0 => answered'
    <3>1. faults \in Nat
      BY <1>2, ConfigStoreAssumption DEF TypeOK, StoreTypeOK
    <3> QED
      BY <1>5, <3>1 DEF SendBootstrap, AnswerLost
  <2>6. SentHasRow'
    <3> SUFFICES ASSUME faults' = 0, NEW j \in Kinds
                 PROVE  \/ sent'[j] = 0
                        \/ sent'[j] = 1 /\ (j \in pending' \/ (dpc' = "record" /\ todo' = j /\ answered'))
      BY <2>1 DEF SentHasRow
    <3>1. sent \in [Kinds -> Nat]
      BY <1>2 DEF TypeOK
    <3>2. CASE j = k
      BY <1>1, <1>2, <2>1, <2>5, <3>1, <3>2 DEF SentHasRow
    <3>3. CASE j # k
      BY <1>1, <1>2, <2>1, <3>1, <3>3 DEF SentHasRow
    <3> QED
      BY <3>2, <3>3
  <2> QED
    BY <1>2, <2>1, <2>4, <2>6 DEF DaemonOK
<1>6. CASE SendFails
  <2>1. /\ dpc = "bootstrap" /\ todo \in Kinds /\ dpc' = "record" /\ answered' = FALSE
        /\ UNCHANGED <<cfg, fileHash, todo, amount, pending, validator, staker, balance, out, sent>>
    BY <1>6 DEF SendFails, world
  <2>2. TypeOK'
    BY <1>1, <1>2, <2>1 DEF TypeOK
  <2>3. SentHasRow'
    BY <1>1, <1>2, <2>1 DEF SentHasRow
  <2> QED
    BY <1>2, <2>1, <2>2, <2>3 DEF DaemonOK
<1>7. CASE InsertValidatorAction \/ InsertValidatorActionFails
  <2>1. /\ dpc = "record" /\ dpc' = "verify" /\ todo' = "wait" /\ amount' = 0 /\ answered' = FALSE
        /\ UNCHANGED <<cfg, fileHash, validator, staker, balance, out, sent>>
    BY <1>7 DEF InsertValidatorAction, InsertValidatorActionFails, world
  <2>2. pending' \in {pending, pending \cup {todo}} /\ (faults' = 0 /\ answered => pending' = pending \cup {todo})
    <3>1. faults \in Nat
      BY <1>2, ConfigStoreAssumption DEF TypeOK, StoreTypeOK
    <3> QED
      BY <1>7, <3>1 DEF InsertValidatorAction, InsertValidatorActionFails, world
  <2>3. todo \in Kinds
    BY <1>2, <2>1 DEF DaemonOK
  <2>4. 0 \in 0..FaucetTarget /\ "wait" \in Todos
    BY ActivationAssumption DEF Todos
  <2>5. TypeOK'
    BY <1>1, <1>2, <2>1, <2>2, <2>3, <2>4 DEF TypeOK
  <2>6. SentHasRow'
    BY <1>1, <1>2, <2>1, <2>2 DEF SentHasRow
  <2> QED
    BY <1>2, <2>1, <2>5, <2>6 DEF DaemonOK
<1>8. CASE BecomeReady \/ NotReady \/ Tick \/ ValidateFile \/ WaitForDaemon \/ NewManager \/ RestartDaemon
  <2>1. /\ dpc \notin {"bootstrap", "record"} /\ dpc' \notin {"bootstrap", "record"}
        /\ UNCHANGED <<todo, amount, answered, pending, validator, staker, balance, out, sent>>
    BY <1>8 DEF BecomeReady, NotReady, Tick, ValidateFile, WaitForDaemon, NewManager, RestartDaemon, world
  <2>2. file \in Config \cup {NoFile, Broken}
    BY <1>2 DEF TypeOK, StoreTypeOK
  <2>3. /\ dpc' \in {"load", "manager", "ready", "tick", "validate", "down"}
        /\ cfg' \in Config \cup {NoFile}
        /\ fileHash' \in Config \cup {NoFile, Broken}
        /\ dpc' \notin {"load", "down"} => cfg' \in Config
    <3>1. CASE BecomeReady \/ NotReady \/ Tick \/ ValidateFile \/ RestartDaemon
      BY <1>2, <3>1 DEF BecomeReady, NotReady, Tick, ValidateFile, RestartDaemon, TypeOK, DaemonOK
    <3>2. CASE WaitForDaemon
      BY <2>2, <3>2 DEF WaitForDaemon
    <3>3. CASE NewManager
      BY <1>2, <2>2, <3>3 DEF NewManager, TypeOK, DaemonOK
    <3> QED
      BY <1>8, <3>1, <3>2, <3>3
  <2>4. TypeOK'
    BY <1>1, <1>2, <2>1, <2>3 DEF TypeOK
  <2>5. SentHasRow'
    BY <1>1, <1>2, <2>1 DEF SentHasRow
  <2> QED
    BY <2>1, <2>3, <2>4, <2>5 DEF DaemonOK
<1>9. CASE CrashDaemon
  <2>1. /\ dpc' = "down" /\ cfg' = NoFile /\ fileHash' = NoFile /\ todo' = "wait" /\ amount' = 0
        /\ answered' = FALSE /\ faults' = faults + 1
        /\ UNCHANGED <<pending, validator, staker, balance, out, sent>>
    BY <1>9 DEF CrashDaemon, world
  <2>2. 0 \in 0..FaucetTarget /\ "wait" \in Todos
    BY ActivationAssumption DEF Todos
  <2>3. TypeOK'
    BY <1>1, <1>2, <2>1, <2>2 DEF TypeOK
  <2>4. faults' # 0
    BY <1>2, <2>1, ConfigStoreAssumption DEF TypeOK, StoreTypeOK
  <2> QED
    BY <2>1, <2>3, <2>4 DEF DaemonOK, SentHasRow
<1>10. ASSUME NEW t \in out, Lands(t) \/ Dropped(t) PROVE TypeOK' /\ DaemonOK' /\ SentHasRow'
  <2>1. /\ out' = out \ {t}
        /\ UNCHANGED <<dpc, cfg, fileHash, todo, amount, answered, pending, sent>>
    BY <1>10 DEF Lands, Dropped, daemon
  <2>2. validator' \in BOOLEAN
    BY <1>2, <1>10, Zenon DEF Lands, Dropped, TypeOK
  <2>3. staker' \in BOOLEAN
    BY <1>2, <1>10, Zenon DEF Lands, Dropped, TypeOK
  <2>4. balance' \in 0..FaucetTarget
    <3>1. t.amount \in Nat /\ balance \in 0..FaucetTarget
      BY <1>2, ActivationAssumption DEF TypeOK
    <3> QED
      BY <1>10, <3>1, ActivationAssumption DEF Lands, Dropped
  <2>5. TypeOK'
    BY <1>1, <1>2, <2>1, <2>2, <2>3, <2>4 DEF TypeOK
  <2>6. SentHasRow'
    BY <1>1, <1>2, <2>1 DEF SentHasRow
  <2> QED
    BY <1>2, <2>1, <2>5, <2>6 DEF DaemonOK
<1>11. CASE UNCHANGED vars
  BY <1>1, <1>2, <1>11 DEF vars, daemon, world, store, TypeOK, DaemonOK, SentHasRow
<1> QED
  BY <1>3, <1>4, <1>5, <1>6, <1>7, <1>8, <1>9, <1>10, <1>11
  DEF Bootstrap, Reload, Faults, Chain

\* What the requests do leaves the daemon and the chain alone, and undoes no fault.
LEMMA StoreKeeps ==
  ASSUME IInv, StoreNext, UNCHANGED <<daemon, world>>
  PROVE  IInv'
<1>1. StoreTypeOK' /\ RequestsOK'
  BY StoreSteps
<1>2. TypeOK /\ DaemonOK /\ SentHasRow
  BY DEF IInv
<1>3. faults' \in {faults, faults + 1}
  BY DEF StoreNext, Handle, CheckRevision, WriteFile, InsertConfigRevision, LoadWritten, SwapConfig,
     SaveFails, SaveSettings, SetupRequest, RestoreRevision, Start, SetupSession, SessionExpires,
     RestartAPI, EditByHand
<1>4. faults' = 0 => faults = 0
  BY <1>2, <1>3, ConfigStoreAssumption DEF TypeOK, StoreTypeOK
<1>5. UNCHANGED <<dpc, cfg, fileHash, todo, amount, answered, pending, validator, staker, balance, out, sent>>
  BY DEF daemon, world
<1>6. TypeOK'
  BY <1>1, <1>2, <1>5 DEF TypeOK
<1>7. SentHasRow'
  BY <1>2, <1>4, <1>5 DEF SentHasRow
<1> QED
  BY <1>1, <1>2, <1>5, <1>6, <1>7 DEF IInv, DaemonOK

-----------------------------------------------------------------------------
\* Every reachable state has the invariant.
THEOREM Invariance == Spec => []IInv
<1>1. IInv /\ [Next]_vars => IInv'
  BY DaemonSteps, StoreKeeps DEF Next
<1> QED
  BY InitIInv, <1>1, PTL DEF Spec

\* Whatever the requests, the edits, the daemon and the chain do, every variable
\* keeps its type.
THEOREM TypeCorrect == Spec => []TypeOK
BY Invariance, PTL DEF IInv

\* Bootstrap (internal/pool/bootstrap.go) gives the node no second registration and
\* no second self-stake as long as no call fails: the row of the first stands in the
\* way.
THEOREM RegistersOnce == Spec => []BootstrapsOnce
<1>1. IInv => BootstrapsOnce
  BY DEF IInv, SentHasRow, BootstrapsOnce
<1> QED
  BY Invariance, <1>1, PTL

-----------------------------------------------------------------------------
(* A dry run.                                                              *)

\* Until the file is edited by hand, every copy of the configuration that something
\* may be written or sent from has dry_run: the file, those that requests have read,
\* and the daemon's.
DryEverywhere ==
  edits = 0 =>
    /\ file \in Config /\ file.dry_run
    /\ \A h \in Handlers : rq[h].pc = "write" => rq[h].cfg \in Config /\ rq[h].cfg.dry_run
    /\ cfg \in Config => cfg.dry_run
    /\ dpc = "bootstrap" => todo \notin Kinds
    /\ dpc # "record"
    /\ \A k \in Kinds : sent[k] = 0

\* A request that has read a configuration with dry_run writes one with dry_run.
LEMMA StoreKeepsDry ==
  ASSUME IInv, DryEverywhere, StoreNext, UNCHANGED <<daemon, world>>
  PROVE  DryEverywhere'
<1>1. StoreTypeOK /\ RequestsOK
  BY DEF IInv, TypeOK
<1>2. UNCHANGED <<cfg, dpc, todo, sent>>
  BY DEF daemon, world
<1>3. CASE \E c \in Config \cup {Broken} : EditByHand(c)
  <2>1. edits' # 0
    BY <1>1, <1>3, ConfigStoreAssumption DEF EditByHand, StoreTypeOK
  <2> QED
    BY <2>1 DEF DryEverywhere
<1>4. SUFFICES ASSUME edits = 0, UNCHANGED edits,
                      StoreNext /\ ~(\E c \in Config \cup {Broken} : EditByHand(c))
               PROVE  /\ file' \in Config /\ file'.dry_run
                      /\ \A h \in Handlers : rq'[h].pc = "write" => rq'[h].cfg \in Config /\ rq'[h].cfg.dry_run
  <2>1. CASE ~(\E c \in Config \cup {Broken} : EditByHand(c))
    <3>1. UNCHANGED edits
      BY <2>1 DEF StoreNext, Handle, CheckRevision, WriteFile, InsertConfigRevision, LoadWritten, SwapConfig,
         SaveFails, SaveSettings, SetupRequest, RestoreRevision, Start, SetupSession, SessionExpires,
         RestartAPI
    <3> QED
      BY <1>2, <1>4, <2>1, <3>1 DEF DryEverywhere
  <2> QED
    BY <1>3, <2>1
<1>5. /\ file \in Config /\ file.dry_run
      /\ \A h \in Handlers : rq[h].pc = "write" => rq[h].cfg \in Config /\ rq[h].cfg.dry_run
  BY <1>4 DEF DryEverywhere
<1> DEFINE Dry == /\ file' \in Config /\ file'.dry_run
                  /\ \A h \in Handlers : rq'[h].pc = "write" => rq'[h].cfg \in Config /\ rq'[h].cfg.dry_run
<1>6. ASSUME NEW h \in Handlers, CheckRevision(h) PROVE Dry
  <2>1. (Step(h, "write", file) \/ End(h)) /\ rq[h].pc # "idle" /\ UNCHANGED file
    BY <1>6 DEF CheckRevision
  <2> QED
    BY <1>1, <1>5, <2>1, StepFacts, EndFacts
<1>7. ASSUME NEW h \in Handlers, WriteFile(h) PROVE Dry
  <2>1. file' = Merged(rq[h]) /\ Step(h, "record", NoFile) /\ rq[h].pc = "write"
    BY <1>7 DEF WriteFile
  <2>2. rq[h] \in Request /\ rq[h].editable \in Settings /\ rq[h].cfg # NoFile
    BY <1>1, <1>5, <2>1, ConfigStoreAssumption DEF StoreTypeOK, RequestsOK, Idle
  <2>3. file' \in Config /\ file'.dry_run
    BY <1>5, <2>1, <2>2, MergedType
  <2>4. \A g \in Handlers : rq'[g].pc = "write" => rq'[g].cfg \in Config /\ rq'[g].cfg.dry_run
    BY <1>1, <1>5, <2>1, StepFacts
  <2> QED
    BY <2>3, <2>4
<1>8. ASSUME NEW h \in Handlers, InsertConfigRevision(h) \/ LoadWritten(h) PROVE Dry
  <2>1. (Step(h, "load", NoFile) \/ Step(h, "swap", file) \/ End(h)) /\ rq[h].pc # "idle" /\ UNCHANGED file
    BY <1>8 DEF InsertConfigRevision, LoadWritten
  <2> QED
    BY <1>1, <1>5, <2>1, StepFacts, EndFacts
<1>9. ASSUME NEW h \in Handlers, SwapConfig(h) \/ SaveFails(h) PROVE Dry
  <2>1. End(h) /\ UNCHANGED file
    BY <1>9 DEF SwapConfig, SaveFails
  <2> QED
    BY <1>1, <1>5, <2>1, EndFacts
<1>10. ASSUME NEW h \in Handlers, NEW s \in Drafts, NEW x \in Secrets \cup {NoSecret},
              SaveSettings(h, s, x) \/ SetupRequest(h, s, x)
       PROVE  Dry
  <2>1. PICK setup \in BOOLEAN, expected \in {NoFile} \cup (Settings \X (Secrets \cup {NoSecret})) :
          Start(h, setup, expected, s, x)
    BY <1>10, HashType DEF SaveSettings, SetupRequest
  <2> QED
    BY <1>1, <1>5, <2>1, StartFacts
<1>11. ASSUME NEW h \in Handlers, NEW i \in DOMAIN revisions, RestoreRevision(h, i) PROVE Dry
  <2>1. PICK expected \in {NoFile} \cup (Settings \X (Secrets \cup {NoSecret})) :
          Start(h, FALSE, expected, revisions[i], NoSecret)
    BY <1>11, HashType DEF RestoreRevision
  <2>2. revisions[i] \in Drafts
    BY <1>1, ConfigStoreAssumption DEF StoreTypeOK
  <2> QED
    BY <1>1, <1>5, <2>1, <2>2, StartFacts
<1>12. ASSUME SetupSession \/ SessionExpires PROVE Dry
  BY <1>5, <1>12 DEF SetupSession, SessionExpires
<1>13. ASSUME RestartAPI PROVE Dry
  BY <1>5, <1>13 DEF RestartAPI, Idle
<1> HIDE DEF Dry
<1>14. Dry
  <2>1. \/ SetupSession \/ SessionExpires \/ RestartAPI
        \/ \E h \in Handlers :
             \/ Handle(h) \/ SaveFails(h)
             \/ \E s \in Drafts, x \in Secrets \cup {NoSecret} : SaveSettings(h, s, x) \/ SetupRequest(h, s, x)
             \/ \E i \in DOMAIN revisions : RestoreRevision(h, i)
    BY <1>4, Zenon DEF StoreNext
  <2>2. ASSUME NEW h \in Handlers, Handle(h) PROVE Dry
    BY <1>6, <1>7, <1>8, <1>9, <2>2, Zenon DEF Handle
  <2>3. ASSUME NEW h \in Handlers, NEW s \in Drafts, NEW x \in Secrets \cup {NoSecret},
               SaveSettings(h, s, x) \/ SetupRequest(h, s, x)
        PROVE  Dry
    BY <1>10, <2>3
  <2>4. ASSUME NEW h \in Handlers, NEW i \in DOMAIN revisions, RestoreRevision(h, i) PROVE Dry
    BY <1>11, <2>4
  <2>5. ASSUME NEW h \in Handlers, SaveFails(h) PROVE Dry
    BY <1>9, <2>5
  <2> QED
    BY <1>12, <1>13, <2>1, <2>2, <2>3, <2>4, <2>5
<1> QED
  BY <1>14 DEF Dry

\* A daemon that has a configuration with dry_run has nothing to send.
LEMMA DaemonKeepsDry ==
  ASSUME IInv, DryEverywhere, Bootstrap \/ Reload \/ Faults \/ RestartDaemon \/ Chain \/ UNCHANGED vars
  PROVE  DryEverywhere'
<1> SUFFICES ASSUME edits' = 0 PROVE DryEverywhere'
  BY DEF DryEverywhere
<1>1. UNCHANGED <<file, rq, edits>>
  BY StoreAside DEF api
<1>2. /\ file \in Config /\ file.dry_run
      /\ \A h \in Handlers : rq[h].pc = "write" => rq[h].cfg \in Config /\ rq[h].cfg.dry_run
      /\ cfg \in Config => cfg.dry_run
      /\ dpc = "bootstrap" => todo \notin Kinds
      /\ dpc # "record"
      /\ \A k \in Kinds : sent[k] = 0
  BY <1>1 DEF DryEverywhere
<1>3. CASE SnapshotBootstrap \/ SnapshotQueryFails
  <2>1. todo' \notin Kinds /\ dpc' = "bootstrap"
    BY <1>2, <1>3, SnapshotFacts
  <2>2. UNCHANGED <<cfg, sent>>
    BY <1>3 DEF SnapshotBootstrap, SnapshotQueryFails, world
  <2> QED
    BY <1>1, <1>2, <2>1, <2>2 DEF DryEverywhere
<1>4. CASE SkipBootstrap \/ AskFaucet \/ BecomeReady \/ NotReady
  BY <1>1, <1>2, <1>4 DEF SkipBootstrap, AskFaucet, BecomeReady, NotReady, world, DryEverywhere
<1>5. ASSUME NEW k \in Kinds, SendBootstrap(k) \/ AnswerLost(k) PROVE FALSE
  BY <1>2, <1>5 DEF SendBootstrap, AnswerLost, Send
<1>6. ~SendFails /\ ~InsertValidatorAction /\ ~InsertValidatorActionFails
  BY <1>2 DEF SendFails, InsertValidatorAction, InsertValidatorActionFails
<1>7. CASE Reload \/ RestartDaemon \/ CrashDaemon
  <2>1. dpc' \notin {"bootstrap", "record"} /\ UNCHANGED sent
    BY <1>7 DEF Reload, WaitForDaemon, NewManager, Tick, ValidateFile, RestartDaemon, CrashDaemon, world
  <2>2. cfg' \in {cfg, file, NoFile}
    BY <1>7 DEF Reload, WaitForDaemon, NewManager, Tick, ValidateFile, RestartDaemon, CrashDaemon
  <2>3. cfg' \in Config => cfg'.dry_run
    BY <1>2, <2>2, ConfigStoreAssumption
  <2> QED
    BY <1>1, <1>2, <2>1, <2>3 DEF DryEverywhere
<1>8. CASE Chain \/ UNCHANGED vars
  <2>1. UNCHANGED <<cfg, dpc, todo, sent>>
    BY <1>8 DEF Chain, Lands, Dropped, daemon, world, vars
  <2> QED
    BY <1>1, <1>2, <2>1 DEF DryEverywhere
<1> QED
  BY <1>3, <1>4, <1>5, <1>6, <1>7, <1>8 DEF Bootstrap, Faults

\* dry_run in the file keeps the daemon from registering the validator and from
\* staking until somebody edits the file by hand: Merged takes the field over, and a
\* request whose file has changed since it was read stops or writes dry_run too.
THEOREM DryRunIsKept == Spec => DryRunHolds
<1> DEFINE Dry == file \in Config /\ file.dry_run
<1> DEFINE Nothing == edits = 0 => \A k \in Kinds : sent[k] = 0
<1>1. Init /\ Dry => DryEverywhere
  <2> SUFFICES ASSUME Init, Dry PROVE DryEverywhere
    OBVIOUS
  <2>1. /\ \A h \in Handlers : rq[h].pc = "idle"
        /\ cfg = NoFile /\ dpc = "load" /\ \A k \in Kinds : sent[k] = 0
    BY DEF Init, StoreInit, Idle
  <2> QED
    BY <2>1, ConfigStoreAssumption DEF DryEverywhere
<1>2. IInv /\ DryEverywhere /\ [Next]_vars => DryEverywhere'
  BY StoreKeepsDry, DaemonKeepsDry DEF Next
<1>3. DryEverywhere => Nothing
  BY DEF DryEverywhere
<1>4. DryRunHolds <=> (Dry => []Nothing)
  BY DEF DryRunHolds
<1> HIDE DEF Dry, Nothing
<1> QED
  BY <1>1, <1>2, <1>3, <1>4, Invariance, PTL DEF Spec
=============================================================================
