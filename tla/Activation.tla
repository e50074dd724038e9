----------------------------- MODULE Activation -----------------------------
(***************************************************************************)
(* How the daemon takes a configuration up: it waits for the file, builds  *)
(* a manager, brings the validator up (internal/pool/bootstrap.go) and     *)
(* waits until it is ready, then ticks, and starts over when the file has  *)
(* changed (cmd/main.go, Manager.Run). The file is ConfigStore's, and may  *)
(* be written at any moment.                                               *)
(***************************************************************************)
EXTENDS ConfigStore

CONSTANTS
  PoolWallet,   \* the settings whose validator address is the pool wallet's
  Deposit,      \* policy: what a validator deposits
  MinStake,     \* policy: the least a staker stakes
  FeeReserve,   \* feeReserveLuna
  FaucetTarget  \* what the wallet holds once it is funded

ASSUME ActivationAssumption ==
  /\ PoolWallet \subseteq Settings
  /\ Deposit \in Nat /\ MinStake \in Nat \ {0} /\ FeeReserve \in Nat /\ FaucetTarget \in Nat

Kinds == {"create", "self_stake"}

VARIABLES
  \* the daemon: lost in a crash
  dpc,        \* where it is
  cfg,        \* Manager.cfg
  fileHash,   \* Manager.fileHash: the content it was taken from, NoFile for ""
  todo,       \* what runBootstrap is to do
  amount,     \* what it is to deposit or stake
  answered,   \* the node returned a hash
  \* validator_actions: kinds with a row whose outcome is pending
  pending,
  \* the chain
  validator,  \* the validator exists
  staker,     \* the pool wallet is a staker
  balance,    \* of the pool wallet
  out,        \* the transactions the node holds: [kind, amount]
  sent        \* history: how many of each kind the node was given

daemon == <<dpc, cfg, fileHash, todo, amount, answered>>
world  == <<pending, validator, staker, balance, out, sent>>
vars   == <<store, daemon, world>>

Todos == Kinds \cup {"wait", "faucet"}

TypeOK ==
  /\ StoreTypeOK
  /\ dpc \in {"load", "manager", "ready", "bootstrap", "record", "verify", "tick",
              "validate", "down"}
  /\ cfg \in Config \cup {NoFile}
  /\ fileHash \in Config \cup {NoFile, Broken}
  /\ todo \in Todos
  /\ amount \in 0..FaucetTarget
  /\ answered \in BOOLEAN
  /\ pending \subseteq Kinds
  /\ validator \in BOOLEAN /\ staker \in BOOLEAN
  /\ balance \in 0..FaucetTarget
  /\ out \subseteq [kind : Kinds, amount : 0..FaucetTarget]
  /\ sent \in [Kinds -> Nat]

Init ==
  /\ StoreInit
  /\ dpc = "load" /\ cfg = NoFile /\ fileHash = NoFile /\ todo = "wait" /\ amount = 0
  /\ answered = FALSE
  /\ pending = {}
  /\ validator \in BOOLEAN
  /\ staker = FALSE
  /\ balance = 0
  /\ out = {}
  /\ sent = [k \in Kinds |-> 0]

-----------------------------------------------------------------------------
(* main: load, build a manager, run it.                                    *)

\* Mutant: a file that does not parse goes unnoticed.
WaitForDaemonUnchecked ==
  /\ dpc = "load"
  /\ dpc' = IF file = NoFile THEN "load" ELSE "manager"
  /\ cfg' = file
  /\ fileHash' = NoFile
  /\ UNCHANGED <<store, todo, amount, answered, world>>

\* WaitForDaemon: waits while there is no file, and gives up on a broken one.
WaitForDaemon ==
  /\ dpc = "load"
  /\ dpc' = CASE file = NoFile -> "load" [] file = Broken -> "down" [] OTHER -> "manager"
  /\ cfg' = IF file = Broken THEN NoFile ELSE file
  /\ fileHash' = NoFile
  /\ UNCHANGED <<store, todo, amount, answered, world>>

\* NewManager hashes the file as it is now.
NewManager ==
  /\ dpc = "manager"
  /\ dpc' = "ready"
  /\ fileHash' = file
  /\ UNCHANGED <<store, cfg, todo, amount, answered, world>>

-----------------------------------------------------------------------------
(* ensureReady, again and again: bootstrap, then look at the validator.    *)

SelfStakeAmount(b) ==
  IF b <= FeeReserve THEN 0
  ELSE IF b - FeeReserve < MinStake THEN 0
  ELSE b - FeeReserve

\* Mutant: a registration under way is not looked for.
NextBootstrapAgain(exists, isStaker, b, wallet, unsettled) ==
  CASE cfg.dry_run -> "wait"
    [] ~cfg.dry_run /\ exists ->
         IF ~isStaker /\ "self_stake" \notin unsettled /\ SelfStakeAmount(b) > 0
         THEN "self_stake" ELSE "wait"
    [] ~cfg.dry_run /\ ~exists ->
         IF wallet /\ b >= Deposit THEN "create"
         ELSE IF b < Deposit THEN "faucet" ELSE "wait"

\* The decision of nextBootstrap on what the snapshot says. Ready is a wait.
NextBootstrap(exists, isStaker, b, wallet, unsettled) ==
  CASE cfg.dry_run -> "wait"
    [] ~cfg.dry_run /\ exists ->
         IF ~isStaker /\ "self_stake" \notin unsettled /\ SelfStakeAmount(b) > 0
         THEN "self_stake" ELSE "wait"
    [] ~cfg.dry_run /\ ~exists ->
         IF wallet /\ b >= Deposit /\ "create" \notin unsettled THEN "create"
         ELSE IF b < Deposit THEN "faucet" ELSE "wait"

Amount(action, b) ==
  CASE action = "create"     -> Deposit
    [] action = "self_stake" -> SelfStakeAmount(b)
    [] OTHER                 -> 0

\* snapshotBootstrap: each call to the node may fail, and then reads as no
\* validator, no staker or no balance. wallet says whether the wallet file is
\* there and the local node has consensus.
SnapshotBootstrap ==
  /\ dpc = "ready"
  /\ \E exists \in {validator, FALSE}, isStaker \in {staker, FALSE},
        b \in {balance, 0}, wallet \in BOOLEAN :
       /\ todo' = NextBootstrap(exists, isStaker, b, wallet, pending)
       /\ amount' = Amount(todo', b)
  /\ dpc' = "bootstrap"
  /\ UNCHANGED <<store, cfg, fileHash, answered, world>>

\* A failed query for pending rows reads as none.
SnapshotQueryFails ==
  /\ dpc = "ready"
  /\ edits + faults < MaxTrouble
  /\ faults' = faults + 1
  /\ \E wallet \in BOOLEAN : todo' = NextBootstrap(validator, staker, balance, wallet, {})
  /\ amount' = Amount(todo', balance)
  /\ dpc' = "bootstrap"
  /\ UNCHANGED <<file, revisions, api, requests, edits, cfg, fileHash, answered, world>>

\* Nothing to do, a cooldown, or an error before anything is sent.
SkipBootstrap ==
  /\ dpc = "bootstrap"
  /\ dpc' = "verify"
  /\ todo' = "wait" /\ amount' = 0
  /\ UNCHANGED <<store, cfg, fileHash, answered, world>>

\* fundAddress: the faucet pays or does not. On the main network the operator does.
AskFaucet ==
  /\ dpc = "bootstrap"
  /\ todo = "faucet"
  /\ dpc' = "verify"
  /\ balance' \in {balance, FaucetTarget}
  /\ todo' = "wait" /\ amount' = 0
  /\ UNCHANGED <<store, cfg, fileHash, answered, pending, validator, staker, out, sent>>

\* The node gets the transaction of registerValidator or selfStake.
Send(k) ==
  /\ dpc = "bootstrap"
  /\ todo = k
  /\ dpc' = "record"
  /\ out' = out \cup {[kind |-> k, amount |-> amount]}
  /\ sent' = [sent EXCEPT ![k] = sent[k] + 1]
  /\ UNCHANGED <<file, revisions, api, requests, edits, cfg, fileHash, todo, amount, pending,
                 validator, staker, balance>>

SendBootstrap(k) == Send(k) /\ answered' = TRUE /\ UNCHANGED faults

\* The answer is lost: the node has the transaction, the daemon has an error.
AnswerLost(k) ==
  /\ edits + faults < MaxTrouble
  /\ faults' = faults + 1
  /\ answered' = FALSE
  /\ Send(k)

\* The node refuses the transaction or is not reached.
SendFails ==
  /\ dpc = "bootstrap"
  /\ todo \in Kinds
  /\ dpc' = "record"
  /\ answered' = FALSE
  /\ UNCHANGED <<store, cfg, fileHash, todo, amount, world>>

\* InsertValidatorAction: pending with a hash, failed without.
InsertValidatorAction ==
  /\ dpc = "record"
  /\ dpc' = "verify"
  /\ pending' = IF answered THEN pending \cup {todo} ELSE pending
  /\ answered' = FALSE
  /\ todo' = "wait" /\ amount' = 0
  /\ UNCHANGED <<store, cfg, fileHash, validator, staker, balance, out, sent>>

InsertValidatorActionFails ==
  /\ dpc = "record"
  /\ edits + faults < MaxTrouble
  /\ faults' = faults + 1
  /\ dpc' = "verify"
  /\ answered' = FALSE
  /\ todo' = "wait" /\ amount' = 0
  /\ UNCHANGED <<file, revisions, api, requests, edits, cfg, fileHash, world>>

\* The validator is there and its addresses are the pool wallet's.
BecomeReady ==
  /\ dpc = "verify"
  /\ validator
  /\ cfg.editable \in PoolWallet
  /\ dpc' = "tick"
  /\ UNCHANGED <<store, cfg, fileHash, todo, amount, answered, world>>

\* waitReady tries again, with the configuration it has.
NotReady ==
  /\ dpc = "verify"
  /\ dpc' = "ready"
  /\ UNCHANGED <<store, cfg, fileHash, todo, amount, answered, world>>

-----------------------------------------------------------------------------
(* The end of a tick.                                                      *)

\* Mutant: only a file that was missing is taken up.
ShouldReloadOnce == file # NoFile /\ fileHash = NoFile

\* shouldReload: an unreadable file has the hash "".
ShouldReload == file # NoFile /\ file # fileHash

Tick ==
  /\ dpc = "tick"
  /\ dpc' = IF ShouldReload THEN "validate" ELSE "tick"
  /\ UNCHANGED <<store, cfg, fileHash, todo, amount, answered, world>>

\* The file is loaded once to see whether it is valid, and again in main.
ValidateFile ==
  /\ dpc = "validate"
  /\ dpc' = IF file \in {NoFile, Broken} THEN "tick" ELSE "load"
  /\ UNCHANGED <<store, cfg, fileHash, todo, amount, answered, world>>

-----------------------------------------------------------------------------
CrashDaemon ==
  /\ dpc # "down"
  /\ edits + faults < MaxTrouble
  /\ faults' = faults + 1
  /\ dpc' = "down"
  /\ cfg' = NoFile /\ fileHash' = NoFile /\ todo' = "wait" /\ amount' = 0
  /\ answered' = FALSE
  /\ UNCHANGED <<file, revisions, api, requests, edits, world>>

RestartDaemon ==
  /\ dpc = "down"
  /\ dpc' = "load"
  /\ UNCHANGED <<store, cfg, fileHash, todo, amount, answered, world>>

-----------------------------------------------------------------------------
(* The chain.                                                              *)

\* The transaction takes effect, if there is still something for it to do.
Lands(t) ==
  /\ balance >= t.amount
  /\ \/ /\ t.kind = "create" /\ ~validator
        /\ validator' = TRUE
        /\ UNCHANGED staker
     \/ /\ t.kind = "self_stake" /\ validator /\ ~staker
        /\ staker' = TRUE
        /\ UNCHANGED validator
  /\ balance' = balance - t.amount
  /\ out' = out \ {t}
  /\ UNCHANGED <<store, daemon, pending, sent>>

\* It expires, or fails on the chain.
Dropped(t) ==
  /\ out' = out \ {t}
  /\ UNCHANGED <<store, daemon, pending, validator, staker, balance, sent>>

-----------------------------------------------------------------------------
Bootstrap ==
  \/ SnapshotBootstrap \/ SkipBootstrap \/ AskFaucet
  \/ \E k \in Kinds : SendBootstrap(k)
  \/ SendFails \/ InsertValidatorAction
  \/ BecomeReady \/ NotReady

Reload == WaitForDaemon \/ NewManager \/ Tick \/ ValidateFile

Faults ==
  \/ SnapshotQueryFails \/ InsertValidatorActionFails \/ CrashDaemon
  \/ \E k \in Kinds : AnswerLost(k)

Chain ==
  \E t \in out : Lands(t) \/ Dropped(t)

Next ==
  \/ StoreNext /\ UNCHANGED <<daemon, world>>
  \/ Bootstrap \/ Reload \/ Faults \/ RestartDaemon \/ Chain

Spec == Init /\ [][Next]_vars

\* A request that was accepted is worked on, and the daemon keeps running. A
\* validator that is there for good is found in the end.
Fairness ==
  /\ \A h \in Handlers : WF_vars(Handle(h) /\ UNCHANGED <<daemon, world>>)
  /\ WF_vars(Bootstrap \/ Reload \/ RestartDaemon)
  /\ SF_vars(BecomeReady)

FairSpec == Spec /\ Fairness

-----------------------------------------------------------------------------
(* What activation guarantees.                                             *)

\* Whoever sets dry_run can rely on it: as long as nobody edits the file again,
\* no request of the settings page, restored revision, reload or restart makes
\* the daemon register the validator or stake.
DryRunHolds ==
  (file \in Config /\ file.dry_run) => [](edits = 0 => \A k \in Kinds : sent[k] = 0)

\* Without a fault the validator is registered by at most one transaction and
\* staked by at most one, although a failed call reads as no validator and no
\* staker, and a reload forgets when the last attempt was made.
BootstrapsOnce ==
  faults = 0 => \A k \in Kinds : sent[k] <= 1

\* A file that changes under a ticking daemon is taken up, whatever is written
\* between the three times that it is read, unless it is changed back or broken.
ReloadFollows ==
  (dpc = "tick" /\ file \in Config /\ fileHash # file)
    ~> (cfg = file \/ file = fileHash \/ file = Broken)

\* Setup ends with the full API: once a setup request has recorded settings that
\* ValidateAPI accepts the other routes are served, through a restart as well,
\* unless the file is made invalid meanwhile.
SetupEnds ==
  LET valid == file \in Config /\ file.editable \in ApiSettings
  IN  \A h \in Handlers :
        (rq[h].pc = "load" /\ rq[h].setup /\ valid) ~> (~setupOnly \/ ~valid)

\* "Config is applying" (the README): what is written to the file while there is
\* a validator is taken up in the end, without a restart.
FollowsFile ==
  \A c \in Config : (validator /\ file = c) ~> (cfg = c \/ file # c)
=============================================================================
