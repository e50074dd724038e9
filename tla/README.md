# GoPool in TLA+

GoPool runs a Nimiq staking pool: it follows the chain, credits every staker
with a share of each batch's reward, pays the stakers, and looks after the
pool's validator. This directory holds TLA+ specifications of the parts where
that can go wrong in ways a test hardly reaches, TLC configurations that check
them on small instances, and TLAPS proofs for every instance.

## The system

Two processes share one SQLite file. The **daemon** (`cmd/main.go`,
`internal/pool`) holds the validator's key and is one goroutine ticking every
2 s; a tick replays new heights, pays, confirms, and executes operator requests,
in this order (`Manager.Run`). The **API** (`cmd/api`, `internal/api`) serves
stakers and the operator, and writes requests into tables the daemon polls. The
**chain** is reached through an RPC node: every call can fail, and a failed
broadcast may have arrived. There is no lock between the processes: what keeps
them apart are the `WHERE` clauses of single statements, a partial unique index,
and a few database transactions.

| Component | State | Operations | Hard because | Correct when |
|---|---|---|---|---|
| Payout pipeline (`payout.go`, `confirmation.go`, `stuck.go`) | `payslips`, `audit_logs`, `transactions` | `runPayouts`, `processApprovedPayouts`, `runConfirmations`; operator's retry and skip | crash between statements, lost broadcasts, reverted blocks, the operator at any moment | nobody is paid twice; completed means paid; payouts settle |
| Chain replay (`pool.go`, `election.go`, `checkpoint.go`) | `cursor`, `epochs`, `stakers`, `rewards`, `payslips` | `processHeight`, `handleElection`, `handleCheckpoint` | statements without a transaction, replay after an error, off-by-one at epoch boundaries | each batch is credited once, to its epoch, within its reward; the cursor passes nothing unfinished |
| Validator actions (`lifecycle.go`, operator handlers) | `validator_actions` | queue, cancel, claim, release, submit, confirm, auto-reactivate | cancel against claim, shutdown while signing | a request is signed at most once and never after its cancellation |
| Bootstrap (`bootstrap.go`, `faucet.go`) | `validator_actions`, chain | register, self stake, faucet | retries against an unreliable node | registered once, staked once |
| Configuration (`configstore`, `config`, settings handlers, reload) | file, `config_revisions` | save, restore, reload | check-then-write, file changes during the reload | what is saved is what runs, and nothing else is lost by it |
| Authentication and setup (`auth.go`, `setup_*.go`) | nonces, session secret, attempt counter | challenge, verify, session and operator check, setup session, complete | concurrent requests, expiry, a secret that no file the API saves contains | a session is bought with its own challenge and lasts its time; setup happens once |
| Onboarding and alert tests (`stake_handlers.go`, `operator_alert_handlers.go`) | `operator_events`, moment of the last test | submit, test | lost answers, a validator that changes, requests at the same time | only what the staker signed and asked for is sent; what is announced was sent |
| Alerts (`lag.go`, `epoch_participation.go`) | last lag alert, last epoch told, gauge time, `runtime_status` | the end of a tick | flapping, reads at different moments, memory lost by a restart | nothing is told twice or wrongly, and what matters is told |
| Slot shares (`slots.go`) | none | largest remainder | rounding | the shares are quotas rounded, and sum to the whole |
| Migrations (`migrate.go`, `init.go`) | `schema_migrations`, the schema | start of either process | both start at once, of different releases | each migration takes effect once, in order; both come up |
| Payout budget and preferences (`payout.go`, `compounding.go`) | balance, holds | fee floor, balance check, kind of a payout | the balance does not lack what is in flight | (not modelled) |
| Read-only API, notifier, metrics, events, logger, web UI | none that others use | | | |

The last row is left out: it formats and displays what the other parts hold.
The chain client (keys, transport) appears only as calls that fail.

## Modules

| Module | Models | Checked by |
|---|---|---|
| `Payouts` | the payout pipeline, the operator's retry and skip, the chain as far as a payout sees it | `MCPayouts`, `PayoutsProofs` |
| `PayoutLedger` | what the pipeline promises, abstractly: owed, out, paid, and money that lands once | as a property of `Payouts`, and proved of it |
| `Policy` | the height arithmetic (`epochAt`, `batchAt`, `classify`) | through `Replay`, `PolicyFacts` |
| `Replay` | the catch-up loop, elections and checkpoints | `MCReplay`, `ReplayProofs` |
| `ValidatorActions` | the life of an operator's request and the automatic reactivation | itself, `ValidatorActionsProofs` |
| `ConfigStore` | the configuration file, its revisions, setup, save and restore by concurrent requests, the API's copy | through `Activation` |
| `Access` | logins, sessions, operators, and the requests they let in: settings, alert tests, onboarding | `MCAccess`, `AccessProofs` |
| `Migrations` | the start of the two processes on one database | through `Alerts` |
| `Alerts` | `Migrations` composed with the end of the daemon's tick: lag, participation, heartbeat, slot shares | `MCAlerts`, `AlertsProofs` |
| `Activation` | `ConfigStore` composed with the daemon that loads the file, bootstraps its validator, waits for readiness, ticks and reloads | `MCActivation`, `ActivationProofs` |
| `SumFacts` | nothing: facts about sums over finite sets | for `ReplayProofs`, `AlertsProofs` |

In all of them a step is one SQL statement, one database transaction or one call
to the node, whichever the code makes; memory that a crash loses is in variables
of its own, and `Crash` may come between any two steps. Data is abstracted to
what the properties tell apart.

### Payouts

`payslips`, `audit_logs`, `transactions` and `epochs` are the tables; `pc` says
which of the three phases of a tick the daemon is in, and `rows`, `approved`,
`unsettled` are the lists each phase read before its loop. The actions carry the
code's names: `RunPayouts` and `InsertAuditLog`; `ProcessApprovedPayouts`,
`PersistPayoutSubmission` (one transaction: claim, attach, insert) and
`SendTransaction`; `RunConfirmations`, `SetTransactionStatus`, `UpdatePayslips`
and `FinishTick`. `RetryPayout` and `SkipAudit` are the API's. A transaction's
hash is the record of what is signed: recipient, amount, validity start height.

Abstractions. Fees, the balance and the transfer kind are left out; a payout held
by the fee floor or the balance, or dropped on an error, is `HoldRow` or
`HoldApproved`, possible at any time. `IsStuck` is modelled for recorded heights,
which every current insertion has; its wall-clock fallback for older rows is not.
The endpoint that approves a pending audit row is left out: no code inserts one.
A skip of a row that was claimed already has no effect on the payment, in the
code and here. `out_for_payment` exists only inside a transaction.

The chain: a transaction the node holds may be included while its validity
window is open (`Window`), an inclusion may be reverted until a macro block
makes it final, at most `FinalLag` blocks after the window. `Revert` puts the
transaction back with the node.

**Assumption `StuckOutlivesTransaction`.** No line of the code compares the
stuck threshold (`stuck_payout_epochs` times the blocks of an epoch) with the
validity window. The retry of a stuck payout is safe only if the threshold is
not shorter than the window plus the time to finality, which holds for the
policy of the main network (an epoch is longer than a validity window) and every
threshold of at least one epoch. It is stated in `Payouts` and used by the proofs of
`RetryIsSafe`, `PaidOnce` and `Tracked`; the mutant `IsStuckEarly`, one block
early, breaks `OwedIsUnpaid`, so the assumption is tight.

### Replay

`pc` follows `processHeight`: `height`, then for an election `listing`, `epochs`
and `stakers`, then `checkpoint` and `credits`, then `cursor`. `Fail` is a call to
the node that fails, `StatementFails` a failed statement, `CursorReadFails` the
error of `GetCursor` that is taken for a missing row. `MissingEpoch` is the
foreign key on `rewards`. Amounts are computed as in the code: the fee in basis
points, the share by integer division of a product modulo `Word` (2^64 in the
code, a parameter here). The statuses retired, inactive and jailed are one, `unable`.

`handleElection` asks the node twice, for the validator (`GetValidator`) and for its
stakers (`GetStakers`). `delegated` and `able` change over time, between the two calls
as well, and a catch-up reads them as they are when it gets there: an epoch may be in
progress with nobody listed. A staker may have no active balance (`Stake[a] = 0`). The
node lists such a staker, the epoch's `num_stakers` counts it (`election.go:131`), but
it gets no row (`PassStaker`, 139), so that the count of an epoch may exceed its rows,
and differ from that of its rewards, which count the rows (`checkpoint.go:70`).
`epochs[e].counted` is the set behind `num_stakers`, for `AllCredited` to say which
stakers must have a row: those counted with an active balance. Whether the node's own
count, which decides about `no_stakers`, includes the others is left open.

### ValidatorActions

A row has a `state` and an older `outcome` column; a NULL state is read through
the outcome, as the queries do, and the table may start with such a row.
`SignAndSend` may deliver the transaction and still return an error. The number
of a transaction on the model's chain stands for its hash, and remembers the
request it was signed for. `RunValidatorCLI` sends past the table. The rows that
the bootstrap inserts are in `Activation`.

### ConfigStore and Activation

A request is a handler's way through `Store.Save`: `CheckRevision` (validate,
read, compare the hash), `WriteFile` (the rename), `InsertConfigRevision`, then
`LoadWritten` and `SwapConfig`, which are `applyLiveConfig` for a save or restore
and `tryActivateFromStore` for setup. Handlers interleave at each of these steps.
The settings are opaque values, told apart by what the code asks of them: whether
`ValidateEditable` and `ValidateAPI` accept them, and whether their validator
address is the pool wallet's. `dry_run` stands for the fields that the settings
page does not manage, a token for the alert secrets. `carried`, which reads the
file a second and third time for two fields, is part of the first read. That
`setupComplete` is set right after the revision is inserted makes them one step.

The daemon's `dpc` follows `main` and `Manager.Run`: `load`, `manager`, `ready`,
`bootstrap`, `record`, `verify` (these four are one `ensureReady`), `tick`,
`validate`. `fileHash` is the content that was hashed. A call to the node that
fails reads as no validator, no staker or no balance, as in `snapshotBootstrap`.
Left out: the cooldowns (an attempt may be skipped at any time, `SkipBootstrap`),
overrides from the environment such as `POOL_DRY_RUN`, the heartbeat and its hash.
`EditByHand` is the operator's editor, which may also leave a file that does not
parse; `main` exits on one, and is restarted.

### Access

A wallet proves an address by signing a challenge; `VerifyLogin` is
`handleAuthVerify` up to the end of `consume`, which deletes the nonce under its
lock, and `IssueSession` the rest, so that another request may present the same
nonce, or the process stop, in between. A signature is modelled by who made it
and over which challenge. A token carries what its signature covers (address and
expiry) and the secret that signed it; `ParseSession` compares with the secret of
the running configuration. `logout` only clears the browser's cookie, so it is
not an action: the token stays good until it expires.

`SaveSettings` is one step here, since `Activation` has the steps a save is made
of; it changes the validator and the operators under the requests that are being
served. A stake is told apart by sender, delegate, whether amount, fee and height
are the ones the request states, and who signed it: a wallet may sign any of them,
so the quote, which keeps no state, is left out. `BroadcastStake` may deliver the
transaction and return an error, after which the staker may submit again.
`RotateSecret` replaces the secret file at any time; a process reads it when it
starts.

Each operator request reads `API.cfg` more than once without its lock; the reads
of one handler are one step here. The configuration is replaced as a whole, by one
pointer, so that a handler sees an old or a new one.

### Migrations and Alerts

A start is `StartProcess` (read which versions are there), one `ApplyMigration`
per missing version, and `FinishStart`. The statements of a migration and the row
that records it are one database transaction; if the other process was faster, the
primary key (or an `ALTER TABLE` that finds its column) makes it fail, and the
process exits and is started again by its deployment. The binaries may embed
different migrations, as during an upgrade of one of them. A statement fails only for
such a race or a bounded number of times: a migration that the data in the file makes
impossible, such as the unique index of `005_one_active_payout_per_address.sql` over two
transactions of one address awaiting confirmation, is not represented, and `ComesUp`
is about migrations that can succeed.

`Alerts` has the daemon's tick in two steps. `BeginTick` reads the head and moves
the cursor as far as the replay gets (`Replay` has the steps of that); `Observe` is
`observeTickGauges` and `recordHeartbeat`, some blocks later. The active set that
`Observe` reads is the one of that later moment, filed under the epoch of the head
that `BeginTick` read. `runtime_status` keeps the last participation when the
daemon has none (`COALESCE`). Time appears only as the ages the code compares with
an interval, counted up to that interval (`Elapse`). A restart or a reload of the
configuration makes a new `Manager`, which remembers nothing (`Forget`); `told` and
`incident` are history and say what the operator has been told since. Told means
that `Send` was called: the daemon neither looks at its result nor tries again.

Bounds that are not numbers: the API stops only while the daemon starts, and ticks
are not interleaved with the API's start: neither touches anything of the other.
`TickBlocks`, the blocks that appear during one tick, is assumed to be less than an
epoch (a tick takes seconds, and an epoch of the networks the code runs on hours).

## Runs

All passing runs check for deadlock as well: the daemon can always tick.

| Run | Configuration | Shows |
|---|---|---|
| `payouts_safety` | one staker, two payslips of different worth in two epochs, six blocks, two payouts, one crash or database error, `dry_run` changing across a restart | the safety of the pipeline, and `ImplementsLedger` |
| `payouts_live` | one payslip, one fault | every payout awaiting confirmation is settled, and where nothing went wrong its payslips with it |
| `replay_safety` | three stakers, one of them without an active balance, genesis at 1, batches of 2 in epochs of 4, heights to 7, one crash or database error, one change of delegation or validator, node failing at will | `CreditedOnce`, `NotOverspent`, `RightEpoch`, `CursorCovers`, `CreditsComplete`, and `CatchesUp` |
| `actions_safety` | up to two requests, a reactivation, two transactions, one fault | `OneOutstanding`, `RequestSentOnce`, `ConfirmedIsFinal`, `EndStatesStay`, `ReactivationYields` |
| `activation_safety` | one setup, save or restore, and one edit by hand, crash, restart of the API, failed statement or lost answer, at any moment of the daemon's life; the validator registered or not | `BootstrapsOnce`, `DryRunHolds`, `SetupEnds`, `ReloadFollows` |
| `access_safety` | two wallets, two settings (another validator, a second operator), two nonces, two secrets, two requests at a time, three moments, one restart | `LoginsProven`, `SessionsLast`, `TestsSpaced`, `StakesAreOwn` |
| `alerts_safety` | a daemon of two migrations and an API of one, on a new file or one of an earlier release; five blocks in two epochs, three possible active sets of three validators, one stop or reload, one failed read or write | `ToldOnce`, `LagEscalates`, `ParticipationTrue`, `UnelectedTold`, `SharesFair`, `MigratedOnce`, `ComesUp` |

The bounds. `payouts_safety` needs two submissions of one payslip to tell a retry
from a first payment, and blocks enough for the first to be given up and the
second to land (`MaxHead = 6` with a window of 2 and a threshold of 2). Two
payslips make the amount of a payout differ from what is pending later.
`replay_safety` reaches the reward of a batch of epoch 1 collected in epoch 2
(height 7), the case the lag of one batch exists for; its rewards include one in
which a share rounds to zero, one of zero, and one whose product with a stake is beyond
`Word`, so that the 64 bits are exceeded (`NotOverspent` holds there too, and the shares
that come out are not zero, as `CreditsComplete` wants). The staker without an active
balance may be the only one. In `actions_safety` each action
can be outstanding while another is queued. In `activation_safety` two changes of
the file (a request and an edit) are enough for one between any two of the
daemon's reads. In `access_safety` two nonces and two handlers are enough for a
nonce presented twice, at once or again, and two logins; a nonce and a session are
good for one moment of three, so that both expire and a request is made after it;
its nonces, secrets and handlers are symmetric. In `alerts_safety` the warning
comes at a lag of 3 and the recovery at 1, so that a lag of 2 is in between, the
case the hysteresis exists for, and escalation takes two units of time, which tells
the age of the warning from that of the last tick; epochs of three blocks put an
election between the head a tick read and its active set; the active sets have the
pool absent, in a tie, and in the set with a share below one slot.

### Findings

Some comments in the code promise more than it does. Each has a run in which TLC
finds the counterexample.

| Run | What happens |
|---|---|
| `payouts_settle_crash` | stopped between the two statements that settle a payout, its payslips await confirmation for ever |
| `payouts_reconcile` | a payslip that accrues between audit row and submission is marked paid by a transaction that does not contain it |
| `actions_pending` | the pending outcome of a reactivation is never cleared: one reactivation per database |
| `replay_lost_payslips` | stopped after a reward or epoch row, the rows that belong to it are never inserted |
| `activation_stuck` | a daemon that is not ready, because of the validator address it was given, never reads the corrected file; nor does one that loaded the file just before a change and hashed it just after |

More behaviours are in the models and are worth knowing, without a run of their
own. Stopped between the two epoch rows of the genesis election
(`election.go:129`) the replay never gets past the first checkpoint: the exception
in `CatchesUp`, which excuses this case and no other. An error of `GetCursor` restarts the
replay at the genesis block and lowers the stored cursor; the credits survive it
(`CreditedOnce`). A catch-up gives past elections the
delegations of today. One failed `GetValidator` records an epoch as not
elected, for good. Settings without an `api_addr` end setup without serving
anything else (`Usable`), and so does an insertion of the revision that fails,
until the API is restarted: `SetupEnds` starts after the insertion and is about
`Usable` settings, so it does not speak of either. A request whose daemon stopped while
signing stays in processing, where nothing takes it up or lets it be cancelled, and no
other of its action can be queued. `BootstrapsOnce` ends with the first fault: after a
lost answer, or stopped before the row is inserted, the daemon sends again. `ReloadFollows` excuses the file that changes between
its load and `NewManager`'s hash; that case is the run `activation_stuck`.

The product of reward and stake (`checkpoint.go:92`) is computed modulo 2^64
(`Share`, with `Word` for 2^64): above it, which 100 NIM of reward and a stake of 20
million NIM pass, the staker is credited less than the ratio that the comment at
line 90 promises, though never more than the reward (`NotOverspent`). Two
overlapping saves of the settings both pass the check of the hash
(`configstore/store.go:71`), and the second replaces the first without the conflict
that `operator_settings_handlers.go:84` would report; the API may keep the older
copy of the two, since it loads the file before it takes its lock.

A cursor that cannot be read at the end of a tick counts as no lag: it ends the
incident, and the same lag is warned about again (the excuses of `ToldOnce`). In the
model such a read fails a bounded number of times. In the code it fails at every tick
while there is no cursor row (`pool.go:496`), that is, as long as the first height has
never been processed: a daemon that is stuck there shows no lag and warns of none.
Around an epoch boundary a participation or alert may carry the number of the epoch
before the one it is about (`ParticipationTrue` allows the two). After a restart
the heartbeat shows the participation of an earlier epoch until the node answers.

In code that is not modelled: an error of `EstimateFee` prunes the memory of a
fee-floor hold, so that the hold is alerted again. The kind of a payout
is chosen when its audit row is inserted and not again when it is sent
(`payout.go:261`): a staker who undelegates while the payout is held is still
restaked, which the comment at line 84 means to prevent. The comment on
`requireOperator` names the validator's address only; the code also admits the
configured operators, as `Access` does.

### Fairness

The daemon ticks for ever and is restarted after it stops (weak fairness of its
steps). A call to the node that is repeated for ever succeeds now and then
(strong fairness of the step with the good answer): without it no pool can do
anything. The chain produces blocks, and what it has included becomes final.
Nothing is assumed of the operator, of the accrual of payslips, or of a
transaction's ever being included: `PayoutsSettle` holds because stuck payouts
are given up. `RunAutoReactivate` is strongly fair in
`actions_pending`, for a daemon with `auto_reactivate` set. In `Activation` a
request that was accepted is worked on, and a validator that exists for good is
found by some call (strong fairness of `BecomeReady`); nothing is assumed of the
operator, the faucet or the chain. In `Alerts` processes are started again, as their
deployment says (`restart: unless-stopped`), ticks follow each other, the clock goes
on, and the node, asked for the active set again and again, now and then answers
with that of the epoch its head is in (strong fairness); nothing is assumed of the
production of blocks, the replay or the operator.

## Proofs

Every safety invariant and action property that the passing runs check is proved
for all values of the constants, and so is the implementation of `PayoutLedger`. In
each `...Proofs` module `IInv` is the inductive invariant, `Invariance` the theorem
that it always holds, and the other theorems follow from it, the action properties
with one more look at the step.

### PayoutsProofs

For every set of addresses, payslips and epochs, all amounts and every value of the
bounds. `OwedIsUnpaid` and the others are not inductive. `IInv` adds

- `RowsFresh`: the rows `runPayouts` read stay eligible until they are audited,
  since only the daemon approves and submits; with it `OnePayoutPerAddress` is
  inductive although eligibility is checked long before it is used;
- `PhaseFacts`: what each phase holds, in particular that a transaction being
  broadcast has not reached the chain before, and that one being settled carries
  the verdict being applied;
- `SlipsLinked`: a payslip's status and its transaction's agree, and any other
  transaction that ever took the payslip on is recorded as failed;
- `VerdictsHold`: completed means final on the chain, and failed means that the
  transaction can never pay. This is where `StuckOutlivesTransaction` is needed
  (`FailedVerdictIsDead`), and `DeadStaysDead` shows that such a transaction
  stays dead.

From `Invariance` follow `TypeCorrect`, `ExclusivePayouts`, `RetryIsSafe`
(`SlipsLinked` and `VerdictsHold`), `PaidOnce` (of two transactions with a
payslip in common one is recorded as failed), `CompletedMeansPaid`, `Tracked`
and the action property `CompletedStays`.

`Refinement` maps each step to the ledger: `InsertPayslip` accrues,
`PersistPayoutSubmission` submits what is pending, the chain's `MakeFinal` lands the
payslips of a good transaction, and `UpdatePayslips` settles or gives up those that
still await confirmation. The rest, the operator's retry among them, changes nothing
the ledger sees. `LandedFacts` carries it: money has landed for a payslip exactly when
its own transaction is final, since any other that ever took it on is recorded as
failed; so nothing is submitted that has landed, or settled that has not.

### ReplayProofs, PolicyFacts, SumFacts

For every policy (`Genesis`, the lengths of batches and epochs with an epoch a
multiple of a batch), fee, stake (zero included), reward and `Word`, and any finite set
of stakers.
`PolicyFacts` has the arithmetic: quotient and remainder, where batches and epochs
begin and end, and `BatchInEpoch`, that all blocks of a batch lie in one epoch. `IInv` says

- where the loop is and what it has left behind: `PassedCovered` (every height
  behind the loop and behind the cursor has its rows), `PlaceOK`, `HeightsOK`;
- what the rows of snapshots are (`RowsStaked`: only stakers with an active balance have
  one, so that no share is divided by zero) and what the rows still to be inserted are:
  `EpochsOK`, `SnapshotOK`, `CreditsOK`. A
  snapshot to come is one of an epoch nothing was rewarded for, so that the snapshot
  of a rewarded epoch stays as it is, which `Proportional` needs;
- `AmountsOK` and `Proportional`: a batch has paid no more than its reward in
  proportion to the stakes it has paid for. `NotOverspent` follows when all stakers
  have been paid, but is not inductive by itself;
- `NothingLost`: without a fault no snapshot and no credit is cut short.

`NeverOverspent` holds whatever the 64 bits cut off, since a remainder is no larger
than the product. `CreditsAreComplete` is about all stakes, zero included: the rows of
a passed election are those of the stakers that it counted and that have an active
balance (`Due` follows them while they are inserted). It has one hypothesis,
`NoOverflow`: no reward after the fee times a stake reaches `Word`. Beyond it a share may come out as 0 where
the ratio is not, and no payslip is inserted (see Findings).

`SumFacts` proves what the sums of the library give. They are recursive, and induction
over data is out of the prover's reach, so each fact is proved by a smallest
counterexample: the order of the subsets of a finite set is well founded
(`SmallestSet`), and the smallest set on which the fact fails leads to a smaller one.

### ValidatorActionsProofs

For any number of requests, sends, jails and faults. `IInv` adds `ClaimHeld` (between
two statements the row the daemon has claimed is still processing, and nothing was
sent for it before the call), `RowsKnown` (a transaction is signed for a row of the
table or for none), `ReactivationRows` (the daemon's own rows are never up for a claim)
and `ReactivationClear` (from the check to the row of a reactivation, nothing of the
operator's is more than requested). Theorems: `SentOnce`, `OneAtATime`,
`ConfirmedTrue`, `EndsStay`, `Yields`.

### AccessProofs

For any number of handlers, wallets, nonces, secrets and settings, and every time to
live. `IInv` adds that a consumed nonce belongs to one request or one login
(`VerifyOwnsNonce`, `LoginsSpent`), that a token carries what its login recorded and the
secret in use is the one of the start (`TokensFromLogins`), and that a request past its
checks carries a stake of its own session (`RequestsOwn`). Theorems: `LoginsAreProven`,
`SessionsAreKept`, `TestsAreSpaced`, `StakesOwned`.

### ActivationProofs

For all settings, any number of requests, and every deposit, stake, reserve and faucet.
`SentHasRow` carries `RegistersOnce`: without a fault whatever was sent has its pending
row or is about to get it. `DryRunIsKept` needs an invariant of its own,
`DryEverywhere`: while the file has not been edited it says `dry_run`, and so does every
copy of it that a request is about to write or the daemon runs with.

### AlertsProofs

For any set of processes and any releases they embed, any active sets, intervals and
heights; the migrations of `Migrations` are part of the composition. `IInv` adds
`SchemaOK` (`MigratedOnce`, and a process that is migrating knows no version that is
not there), `ChainOK` (one active set for each epoch, and at most `TickBlocks` blocks
since a tick read the head, so that at most one election lies between), `LagOK` (each
warning but that of the lag under way has its excuse) and `ToldOK` (epochs are told in
order, and no tick goes back behind the one that the daemon remembers).

`SharesAreFair` is the largest remainder method for every active set. It needs no
induction: ranking by remainder is a bijection onto the first numbers (`Ranks`), so
exactly as many validators get an extra slot as slots are left (`ExtraCount`), and
those that do have a remainder (`ExtraHasRest`).

### Assumptions

Each is an `ASSUME` of the module that declares the constants, evaluated by TLC on
every run, or named in the theorem.

- `StuckOutlivesTransaction`, discussed above.
- `NoOverflow`, of `CreditsAreComplete` only.
- `AlertsAssumption`: a tick produces fewer blocks than an epoch; an epoch has more
  than one block (with epochs of one block the model's initial state would have no
  active set for its head); the chain goes beyond the genesis block; the recovery of
  the lag is below its warning.
- `MigrationsAssumption`: each binary embeds a finite prefix of the migrations, as the
  numbered files of a repository are. `MigratedOnce` is about such releases.
- The others say that constants are numbers, that the stakers and validators are
  finitely many, that settings are made of what they are said to be, and that marks of
  absence are no values (`NoTx`, `NoCursor`, `NoFile`, `Broken`, `Never`). `EscalateAfter`
  and `GaugeInterval` are positive.

### Only model-checked

Liveness, which is out of the prover's reach: `PayoutsSettle`, `CatchesUp`, `SetupEnds`,
`ReloadFollows`, `LagEscalates`, `UnelectedTold`, `ComesUp`. And the five
counterexamples, which are runs by nature.

## Not modelled

- The payout budget: the balance that a phase reads once and spends down, the fee
  floor, their alerts, and the staker's choice between transfer and stake. In
  `Payouts` a hold is possible at any time, which contains whatever the budget
  decides; what is left out is a statement about the wallet, and with it the
  hazard that the balance does not yet lack what broadcast payouts will take.
- The limit on setup attempts per minute, a counter in the API's memory that
  nothing else reads.
- The read-only API, the notifier's formats, events, snapshots and metrics: they
  have no state that another part decides on.
- The chain client, the web UI, devlab, scripts and deployments.

## Plan

1. The payout budget over several addresses: the balance each phase reads, and what
   of it is promised already.
2. A composition of `Replay` and `Payouts` over the payslips they share, with a ledger
   that starts from rewards, and the proof that it implements `PayoutLedger`.
3. Of the liveness properties, the safety half of their arguments as theorems: that
   each helpful step is the only thing waited for.
