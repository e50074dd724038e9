------------------------------- MODULE Alerts -------------------------------
(***************************************************************************)
(* What the daemon tells the operator at the end of each tick: that it is  *)
(* behind the chain (internal/pool/lag.go), that its validator has no      *)
(* slots in this epoch (epoch_participation.go, slots.go), and the         *)
(* heartbeat in runtime_status. All it remembers of what it has told is in *)
(* memory, which is empty after each start of the process (Migrations) and *)
(* each reload of the configuration.                                       *)
(*                                                                         *)
(* Time is how long ago the two moments were that the code compares with,  *)
(* counted up to the interval that matters.                                *)
(***************************************************************************)
EXTENDS Migrations, Policy, Sequences, Functions

CONSTANTS
  Daemon,         \* the daemon among Procs
  Validators,     \* addresses, as numbers: ties go to the smaller
  Me,             \* the pool's validator
  Slots,          \* policy: slots of an epoch
  ActiveSets,     \* the sets an election may choose: validator -> stake
  LagWarn, LagRecover,  \* lagWarnBlocks, lagRecoverBlocks
  EscalateAfter,  \* lagEscalateAfter
  GaugeInterval,  \* chainGaugeInterval
  TickBlocks,     \* chain: blocks that may appear during one tick
  Never,          \* the zero time, and no epoch
  MaxHead,        \* bound: height of the last block
  MaxErrors       \* bound: failed reads of the cursor

Epochs == 1..EpochAt(MaxHead)

ASSUME AlertsAssumption ==
  /\ Daemon \in Procs
  /\ Validators \subseteq Nat /\ IsFiniteSet(Validators) /\ Me \in Validators
  /\ Slots \in Nat \ {0}
  /\ \A s \in ActiveSets : s \in [DOMAIN s -> Nat] /\ DOMAIN s \subseteq Validators
  /\ LagWarn \in Nat /\ LagRecover \in Nat /\ LagRecover < LagWarn
  /\ EscalateAfter \in Nat \ {0} /\ GaugeInterval \in Nat \ {0}
  /\ TickBlocks \in Nat /\ TickBlocks < BlocksPerEpoch /\ 1 < BlocksPerEpoch
  /\ Never \notin Nat
  /\ MaxHead \in Nat /\ Genesis < MaxHead /\ MaxErrors \in Nat

VARIABLES
  \* the chain and the database
  head,            \* height of the node
  active,          \* the active set of each epoch, from epoch 1 to the last one elected
  cursor,          \* the last height replayed
  runtime_status,  \* the heartbeat: the participation it carries, if any
  \* the daemon: lost when it stops
  pc,              \* where in its tick it is
  seen,            \* the head this tick read
  lagAlert,        \* what was sent, and how long ago the warning was
  gauge,           \* how long ago the gauges were refreshed
  epochPart,       \* the participation last read
  unelected,       \* the epoch last alerted about
  \* history
  incident,        \* lag alerts since the daemon had last caught up
  told,            \* epochs alerted about since the start, in order
  errors           \* failed reads so far

chainDb == <<head, active, cursor, runtime_status>>
memory  == <<pc, seen, lagAlert, gauge, epochPart, unelected>>
vars    == <<migrations, chainDb, memory, incident, told, errors>>

NoPart == [epoch |-> Never]
Part   == [epoch : Epochs, elected : BOOLEAN, slots : 0..Slots] \cup {NoPart}

NoLagAlert == [warning |-> FALSE, error |-> FALSE, age |-> 0]
NoIncident == [warnings |-> 0, errors |-> 0, excuses |-> 0]

TypeOK ==
  /\ MigrationsTypeOK
  /\ head \in Genesis..MaxHead
  /\ active \in Seq(ActiveSets)
  /\ cursor \in Genesis..head
  /\ runtime_status \in Part /\ epochPart \in Part
  /\ pc \in {"idle", "observe"}
  /\ seen \in Genesis..head
  /\ lagAlert \in [warning : BOOLEAN, error : BOOLEAN, age : 0..EscalateAfter]
  /\ gauge \in 0..GaugeInterval \cup {Never}
  /\ unelected \in Epochs \cup {Never}
  /\ incident \in [warnings : Nat, errors : Nat, excuses : Nat]
  /\ errors \in 0..MaxErrors

Init ==
  /\ MigrationsInit
  /\ head = Genesis + 1 /\ cursor = Genesis
  /\ active \in {<<set>> : set \in ActiveSets}
  /\ runtime_status = NoPart
  /\ pc = "idle" /\ seen = Genesis
  /\ lagAlert = NoLagAlert /\ gauge = Never /\ epochPart = NoPart /\ unelected = Never
  /\ incident = NoIncident /\ told = <<>> /\ errors = 0

-----------------------------------------------------------------------------
(* slotShare: Hamilton's method, by largest remainder.                     *)

Stakes(set) == SumFunction(set)

\* Mutant: each quota is rounded to the nearest.
AssignedRounded(set) ==
  [v \in DOMAIN set |-> (set[v] * Slots + Stakes(set) \div 2) \div Stakes(set)]

\* Every validator gets its quota rounded down; what is left goes, one each, to
\* the largest remainders, ties by address.
Assigned(set) ==
  LET total     == Stakes(set)
      down      == [v \in DOMAIN set |-> (set[v] * Slots) \div total]
      remainder == [v \in DOMAIN set |-> (set[v] * Slots) % total]
      leftover  == Slots - SumFunction(down)
      before(v) == {w \in DOMAIN set : \/ remainder[w] > remainder[v]
                                       \/ remainder[w] = remainder[v] /\ w < v}
  IN  [v \in DOMAIN set |-> down[v] + IF Cardinality(before(v)) < leftover THEN 1 ELSE 0]

SlotShare ==
  [set \in ActiveSets |-> IF Me \in DOMAIN set /\ Stakes(set) > 0 THEN Assigned(set)[Me] ELSE 0]

-----------------------------------------------------------------------------
(* A tick.                                                                 *)

Up == \A p \in Procs : phase[p] = "up"

\* BlockNumber answers, and the catch-up loop gets as far as it gets; a cursor that
\* cannot be read starts it again at the genesis block. Bound: ticks are not
\* interleaved with the start of the other process, which touches nothing they use.
BeginTick ==
  /\ Up /\ pc = "idle"
  /\ pc' = "observe"
  /\ seen' = head
  /\ \/ cursor' \in cursor..head /\ UNCHANGED errors
     \/ errors < MaxErrors /\ errors' = errors + 1 /\ cursor' \in Genesis..head
  /\ UNCHANGED <<migrations, head, active, runtime_status, lagAlert, gauge, epochPart, unelected,
                 incident, told>>

\* Mutant: a lag below the warning ends the incident.
RecoveredBelowWarning(lag) == lag < LagWarn

Recovered(lag) == lag <= LagRecover

\* Mutant: the warning's moment moves with every tick.
SinceLastTick == [lagAlert EXCEPT !.age = 0]

\* What nextLagAlert leaves alone.
LagAlertKept == lagAlert

\* nextLagAlert: the state after a tick that is lag behind.
NextLagAlert(lag) ==
  IF Recovered(lag) THEN NoLagAlert
  ELSE IF ~lagAlert.warning
       THEN IF lag < LagWarn THEN lagAlert ELSE [warning |-> TRUE, error |-> FALSE, age |-> 0]
       ELSE IF ~lagAlert.error /\ lagAlert.age >= EscalateAfter
            THEN [lagAlert EXCEPT !.error = TRUE] ELSE LagAlertKept

\* maybeAlertChainLag: whether the alert is delivered makes no difference to it.
\* The incident goes on until the daemon is really within LagRecover.
AlertChainLag(processed) ==
  LET next == NextLagAlert(seen - processed)
      sent(f) == IF next[f] /\ ~lagAlert[f] THEN 1 ELSE 0
  IN  /\ lagAlert' = next
      /\ incident' = IF seen - cursor <= LagRecover THEN NoIncident
                     ELSE [warnings |-> incident.warnings + sent("warning"),
                           errors   |-> incident.errors + sent("error"),
                           excuses  |-> incident.excuses + IF processed # cursor THEN 1 ELSE 0]

\* Mutant: the gauges are refreshed once.
RefreshOnce == gauge = Never

ShouldRefreshGauges == gauge = Never \/ gauge = GaugeInterval

\* Mutant: the participation is filed under the epoch that was replayed.
PartOfCursor(set) ==
  [epoch |-> EpochAt(cursor), elected |-> SlotShare[set] > 0, slots |-> SlotShare[set]]

\* Mutant: the stake is recorded where the slots belong.
PartWithStake(set) ==
  [epoch |-> EpochAt(seen), elected |-> SlotShare[set] > 0, slots |-> Stakes(set)]

\* applyActiveSet: the set of now under the epoch of the head the tick began with.
ApplyActiveSet(set) ==
  [epoch |-> EpochAt(seen), elected |-> SlotShare[set] > 0, slots |-> SlotShare[set]]

\* The epochs whose set the node may answer with: at an election block, also the one
\* that is just elected.
ActiveEpochs ==
  EpochAt(head)..Len(active)

\* Mutant: the epoch alerted about is not stored.
AlertedForgets(e) == unelected' = unelected

AlertedAbout(e) == unelected' = e

\* maybeAlertNotElected.
AlertNotElected(part) ==
  IF part.elected \/ unelected = part.epoch
  THEN UNCHANGED <<unelected, told>>
  ELSE AlertedAbout(part.epoch) /\ told' = Append(told, part.epoch)

\* refreshEpochParticipation, when it is due: a call that fails leaves all as it was.
RefreshParticipation ==
  \/ /\ ShouldRefreshGauges
     /\ gauge' = 0
     /\ \E e \in ActiveEpochs :
          /\ epochPart' = ApplyActiveSet(active[e])
          /\ AlertNotElected(epochPart')
  \/ /\ ShouldRefreshGauges
     /\ gauge' = 0
     /\ UNCHANGED <<epochPart, unelected, told>>
  \/ /\ ~ShouldRefreshGauges
     /\ UNCHANGED <<gauge, epochPart, unelected, told>>

\* Statement UpsertRuntimeStatus: COALESCE keeps the participation that is there when
\* the daemon has none yet.
UpsertRuntimeStatus(part) ==
  runtime_status' = IF part = NoPart THEN runtime_status ELSE part

RecordHeartbeat == UpsertRuntimeStatus(epochPart')

\* observeTickGauges and recordHeartbeat. A cursor that cannot be read counts as no
\* lag; a heartbeat that cannot be written is left out.
Observe ==
  /\ pc = "observe"
  /\ pc' = "idle" /\ seen' = Genesis
  /\ RefreshParticipation
  /\ \/ AlertChainLag(cursor) /\ RecordHeartbeat /\ UNCHANGED errors
     \/ /\ errors < MaxErrors /\ errors' = errors + 1
        /\ \/ AlertChainLag(seen) /\ RecordHeartbeat
           \/ AlertChainLag(cursor) /\ UNCHANGED runtime_status
  /\ UNCHANGED <<migrations, head, active, cursor>>

-----------------------------------------------------------------------------
(* The process, the chain and the clock.                                   *)

\* The steps of a start, of either process.
Start ==
  /\ \E p \in Procs : Migrate(p)
  /\ UNCHANGED <<chainDb, memory, incident, told, errors>>

\* The memory of a new Manager.
Forget ==
  /\ pc' = "idle" /\ seen' = Genesis
  /\ lagAlert' = NoLagAlert /\ gauge' = Never /\ epochPart' = NoPart
  /\ unelected' = Never /\ told' = <<>>
  /\ incident' = [incident EXCEPT !.excuses = @ + 1]

\* Bound: the other process stops only while the daemon starts, the one time at
\* which the two meet.
Stop ==
  /\ \E p \in Procs :
       /\ StopProcess(p)
       /\ \/ p = Daemon /\ Forget
          \/ /\ p # Daemon /\ phase[Daemon] # "up"
             /\ UNCHANGED <<memory, told, incident>>
  /\ UNCHANGED <<chainDb, errors>>

\* The configuration file changed: main goes on with a new Manager.
Reload ==
  /\ Up /\ pc = "idle"
  /\ stops < MaxStops /\ stops' = stops + 1
  /\ Forget
  /\ UNCHANGED <<schema_migrations, done, phase, known, chainDb, errors>>

\* An election block chooses the set of the next epoch. A tick is shorter than an
\* epoch.
ProduceBlock ==
  /\ head < MaxHead
  /\ pc # "idle" => head - seen < TickBlocks
  /\ head' = head + 1
  /\ IF IsElection(head') THEN \E set \in ActiveSets : active' = Append(active, set)
                          ELSE UNCHANGED active
  /\ UNCHANGED <<migrations, cursor, runtime_status, memory, incident, told, errors>>

\* A while passes.
Elapse ==
  /\ lagAlert' = [lagAlert EXCEPT !.age = IF lagAlert.warning THEN Min({EscalateAfter, @ + 1}) ELSE 0]
  /\ gauge' = IF gauge = Never THEN Never ELSE Min({GaugeInterval, gauge + 1})
  /\ <<lagAlert', gauge'>> # <<lagAlert, gauge>>
  /\ UNCHANGED <<migrations, chainDb, pc, seen, epochPart, unelected, incident, told, errors>>

Next == BeginTick \/ Observe \/ Start \/ Stop \/ Reload \/ ProduceBlock \/ Elapse

Spec == Init /\ [][Next]_vars

\* Processes are started again and ticks follow each other; the clock goes on; the
\* node, asked for the active set again and again, now and then answers with that of
\* the epoch its head is in.
Fairness ==
  /\ WF_vars(Start) /\ WF_vars(BeginTick \/ Observe)
  /\ WF_vars(Elapse)
  /\ SF_vars(Observe /\ epochPart' = ApplyActiveSet(active[EpochAt(head)]))

FairSpec == Spec /\ Fairness

-----------------------------------------------------------------------------
(* What the operator may rely on.                                          *)

\* Nothing is told twice. A lag is warned about once and escalated once, however
\* often it drops below the warning without being made good (lagRecoverBlocks): only
\* a cursor that could not be read, or a restart, makes the daemon tell it again. An
\* epoch is told once, although the daemon looks again every GaugeInterval and the
\* set may change under the epoch's name (shouldAlertNotElected).
ToldOnce ==
  /\ incident.warnings <= 1 + incident.excuses
  /\ incident.errors <= incident.warnings
  /\ \A i, j \in DOMAIN told : told[i] = told[j] => i = j

\* A lag that was warned about is escalated unless the daemon makes it good or is
\* restarted: the moment it counts from is that of the warning.
LagEscalates == lagAlert.warning ~> lagAlert.error \/ ~lagAlert.warning

\* Nothing is said of an epoch that is not true of it or, the active set being read
\* some time after the head, of the one that follows: neither in the heartbeat nor
\* in an alert.
ParticipationTrue ==
  LET elected(e) == SlotShare[active[e]] > 0
      near(e)    == {elected(x) : x \in {e, e + 1} \cap DOMAIN active}
  IN  /\ \A part \in {epochPart, runtime_status} : part # NoPart => part.elected \in near(part.epoch)
      /\ \A i \in DOMAIN told : FALSE \in near(told[i])

\* An epoch in which the validator has no slots is told, unless it is over before
\* the daemon gets to it; after a restart, it is told again.
UnelectedTold ==
  \A e \in Epochs :
    EpochAt(head) = e /\ SlotShare[active[e]] = 0
      ~> EpochAt(head) # e \/ e \in Range(told)

\* The slots are all given away, each validator's share is its quota rounded up or
\* down, and more stake never means fewer slots (slotShare).
SharesFair ==
  LET set   == active[Len(active)]
      total == Stakes(set)
      share == Assigned(set)
  IN  total > 0 =>
        /\ SumFunction(share) = Slots
        /\ \A v \in DOMAIN set :
             /\ set[v] * Slots - total < share[v] * total
             /\ share[v] * total < set[v] * Slots + total
             /\ \A w \in DOMAIN set : set[v] > set[w] => share[v] >= share[w]
=============================================================================
