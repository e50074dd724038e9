SPECIFICATION FairSpec
CONSTANTS
  Procs = {"daemon", "api"}
  Embedded <- MCEmbedded
  MaxStops = 1
  Daemon = "daemon"
  Genesis = 0
  BlocksPerBatch = 3
  BlocksPerEpoch = 3
  Validators = {1, 2, 3}
  Me = 1
  Slots = 4
  ActiveSets <- MCActiveSets
  LagWarn = 3
  LagRecover = 1
  EscalateAfter = 2
  GaugeInterval = 1
  TickBlocks = 2
  Never = Never
  MaxHead = 4
  MaxErrors = 1
INVARIANTS TypeOK ToldOnce ParticipationTrue SharesFair MigratedOnce
PROPERTIES LagEscalates UnelectedTold ComesUp
