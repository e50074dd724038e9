----------------------------- MODULE Migrations -----------------------------
(***************************************************************************)
(* The start of the two processes on one database file                     *)
(* (internal/db/init.go, migrate.go): each reads which migrations are      *)
(* applied and applies the others, and may find that the other process was *)
(* faster. They may be of different releases. An error ends the process,   *)
(* and the deployment starts it again.                                     *)
(***************************************************************************)
EXTENDS Integers, FiniteSets, FiniteSetsExt

CONSTANTS
  Procs,       \* the daemon and the API
  Embedded,    \* Embedded[p]: the versions embedded in p's binary, from 1 in order
  MaxStops     \* bound: crashes of a process, and errors of the database at its start

ASSUME MigrationsAssumption ==
  /\ DOMAIN Embedded = Procs
  /\ \A p \in Procs : IsFiniteSet(Embedded[p]) /\ Embedded[p] = 1..Cardinality(Embedded[p])
  /\ MaxStops \in Nat

VARIABLES
  schema_migrations,  \* the versions recorded
  done,               \* history: how often the statements of a version took effect
  phase,              \* where each process is
  known,              \* while it migrates: the versions it knows to be applied
  stops               \* crashes and errors so far

migrations == <<schema_migrations, done, phase, known, stops>>

Versions == UNION {Embedded[p] : p \in Procs}

MigrationsTypeOK ==
  /\ schema_migrations \subseteq Versions
  /\ done \in [Versions -> Nat]
  /\ phase \in [Procs -> {"down", "migrating", "up"}]
  /\ known \in [Procs -> SUBSET Versions]
  /\ stops \in 0..MaxStops

\* A new file, or one that an earlier release left.
MigrationsInit ==
  /\ schema_migrations \in {{v \in Versions : v <= n} : n \in {0} \cup Versions}
  /\ done = [v \in Versions |-> IF v \in schema_migrations THEN 1 ELSE 0]
  /\ phase = [p \in Procs |-> "down"]
  /\ known = [p \in Procs |-> {}]
  /\ stops = 0

-----------------------------------------------------------------------------
\* Mutant: what other releases or processes applied is not looked at.
AppliedNone == {}

\* Query of getAppliedVersions.
Applied == schema_migrations

\* Migrate to the end of getAppliedVersions, the table being there.
StartProcess(p) ==
  /\ phase[p] = "down"
  /\ phase' = [phase EXCEPT ![p] = "migrating"]
  /\ known' = [known EXCEPT ![p] = Applied]
  /\ UNCHANGED <<schema_migrations, done, stops>>

Missing(p) == Embedded[p] \ known[p]

\* Mutant: the version is recorded with INSERT OR IGNORE.
ConflictsNever(v) == FALSE

\* The primary key of schema_migrations refuses a version that is there; for an
\* ALTER TABLE the statement itself fails already.
Conflicts(v) == v \in schema_migrations

\* applyMigration: the statements and the version are one transaction, which waits
\* for the other process's. A version the other has applied meanwhile is an error,
\* and the process ends.
ApplyMigration(p) ==
  /\ phase[p] = "migrating"
  /\ Missing(p) # {}
  /\ LET v == Min(Missing(p))
     IN  \/ /\ ~Conflicts(v)
            /\ schema_migrations' = schema_migrations \cup {v}
            /\ done' = [done EXCEPT ![v] = @ + 1]
            /\ known' = [known EXCEPT ![p] = @ \cup {v}]
            /\ UNCHANGED phase
         \/ /\ Conflicts(v)
            /\ phase' = [phase EXCEPT ![p] = "down"]
            /\ known' = [known EXCEPT ![p] = {}]
            /\ UNCHANGED <<schema_migrations, done>>
  /\ UNCHANGED stops

Migrated(p) == Missing(p) = {}

\* InitDB returns.
FinishStart(p) ==
  /\ phase[p] = "migrating"
  /\ Migrated(p)
  /\ phase' = [phase EXCEPT ![p] = "up"]
  /\ known' = [known EXCEPT ![p] = {}]
  /\ UNCHANGED <<schema_migrations, done, stops>>

\* A crash or kill, or an error of the database such as a lock held for longer than
\* busy_timeout: a transaction that is open is rolled back.
StopProcess(p) ==
  /\ phase[p] # "down"
  /\ stops < MaxStops
  /\ stops' = stops + 1
  /\ phase' = [phase EXCEPT ![p] = "down"]
  /\ known' = [known EXCEPT ![p] = {}]
  /\ UNCHANGED <<schema_migrations, done>>

Migrate(p) == StartProcess(p) \/ ApplyMigration(p) \/ FinishStart(p)

-----------------------------------------------------------------------------
(* What a start guarantees.                                                *)

\* However the two starts interleave, and whichever is stopped, the statements of
\* a migration take effect once, none is applied before an earlier one, and no
\* process works on a schema that lacks one of its own (Migrate, applyMigration,
\* InitDB).
MigratedOnce ==
  /\ \A v \in Versions :
       /\ done[v] = IF v \in schema_migrations THEN 1 ELSE 0
       /\ v \in schema_migrations => \A w \in Versions : w < v => w \in schema_migrations
  /\ \A p \in Procs : phase[p] = "up" => Embedded[p] \subseteq schema_migrations

\* A process that lost the race for a migration, or was stopped, comes up in the
\* end: the next start reads what the other has applied.
ComesUp == \A p \in Procs : phase[p] = "down" ~> phase[p] = "up"
=============================================================================
