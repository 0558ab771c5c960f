------------------------------- MODULE Startup -------------------------------
(***************************************************************************)
(* The start of a server process: cmd/server/main.go migrates the database  *)
(* (storage/sqlite/migrate.go with the embedded migrations), seeds an empty *)
(* one (bootstrap/seed.go) and serves.  Every migration, account, trail and *)
(* window is a transaction of its own.  A start may break off anywhere, a   *)
(* new release may be deployed or an old one brought back, and while one    *)
(* process ends or starts another one may be starting on the same file.     *)
(***************************************************************************)
EXTENDS Integers, FiniteSets

CONSTANTS
  Processes,
  Releases,   \* the migrations of each release, from version to content
  SeedTrails, \* the numbers of the trails of the seed, in its order
  Days,       \* windows the seed opens for each of them
  Deploys,    \* bound on deployments
  Mishaps     \* bound on starts that break off

Versions == UNION {DOMAIN r : r \in Releases}
Contents == UNION {{r[v] : v \in DOMAIN r} : r \in Releases}
NotApplied == "not applied"

ASSUME StartupAssumption ==
  /\ \A r \in Releases : /\ DOMAIN r \subseteq Nat \ {0}
                         /\ DOMAIN r # {}
                         /\ IsFiniteSet(DOMAIN r)
  /\ NotApplied \notin Contents
  /\ SeedTrails \subseteq Nat
  /\ Days \in Nat \ {0}
  /\ Deploys \in Nat
  /\ Mishaps \in Nat

VARIABLES
  applied,  \* schema_migrations: the content each version was applied with
  executed, \* how often the SQL of each version was committed
  accounts, \* the seeded rows of users, by role
  trails,   \* rows of trails, by number
  windows,  \* the days of permit windows the seed opened or found open, of each trail
  deployed, \* the release the service manager starts
  release, stage, known, todo, \* a process: its binary, its step, what it read
  deploys, mishaps

schemaVars == <<applied, executed>>
seedVars == <<accounts, trails, windows>>
processVars == <<release, stage, known, todo>>
boundVars == <<deploys, mishaps>>
vars == <<schemaVars, seedVars, deployed, processVars, boundVars>>

-----------------------------------------------------------------------------
Seeding == {"leader", "trail", "window"}
Stages == {"down", "read", "migrate", "seed", "ranger", "worker", "serving"} \cup Seeding
Roles == {"ranger", "leader"}
Records == [Versions -> Contents \cup {NotApplied}]

TypeOK ==
  /\ applied \in Records
  /\ executed \in [Versions -> Nat]
  /\ accounts \subseteq Roles
  /\ trails \subseteq SeedTrails
  /\ windows \in [SeedTrails -> 0..Days]
  /\ deployed \in Releases
  /\ release \in [Processes -> Releases]
  /\ stage \in [Processes -> Stages]
  /\ known \in [Processes -> Records]
  /\ todo \in [Processes -> SUBSET (Versions \cup SeedTrails)]
  /\ \A p \in Processes : stage[p] = "migrate" => todo[p] \subseteq DOMAIN release[p]
  /\ \A p \in Processes : stage[p] = "window" => todo[p] \cap trails # {}
  /\ deploys \in 0..Deploys
  /\ mishaps \in 0..Mishaps

\* An empty file.
Init ==
  /\ applied = [v \in Versions |-> NotApplied]
  /\ executed = [v \in Versions |-> 0]
  /\ accounts = {}
  /\ trails = {}
  /\ windows = [t \in SeedTrails |-> 0]
  /\ deployed \in Releases
  /\ release = [p \in Processes |-> deployed]
  /\ stage = [p \in Processes |-> "down"]
  /\ known = [p \in Processes |-> applied]
  /\ todo = [p \in Processes |-> {}]
  /\ deploys = 0
  /\ mishaps = 0

-----------------------------------------------------------------------------
(* Definitions marked Mutant are plausible wrong forms of the ones they     *)
(* precede, used only to check that the properties notice them.             *)

\* Migrations run by version, trails in the order of the list.
NextOf(S, n) == n \in S /\ \A m \in S : n <= m

Recorded(record, v) == record[v] # NotApplied

Goto(p, next) == stage' = [stage EXCEPT ![p] = next]

\* A process moves on and keeps what it read.
Go(p, next, rest) ==
  /\ Goto(p, next)
  /\ todo' = [todo EXCEPT ![p] = rest]
  /\ UNCHANGED <<release, known, deployed, boundVars>>

Deploy(r) ==
  /\ r # deployed
  /\ deploys < Deploys
  /\ deployed' = r
  /\ deploys' = deploys + 1
  /\ UNCHANGED <<schemaVars, seedVars, processVars, mishaps>>

StartProcess(p) ==
  /\ stage[p] = "down"
  /\ release' = [release EXCEPT ![p] = deployed]
  /\ Goto(p, "read")
  /\ UNCHANGED <<schemaVars, seedVars, deployed, known, todo, boundVars>>

\* The records are read once, before the first migration.
ReadApplied(p) ==
  /\ stage[p] = "read"
  /\ known' = [known EXCEPT ![p] = applied]
  /\ todo' = [todo EXCEPT ![p] = DOMAIN release[p]]
  /\ Goto(p, "migrate")
  /\ UNCHANGED <<schemaVars, seedVars, deployed, release, boundVars>>

\* Mutant: the checksum of an applied migration is not compared.
SkipAnyMigration(p, v) ==
  /\ Recorded(known[p], v)
  /\ UNCHANGED schemaVars

\* An applied migration is left alone if its content has not changed.
SkipMigration(p, v) ==
  /\ known[p][v] = release[p][v]
  /\ UNCHANGED schemaVars

\* Mutant: the version is not the primary key of the records.
ApplyAnyMigration(p, v) ==
  /\ ~Recorded(known[p], v)
  /\ applied' = [applied EXCEPT ![v] = release[p][v]]
  /\ executed' = [executed EXCEPT ![v] = @ + 1]

\* The SQL and its record commit together, or not at all if another process was
\* faster.
ApplyMigration(p, v) ==
  /\ ~Recorded(known[p], v)
  /\ ~Recorded(applied, v)
  /\ applied' = [applied EXCEPT ![v] = release[p][v]]
  /\ executed' = [executed EXCEPT ![v] = @ + 1]

Migrate(p) ==
  /\ stage[p] = "migrate"
  /\ \E v \in todo[p] :
       /\ NextOf(todo[p], v)
       /\ SkipMigration(p, v) \/ ApplyMigration(p, v)
       /\ Go(p, "migrate", todo[p] \ {v})
  /\ UNCHANGED seedVars

\* The database is up to date; the seed asks whether there is a ranger.
Migrated(p) ==
  /\ stage[p] = "migrate"
  /\ todo[p] = {}
  /\ Go(p, "seed", {})
  /\ UNCHANGED <<schemaVars, seedVars>>

-----------------------------------------------------------------------------
\* The seed is skipped as soon as there is a ranger.
BeginSeed(p) ==
  /\ stage[p] = "seed"
  /\ Go(p, IF "ranger" \in accounts THEN "worker" ELSE "ranger", {})
  /\ UNCHANGED <<schemaVars, seedVars>>

\* Mutant: the leader is provisioned first.
LeaderFirst(step) == IF step = "ranger" THEN "leader" ELSE "ranger"

RoleOf(step) == step

\* Mutant: an account that exists counts as provisioned.
InsertAnyAccount(role) == accounts' = accounts \cup {role}

\* INSERT INTO users under the unique index of the email
InsertAccount(role) ==
  /\ role \notin accounts
  /\ accounts' = accounts \cup {role}

ProvisionRanger(p) ==
  /\ stage[p] = "ranger"
  /\ InsertAccount(RoleOf("ranger"))
  /\ Go(p, "leader", {})
  /\ UNCHANGED <<schemaVars, trails, windows>>

ProvisionLeader(p) ==
  /\ stage[p] = "leader"
  /\ InsertAccount(RoleOf("leader"))
  /\ Go(p, "trail", SeedTrails)
  /\ UNCHANGED <<schemaVars, trails, windows>>

\* A trail that exists is a conflict, and the seed goes on without its windows.
SeedTrail(p) ==
  /\ stage[p] = "trail"
  /\ \E t \in todo[p] :
       /\ NextOf(todo[p], t)
       /\ IF t \in trails
            THEN Go(p, "trail", todo[p] \ {t}) /\ UNCHANGED trails
            ELSE Go(p, "window", todo[p]) /\ trails' = trails \cup {t}
  /\ UNCHANGED <<schemaVars, accounts, windows>>

\* Mutant: one day too many.
SeedWindowTooMany(p) ==
  /\ stage[p] = "window"
  /\ \E t \in todo[p] :
       /\ NextOf(todo[p], t)
       /\ windows' = [windows EXCEPT ![t] = @ + 1]
       /\ IF windows[t] < Days THEN Go(p, "window", todo[p])
                               ELSE Go(p, "trail", todo[p] \ {t})
  /\ UNCHANGED <<schemaVars, accounts, trails>>

\* One transaction for each day.  A day a ranger has opened meanwhile is reused:
\* EnsureWindow reads the window again when its insert conflicts (permit.go:47-51).
SeedWindow(p) ==
  /\ stage[p] = "window"
  /\ \E t \in todo[p] :
       /\ NextOf(todo[p], t)
       /\ windows' = [windows EXCEPT ![t] = @ + 1]
       /\ IF windows[t] + 1 < Days THEN Go(p, "window", todo[p])
                                   ELSE Go(p, "trail", todo[p] \ {t})
  /\ UNCHANGED <<schemaVars, accounts, trails>>

Seeded(p) ==
  /\ stage[p] = "trail"
  /\ todo[p] = {}
  /\ Go(p, "worker", {})
  /\ UNCHANGED <<schemaVars, seedVars>>

Serve(p) ==
  /\ stage[p] = "worker"
  /\ Go(p, "serving", {})
  /\ UNCHANGED <<schemaVars, seedVars>>

-----------------------------------------------------------------------------
Leave(p) ==
  /\ Goto(p, "down")
  /\ todo' = [todo EXCEPT ![p] = {}]
  /\ UNCHANGED <<schemaVars, seedVars, deployed, release, known, deploys>>

\* A changed migration, one that another process has applied since, or an account
\* that another one has created: the start ends with an error.
Refused(p) ==
  \/ /\ stage[p] = "migrate"
     /\ \E v \in todo[p] :
          /\ NextOf(todo[p], v)
          /\ IF Recorded(known[p], v) THEN known[p][v] # release[p][v]
                                      ELSE Recorded(applied, v)
  \/ stage[p] \in Roles /\ RoleOf(stage[p]) \in accounts

StartRefused(p) ==
  /\ Refused(p)
  /\ Leave(p)
  /\ UNCHANGED mishaps

\* A crash, a signal, or a database error that ends the start.
StartFails(p) ==
  /\ stage[p] \notin {"down", "serving"}
  /\ mishaps < Mishaps
  /\ mishaps' = mishaps + 1
  /\ Leave(p)

\* The server is stopped, or its process dies.
Stop(p) ==
  /\ stage[p] = "serving"
  /\ Leave(p)
  /\ UNCHANGED mishaps

\* A ranger can work through a process that serves.
RangerAtWork == "ranger" \in accounts /\ \E p \in Processes : stage[p] = "serving"

\* A ranger registers the leader under the email of the seed.
RangerRegistersLeader ==
  /\ RangerAtWork
  /\ InsertAccount("leader")
  /\ UNCHANGED <<schemaVars, trails, windows, deployed, processVars, boundVars>>

\* A ranger lays out a trail with the code of one of the seed.
RangerCreatesTrail(t) ==
  /\ RangerAtWork
  /\ t \notin trails
  /\ trails' = trails \cup {t}
  /\ UNCHANGED <<schemaVars, accounts, windows, deployed, processVars, boundVars>>

-----------------------------------------------------------------------------
\* What a start does by itself.
Boot(p) ==
  \/ ReadApplied(p) \/ Migrate(p) \/ Migrated(p)
  \/ BeginSeed(p) \/ ProvisionRanger(p) \/ ProvisionLeader(p)
  \/ SeedTrail(p) \/ SeedWindow(p) \/ Seeded(p)
  \/ Serve(p) \/ StartRefused(p)

Next ==
  \/ \E p \in Processes : StartProcess(p) \/ Boot(p) \/ StartFails(p) \/ Stop(p)
  \/ \E r \in Releases : Deploy(r)
  \/ RangerRegistersLeader
  \/ \E t \in SeedTrails : RangerCreatesTrail(t)

Spec == Init /\ [][Next]_vars

\* The service manager starts processes again, and a start gets on.
FairSpec ==
  Spec /\ \A p \in Processes : WF_vars(StartProcess(p)) /\ WF_vars(Boot(p))

-----------------------------------------------------------------------------
(* Properties.                                                             *)

\* The SQL of a migration is committed exactly as often as it is recorded: once, by
\* whatever process, however many starts read old records or broke off.
AppliedOnce ==
  \A v \in Versions : executed[v] = IF Recorded(applied, v) THEN 1 ELSE 0

\* A process that serves finds every migration of its release in the database, with
\* the content it was built with, whatever was deployed or brought back meanwhile.
ServesOwnSchema ==
  \A p \in Processes : stage[p] = "serving" =>
    \A v \in DOMAIN release[p] : applied[v] = release[p][v]

\* Two starts never seed together: the ranger is the lock of the seed.
OneSeeder ==
  \A p, q \in Processes : stage[p] \in Seeding /\ stage[q] \in Seeding => p = q

\* The deployed release disagrees with the database.
Drifted ==
  \E v \in DOMAIN deployed : applied[v] \notin {NotApplied, deployed[v]}

\* No broken start wedges the later ones: some process serves again and again, or
\* the deployed release has changed an applied migration.
ServesInTheEnd == []<>(Drifted \/ \E p \in Processes : stage[p] = "serving")

=============================================================================
