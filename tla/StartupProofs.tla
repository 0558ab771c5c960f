---------------------------- MODULE StartupProofs ----------------------------
(***************************************************************************)
(* Proofs about Startup, for any processes, releases, seed and bounds: each *)
(* migration runs once, a serving process finds its own schema, and the     *)
(* seed has one owner.                                                     *)
(***************************************************************************)
EXTENDS Startup, TLAPS

\* The types the proofs need.
SchemaTypes ==
  /\ applied \in Records
  /\ executed \in [Versions -> Nat]
  /\ deployed \in Releases
  /\ release \in [Processes -> Releases]
  /\ stage \in [Processes -> Stages]
  /\ known \in [Processes -> Records]
  /\ todo \in [Processes -> SUBSET (Versions \cup SeedTrails)]

\* What a process has read as applied is so for ever.
KnownStays ==
  \A p \in Processes : \A v \in Versions :
    Recorded(known[p], v) => known[p][v] = applied[v]

\* A process that migrates has dealt with every version that it has not still to do.
MigratedSoFar ==
  \A p \in Processes : stage[p] = "migrate" =>
    /\ todo[p] \subseteq DOMAIN release[p]
    /\ \A v \in DOMAIN release[p] \ todo[p] : applied[v] = release[p][v]

\* The steps after the migrations.
Later == {"seed", "ranger", "worker", "serving"} \cup Seeding
OwnSchema ==
  \A p \in Processes : stage[p] \in Later =>
    \A v \in DOMAIN release[p] : applied[v] = release[p][v]

\* Whoever seeds beyond the ranger has created the ranger.
SeederHasRanger ==
  \A p \in Processes : stage[p] \in Seeding => "ranger" \in accounts

SchemaInvariant ==
  SchemaTypes /\ KnownStays /\ MigratedSoFar /\ OwnSchema /\ AppliedOnce
SeedInvariant ==
  stage \in [Processes -> Stages] /\ SeederHasRanger /\ OneSeeder

-----------------------------------------------------------------------------
\* Every content of a release is the content of one of its versions, and none of
\* them says that nothing was applied.
LEMMA ReleaseContents ==
  ASSUME NEW r \in Releases, NEW v \in DOMAIN r
  PROVE  v \in Versions /\ r[v] \in Contents /\ r[v] # NotApplied
<1>1. v \in Versions BY DEF Versions
<1>2. r[v] \in Contents BY DEF Contents
<1>. QED BY <1>1, <1>2, StartupAssumption DEF StartupAssumption

\* In the empty file nothing is applied and nobody runs.
LEMMA SchemaInitially == Init => SchemaInvariant
<1>. SUFFICES ASSUME Init PROVE SchemaInvariant OBVIOUS
<1>1. applied \in Records BY DEF Init, Records
<1>2. SchemaTypes BY <1>1 DEF Init, SchemaTypes, Stages
<1>3. KnownStays BY DEF Init, KnownStays, Recorded
<1>4. MigratedSoFar /\ OwnSchema
  BY DEF Init, MigratedSoFar, OwnSchema, Later, Seeding
<1>5. AppliedOnce BY DEF Init, AppliedOnce, Recorded
<1>. QED BY <1>2, <1>3, <1>4, <1>5 DEF SchemaInvariant

\* A process that only goes from one of the later steps to another one, or ends.
LEMMA SchemaKept ==
  ASSUME SchemaInvariant, NEW p \in Processes, NEW next \in Stages,
         NEW rest \in SUBSET (Versions \cup SeedTrails),
         UNCHANGED <<schemaVars, known, release, deployed>>,
         stage' = [stage EXCEPT ![p] = next],
         todo' = [todo EXCEPT ![p] = rest],
         next \in Later => stage[p] \in Later,
         next # "migrate"
  PROVE  SchemaInvariant'
<1>1. SchemaTypes'
  BY DEF SchemaInvariant, SchemaTypes, schemaVars
<1>2. KnownStays' BY DEF SchemaInvariant, KnownStays, Recorded, schemaVars
<1>3. MigratedSoFar'
  BY DEF SchemaInvariant, SchemaTypes, MigratedSoFar, schemaVars
<1>4. OwnSchema'
  BY DEF SchemaInvariant, SchemaTypes, OwnSchema, schemaVars
<1>5. AppliedOnce' BY DEF SchemaInvariant, AppliedOnce, Recorded, schemaVars
<1>. QED BY <1>1, <1>2, <1>3, <1>4, <1>5 DEF SchemaInvariant

\* One migration: what was applied stays, and the version is dealt with.
LEMMA MigrateKeepsSchema ==
  ASSUME SchemaInvariant, NEW p \in Processes, Migrate(p)
  PROVE  SchemaInvariant'
<1>1. PICK v \in todo[p] : /\ SkipMigration(p, v) \/ ApplyMigration(p, v)
                           /\ Go(p, "migrate", todo[p] \ {v})
  BY DEF Migrate
<1>. USE DEF SchemaInvariant, SchemaTypes
<1>2. stage' = [stage EXCEPT ![p] = "migrate"] /\ todo' = [todo EXCEPT ![p] = @ \ {v}]
      /\ UNCHANGED <<release, known, deployed>> /\ stage[p] = "migrate"
  BY <1>1 DEF Go, Goto, Migrate
<1>3. CASE SkipMigration(p, v)
  <2>1. UNCHANGED <<applied, executed>> BY <1>3 DEF SkipMigration, schemaVars
  <2>2. SchemaTypes' BY <1>2, <2>1 DEF Stages
  <2>3. KnownStays' BY <1>2, <2>1 DEF KnownStays, Recorded
  <2>4. v \in DOMAIN release[p] => applied[v] = release[p][v]
    BY <1>3, ReleaseContents DEF SkipMigration, KnownStays, Recorded
  <2>5. MigratedSoFar' BY <1>2, <2>1, <2>4 DEF MigratedSoFar
  <2>6. OwnSchema' BY <1>2, <2>1 DEF OwnSchema, Later, Seeding
  <2>7. AppliedOnce' BY <2>1 DEF AppliedOnce, Recorded
  <2>. QED BY <2>2, <2>3, <2>5, <2>6, <2>7
<1>4. CASE ApplyMigration(p, v)
  <2>1. /\ applied[v] = NotApplied
        /\ applied' = [applied EXCEPT ![v] = release[p][v]]
        /\ executed' = [executed EXCEPT ![v] = @ + 1]
    BY <1>4 DEF ApplyMigration, Recorded
  <2>2. v \in Versions /\ release[p][v] \in Contents /\ release[p][v] # NotApplied
    BY <1>2, ReleaseContents DEF MigratedSoFar
  <2>3. SchemaTypes' BY <1>2, <2>1, <2>2 DEF Stages, Records
  <2>4. \A u \in Versions : applied[u] # NotApplied => applied'[u] = applied[u]
    BY <2>1 DEF Records
  <2>5. KnownStays' BY <1>2, <2>4 DEF KnownStays, Recorded
  <2>6. \A q \in Processes : \A u \in DOMAIN release[q] :
          applied[u] = release[q][u] => applied'[u] = release[q][u]
    BY <2>4, ReleaseContents
  <2>7. applied'[v] = release[p][v] BY <2>1, <2>2 DEF Records
  <2>8. MigratedSoFar' BY <1>2, <2>6, <2>7 DEF MigratedSoFar
  <2>9. OwnSchema' BY <1>2, <2>6 DEF OwnSchema, Later, Seeding
  <2>10. AppliedOnce' BY <2>1, <2>2 DEF AppliedOnce, Recorded, Records
  <2>. QED BY <2>3, <2>5, <2>8, <2>9, <2>10
<1>. QED BY <1>1, <1>3, <1>4

\* The start of a process, and the one read of the records.
LEMMA StartKeepsSchema ==
  ASSUME SchemaInvariant, NEW p \in Processes, StartProcess(p) \/ ReadApplied(p)
  PROVE  SchemaInvariant'
<1>. USE DEF SchemaInvariant, SchemaTypes
<1>1. CASE StartProcess(p)
  <2>1. /\ release' = [release EXCEPT ![p] = deployed]
        /\ stage' = [stage EXCEPT ![p] = "read"]
        /\ UNCHANGED <<applied, executed, deployed, known, todo>>
    BY <1>1 DEF StartProcess, Goto, schemaVars
  <2>2. SchemaTypes' BY <2>1 DEF Stages
  <2>3. KnownStays' BY <2>1 DEF KnownStays, Recorded
  <2>4. MigratedSoFar' BY <2>1 DEF MigratedSoFar
  <2>5. OwnSchema' BY <2>1 DEF OwnSchema, Later, Seeding
  <2>6. AppliedOnce' BY <2>1 DEF AppliedOnce, Recorded
  <2>. QED BY <2>2, <2>3, <2>4, <2>5, <2>6
<1>2. CASE ReadApplied(p)
  <2>1. /\ known' = [known EXCEPT ![p] = applied]
        /\ todo' = [todo EXCEPT ![p] = DOMAIN release[p]]
        /\ stage' = [stage EXCEPT ![p] = "migrate"]
        /\ UNCHANGED <<applied, executed, deployed, release>>
    BY <1>2 DEF ReadApplied, Goto, schemaVars
  <2>2. DOMAIN release[p] \subseteq Versions BY ReleaseContents
  <2>3. SchemaTypes' BY <2>1, <2>2 DEF Stages
  <2>4. KnownStays' BY <2>1 DEF KnownStays, Recorded
  <2>5. MigratedSoFar' BY <2>1 DEF MigratedSoFar
  <2>6. OwnSchema' BY <2>1 DEF OwnSchema, Later, Seeding
  <2>7. AppliedOnce' BY <2>1 DEF AppliedOnce, Recorded
  <2>. QED BY <2>3, <2>4, <2>5, <2>6, <2>7
<1>. QED BY <1>1, <1>2

\* Migrations end when nothing is left to do.
LEMMA MigratedKeepsSchema ==
  ASSUME SchemaInvariant, NEW p \in Processes, Migrated(p)
  PROVE  SchemaInvariant'
<1>. USE DEF SchemaInvariant, SchemaTypes
<1>1. /\ stage[p] = "migrate" /\ todo[p] = {}
      /\ stage' = [stage EXCEPT ![p] = "seed"]
      /\ todo' = [todo EXCEPT ![p] = {}]
      /\ UNCHANGED <<applied, executed, release, known, deployed>>
  BY DEF Migrated, Go, Goto, schemaVars
<1>2. SchemaTypes' BY <1>1 DEF Stages
<1>3. KnownStays' BY <1>1 DEF KnownStays, Recorded
<1>4. MigratedSoFar' BY <1>1 DEF MigratedSoFar
<1>5. OwnSchema' BY <1>1 DEF OwnSchema, MigratedSoFar, Later, Seeding
<1>6. AppliedOnce' BY <1>1 DEF AppliedOnce, Recorded
<1>. QED BY <1>2, <1>3, <1>4, <1>5, <1>6

\* The seed and the end of a process move between later steps.
LEMMA SeedKeepsSchema ==
  ASSUME SchemaInvariant, NEW p \in Processes,
         \/ BeginSeed(p) \/ ProvisionRanger(p) \/ ProvisionLeader(p)
         \/ SeedTrail(p) \/ SeedWindow(p) \/ Seeded(p) \/ Serve(p)
         \/ StartRefused(p) \/ StartFails(p) \/ Stop(p)
  PROVE  SchemaInvariant'
<1>. DEFINE Rests == SUBSET (Versions \cup SeedTrails)
<1>. DEFINE Moves(next, rest) ==
       /\ UNCHANGED <<schemaVars, known, release, deployed>>
       /\ stage' = [stage EXCEPT ![p] = next]
       /\ todo' = [todo EXCEPT ![p] = rest]
       /\ next \in Later => stage[p] \in Later
<1>. USE DEF Go, Goto, Leave, Later, Seeding
<1>1. todo[p] \in Rests BY DEF SchemaInvariant, SchemaTypes
<1>2. \A t : todo[p] \ {t} \in Rests BY <1>1
<1>3. CASE BeginSeed(p)
  <2>1. Moves("worker", {}) \/ Moves("ranger", {}) BY <1>3 DEF BeginSeed
  <2>. QED BY <2>1, SchemaKept DEF Stages
<1>4. CASE ProvisionRanger(p)
  <2>1. Moves("leader", {}) BY <1>4 DEF ProvisionRanger
  <2>. QED BY <2>1, SchemaKept DEF Stages
<1>5. CASE ProvisionLeader(p)
  <2>1. Moves("trail", SeedTrails) BY <1>5 DEF ProvisionLeader
  <2>. QED BY <2>1, SchemaKept DEF Stages
<1>6. CASE SeedTrail(p)
  <2>1. \E t : Moves("trail", todo[p] \ {t}) \/ Moves("window", todo[p])
    BY <1>6 DEF SeedTrail
  <2>. QED BY <1>1, <1>2, <2>1, SchemaKept DEF Stages
<1>7. CASE SeedWindow(p)
  <2>1. \E t : Moves("trail", todo[p] \ {t}) \/ Moves("window", todo[p])
    BY <1>7 DEF SeedWindow
  <2>. QED BY <1>1, <1>2, <2>1, SchemaKept DEF Stages
<1>8. CASE Seeded(p)
  <2>1. Moves("worker", {}) BY <1>8 DEF Seeded
  <2>. QED BY <2>1, SchemaKept DEF Stages
<1>9. CASE Serve(p)
  <2>1. Moves("serving", {}) BY <1>9 DEF Serve
  <2>. QED BY <2>1, SchemaKept DEF Stages
<1>10. CASE StartRefused(p) \/ StartFails(p) \/ Stop(p)
  <2>1. Moves("down", {}) BY <1>10 DEF StartRefused, StartFails, Stop
  <2>. QED BY <2>1, SchemaKept DEF Stages
<1>. QED BY <1>3, <1>4, <1>5, <1>6, <1>7, <1>8, <1>9, <1>10

\* Deployments, trails of rangers, and steps that change nothing.
LEMMA OthersKeepSchema ==
  ASSUME SchemaInvariant,
         \/ \E r \in Releases : Deploy(r)
         \/ RangerRegistersLeader
         \/ \E t \in SeedTrails : RangerCreatesTrail(t)
         \/ UNCHANGED vars
  PROVE  SchemaInvariant'
<1>1. UNCHANGED <<schemaVars, processVars>> /\ deployed' \in Releases
  BY DEF Deploy, RangerRegistersLeader, RangerCreatesTrail, vars, SchemaInvariant, SchemaTypes
<1>2. UNCHANGED <<applied, executed, release, stage, known, todo>>
  BY <1>1 DEF schemaVars, processVars
<1>. QED
  BY <1>1, <1>2 DEF SchemaInvariant, SchemaTypes, KnownStays, MigratedSoFar, OwnSchema,
                    AppliedOnce, Recorded

\* Starts race, break off and change their release: what the processes read and
\* applied remains true.
THEOREM SchemaInvariantHolds == Spec => []SchemaInvariant
<1>1. SchemaInvariant /\ [Next]_vars => SchemaInvariant'
  BY StartKeepsSchema, MigrateKeepsSchema, MigratedKeepsSchema, SeedKeepsSchema,
     OthersKeepSchema DEF Next, Boot
<1>. QED BY <1>1, SchemaInitially, PTL DEF Spec

\* A migration is committed once, with its record (sqlite/migrate.go:83).
THEOREM MigrationsApplyOnce == Spec => []AppliedOnce
<1>1. SchemaInvariant => AppliedOnce BY DEF SchemaInvariant
<1>. QED BY <1>1, SchemaInvariantHolds, PTL

\* A process that serves has the schema it was built with.
THEOREM ServingProcessOwnsSchema == Spec => []ServesOwnSchema
<1>1. SchemaInvariant => ServesOwnSchema
  BY DEF SchemaInvariant, OwnSchema, Later, ServesOwnSchema
<1>. QED BY <1>1, SchemaInvariantHolds, PTL

-----------------------------------------------------------------------------
\* What a step can do to the owner of the seed: take it over with the ranger, keep
\* it, or leave it.
SeedStep(p) ==
  /\ accounts \subseteq accounts'
  /\ \E next \in Stages :
       /\ stage' = [stage EXCEPT ![p] = next]
       /\ next \in Seeding =>
            \/ stage[p] \in Seeding
            \/ "ranger" \notin accounts /\ "ranger" \in accounts'

\* Such a step keeps the seed with one owner.
LEMMA SeedStepKeepsOwner ==
  ASSUME SeedInvariant, NEW p \in Processes, SeedStep(p)
  PROVE  SeedInvariant'
<1>. USE DEF SeedInvariant
<1>1. PICK next \in Stages :
        /\ stage' = [stage EXCEPT ![p] = next]
        /\ next \in Seeding =>
             \/ stage[p] \in Seeding
             \/ "ranger" \notin accounts /\ "ranger" \in accounts'
  BY DEF SeedStep
<1>2. accounts \subseteq accounts' BY DEF SeedStep
<1>3. stage' \in [Processes -> Stages] BY <1>1
<1>4. SeederHasRanger' BY <1>1, <1>2 DEF SeederHasRanger
<1>5. OneSeeder'
  <2>. SUFFICES ASSUME NEW q1 \in Processes, NEW q2 \in Processes,
                       stage'[q1] \in Seeding, stage'[q2] \in Seeding
                PROVE  q1 = q2
    BY DEF OneSeeder
  <2>1. CASE q1 # p /\ q2 # p BY <1>1, <2>1 DEF OneSeeder
  <2>2. CASE q1 = p \/ q2 = p
    BY <1>1, <2>2 DEF OneSeeder, SeederHasRanger
  <2>. QED BY <2>1, <2>2
<1>. QED BY <1>3, <1>4, <1>5

\* Whoever seeds has created the ranger, and nobody else seeds with it.
THEOREM SeedInvariantHolds == Spec => []SeedInvariant
<1>1. Init => SeedInvariant
  BY DEF Init, SeedInvariant, SeederHasRanger, OneSeeder, Seeding, Stages
<1>2. SeedInvariant /\ [Next]_vars => SeedInvariant'
  <2>. SUFFICES ASSUME SeedInvariant, [Next]_vars PROVE SeedInvariant' OBVIOUS
  <2>. USE DEF Go, Goto, Leave, seedVars, Seeding, Stages
  <2>1. ASSUME NEW p \in Processes, StartProcess(p) \/ Boot(p) \/ StartFails(p) \/ Stop(p)
        PROVE  SeedStep(p)
    <3>1. CASE StartProcess(p) BY <3>1 DEF StartProcess, SeedStep
    <3>2. CASE ReadApplied(p) BY <3>2 DEF ReadApplied, SeedStep
    <3>3. CASE Migrate(p) BY <3>3 DEF Migrate, SeedStep
    <3>4. CASE Migrated(p) BY <3>4 DEF Migrated, SeedStep
    <3>5. CASE BeginSeed(p)
      <4>1. \/ stage' = [stage EXCEPT ![p] = "worker"]
            \/ stage' = [stage EXCEPT ![p] = "ranger"]
        BY <3>5 DEF BeginSeed
      <4>2. accounts' = accounts BY <3>5 DEF BeginSeed
      <4>. QED BY <4>1, <4>2 DEF SeedStep
    <3>6. CASE ProvisionRanger(p)
      BY <3>6 DEF ProvisionRanger, InsertAccount, RoleOf, SeedStep
    <3>7. CASE ProvisionLeader(p)
      BY <3>7 DEF ProvisionLeader, InsertAccount, SeedStep
    <3>8. CASE SeedTrail(p) BY <3>8 DEF SeedTrail, SeedStep
    <3>9. CASE SeedWindow(p) BY <3>9 DEF SeedWindow, SeedStep
    <3>10. CASE Seeded(p) BY <3>10 DEF Seeded, SeedStep
    <3>11. CASE Serve(p) BY <3>11 DEF Serve, SeedStep
    <3>12. CASE StartRefused(p) \/ StartFails(p) \/ Stop(p)
      BY <3>12 DEF StartRefused, StartFails, Stop, SeedStep
    <3>. QED BY <2>1, <3>1, <3>2, <3>3, <3>4, <3>5, <3>6, <3>7, <3>8, <3>9, <3>10, <3>11,
                <3>12 DEF Boot
  <2>2. CASE \/ \E r \in Releases : Deploy(r)
             \/ RangerRegistersLeader
             \/ \E t \in SeedTrails : RangerCreatesTrail(t)
             \/ UNCHANGED vars
    <3>1. UNCHANGED stage /\ accounts \subseteq accounts'
      BY <2>2 DEF Deploy, RangerRegistersLeader, InsertAccount, RangerCreatesTrail, vars,
                  processVars
    <3>. QED BY <3>1 DEF SeedInvariant, SeederHasRanger, OneSeeder
  <2>. QED BY <2>1, <2>2, SeedStepKeepsOwner DEF Next
<1>. QED BY <1>1, <1>2, PTL DEF Spec

\* Two processes never seed together, however starts race and break off: the unique
\* index of the ranger's account decides who does (bootstrap/seed.go:50).
THEOREM SeedHasOneOwner == Spec => []OneSeeder
<1>1. SeedInvariant => OneSeeder BY DEF SeedInvariant
<1>. QED BY <1>1, SeedInvariantHolds, PTL

-----------------------------------------------------------------------------
\* The types of what the seed writes, and of the counters.
SeedTypes ==
  /\ accounts \subseteq Roles
  /\ trails \subseteq SeedTrails
  /\ windows \in [SeedTrails -> 0..Days]
  /\ deploys \in 0..Deploys
  /\ mishaps \in 0..Mishaps

\* A trail without a row has no windows, and one that gets its windows has a row and
\* is short of a day: that is why no trail is given more days than the seed has.
WindowsInProgress ==
  /\ \A t \in SeedTrails : t \notin trails => windows[t] = 0
  /\ \A p \in Processes : stage[p] \in {"trail", "window"} => todo[p] \subseteq SeedTrails
  /\ \A p \in Processes : stage[p] = "window" =>
       \E t \in todo[p] : NextOf(todo[p], t) /\ t \in trails /\ windows[t] < Days

WindowInvariant == SeedTypes /\ WindowsInProgress

\* A step that leaves trails and windows alone and brings nobody to the windows.
LEMMA WindowsKept ==
  ASSUME SchemaInvariant, WindowInvariant, NEW p \in Processes, NEW next \in Stages, NEW rest,
         stage' = [stage EXCEPT ![p] = next], todo' = [todo EXCEPT ![p] = rest],
         UNCHANGED <<trails, windows>>,
         accounts' \subseteq Roles, deploys' \in 0..Deploys, mishaps' \in 0..Mishaps,
         next # "window", next = "trail" => rest \subseteq SeedTrails
  PROVE  WindowInvariant'
<1>. USE DEF SchemaInvariant, SchemaTypes, WindowInvariant
<1>1. SeedTypes' BY DEF SeedTypes
<1>2. WindowsInProgress' BY DEF WindowsInProgress, NextOf
<1>. QED BY <1>1, <1>2

\* The trails and windows of the seed: there is one process that adds windows.
LEMMA SeedingKeepsWindows ==
  ASSUME SchemaInvariant, SeedInvariant, WindowInvariant, NEW p \in Processes,
         SeedTrail(p) \/ SeedWindow(p)
  PROVE  WindowInvariant'
<1>. USE DEF SchemaInvariant, SchemaTypes, SeedInvariant, WindowInvariant, Go, Goto, boundVars
<1>1. stage[p] \in {"trail", "window"} /\ todo[p] \subseteq SeedTrails
  BY DEF SeedTrail, SeedWindow, WindowsInProgress
<1>2. \A q \in Processes \ {p} : stage[q] # "window"
  BY <1>1 DEF OneSeeder, Seeding
<1>3. \A t, u \in SeedTrails : NextOf(todo[p], t) /\ NextOf(todo[p], u) => t = u
  BY <1>1, StartupAssumption DEF NextOf
<1>4. CASE SeedTrail(p)
  <2>1. PICK t \in todo[p] :
          /\ NextOf(todo[p], t)
          /\ IF t \in trails
               THEN Go(p, "trail", todo[p] \ {t}) /\ UNCHANGED trails
               ELSE Go(p, "window", todo[p]) /\ trails' = trails \cup {t}
    BY <1>4 DEF SeedTrail
  <2>2. UNCHANGED <<accounts, windows, deploys, mishaps>> BY <1>4, <2>1 DEF SeedTrail
  <2>3. CASE t \in trails
    <3>1. stage' = [stage EXCEPT ![p] = "trail"] /\ todo' = [todo EXCEPT ![p] = @ \ {t}]
      BY <2>1, <2>3
    <3>2. "trail" \in Stages /\ todo[p] \ {t} \subseteq SeedTrails
      BY <1>1 DEF Stages, Seeding
    <3>3. trails' = trails BY <2>1, <2>3
    <3>. QED BY <2>2, <3>1, <3>2, <3>3, WindowsKept DEF SeedTypes
  <2>4. CASE t \notin trails
    <3>1. SeedTypes' BY <1>1, <2>1, <2>2, <2>4 DEF SeedTypes
    <3>2. windows[t] = 0 /\ 0 < Days
      <4>1. t \in SeedTrails BY <1>1
      <4>2. windows[t] = 0 BY <2>4, <4>1 DEF WindowsInProgress
      <4>. QED BY <4>2, StartupAssumption
    <3>3. WindowsInProgress'
      BY <1>1, <1>2, <2>1, <2>2, <2>4, <3>2 DEF WindowsInProgress, NextOf
    <3>. QED BY <3>1, <3>3
  <2>. QED BY <2>3, <2>4
<1>5. CASE SeedWindow(p)
  <2>1. PICK t \in todo[p] :
          /\ NextOf(todo[p], t)
          /\ windows' = [windows EXCEPT ![t] = @ + 1]
          /\ IF windows[t] + 1 < Days THEN Go(p, "window", todo[p])
                                      ELSE Go(p, "trail", todo[p] \ {t})
    BY <1>5 DEF SeedWindow
  <2>2. UNCHANGED <<accounts, trails, deploys, mishaps>> BY <1>5, <2>1 DEF SeedWindow
  <2>3. t \in trails /\ windows[t] < Days /\ t \in SeedTrails
    BY <1>1, <1>3, <1>5, <2>1 DEF SeedWindow, WindowsInProgress
  <2>4. windows[t] \in Nat /\ Days \in Nat
    BY <2>3, StartupAssumption DEF SeedTypes
  <2>5. SeedTypes' BY <2>1, <2>2, <2>3, <2>4 DEF SeedTypes
  <2>6. \A u \in SeedTrails : u \notin trails => windows'[u] = 0
    BY <2>1, <2>3 DEF SeedTypes, WindowsInProgress
  <2>7. CASE windows[t] + 1 < Days
    <3>1. windows'[t] < Days BY <2>1, <2>3, <2>4, <2>7 DEF SeedTypes
    <3>. QED
      BY <1>1, <1>2, <2>1, <2>2, <2>3, <2>5, <2>6, <2>7, <3>1 DEF WindowsInProgress, NextOf
  <2>8. CASE ~(windows[t] + 1 < Days)
    BY <1>1, <1>2, <2>1, <2>2, <2>5, <2>6, <2>8 DEF WindowsInProgress
  <2>. QED BY <2>7, <2>8
<1>. QED BY <1>4, <1>5

\* The other steps of a process.
LEMMA ProcessKeepsWindows ==
  ASSUME SchemaInvariant, WindowInvariant, NEW p \in Processes,
         \/ StartProcess(p) \/ ReadApplied(p) \/ Migrate(p) \/ Migrated(p) \/ BeginSeed(p)
         \/ ProvisionRanger(p) \/ ProvisionLeader(p) \/ Seeded(p) \/ Serve(p)
         \/ StartRefused(p) \/ StartFails(p) \/ Stop(p)
  PROVE  WindowInvariant'
<1>. DEFINE Moves(next, rest) ==
       /\ stage' = [stage EXCEPT ![p] = next]
       /\ todo' = [todo EXCEPT ![p] = rest]
<1>1. UNCHANGED <<trails, windows>>
  BY DEF StartProcess, ReadApplied, Migrate, Migrated, BeginSeed, ProvisionRanger,
         ProvisionLeader, Seeded, Serve, StartRefused, StartFails, Stop, Leave, seedVars
<1>2. accounts' \subseteq Roles
  BY DEF StartProcess, ReadApplied, Migrate, Migrated, BeginSeed, ProvisionRanger,
         ProvisionLeader, Seeded, Serve, StartRefused, StartFails, Stop, Leave, seedVars,
         InsertAccount, RoleOf, Roles, WindowInvariant, SeedTypes
<1>3. deploys' \in 0..Deploys /\ mishaps' \in 0..Mishaps
  BY StartupAssumption
     DEF StartProcess, ReadApplied, Migrate, Migrated, BeginSeed, ProvisionRanger,
         ProvisionLeader, Seeded, Serve, StartRefused, StartFails, Stop, Leave, Go,
         boundVars, WindowInvariant, SeedTypes
<1>4. CASE StartProcess(p)
  <2>1. Moves("read", todo[p])
    BY <1>4 DEF StartProcess, Goto, SchemaInvariant, SchemaTypes
  <2>. QED BY <1>1, <1>2, <1>3, <2>1, WindowsKept DEF Stages
<1>5. CASE ReadApplied(p)
  <2>1. Moves("migrate", DOMAIN release[p]) BY <1>5 DEF ReadApplied, Goto
  <2>. QED BY <1>1, <1>2, <1>3, <2>1, WindowsKept DEF Stages
<1>6. CASE Migrate(p)
  <2>1. \E v : Moves("migrate", todo[p] \ {v}) BY <1>6 DEF Migrate, Go, Goto
  <2>. QED BY <1>1, <1>2, <1>3, <2>1, WindowsKept DEF Stages
<1>7. CASE Migrated(p) \/ BeginSeed(p) \/ ProvisionRanger(p) \/ Seeded(p) \/ Serve(p)
  <2>1. \E next \in {"seed", "worker", "ranger", "leader", "serving"} : Moves(next, {})
    BY <1>7 DEF Migrated, BeginSeed, ProvisionRanger, Seeded, Serve, Go, Goto
  <2>2. PICK next \in {"seed", "worker", "ranger", "leader", "serving"} : Moves(next, {})
    BY <2>1
  <2>3. next \in Stages /\ next # "window" /\ next # "trail" BY DEF Stages, Seeding
  <2>. QED BY <1>1, <1>2, <1>3, <2>2, <2>3, WindowsKept
<1>8. CASE ProvisionLeader(p)
  <2>1. Moves("trail", SeedTrails) BY <1>8 DEF ProvisionLeader, Go, Goto
  <2>. QED BY <1>1, <1>2, <1>3, <2>1, WindowsKept DEF Stages, Seeding
<1>9. CASE StartRefused(p) \/ StartFails(p) \/ Stop(p)
  <2>1. Moves("down", {}) BY <1>9 DEF StartRefused, StartFails, Stop, Leave, Goto
  <2>. QED BY <1>1, <1>2, <1>3, <2>1, WindowsKept DEF Stages
<1>. QED BY <1>4, <1>5, <1>6, <1>7, <1>8, <1>9

\* The rows and the processes always have their types: above all, no trail of the seed
\* gets more windows than the seed has days, and migrations that a process has still to
\* run are migrations of its own release.
THEOREM StartupTypeCorrect == Spec => []TypeOK
<1>1. Init => WindowInvariant
  BY StartupAssumption DEF Init, WindowInvariant, SeedTypes, WindowsInProgress
<1>2. ASSUME SchemaInvariant, SeedInvariant, WindowInvariant, [Next]_vars
      PROVE  WindowInvariant'
  <2>1. ASSUME NEW p \in Processes, StartProcess(p) \/ Boot(p) \/ StartFails(p) \/ Stop(p)
        PROVE  WindowInvariant'
    BY <1>2, <2>1, SeedingKeepsWindows, ProcessKeepsWindows DEF Boot
  <2>2. CASE \/ \E r \in Releases : Deploy(r)
             \/ RangerRegistersLeader
             \/ \E t \in SeedTrails : RangerCreatesTrail(t)
             \/ UNCHANGED vars
    <3>1. UNCHANGED <<stage, todo, windows, mishaps>>
      BY <2>2 DEF Deploy, RangerRegistersLeader, RangerCreatesTrail, vars, processVars,
                  seedVars, boundVars
    <3>2. /\ accounts' \subseteq Roles /\ deploys' \in 0..Deploys
          /\ trails \subseteq trails' /\ trails' \subseteq SeedTrails
      <4>1. CASE \E r \in Releases : Deploy(r)
        BY <1>2, <4>1, StartupAssumption DEF Deploy, seedVars, WindowInvariant, SeedTypes
      <4>2. CASE RangerRegistersLeader \/ \E t \in SeedTrails : RangerCreatesTrail(t)
        BY <1>2, <4>2 DEF RangerRegistersLeader, RangerCreatesTrail, InsertAccount, Roles,
                          boundVars, WindowInvariant, SeedTypes
      <4>3. CASE UNCHANGED vars
        BY <1>2, <4>3 DEF vars, seedVars, boundVars, WindowInvariant, SeedTypes
      <4>. QED BY <2>2, <4>1, <4>2, <4>3
    <3>. QED
      BY <1>2, <3>1, <3>2 DEF WindowInvariant, SeedTypes, WindowsInProgress, NextOf
  <2>. QED BY <1>2, <2>1, <2>2 DEF Next
<1>3. SchemaInvariant /\ WindowInvariant => TypeOK
  BY DEF SchemaInvariant, SchemaTypes, MigratedSoFar, WindowInvariant, SeedTypes,
         WindowsInProgress, TypeOK
<1>. QED BY <1>1, <1>2, <1>3, SchemaInvariantHolds, SeedInvariantHolds, PTL DEF Spec

=============================================================================
