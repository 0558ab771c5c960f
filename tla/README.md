# Trail permit dispatch: specification and proofs

This directory holds TLA+ models of the trail permit platform in `src/`, the TLC
configurations that check them on small instances, and theorems about them that
the TLA+ proof system (TLAPS) checks for every value of the constants.

The platform is one Go process on one SQLite database. Rangers publish trails and
daily permit windows with a quota. Leaders plan parties, register members, request
a permit (which reserves seats and creates a fee), are approved and dispatched,
report checkpoints, and complete, cancel or abort. Incidents are opened, escalated
and closed; a background queue settles fees, sends notices and runs the recurring
sweeps.

## 1. Inventory

Every row carries a `version`; an update is `UPDATE ... WHERE id = ? AND version = ?`
and a change of no row is a `version_conflict`. The services read outside a
transaction, decide, then run **one** `BEGIN IMMEDIATE` transaction
(`storage/sqlite/db.go`). Whatever happens between the read and the transaction is
where this code can go wrong.

| Component | State | Operations | What must hold |
|---|---|---|---|
| Party lifecycle `service/dispatch` | `parties`, `party_members`, `checkpoint_reports` | CreateParty, RegisterMembers, RequestPermit, Approve, Dispatch, Report, Complete, Cancel, AbortParty, SweepOverdueCheckpoints | moves only along the state machine; side effects exactly once; reports only on the trail and in order |
| Permit windows `sqliterepo/permit.go` | `permit_windows`: quota, reserved, closed, version | Create, ReserveSeats, ReleaseSeats, Close | no overbooking, no seat lost or freed twice, a release never refused |
| Settlement `service/settlement` | `settlements` | created with the reservation; SettleForParty, Waive, MarkFailed | charged only after completion, never charged over a waiver |
| Idempotency `idempotency/manager.go` | `idempotency_records` | Lookup, Remember, expiry (Purge has no caller) | a key stands for one committed effect |
| Background queue `worker`, `sqliterepo/platform.go` | `jobs`: state, attempts, run_at, locked_until | Enqueue, ReclaimExpiredLeases, ClaimDue, MarkDone, MarkFailure, the failure hook | every job finishes; a finished job stays finished; what it did is final |
| Trail catalogue `service/catalog` | `trails`, `checkpoints` | CreateTrail, SetTrailStatus, AddCheckpoint, OpenWindow, CloseWindow | checkpoints increasing, a finish exists; a closed window only drains |
| Incidents `service/incident` | `incidents` | Open, OpenOverdue, Escalate, Resolve, Close | legal transitions, bounded escalation, a critical incident takes its party off the trail |
| Sweep and recurring jobs `progress.go`, `handlers.go` | jobs, incidents | SweepOverdueCheckpoints, EnsureRecurring, reschedule | every overdue party is noticed; a chain of recurring jobs neither dies nor doubles |
| Sessions `service/auth` | `sessions`, `accounts` | Login, Authenticate, Logout, RevokeAll, ExpireSessions | a revoked or expired session authenticates nobody |
| Audit trail | `audit_logs`, append-only | Record | no behaviour depends on it |
| Start of the process `cmd/server`, `bootstrap`, `sqlite/migrate.go` | `schema_migrations`, the first accounts, trails and windows | Migrate, Seed, StartWorker, Serve, Ready | a serving process has its own schema; a broken start wedges nothing |
| HTTP, configuration, errors, logging, credentials | none of their own | routing, wiring | no state to model |

How they interact: the HTTP layer runs any number of calls at once. Dispatch calls
the window, settlement, job and idempotency repositories **inside** its
transaction. The workers call the services from job handlers, at least once per
job. The incident service calls `AbortParty` of the dispatch service in a second
transaction; the sweep of the dispatch service calls the incident service back. The runner calls a hook of the settlement service after it parked a
job.

The hard behaviours are: interleaved calls on stale snapshots (windows, parties,
fees); several writes of one transaction of which a later one is refused; a
repeated or expired idempotency key; leases that run out under a live worker,
crashes and stops with leases held; recording an outcome without comparing the
owner of the lease; steps in two transactions (register members one by one,
incident and abort, park and hook, the accounts and trails of the seed). `PROJECT.json` lists each one at its line, with
the properties that would notice it.

## 2. What is modelled

| Module | What it is |
|---|---|
| `SeatLedger` | abstract: what permit windows promise to the leaders, with no counter, version or transaction |
| `PermitDispatch` | parties, members, reports, windows, fees, queued jobs, keys, trail status, deadlines, and the calls in flight |
| `JobQueue` | the jobs table, the workers, the `settle_party` handler with its fee, the process |
| `IncidentResponse` | incidents, their escalation jobs and the abort of the party |
| `TrailProgress` | checkpoints, reports, completion, and the overdue sweep, in time |
| `Sessions` | tokens: login, use, logout, revocation, expiry |
| `RecurringJobs` | the chain of a recurring job through failures, crashes and restarts |
| `SessionExpiry` | `Sessions` cleaned up by a job of `RecurringJobs` |
| `Startup` | migrations and seed of starting processes |
| `PermitDispatchProofs` | type correctness of `PermitDispatch` |
| `PermitSeatsProofs` | the inductive invariant of the seats and its consequences, and that `PermitDispatch` implements `SeatLedger` |
| `PermitEffectsProofs` | fees, queued jobs, readiness and keys of `PermitDispatch` |
| `JobQueueProofs` | all safety of `JobQueue`: types, done, final and finished, parking, one worker to a job |
| `IncidentResponseProofs` | all safety of `IncidentResponse`: rulings, one incident to a matter, chains of escalations |
| `TrailProgressProofs` | all safety of `TrailProgress`: what completed and stranded parties reported, alarms and classification |
| `SessionExpiryProofs` | all safety of `SessionExpiry`: sessions under racing requests, and the chain of the recurring job |
| `StartupProofs` | all safety of `Startup`: migrations run once, a serving process has its schema, the seed has one owner |
| `MC...` | constants and symmetry for TLC |

How the modules join: `PermitDispatch` counts the jobs it queues and `JobQueue` runs them
with their fee; `IncidentResponse` takes the moves of parties and `TrailProgress` the
incidents of the sweep in the form the other module shows them to have. Only
`SessionExpiry` is a composition by `EXTENDS`: joining the others would multiply their
states without a step that none of them has.

### PermitDispatch

*State.* A party row is `state`, `version`, `window` (`permit_window_id`); its
members are counted in `members`, those without a signed waiver in `unsigned`;
`reports` is the set of reported checkpoint numbers. A window row is `quota` (0: no
row yet), `reserved`, `wversion`, `closed`. A settlement row is `fee` and
`fversion`. `jobs` counts the rows ever queued per kind and party. `keys` maps an
idempotency key to the party of the stored response, `expired` holds the keys past
their expiry. `trail` is the status of each trail, `late` the windows whose
application deadline has passed.

*Calls.* A service call is an entry of `req`. A `Begin...` action is everything the
call does before its transaction: it copies what the code later compares or acts
upon (state, version, window, trail status, key, checkpoint) and is taken only when
the checks pass. The action that commits is the transaction: all its conditional
updates, in the order of the code, or nothing. `Fail` is every way to end without
effect - a refused update, an error, a crash, a client that went away. `RequestPermit`
has three stages because it may create the window in a transaction of its own
(`EnsureWindow`, then `ReadWindow`, then `ReservePermit`). `RegisterMembers` inserts
its items one transaction each: `RegisterOneMember` may repeat on one snapshot.

| Action | Code |
|---|---|
| `BeginCreateParty`, `CreateParty` | `dispatch.CreateParty` |
| `BeginRegisterMembers`, `RegisterOneMember` | `dispatch.RegisterMembers`, `registerOne`, `PartyRepo.AddMember` |
| `BeginRequestPermit`, `EnsureWindow`, `ReadWindow`, `ReservePermit` | `dispatch.RequestPermit`, `PermitRepo.EnsureWindow`, `PermitRepo.ReserveSeats`, `idempotency.Remember` |
| `BeginMove`, `Advance`, `CompleteParty`, `WithdrawParty` | Approve, Dispatch, Complete, Cancel, AbortParty with `ApplyStateChange`, `ReleasePermit`, `WaiveSettlement` |
| `BeginReport`, `ReportCheckpoint` | `dispatch.ReportCheckpoint` |
| `BeginFeeMove`, `UpdateFee` | `settlement.SettleForParty`, `Waive`, `MarkFailed` |
| `OpenWindow`, `CloseWindow`, `SetTrailStatus` | the catalogue service |
| `PassDeadline`, `ExpireKey` | time |

*Abstractions.* Several reads of one call are one snapshot. Moving a read earlier
or later changes nothing the code can notice: the rows that decide a transition are
compared by version when it commits, the version rows only grow, and reads whose
age matters (window version, trail status, the highest report) are kept in the
snapshot or are stages of their own. Names, notes, fee amounts, roles, audit rows and
the notices themselves are left out. Times appear only as events (a deadline
passes, a key expires). The checkpoints of a trail are fixed here; `TrailProgress`
adds them while parties walk. The stored response of a key is the party it names.

### JobQueue

*State.* A job row is `job` (its state), `attempts`, `due` (run_at reached) and
`lease` (ticks until `locked_until`). A party completes once
(`EffectsExactlyOnce` of `PermitDispatch`), so a job stands for its party and its
fee. A worker has a `phase`, the candidates it selected (`todo`), its claimed
`batch` with the attempts it read, what its handler read (`seen`), and the ticks
its handler has left (`budget`). `up`, `cancelled` are the process.

*Steps.* Each statement of the repository is an action of its own: `Poll`
(ReclaimExpiredLeases), `SelectDue` and one `Claim` per candidate (ClaimDue), `StartJob`,
`ReadFee`, `ChargeFee`, `ViewFee` (the handler and SettleForParty), `MarkDone`,
`MarkFailure`, `RunHook`. `HandlerFails` is any error of a handler; `PollFails` and
`BookkeepingFails` are statements that fail, among them the one that reads a row the
poll has just leased. `Stop`, `Exit`, `Crash`, `Start` are the
process. `Tick` is time: it passes while workers pause or run handlers, because
only there the code waits for it, and not beyond the timeout of a handler. `overlong`
remembers that some poll claimed more jobs than its lease covers (`Covered`: all their
timeouts end before it).

*Abstractions.* `locked_by` is written and never compared, so it is left out. The
order of `run_at` and `id` is any choice of due jobs. The backoff before a retry is
`BecomeDue`, some time later. Other handlers are in the modules below, on what this
one shows of the queue.

### IncidentResponse

*State.* A party row is `pstate`, `pversion`; an incident row is its party, its
*matter* (kind and checkpoint number), severity, state, escalation count and version;
a job row of kind `escalate_incident` is its incident, state and attempts. `req` holds
the calls in flight, `run` what each worker does.

| Action | Code |
|---|---|
| `BeginOpen`, `CreateIncident`, `BeginAbort`, `AbortParty` | `incident.Open`, `create`, then `dispatch.AbortParty` in a transaction of its own |
| `BeginOpenOverdue`, `LookUpOverdue`, `CreateIncident` | `incident.OpenOverdue`, called by the sweep |
| `BeginRuling`, `CommitRuling` | `Resolve`, `Close` |
| `ClaimJob`, `ReadIncident`, `HandOff`, `HandOffConflicts`, `HandlerFails` | the worker, `handleEscalateIncident` and `Escalate` |
| `MarkDone`, `MarkFailure`, `LoseWorker`, `ExpireLease` | the outcome of the job, a crash, a lease that ends |
| `MoveParty` | the moves of `PermitDispatch` that can get in between |

*Abstractions.* The delay of an escalation is left out: a queued job runs at any later
time. `ExpireLease` of a job nobody runs is free, that of a running one a mishap.

### TrailProgress

*State.* `checkpoints` of one trail (number, cutoff, mandatory), `pstate` of each party,
`reports` (numbers), `overdue` incidents, the clock `now`, the calls in flight and what
each sweep is doing: which parties it has still to look at, the time it took once for
all of them, the checkpoint it is about to report.

| Action | Code |
|---|---|
| `CreateTrail`, `BeginAddCheckpoint`, `AddCheckpoint` | the catalogue, with `validateCheckpoints` before the transaction and the unique number in it |
| `BeginReport`, `InsertReport` | `ReportCheckpoint`: the highest number and the status are decided outside the transaction |
| `BeginComplete`, `CompleteParty`, `AbortParty`, `DispatchParty` | the ends of a trip |
| `StartSweep`, `InspectParty`, `RaiseOverdue`, `SweepFails` | `SweepOverdueCheckpoints`, party by party, and `OpenOverdue` |
| `ResolveOverdue`, `Tick` | a ranger, time |

*Abstractions.* Ticks are a fraction of the second to which the code truncates stored
times: `Truncate` rounds down as the code does, and the sweep, which uses the clock as it
is, sees the fraction. Versions of parties are left out: every move of a party here
starts from a state it leaves for ever, so the state in the update says as much.

### Sessions, RecurringJobs and SessionExpiry

`Sessions` is the table of tokens (owner, issued, seen, revoked), the audit rows of
logouts, the clock and the requests: `BeginLogin`/`Login`, `BeginAuthenticate` and then
`TouchLastSeen`, `Logout` or `RevokeAll` with the actor that was authenticated, and
`ExpireSessions`. `RecurringJobs` is the chain of one recurring job: its rows in the
queue, the worker with its steps (`Handle`, `Reschedule`, `MarkDone`, or `MarkFailure` and
`Hook`), and the process with `StartWorker` (`EnsureRecurring`), `Crash`, `Stop` and `Exit`.
`RescheduleLost` is an insert that fails, which the code only logs: because a stop or the
timeout of the job has ended the context it runs in (`handlers.go:207`), or the statement
fails. Only the first is free, the others are counted as `Losses`. `SessionExpiry`
composes the two: the handler of `expire_sessions` does `ExpireSessions` in its step
`Handle`.

Row ids of finished jobs are used again by `NewSlot`, which stands for a fresh id as
nobody holds the old one; `Slots` is bounded, and its assumption leaves room for every row
that chains and workers can need at once (`RoomForNext` proves that it does). Token hashes and passwords are left out: a token is its row.

### Startup

*State.* `applied` is `schema_migrations` (the content of each version), `executed` how
often the SQL of a version was committed, `accounts`, `trails`, `windows` what the seed
creates, `deployed` the release the service manager starts. A process has its `release`,
its `stage`, the records it read (`known`) and what it has `todo`.

| Action | Code |
|---|---|
| `StartProcess`, `ReadApplied`, `Migrate` (`SkipMigration`, `ApplyMigration`), `Migrated` | `run`, `sqlite.Migrate`, `applyMigration` |
| `BeginSeed`, `ProvisionRanger`, `ProvisionLeader`, `SeedTrail`, `SeedWindow`, `Seeded` | `App.Seed`, one transaction each |
| `Serve`, `Stop`, `StartRefused`, `StartFails` | `StartWorker` and `Serve`, the errors and crashes of a start |
| `RangerRegistersLeader`, `RangerCreatesTrail`, `Deploy` | calls through a serving process that meet the seed; the service manager |

*Abstractions.* A window day that a ranger has opened before the seed does is reused
(`EnsureWindow` reads it again when its insert conflicts), so `SeedWindow` is the same step
either way. Two processes stand for one that is being replaced. The seed is switched
on, as it is by default. `EnsureRecurring` is in `RecurringJobs`.

## 3. Runs

| Run | What it asks | Result |
|---|---|---|
| `PermitDispatch` | two parties of two people go through their whole lives in two calls in flight, with one key that may expire, a window of two seats that opens and closes, a trail suspended and a deadline passing at any time: are the seats counted right, never overbooked, always returnable; does the key stand for one committed reservation; are readiness, fees and queued jobs consistent, moves legal, and is the abstract ledger implemented? | passes, 991 860 states |
| `QueueSafety` | two jobs, two workers, two attempts, batches of two, leases that end before the batch, one crash, stop or failed statement: does done mean final, does finished stay finished, does a job park early or without its fee only after such a mishap, and does it have two workers only after a poll that claimed too much? | passes, 664 511 states |
| `QueueLiveness` | one attempt, batches of two, leases that end before the batch: is every queued job done or parked in the end? | passes, 250 503 states |
| `IncidentChains` | one major incident, two workers, a lost worker or lease, a ranger who resolves and closes: has it one job from its opening and one for each escalation but the last, is it never left without a job that goes on, and is it handed off? | passes, 629 289 states |
| `IncidentRaces` | one matter, a worker that hands off beside a call that opens, sweeps, resolves, closes or aborts while the party moves: are there never two unresolved incidents? | passes, 1 676 781 states |
| `TrailProgress` | two parties, a sweep that looks at one of them, two calls, a list of checkpoints that two rangers extend: what do completion, reports and sweep make of each other? | passes, 1 279 434 states |
| `SessionExpiry` | one token, two requests, a clean-up job with two mishaps and one lost row: is nothing seen after its end, is a logout recorded once, does the chain survive, is every expired session revoked? | passes, 515 467 states |
| `Startup` | two processes, three releases (one changed a migration), two deployments, two broken starts: is each migration run once, does a serving process have its schema, is there one seeder, and is some process serving again and again? | passes, 572 660 states |
| `ExpiredKey`, `LostHook`, `SharedJob`, `CriticalIncident` | one sentence of a comment or document each, which the code does not keep | violated, see section 6 |

*Bounds.* Two calls in flight are enough to have any call run between the two
halves of another; a third adds only a second bystander. Two parties whose seats do not
both fit (2 + 2 on a quota of 2) make every reservation decision matter; their window is
created by the first request or by a ranger. Parties of different sizes
are in the proofs. Versions need no bound: each party moves a bounded number of times.
`IncidentRaces` has one call at a time beside its worker: a
worker's hand-off is the step that could bring an incident back to life beside a newer
one, and calls that race among themselves are covered by the theorem. The named bounds
are:

- `Mishaps` (all modules): crashes, stops, overrun leases and failed statements. One is
  enough to leave any single step undone; two let a second one hit the repair.
- `MaxClaims` (`JobQueue`): a job claimed that often is no longer selected, which keeps
  reclaiming finite; the liveness run would notice if the bound stopped a job.
- `MaxIncidents` (`IncidentResponse`): two let an incident be opened, resolved and opened
  again while a worker still has the first in hand.
- `MaxAttempts`: two in `QueueSafety`, `IncidentChains` and `SessionExpiry`, where retries
  matter to the property; one in `QueueLiveness`, which therefore shows that lost leases and
  mishaps leave no job behind and leaves retries to `QueueSafety`.
- `MaxTime` (`TrailProgress`, `Sessions`): in the first, past the grace of a cutoff for both
  parties, who start two ticks apart, at two ticks to the second; in the second, to
  the expiry of a session (`TTL`), the instant at which everything about it is decided.
- `Limit` of one party for the sweep, so that the other one is beyond it.
- `Losses` (`RecurringJobs`): inserts of the next row that fail.
- One worker in `SessionExpiry`: two of them multiply the sessions, too, and liveness is
  checked on the composition. What two workers do to the chain (they may both be between
  the next row and the mark of their own when the process crashes) is proved instead, for
  any number of them (`ChainsPerMishapHold`).
- `Deploys`, `Days`, `SeedTrails` (`Startup`): two deployments bring a release in and an old
  one back; two windows make the seed of a trail three transactions.

A batch of two with leases of two ticks and a timeout of one lets the second job lose
its lease while the first still runs, as the shipped settings do. `SharedJob` takes
their proportions: with a tick of ten seconds, a lease of three ticks, a timeout of two and
a batch of four. Symmetry is used for calls, parties, jobs and workers in safety runs
only.

*Deadlock.* The queue runs check it (time never stops). The other runs do not: when all
parties are done and no call is in flight, or time has reached its bound, nothing
need happen.

*Fairness.* All of it is weak; strong fairness is nowhere needed. Handler errors, failed
statements, crashes and stops are never assumed to happen, and never assumed to stop
happening except by `Mishaps`: a handler may fail at every attempt.

- `JobQueue` (`EveryJobFinishes`): each worker's own steps (a goroutine in a loop that
  always reaches its next statement), the return of a handler whose context has ended
  and of a poll in a stopping process, a retry becoming due, the exit after a stop, the
  start of a new process (the service manager's), and time.
- `IncidentResponse` (`EveryIncidentIsHandedOff`): the steps of each worker and the end of
  leases nobody holds. The property ends in a parked job as well: a job that failed all
  its attempts ends its chain, and the code has no hook for it.
- `TrailProgress` (`MissedIsRaised`): the recurring sweep goes on, as `ChainSurvives`
  justifies.
- `SessionExpiry` (`ExpiredIsRevoked`): workers get on, abandoned leases end, a stopped
  process exits and a new one is started.
- `Startup` (`ServesInTheEnd`): a start gets on, and the service manager starts again.

Every property of a passing run has a mutant: a wrong form of one operator or
action, kept next to it in the module and marked `Mutant`, under which TLC finds the
property violated.

### What the properties of the later modules say

- `OneWorkerWhileCovered`: claims that race, reclaimed leases, failed statements, crashes and
  stops never give a job two workers by themselves: some poll must have claimed more
  jobs than its lease covers. `SharedJob` shows that the shipped settings let it.
- `ChainMatchesCount`: an incident has exactly one job from its opening and one for each
  escalation but the last, although jobs run at least once and two workers may run one.
  `NobodyForgotten`: an unresolved incident that has levels left has a job that goes on
  with it or a parked one for an operator to see.
- `ResolvedStays`, `OneUnresolvedPerMatter`: an escalation read before a ruling does not undo
  it, and so never puts an old incident beside the one opened after it; races between
  reporters and the sweep do not double an incident either.
- `CompletedReportedPlan`: a completed party has reported every mandatory checkpoint its
  trail was created with, though the list may grow under it. `StrandedForGood`: one that
  passed a mandatory checkpoint without reporting it can only be aborted.
- `AlarmLeadsByASecond`: what is reported after its alarm is classified as missed, except in
  the second in which the grace ends: the sweep compares the clock as it is, the report
  is classified by the time truncated to its second, so an alarm half a second past the
  grace may be followed by a report that is late only. By no more than that second.
  `MissedIsRaised`: the first checkpoint a party within the limit missed does not stay
  without an incident of its own, whatever other checkpoints were alarmed. Whether one is
  raised again after a ruling is left open (section 6).
- `SeenWhileAlive`, `LogoutRecordedOnce`: what a request authenticated
  before a revocation can still write, and what not.
- `ChainSurvives`, `ChainsPerMishap`, `ExpiredIsRevoked`: the recurring job does not die, up
  to rows the database refused; it multiplies only by mishaps, one chain at most for each
  worker a mishap interrupts, and never by restarts; and it does its work.
- `AppliedOnce`, `ServesOwnSchema`, `OneSeeder`, `ServesInTheEnd`: see `Startup`.

## 4. What is proved

All proofs are for every finite set of parties and every windows, keys, calls,
jobs, workers, releases, processes, quota, size and lease, under the named assumptions of the modules:
sizes, quotas, attempts, batches, leases and timeouts are positive integers.
TLC evaluates those assumptions in every run.

`PermitDispatchProofs`: `TypeCorrect`, `Spec => []TypeOK`, one step per action.

`PermitSeatsProofs`: `SeatInvariantHolds`, `Spec => []SeatInvariant`. That the
counter equals the seats of the holders (`SeatConservation`) is not inductive. A
withdrawal releases `Size[p]` seats of the window in its *snapshot*, if the
*snapshot* holds a permit; so the invariant must say when a snapshot can be
trusted: its version is at most the row's, and if equal, state and window
agree (`VersionTellsStaleness`). Then only a fresh snapshot commits, and it releases
what the party really holds, on its own day's window (`PermitOfOwnDay`) and from a
state that allowed the move (`CallsAreLegal`). From it follow `SeatsConserved`,
`NeverOverbooked`, `ReleaseAlwaysPossible` and `LifecycleIsLegal`. Lemmas on the number
of seats of a set of parties (adding or removing one party changes it by its size)
are stated once and cited.

The same module proves `PermitPathImplementsLedger`, `Spec => ImplementsLedger`. The
mapping reads holders, ever-granted parties, capacity and shut windows off the rows;
a committed reservation is `Grant`, a committed closing move `GiveBack`, opening and
closing windows `Open` and `Shut`, everything else a stutter.

`PermitEffectsProofs`: `EffectInvariantHolds`, and from it `EffectsHappenOnce`,
`WithdrawnOwesNothing` and `SettledFeesAreFinal`. Every step has one of six effects on a
party (`StepEffect`): reserved, moved, completed, withdrawn, its fee moved, or nothing.
That a withdrawn party owes nothing needs that only completed parties are charged
(`ChargedOnlyCompleted`), and that needs a fact about the calls in flight: a call on a fee
that still has the fee's version was decided on the fee as it is, and one that charges saw
the party completed, a state it never leaves (`FeeCallIsLegal`). `ReservedPartiesAreReady`
is about two reads that no transaction repeats: readiness was read before the
reservation, so the invariant says that a call on its way to reserve has a party that is
still ready, because a ready party stays ready - a batch of members that is still being
inserted has no item that fits (`ReadyStays`). `KeysStandForReservations` rests on
`StepReserves`: the record is written in the transaction of the reservation it names, and
no step takes a permit away afterwards.

`JobQueueProofs`: `QueueTypeCorrect`, `DoneJobsAreFinal` and `FeesStayFinal`, from
`QueueInvariant`: besides the types, a worker about to record success has the fee of
its current job already final, and one about to charge read a fee that was not.
Nothing about leases is needed: that done means final does not depend on one worker
running a job. `FinishedJobsStay` is the same for the rows. `ParkingIsUndisturbed`
(`ParkingInvariant`) follows the attempts a worker read with its claim: they never
exceed those of the row, so a stale worker cannot park a job early. `OneWorkerUntilOverlong`
assumes nothing of batch, lease and timeout: it says that two workers meet on a job only
after a poll that claimed more than its lease covers. Its `LeaseInvariant` is a budget: as
long as no poll was overlong, what is left of a lease covers the timeouts of the jobs that
come before it in the batch, and its own, so a job a worker still has to run is running
and held by nobody else.

`IncidentResponseProofs`: `RowInvariantHolds` says what a version in hand is good for: a
ruling or hand-off whose version is still the row's was decided on the row as it is. From
it `ResolvedIncidentsStay` and `IncidentTypeCorrect`. `OneUnresolvedHolds` is the unique
index under every path that could make an incident unresolved again. `ChainsMatchCounts`
does not count jobs: `ChainFits` says that the jobs of an incident can be told apart by
the numbers up to one more than its escalations (an injection), which a job that runs
twice keeps, as the second hand-off finds a newer version. `NobodyIsForgotten` needs more
than it says: not only must there be a job, it must not be the one a worker is about to
mark done (`NobodyLost`).

`TrailProgressProofs`: `ProgressTypeCorrect` includes one checkpoint to a number with two
rangers appending to a list both have read. `TripInvariantHolds` and
`CompletedPartiesReported`: completion is decided before its transaction, so the call in
flight must carry the fact, which stays true because checkpoints and reports only grow
(`NothingIsWithdrawn`). `StrandedPartiesStay` is the action property from the same lemmas.
`AlarmInvariantHolds` and `AlarmLeadsBySecond`: the sweep compares the clock itself and
the classification truncated seconds. They agree up to the second in which the grace
ends, because deadlines and the grace are whole seconds (`WholeSeconds`: cutoffs and
grace are minutes, and start times are stored in whole seconds), whatever the number of
ticks to the second.

`SessionExpiryProofs`: a step of the composition is one of the sessions, of the chain or of
both (`StepsCompose`), so each half has an invariant of its own. `SessionInvariantHolds`:
requests that log in have a token to themselves, and one about to touch its session read
it while it was alive; hence `SessionsSeenWhileAlive` and `LogoutsRecordedOnce`.
`ChainInvariantHolds` counts what carries the chain on: workers on their way to the next
row, and rows that wait for a worker. Every step hands this on from one to the other
(`CountsAfterStep`) except mishaps, which leave behind at most what the workers had in hand
(`CountsAfterMishap`). From the counts follows that there is always room for the next row,
which `ChainAlwaysSurvives` rests on, and `ChainsPerMishapHold`. `SessionExpiryTypeCorrect`
needs a count, too: a job is claimed again only after an attempt that returned it, each
with its own number below `MaxAttempts`, or after a mishap (`AttemptsCounted`).

`StartupProofs`: `SchemaInvariantHolds`, and from it `MigrationsApplyOnce` and
`ServingProcessOwnsSchema`, for any releases - also ones whose versions have gaps - and
any processes, deployments and broken starts. That a serving process has its schema is
not inductive: the records it read are old when it applies the next migration. The
invariant says that a record once read stays (`KnownStays`) and that whatever a
migrating process no longer has to do is applied with its content (`MigratedSoFar`);
neither of two racing processes can apply a version the other one has recorded. Every
later step is covered by one lemma (`SchemaKept`). `SeedHasOneOwner` needs only that who
seeds beyond the ranger has created it (`SeederHasRanger`, in `SeedInvariantHolds`): every
step of a process is a `SeedStep`, and such a step keeps the owner unique.
`StartupTypeCorrect` rests on it: with two seeders a trail could get more windows than the
seed has days, so what a seeder is about to insert is still missing (`WindowsInProgress`).

## 5. What is only model-checked

Every safety invariant and every action property of the passing runs is a theorem. The
liveness properties `EveryJobFinishes`, `EveryIncidentIsHandedOff`, `MissedIsRaised`,
`ExpiredIsRevoked` and `ServesInTheEnd` stay with TLC: liveness under fairness is beyond
TLAPS here, as is `ENABLED`. So do results that need induction over data or a
`RECURSIVE` operator; no property of a run is one.

Two attempts at a proof changed the models. The assumption of `RecurringJobs` on `Slots` left
too little room with several workers, and `ChainsPerMishap` used to allow one more chain for
each mishap, which is so only with one worker: a crash may find several workers
between the next row and the mark of their own.

## 6. Where the code and its documents disagree

Each is a run that TLC finds violated; `PROJECT.json` quotes the lines.

1. `ExpiredKey` - an expired key is said to count as unused. The lookup agrees and passes
   over the expired record, but the row still occupies the unique index and nothing ever
   purges it, so the reservation rolls back each time.
2. `LostHook` - a parked job is said to park its settlement. A crash between the two
   leaves the fee pending, with nothing to repeat the hook.
3. `SharedJob` - `repository.go` says that two workers never run the same job
   concurrently, `domain/operations.go` that a running job is leased by exactly one
   worker. The leases of a batch end together while its jobs run one after the other: with
   the defaults (four jobs, 20 s each, a lease of 30 s) a slow first job is enough: the
   lease of the second ends while its handler still runs, or before it was started, and
   another worker reclaims, claims and runs it, too. `config.go` only asks for a lease longer than the poll interval.
   `OneWorkerUntilOverlong` says when this cannot happen; fees are right all the same
   (`DoneMeansFinal`, `FinalFeeStays`).
4. `CriticalIncident` - a critical incident is said to stop the party at once, so that the
   two stay consistent. They are two transactions: when the call ends between them - the
   second fails, the request times out, the process dies - nothing repeats the abort, and
   a repeated report meets the unresolved incident. A party that moved between them,
   whose version the abort then misses, is one way for the second to fail.

Further behaviours the code has by its order of reads and writes, met while modelling
and not runs of their own:

- `README.md:80` says that the sweep registers an overdue checkpoint only once per party and
  checkpoint. `OpenOverdue` looks for an unresolved incident only, as its own comment
  says (`incident/service.go:153`): when a ranger has resolved it and the party has still
  not reported, the next sweep registers it again. `RaiseOverdue` does what the code does.
- In the second in which the grace of a checkpoint ends the sweep may raise an incident for
  it and a report after that still be classified as late (`AlarmLeadsByASecond`).
- A start that broke off after the first seeded account is not resumed: the next one
  finds a ranger and skips the rest of the seed, and the readiness probe asks for a
  ranger only.
- `RequestPermit` does not ask for the trail's status: a party planned while its trail
  was open gets its permit after the trail was suspended.
- A report checked while the party was on the trail is inserted after the trip has
  ended. It changes nothing else.
- A graceful stop cancels the running handlers, and a cancelled job is parked at its
  first attempt, its fee as failed. `UndisturbedParking` says it is only then.
- A party that skipped a mandatory checkpoint stays on the trail until it is aborted,
  and keeps its place among the fifty parties a sweep looks at (`Limit`).
- When the insert of the next recurring row fails, the chain ends until the next start.
- Two rangers who append checkpoints with different numbers at once may leave cutoffs that
  do not increase; only the number is compared again.

## 7. Plan

Done: the permit path with its abstract ledger, the queue, incidents, progress and sweep,
sessions, recurring jobs, start of the process, and proofs of all their safety. Next:

1. An abstract fee register (pending, then charged or waived for good, or failed) that
   `PermitDispatch` and `JobQueue` both implement, proved for both as for `SeatLedger`.
2. An abstract incident (raised, escalated level by level, ruled) that the rows and jobs of
   `IncidentResponse` implement.
3. What the queue promises (`FinishedStays`, `UndisturbedParking`) as the environment of
   `IncidentResponse` and `RecurringJobs`, stated once.

## 8. What is not modelled, and why

Decoding, routing and role gates of the HTTP layer, configuration, wiring, logging,
password hashing and random tokens hold no state that the behaviour above depends on.
The handlers are in the models as the calls they begin. Audit rows are written in the
transactions of the other components and read by nothing but their list, except
the row of a logout, which `Sessions` counts. `notify_dispatch` reads a party and writes a
notice and an audit row. Lists, pages and views are reads. `Idempotency.Purge` and
`UserRepo.UpdateStatus` have no caller. The fee and the backoff are arithmetic that no
transition depends on. SQLite is assumed to give what `BEGIN IMMEDIATE` promises: one
writer at a time, all or nothing.
