------------------------------ MODULE JobQueue ------------------------------
(***************************************************************************)
(* The background queue and its workers, for the settle_party jobs: the    *)
(* jobs table of sqliterepo/platform.go, the loop of worker/runner.go, and  *)
(* the handler and the failure hook of worker/handlers.go with the fee      *)
(* each job works on.                                                      *)
(*                                                                         *)
(* Every statement of the repository is one step, and so is everything a   *)
(* handler does between two database calls; the workers of one process     *)
(* interleave.  Leases and handler timeouts are counters of ticks left.    *)
(* Each party completes once and so has one job (EffectsExactlyOnce of     *)
(* PermitDispatch): a job stands for its party and its fee.                *)
(***************************************************************************)
EXTENDS Integers, Sequences, FiniteSets

CONSTANTS
  Jobs, Workers,
  MaxAttempts,  \* attempts after which a failure parks the job
  Batch,        \* jobs one poll claims at most
  Lease,        \* ticks a claim lasts
  Timeout,      \* ticks a handler may take
  Mishaps,      \* bound on crashes, stops and failed queue statements
  MaxClaims     \* bound: a job claimed so often is selected no more

Handling == {"read", "charge", "view"}
Phases == {"rest", "idle", "select", "claim", "run"} \cup Handling
            \cup {"ok", "retry", "terminal", "hook"}

ASSUME QueueAssumption ==
  /\ IsFiniteSet(Jobs)
  /\ MaxAttempts \in Nat \ {0}
  /\ Batch \in Nat \ {0}
  /\ Lease \in Nat \ {0}
  /\ Timeout \in Nat \ {0}
  /\ Mishaps \in Nat
  /\ MaxClaims \in Nat

VARIABLES
  job, attempts,   \* row of jobs: state ("absent" for no row yet) and attempts;
  due, lease,      \* run_at reached, ticks until locked_until
  fee,             \* settlements.state of the party of each job
  phase,           \* what each worker does next
  todo,            \* the candidates it selected and has yet to claim
  batch,           \* its claimed jobs not yet finished, with the attempts it read
  seen,            \* the fee its handler read
  budget,          \* ticks left to its handler
  up, cancelled,   \* the process runs; its context is cancelled
  mishaps,
  overlong         \* history: a poll has claimed more jobs than its lease covers

rows == <<job, attempts, due, lease>>
workers == <<phase, todo, batch, seen, budget>>
process == <<up, cancelled, mishaps, overlong>>
vars == <<rows, fee, workers, process>>

JobStates == {"absent", "queued", "running", "done", "failed"}
Fees == {"pending", "settled", "waived", "failed"}
Claims == [job: Jobs, attempts: Nat]

TypeOK ==
  /\ job \in [Jobs -> JobStates]
  /\ attempts \in [Jobs -> Nat]
  /\ due \in [Jobs -> BOOLEAN]
  /\ lease \in [Jobs -> 0..Lease]
  /\ fee \in [Jobs -> Fees]
  /\ phase \in [Workers -> Phases]
  /\ todo \in [Workers -> SUBSET Jobs]
  /\ batch \in [Workers -> Seq(Claims)]
  /\ seen \in [Workers -> Fees]
  /\ budget \in [Workers -> 0..Timeout]
  /\ up \in BOOLEAN
  /\ cancelled \in BOOLEAN
  /\ mishaps \in 0..Mishaps
  /\ overlong \in BOOLEAN

Init ==
  /\ job = [j \in Jobs |-> "absent"]
  /\ attempts = [j \in Jobs |-> 0]
  /\ due = [j \in Jobs |-> FALSE]
  /\ lease = [j \in Jobs |-> 0]
  /\ fee = [j \in Jobs |-> "pending"]
  /\ phase = [w \in Workers |-> "idle"]
  /\ todo = [w \in Workers |-> {}]
  /\ batch = [w \in Workers |-> <<>>]
  /\ seen = [w \in Workers |-> "pending"]
  /\ budget = [w \in Workers |-> 0]
  /\ up = TRUE
  /\ cancelled = FALSE
  /\ mishaps = 0
  /\ overlong = FALSE

-----------------------------------------------------------------------------
(* Definitions marked Mutant are plausible wrong forms of the ones they    *)
(* precede, used only to check that the properties notice them.            *)

Goto(w, next) == phase' = [phase EXCEPT ![w] = next]

\* The job a worker executes and the attempts it read when it claimed it.
Current(w) == Head(batch[w]).job
AttemptsRead(w) == Head(batch[w]).attempts

\* The worker turns to the next job of its batch, and polls again after the last.
NextJob(w) ==
  /\ Goto(w, IF Len(batch[w]) = 1 THEN "idle" ELSE "run")
  /\ batch' = [batch EXCEPT ![w] = Tail(@)]
  /\ seen' = [seen EXCEPT ![w] = "pending"]
  /\ budget' = [budget EXCEPT ![w] = 0]
  /\ UNCHANGED todo

DueJobs == {j \in Jobs : job[j] = "queued" /\ due[j]}

\* A due settle_party job, as CompleteParty queues it.
Enqueue(j) ==
  /\ job[j] = "absent"
  /\ job' = [job EXCEPT ![j] = "queued"]
  /\ due' = [due EXCEPT ![j] = TRUE]
  /\ UNCHANGED <<attempts, lease, fee, workers, process>>

\* The retry time of a failed attempt comes.
BecomeDue(j) ==
  /\ job[j] = "queued"
  /\ ~due[j]
  /\ due' = [due EXCEPT ![j] = TRUE]
  /\ UNCHANGED <<job, attempts, lease, fee, workers, process>>

\* Mutant: the update takes a fresh lease for an expired one.
ReclaimFreshLeases ==
  job' = [j \in Jobs |-> IF job[j] = "running" /\ lease[j] = Lease THEN "queued" ELSE job[j]]

\* UPDATE jobs SET state = queued WHERE running and the lease has run out
ReclaimExpiredLeases ==
  job' = [j \in Jobs |-> IF job[j] = "running" /\ lease[j] = 0 THEN "queued" ELSE job[j]]

-----------------------------------------------------------------------------
(* A worker polls: it reclaims, selects, and claims one by one.            *)

Serving(w, at) == up /\ phase[w] = at

Poll(w) ==
  /\ Serving(w, "idle")
  /\ ~cancelled
  /\ ReclaimExpiredLeases
  /\ Goto(w, "select")
  /\ UNCHANGED <<attempts, due, lease, fee, todo, batch, seen, budget, process>>

\* Any choice of due jobs stands for the order of run_at and id.
SelectDue(w) ==
  /\ Serving(w, "select")
  /\ ~cancelled
  /\ \E S \in SUBSET {j \in DueJobs : attempts[j] < MaxClaims} :
       /\ Cardinality(S) <= Batch
       /\ Cardinality(S) = Batch \/ {j \in DueJobs : attempts[j] < MaxClaims} \subseteq S
       /\ todo' = [todo EXCEPT ![w] = S]
       /\ Goto(w, IF S = {} THEN "rest" ELSE "claim")
  /\ UNCHANGED <<rows, fee, batch, seen, budget, process>>

\* After the last candidate the worker executes its batch, or rests if it got none.
AfterClaim(w) ==
  Goto(w, IF todo'[w] # {} THEN "claim" ELSE IF batch'[w] = <<>> THEN "rest" ELSE "run")

\* UPDATE jobs SET state = running, attempts = attempts + 1, locked_until = ?
TakeLease(j) ==
  /\ job' = [job EXCEPT ![j] = "running"]
  /\ attempts' = [attempts EXCEPT ![j] = @ + 1]
  /\ lease' = [lease EXCEPT ![j] = Lease]
  /\ UNCHANGED due

\* The n-th job of a batch is run within its lease even if every job before it and
\* the job itself take their whole timeout.
Covered(n) == n * Timeout < Lease

\* The worker reads the row it has leased and keeps it for its batch.
KeepClaim(w, j) ==
  /\ batch' = [batch EXCEPT ![w] = Append(@, [job |-> j, attempts |-> attempts[j] + 1])]
  /\ overlong' = (overlong \/ ~Covered(Len(batch[w]) + 1))

\* Mutant: the update does not check that the job is still queued and due.
ClaimSelected(w) ==
  /\ Serving(w, "claim")
  /\ ~cancelled
  /\ \E j \in todo[w] :
       /\ todo' = [todo EXCEPT ![w] = @ \ {j}]
       /\ TakeLease(j)
       /\ KeepClaim(w, j)
       /\ AfterClaim(w)
  /\ UNCHANGED <<fee, seen, budget, up, cancelled, mishaps>>

\* A candidate that another worker claimed meanwhile is skipped.
Claim(w) ==
  /\ Serving(w, "claim")
  /\ ~cancelled
  /\ \E j \in todo[w] :
       /\ todo' = [todo EXCEPT ![w] = @ \ {j}]
       /\ IF j \in DueJobs THEN TakeLease(j) /\ KeepClaim(w, j)
                          ELSE UNCHANGED <<rows, batch, overlong>>
       /\ AfterClaim(w)
  /\ UNCHANGED <<fee, seen, budget, up, cancelled, mishaps>>

\* The poll fails on a statement, or because the process stops: what it claimed so
\* far stays leased and nobody executes it.  The statement may be the one that reads
\* a row just leased.
PollFails(w) ==
  /\ up
  /\ phase[w] \in {"select", "claim"}
  /\ IF cancelled THEN UNCHANGED mishaps
                  ELSE mishaps < Mishaps /\ mishaps' = mishaps + 1
  /\ \/ UNCHANGED rows
     \/ \E j \in todo[w] \cap DueJobs : TakeLease(j)
  /\ Goto(w, "rest")
  /\ todo' = [todo EXCEPT ![w] = {}]
  /\ batch' = [batch EXCEPT ![w] = <<>>]
  /\ UNCHANGED <<fee, seen, budget, up, cancelled, overlong>>

-----------------------------------------------------------------------------
(* A worker executes its batch.                                            *)

\* Mutant: the handler may run for the whole lease.
StartJobForLease(w) ==
  /\ Serving(w, "run")
  /\ Goto(w, "read")
  /\ budget' = [budget EXCEPT ![w] = Lease]
  /\ UNCHANGED <<rows, fee, todo, batch, seen, process>>

\* The handler of the next job starts, under its own timeout.
StartJob(w) ==
  /\ Serving(w, "run")
  /\ Goto(w, "read")
  /\ budget' = [budget EXCEPT ![w] = Timeout]
  /\ UNCHANGED <<rows, fee, todo, batch, seen, process>>

\* A handler gets on only until its context ends, by timeout or by cancellation.
Alive(w) == ~cancelled /\ budget[w] > 0

\* SettleForParty reads the fee; the party is completed.
ReadFee(w) ==
  LET f == fee[Current(w)] IN
  /\ Serving(w, "read")
  /\ Alive(w)
  /\ Goto(w, IF f \in {"settled", "waived"} THEN "view" ELSE "charge")
  /\ seen' = [seen EXCEPT ![w] = f]
  /\ UNCHANGED <<rows, fee, todo, batch, budget, process>>

\* Mutant: the settlement update is not conditional on the version that was read.
ChargeBlindly(w) ==
  /\ Serving(w, "charge")
  /\ Alive(w)
  /\ fee' = [fee EXCEPT ![Current(w)] = "settled"]
  /\ Goto(w, "view")
  /\ UNCHANGED <<rows, todo, batch, seen, budget, process>>

\* It settles the fee if the row is unchanged, or fails on a version conflict.  A
\* fee never returns to an earlier state, so equal states mean equal versions.
ChargeFee(w) ==
  LET j == Current(w) IN
  /\ Serving(w, "charge")
  /\ Alive(w)
  /\ IF fee[j] = seen[w]
       THEN fee' = [fee EXCEPT ![j] = "settled"] /\ Goto(w, "view")
       ELSE Goto(w, "retry") /\ UNCHANGED fee
  /\ UNCHANGED <<rows, todo, batch, seen, budget, process>>

\* The handler reads its answer and returns nil.
ViewFee(w) ==
  /\ Serving(w, "view")
  /\ Alive(w)
  /\ Goto(w, "ok")
  /\ UNCHANGED <<rows, fee, todo, batch, seen, budget, process>>

\* Mutant: the error of the handler is lost.
HandlerSwallowsError(w) ==
  /\ up
  /\ phase[w] \in Handling
  /\ Goto(w, "ok")
  /\ UNCHANGED <<rows, fee, todo, batch, seen, budget, process>>

\* A database error or the timeout may be retried, the end of the process may not.
HandlerFails(w) ==
  /\ up
  /\ phase[w] \in Handling
  /\ \/ Goto(w, "retry")
     \/ cancelled /\ Goto(w, "terminal")
  /\ UNCHANGED <<rows, fee, todo, batch, seen, budget, process>>

-----------------------------------------------------------------------------
(* A worker records the outcome, outside the cancelled context.  No         *)
(* statement compares locked_by: the outcome counts for whoever runs the    *)
(* job now.                                                                *)

\* UPDATE jobs SET state = done WHERE id = ? AND state = running
MarkDone(w) ==
  LET j == Current(w) IN
  /\ Serving(w, "ok")
  /\ job' = IF job[j] = "running" THEN [job EXCEPT ![j] = "done"] ELSE job
  /\ NextJob(w)
  /\ UNCHANGED <<attempts, due, lease, fee, process>>

\* Mutant: the attempt is counted a second time.
PermanentOneEarly(w) ==
  phase[w] = "terminal" \/ AttemptsRead(w) + 1 >= MaxAttempts

\* The attempts are those the worker read when it claimed the job.
Permanent(w) ==
  phase[w] = "terminal" \/ AttemptsRead(w) >= MaxAttempts

\* Mutant: a failed attempt is recorded whatever the state of the job.
MarkAnyFailure(w) ==
  LET j == Current(w) IN
  /\ up
  /\ phase[w] \in {"retry", "terminal"}
  /\ \/ /\ Permanent(w)
        /\ job' = [job EXCEPT ![j] = "failed"]
        /\ Goto(w, "hook")
        /\ UNCHANGED <<due, todo, batch, seen, budget>>
     \/ /\ ~Permanent(w)
        /\ job' = [job EXCEPT ![j] = "queued"]
        /\ due' = [due EXCEPT ![j] = FALSE]
        /\ NextJob(w)
  /\ UNCHANGED <<attempts, lease, fee, process>>

\* UPDATE jobs SET state = failed or queued WHERE id = ? AND state = running; a
\* permanent failure calls the hook, and a refused update calls nothing.
MarkFailure(w) ==
  LET j == Current(w) IN
  /\ up
  /\ phase[w] \in {"retry", "terminal"}
  /\ \/ /\ job[j] = "running"
        /\ Permanent(w)
        /\ job' = [job EXCEPT ![j] = "failed"]
        /\ Goto(w, "hook")
        /\ UNCHANGED <<due, todo, batch, seen, budget>>
     \/ /\ job[j] = "running"
        /\ ~Permanent(w)
        /\ job' = [job EXCEPT ![j] = "queued"]
        /\ due' = [due EXCEPT ![j] = FALSE]
        /\ NextJob(w)
     \/ /\ job[j] # "running"
        /\ NextJob(w)
        /\ UNCHANGED <<job, due>>
  /\ UNCHANGED <<attempts, lease, fee, process>>

\* Mutant: no hook is registered.
NoHook(w) ==
  /\ Serving(w, "hook")
  /\ NextJob(w)
  /\ UNCHANGED <<rows, fee, process>>

\* The failure hook parks a pending fee (MarkFailed); other fees are left alone.
RunHook(w) ==
  LET j == Current(w) IN
  /\ Serving(w, "hook")
  /\ fee' = IF fee[j] = "pending" THEN [fee EXCEPT ![j] = "failed"] ELSE fee
  /\ NextJob(w)
  /\ UNCHANGED <<rows, process>>

\* The statement that records an outcome fails; it is logged and not repeated.
BookkeepingFails(w) ==
  /\ up
  /\ phase[w] \in {"ok", "retry", "terminal", "hook"}
  /\ mishaps < Mishaps
  /\ mishaps' = mishaps + 1
  /\ NextJob(w)
  /\ UNCHANGED <<rows, fee, up, cancelled, overlong>>

-----------------------------------------------------------------------------
(* The process, time and the ranger.                                       *)

\* A signal cancels the context of the workers; Stop waits for them.
Stop ==
  /\ up
  /\ ~cancelled
  /\ mishaps < Mishaps
  /\ mishaps' = mishaps + 1
  /\ cancelled' = TRUE
  /\ UNCHANGED <<rows, fee, workers, up, overlong>>

Exit ==
  /\ up
  /\ cancelled
  /\ \A w \in Workers : phase[w] \in {"rest", "idle"}
  /\ up' = FALSE
  /\ UNCHANGED <<rows, fee, workers, cancelled, mishaps, overlong>>

\* The process dies; its rows stay.
Crash ==
  /\ up
  /\ mishaps < Mishaps
  /\ mishaps' = mishaps + 1
  /\ up' = FALSE
  /\ phase' = [w \in Workers |-> "idle"]
  /\ todo' = [w \in Workers |-> {}]
  /\ batch' = [w \in Workers |-> <<>>]
  /\ seen' = [w \in Workers |-> "pending"]
  /\ budget' = [w \in Workers |-> 0]
  /\ UNCHANGED <<rows, fee, cancelled, overlong>>

\* A new process reclaims the leases that ran out and starts its workers.
Start ==
  /\ ~up
  /\ ReclaimExpiredLeases
  /\ up' = TRUE
  /\ cancelled' = FALSE
  /\ UNCHANGED <<attempts, due, lease, fee, workers, mishaps, overlong>>

Less(n) == IF n = 0 THEN 0 ELSE n - 1

\* Time passes while workers pause or run handlers, but not beyond the timeout of
\* a handler that has yet to return.  It ends the pause of a resting worker.
Tick ==
  /\ \A w \in Workers : \/ phase[w] \in {"rest", "idle"}
                        \/ phase[w] \in Handling /\ budget[w] > 0
  /\ lease' = [j \in Jobs |-> Less(lease[j])]
  /\ budget' = [w \in Workers |-> Less(budget[w])]
  /\ phase' = [w \in Workers |-> IF phase[w] = "rest" THEN "idle" ELSE phase[w]]
  /\ UNCHANGED <<job, attempts, due, fee, todo, batch, seen, process>>

\* A ranger waives a fee that is not yet charged.
Waive(j) ==
  /\ fee[j] \in {"pending", "failed"}
  /\ fee' = [fee EXCEPT ![j] = "waived"]
  /\ UNCHANGED <<rows, workers, process>>

-----------------------------------------------------------------------------
\* The steps a worker takes on its own, and those that something makes it take.
Work(w) ==
  \/ Poll(w) \/ SelectDue(w) \/ Claim(w) \/ StartJob(w)
  \/ ReadFee(w) \/ ChargeFee(w) \/ ViewFee(w)
  \/ MarkDone(w) \/ MarkFailure(w) \/ RunHook(w)

\* A handler whose context has ended returns, and a poll of a stopping process too.
GiveUp(w) ==
  \/ HandlerFails(w) /\ ~Alive(w)
  \/ PollFails(w) /\ cancelled

Trouble(w) == HandlerFails(w) \/ PollFails(w) \/ BookkeepingFails(w)

Next ==
  \/ \E w \in Workers : Work(w) \/ Trouble(w)
  \/ \E j \in Jobs : Enqueue(j) \/ BecomeDue(j) \/ Waive(j)
  \/ Stop \/ Exit \/ Crash \/ Start \/ Tick

\* The goroutines of the runner keep running, a process that ended is started
\* again, and time passes.
Fairness ==
  /\ \A w \in Workers : WF_vars(Work(w)) /\ WF_vars(GiveUp(w))
  /\ \A j \in Jobs : WF_vars(BecomeDue(j))
  /\ WF_vars(Exit) /\ WF_vars(Start) /\ WF_vars(Tick)

Spec == Init /\ [][Next]_vars
FairSpec == Spec /\ Fairness

-----------------------------------------------------------------------------
(* Properties.                                                             *)

Finished(j) == job[j] \in {"done", "failed"}
Executing(w, j) ==
  phase[w] \notin {"rest", "idle", "select", "claim", "run"} /\ Current(w) = j

\* A job is done only when its fee is final, although a stale worker may mark a
\* job that another one runs.
DoneMeansFinal == \A j \in Jobs : job[j] = "done" => fee[j] \in {"settled", "waived"}

\* A fee is charged or waived once and for all, however many workers execute the
\* job at the same time.
FinalFeeStays ==
  [][\A j \in Jobs : fee[j] \in {"settled", "waived"} => fee'[j] = fee[j]]_fee

\* A finished job is never run again: a late outcome of a worker that lost its
\* lease does not revive it.
FinishedStays == [][\A j \in Jobs : Finished(j) => job'[j] = job[j]]_job

\* Every queued job is finished in the end, through failed statements, expired
\* leases, crashes and restarts.
EveryJobFinishes == \A j \in Jobs : job[j] = "queued" ~> Finished(j)

\* A job is parked only with its fee waived or parked, or already charged, unless
\* a hook is on its way (runner.go "instead of silently staying pending").
ParkedJobParksFee ==
  \A j \in Jobs :
    job[j] = "failed" /\ (\A w \in Workers : ~(phase[w] = "hook" /\ Current(w) = j))
      => fee[j] # "pending"

\* A running job is leased by exactly one worker (domain/operations.go JobRunning):
\* no two workers execute it at the same time (repository.go "two workers never run
\* the same job concurrently").
RunsOnOneWorker ==
  \A j \in Jobs, v, w \in Workers : Executing(v, j) /\ Executing(w, j) => v = w

\* Two workers execute one job at the same time only after some poll claimed more
\* jobs than its lease covers: claims race, leases end and are taken again, polls
\* and statements fail and processes die without it.
OneWorkerWhileCovered == ~overlong => RunsOnOneWorker

\* A job is parked only after all its attempts.  The README parks a job earlier for
\* four error codes only, and settling the fee of a completed party meets none of
\* them; it meets version_conflict, unavailable and deadline_exceeded.
ParkedAfterAllAttempts ==
  \A j \in Jobs : job[j] = "failed" => attempts[j] >= MaxAttempts

\* As long as no statement failed and the process did not end, a job is parked only
\* after all its attempts and never without its fee, although stale workers record
\* outcomes too.
UndisturbedParking ==
  mishaps = 0 => ParkedJobParksFee /\ ParkedAfterAllAttempts

=============================================================================
