---------------------------- MODULE RecurringJobs ----------------------------
(***************************************************************************)
(* The chain of one recurring job: worker/handlers.go queues its next run   *)
(* at the end of each run, when it is parked, and at the start of the       *)
(* process if none is pending.  The statements of the queue are those of   *)
(* JobQueue; here a job is claimed as soon as it may be, run times and      *)
(* leases are not counted, and what the job does is left to the module      *)
(* that composes the chain with it.                                        *)
(***************************************************************************)
EXTENDS Integers, FiniteSets

CONSTANTS
  Slots,       \* bound: room for the rows of jobs that are not done or parked
  Workers,
  MaxAttempts,
  Mishaps,     \* bound on crashes, stops, failed handlers and overrun leases
  Losses       \* bound on runs that could not queue their successor

ASSUME ChainAssumption ==
  /\ Slots \subseteq Nat
  /\ IsFiniteSet(Slots) /\ IsFiniteSet(Workers)
  /\ MaxAttempts \in Nat \ {0}
  /\ Mishaps \in Nat
  /\ Losses \in Nat
  /\ Cardinality(Slots) > 1 + (Mishaps + 1) * Cardinality(Workers)

VARIABLES
  rows,    \* rows of jobs of this kind: state ("free" for no row) and attempts
  work,    \* what each worker does with the job it claimed
  process, \* "up", "stopping" once its context is cancelled, or "down"
  mishaps, losses

chainVars == <<rows, work, process, mishaps, losses>>

NoRow == [state |-> "free", attempts |-> 0]
Rows == {NoRow} \cup [state: {"queued", "running"}, attempts: 0..(MaxAttempts + Mishaps)]

Idle == [step |-> "idle"]
Steps == {"handle", "reschedule", "done", "retry", "terminal", "hook"}
Works == {Idle} \cup [step: Steps, slot: Slots, attempts: 1..(MaxAttempts + Mishaps)]

ChainTypeOK ==
  /\ rows \in [Slots -> Rows]
  /\ work \in [Workers -> Works]
  /\ process \in {"up", "stopping", "down"}
  /\ mishaps \in 0..Mishaps
  /\ losses \in 0..Losses

\* The database is new and the process has not been started.
ChainInit ==
  /\ rows = [s \in Slots |-> NoRow]
  /\ work = [w \in Workers |-> Idle]
  /\ process = "down"
  /\ mishaps = 0
  /\ losses = 0

-----------------------------------------------------------------------------
(* Definitions marked Mutant are plausible wrong forms of the ones they     *)
(* precede, used only to check that the properties notice them.            *)

Pending == {s \in Slots : rows[s].state \in {"queued", "running"}}
Holds(w, s) == work[w] # Idle /\ work[w].slot = s

\* A new row gets an id nobody uses: the smallest stands for any.
Unused == {s \in Slots : rows[s] = NoRow /\ \A w \in Workers : ~Holds(w, s)}
NewSlot == CHOOSE s \in Unused : \A t \in Unused : s <= t

Write(s, state, attempts) ==
  rows' = [rows EXCEPT ![s] = [state |-> state, attempts |-> attempts]]

Enqueue == Write(NewSlot, "queued", 0)

Goto(w, step) == work' = [work EXCEPT ![w].step = step]
Rest(w) == work' = [work EXCEPT ![w] = Idle]

Mishap ==
  /\ mishaps < Mishaps
  /\ mishaps' = mishaps + 1

\* Mutant: the process always queues the recurring job.
EnsureAlways == Enqueue

\* At the start the job is queued unless a row of its kind is queued or running.
EnsureRecurring == IF Pending = {} THEN Enqueue ELSE UNCHANGED rows

StartWorker ==
  /\ process = "down"
  /\ EnsureRecurring
  /\ process' = "up"
  /\ UNCHANGED <<work, mishaps, losses>>

Claim(w) ==
  /\ process = "up"
  /\ work[w] = Idle
  /\ \E s \in Slots :
       LET n == rows[s].attempts + 1 IN
       /\ rows[s].state = "queued"
       /\ Write(s, "running", n)
       /\ work' = [work EXCEPT ![w] = [step |-> "handle", slot |-> s, attempts |-> n]]
  /\ UNCHANGED <<process, mishaps, losses>>

At(w, step) ==
  /\ process # "down"
  /\ work[w] # Idle
  /\ work[w].step = step

\* The handler has done its work and goes on to queue the next run.
Handle(w) ==
  /\ At(w, "handle")
  /\ Goto(w, "reschedule")
  /\ UNCHANGED <<rows, process, mishaps, losses>>

\* The handler returns an error; a cancelled context makes it final.
HandlerFails(w) ==
  /\ At(w, "handle")
  /\ \/ process = "up" /\ Goto(w, "retry") /\ Mishap
     \/ process = "stopping" /\ Goto(w, "terminal") /\ UNCHANGED mishaps
  /\ UNCHANGED <<rows, process, losses>>

Reschedule(w) ==
  /\ At(w, "reschedule")
  /\ Enqueue
  /\ Goto(w, "done")
  /\ UNCHANGED <<process, mishaps, losses>>

\* The insert fails: it is logged and the handler returns nil.  Always possible once a
\* stop has ended the context; a job timeout that runs out after the work and an error
\* of the statement are losses of which there are at most Losses.
RescheduleLost(w) ==
  /\ At(w, "reschedule")
  /\ Goto(w, "done")
  /\ \/ process = "stopping" /\ UNCHANGED losses
     \/ losses < Losses /\ losses' = losses + 1
  /\ UNCHANGED <<rows, process, mishaps>>

\* A job that is not running any more is left alone.
MarkDone(w) ==
  LET s == work[w].slot IN
  /\ At(w, "done")
  /\ rows' = IF rows[s].state = "running" THEN [rows EXCEPT ![s] = NoRow] ELSE rows
  /\ Rest(w)
  /\ UNCHANGED <<process, mishaps, losses>>

Permanent(w) == work[w].step = "terminal" \/ work[w].attempts >= MaxAttempts

Failed(w) == At(w, "retry") \/ At(w, "terminal")

\* Mutant: no failure hook is registered for the recurring job.
MarkFailureNoHook(w) ==
  LET s == work[w].slot IN
  /\ Failed(w)
  /\ Rest(w)
  /\ rows' = IF rows[s].state # "running" THEN rows
             ELSE [rows EXCEPT ![s] = IF Permanent(w) THEN NoRow
                                      ELSE [state |-> "queued", attempts |-> @.attempts]]
  /\ UNCHANGED <<process, mishaps, losses>>

\* A failed attempt returns to the queue, the last one is parked and calls the hook;
\* a job that is not running any more is left alone, without the hook.
MarkFailure(w) ==
  LET s == work[w].slot IN
  /\ Failed(w)
  /\ IF rows[s].state # "running" THEN Rest(w) /\ UNCHANGED rows
     ELSE IF Permanent(w) THEN Goto(w, "hook") /\ rows' = [rows EXCEPT ![s] = NoRow]
     ELSE Rest(w) /\ Write(s, "queued", rows[s].attempts)
  /\ UNCHANGED <<process, mishaps, losses>>

\* The hook runs in a context that is never cancelled.
Hook(w) ==
  /\ At(w, "hook")
  /\ \/ Enqueue /\ UNCHANGED losses
     \/ losses < Losses /\ losses' = losses + 1 /\ UNCHANGED rows
  /\ Rest(w)
  /\ UNCHANGED <<process, mishaps>>

-----------------------------------------------------------------------------
Reclaim(s) ==
  /\ process = "up"
  /\ rows[s].state = "running"
  /\ Write(s, "queued", rows[s].attempts)
  /\ UNCHANGED <<work, process, losses>>

\* A lease that nobody works under expires.
ReclaimAbandoned(s) ==
  /\ \A w \in Workers : ~Holds(w, s)
  /\ Reclaim(s)
  /\ UNCHANGED mishaps

\* A lease expires under its worker: another one may run the job again.
OverrunLease(s) ==
  /\ \E w \in Workers : Holds(w, s)
  /\ Reclaim(s)
  /\ Mishap

Crash ==
  /\ process # "down"
  /\ process' = "down"
  /\ work' = [w \in Workers |-> Idle]
  /\ Mishap
  /\ UNCHANGED <<rows, losses>>

\* The context of the workers is cancelled; they record what they have in hand.
Stop ==
  /\ process = "up"
  /\ process' = "stopping"
  /\ Mishap
  /\ UNCHANGED <<rows, work, losses>>

Exit ==
  /\ process = "stopping"
  /\ \A w \in Workers : work[w] = Idle
  /\ process' = "down"
  /\ UNCHANGED <<rows, work, mishaps, losses>>

-----------------------------------------------------------------------------
\* Everything a worker does but Handle, which a composition joins with its work.
Bookkeeping(w) ==
  Claim(w) \/ Reschedule(w) \/ MarkDone(w) \/ MarkFailure(w) \/ Hook(w)

ChainNext ==
  \/ StartWorker \/ Crash \/ Stop \/ Exit
  \/ \E w \in Workers : Bookkeeping(w) \/ HandlerFails(w) \/ RescheduleLost(w)
  \/ \E s \in Slots : ReclaimAbandoned(s) \/ OverrunLease(s)

-----------------------------------------------------------------------------
(* Properties.                                                             *)

\* A row whose successor is queued: its worker has only to mark it done.
Spent(s) == \E w \in Workers : Holds(w, s) /\ work[w].step = "done"

\* What leads to a next run: the rows not spent, and the hooks about to queue one.
Links == {s \in Pending : ~Spent(s)}
Hooks == {w \in Workers : work[w].step = "hook"}

\* While the process runs, the recurring job never dies out unless the database
\* refused its next row: through retries, parking, crashes, stops and restarts some
\* row or hook is there to lead to the next run.
ChainSurvives ==
  process = "up" /\ losses = 0 => Links \cup Hooks # {}

\* The job never multiplies by itself: at-least-once execution adds a further chain at
\* most for each worker a mishap interrupts (a crash may find several of them between
\* the next row and the mark of their own), and restarts add none.
ChainsPerMishap ==
  Cardinality(Links) + Cardinality(Hooks) <= 1 + mishaps * Cardinality(Workers)
=============================================================================
