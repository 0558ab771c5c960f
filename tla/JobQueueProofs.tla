--------------------------- MODULE JobQueueProofs ---------------------------
(* Theorems of JobQueue for every number of jobs and workers, every batch   *)
(* size, lease and timeout, and any number of mishaps.                     *)
EXTENDS JobQueue, SequenceTheorems, FiniteSetTheorems, TLAPS

Final == {"settled", "waived"}
Busy == {"run"} \cup Handling \cup {"ok", "retry", "terminal", "hook"}

\* A worker that executes a batch has a job to turn to, it charges only a fee that
\* it did not see final, and it answers only once the fee of its job is final.
WorkerInvariant ==
  \A w \in Workers :
    /\ phase[w] \in Busy => batch[w] # <<>>
    /\ phase[w] = "charge" => seen[w] \notin Final
    /\ phase[w] \in {"view", "ok"} => fee[Current(w)] \in Final

QueueInvariant == TypeOK /\ WorkerInvariant /\ DoneMeansFinal

\* Fees change only from a state that is not final, to any other.
FeeStep == \A j \in Jobs : fee[j] \in Final => fee'[j] = fee[j]

-----------------------------------------------------------------------------
(* Sequences and actions.                                                  *)

\* What remains of a batch.
LEMMA RestOfBatch ==
  ASSUME NEW s \in Seq(Claims), s # <<>>
  PROVE  /\ Tail(s) \in Seq(Claims)
         /\ Head(s) \in Claims
         /\ Len(s) # 1 => Tail(s) # <<>>
<1>1. /\ Head(s) \in Claims
      /\ Tail(s) \in Seq(Claims)
      /\ Len(Tail(s)) = Len(s) - 1
  BY HeadTailProperties
<1>2. Len(s) # 1 => Len(Tail(s)) # 0
  BY <1>1, LenProperties
<1> QED
  BY <1>1, <1>2, EmptySeq

\* A row that is leased is the only one that changes.
LEMMA LeaseTaken ==
  ASSUME TypeOK, NEW j \in Jobs, TakeLease(j)
  PROVE  /\ job' \in [Jobs -> JobStates]
         /\ attempts' \in [Jobs -> Nat]
         /\ lease' \in [Jobs -> 0..Lease]
         /\ due' = due
         /\ job'[j] = "running" /\ lease'[j] = Lease /\ attempts'[j] = attempts[j] + 1
         /\ \A k \in Jobs \ {j} :
              job'[k] = job[k] /\ lease'[k] = lease[k] /\ attempts'[k] = attempts[k]
<1>1. Lease \in 0..Lease /\ attempts[j] + 1 \in Nat
  BY QueueAssumption DEF TypeOK
<1> QED
  BY <1>1 DEF TypeOK, TakeLease, JobStates

\* The job at hand is one of the jobs.
LEMMA CurrentIsJob ==
  ASSUME TypeOK, NEW w \in Workers, batch[w] # <<>>
  PROVE  Current(w) \in Jobs
<1>1. batch[w] \in Seq(Claims)
  BY DEF TypeOK
<1>2. Head(batch[w]) \in Claims
  BY <1>1, RestOfBatch
<1> QED
  BY <1>2 DEF Current, Claims

\* A step of one worker under which fees stay final keeps the invariant of all, if
\* it does for that worker.
LEMMA OthersKeep ==
  ASSUME TypeOK, WorkerInvariant, FeeStep, NEW w \in Workers,
         \A v \in Workers \ {w} :
           phase'[v] = phase[v] /\ batch'[v] = batch[v] /\ seen'[v] = seen[v],
         phase'[w] \in Busy => batch'[w] # <<>>,
         phase'[w] = "charge" => seen'[w] \notin Final,
         phase'[w] \in {"view", "ok"} => fee'[Current(w)'] \in Final
  PROVE  WorkerInvariant'
<1> SUFFICES ASSUME NEW v \in Workers, v # w
             PROVE  /\ phase'[v] \in Busy => batch'[v] # <<>>
                    /\ phase'[v] = "charge" => seen'[v] \notin Final
                    /\ phase'[v] \in {"view", "ok"} => fee'[Current(v)'] \in Final
  BY DEF WorkerInvariant
<1>1. Current(v)' = Current(v)
  BY DEF Current
<1>2. phase[v] \in {"view", "ok"} => Current(v) \in Jobs
  BY CurrentIsJob DEF WorkerInvariant, Busy, Handling
<1> QED
  BY <1>1, <1>2 DEF WorkerInvariant, FeeStep

\* Going on to the next job keeps the types and the invariant of the workers.
LEMMA NextJobKeeps ==
  ASSUME TypeOK, WorkerInvariant, FeeStep,
         NEW w \in Workers, phase[w] \in Busy, NextJob(w)
  PROVE  /\ phase' \in [Workers -> Phases]
         /\ todo' \in [Workers -> SUBSET Jobs]
         /\ batch' \in [Workers -> Seq(Claims)]
         /\ seen' \in [Workers -> Fees]
         /\ budget' \in [Workers -> 0..Timeout]
         /\ WorkerInvariant'
<1>1. batch[w] # <<>> /\ batch[w] \in Seq(Claims)
  BY DEF TypeOK, WorkerInvariant
<1>2. /\ Tail(batch[w]) \in Seq(Claims)
      /\ Len(batch[w]) # 1 => Tail(batch[w]) # <<>>
  BY <1>1, RestOfBatch
<1>3. 0 \in 0..Timeout
  BY QueueAssumption
<1>4. \A v \in Workers \ {w} :
        phase'[v] = phase[v] /\ batch'[v] = batch[v] /\ seen'[v] = seen[v]
  BY DEF TypeOK, NextJob, Goto
<1>5. /\ phase'[w] \in {"idle", "run"}
      /\ phase'[w] = "run" => batch'[w] # <<>>
  BY <1>2 DEF TypeOK, NextJob, Goto
<1>6. WorkerInvariant'
  BY <1>4, <1>5, OthersKeep DEF Busy, Handling
<1> QED
  BY <1>2, <1>3, <1>6 DEF TypeOK, NextJob, Goto, Phases, Fees

-----------------------------------------------------------------------------
(* The steps of a worker.                                                  *)

\* Polling: what a worker claims goes to its batch.
LEMMA PollingKeeps ==
  ASSUME QueueInvariant, NEW w \in Workers,
         Poll(w) \/ SelectDue(w) \/ Claim(w) \/ PollFails(w)
  PROVE  QueueInvariant'
<1> USE DEF QueueInvariant
<1>1. FeeStep
  BY DEF FeeStep, Poll, SelectDue, Claim, PollFails, rows
<1>2. CASE Poll(w)
  <2>1. TypeOK'
    BY <1>2 DEF TypeOK, Poll, Serving, Goto, ReclaimExpiredLeases, JobStates, Phases, process
  <2>2. WorkerInvariant'
    BY <1>1, <1>2, OthersKeep
       DEF TypeOK, Poll, Goto, Busy, Handling
  <2>3. DoneMeansFinal'
    BY <1>2 DEF TypeOK, DoneMeansFinal, Poll, ReclaimExpiredLeases
  <2> QED
    BY <2>1, <2>2, <2>3
<1>3. CASE SelectDue(w)
  <2>1. TypeOK'
    BY <1>3 DEF TypeOK, SelectDue, Serving, Goto, DueJobs, Phases, rows, process
  <2>2. WorkerInvariant'
    BY <1>1, <1>3, OthersKeep DEF TypeOK, SelectDue, Goto, Busy, Handling
  <2>3. DoneMeansFinal'
    BY <1>3 DEF DoneMeansFinal, SelectDue, rows
  <2> QED
    BY <2>1, <2>2, <2>3
<1>4. CASE Claim(w)
  <2>1. PICK j \in todo[w] :
          /\ todo' = [todo EXCEPT ![w] = @ \ {j}]
          /\ IF j \in DueJobs THEN TakeLease(j) /\ KeepClaim(w, j)
                             ELSE UNCHANGED <<rows, batch, overlong>>
          /\ AfterClaim(w)
    BY <1>4 DEF Claim
  <2>2. j \in Jobs /\ attempts[j] + 1 \in Nat
    BY DEF TypeOK
  <2>3. /\ job' \in [Jobs -> JobStates] /\ attempts' \in [Jobs -> Nat]
        /\ lease' \in [Jobs -> 0..Lease] /\ due' \in [Jobs -> BOOLEAN]
        /\ \A k \in Jobs : job'[k] = "done" => job[k] = "done"
    <3>1. CASE j \in DueJobs
      BY <2>1, <2>2, <3>1, LeaseTaken DEF TypeOK
    <3>2. CASE j \notin DueJobs
      BY <2>1, <3>2 DEF TypeOK, rows
    <3> QED
      BY <3>1, <3>2
  <2>4. [job |-> j, attempts |-> attempts[j] + 1] \in Claims
    BY <2>2 DEF Claims
  <2>5. Append(batch[w], [job |-> j, attempts |-> attempts[j] + 1]) \in Seq(Claims)
    BY <2>4, AppendProperties DEF TypeOK
  <2>6. batch' \in [Workers -> Seq(Claims)] /\ overlong' \in BOOLEAN
    BY <2>1, <2>5 DEF TypeOK, KeepClaim
  <2>7. TypeOK'
    <3>1. phase' \in [Workers -> Phases]
      BY <2>1 DEF TypeOK, AfterClaim, Goto, Phases
    <3>2. todo' \in [Workers -> SUBSET Jobs]
      BY <2>1 DEF TypeOK
    <3> QED
      BY <1>4, <2>3, <2>6, <3>1, <3>2 DEF TypeOK, Claim
  <2>8. \A v \in Workers \ {w} :
          phase'[v] = phase[v] /\ batch'[v] = batch[v] /\ seen'[v] = seen[v]
    BY <1>4, <2>1 DEF TypeOK, Claim, KeepClaim, AfterClaim, Goto
  <2>9. /\ phase'[w] \in {"claim", "run", "rest"}
        /\ phase'[w] = "run" => batch'[w] # <<>>
    BY <2>1 DEF TypeOK, AfterClaim, Goto
  <2>10. WorkerInvariant'
    BY <1>1, <2>8, <2>9, OthersKeep DEF Busy, Handling
  <2>11. DoneMeansFinal'
    BY <1>4, <2>3 DEF DoneMeansFinal, Claim
  <2> QED
    BY <2>7, <2>10, <2>11
<1>5. CASE PollFails(w)
  <2>1. <<>> \in Seq(Claims)
    BY EmptySeq
  <2>2. /\ job' \in [Jobs -> JobStates] /\ attempts' \in [Jobs -> Nat]
        /\ lease' \in [Jobs -> 0..Lease] /\ due' \in [Jobs -> BOOLEAN]
        /\ \A j \in Jobs : job'[j] = "done" => job[j] = "done"
    <3>1. CASE UNCHANGED rows
      BY <3>1 DEF TypeOK, rows
    <3>2. CASE \E j \in todo[w] \cap DueJobs : TakeLease(j)
      BY <3>2, LeaseTaken DEF TypeOK, DueJobs
    <3> QED
      BY <1>5, <3>1, <3>2 DEF PollFails
  <2>3. TypeOK'
    BY <1>5, <2>1, <2>2, QueueAssumption DEF TypeOK, PollFails, Goto, Phases
  <2>4. WorkerInvariant'
    BY <1>1, <1>5, OthersKeep DEF TypeOK, PollFails, Goto, Busy, Handling
  <2>5. DoneMeansFinal'
    BY <1>5, <2>2 DEF DoneMeansFinal, PollFails
  <2> QED
    BY <2>3, <2>4, <2>5
<1> QED
  BY <1>2, <1>3, <1>4, <1>5

\* The handler: it charges once, and answers when the fee is final.
LEMMA HandlingKeeps ==
  ASSUME QueueInvariant, NEW w \in Workers,
         StartJob(w) \/ ReadFee(w) \/ ChargeFee(w) \/ ViewFee(w) \/ HandlerFails(w)
  PROVE  QueueInvariant' /\ FeeStep
<1> USE DEF QueueInvariant
<1>1. phase[w] \in Busy /\ batch[w] # <<>>
  BY DEF WorkerInvariant, StartJob, ReadFee, ChargeFee, ViewFee, HandlerFails, Serving,
         Busy, Handling
<1>2. Current(w) \in Jobs
  BY <1>1, CurrentIsJob
<1>3. batch' = batch /\ Current(w)' = Current(w) /\ job' = job
  BY DEF StartJob, ReadFee, ChargeFee, ViewFee, HandlerFails, rows, Current
<1>4. FeeStep
  BY <1>2 DEF WorkerInvariant, FeeStep, Final, TypeOK, Serving,
              StartJob, ReadFee, ChargeFee, ViewFee, HandlerFails, rows
<1>5. DoneMeansFinal'
  BY <1>3, <1>4 DEF DoneMeansFinal, FeeStep, Final
<1>6. CASE StartJob(w)
  <2>1. TypeOK'
    BY <1>6, QueueAssumption DEF TypeOK, StartJob, Goto, Phases, Handling, rows, process
  <2>2. WorkerInvariant'
    BY <1>1, <1>4, <1>6, OthersKeep DEF TypeOK, StartJob, Goto
  <2> QED
    BY <1>4, <1>5, <2>1, <2>2
<1>7. CASE ReadFee(w)
  <2>1. TypeOK'
    BY <1>2, <1>7 DEF TypeOK, ReadFee, Goto, Phases, Handling, rows, process
  <2>2. phase'[w] = IF fee[Current(w)] \in Final THEN "view" ELSE "charge"
    BY <1>7 DEF TypeOK, ReadFee, Goto, Final
  <2>3. seen'[w] = fee[Current(w)] /\ fee' = fee
    BY <1>7 DEF TypeOK, ReadFee
  <2>4. \A v \in Workers \ {w} :
          phase'[v] = phase[v] /\ batch'[v] = batch[v] /\ seen'[v] = seen[v]
    BY <1>7 DEF TypeOK, ReadFee, Goto
  <2>5. WorkerInvariant'
    BY <1>1, <1>3, <1>4, <2>2, <2>3, <2>4, OthersKeep
  <2> QED
    BY <1>4, <1>5, <2>1, <2>5
<1>8. CASE ChargeFee(w)
  <2>1. TypeOK'
    BY <1>2, <1>8 DEF TypeOK, ChargeFee, Goto, Phases, Handling, Fees, rows, process
  <2>2. \/ phase'[w] = "view" /\ fee'[Current(w)] = "settled"
        \/ phase'[w] = "retry"
    BY <1>2, <1>8 DEF TypeOK, ChargeFee, Goto
  <2>3. \A v \in Workers \ {w} :
          phase'[v] = phase[v] /\ batch'[v] = batch[v] /\ seen'[v] = seen[v]
    BY <1>8 DEF TypeOK, ChargeFee, Goto
  <2>4. WorkerInvariant'
    BY <1>1, <1>3, <1>4, <2>2, <2>3, OthersKeep DEF Final
  <2> QED
    BY <1>4, <1>5, <2>1, <2>4
<1>9. CASE ViewFee(w) \/ HandlerFails(w)
  <2>1. TypeOK'
    BY <1>9 DEF TypeOK, ViewFee, HandlerFails, Goto, Phases, Handling, rows, process
  <2>2. /\ phase'[w] \in {"ok", "retry", "terminal"}
        /\ phase'[w] = "ok" => phase[w] = "view"
        /\ fee' = fee
    BY <1>9 DEF TypeOK, ViewFee, HandlerFails, Serving, Goto
  <2>3. \A v \in Workers \ {w} :
          phase'[v] = phase[v] /\ batch'[v] = batch[v] /\ seen'[v] = seen[v]
    BY <1>9 DEF TypeOK, ViewFee, HandlerFails, Goto
  <2>4. fee'[Current(w)'] \in Final \/ phase'[w] # "ok"
    BY <1>3, <2>2 DEF WorkerInvariant
  <2>5. WorkerInvariant'
    BY <1>1, <1>3, <1>4, <2>2, <2>3, <2>4, OthersKeep
  <2> QED
    BY <1>4, <1>5, <2>1, <2>5
<1> QED
  BY <1>6, <1>7, <1>8, <1>9

\* Recording the outcome: a job is marked done by a worker that saw its fee final.
LEMMA RecordingKeeps ==
  ASSUME QueueInvariant, NEW w \in Workers,
         MarkDone(w) \/ MarkFailure(w) \/ RunHook(w) \/ BookkeepingFails(w)
  PROVE  QueueInvariant' /\ FeeStep
<1> USE DEF QueueInvariant
<1>1. phase[w] \in Busy /\ batch[w] # <<>>
  BY DEF WorkerInvariant, MarkDone, MarkFailure, RunHook, BookkeepingFails, Serving, Busy
<1>2. Current(w) \in Jobs
  BY <1>1, CurrentIsJob
<1>3. FeeStep
  BY <1>2 DEF FeeStep, Final, TypeOK, MarkDone, MarkFailure, RunHook, BookkeepingFails
<1>4. fee' \in [Jobs -> Fees] /\ job' \in [Jobs -> JobStates]
  <2>1. /\ \/ fee' = fee
           \/ \E f \in Fees : fee' = [fee EXCEPT ![Current(w)] = f]
        /\ \/ job' = job
           \/ \E s \in JobStates : job' = [job EXCEPT ![Current(w)] = s]
    BY DEF Fees, JobStates, MarkDone, MarkFailure, RunHook, BookkeepingFails, rows
  <2> QED
    BY <1>2, <2>1 DEF TypeOK
<1>5. \A j \in Jobs : job'[j] = "done" => job[j] = "done" \/ fee[j] \in Final
  BY <1>2 DEF TypeOK, WorkerInvariant, Serving,
              MarkDone, MarkFailure, RunHook, BookkeepingFails, rows
<1>6. DoneMeansFinal'
  BY <1>3, <1>5 DEF DoneMeansFinal, FeeStep, Final
<1>7. /\ attempts' = attempts /\ lease' = lease /\ due' \in [Jobs -> BOOLEAN]
      /\ up' = up /\ cancelled' = cancelled /\ mishaps' \in 0..Mishaps /\ overlong' = overlong
  <2>1. CASE MarkDone(w)
    BY <2>1 DEF TypeOK, MarkDone, process
  <2>2. CASE MarkFailure(w)
    <3>1. due' = due \/ due' = [due EXCEPT ![Current(w)] = FALSE]
      BY <2>2 DEF MarkFailure
    <3>2. due' \in [Jobs -> BOOLEAN]
      BY <3>1 DEF TypeOK
    <3> QED
      BY <2>2, <3>2 DEF TypeOK, MarkFailure, process
  <2>3. CASE RunHook(w)
    BY <2>3 DEF TypeOK, RunHook, rows, process
  <2>4. CASE BookkeepingFails(w)
    BY <2>4, QueueAssumption DEF TypeOK, BookkeepingFails, rows
  <2> QED
    BY <2>1, <2>2, <2>3, <2>4
<1>8. CASE NextJob(w)
  BY <1>1, <1>3, <1>4, <1>6, <1>7, <1>8, NextJobKeeps DEF TypeOK
<1>9. CASE ~NextJob(w)
  <2>1. Goto(w, "hook") /\ UNCHANGED <<todo, batch, seen, budget>>
    BY <1>9 DEF MarkDone, MarkFailure, RunHook, BookkeepingFails
  <2>2. TypeOK'
    BY <1>4, <1>7, <2>1 DEF TypeOK, Goto, Phases
  <2>3. WorkerInvariant'
    BY <1>1, <1>3, <2>1, OthersKeep DEF TypeOK, Goto
  <2> QED
    BY <1>3, <1>6, <2>2, <2>3
<1> QED
  BY <1>8, <1>9

-----------------------------------------------------------------------------
(* The process, time, the enqueuing service and the ranger.                *)

\* What happens around the workers keeps the invariant.
LEMMA SurroundingsKeep ==
  ASSUME QueueInvariant,
         \/ \E j \in Jobs : Enqueue(j) \/ BecomeDue(j) \/ Waive(j)
         \/ Stop \/ Exit \/ Crash \/ Start \/ Tick
  PROVE  QueueInvariant' /\ FeeStep
<1> USE DEF QueueInvariant
<1>1. FeeStep
  BY DEF FeeStep, Final, TypeOK, Enqueue, BecomeDue, Waive, Stop, Exit, Crash, Start, Tick
<1>2. \A j \in Jobs : job'[j] = "done" => job[j] = "done"
  BY DEF TypeOK, Enqueue, BecomeDue, Waive, Stop, Exit, Crash, Start, Tick,
         ReclaimExpiredLeases, rows
<1>3. DoneMeansFinal'
  BY <1>1, <1>2 DEF DoneMeansFinal, FeeStep, Final
<1>4. CASE Crash
  <2> <<>> \in Seq(Claims) /\ 0 \in 0..Timeout
    BY EmptySeq, QueueAssumption
  <2>1. TypeOK'
    <3>1. /\ phase' \in [Workers -> Phases] /\ todo' \in [Workers -> SUBSET Jobs]
          /\ seen' \in [Workers -> Fees] /\ budget' \in [Workers -> 0..Timeout]
          /\ batch' \in [Workers -> Seq(Claims)]
      BY <1>4 DEF Crash, Phases, Fees
    <3>2. mishaps' \in 0..Mishaps
      BY <1>4, QueueAssumption DEF TypeOK, Crash
    <3>3. up' = FALSE /\ cancelled' = cancelled /\ overlong' = overlong
      BY <1>4 DEF Crash
    <3> QED
      BY <1>4, <3>1, <3>2, <3>3 DEF TypeOK, Crash, rows
  <2>2. WorkerInvariant'
    BY <1>4 DEF WorkerInvariant, Crash, Busy, Handling
  <2> QED
    BY <1>1, <1>3, <2>1, <2>2
<1>5. CASE Tick
  <2>1. \A n \in Nat : Less(n) \in 0..n
    BY DEF Less
  <2>2. lease' \in [Jobs -> 0..Lease] /\ budget' \in [Workers -> 0..Timeout]
    BY <1>5, <2>1, QueueAssumption DEF TypeOK, Tick
  <2>3. TypeOK'
    BY <1>5, <2>2 DEF TypeOK, Tick, Phases, process
  <2>4. WorkerInvariant'
    BY <1>5 DEF TypeOK, WorkerInvariant, Tick, Busy, Handling, Current
  <2> QED
    BY <1>1, <1>3, <2>3, <2>4
<1>6. CASE \/ \E j \in Jobs : Enqueue(j) \/ BecomeDue(j) \/ Waive(j)
           \/ Stop \/ Exit \/ Start
  <2>1. phase' = phase /\ batch' = batch /\ seen' = seen /\ todo' = todo /\ budget' = budget
    BY <1>6 DEF Enqueue, BecomeDue, Waive, Stop, Exit, Start, workers
  <2>2. TypeOK'
    <3>1. job' \in [Jobs -> JobStates] /\ due' \in [Jobs -> BOOLEAN]
      BY <1>6 DEF TypeOK, Enqueue, BecomeDue, Waive, Stop, Exit, Start,
                  ReclaimExpiredLeases, JobStates, rows
    <3>2. fee' \in [Jobs -> Fees] /\ attempts' = attempts /\ lease' = lease
      BY <1>6 DEF TypeOK, Enqueue, BecomeDue, Waive, Stop, Exit, Start, Fees, rows
    <3>3. mishaps' \in 0..Mishaps
      BY <1>6, QueueAssumption
         DEF TypeOK, Enqueue, BecomeDue, Waive, Stop, Exit, Start, process
    <3>4. up' \in BOOLEAN /\ cancelled' \in BOOLEAN /\ overlong' \in BOOLEAN
      BY <1>6 DEF TypeOK, Enqueue, BecomeDue, Waive, Stop, Exit, Start, process
    <3> QED
      BY <2>1, <3>1, <3>2, <3>3, <3>4 DEF TypeOK
  <2>3. \A w \in Workers : phase[w] \in Busy => Current(w) \in Jobs
    BY CurrentIsJob DEF WorkerInvariant
  <2>4. WorkerInvariant'
    BY <1>1, <2>1, <2>3 DEF WorkerInvariant, FeeStep, Current, Busy, Handling
  <2> QED
    BY <1>1, <1>3, <2>2, <2>4
<1> QED
  BY <1>4, <1>5, <1>6

-----------------------------------------------------------------------------
(* The theorems.                                                           *)

LEMMA InitialInvariant ==
  Init => QueueInvariant
<1> SUFFICES ASSUME Init
             PROVE  QueueInvariant
  OBVIOUS
<1>1. <<>> \in Seq(Claims) /\ 0 \in 0..Timeout /\ 0 \in 0..Lease /\ 0 \in 0..Mishaps
  BY EmptySeq, QueueAssumption
<1>2. TypeOK
  BY <1>1 DEF Init, TypeOK, JobStates, Fees, Phases
<1>3. WorkerInvariant /\ DoneMeansFinal
  BY DEF Init, WorkerInvariant, DoneMeansFinal, Busy, Handling
<1> QED
  BY <1>2, <1>3 DEF QueueInvariant

LEMMA StepInvariant ==
  QueueInvariant /\ [Next]_vars => QueueInvariant' /\ FeeStep
<1> SUFFICES ASSUME QueueInvariant, [Next]_vars
             PROVE  QueueInvariant' /\ FeeStep
  OBVIOUS
<1>1. ASSUME NEW w \in Workers,
             Poll(w) \/ SelectDue(w) \/ Claim(w) \/ PollFails(w)
      PROVE  QueueInvariant' /\ FeeStep
  <2>1. QueueInvariant'
    BY <1>1, PollingKeeps
  <2>2. FeeStep
    BY <1>1 DEF FeeStep, Poll, SelectDue, Claim, PollFails
  <2> QED
    BY <2>1, <2>2
<1>2. ASSUME NEW w \in Workers,
             StartJob(w) \/ ReadFee(w) \/ ChargeFee(w) \/ ViewFee(w) \/ HandlerFails(w)
      PROVE  QueueInvariant' /\ FeeStep
  BY <1>2, HandlingKeeps
<1>3. ASSUME NEW w \in Workers,
             MarkDone(w) \/ MarkFailure(w) \/ RunHook(w) \/ BookkeepingFails(w)
      PROVE  QueueInvariant' /\ FeeStep
  BY <1>3, RecordingKeeps
<1>4. CASE \/ \E j \in Jobs : Enqueue(j) \/ BecomeDue(j) \/ Waive(j)
           \/ Stop \/ Exit \/ Crash \/ Start \/ Tick
  BY <1>4, SurroundingsKeep
<1>5. CASE UNCHANGED vars
  <2>1. TypeOK' /\ FeeStep
    BY <1>5 DEF QueueInvariant, TypeOK, FeeStep, vars, rows, workers, process
  <2>2. WorkerInvariant' /\ DoneMeansFinal'
    BY <1>5 DEF QueueInvariant, WorkerInvariant, DoneMeansFinal, Current,
                vars, rows, workers, process
  <2> QED
    BY <2>1, <2>2 DEF QueueInvariant
<1> QED
  BY <1>1, <1>2, <1>3, <1>4, <1>5 DEF Next, Work, Trouble

\* The rows of the queue, the fees and the local state of the workers always have
\* their types.
THEOREM QueueTypeCorrect == Spec => []TypeOK
<1>1. QueueInvariant => TypeOK
  BY DEF QueueInvariant
<1> QED
  BY <1>1, InitialInvariant, StepInvariant, PTL DEF Spec

\* However many workers execute a job, whatever leases expire and whatever crashes,
\* a job marked done has its fee charged or waived.
THEOREM DoneJobsAreFinal == Spec => []DoneMeansFinal
<1>1. QueueInvariant => DoneMeansFinal
  BY DEF QueueInvariant
<1> QED
  BY <1>1, InitialInvariant, StepInvariant, PTL DEF Spec

\* However many workers execute a job at the same time, no fee that was charged or
\* waived changes again.
THEOREM FeesStayFinal == Spec => FinalFeeStays
<1>1. FeeStep => (\A j \in Jobs : fee[j] \in {"settled", "waived"} => fee'[j] = fee[j])
  BY DEF FeeStep, Final
<1>2. QueueInvariant /\ [Next]_vars
        => [\A j \in Jobs : fee[j] \in {"settled", "waived"} => fee'[j] = fee[j]]_fee
  BY <1>1, StepInvariant
<1> QED
  BY <1>2, InitialInvariant, StepInvariant, PTL DEF Spec, FinalFeeStays

-----------------------------------------------------------------------------
(* Batches and rows from one step to the next.                             *)

\* The indices of the claims that a worker holds.
Held(w) == 1..Len(batch[w])

\* The claims of a batch, of what remains of it, and of a batch that grows.
LEMMA ClaimsOfBatch ==
  ASSUME NEW s \in Seq(Claims)
  PROVE  /\ Len(s) \in Nat
         /\ \A i \in 1..Len(s) : s[i] \in Claims /\ s[i].job \in Jobs /\ s[i].attempts \in Nat
         /\ s # <<>> => /\ Len(s) >= 1
                        /\ Head(s) = s[1]
                        /\ Len(Tail(s)) = Len(s) - 1
                        /\ \A i \in 1..(Len(s) - 1) : Tail(s)[i] = s[i + 1]
         /\ \A c \in Claims :
              /\ Len(Append(s, c)) = Len(s) + 1
              /\ \A i \in 1..Len(s) : Append(s, c)[i] = s[i]
              /\ Append(s, c)[Len(s) + 1] = c
<1>1. Len(s) \in Nat /\ \A i \in 1..Len(s) : s[i] \in Claims
  BY LenProperties, ElementOfSeq
<1>2. s # <<>> => Len(s) >= 1
  BY <1>1, EmptySeq
<1>3. s # <<>> => /\ Head(s) = s[1]
                  /\ Len(Tail(s)) = Len(s) - 1
                  /\ \A i \in 1..(Len(s) - 1) : Tail(s)[i] = s[i + 1]
  BY HeadTailProperties
<1>4. ASSUME NEW c \in Claims
      PROVE  /\ Len(Append(s, c)) = Len(s) + 1
             /\ \A i \in 1..Len(s) : Append(s, c)[i] = s[i]
             /\ Append(s, c)[Len(s) + 1] = c
  BY AppendProperties
<1> QED
  BY <1>1, <1>2, <1>3, <1>4 DEF Claims

\* A batch loses its first claim or all of them, or gains one that the worker just made.
LEMMA BatchStep ==
  ASSUME QueueInvariant, [Next]_vars, NEW w \in Workers
  PROVE  \/ batch'[w] = batch[w]
         \/ batch'[w] = <<>>
         \/ batch[w] # <<>> /\ batch'[w] = Tail(batch[w])
         \/ \E j \in Jobs :
              /\ Claim(w) /\ job[j] = "queued"
              /\ attempts' = [attempts EXCEPT ![j] = @ + 1]
              /\ batch'[w] = Append(batch[w], [job |-> j, attempts |-> attempts[j] + 1])
<1> USE DEF QueueInvariant
<1>1. CASE \E v \in Workers : Claim(v)
  <2>1. PICK v \in Workers : Claim(v)
    BY <1>1
  <2>2. PICK j \in todo[v] :
          IF j \in DueJobs
            THEN /\ attempts' = [attempts EXCEPT ![j] = @ + 1]
                 /\ batch' = [batch EXCEPT ![v] =
                                Append(@, [job |-> j, attempts |-> attempts[j] + 1])]
            ELSE batch' = batch
    BY <2>1 DEF Claim, TakeLease, KeepClaim
  <2>3. CASE j \in DueJobs /\ w = v
    <3>1. batch'[w] = Append(batch[w], [job |-> j, attempts |-> attempts[j] + 1])
      BY <2>2, <2>3 DEF TypeOK
    <3> QED
      BY <2>1, <2>2, <2>3, <3>1 DEF DueJobs
  <2>4. CASE ~(j \in DueJobs /\ w = v)
    <3>1. batch'[w] = batch[w]
      BY <2>2, <2>4 DEF TypeOK
    <3> QED
      BY <3>1
  <2> QED
    BY <2>3, <2>4
<1>2. CASE \E v \in Workers :
             MarkDone(v) \/ MarkFailure(v) \/ RunHook(v) \/ BookkeepingFails(v)
  <2>1. PICK v \in Workers :
          MarkDone(v) \/ MarkFailure(v) \/ RunHook(v) \/ BookkeepingFails(v)
    BY <1>2
  <2>2. batch[v] # <<>>
    BY <2>1 DEF WorkerInvariant, MarkDone, MarkFailure, RunHook, BookkeepingFails, Serving, Busy
  <2> QED
    BY <2>1, <2>2 DEF MarkDone, MarkFailure, RunHook, BookkeepingFails, NextJob, TypeOK
<1>3. CASE \E v \in Workers : PollFails(v)
  BY <1>3 DEF PollFails, TypeOK
<1>4. CASE Crash
  BY <1>4 DEF Crash
<1>5. CASE \/ \E v \in Workers : \/ Poll(v) \/ SelectDue(v) \/ StartJob(v) \/ ReadFee(v)
                                \/ ChargeFee(v) \/ ViewFee(v) \/ HandlerFails(v)
           \/ \E j \in Jobs : Enqueue(j) \/ BecomeDue(j) \/ Waive(j)
           \/ Stop \/ Exit \/ Start \/ Tick \/ UNCHANGED vars
  BY <1>5 DEF Poll, SelectDue, StartJob, ReadFee, ChargeFee, ViewFee, HandlerFails,
              Enqueue, BecomeDue, Waive, Stop, Exit, Start, Tick, workers, vars
<1> QED
  BY <1>1, <1>2, <1>3, <1>4, <1>5 DEF Next, Work, Trouble

\* Attempts are only ever counted up.
LEMMA AttemptsGrow ==
  ASSUME QueueInvariant, [Next]_vars, NEW j \in Jobs
  PROVE  attempts'[j] >= attempts[j]
<1>1. CASE \E w \in Workers : Claim(w) \/ PollFails(w)
  <2>1. \/ attempts' = attempts
        \/ \E k \in Jobs : attempts' = [attempts EXCEPT ![k] = @ + 1]
    BY <1>1 DEF Claim, PollFails, TakeLease, DueJobs, rows
  <2>2. attempts \in [Jobs -> Nat]
    BY DEF QueueInvariant, TypeOK
  <2>3. attempts[j] \in Nat
    BY <2>2
  <2>4. attempts'[j] = attempts[j] \/ attempts'[j] = attempts[j] + 1
    BY <2>1, <2>2
  <2> QED
    BY <2>3, <2>4
<1>2. CASE ~\E w \in Workers : Claim(w) \/ PollFails(w)
  <2>1. attempts' = attempts
    BY <1>2 DEF Next, Work, Trouble, Poll, SelectDue, StartJob, ReadFee, ChargeFee, ViewFee,
       HandlerFails, BookkeepingFails, MarkDone, MarkFailure, RunHook, Enqueue,
       BecomeDue, Waive, Stop, Exit, Crash, Start, Tick, rows, vars
  <2> QED
    BY <2>1 DEF QueueInvariant, TypeOK
<1> QED
  BY <1>1, <1>2

\* A row of a job is written in four ways only; it is parked by a worker that executes
\* it and then calls the hook.
LEMMA JobStep ==
  ASSUME QueueInvariant, [Next]_vars, NEW j \in Jobs, job'[j] # job[j]
  PROVE  \/ job[j] \in {"absent", "running"} /\ job'[j] = "queued"
         \/ job[j] = "queued" /\ job'[j] = "running"
         \/ job[j] = "running" /\ job'[j] = "done"
         \/ /\ job[j] = "running" /\ job'[j] = "failed"
            /\ \E w \in Workers :
                 /\ batch[w] # <<>> /\ Current(w) = j /\ Permanent(w)
                 /\ phase'[w] = "hook" /\ batch' = batch
<1> USE DEF QueueInvariant
<1>1. CASE \E w \in Workers : MarkDone(w)
  BY <1>1 DEF MarkDone, TypeOK
<1>2. CASE \E w \in Workers : MarkFailure(w)
  <2>1. PICK w \in Workers : MarkFailure(w)
    BY <1>2
  <2>2. batch[w] # <<>>
    BY <2>1 DEF WorkerInvariant, MarkFailure, Busy
  <2>3. job[j] = "running" /\ Current(w) = j /\ job'[j] \in {"failed", "queued"}
    BY <2>1 DEF MarkFailure, TypeOK
  <2>4. job'[j] = "failed" => Permanent(w) /\ Goto(w, "hook") /\ batch' = batch
    BY <2>1, <2>3 DEF MarkFailure, TypeOK
  <2> QED
    BY <2>2, <2>3, <2>4 DEF Goto, TypeOK
<1>3. CASE \E w \in Workers : Claim(w) \/ PollFails(w)
  BY <1>3 DEF Claim, PollFails, TakeLease, DueJobs, TypeOK, rows
<1>4. CASE Start \/ \E w \in Workers : Poll(w)
  BY <1>4 DEF Start, Poll, ReclaimExpiredLeases
<1>5. CASE \E k \in Jobs : Enqueue(k)
  BY <1>5 DEF Enqueue, TypeOK
<1>6. CASE \/ \E w \in Workers : \/ SelectDue(w) \/ StartJob(w) \/ ReadFee(w) \/ ChargeFee(w)
                                \/ ViewFee(w) \/ RunHook(w)
                                \/ HandlerFails(w) \/ BookkeepingFails(w)
           \/ \E k \in Jobs : BecomeDue(k) \/ Waive(k)
           \/ Stop \/ Exit \/ Crash \/ Tick \/ UNCHANGED vars
  BY <1>6 DEF SelectDue, StartJob, ReadFee, ChargeFee, ViewFee, RunHook, HandlerFails,
     BookkeepingFails, BecomeDue, Waive, Stop, Exit, Crash, Tick, rows, vars
<1> QED
  BY <1>1, <1>2, <1>3, <1>4, <1>5, <1>6 DEF Next, Work, Trouble

\* A finished job is never run again: a late outcome of a worker that lost its lease does
\* not revive it.
THEOREM FinishedJobsStay == Spec => FinishedStays
<1>1. QueueInvariant /\ [Next]_vars => [\A j \in Jobs : Finished(j) => job'[j] = job[j]]_job
  BY JobStep DEF Finished
<1> QED
  BY <1>1, InitialInvariant, StepInvariant, PTL DEF Spec, FinishedStays

-----------------------------------------------------------------------------
(* Parking.                                                                *)

\* The attempts a worker read when it claimed a job are attempts that were made.
ClaimsWereMade ==
  \A w \in Workers : \A i \in Held(w) : batch[w][i].attempts <= attempts[batch[w][i].job]

\* Before the first mishap the process runs and nobody cancels it, so no failure is
\* terminal.
Undisturbed ==
  mishaps = 0 => up /\ ~cancelled /\ \A w \in Workers : phase[w] # "terminal"

ParkingInvariant == ClaimsWereMade /\ Undisturbed /\ UndisturbedParking

LEMMA ClaimsStayMade ==
  ASSUME QueueInvariant, [Next]_vars, ClaimsWereMade
  PROVE  ClaimsWereMade'
<1> SUFFICES ASSUME NEW w \in Workers, NEW i \in 1..Len(batch'[w])
             PROVE  batch'[w][i].attempts <= attempts'[batch'[w][i].job]
  BY DEF ClaimsWereMade, Held
<1>1. batch[w] \in Seq(Claims) /\ attempts \in [Jobs -> Nat] /\ attempts' \in [Jobs -> Nat]
  BY StepInvariant DEF QueueInvariant, TypeOK
<1>2. \A k \in Held(w) : /\ batch[w][k].job \in Jobs /\ batch[w][k].attempts \in Nat
                        /\ batch[w][k].attempts <= attempts'[batch[w][k].job]
  <2> SUFFICES ASSUME NEW k \in Held(w)
               PROVE  /\ batch[w][k].job \in Jobs /\ batch[w][k].attempts \in Nat
                      /\ batch[w][k].attempts <= attempts'[batch[w][k].job]
    OBVIOUS
  <2>1. batch[w][k].job \in Jobs /\ batch[w][k].attempts \in Nat
    BY <1>1, ClaimsOfBatch DEF Held
  <2>2. attempts'[batch[w][k].job] >= attempts[batch[w][k].job]
    BY <2>1, AttemptsGrow
  <2> QED
    BY <1>1, <2>1, <2>2 DEF ClaimsWereMade
<1>3. CASE batch'[w] = batch[w]
  BY <1>2, <1>3 DEF Held
<1>4. CASE batch'[w] = <<>>
  BY <1>4, EmptySeq
<1>5. CASE batch[w] # <<>> /\ batch'[w] = Tail(batch[w])
  <2>1. i + 1 \in Held(w) /\ batch'[w][i] = batch[w][i + 1]
    BY <1>1, <1>5, ClaimsOfBatch DEF Held
  <2> QED
    BY <1>2, <2>1
<1>6. ASSUME NEW j \in Jobs,
             attempts' = [attempts EXCEPT ![j] = @ + 1],
             batch'[w] = Append(batch[w], [job |-> j, attempts |-> attempts[j] + 1])
      PROVE  batch'[w][i].attempts <= attempts'[batch'[w][i].job]
  <2> DEFINE c == [job |-> j, attempts |-> attempts[j] + 1]
  <2>1. c \in Claims /\ c.attempts = attempts'[c.job] /\ c.attempts \in Nat
    BY <1>1, <1>6 DEF Claims
  <2>2. batch'[w] = Append(batch[w], c)
    BY <1>6
  <2> HIDE DEF c
  <2>3. batch'[w][i] = c \/ (i \in Held(w) /\ batch'[w][i] = batch[w][i])
    BY <1>1, <2>1, <2>2, ClaimsOfBatch DEF Held
  <2> QED
    BY <1>2, <2>1, <2>3
<1> QED
  BY <1>3, <1>4, <1>5, <1>6, BatchStep

LEMMA UndisturbedStays ==
  ASSUME QueueInvariant, [Next]_vars, Undisturbed
  PROVE  /\ Undisturbed'
         /\ mishaps' = 0 => mishaps = 0
<1> USE DEF QueueInvariant, Undisturbed
<1> SUFFICES ASSUME mishaps' = 0
             PROVE  /\ mishaps = 0 /\ up' /\ ~cancelled'
                    /\ \A w \in Workers : phase'[w] # "terminal"
  OBVIOUS
<1>1. mishaps \in Nat
  BY QueueAssumption DEF TypeOK
<1>2. CASE \E w \in Workers : Poll(w) \/ SelectDue(w) \/ StartJob(w) \/ ReadFee(w) \/ ViewFee(w)
  BY <1>2 DEF Poll, SelectDue, StartJob, ReadFee, ViewFee, Goto, TypeOK, process
<1>3. CASE \E w \in Workers : ChargeFee(w) \/ HandlerFails(w)
  BY <1>3 DEF ChargeFee, HandlerFails, Goto, TypeOK, process
<1>4. CASE \E w \in Workers : Claim(w)
  BY <1>4 DEF Claim, AfterClaim, Goto, TypeOK, process
<1>5. CASE \E w \in Workers : MarkDone(w) \/ MarkFailure(w) \/ RunHook(w)
  BY <1>5 DEF MarkDone, MarkFailure, RunHook, NextJob, Goto, TypeOK, process
<1>6. CASE Stop \/ Crash \/ Exit \/ Start \/ \E w \in Workers : PollFails(w) \/ BookkeepingFails(w)
  BY <1>1, <1>6 DEF Stop, Crash, Exit, Start, PollFails, BookkeepingFails, Goto, TypeOK
<1>7. CASE Tick \/ UNCHANGED vars \/ \E j \in Jobs : Enqueue(j) \/ BecomeDue(j) \/ Waive(j)
  BY <1>7 DEF Tick, Enqueue, BecomeDue, Waive, TypeOK, workers, process, vars
<1> QED
  BY <1>2, <1>3, <1>4, <1>5, <1>6, <1>7 DEF Next, Work, Trouble

\* Without a mishap a hook on its way goes on, or parks the fee; a fee that is not
\* pending never becomes it.
LEMMA HooksRun ==
  ASSUME QueueInvariant, [Next]_vars, mishaps' = 0, mishaps = 0, ~cancelled, NEW j \in Jobs
  PROVE  /\ fee[j] # "pending" => fee'[j] # "pending"
         /\ \A w \in Workers :
              phase[w] = "hook" /\ Current(w) = j
                => \/ phase'[w] = "hook" /\ Current(w)' = j
                   \/ fee'[j] # "pending"
<1> USE DEF QueueInvariant
<1> USE DEF Goto
<1>1. fee[j] # "pending" => fee'[j] # "pending"
  <2>1. CASE \E w \in Workers : ChargeFee(w)
    BY <2>1 DEF ChargeFee, TypeOK
  <2>2. CASE \E w \in Workers : RunHook(w)
    BY <2>2 DEF RunHook, TypeOK
  <2>3. CASE \E k \in Jobs : Waive(k)
    BY <2>3 DEF Waive, TypeOK
  <2>4. CASE ~ \/ \E w \in Workers : ChargeFee(w) \/ RunHook(w)
               \/ \E k \in Jobs : Waive(k)
    BY <2>4 DEF Next, Work, Trouble, Poll, SelectDue, Claim, StartJob, ReadFee, ViewFee,
       HandlerFails, PollFails, BookkeepingFails, MarkDone, MarkFailure, Enqueue,
       BecomeDue, Stop, Exit, Crash, Start, Tick, rows, vars
  <2> QED
    BY <2>1, <2>2, <2>3, <2>4
<1>2. ASSUME NEW w \in Workers, phase[w] = "hook", Current(w) = j
      PROVE  \/ phase'[w] = "hook" /\ Current(w)' = j
             \/ fee'[j] # "pending"
  <2>1. mishaps' = mishaps
    OBVIOUS
  <2>2. CASE RunHook(w)
    BY <1>2, <2>2 DEF RunHook, TypeOK
  <2>3. ASSUME NEW v \in Workers, v # w \/ ~RunHook(w), Work(v) \/ Trouble(v)
        PROVE  phase'[w] = "hook" /\ batch'[w] = batch[w]
    <3>1. v # w
      BY <1>2, <2>3, <2>1, QueueAssumption DEF Work, Trouble, Poll, SelectDue, Claim, StartJob,
         ReadFee, ChargeFee, ViewFee, HandlerFails, PollFails, BookkeepingFails, MarkDone,
         MarkFailure, RunHook, Serving, Handling, TypeOK
    <3>2. \/ Poll(v) \/ SelectDue(v) \/ StartJob(v) \/ ReadFee(v) \/ ChargeFee(v) \/ ViewFee(v)
          \/ HandlerFails(v) \/ PollFails(v)
          => phase'[w] = phase[w] /\ batch'[w] = batch[w]
      BY <3>1 DEF Poll, SelectDue, StartJob, ReadFee, ChargeFee, ViewFee, HandlerFails,
         PollFails, TypeOK
    <3>3. Claim(v) => phase'[w] = phase[w] /\ batch'[w] = batch[w]
      BY <3>1 DEF Claim, KeepClaim, AfterClaim, TypeOK
    <3>4. MarkDone(v) \/ MarkFailure(v) \/ RunHook(v) \/ BookkeepingFails(v)
          => phase'[w] = phase[w] /\ batch'[w] = batch[w]
      BY <3>1 DEF MarkDone, MarkFailure, RunHook, BookkeepingFails, NextJob, TypeOK
    <3> QED
      BY <1>2, <2>3, <3>2, <3>3, <3>4 DEF Work, Trouble
  <2>4. CASE \/ \E k \in Jobs : Enqueue(k) \/ BecomeDue(k) \/ Waive(k)
             \/ Stop \/ Exit \/ Crash \/ Start \/ Tick \/ UNCHANGED vars
    <3>1. ~Crash
      BY DEF Crash
    <3>2. ~Tick
      BY <1>2 DEF Tick, Handling
    <3>3. phase' = phase /\ batch' = batch
      BY <2>4, <3>1, <3>2 DEF Enqueue, BecomeDue, Waive, Stop, Exit, Start, workers, vars
    <3> QED
      BY <1>2, <3>3 DEF Current
  <2> QED
    BY <1>2, <2>2, <2>3, <2>4 DEF Next, Current
<1> QED
  BY <1>1, <1>2

\* As long as no statement failed and the process did not end, a job is parked only after
\* all its attempts and never without its fee, although stale workers record outcomes too.
THEOREM ParkingIsUndisturbed == Spec => []UndisturbedParking
<1>1. Init => ParkingInvariant
  <2> SUFFICES ASSUME Init
               PROVE  ParkingInvariant
    OBVIOUS
  <2>1. ClaimsWereMade
    BY EmptySeq DEF Init, ClaimsWereMade, Held
  <2>2. Undisturbed /\ UndisturbedParking
    BY DEF Init, Undisturbed, UndisturbedParking, ParkedJobParksFee, ParkedAfterAllAttempts
  <2> QED
    BY <2>1, <2>2 DEF ParkingInvariant
<1>2. ASSUME QueueInvariant, ParkingInvariant, [Next]_vars
      PROVE  ParkingInvariant'
  <2>1. ClaimsWereMade' /\ Undisturbed' /\ (mishaps' = 0 => mishaps = 0)
    BY <1>2, ClaimsStayMade, UndisturbedStays DEF ParkingInvariant
  <2>2. ASSUME mishaps' = 0, NEW j \in Jobs, job'[j] = "failed", job[j] # "failed"
        PROVE  /\ attempts'[j] >= MaxAttempts
               /\ \E w \in Workers : phase'[w] = "hook" /\ Current(w)' = j
    <3>1. PICK w \in Workers :
            /\ batch[w] # <<>> /\ Current(w) = j /\ Permanent(w)
            /\ phase'[w] = "hook" /\ batch' = batch
      BY <1>2, <2>2, JobStep
    <3>2. AttemptsRead(w) >= MaxAttempts
      BY <1>2, <2>1, <2>2, <3>1 DEF ParkingInvariant, Undisturbed, Permanent
    <3>3. batch[w] \in Seq(Claims) /\ attempts[j] \in Nat
      BY <1>2 DEF QueueInvariant, TypeOK
    <3>4. 1 \in Held(w) /\ batch[w][1].job = j /\ batch[w][1].attempts = AttemptsRead(w)
      BY <3>1, <3>3, ClaimsOfBatch DEF Held, Current, AttemptsRead
    <3>5. AttemptsRead(w) <= attempts[j] /\ AttemptsRead(w) \in Nat
      BY <1>2, <3>3, <3>4, ClaimsOfBatch DEF ParkingInvariant, ClaimsWereMade, Held
    <3>6. attempts'[j] >= attempts[j] /\ attempts'[j] \in Nat
      BY <1>2, AttemptsGrow, StepInvariant DEF QueueInvariant, TypeOK
    <3>7. Current(w)' = j
      BY <3>1 DEF Current
    <3> QED
      BY <3>1, <3>2, <3>3, <3>5, <3>6, <3>7, QueueAssumption
  <2>3. ASSUME mishaps' = 0, NEW j \in Jobs, job'[j] = "failed", job[j] = "failed"
        PROVE  /\ attempts'[j] >= MaxAttempts
               /\ \/ fee'[j] # "pending"
                  \/ \E w \in Workers : phase'[w] = "hook" /\ Current(w)' = j
    <3>1. attempts[j] >= MaxAttempts
      BY <1>2, <2>1, <2>3 DEF ParkingInvariant, UndisturbedParking, ParkedAfterAllAttempts
    <3>2. attempts'[j] >= MaxAttempts
      <4>1. attempts'[j] >= attempts[j] /\ attempts'[j] \in Nat /\ attempts[j] \in Nat
        BY <1>2, AttemptsGrow, StepInvariant DEF QueueInvariant, TypeOK
      <4> QED
        BY <3>1, <4>1, QueueAssumption
    <3>3. fee[j] # "pending" \/ \E w \in Workers : phase[w] = "hook" /\ Current(w) = j
      BY <1>2, <2>1, <2>3 DEF ParkingInvariant, UndisturbedParking, ParkedJobParksFee
    <3>4. ~cancelled
      BY <1>2, <2>1, <2>3 DEF ParkingInvariant, Undisturbed
    <3> QED
      BY <1>2, <2>1, <2>3, <3>2, <3>3, <3>4, HooksRun
  <2>4. UndisturbedParking'
    BY <2>2, <2>3 DEF UndisturbedParking, ParkedJobParksFee, ParkedAfterAllAttempts
  <2> QED
    BY <2>1, <2>4 DEF ParkingInvariant
<1>3. ParkingInvariant => UndisturbedParking
  BY DEF ParkingInvariant
<1> QED
  BY <1>1, <1>2, <1>3, InitialInvariant, StepInvariant, PTL DEF Spec

-----------------------------------------------------------------------------
(* One worker for each job, as long as leases outlast the batches.           *)

\* What the handlers of n jobs may take, and what the job at hand may still take.
Turns(n) == n * Timeout
Slack(w) ==
  IF phase[w] \in {"claim", "run"} THEN Timeout
  ELSE IF phase[w] \in Handling THEN budget[w] ELSE 0

\* The jobs that a worker holds run, or have just been parked, and each lease lasts
\* until the worker has come to the job and is through with it.
HeldJobsRun(w) ==
  \A i \in Held(w) :
    /\ job[batch[w][i].job] = IF i = 1 /\ phase[w] = "hook" THEN "failed" ELSE "running"
    /\ lease[batch[w][i].job] > Turns(i - 1) + Slack(w)

\* No job is held twice, by two workers or by one.
HeldOnce ==
  \A v, w \in Workers : \A i \in Held(v), k \in Held(w) :
    batch[v][i].job = batch[w][k].job => v = w /\ i = k

\* A worker that has not yet claimed anything holds nothing.
RestsEmpty(w) == phase[w] \in {"rest", "idle", "select"} => batch[w] = <<>>

LeaseInvariant ==
  /\ \A w \in Workers : HeldJobsRun(w) /\ RestsEmpty(w)
  /\ HeldOnce

LEMMA TurnsAdd ==
  \A n \in Nat : Turns(n) \in Nat /\ Turns(n + 1) = Turns(n) + Timeout
<1>1. Timeout \in Nat
  BY QueueAssumption
<1> QED
  BY <1>1 DEF Turns

\* What the claims of a worker are made of.
LEMMA HeldFacts ==
  ASSUME QueueInvariant, LeaseInvariant, NEW w \in Workers
  PROVE  /\ batch[w] \in Seq(Claims) /\ Len(batch[w]) \in Nat
         /\ Slack(w) \in 0..Timeout
         /\ \A i \in Held(w) :
              /\ i \in Nat /\ i - 1 \in Nat /\ batch[w][i].job \in Jobs
              /\ job[batch[w][i].job] \in {"running", "failed"}
              /\ lease[batch[w][i].job] \in 0..Lease /\ lease[batch[w][i].job] > 0
<1>1. batch[w] \in Seq(Claims) /\ budget[w] \in 0..Timeout /\ Timeout \in Nat
  BY QueueAssumption DEF QueueInvariant, TypeOK
<1>2. Slack(w) \in 0..Timeout
  BY <1>1 DEF Slack
<1>3. ASSUME NEW i \in Held(w)
      PROVE  /\ i \in Nat /\ i - 1 \in Nat /\ batch[w][i].job \in Jobs
             /\ job[batch[w][i].job] \in {"running", "failed"}
             /\ lease[batch[w][i].job] \in 0..Lease /\ lease[batch[w][i].job] > 0
  <2>1. i \in Nat /\ i - 1 \in Nat /\ batch[w][i].job \in Jobs
    BY <1>1, ClaimsOfBatch DEF Held
  <2>2. Turns(i - 1) \in Nat
    BY <2>1, TurnsAdd
  <2> QED
    BY <1>1, <1>2, <2>1, <2>2, QueueAssumption DEF LeaseInvariant, HeldJobsRun, QueueInvariant, TypeOK
<1> QED
  BY <1>1, <1>2, <1>3, ClaimsOfBatch

\* The worker at hand executes the first of its claims, and nobody else holds that job.
LEMMA CurrentIsHeld ==
  ASSUME QueueInvariant, LeaseInvariant, NEW w \in Workers, batch[w] # <<>>
  PROVE  /\ 1 \in Held(w) /\ Current(w) = batch[w][1].job
         /\ \A v \in Workers : \A i \in Held(v) : batch[v][i].job = Current(w) => v = w /\ i = 1
<1>1. batch[w] \in Seq(Claims)
  BY DEF QueueInvariant, TypeOK
<1>2. 1 \in Held(w) /\ Current(w) = batch[w][1].job
  BY <1>1, ClaimsOfBatch DEF Held, Current
<1> QED
  BY <1>2 DEF LeaseInvariant, HeldOnce

\* No step makes a job held twice.
LEMMA HeldOnceStays ==
  ASSUME QueueInvariant, LeaseInvariant, [Next]_vars
  PROVE  HeldOnce'
<1>1. CASE \A w \in Workers :
             \/ batch'[w] = batch[w]
             \/ batch'[w] = <<>>
             \/ batch[w] # <<>> /\ batch'[w] = Tail(batch[w])
  <2> DEFINE skip(w) == IF batch'[w] = batch[w] THEN 0 ELSE 1
  <2>1. ASSUME NEW w \in Workers, NEW i \in 1..Len(batch'[w])
        PROVE  /\ skip(w) \in {0, 1} /\ i \in Nat
               /\ i + skip(w) \in Held(w) /\ batch'[w][i] = batch[w][i + skip(w)]
    <3>1. CASE batch'[w] = batch[w]
      BY <2>1, <3>1, HeldFacts DEF Held
    <3>2. CASE batch'[w] = <<>>
      BY <2>1, <3>2, EmptySeq
    <3>3. CASE batch'[w] # batch[w] /\ batch[w] # <<>> /\ batch'[w] = Tail(batch[w])
      BY <2>1, <3>3, HeldFacts, ClaimsOfBatch DEF Held
    <3> QED
      BY <1>1, <3>1, <3>2, <3>3
  <2>2. ASSUME NEW v \in Workers, NEW w \in Workers,
               NEW i \in 1..Len(batch'[v]), NEW k \in 1..Len(batch'[w]),
               batch'[v][i].job = batch'[w][k].job
        PROVE  v = w /\ i = k
    <3> HIDE DEF skip
    <3>1. batch[v][i + skip(v)].job = batch[w][k + skip(w)].job
      BY <2>1, <2>2
    <3>2. i + skip(v) \in Held(v) /\ k + skip(w) \in Held(w)
      BY <2>1
    <3>3. v = w /\ i + skip(v) = k + skip(w)
      BY <3>1, <3>2 DEF LeaseInvariant, HeldOnce
    <3> QED
      BY <2>1, <3>3
  <2> QED
    BY <2>2 DEF HeldOnce, Held
<1>2. CASE \E w \in Workers, j \in Jobs :
             /\ Claim(w) /\ job[j] = "queued"
             /\ batch'[w] = Append(batch[w], [job |-> j, attempts |-> attempts[j] + 1])
  <2>1. PICK w \in Workers, j \in Jobs :
          /\ Claim(w) /\ job[j] = "queued"
          /\ batch'[w] = Append(batch[w], [job |-> j, attempts |-> attempts[j] + 1])
    BY <1>2
  <2>2. \A v \in Workers \ {w} : batch'[v] = batch[v]
    BY <2>1 DEF Claim, KeepClaim, QueueInvariant, TypeOK
  <2> DEFINE c == [job |-> j, attempts |-> attempts[j] + 1]
  <2>3. c \in Claims /\ c.job = j
    BY DEF Claims, QueueInvariant, TypeOK
  <2> HIDE DEF c
  <2>4. /\ Len(batch'[w]) = Len(batch[w]) + 1
        /\ \A i \in Held(w) : batch'[w][i] = batch[w][i]
        /\ batch'[w][Len(batch[w]) + 1].job = j
    BY <2>1, <2>3, HeldFacts, ClaimsOfBatch DEF c, Held
  <2>5. \A v \in Workers : \A i \in Held(v) : batch[v][i].job # j
    BY <2>1, HeldFacts
  <2>6. \A v \in Workers : \A i \in 1..Len(batch'[v]) :
          \/ i \in Held(v) /\ batch'[v][i].job = batch[v][i].job
          \/ v = w /\ i = Len(batch[w]) + 1 /\ batch'[v][i].job = j
    <3>1. \A v \in Workers \ {w} : \A i \in 1..Len(batch'[v]) :
             i \in Held(v) /\ batch'[v][i].job = batch[v][i].job
      BY <2>2 DEF Held
    <3>2. \A i \in 1..Len(batch'[w]) : i \in Held(w) \/ i = Len(batch[w]) + 1
      BY <2>4, HeldFacts DEF Held
    <3> QED
      BY <2>4, <3>1, <3>2
  <2>7. ASSUME NEW v \in Workers, NEW u \in Workers,
               NEW i \in 1..Len(batch'[v]), NEW k \in 1..Len(batch'[u]),
               batch'[v][i].job = batch'[u][k].job
        PROVE  v = u /\ i = k
    <3>1. CASE i \in Held(v) /\ k \in Held(u) /\ batch'[v][i].job = batch[v][i].job
                            /\ batch'[u][k].job = batch[u][k].job
      <4>1. batch[v][i].job = batch[u][k].job
        BY <2>7, <3>1
      <4> QED
        BY <3>1, <4>1 DEF LeaseInvariant, HeldOnce
    <3> QED
      BY <2>5, <2>6, <2>7, <3>1
  <2> QED
    BY <2>7 DEF HeldOnce, Held
<1> QED
  BY <1>1, <1>2, BatchStep

\* The steps of a worker leave the other ones what they hold, and the rows of it.
LEMMA OthersHold ==
  ASSUME QueueInvariant, LeaseInvariant, NEW w \in Workers,
         NEW v \in Workers, v # w,
         phase'[v] = phase[v], batch'[v] = batch[v], budget'[v] = budget[v],
         \A i \in Held(v) : /\ job'[batch[v][i].job] = job[batch[v][i].job]
                            /\ lease'[batch[v][i].job] = lease[batch[v][i].job]
  PROVE  HeldJobsRun(v)' /\ RestsEmpty(v)'
<1>1. Slack(v)' = Slack(v) /\ Held(v)' = Held(v)
  BY DEF Slack, Held
<1> QED
  BY <1>1 DEF LeaseInvariant, HeldJobsRun, RestsEmpty

\* Leasing a due job touches no row that a worker holds.
LEMMA LeaseHolds ==
  ASSUME QueueInvariant, LeaseInvariant, NEW j \in DueJobs, TakeLease(j),
         NEW v \in Workers, NEW i \in Held(v)
  PROVE  /\ batch[v][i].job # j
         /\ job'[batch[v][i].job] = job[batch[v][i].job]
         /\ lease'[batch[v][i].job] = lease[batch[v][i].job]
<1>1. j \in Jobs /\ batch[v][i].job \in Jobs /\ batch[v][i].job # j
  BY HeldFacts DEF DueJobs
<1> QED
  BY <1>1, LeaseTaken DEF QueueInvariant

\* Polling: only due jobs are claimed, and a claim gets a lease that covers its batch.
LEMMA PollingHolds ==
  ASSUME QueueInvariant, LeaseInvariant, ~overlong', NEW w \in Workers,
         Poll(w) \/ SelectDue(w) \/ Claim(w) \/ PollFails(w)
  PROVE  \A v \in Workers : HeldJobsRun(v)' /\ RestsEmpty(v)'
<1> USE DEF Goto
<1>1. /\ todo \in [Workers -> SUBSET Jobs] /\ phase \in [Workers -> Phases]
      /\ batch \in [Workers -> Seq(Claims)]
  BY DEF QueueInvariant, TypeOK
<1>2. ASSUME \A v \in Workers \ {w} : phase'[v] = phase[v] /\ batch'[v] = batch[v]
                                       /\ budget'[v] = budget[v],
             \A v \in Workers : \A i \in Held(v) :
               /\ job'[batch[v][i].job] = job[batch[v][i].job]
               /\ lease'[batch[v][i].job] = lease[batch[v][i].job],
             HeldJobsRun(w)', RestsEmpty(w)'
      PROVE  \A v \in Workers : HeldJobsRun(v)' /\ RestsEmpty(v)'
  <2>1. \A v \in Workers \ {w} : HeldJobsRun(v)' /\ RestsEmpty(v)'
    BY <1>2, OthersHold
  <2> QED
    BY <1>2, <2>1
<1>3. CASE Poll(w) \/ SelectDue(w) \/ PollFails(w)
  <2>1. \A v \in Workers \ {w} : phase'[v] = phase[v] /\ batch'[v] = batch[v]
                                  /\ budget'[v] = budget[v]
    BY <1>1, <1>3 DEF Poll, SelectDue, PollFails
  <2>2. \A v \in Workers : \A i \in Held(v) :
          /\ job'[batch[v][i].job] = job[batch[v][i].job]
          /\ lease'[batch[v][i].job] = lease[batch[v][i].job]
    <3>1. CASE Poll(w)
      BY <3>1, HeldFacts DEF Poll, ReclaimExpiredLeases
    <3>2. CASE UNCHANGED rows
      BY <3>2 DEF rows
    <3>3. CASE \E j \in DueJobs : TakeLease(j)
      BY <3>3, LeaseHolds
    <3> QED
      BY <1>3, <3>1, <3>2, <3>3 DEF SelectDue, PollFails
  <2>3. batch'[w] = <<>>
    BY <1>1, <1>3 DEF Poll, SelectDue, PollFails, Serving, LeaseInvariant, RestsEmpty
  <2>4. HeldJobsRun(w)' /\ RestsEmpty(w)'
    BY <2>3, EmptySeq DEF HeldJobsRun, RestsEmpty, Held
  <2> QED
    BY <1>2, <2>1, <2>2, <2>4
<1>4. CASE Claim(w)
  <2>1. PICK j \in todo[w] :
          /\ IF j \in DueJobs THEN TakeLease(j) /\ KeepClaim(w, j)
                             ELSE UNCHANGED <<rows, batch, overlong>>
          /\ AfterClaim(w)
    BY <1>4 DEF Claim
  <2>2. \A v \in Workers \ {w} : phase'[v] = phase[v] /\ batch'[v] = batch[v]
                                  /\ budget'[v] = budget[v]
    BY <1>1, <1>4, <2>1 DEF AfterClaim, Claim, KeepClaim
  <2>3. \A v \in Workers : \A i \in Held(v) :
          /\ job'[batch[v][i].job] = job[batch[v][i].job]
          /\ lease'[batch[v][i].job] = lease[batch[v][i].job]
    BY <2>1, LeaseHolds DEF rows
  <2>4. /\ phase'[w] \in {"claim", "run", "rest"}
        /\ phase'[w] = "rest" => batch'[w] = <<>>
    BY <1>1, <2>1 DEF AfterClaim
  <2>5. phase[w] = "claim" /\ Slack(w) = Timeout
    BY <1>4 DEF Claim, Serving, Slack
  <2>6. RestsEmpty(w)'
    BY <2>4 DEF RestsEmpty
  <2>7. ASSUME NEW i \in Held(w)
        PROVE  /\ job'[batch[w][i].job] = "running"
               /\ lease'[batch[w][i].job] > Turns(i - 1) + Timeout
    BY <2>3, <2>5 DEF LeaseInvariant, HeldJobsRun
  <2>8. CASE j \notin DueJobs
    <3>1. batch'[w] = batch[w] /\ Held(w)' = Held(w)
      BY <2>1, <2>8 DEF Held
    <3>2. ASSUME NEW i \in Held(w)
          PROVE  phase'[w] \in {"claim", "run"}
      BY <2>4, <3>1, <3>2, EmptySeq DEF Held
    <3>3. HeldJobsRun(w)'
      BY <2>7, <3>1, <3>2 DEF HeldJobsRun, Slack
    <3> QED
      BY <1>2, <2>2, <2>3, <2>6, <3>3
  <2>9. CASE j \in DueJobs
    <3> DEFINE n == Len(batch[w]) + 1
    <3>1. n \in Nat /\ n - 1 \in Nat
      BY HeldFacts
    <3>2. j \in Jobs /\ job'[j] = "running" /\ lease'[j] = Lease
      BY <2>1, <2>9, LeaseTaken DEF DueJobs, QueueInvariant
    <3>3. /\ Len(batch'[w]) = n
          /\ \A i \in Held(w) : batch'[w][i] = batch[w][i]
          /\ batch'[w][n].job = j
      <4> DEFINE c == [job |-> j, attempts |-> attempts[j] + 1]
      <4>1. c \in Claims /\ c.job = j
        BY <3>2 DEF Claims, QueueInvariant, TypeOK
      <4>2. batch'[w] = Append(batch[w], c)
        BY <1>1, <2>1, <2>9 DEF KeepClaim
      <4> HIDE DEF c
      <4> QED
        BY <4>1, <4>2, HeldFacts, ClaimsOfBatch DEF Held
    <3>4. phase'[w] \in {"claim", "run"} /\ Slack(w)' = Timeout
      <4>1. batch'[w] # <<>>
        BY <3>1, <3>3, EmptySeq
      <4> QED
        BY <2>4, <4>1 DEF Slack
    <3>5. Lease > Turns(n - 1) + Timeout
      <4>1. Turns(n) < Lease
        BY <2>1, <2>9 DEF KeepClaim, Covered, Turns
      <4>2. Turns(n) = Turns(n - 1) + Timeout /\ Turns(n) \in Nat /\ Turns(n - 1) \in Nat
        <5>1. n = (n - 1) + 1
          BY <3>1
        <5> HIDE DEF n
        <5> QED
          BY <3>1, <5>1, TurnsAdd
      <4> QED
        BY <4>1, <4>2, QueueAssumption
    <3>6. HeldJobsRun(w)'
      <4> SUFFICES ASSUME NEW i \in 1..Len(batch'[w])
                   PROVE  /\ job'[batch'[w][i].job] = "running"
                          /\ lease'[batch'[w][i].job] > Turns(i - 1) + Timeout
        BY <3>4 DEF HeldJobsRun, Held
      <4>1. CASE i = n
        BY <3>2, <3>3, <3>5, <4>1
      <4>2. CASE i # n
        <5>1. i \in Held(w)
          BY <3>1, <3>3, <4>2, HeldFacts DEF Held
        <5> QED
          BY <2>7, <3>3, <5>1
      <4> QED
        BY <4>1, <4>2
    <3> QED
      BY <1>2, <2>2, <2>3, <2>6, <3>6
  <2> QED
    BY <2>8, <2>9
<1> QED
  BY <1>3, <1>4

\* A handler has the time it was given, and its steps take none of it.
LEMMA HandlingHolds ==
  ASSUME QueueInvariant, LeaseInvariant, NEW w \in Workers,
         StartJob(w) \/ ReadFee(w) \/ ChargeFee(w) \/ ViewFee(w) \/ HandlerFails(w)
  PROVE  \A v \in Workers : HeldJobsRun(v)' /\ RestsEmpty(v)'
<1>1. /\ UNCHANGED <<job, lease, batch, todo>>
      /\ \A v \in Workers \ {w} : phase'[v] = phase[v] /\ budget'[v] = budget[v]
  BY DEF StartJob, ReadFee, ChargeFee, ViewFee, HandlerFails, Goto, rows, QueueInvariant, TypeOK
<1>2. \A v \in Workers \ {w} : HeldJobsRun(v)' /\ RestsEmpty(v)'
  BY <1>1, OthersHold
<1>3. /\ phase[w] # "hook" /\ phase'[w] \in Handling \cup {"ok", "retry", "terminal"}
      /\ Slack(w)' <= Slack(w) /\ Slack(w)' \in Nat
  <2>1. Timeout \in Nat /\ budget[w] \in Nat
    BY QueueAssumption DEF QueueInvariant, TypeOK
  <2>2. CASE StartJob(w)
    BY <2>1, <2>2 DEF StartJob, Serving, Goto, Slack, Handling, QueueInvariant, TypeOK
  <2>3. CASE ReadFee(w) \/ ChargeFee(w) \/ ViewFee(w) \/ HandlerFails(w)
    <3>1. phase[w] \in Handling /\ budget'[w] = budget[w]
      BY <2>3 DEF ReadFee, ChargeFee, ViewFee, HandlerFails, Serving, Handling
    <3>2. phase'[w] \in Handling \cup {"ok", "retry", "terminal"}
      BY <2>3 DEF ReadFee, ChargeFee, ViewFee, HandlerFails, Goto, Handling, QueueInvariant, TypeOK
    <3> QED
      BY <2>1, <3>1, <3>2 DEF Slack, Handling
  <2> QED
    BY <2>2, <2>3
<1>4. HeldJobsRun(w)'
  <2> SUFFICES ASSUME NEW i \in Held(w)
               PROVE  /\ job[batch[w][i].job] = "running"
                      /\ lease[batch[w][i].job] > Turns(i - 1) + Slack(w)'
    BY <1>1, <1>3 DEF HeldJobsRun, Held, Handling
  <2>1. /\ job[batch[w][i].job] = "running"
        /\ lease[batch[w][i].job] > Turns(i - 1) + Slack(w)
    BY <1>3 DEF LeaseInvariant, HeldJobsRun
  <2>2. Turns(i - 1) \in Nat /\ Slack(w) \in Nat /\ lease[batch[w][i].job] \in Nat
    <3>1. /\ i - 1 \in Nat /\ Slack(w) \in 0..Timeout
          /\ lease[batch[w][i].job] \in 0..Lease
      BY HeldFacts
    <3> QED
      BY <3>1, TurnsAdd, QueueAssumption
  <2> QED
    BY <1>3, <2>1, <2>2
<1>5. RestsEmpty(w)'
  BY <1>1, <1>3 DEF LeaseInvariant, RestsEmpty, Handling
<1> QED
  BY <1>2, <1>4, <1>5

\* A recorded outcome changes the row of the job at hand only, and the next job of the
\* batch gets its turn.
LEMMA RecordingHolds ==
  ASSUME QueueInvariant, LeaseInvariant, NEW w \in Workers,
         MarkDone(w) \/ MarkFailure(w) \/ RunHook(w) \/ BookkeepingFails(w)
  PROVE  \A v \in Workers : HeldJobsRun(v)' /\ RestsEmpty(v)'
<1>1. /\ phase[w] \in {"ok", "retry", "terminal", "hook"} /\ batch[w] # <<>>
      /\ Slack(w) = 0
  BY DEF MarkDone, MarkFailure, RunHook, BookkeepingFails, Serving, WorkerInvariant, Busy,
         QueueInvariant, Slack, Handling
<1>2. /\ 1 \in Held(w) /\ Current(w) = batch[w][1].job
      /\ \A v \in Workers : \A i \in Held(v) : batch[v][i].job = Current(w) => v = w /\ i = 1
  BY <1>1, CurrentIsHeld
<1>3. /\ \A j \in Jobs : j # Current(w) => job'[j] = job[j]
      /\ UNCHANGED <<lease, todo>>
  BY DEF MarkDone, MarkFailure, RunHook, BookkeepingFails, NextJob, rows, QueueInvariant, TypeOK
<1>4. \A v \in Workers \ {w} :
        phase'[v] = phase[v] /\ budget'[v] = budget[v] /\ batch'[v] = batch[v]
  BY DEF MarkDone, MarkFailure, RunHook, BookkeepingFails, NextJob, Goto, QueueInvariant, TypeOK
<1>5. \A v \in Workers \ {w} : HeldJobsRun(v)' /\ RestsEmpty(v)'
  <2>1. \A v \in Workers \ {w} : \A i \in Held(v) : job'[batch[v][i].job] = job[batch[v][i].job]
    BY <1>2, <1>3, HeldFacts
  <2> QED
    BY <1>3, <1>4, <2>1, OthersHold
<1>6. CASE NextJob(w)
  <2>1. /\ Len(batch'[w]) = Len(batch[w]) - 1
        /\ \A i \in 1..Len(batch'[w]) : i + 1 \in Held(w) /\ batch'[w][i] = batch[w][i + 1]
    <3>1. batch'[w] = Tail(batch[w])
      BY <1>6 DEF NextJob, QueueInvariant, TypeOK
    <3> QED
      BY <1>1, <3>1, HeldFacts, ClaimsOfBatch DEF Held
  <2>2. /\ phase'[w] \in {"idle", "run"}
        /\ phase'[w] = "idle" <=> Len(batch[w]) = 1
    BY <1>6 DEF NextJob, Goto, QueueInvariant, TypeOK
  <2>3. HeldJobsRun(w)'
    <3> SUFFICES ASSUME NEW i \in 1..Len(batch'[w])
                 PROVE  /\ job'[batch'[w][i].job] = "running"
                        /\ lease'[batch'[w][i].job] > Turns(i - 1) + Slack(w)'
      BY <2>2 DEF HeldJobsRun, Held
    <3>1. /\ i + 1 \in Held(w) /\ batch'[w][i] = batch[w][i + 1]
          /\ i \in Nat /\ i # 0 /\ (i + 1) - 1 = i
      BY <2>1, HeldFacts DEF Held
    <3>2. batch[w][i + 1].job # Current(w) /\ batch[w][i + 1].job \in Jobs
      BY <1>2, <3>1, HeldFacts
    <3>3. job'[batch'[w][i].job] = "running" /\ lease[batch[w][i + 1].job] > Turns(i)
      <4>1. /\ job[batch[w][i + 1].job] = "running"
            /\ lease[batch[w][i + 1].job] > Turns((i + 1) - 1) + Slack(w)
        BY <3>1 DEF LeaseInvariant, HeldJobsRun
      <4>2. Turns(i) \in Nat
        BY <3>1, TurnsAdd
      <4> QED
        BY <1>1, <1>3, <3>1, <3>2, <4>1, <4>2
    <3>4. Turns(i) = Turns(i - 1) + Timeout
      <4>1. i - 1 \in Nat /\ (i - 1) + 1 = i
        BY <3>1
      <4> QED
        BY <4>1, TurnsAdd
    <3>5. Slack(w)' = Timeout
      <4>1. Len(batch[w]) # 1
        BY <3>1, HeldFacts DEF Held
      <4> QED
        BY <2>2, <4>1 DEF Slack
    <3> QED
      BY <1>3, <3>1, <3>3, <3>4, <3>5
  <2>4. RestsEmpty(w)'
    <3>1. batch'[w] \in Seq(Claims)
      BY <1>1, <1>6, HeldFacts, RestOfBatch DEF NextJob, QueueInvariant, TypeOK
    <3>2. phase'[w] = "idle" => batch'[w] = <<>>
      BY <2>1, <2>2, <3>1, EmptySeq
    <3> QED
      BY <2>2, <3>2 DEF RestsEmpty
  <2> QED
    BY <1>5, <2>3, <2>4
<1>7. CASE ~NextJob(w)
  <2>1. /\ phase[w] \in {"retry", "terminal"} /\ phase'[w] = "hook"
        /\ UNCHANGED <<batch, budget>>
        /\ job'[Current(w)] = "failed"
    <3>1. MarkFailure(w)
      BY <1>7 DEF MarkDone, RunHook, BookkeepingFails
    <3>2. Current(w) \in Jobs
      BY <1>2, HeldFacts
    <3> QED
      BY <1>7, <3>1, <3>2 DEF MarkFailure, Goto, QueueInvariant, TypeOK
  <2>2. Slack(w)' = 0
    BY <2>1 DEF Slack, Handling
  <2>3. HeldJobsRun(w)'
    <3> SUFFICES ASSUME NEW i \in Held(w)
                 PROVE  /\ job'[batch[w][i].job] = IF i = 1 THEN "failed" ELSE "running"
                        /\ lease[batch[w][i].job] > Turns(i - 1) + 0
      BY <1>3, <2>1, <2>2 DEF HeldJobsRun, Held
    <3>1. /\ job[batch[w][i].job] = "running"
          /\ lease[batch[w][i].job] > Turns(i - 1) + Slack(w)
      BY <2>1 DEF LeaseInvariant, HeldJobsRun
    <3>2. batch[w][i].job \in Jobs
      BY HeldFacts
    <3>3. i # 1 => job'[batch[w][i].job] = "running"
      BY <1>2, <1>3, <3>1, <3>2
    <3> QED
      BY <1>1, <1>2, <2>1, <3>1, <3>3
  <2>4. RestsEmpty(w)'
    BY <1>3, <2>1 DEF LeaseInvariant, RestsEmpty
  <2> QED
    BY <1>5, <2>3, <2>4
<1> QED
  BY <1>6, <1>7

\* Time passes only for handlers that use it, and only leases that ran out are reclaimed.
LEMMA SurroundingsHold ==
  ASSUME QueueInvariant, LeaseInvariant,
         \/ \E j \in Jobs : Enqueue(j) \/ BecomeDue(j) \/ Waive(j)
         \/ Stop \/ Exit \/ Crash \/ Start \/ Tick \/ UNCHANGED vars
  PROVE  \A v \in Workers : HeldJobsRun(v)' /\ RestsEmpty(v)'
<1> SUFFICES ASSUME NEW v \in Workers
             PROVE  HeldJobsRun(v)' /\ RestsEmpty(v)'
  OBVIOUS
<1>1. CASE Crash
  <2>1. batch'[v] = <<>>
    BY <1>1 DEF Crash
  <2> QED
    BY <2>1, EmptySeq DEF HeldJobsRun, RestsEmpty, Held
<1>2. CASE Tick
  <2>1. /\ UNCHANGED <<job, batch, todo>>
        /\ lease' = [j \in Jobs |-> Less(lease[j])]
        /\ budget'[v] = Less(budget[v])
        /\ phase'[v] = IF phase[v] = "rest" THEN "idle" ELSE phase[v]
        /\ \/ phase[v] \in {"rest", "idle"}
           \/ phase[v] \in Handling /\ budget[v] > 0
    BY <1>2 DEF Tick
  <2>2. RestsEmpty(v)'
    BY <2>1 DEF LeaseInvariant, RestsEmpty, Handling
  <2>3. CASE phase[v] \in {"rest", "idle"}
    <3>1. batch'[v] = <<>>
      BY <2>1, <2>3 DEF LeaseInvariant, RestsEmpty
    <3> QED
      BY <2>2, <3>1, EmptySeq DEF HeldJobsRun, Held
  <2>4. CASE phase[v] \in Handling /\ budget[v] > 0
    <3>1. phase'[v] = phase[v] /\ phase[v] # "hook" /\ phase[v] \notin {"claim", "run"}
      BY <2>1, <2>4 DEF Handling
    <3>2. Slack(v) = budget[v] /\ Slack(v)' = budget[v] - 1 /\ budget[v] \in Nat
      <4>1. budget[v] \in Nat
        BY QueueAssumption DEF QueueInvariant, TypeOK
      <4> QED
        BY <2>1, <2>4, <3>1, <4>1 DEF Slack, Less
    <3>3. HeldJobsRun(v)'
      <4> SUFFICES ASSUME NEW i \in Held(v)
                   PROVE  /\ job[batch[v][i].job] = "running"
                          /\ lease'[batch[v][i].job] > Turns(i - 1) + Slack(v)'
        BY <2>1, <3>1 DEF HeldJobsRun, Held
      <4>1. /\ job[batch[v][i].job] = "running"
            /\ lease[batch[v][i].job] > Turns(i - 1) + Slack(v)
        BY <3>1 DEF LeaseInvariant, HeldJobsRun
      <4>2. /\ batch[v][i].job \in Jobs /\ i - 1 \in Nat
            /\ lease[batch[v][i].job] \in Nat /\ lease[batch[v][i].job] > 0
        BY HeldFacts, QueueAssumption
      <4>3. lease'[batch[v][i].job] = lease[batch[v][i].job] - 1
        BY <2>1, <4>2 DEF Less
      <4>4. Turns(i - 1) \in Nat
        BY <4>2, TurnsAdd
      <4> QED
        BY <3>2, <4>1, <4>2, <4>3, <4>4
    <3> QED
      BY <2>2, <3>3
  <2> QED
    BY <2>1, <2>3, <2>4
<1>3. CASE \/ \E j \in Jobs : Enqueue(j) \/ BecomeDue(j) \/ Waive(j)
           \/ Stop \/ Exit \/ Start \/ UNCHANGED vars
  <2>1. UNCHANGED <<workers, lease>>
    BY <1>3 DEF Enqueue, BecomeDue, Waive, Stop, Exit, Start, rows, vars
  <2>2. \A j \in Jobs : job'[j] = job[j] \/ job[j] = "absent" \/ lease[j] = 0
    BY <1>3 DEF Enqueue, BecomeDue, Waive, Stop, Exit, Start, ReclaimExpiredLeases, rows, vars,
       QueueInvariant, TypeOK
  <2>3. \A i \in Held(v) : job'[batch[v][i].job] = job[batch[v][i].job]
    BY <2>2, HeldFacts
  <2>4. Slack(v)' = Slack(v) /\ Held(v)' = Held(v)
    BY <2>1 DEF workers, Slack, Held
  <2> QED
    BY <2>1, <2>3, <2>4 DEF workers, LeaseInvariant, HeldJobsRun, RestsEmpty
<1> QED
  BY <1>1, <1>2, <1>3

\* Whatever a poll has claimed beyond its lease stays remembered.
LEMMA OverlongStays ==
  ASSUME [Next]_vars, overlong
  PROVE  overlong'
<1>1. CASE \E w \in Workers : Claim(w)
  BY <1>1 DEF Claim, KeepClaim
<1>2. CASE ~\E w \in Workers : Claim(w)
  <2>1. overlong' = overlong
    BY <1>2 DEF Next, Work, Trouble, Poll, SelectDue, StartJob, ReadFee, ChargeFee, ViewFee,
       HandlerFails, PollFails, BookkeepingFails, MarkDone, MarkFailure, RunHook, Enqueue,
       BecomeDue, Waive, Stop, Exit, Crash, Start, Tick, process, vars
  <2> QED
    BY <2>1
<1> QED
  BY <1>1, <1>2

\* Two workers execute the same job at the same time only after some poll claimed more
\* jobs than its lease covers: up to then the lease of a job lasts until its worker is
\* through with it, whatever fails, stops or crashes meanwhile.
THEOREM OneWorkerUntilOverlong == Spec => []OneWorkerWhileCovered
<1> DEFINE IInv == ~overlong => LeaseInvariant
<1>1. Init => IInv
  <2> SUFFICES ASSUME Init
               PROVE  LeaseInvariant
    OBVIOUS
  <2>1. ASSUME NEW w \in Workers
        PROVE  batch[w] = <<>> /\ Held(w) = {}
    BY EmptySeq DEF Init, Held
  <2>2. ASSUME NEW w \in Workers
        PROVE  HeldJobsRun(w) /\ RestsEmpty(w)
    BY <2>1 DEF HeldJobsRun, RestsEmpty
  <2> QED
    BY <2>1, <2>2 DEF LeaseInvariant, HeldOnce
<1>2. ASSUME QueueInvariant, IInv, [Next]_vars
      PROVE  IInv'
  <2> SUFFICES ASSUME ~overlong'
               PROVE  LeaseInvariant'
    OBVIOUS
  <2>1. LeaseInvariant
    BY <1>2, OverlongStays
  <2>2. ASSUME NEW w \in Workers, Work(w) \/ Trouble(w)
        PROVE  \A v \in Workers : HeldJobsRun(v)' /\ RestsEmpty(v)'
    BY <1>2, <2>1, <2>2, PollingHolds, HandlingHolds, RecordingHolds DEF Work, Trouble
  <2>3. \A v \in Workers : HeldJobsRun(v)' /\ RestsEmpty(v)'
    BY <1>2, <2>1, <2>2, SurroundingsHold DEF Next
  <2> QED
    BY <1>2, <2>1, <2>3, HeldOnceStays DEF LeaseInvariant
<1>3. ASSUME QueueInvariant, IInv
      PROVE  OneWorkerWhileCovered
  <2> SUFFICES ASSUME ~overlong,
                      NEW j \in Jobs, NEW v \in Workers, NEW w \in Workers,
                      Executing(v, j), Executing(w, j)
               PROVE  v = w
    BY DEF OneWorkerWhileCovered, RunsOnOneWorker
  <2>1. batch[v] # <<>> /\ batch[w] # <<>> /\ Current(v) = j /\ Current(w) = j
    BY <1>3 DEF Executing, WorkerInvariant, QueueInvariant, TypeOK, Phases, Busy
  <2> QED
    BY <1>3, <2>1, CurrentIsHeld
<1> QED
  BY <1>1, <1>2, <1>3, InitialInvariant, StepInvariant, PTL DEF Spec

=============================================================================
