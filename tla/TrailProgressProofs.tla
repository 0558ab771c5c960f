-------------------------- MODULE TrailProgressProofs --------------------------
(***************************************************************************)
(* Proofs about TrailProgress, for any parties, plans, additions, graces     *)
(* and seconds: whoever completes has reported the plan, a stranded party    *)
(* stays stranded until it is aborted, and the sweep that alarms and the     *)
(* classification of reports agree up to the second.                        *)
(***************************************************************************)
EXTENDS TrailProgress, TLAPS

-----------------------------------------------------------------------------
(* Whole seconds.                                                          *)

\* Truncation goes back by less than a second.
LEMMA TruncateBounds ==
  ASSUME NEW t \in Nat
  PROVE  Truncate(t) \in Nat /\ Truncate(t) <= t /\ t < Truncate(t) + Second
<1>1. Second \in Nat /\ Second > 0
  BY ProgressAssumption
<1>2. t % Second \in 0..(Second - 1) /\ t % Second <= t
  BY <1>1
<1> QED
  BY <1>1, <1>2 DEF Truncate

\* A whole second that has passed is not truncated away.
LEMMA TruncateKeepsSeconds ==
  ASSUME NEW m \in Int, m % Second = 0, NEW t \in Nat, m <= t
  PROVE  m <= Truncate(t)
<1>1. Second \in Nat /\ Second > 0
  BY ProgressAssumption
<1>2. PICK k \in Int : m = Second * k
  <2>1. m = Second * (m \div Second) + (m % Second) /\ m \div Second \in Int
    BY <1>1
  <2> QED
    BY <1>1, <2>1
<1>3. PICK q \in Int : t = Second * q + (t % Second)
  BY <1>1
<1>4. t % Second \in 0..(Second - 1)
  BY <1>1
<1>5. k <= q
  <2> SUFFICES ASSUME k >= q + 1
               PROVE  FALSE
    OBVIOUS
  <2>1. Second * k >= Second * (q + 1)
    BY <1>1
  <2>2. Second * (q + 1) = Second * q + Second
    BY <1>1
  <2> QED
    BY <1>1, <1>2, <1>3, <1>4, <2>1, <2>2
<1>6. Second * k <= Second * q
  BY <1>1, <1>5
<1>7. PICK x \in Int, y \in Int, z \in Int :
        x = Second * k /\ y = Second * q /\ z = t % Second
  BY <1>1, <1>4
<1>8. m = x /\ t = y + z /\ x <= y
  BY <1>2, <1>3, <1>6, <1>7
<1>9. Truncate(t) = t - z
  BY <1>7 DEF Truncate
<1> QED
  BY <1>8, <1>9

\* Multiples of a second add up to one.
LEMMA SecondsAdd ==
  ASSUME NEW a \in Int, NEW b \in Int, a % Second = 0, b % Second = 0
  PROVE  (a + b) % Second = 0
<1>1. Second \in Nat /\ Second > 0
  BY ProgressAssumption
<1>2. PICK i \in Int, j \in Int : a = Second * i /\ b = Second * j
  BY <1>1
<1>3. PICK n \in Int : n = i + j
  OBVIOUS
<1>4. a + b = Second * n
  BY <1>1, <1>2, <1>3
<1>5. (Second * n) % Second = 0
  BY <1>1
<1> QED
  BY <1>4, <1>5

-----------------------------------------------------------------------------
(* The types.                                                              *)

\* A call is of one of the forms of Calls, a sweep of one of those of Sweeps.
LEMMA CallForms ==
  ASSUME TypeOK, NEW r \in Requests
  PROVE  /\ req[r].op = "add" => req[r].checkpoint \in Additions
         /\ req[r].op = "report" => req[r].party \in Parties /\ req[r].seq \in Int
         /\ req[r].op = "complete" => req[r].party \in Parties
<1>1. req[r] \in Calls
  BY DEF TypeOK
<1> QED
  BY <1>1 DEF Calls, Idle

LEMMA SweepForms ==
  ASSUME TypeOK, NEW w \in Sweepers
  PROVE  /\ sweep[w].at \in {"inspect", "raise"} =>
              sweep[w].todo \subseteq Parties /\ sweep[w].time \in Nat
         /\ sweep[w].at = "raise" => sweep[w].party \in Parties /\ sweep[w].seq \in Int
         /\ sweep[w] # Rest => sweep[w].at \in {"inspect", "raise"}
<1>1. sweep[w] \in Sweeps
  BY DEF TypeOK
<1> QED
  BY <1>1 DEF Sweeps, Rest

\* A list that is accepted has one checkpoint per number.
LEMMA ValidIsKeyed ==
  ASSUME NEW C, ValidCheckpoints(C)
  PROVE  C # {} /\ \A c, d \in C : c.seq = d.seq => c = d
BY DEF ValidCheckpoints

LEMMA TypeInit ==
  ASSUME Init
  PROVE  TypeOK
BY ProgressAssumption DEF Init, TypeOK, PartyStates, Calls, Sweeps

\* What rangers do to the trail keeps the types.
LEMMA TrailKeepsTypes ==
  ASSUME TypeOK,
         \/ \E plan \in Plans : CreateTrail(plan)
         \/ \E r \in Requests : AddCheckpoint(r)
  PROVE  TypeOK'
<1>1. ASSUME NEW plan \in Plans, CreateTrail(plan)
      PROVE  TypeOK'
  <2>1. plan \subseteq Checkpoint /\ \A c, d \in plan : c.seq = d.seq => c = d
    BY <1>1, ValidIsKeyed, ProgressAssumption DEF CreateTrail
  <2> QED
    BY <1>1, <2>1 DEF CreateTrail, TypeOK
<1>2. ASSUME NEW r \in Requests, AddCheckpoint(r)
      PROVE  TypeOK'
  <2>1. PICK c \in Checkpoint : /\ c = req[r].checkpoint /\ c.seq \notin Seqs
                                /\ checkpoints' = checkpoints \cup {c}
    BY <1>2, CallForms, ProgressAssumption DEF AddCheckpoint, InsertCheckpoint
  <2>2. /\ checkpoints' \subseteq Checkpoint
        /\ \A d, e \in checkpoints' : d.seq = e.seq => d = e
    BY <2>1 DEF TypeOK, Seqs
  <2>3. /\ req' = [req EXCEPT ![r] = Idle]
        /\ UNCHANGED <<pstate, reports, overdue, now, sweep, mishaps>>
    BY <1>2 DEF AddCheckpoint, Return
  <2>4. req' \in [Requests -> Calls]
    BY <2>3 DEF TypeOK, Calls
  <2> QED
    BY <2>2, <2>3, <2>4 DEF TypeOK
<1> QED
  BY <1>1, <1>2

\* Calls that begin, parties that report and complete, and calls that fail.
LEMMA CallsKeepTypes ==
  ASSUME TypeOK, NEW r \in Requests,
         \/ \E c \in Additions : BeginAddCheckpoint(r, c)
         \/ \E p \in Reporting : BeginComplete(r, p) \/ \E c \in checkpoints : BeginReport(r, p, c)
         \/ InsertReport(r) \/ CompleteParty(r) \/ Fail(r)
  PROVE  TypeOK'
<1>1. ASSUME NEW call \in Calls, Begin(r, call)
      PROVE  TypeOK'
  BY <1>1 DEF Begin, TypeOK
<1>2. CASE \E c \in Additions : BeginAddCheckpoint(r, c)
  <2>1. PICK c \in Additions : Begin(r, [op |-> "add", checkpoint |-> c])
    BY <1>2 DEF BeginAddCheckpoint
  <2>2. [op |-> "add", checkpoint |-> c] \in Calls
    BY DEF Calls
  <2> QED
    BY <1>1, <2>1, <2>2
<1>3. CASE \E p \in Reporting : BeginComplete(r, p)
  <2>1. PICK p \in Parties : Begin(r, [op |-> "complete", party |-> p])
    BY <1>3, ProgressAssumption DEF BeginComplete
  <2>2. [op |-> "complete", party |-> p] \in Calls
    BY DEF Calls
  <2> QED
    BY <1>1, <2>1, <2>2
<1>4. CASE \E p \in Reporting, c \in checkpoints : BeginReport(r, p, c)
  <2>1. PICK p \in Parties, seq \in Int, status \in Statuses :
          Begin(r, [op |-> "report", party |-> p, seq |-> seq, status |-> status])
    <3>1. PICK p \in Parties, c \in checkpoints :
            Begin(r, [op |-> "report", party |-> p, seq |-> c.seq,
                      status |-> ClassifyReport(p, c, Truncate(now))])
      BY <1>4, ProgressAssumption DEF BeginReport
    <3>2. c.seq \in Int
      BY DEF TypeOK, Checkpoint
    <3>3. ClassifyReport(p, c, Truncate(now)) \in Statuses
      BY DEF ClassifyReport, Statuses
    <3> QED
      BY <3>1, <3>2, <3>3
  <2>2. [op |-> "report", party |-> p, seq |-> seq, status |-> status] \in Calls
    BY DEF Calls
  <2> QED
    BY <1>1, <2>1, <2>2
<1>5. ASSUME Return(r)
      PROVE  /\ req' \in [Requests -> Calls] /\ overdue' = overdue /\ now' = now
             /\ sweep' = sweep /\ mishaps' = mishaps
  BY <1>5 DEF Return, TypeOK, Calls
<1>6. CASE InsertReport(r)
  <2>1. Return(r) /\ UNCHANGED <<checkpoints, pstate>>
        /\ reports' = [reports EXCEPT ![req[r].party] = @ \cup {req[r].seq}]
    BY <1>6 DEF InsertReport
  <2>2. req[r].party \in Parties /\ req[r].seq \in Int
    BY <1>6, CallForms DEF InsertReport
  <2>3. reports' \in [Parties -> SUBSET Int]
    BY <2>1, <2>2 DEF TypeOK
  <2> QED
    BY <1>5, <2>1, <2>3 DEF TypeOK
<1>7. CASE CompleteParty(r)
  <2>1. Return(r) /\ UNCHANGED <<checkpoints, reports>>
        /\ pstate' = [pstate EXCEPT ![req[r].party] = "completed"]
    BY <1>7 DEF CompleteParty, ChangeParty
  <2>2. pstate' \in [Parties -> PartyStates]
    BY <2>1 DEF TypeOK, PartyStates
  <2> QED
    BY <1>5, <2>1, <2>2 DEF TypeOK
<1>8. CASE Fail(r)
  BY <1>5, <1>8 DEF Fail, TypeOK
<1> QED
  BY <1>2, <1>3, <1>4, <1>6, <1>7, <1>8

\* The incident of an overdue checkpoint.
LEMMA RaisedIsOverdue ==
  ASSUME TypeOK, NEW p \in Parties, NEW seq \in Int
  PROVE  [party |-> p, seq |-> seq, opened |-> Truncate(now), resolved |-> FALSE] \in Overdue
<1>1. now \in Nat
  BY ProgressAssumption DEF TypeOK
<1> QED
  BY <1>1, TruncateBounds DEF Overdue

\* The sweep keeps the types.
LEMMA SweepKeepsTypes ==
  ASSUME TypeOK, NEW w \in Sweepers, Sweep(w) \/ SweepFails(w)
  PROVE  TypeOK'
<1>1. ASSUME NEW next \in Sweeps, SweepTo(w, next)
      PROVE  /\ sweep' \in [Sweepers -> Sweeps]
             /\ UNCHANGED <<checkpoints, pstate, reports, now, req>>
  BY <1>1 DEF SweepTo, TypeOK
<1>2. ASSUME NEW todo \in SUBSET Parties, sweep[w].at \in {"inspect", "raise"}, Inspect(w, todo)
      PROVE  \E next \in Sweeps : SweepTo(w, next)
  <2>1. [at |-> "inspect", todo |-> todo, time |-> sweep[w].time] \in Sweeps
    BY <1>2, SweepForms DEF Sweeps
  <2>2. Rest \in Sweeps
    BY DEF Sweeps
  <2> QED
    BY <1>2, <2>1, <2>2 DEF Inspect
<1>3. CASE StartSweep(w)
  <2>1. [at |-> "inspect", todo |-> OnTrailParties, time |-> now] \in Sweeps
    BY ProgressAssumption DEF TypeOK, Sweeps, OnTrailParties, OnTrail
  <2> QED
    BY <1>1, <1>3, <2>1 DEF StartSweep, TypeOK
<1>4. CASE InspectParty(w)
  <2>1. \E next \in Sweeps : SweepTo(w, next)
    <3>1. PICK p \in sweep[w].todo :
            \/ Inspect(w, sweep[w].todo \ {p})
            \/ \E c \in OverdueCheckpoints(p, sweep[w].time) :
                 SweepTo(w, [at |-> "raise", todo |-> sweep[w].todo \ {p},
                             time |-> sweep[w].time, party |-> p, seq |-> c.seq])
      BY <1>4 DEF InspectParty
    <3>2. /\ sweep[w].at = "inspect" /\ p \in Parties /\ sweep[w].time \in Nat
          /\ sweep[w].todo \ {p} \in SUBSET Parties
      BY <1>4, <3>1, SweepForms DEF InspectParty
    <3>3. ASSUME NEW c \in OverdueCheckpoints(p, sweep[w].time)
          PROVE  [at |-> "raise", todo |-> sweep[w].todo \ {p},
                  time |-> sweep[w].time, party |-> p, seq |-> c.seq] \in Sweeps
      <4>1. c.seq \in Int
        BY DEF OverdueCheckpoints, TypeOK, Checkpoint
      <4> QED
        BY <3>2, <4>1 DEF Sweeps
    <3> QED
      BY <1>2, <3>1, <3>2, <3>3
  <2> QED
    BY <1>1, <1>4, <2>1 DEF InspectParty, TypeOK
<1>5. CASE RaiseOverdue(w)
  <2>1. /\ sweep[w].at = "raise" /\ sweep[w].party \in Parties /\ sweep[w].seq \in Int
        /\ sweep[w].todo \in SUBSET Parties
    BY <1>5, SweepForms DEF RaiseOverdue
  <2>2. \E next \in Sweeps : SweepTo(w, next)
    BY <1>2, <1>5, <2>1 DEF RaiseOverdue
  <2>3. overdue' \subseteq Overdue
    <3>1. \/ overdue' = overdue
          \/ overdue' = overdue \cup {[party |-> sweep[w].party, seq |-> sweep[w].seq,
                                       opened |-> Truncate(now), resolved |-> FALSE]}
      BY <1>5 DEF RaiseOverdue
    <3> QED
      BY <2>1, <3>1, RaisedIsOverdue DEF TypeOK
  <2> QED
    BY <1>1, <1>5, <2>2, <2>3 DEF RaiseOverdue, TypeOK
<1>6. CASE SweepFails(w)
  <2>1. Rest \in Sweeps /\ SweepTo(w, Rest)
    BY <1>6 DEF SweepFails, Sweeps
  <2>2. mishaps' \in 0..Mishaps /\ UNCHANGED overdue
    BY <1>6, ProgressAssumption DEF SweepFails, TypeOK
  <2> QED
    BY <1>1, <2>1, <2>2 DEF TypeOK
<1> QED
  BY <1>3, <1>4, <1>5, <1>6 DEF Sweep

LEMMA TypeStep ==
  ASSUME TypeOK, [Next]_vars
  PROVE  TypeOK'
<1>1. CASE UNCHANGED vars
  BY <1>1 DEF vars, TypeOK
<1>2. ASSUME NEW p \in Parties, DispatchParty(p) \/ AbortParty(p)
      PROVE  TypeOK'
  <2>1. /\ UNCHANGED <<checkpoints, reports, overdue, now, req, sweep, mishaps>>
        /\ \E next \in PartyStates : pstate' = [pstate EXCEPT ![p] = next]
    BY <1>2 DEF DispatchParty, AbortParty, ChangeParty, PartyStates
  <2> QED
    BY <2>1 DEF TypeOK
<1>3. ASSUME NEW o \in overdue, ResolveOverdue(o)
      PROVE  TypeOK'
  <2>1. [o EXCEPT !.resolved = TRUE] \in Overdue
    BY DEF TypeOK, Overdue
  <2> QED
    BY <1>3, <2>1 DEF ResolveOverdue, TypeOK
<1>4. CASE Tick
  BY <1>4, ProgressAssumption DEF Tick, TypeOK
<1> QED
  BY <1>1, <1>2, <1>3, <1>4, TrailKeepsTypes, CallsKeepTypes, SweepKeepsTypes DEF Next, Serve

\* All variables keep their types, and the trail one checkpoint per number, although two
\* rangers may append to the list that both have read.
THEOREM ProgressTypeCorrect == Spec => []TypeOK
<1>1. Init => TypeOK
  BY TypeInit
<1>2. TypeOK /\ [Next]_vars => TypeOK'
  BY TypeStep
<1> QED
  BY <1>1, <1>2, PTL DEF Spec

-----------------------------------------------------------------------------
(* Who completed reported the plan.                                        *)

\* A plan the trail was created with, as a whole.
LaidOut(plan) == plan \subseteq checkpoints /\ ValidCheckpoints(plan)

\* The party has reported the mandatory checkpoints of such a plan.
ReportedPlan(p) == \E plan \in Plans : LaidOut(plan) /\ MandatorySeqs(plan) \subseteq reports[p]

\* Completion is decided before its transaction, so the call must carry the fact; and
\* who appends a checkpoint or is on its way has a trail.
TripInvariant ==
  /\ checkpoints # {} => \E plan \in Plans : LaidOut(plan)
  /\ \A r \in Requests : req[r].op = "add" => checkpoints # {}
  /\ \A p \in Parties : pstate[p] # "confirmed" => checkpoints # {}
  /\ \A r \in Requests : req[r].op = "complete" => ReportedPlan(req[r].party)
  /\ \A p \in Parties : pstate[p] = "completed" => ReportedPlan(p)

\* No step removes a checkpoint or a report.
LEMMA NothingIsWithdrawn ==
  ASSUME TypeOK, [Next]_vars
  PROVE  /\ checkpoints \subseteq checkpoints'
         /\ \A p \in Parties : reports[p] \subseteq reports'[p]
<1>1. CASE \E r \in Requests : AddCheckpoint(r)
  BY <1>1 DEF AddCheckpoint, InsertCheckpoint
<1>2. CASE \E r \in Requests : InsertReport(r)
  BY <1>2 DEF InsertReport, TypeOK
<1>3. CASE \E plan \in Plans : CreateTrail(plan)
  BY <1>3 DEF CreateTrail
<1>4. CASE ~(\/ \E r \in Requests : AddCheckpoint(r) \/ InsertReport(r)
             \/ \E plan \in Plans : CreateTrail(plan))
  <2>1. CASE UNCHANGED vars
    BY <2>1 DEF vars
  <2>2. ASSUME NEW r \in Requests, Serve(r)
        PROVE  UNCHANGED <<checkpoints, reports>>
    BY <1>4, <2>2 DEF Serve, BeginAddCheckpoint, BeginComplete, BeginReport, Begin, CompleteParty,
       Fail
  <2>3. ASSUME NEW w \in Sweepers, Sweep(w) \/ SweepFails(w)
        PROVE  UNCHANGED <<checkpoints, reports>>
    BY <2>3 DEF Sweep, StartSweep, InspectParty, RaiseOverdue, SweepFails, Inspect, SweepTo
  <2>4. ASSUME \/ \E p \in Parties : DispatchParty(p) \/ AbortParty(p)
               \/ \E o \in overdue : ResolveOverdue(o)
               \/ Tick
        PROVE  UNCHANGED <<checkpoints, reports>>
    BY <2>4 DEF DispatchParty, AbortParty, ResolveOverdue, Tick
  <2> QED
    BY <1>4, <2>1, <2>2, <2>3, <2>4 DEF Next
<1> QED
  BY <1>1, <1>2, <1>3, <1>4

\* What was reported stays reported.
LEMMA ReportedPlanStays ==
  ASSUME TypeOK, [Next]_vars, NEW p \in Parties, ReportedPlan(p)
  PROVE  ReportedPlan(p)'
<1>1. PICK plan \in Plans : /\ plan \subseteq checkpoints /\ ValidCheckpoints(plan)
                            /\ MandatorySeqs(plan) \subseteq reports[p]
  BY DEF ReportedPlan, LaidOut
<1>2. plan \subseteq checkpoints' /\ MandatorySeqs(plan) \subseteq reports'[p]
  BY <1>1, NothingIsWithdrawn
<1> QED
  BY <1>1, <1>2 DEF ReportedPlan, LaidOut

\* A call in flight after a step was so before, or has just begun.
LEMMA CallsBegin ==
  ASSUME TypeOK, [Next]_vars, NEW r \in Requests, req'[r] # req[r]
  PROVE  \/ req'[r].op = "idle"
         \/ req'[r].op = "add" /\ \E c \in Additions : BeginAddCheckpoint(r, c)
         \/ /\ req'[r].op = "report"
            /\ \E p \in Reporting, c \in checkpoints :
                 /\ BeginReport(r, p, c)
                 /\ req'[r].party = p /\ req'[r].seq = c.seq
                 /\ req'[r].status = ClassifyReport(p, c, Truncate(now))
         \/ /\ req'[r].op = "complete"
            /\ \E p \in Reporting : BeginComplete(r, p) /\ req'[r].party = p
<1>1. req \in [Requests -> Calls]
  BY DEF TypeOK
<1>2. ASSUME NEW q \in Requests, AddCheckpoint(q) \/ InsertReport(q) \/ CompleteParty(q) \/ Fail(q)
      PROVE  req'[r].op = "idle"
  <2>1. req' = [req EXCEPT ![q] = Idle]
    BY <1>2 DEF AddCheckpoint, InsertReport, CompleteParty, Fail, Return
  <2> QED
    BY <1>1, <2>1 DEF Idle
<1>3. ASSUME NEW q \in Requests, NEW call, Begin(q, call)
      PROVE  q = r /\ req'[r] = call
  BY <1>1, <1>3 DEF Begin
<1>4. ASSUME NEW q \in Requests, NEW c \in Additions, BeginAddCheckpoint(q, c)
      PROVE  q = r /\ req'[r].op = "add"
  BY <1>3, <1>4 DEF BeginAddCheckpoint
<1>5. ASSUME NEW q \in Requests, NEW p \in Reporting, NEW c \in checkpoints, BeginReport(q, p, c)
      PROVE  /\ q = r /\ req'[r].op = "report" /\ req'[r].party = p /\ req'[r].seq = c.seq
             /\ req'[r].status = ClassifyReport(p, c, Truncate(now))
  BY <1>3, <1>5 DEF BeginReport
<1>6. ASSUME NEW q \in Requests, NEW p \in Reporting, BeginComplete(q, p)
      PROVE  q = r /\ req'[r].op = "complete" /\ req'[r].party = p
  BY <1>3, <1>6 DEF BeginComplete
<1>7. ASSUME \/ UNCHANGED vars \/ Tick
             \/ \E plan \in Plans : CreateTrail(plan)
             \/ \E p \in Parties : DispatchParty(p) \/ AbortParty(p)
             \/ \E o \in overdue : ResolveOverdue(o)
      PROVE  req' = req
  BY <1>7 DEF vars, Tick, CreateTrail, DispatchParty, AbortParty, ResolveOverdue
<1>8. ASSUME NEW w \in Sweepers, Sweep(w) \/ SweepFails(w)
      PROVE  req' = req
  BY <1>8 DEF Sweep, StartSweep, InspectParty, RaiseOverdue, SweepFails, Inspect, SweepTo
<1> QED
  BY <1>2, <1>4, <1>5, <1>6, <1>7, <1>8 DEF Next, Serve

\* What can happen to the state of a party.
LEMMA PartiesMove ==
  ASSUME TypeOK, [Next]_vars, NEW p \in Parties, pstate'[p] # pstate[p]
  PROVE  \/ DispatchParty(p) /\ pstate'[p] = "on_trail"
         \/ AbortParty(p) /\ pstate'[p] = "aborted"
         \/ /\ pstate[p] = "on_trail" /\ pstate'[p] = "completed"
            /\ \E r \in Requests : req[r].op = "complete" /\ req[r].party = p
<1>1. pstate \in [Parties -> PartyStates]
  BY DEF TypeOK
<1>2. ASSUME NEW q \in Parties, DispatchParty(q) \/ AbortParty(q)
      PROVE  \/ DispatchParty(p) /\ pstate'[p] = "on_trail"
             \/ AbortParty(p) /\ pstate'[p] = "aborted"
  BY <1>1, <1>2 DEF DispatchParty, AbortParty, ChangeParty
<1>3. ASSUME NEW r \in Requests, CompleteParty(r)
      PROVE  /\ pstate[p] = "on_trail" /\ pstate'[p] = "completed"
             /\ req[r].op = "complete" /\ req[r].party = p
  BY <1>1, <1>3 DEF CompleteParty, ChangeParty
<1>4. ASSUME NEW r \in Requests, Serve(r)
      PROVE  CompleteParty(r)
  BY <1>4 DEF Serve, BeginAddCheckpoint, BeginComplete, BeginReport, Begin, AddCheckpoint,
     InsertReport, Fail
<1>5. ASSUME NEW w \in Sweepers, Sweep(w) \/ SweepFails(w)
      PROVE  FALSE
  BY <1>5 DEF Sweep, StartSweep, InspectParty, RaiseOverdue, SweepFails, Inspect, SweepTo
<1>6. ASSUME \/ UNCHANGED vars \/ Tick
             \/ \E plan \in Plans : CreateTrail(plan)
             \/ \E o \in overdue : ResolveOverdue(o)
      PROVE  FALSE
  BY <1>6 DEF vars, Tick, CreateTrail, ResolveOverdue
<1> QED
  BY <1>2, <1>3, <1>4, <1>5, <1>6 DEF Next

\* The trail is laid out by a plan, and appending only adds to it.
LEMMA TrailStaysLaidOut ==
  ASSUME TypeOK, TripInvariant, [Next]_vars
  PROVE  checkpoints' # {} => \E plan \in Plans : LaidOut(plan)'
<1>1. CASE checkpoints # {}
  BY <1>1, NothingIsWithdrawn DEF TripInvariant, LaidOut
<1>2. CASE checkpoints = {}
  <2>1. ASSUME NEW plan \in Plans, CreateTrail(plan)
        PROVE  LaidOut(plan)'
    BY <2>1 DEF CreateTrail, LaidOut
  <2>2. ASSUME ~\E plan \in Plans : CreateTrail(plan)
        PROVE  UNCHANGED checkpoints
    <3>1. ASSUME NEW r \in Requests, Serve(r)
          PROVE  UNCHANGED checkpoints
      BY <1>2, <3>1 DEF TripInvariant, Serve, BeginAddCheckpoint, BeginComplete, BeginReport,
         Begin, AddCheckpoint, InsertReport, CompleteParty, Fail
    <3>2. ASSUME NEW w \in Sweepers, Sweep(w) \/ SweepFails(w)
          PROVE  UNCHANGED checkpoints
      BY <3>2 DEF Sweep, StartSweep, InspectParty, RaiseOverdue, SweepFails, Inspect, SweepTo
    <3>3. ASSUME \/ \E p \in Parties : DispatchParty(p) \/ AbortParty(p)
                 \/ \E o \in overdue : ResolveOverdue(o)
                 \/ Tick \/ UNCHANGED vars
          PROVE  UNCHANGED checkpoints
      BY <3>3 DEF DispatchParty, AbortParty, ResolveOverdue, Tick, vars
    <3> QED
      BY <2>2, <3>1, <3>2, <3>3 DEF Next
  <2> QED
    BY <1>2, <2>1, <2>2
<1> QED
  BY <1>1, <1>2

LEMMA TripInvariantStep ==
  ASSUME TypeOK, TripInvariant, [Next]_vars
  PROVE  TripInvariant'
<1>1. checkpoints' # {} => \E plan \in Plans : LaidOut(plan)'
  BY TrailStaysLaidOut
<1>2. ASSUME NEW r \in Requests, req'[r].op = "add"
      PROVE  checkpoints' # {}
  <2>1. req'[r] = req[r] \/ checkpoints # {}
    BY <1>2, CallsBegin DEF BeginAddCheckpoint
  <2> QED
    BY <1>2, <2>1, NothingIsWithdrawn DEF TripInvariant
<1>3. ASSUME NEW p \in Parties, pstate'[p] # "confirmed"
      PROVE  checkpoints' # {}
  <2>1. pstate[p] # "confirmed" \/ checkpoints # {}
    BY <1>3, PartiesMove DEF DispatchParty, AbortParty, ChangeParty
  <2> QED
    BY <2>1, NothingIsWithdrawn DEF TripInvariant
<1>4. ASSUME NEW r \in Requests, req'[r].op = "complete"
      PROVE  ReportedPlan(req[r].party)'
  <2>1. CASE req'[r] = req[r]
    <3>1. PICK p \in Parties : p = req[r].party /\ ReportedPlan(p)
      BY <1>4, <2>1, CallForms DEF TripInvariant
    <3>2. ReportedPlan(p)'
      BY <3>1, ReportedPlanStays
    <3> QED
      BY <2>1, <3>1, <3>2 DEF ReportedPlan
  <2>2. CASE req'[r] # req[r]
    <3>1. PICK p \in Reporting : BeginComplete(r, p) /\ req'[r].party = p
      BY <1>4, <2>2, CallsBegin
    <3>2. p \in Parties /\ checkpoints # {} /\ MandatorySeqs(checkpoints) \subseteq reports[p]
      BY <3>1, ProgressAssumption DEF BeginComplete, TripInvariant
    <3>3. PICK plan \in Plans : LaidOut(plan)
      BY <3>2 DEF TripInvariant
    <3>4. MandatorySeqs(plan) \subseteq MandatorySeqs(checkpoints)
      BY <3>3 DEF LaidOut, MandatorySeqs
    <3>5. ReportedPlan(p)
      BY <3>2, <3>3, <3>4 DEF ReportedPlan
    <3>6. ReportedPlan(p)'
      BY <3>2, <3>5, ReportedPlanStays
    <3> QED
      BY <3>1, <3>6 DEF ReportedPlan
  <2> QED
    BY <2>1, <2>2
<1>5. ASSUME NEW p \in Parties, pstate'[p] = "completed"
      PROVE  ReportedPlan(p)'
  <2>1. ReportedPlan(p)
    <3>1. CASE pstate'[p] = pstate[p]
      BY <1>5, <3>1 DEF TripInvariant
    <3>2. CASE pstate'[p] # pstate[p]
      BY <1>5, <3>2, PartiesMove DEF TripInvariant
    <3> QED
      BY <3>1, <3>2
  <2> QED
    BY <2>1, ReportedPlanStays
<1> QED
  BY <1>1, <1>2, <1>3, <1>4, <1>5 DEF TripInvariant

\* What a report, a completion or a sweep has read of checkpoints and reports stays good
\* until it writes, as both only grow (ReportCheckpoint, Complete, AddCheckpoint).
THEOREM TripInvariantHolds == Spec => []TripInvariant
<1>1. Init => TripInvariant
  BY DEF Init, TripInvariant, Idle
<1>2. TypeOK /\ TripInvariant /\ [Next]_vars => TripInvariant'
  BY TripInvariantStep
<1> QED
  BY <1>1, <1>2, ProgressTypeCorrect, PTL DEF Spec

\* A party that completed its trip reported every mandatory checkpoint the trail was
\* created with, although the check and the completion are apart and checkpoints may be
\* appended and reported between them.
THEOREM CompletedPartiesReported == Spec => []CompletedReportedPlan
<1>1. TripInvariant => CompletedReportedPlan
  BY DEF TripInvariant, ReportedPlan, LaidOut, CompletedReportedPlan
<1> QED
  BY <1>1, TripInvariantHolds, PTL

-----------------------------------------------------------------------------
(* Who skipped a mandatory checkpoint stays on the trail until it is aborted. *)

LEMMA StrandedStep ==
  ASSUME TypeOK, [Next]_vars, NEW p \in Parties, Stranded(p)
  PROVE  Stranded(p)' \/ pstate'[p] = "aborted"
<1>1. PICK s \in MandatorySeqs(checkpoints) \ reports[p] :
        /\ \E t \in reports[p] : s < t
        /\ \A r \in Requests :
             ~(req[r].op = "report" /\ req[r].party = p /\ req[r].seq = s)
  BY DEF Stranded
<1>2. PICK t \in reports[p] : s < t
  BY <1>1
<1>3. s \in Int /\ t \in Int
  BY <1>1, <1>2 DEF MandatorySeqs, TypeOK, Checkpoint
<1>4. pstate'[p] = "on_trail" \/ pstate'[p] = "aborted"
  BY PartiesMove DEF Stranded
<1>5. ASSUME NEW r \in Requests, req'[r].op = "complete"
      PROVE  req'[r].party # p
  <2>1. ~BeginComplete(r, p)
    BY <1>1 DEF BeginComplete
  <2> QED
    BY <1>5, <2>1, CallsBegin DEF Stranded
<1>6. s \in MandatorySeqs(checkpoints')
  BY <1>1, NothingIsWithdrawn DEF MandatorySeqs
<1>7. s \notin reports'[p]
  <2>1. CASE \E r \in Requests : InsertReport(r)
    BY <1>1, <2>1 DEF InsertReport, TypeOK
  <2>2. CASE ~\E r \in Requests : InsertReport(r)
    <3>1. ASSUME NEW r \in Requests, Serve(r)
          PROVE  UNCHANGED reports
      BY <2>2, <3>1 DEF Serve, BeginAddCheckpoint, BeginComplete, BeginReport, Begin,
         AddCheckpoint, CompleteParty, Fail
    <3>2. ASSUME NEW w \in Sweepers, Sweep(w) \/ SweepFails(w)
          PROVE  UNCHANGED reports
      BY <3>2 DEF Sweep, StartSweep, InspectParty, RaiseOverdue, SweepFails, Inspect, SweepTo
    <3>3. ASSUME \/ \E q \in Parties : DispatchParty(q) \/ AbortParty(q)
                 \/ \E plan \in Plans : CreateTrail(plan)
                 \/ \E o \in overdue : ResolveOverdue(o)
                 \/ Tick \/ UNCHANGED vars
          PROVE  UNCHANGED reports
      BY <3>3 DEF DispatchParty, AbortParty, CreateTrail, ResolveOverdue, Tick, vars
    <3>4. UNCHANGED reports
      BY <3>1, <3>2, <3>3 DEF Next
    <3> QED
      BY <1>1, <3>4
  <2> QED
    BY <2>1, <2>2
<1>8. ASSUME NEW r \in Requests, req'[r].op = "report", req'[r].party = p
      PROVE  req'[r].seq # s
  <2>1. CASE req'[r] = req[r]
    BY <1>1, <1>8, <2>1
  <2>2. CASE req'[r] # req[r]
    <3>1. PICK q \in Reporting, c \in checkpoints :
            /\ BeginReport(r, q, c)
            /\ req'[r].party = q /\ req'[r].seq = c.seq
      BY <1>8, <2>2, CallsBegin
    <3>2. q = p /\ req'[r].seq = c.seq /\ t < c.seq /\ c.seq \in Int
      BY <1>2, <1>8, <3>1 DEF BeginReport, TypeOK, Checkpoint
    <3> QED
      BY <1>2, <1>3, <3>2
  <2> QED
    BY <2>1, <2>2
<1>9. t \in reports'[p]
  BY <1>2, NothingIsWithdrawn
<1> QED
  BY <1>2, <1>4, <1>5, <1>6, <1>7, <1>8, <1>9 DEF Stranded, MandatorySeqs

\* A party that skipped a mandatory checkpoint never completes, whatever is appended to
\* the trail and whatever it reports later: it can only be aborted.
THEOREM StrandedPartiesStay == Spec => StrandedForGood
<1>1. TypeOK /\ [Next]_vars
        => [\A p \in Parties : Stranded(p) => Stranded(p)' \/ pstate'[p] = "aborted"]_vars
  BY StrandedStep
<1> QED
  BY <1>1, ProgressTypeCorrect, PTL DEF Spec, StrandedForGood

-----------------------------------------------------------------------------
(* The sweep and the classification of reports.                            *)

\* The grace of a checkpoint was over at a time, or ended in that instant.
OverdueBy(p, seq, time) == \E c \in checkpoints : c.seq = seq /\ time >= Deadline(p, c) + Grace

\* A sweep looks at an instant that has passed, and the grace of the checkpoint it names
\* was over by then.  An incident is opened in a second that has begun, and not before
\* the one in which the grace of its checkpoint ended.
AlarmInvariant ==
  /\ checkpoints \subseteq (UNION Plans) \cup Additions
  /\ \A w \in Sweepers : sweep[w] # Rest => sweep[w].time <= now
  /\ \A w \in Sweepers : sweep[w].at = "raise" =>
       OverdueBy(sweep[w].party, sweep[w].seq, sweep[w].time)
  /\ \A o \in overdue : o.opened <= now /\ OverdueBy(o.party, o.seq, o.opened)

\* The end of the grace is a whole second.
LEMMA DeadlinesAreWhole ==
  ASSUME TypeOK, AlarmInvariant, NEW p \in Parties, NEW c \in checkpoints
  PROVE  /\ Deadline(p, c) + Grace \in Int
         /\ (Deadline(p, c) + Grace) % Second = 0
<1>1. /\ Start[p] \in Int /\ c.cutoff \in Int /\ Grace \in Int
      /\ Start[p] % Second = 0 /\ c.cutoff % Second = 0 /\ Grace % Second = 0
  BY ProgressAssumption, WholeSeconds DEF TypeOK, AlarmInvariant, Checkpoint
<1>2. PICK m \in Int : m = Start[p] + c.cutoff /\ m % Second = 0
  <2>1. (Start[p] + c.cutoff) % Second = 0
    BY <1>1, SecondsAdd
  <2> QED
    BY <1>1, <2>1
<1>3. (m + Grace) % Second = 0
  BY <1>1, <1>2, SecondsAdd
<1> QED
  BY <1>1, <1>2, <1>3 DEF Deadline

\* What is overdue stays so, and all the more later.
LEMMA OverdueStays ==
  ASSUME TypeOK, [Next]_vars, NEW p \in Parties, NEW seq \in Int, NEW time, OverdueBy(p, seq, time)
  PROVE  \E c \in checkpoints' : c.seq = seq /\ time >= Deadline(p, c) + Grace
BY NothingIsWithdrawn DEF OverdueBy

\* What a sweep does.
LEMMA SweepsMove ==
  ASSUME TypeOK, [Next]_vars, NEW w \in Sweepers, sweep'[w] # sweep[w]
  PROVE  \/ sweep'[w] = Rest
         \/ sweep'[w].at = "inspect" /\ StartSweep(w) /\ sweep'[w].time = now
         \/ /\ sweep'[w].at = "inspect" /\ sweep'[w].time = sweep[w].time /\ sweep[w] # Rest
         \/ /\ sweep'[w].at = "raise" /\ sweep'[w].time = sweep[w].time /\ sweep[w] # Rest
            /\ sweep'[w].party \in sweep[w].todo
            /\ \E c \in OverdueCheckpoints(sweep'[w].party, sweep[w].time) : sweep'[w].seq = c.seq
<1>1. sweep \in [Sweepers -> Sweeps]
  BY DEF TypeOK
<1>2. ASSUME NEW v \in Sweepers, NEW next, SweepTo(v, next)
      PROVE  IF v = w THEN sweep'[w] = next ELSE sweep'[w] = sweep[w]
  BY <1>1, <1>2 DEF SweepTo
<1>3. ASSUME NEW v \in Sweepers, NEW todo, Inspect(v, todo)
      PROVE  \/ sweep'[w] = sweep[w]
             \/ sweep'[w] = Rest
             \/ v = w /\ sweep'[w].at = "inspect" /\ sweep'[w].time = sweep[w].time
  <2>1. CASE todo = {}
    BY <1>2, <1>3, <2>1 DEF Inspect
  <2>2. CASE todo # {}
    BY <1>2, <1>3, <2>2 DEF Inspect
  <2> QED
    BY <2>1, <2>2
<1>4. ASSUME NEW v \in Sweepers, StartSweep(v)
      PROVE  v = w /\ sweep'[w].at = "inspect" /\ sweep'[w].time = now
  BY <1>2, <1>4 DEF StartSweep
<1>5. ASSUME NEW v \in Sweepers, InspectParty(v)
      PROVE  \/ sweep'[w] = Rest
             \/ v = w /\ sweep'[w].at = "inspect" /\ sweep'[w].time = sweep[w].time
             \/ /\ v = w /\ sweep'[w].at = "raise" /\ sweep'[w].time = sweep[w].time
                /\ sweep'[w].party \in sweep[w].todo
                /\ \E c \in OverdueCheckpoints(sweep'[w].party, sweep[w].time) :
                     sweep'[w].seq = c.seq
  <2>1. PICK p \in sweep[v].todo :
          \/ Inspect(v, sweep[v].todo \ {p})
          \/ \E c \in OverdueCheckpoints(p, sweep[v].time) :
               SweepTo(v, [at |-> "raise", todo |-> sweep[v].todo \ {p},
                           time |-> sweep[v].time, party |-> p, seq |-> c.seq])
    BY <1>5 DEF InspectParty
  <2>2. CASE Inspect(v, sweep[v].todo \ {p})
    BY <1>3, <2>2
  <2>3. ASSUME NEW c \in OverdueCheckpoints(p, sweep[v].time),
               SweepTo(v, [at |-> "raise", todo |-> sweep[v].todo \ {p},
                           time |-> sweep[v].time, party |-> p, seq |-> c.seq])
        PROVE  /\ v = w /\ sweep'[w].at = "raise" /\ sweep'[w].time = sweep[w].time
               /\ sweep'[w].party = p /\ sweep'[w].seq = c.seq
    BY <1>2, <2>3
  <2> QED
    BY <2>1, <2>2, <2>3
<1>6. ASSUME NEW v \in Sweepers, RaiseOverdue(v)
      PROVE  \/ sweep'[w] = Rest
             \/ v = w /\ sweep'[w].at = "inspect" /\ sweep'[w].time = sweep[w].time
  BY <1>3, <1>6 DEF RaiseOverdue
<1>7. ASSUME NEW v \in Sweepers, SweepFails(v)
      PROVE  sweep'[w] = Rest
  BY <1>2, <1>7 DEF SweepFails
<1>8. ASSUME NEW r \in Requests, Serve(r)
      PROVE  sweep' = sweep
  BY <1>8 DEF Serve, BeginAddCheckpoint, BeginComplete, BeginReport, Begin, AddCheckpoint,
     InsertReport, CompleteParty, Fail, Return
<1>9. ASSUME \/ UNCHANGED vars \/ Tick
             \/ \E plan \in Plans : CreateTrail(plan)
             \/ \E p \in Parties : DispatchParty(p) \/ AbortParty(p)
             \/ \E o \in overdue : ResolveOverdue(o)
      PROVE  sweep' = sweep
  BY <1>9 DEF vars, Tick, CreateTrail, DispatchParty, AbortParty, ResolveOverdue
<1>10. ASSUME InspectParty(w) \/ RaiseOverdue(w)
       PROVE  sweep[w] # Rest
  BY <1>10 DEF InspectParty, RaiseOverdue, Rest
<1> QED
  BY <1>4, <1>5, <1>6, <1>7, <1>8, <1>9, <1>10 DEF Next, Sweep

\* The clock never goes back, and overdue incidents are opened by sweeps only.
LEMMA IncidentsOpen ==
  ASSUME TypeOK, [Next]_vars
  PROVE  /\ now <= now'
         /\ \A o \in overdue' :
              \/ \E q \in overdue : o.party = q.party /\ o.seq = q.seq /\ o.opened = q.opened
              \/ \E w \in Sweepers :
                   /\ sweep[w].at = "raise"
                   /\ o.party = sweep[w].party /\ o.seq = sweep[w].seq
                   /\ o.opened = Truncate(now)
<1>1. now \in Nat
  BY ProgressAssumption DEF TypeOK
<1>2. CASE UNCHANGED vars
  BY <1>1, <1>2 DEF vars
<1>3. ASSUME NEW r \in Requests, Serve(r)
      PROVE  UNCHANGED <<now, overdue>>
  BY <1>3 DEF Serve, BeginAddCheckpoint, BeginComplete, BeginReport, Begin, AddCheckpoint,
     InsertReport, CompleteParty, Fail, Return
<1>4. ASSUME NEW w \in Sweepers, StartSweep(w) \/ InspectParty(w) \/ SweepFails(w)
      PROVE  UNCHANGED <<now, overdue>>
  BY <1>4 DEF StartSweep, InspectParty, SweepFails, Inspect, SweepTo
<1>5. ASSUME \/ \E plan \in Plans : CreateTrail(plan)
             \/ \E p \in Parties : DispatchParty(p) \/ AbortParty(p)
      PROVE  UNCHANGED <<now, overdue>>
  BY <1>5 DEF CreateTrail, DispatchParty, AbortParty
<1>6. CASE Tick
  BY <1>1, <1>6 DEF Tick
<1>7. ASSUME NEW q \in overdue, ResolveOverdue(q)
      PROVE  /\ now' = now
             /\ \A o \in overdue' :
                  \E e \in overdue : o.party = e.party /\ o.seq = e.seq /\ o.opened = e.opened
  <2>1. q \in Overdue /\ overdue' = (overdue \ {q}) \cup {[q EXCEPT !.resolved = TRUE]}
    BY <1>7 DEF ResolveOverdue, TypeOK
  <2>2. /\ [q EXCEPT !.resolved = TRUE].party = q.party
        /\ [q EXCEPT !.resolved = TRUE].seq = q.seq
        /\ [q EXCEPT !.resolved = TRUE].opened = q.opened
    BY <2>1 DEF Overdue
  <2> QED
    BY <1>7, <2>1, <2>2 DEF ResolveOverdue
<1>8. ASSUME NEW w \in Sweepers, RaiseOverdue(w)
      PROVE  /\ now' = now /\ sweep[w].at = "raise"
             /\ \A o \in overdue' :
                  \/ o \in overdue
                  \/ /\ o.party = sweep[w].party /\ o.seq = sweep[w].seq
                     /\ o.opened = Truncate(now)
  <2>1. \/ overdue' = overdue
        \/ overdue' = overdue \cup {[party |-> sweep[w].party, seq |-> sweep[w].seq,
                                     opened |-> Truncate(now), resolved |-> FALSE]}
    BY <1>8 DEF RaiseOverdue
  <2> QED
    BY <1>8, <2>1 DEF RaiseOverdue, Inspect, SweepTo
<1> QED
  BY <1>1, <1>2, <1>3, <1>4, <1>5, <1>6, <1>7, <1>8 DEF Next, Sweep

LEMMA AlarmInvariantStep ==
  ASSUME TypeOK, AlarmInvariant, [Next]_vars
  PROVE  AlarmInvariant'
<1>1. now \in Nat /\ now' \in Nat /\ now <= now'
  <2>1. TypeOK'
    BY TypeStep
  <2> QED
    BY <2>1, IncidentsOpen, ProgressAssumption DEF TypeOK
<1>2. checkpoints' \subseteq (UNION Plans) \cup Additions
  <2>1. CASE \E plan \in Plans : CreateTrail(plan)
    BY <2>1 DEF CreateTrail
  <2>2. CASE \E r \in Requests : AddCheckpoint(r)
    BY <2>2, CallForms DEF AddCheckpoint, InsertCheckpoint, AlarmInvariant
  <2>3. ASSUME NEW r \in Requests, Serve(r), ~AddCheckpoint(r)
        PROVE  UNCHANGED checkpoints
    BY <2>3 DEF Serve, BeginAddCheckpoint, BeginComplete, BeginReport, Begin, InsertReport,
       CompleteParty, Fail
  <2>4. ASSUME NEW w \in Sweepers, Sweep(w) \/ SweepFails(w)
        PROVE  UNCHANGED checkpoints
    BY <2>4 DEF Sweep, StartSweep, InspectParty, RaiseOverdue, SweepFails, Inspect, SweepTo
  <2>5. ASSUME \/ \E p \in Parties : DispatchParty(p) \/ AbortParty(p)
               \/ \E o \in overdue : ResolveOverdue(o)
               \/ Tick \/ UNCHANGED vars
        PROVE  UNCHANGED checkpoints
    BY <2>5 DEF DispatchParty, AbortParty, ResolveOverdue, Tick, vars
  <2> QED
    BY <2>1, <2>2, <2>3, <2>4, <2>5 DEF Next, AlarmInvariant
<1>3. ASSUME NEW w \in Sweepers, sweep'[w] # Rest
      PROVE  sweep'[w].time <= now'
  <2>1. CASE sweep'[w] = sweep[w]
    BY <1>1, <1>3, <2>1, SweepForms DEF AlarmInvariant
  <2>2. CASE sweep'[w] # sweep[w]
    <3>1. sweep'[w].time = now \/ (sweep'[w].time = sweep[w].time /\ sweep[w] # Rest)
      BY <1>3, <2>2, SweepsMove
    <3> QED
      BY <1>1, <3>1, SweepForms DEF AlarmInvariant
  <2> QED
    BY <2>1, <2>2
<1>4. ASSUME NEW w \in Sweepers, sweep'[w].at = "raise"
      PROVE  OverdueBy(sweep[w].party, sweep[w].seq, sweep[w].time)'
  <2>1. PICK p \in Parties, seq \in Int, time \in Nat :
          /\ p = sweep'[w].party /\ seq = sweep'[w].seq /\ time = sweep'[w].time
          /\ OverdueBy(p, seq, time)
    <3>1. CASE sweep'[w] = sweep[w]
      BY <1>4, <3>1, SweepForms DEF AlarmInvariant
    <3>2. CASE sweep'[w] # sweep[w]
      <4>1. /\ sweep[w] # Rest /\ sweep'[w].time = sweep[w].time
            /\ sweep'[w].party \in sweep[w].todo
            /\ \E c \in OverdueCheckpoints(sweep'[w].party, sweep[w].time) : sweep'[w].seq = c.seq
        BY <1>4, <3>2, SweepsMove DEF Rest
      <4>2. PICK c \in OverdueCheckpoints(sweep'[w].party, sweep[w].time) : sweep'[w].seq = c.seq
        BY <4>1
      <4>3. /\ sweep'[w].party \in Parties /\ sweep'[w].time \in Nat
        BY <4>1, SweepForms
      <4>4. /\ c \in checkpoints /\ c.seq \in Int
            /\ sweep'[w].time > Deadline(sweep'[w].party, c) + Grace
        BY <4>1, <4>2 DEF OverdueCheckpoints, TypeOK, Checkpoint
      <4>5. Deadline(sweep'[w].party, c) + Grace \in Int
        BY <4>3, <4>4, DeadlinesAreWhole
      <4> QED
        BY <4>2, <4>3, <4>4, <4>5 DEF OverdueBy
    <3> QED
      BY <3>1, <3>2
  <2> QED
    BY <2>1, OverdueStays DEF OverdueBy
<1>5. ASSUME NEW o \in overdue'
      PROVE  o.opened <= now' /\ OverdueBy(o.party, o.seq, o.opened)'
  <2>1. ASSUME NEW q \in overdue, o.party = q.party, o.seq = q.seq, o.opened = q.opened
        PROVE  o.opened <= now' /\ OverdueBy(o.party, o.seq, o.opened)'
    <3>1. PICK p \in Parties, seq \in Int, opened \in Nat :
            p = q.party /\ seq = q.seq /\ opened = q.opened
      BY DEF TypeOK, Overdue
    <3>2. opened <= now /\ OverdueBy(p, seq, opened)
      BY <3>1 DEF AlarmInvariant
    <3> QED
      BY <1>1, <2>1, <3>1, <3>2, OverdueStays DEF OverdueBy
  <2>2. ASSUME NEW w \in Sweepers, sweep[w].at = "raise",
               o.party = sweep[w].party, o.seq = sweep[w].seq, o.opened = Truncate(now)
        PROVE  o.opened <= now' /\ OverdueBy(o.party, o.seq, o.opened)'
    <3>1. PICK p \in Parties, seq \in Int, time \in Nat :
            p = sweep[w].party /\ seq = sweep[w].seq /\ time = sweep[w].time
      BY <2>2, SweepForms
    <3>2. PICK c \in checkpoints : c.seq = seq /\ time >= Deadline(p, c) + Grace
      BY <2>2, <3>1 DEF AlarmInvariant, OverdueBy
    <3>3. time <= now
      BY <2>2, <3>1 DEF AlarmInvariant, Rest
    <3>4. PICK m \in Int : m = Deadline(p, c) + Grace /\ m % Second = 0
      BY DeadlinesAreWhole
    <3>5. m <= Truncate(now) /\ Truncate(now) \in Nat /\ Truncate(now) <= now
      BY <1>1, <3>2, <3>3, <3>4, TruncateKeepsSeconds, TruncateBounds
    <3>6. OverdueBy(p, seq, Truncate(now))
      BY <3>2, <3>4, <3>5 DEF OverdueBy
    <3> QED
      BY <1>1, <2>2, <3>1, <3>5, <3>6, OverdueStays DEF OverdueBy
  <2> QED
    BY <2>1, <2>2, IncidentsOpen
<1> QED
  BY <1>2, <1>3, <1>4, <1>5 DEF AlarmInvariant

\* The grace of a checkpoint was over when a sweep that names it took its time, and
\* by the second in which an overdue incident was opened (SweepOverdueCheckpoints,
\* OpenOverdue).
THEOREM AlarmInvariantHolds == Spec => []AlarmInvariant
<1>1. Init => AlarmInvariant
  BY DEF Init, AlarmInvariant, Rest
<1>2. TypeOK /\ AlarmInvariant /\ [Next]_vars => AlarmInvariant'
  BY AlarmInvariantStep
<1> QED
  BY <1>1, <1>2, ProgressTypeCorrect, PTL DEF Spec

\* What is reported after its overdue incident was opened is classified as missed, or
\* reported within the second in which the grace ends, since the sweep compares the
\* clock and the report the time truncated to its second.
THEOREM AlarmLeadsBySecond == Spec => AlarmLeadsByASecond
<1>1. TypeOK /\ AlarmInvariant /\ [Next]_vars
        => [\A r \in Requests : \A o \in overdue, c \in checkpoints :
              /\ req[r] = Idle /\ req'[r].op = "report"
              /\ req'[r].party = o.party /\ req'[r].seq = o.seq /\ c.seq = o.seq
              => \/ req'[r].status = "missed"
                 \/ Truncate(now) = Deadline(o.party, c) + Grace]_vars
  <2> SUFFICES ASSUME TypeOK, AlarmInvariant, [Next]_vars,
                      NEW r \in Requests, NEW o \in overdue, NEW c \in checkpoints,
                      req[r] = Idle, req'[r].op = "report",
                      req'[r].party = o.party, req'[r].seq = o.seq, c.seq = o.seq,
                      Truncate(now) # Deadline(o.party, c) + Grace
               PROVE  req'[r].status = "missed"
    OBVIOUS
  <2>1. PICK p \in Reporting, d \in checkpoints :
          /\ o.party = p /\ d.seq = o.seq
          /\ req'[r].status = ClassifyReport(p, d, Truncate(now))
    BY CallsBegin DEF Idle
  <2>2. PICK e \in checkpoints : e.seq = o.seq /\ o.opened >= Deadline(p, e) + Grace
    BY <2>1 DEF AlarmInvariant, OverdueBy
  <2>3. d = c /\ e = c
    BY <2>1, <2>2 DEF TypeOK
  <2>4. p \in Parties /\ o.opened \in Nat /\ now \in Nat /\ Grace \in Nat
    BY ProgressAssumption DEF TypeOK, Overdue
  <2>5. PICK m \in Int : m = Deadline(p, c) /\ (m + Grace) % Second = 0
    <3>1. Deadline(p, c) \in Int
      BY <2>4, ProgressAssumption DEF Deadline, TypeOK, Checkpoint
    <3> QED
      BY <2>4, <3>1, DeadlinesAreWhole
  <2>6. m + Grace <= now
    BY <2>2, <2>3, <2>4, <2>5 DEF AlarmInvariant
  <2>7. Truncate(now) \in Nat /\ m + Grace <= Truncate(now)
    BY <2>4, <2>5, <2>6, TruncateKeepsSeconds, TruncateBounds
  <2>8. Truncate(now) > m + Grace
    BY <2>1, <2>4, <2>5, <2>7
  <2> QED
    BY <2>1, <2>3, <2>4, <2>5, <2>7, <2>8 DEF ClassifyReport
<1> QED
  BY <1>1, AlarmInvariantHolds, ProgressTypeCorrect, PTL DEF Spec, AlarmLeadsByASecond

=============================================================================
