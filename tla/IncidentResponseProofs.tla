------------------------ MODULE IncidentResponseProofs ------------------------
(***************************************************************************)
(* Proofs about IncidentResponse, for any parties, calls, workers, matters, *)
(* attempts and bounds: a resolved incident stays resolved, a matter has    *)
(* one unresolved incident, the chain of escalations has the jobs its count *)
(* accounts for, and no unresolved incident is forgotten.                   *)
(*                                                                         *)
(* A call or a handler decides on an incident that it read before its       *)
(* transaction.  The invariants of both say what the version they carry is   *)
(* good for: while the row still has that version, the row is as they read   *)
(* it, so the conditional update does what was decided.                     *)
(***************************************************************************)
EXTENDS IncidentResponse, SequenceTheorems, FiniteSetTheorems, TLAPS

IncidentIds == DOMAIN incidents
JobIds == DOMAIN jobs

\* The incident a worker works on.
IncidentOf(w) == jobs[run[w].job].incident

\* A ruling is on an incident that exists, and legal as long as nobody changed it.
RulingIsCurrent(c) ==
  c.op \in Rulings =>
    /\ c.incident \in IncidentIds
    /\ c.version <= incidents[c.incident].version
    /\ c.version = incidents[c.incident].version =>
         /\ <<incidents[c.incident].state, Ruled(c.op)>> \in IncidentTransitions
         /\ c.count = incidents[c.incident].count

\* A hand-off is of an unresolved incident, short of its last escalation, as long as
\* nobody changed it.
HandOffIsCurrent(w) ==
  At(w, "hand_off") =>
    LET i == incidents[IncidentOf(w)] IN
    /\ run[w].version <= i.version
    /\ run[w].version = i.version =>
         /\ i.state \in Unresolved
         /\ run[w].count = i.count
         /\ i.count < MaxEscalations(i.severity)

RunIsOfJob(w) == run[w] # Rest => run[w].job \in JobIds

RowInvariant ==
  /\ TypeOK
  /\ \A r \in Requests : RulingIsCurrent(req[r])
  /\ \A w \in Workers : RunIsOfJob(w) /\ HandOffIsCurrent(w)

\* What a step does to the row of an incident that exists: nothing, a ruling, or one
\* escalation of an unresolved incident that was short of its last one.
RuledOrEscalated(i) ==
  /\ incidents'[i].version = incidents[i].version + 1
  /\ \/ /\ \E op \in Rulings : <<incidents[i].state, Ruled(op)>> \in IncidentTransitions
                                /\ incidents'[i].state = Ruled(op)
        /\ incidents'[i].count = incidents[i].count
     \/ /\ incidents[i].state \in Unresolved
        /\ incidents'[i].state = "escalated"
        /\ incidents[i].count < MaxEscalations(incidents[i].severity)
        /\ incidents'[i].count = incidents[i].count + 1

RowStep(i) ==
  /\ incidents'[i].party = incidents[i].party
  /\ incidents'[i].matter = incidents[i].matter
  /\ incidents'[i].severity = incidents[i].severity
  /\ incidents'[i] = incidents[i] \/ RuledOrEscalated(i)

\* Steps that write neither incidents nor jobs, and those of a worker that writes at
\* most the state of a job.
CallStep(r) ==
  \/ LookUpOverdue(r) \/ BeginAbort(r) \/ AbortParty(r) \/ Fail(r)
  \/ \E p \in Parties : \/ \E m \in Matters, s \in Severities : BeginOpen(r, p, m, s)
                        \/ \E m \in OverdueMatters : BeginOpenOverdue(r, p, m)
  \/ \E op \in Rulings, i \in DOMAIN incidents : BeginRuling(r, op, i)
ReadingStep == (\E p \in Parties : MoveParty(p)) \/ (\E r \in Requests : CallStep(r))
JobStep(w) ==
  \/ \E n \in DOMAIN jobs : ClaimJob(w, n)
  \/ ReadIncident(w) \/ HandOffConflicts(w) \/ MarkDone(w) \/ MarkFailure(w)
  \/ HandlerFails(w) \/ LoseWorker(w)
WorkingStep == (\E w \in Workers : JobStep(w)) \/ (\E n \in DOMAIN jobs : ExpireLease(n))

-----------------------------------------------------------------------------
(* The rows.                                                               *)

LEMMA RowTypes ==
  ASSUME TypeOK
  PROVE  /\ IncidentIds = 1..Len(incidents) /\ Len(incidents) \in Nat
         /\ JobIds = 1..Len(jobs) /\ Len(jobs) \in Nat
         /\ \A i \in IncidentIds : incidents[i] \in Incident
         /\ \A n \in JobIds : jobs[n] \in Job /\ jobs[n].incident \in IncidentIds
<1>1. incidents \in Seq(Incident) /\ jobs \in Seq(Job)
  BY DEF TypeOK
<1>2. /\ DOMAIN incidents = 1..Len(incidents) /\ Len(incidents) \in Nat
      /\ DOMAIN jobs = 1..Len(jobs) /\ Len(jobs) \in Nat
  BY <1>1, LenProperties
<1>3. /\ \A i \in 1..Len(incidents) : incidents[i] \in Incident
      /\ \A n \in 1..Len(jobs) : jobs[n] \in Job
  BY <1>1, ElementOfSeq
<1> QED
  BY <1>2, <1>3 DEF TypeOK, IncidentIds, JobIds

\* A new incident leaves the others as they are.
LEMMA InsertedRow ==
  ASSUME TypeOK, NEW p \in Parties, NEW m \in Matters,
         NEW severity \in {"minor", "major", "critical"}, InsertIncident(p, m, severity)
  PROVE  /\ incidents' \in Seq(Incident)
         /\ IncidentIds' = 1..(Len(incidents) + 1)
         /\ \A i \in IncidentIds : incidents'[i] = incidents[i]
         /\ LET row == incidents'[Len(incidents) + 1] IN
            /\ row.party = p /\ row.matter = m /\ row.severity = severity
            /\ row.state = "open" /\ row.count = 0 /\ row.version = 1
<1> DEFINE row == [party |-> p, matter |-> m, severity |-> severity,
                   state |-> "open", count |-> 0, version |-> 1]
<1>1. row \in Incident
  BY DEF Incident, IncidentStates
<1>2. incidents' = Append(incidents, row) /\ incidents \in Seq(Incident)
  BY DEF InsertIncident, TypeOK
<1>3. /\ row.party = p /\ row.matter = m /\ row.severity = severity
      /\ row.state = "open" /\ row.count = 0 /\ row.version = 1
  OBVIOUS
<1> HIDE DEF row
<1>4. /\ incidents' \in Seq(Incident) /\ Len(incidents') = Len(incidents) + 1
      /\ \A i \in 1..Len(incidents) : incidents'[i] = incidents[i]
      /\ incidents'[Len(incidents) + 1] = row
  BY <1>1, <1>2, AppendProperties
<1>5. DOMAIN incidents' = 1..Len(incidents')
  BY <1>4, LenProperties
<1> QED
  BY <1>3, <1>4, <1>5, RowTypes DEF IncidentIds

\* What a conditional update writes.
WithRow(i, next, count) ==
  [incidents EXCEPT ![i].state = next, ![i].count = count, ![i].version = @ + 1]

\* A conditional update changes state, count and version of one row.
LEMMA UpdatedRow ==
  ASSUME TypeOK, NEW i \in IncidentIds, NEW next \in IncidentStates, NEW count \in Nat,
         incidents' = WithRow(i, next, count)
  PROVE  /\ incidents' \in Seq(Incident)
         /\ IncidentIds' = IncidentIds
         /\ \A k \in IncidentIds : k # i => incidents'[k] = incidents[k]
         /\ incidents'[i] = [incidents[i] EXCEPT !.state = next, !.count = count,
                                                 !.version = @ + 1]
<1> USE DEF WithRow
<1> DEFINE row == [incidents[i] EXCEPT !.state = next, !.count = count, !.version = @ + 1]
<1>1. i \in 1..Len(incidents) /\ incidents[i] \in Incident /\ incidents \in Seq(Incident)
  BY RowTypes DEF TypeOK
<1>2. row \in Incident
  <2>1. incidents[i].version + 1 \in Nat
    BY <1>1 DEF Incident
  <2>2. \A v \in Nat : [incidents[i] EXCEPT !.state = next, !.count = count, !.version = v]
                        \in Incident
    BY <1>1 DEF Incident
  <2>3. row = [incidents[i] EXCEPT !.state = next, !.count = count,
                                   !.version = incidents[i].version + 1]
    OBVIOUS
  <2> QED
    BY <2>1, <2>2, <2>3
<1>3. incidents' = [incidents EXCEPT ![i] = row]
  OBVIOUS
<1> HIDE DEF row
<1>4. /\ incidents' \in Seq(Incident) /\ Len(incidents') = Len(incidents)
      /\ \A k \in 1..Len(incidents) : incidents'[k] = IF k = i THEN row ELSE incidents[k]
  BY <1>1, <1>2, <1>3, ExceptSeq
<1>5. DOMAIN incidents' = 1..Len(incidents')
  BY <1>4, LenProperties
<1> QED
  BY <1>1, <1>4, <1>5, RowTypes DEF IncidentIds, row

\* A queued job leaves the others as they are.
LEMMA QueuedRow ==
  ASSUME TypeOK, NEW i \in Nat, EnqueueEscalation(i)
  PROVE  /\ jobs' \in Seq(Job)
         /\ JobIds' = 1..(Len(jobs) + 1)
         /\ \A n \in JobIds : jobs'[n] = jobs[n]
         /\ jobs'[Len(jobs) + 1].incident = i /\ jobs'[Len(jobs) + 1].state = "queued"
<1> DEFINE row == Queued(i)
<1>1. row \in Job /\ row.incident = i /\ row.state = "queued"
  BY DEF Queued, Job
<1>2. jobs' = Append(jobs, row) /\ jobs \in Seq(Job)
  BY DEF EnqueueEscalation, TypeOK
<1> HIDE DEF row
<1>3. /\ jobs' \in Seq(Job) /\ Len(jobs') = Len(jobs) + 1
      /\ \A n \in 1..Len(jobs) : jobs'[n] = jobs[n]
      /\ jobs'[Len(jobs) + 1] = row
  BY <1>1, <1>2, AppendProperties
<1>4. DOMAIN jobs' = 1..Len(jobs')
  BY <1>3, LenProperties
<1> QED
  BY <1>1, <1>3, <1>4, RowTypes DEF JobIds

\* A job that is written keeps its incident, and the others stay as they are.
LEMMA WrittenRow ==
  ASSUME TypeOK, NEW n \in JobIds, NEW row \in Job, row.incident = jobs[n].incident,
         jobs' = [jobs EXCEPT ![n] = row]
  PROVE  /\ jobs' \in Seq(Job) /\ JobIds' = JobIds
         /\ jobs'[n] = row
         /\ \A k \in JobIds : k # n => jobs'[k] = jobs[k]
         /\ \A k \in JobIds : jobs'[k].incident = jobs[k].incident
<1>1. n \in 1..Len(jobs) /\ jobs \in Seq(Job)
  BY RowTypes DEF TypeOK
<1>2. /\ jobs' \in Seq(Job) /\ Len(jobs') = Len(jobs)
      /\ \A k \in 1..Len(jobs) : jobs'[k] = IF k = n THEN row ELSE jobs[k]
  BY <1>1, ExceptSeq
<1>3. DOMAIN jobs' = 1..Len(jobs')
  BY <1>2, LenProperties
<1> QED
  BY <1>1, <1>2, <1>3, RowTypes DEF JobIds

-----------------------------------------------------------------------------
(* The steps.                                                              *)

\* A call is of one of the forms of Calls.
LEMMA CallForms ==
  ASSUME TypeOK, NEW r \in Requests
  PROVE  /\ req[r].op = "lookup" => req[r].party \in Parties /\ req[r].matter \in Matters
         /\ req[r].op = "create" => /\ req[r].party \in Parties /\ req[r].matter \in Matters
                                    /\ req[r].severity \in {"minor", "major", "critical"}
         /\ req[r].op \in {"abort", "aborting"} => req[r].party \in Parties
         /\ req[r].op = "aborting" => req[r].state \in Active /\ req[r].version \in Nat
         /\ req[r].op \in Rulings => req[r].version \in Nat /\ req[r].count \in Nat
<1>1. req[r] \in Calls
  BY DEF TypeOK
<1> QED
  BY <1>1, IncidentAssumption DEF Calls, Idle, Rulings

\* A worker at work has a job and the attempts it counts.
LEMMA RunForms ==
  ASSUME TypeOK, NEW w \in Workers
  PROVE  /\ run[w] # Rest => /\ run[w].at \in {"read", "done", "failed", "hand_off"}
                             /\ run[w].job \in Nat /\ run[w].attempts \in Nat
         /\ At(w, "hand_off") => run[w].version \in Nat /\ run[w].count \in Nat
         /\ \A step \in {"read", "done", "failed", "hand_off"} : At(w, step) => run[w] # Rest
<1>1. run[w] \in Runs
  BY DEF TypeOK
<1> QED
  BY <1>1 DEF Runs, Rest, At

\* Calls that only read, and the moves of parties, keep the types.
LEMMA ReadingKeepsTypes ==
  ASSUME RowInvariant, ReadingStep
  PROVE  TypeOK' /\ UNCHANGED <<incidents, jobs, run>>
<1> USE DEF RowInvariant, ReadingStep, CallStep
<1>1. UNCHANGED <<incidents, jobs, run, mishaps>>
  BY DEF MoveParty, LookUpOverdue, BeginAbort, AbortParty, Fail, BeginOpen, BeginOpenOverdue,
         BeginRuling, Begin, Proceed
<1>2. pstate' \in [Parties -> PartyStates] /\ pversion' \in [Parties -> Nat]
  <2>1. CASE UNCHANGED partyVars
    BY <2>1 DEF partyVars, TypeOK
  <2>2. CASE ~UNCHANGED partyVars
    <3>1. \E p \in Parties, v \in Nat, from, next \in PartyStates : ChangeParty(p, from, v, next)
      <4>1. CASE \E p \in Parties : MoveParty(p)
        <5>1. PICK p \in Parties, move \in PartyMoves :
                ChangeParty(p, move[1], pversion[p], move[2])
          BY <4>1 DEF MoveParty
        <5>2. move[1] \in PartyStates /\ move[2] \in PartyStates /\ pversion[p] \in Nat
          BY IncidentAssumption DEF PartyStates, TypeOK
        <5> QED
          BY <5>1, <5>2
      <4>2. CASE \E r \in Requests : AbortParty(r)
        <5>1. PICK r \in Requests : AbortParty(r)
          BY <4>2
        <5>2. req[r].op = "aborting" /\ ChangeParty(req[r].party, req[r].state, req[r].version, "aborted")
          BY <5>1 DEF AbortParty
        <5>3. req[r].party \in Parties /\ req[r].state \in PartyStates /\ req[r].version \in Nat
          BY <5>2, CallForms DEF Active, PartyStates
        <5> QED
          BY <5>2, <5>3 DEF PartyStates
      <4> QED
        BY <2>2, <4>1, <4>2 DEF LookUpOverdue, BeginAbort, Fail, BeginOpen, BeginOpenOverdue,
           BeginRuling, Begin, partyVars
    <3> QED
      <4>1. PICK p \in Parties, next \in PartyStates :
              /\ pstate' = [pstate EXCEPT ![p] = next]
              /\ pversion' = [pversion EXCEPT ![p] = @ + 1]
        BY <3>1 DEF ChangeParty
      <4> QED
        BY <4>1 DEF TypeOK
  <2> QED
    BY <2>1, <2>2
<1>3. req' \in [Requests -> Calls]
  <2>1. CASE \E p \in Parties : MoveParty(p)
    BY <2>1 DEF MoveParty, TypeOK
  <2>2. CASE \E r \in Requests, c \in Calls : req' = [req EXCEPT ![r] = c]
    BY <2>2 DEF TypeOK
  <2>3. ASSUME NEW r \in Requests, AbortParty(r) \/ Fail(r)
        PROVE  \E c \in Calls : req' = [req EXCEPT ![r] = c]
    BY <2>3 DEF AbortParty, Fail, Proceed, Calls
  <2>4. ASSUME NEW r \in Requests, LookUpOverdue(r)
        PROVE  \E c \in Calls : req' = [req EXCEPT ![r] = c]
    <3> DEFINE c == [op |-> "create", party |-> req[r].party, matter |-> req[r].matter,
                     severity |-> "major"]
    <3>1. c \in Calls
      BY <2>4, CallForms DEF LookUpOverdue, Calls
    <3>2. req' = [req EXCEPT ![r] = c] \/ req' = [req EXCEPT ![r] = Idle]
      BY <2>4 DEF LookUpOverdue, Proceed
    <3> QED
      BY <3>1, <3>2 DEF Calls
  <2>5. ASSUME NEW r \in Requests, BeginAbort(r)
        PROVE  \E c \in Calls : req' = [req EXCEPT ![r] = c]
    <3> DEFINE p == req[r].party
               c == [op |-> "aborting", party |-> p, state |-> pstate[p],
                     version |-> pversion[p]]
    <3>1. pstate[p] \in Active => c \in Calls
      BY <2>5, CallForms DEF BeginAbort, Calls, TypeOK
    <3>2. \/ pstate[p] \in Active /\ req' = [req EXCEPT ![r] = c]
          \/ req' = [req EXCEPT ![r] = Idle]
      BY <2>5 DEF BeginAbort, Proceed
    <3> QED
      BY <3>1, <3>2 DEF Calls
  <2>6. ASSUME NEW r \in Requests, NEW p \in Parties,
               \/ \E m \in Matters, s \in Severities : BeginOpen(r, p, m, s)
               \/ \E m \in OverdueMatters : BeginOpenOverdue(r, p, m)
        PROVE  \E c \in Calls : req' = [req EXCEPT ![r] = c]
    BY <2>6, IncidentAssumption DEF BeginOpen, BeginOpenOverdue, Begin, Calls
  <2>7. ASSUME NEW r \in Requests, NEW op \in Rulings, NEW i \in IncidentIds, BeginRuling(r, op, i)
        PROVE  \E c \in Calls : req' = [req EXCEPT ![r] = c]
    <3>1. incidents[i].version \in Nat /\ incidents[i].count \in Nat /\ i \in Nat
      BY RowTypes DEF Incident
    <3> QED
      BY <2>7, <3>1 DEF BeginRuling, Begin, Calls
  <2> QED
    BY <2>1, <2>2, <2>3, <2>4, <2>5, <2>6, <2>7 DEF IncidentIds
<1> QED
  BY <1>1, <1>2, <1>3 DEF TypeOK

\* A new incident and its first job.
LEMMA CreatingKeepsTypes ==
  ASSUME RowInvariant, NEW r \in Requests, CreateIncident(r)
  PROVE  /\ TypeOK'
         /\ IncidentIds' = 1..(Len(incidents) + 1)
         /\ \A i \in IncidentIds : incidents'[i] = incidents[i]
         /\ LET row == incidents'[Len(incidents) + 1] IN
            /\ row.party = req[r].party /\ row.matter = req[r].matter
            /\ row.state = "open" /\ row.count = 0 /\ row.version = 1
            /\ row.severity \in {"minor", "major", "critical"}
         /\ JobIds' = 1..(Len(jobs) + 1)
         /\ \A n \in JobIds : jobs'[n] = jobs[n]
         /\ jobs'[Len(jobs) + 1].incident = Len(incidents) + 1
         /\ jobs'[Len(jobs) + 1].state = "queued"
         /\ run' = run
<1> USE DEF RowInvariant
<1>1. /\ req[r].op = "create" /\ UNCHANGED <<partyVars, run, mishaps>>
      /\ InsertIncident(req[r].party, req[r].matter, req[r].severity)
      /\ EnqueueEscalation(Len(incidents) + 1)
  BY DEF CreateIncident, Proceed
<1>2. /\ req[r].party \in Parties /\ req[r].matter \in Matters
      /\ req[r].severity \in {"minor", "major", "critical"}
  BY <1>1, CallForms
<1>3. /\ incidents' \in Seq(Incident)
      /\ IncidentIds' = 1..(Len(incidents) + 1)
      /\ \A i \in IncidentIds : incidents'[i] = incidents[i]
      /\ LET row == incidents'[Len(incidents) + 1] IN
         /\ row.party = req[r].party /\ row.matter = req[r].matter
         /\ row.state = "open" /\ row.count = 0 /\ row.version = 1
         /\ row.severity \in {"minor", "major", "critical"}
  <2>1. PICK p \in Parties, m \in Matters, s \in {"minor", "major", "critical"} :
          p = req[r].party /\ m = req[r].matter /\ s = req[r].severity
    BY <1>2
  <2>2. InsertIncident(p, m, s)
    BY <1>1, <2>1
  <2> QED
    BY <2>1, <2>2, InsertedRow
<1>4. /\ jobs' \in Seq(Job)
      /\ JobIds' = 1..(Len(jobs) + 1)
      /\ \A n \in JobIds : jobs'[n] = jobs[n]
      /\ jobs'[Len(jobs) + 1].incident = Len(incidents) + 1
      /\ jobs'[Len(jobs) + 1].state = "queued"
  <2>1. PICK i \in Nat : i = Len(incidents) + 1
    BY RowTypes
  <2>2. EnqueueEscalation(i)
    BY <1>1, <2>1
  <2> QED
    BY <2>1, <2>2, QueuedRow
<1>5. \A n \in JobIds' : jobs'[n].incident \in IncidentIds'
  <2> SUFFICES ASSUME NEW n \in JobIds'
               PROVE  jobs'[n].incident \in IncidentIds'
    OBVIOUS
  <2>1. CASE n \in JobIds
    <3>1. jobs[n].incident \in 1..Len(incidents) /\ Len(incidents) \in Nat
      BY <2>1, RowTypes
    <3> QED
      BY <1>3, <1>4, <2>1, <3>1
  <2>2. CASE n \notin JobIds
    <3>1. n = Len(jobs) + 1 /\ Len(incidents) + 1 \in 1..(Len(incidents) + 1)
      BY <1>4, <2>2, RowTypes
    <3> QED
      BY <1>3, <1>4, <3>1
  <2> QED
    BY <2>1, <2>2
<1>6. req' \in [Requests -> Calls]
  <2>1. [op |-> "abort", party |-> req[r].party] \in Calls
    BY <1>2 DEF Calls
  <2>2. \/ req' = [req EXCEPT ![r] = [op |-> "abort", party |-> req[r].party]]
        \/ req' = [req EXCEPT ![r] = Idle]
    BY DEF CreateIncident, Proceed
  <2>3. req \in [Requests -> Calls] /\ Idle \in Calls
    BY DEF TypeOK, Calls
  <2> QED
    BY <2>1, <2>2, <2>3
<1>7. TypeOK'
  BY <1>1, <1>3, <1>4, <1>5, <1>6 DEF TypeOK, partyVars, IncidentIds, JobIds
<1> QED
  BY <1>1, <1>3, <1>4, <1>7

\* A ruling on an incident that nobody changed.
LEMMA RulingKeepsTypes ==
  ASSUME RowInvariant, NEW r \in Requests, CommitRuling(r)
  PROVE  /\ TypeOK'
         /\ IncidentIds' = IncidentIds
         /\ \A i \in IncidentIds : RowStep(i)
         /\ \A i \in IncidentIds : incidents'[i].count = incidents[i].count
         /\ UNCHANGED <<jobs, run>>
<1> USE DEF RowInvariant
<1>1. PICK i \in IncidentIds, op \in Rulings :
        /\ i = req[r].incident /\ op = req[r].op
        /\ incidents[i].version = req[r].version
        /\ <<incidents[i].state, Ruled(op)>> \in IncidentTransitions
        /\ req[r].count = incidents[i].count
  BY CallForms, RowTypes DEF CommitRuling, Apply, RulingIsCurrent, Incident
<1>2. Apply(i, req[r].version, Ruled(op), incidents[i].count)
  BY <1>1 DEF CommitRuling
<1>3. Ruled(op) \in IncidentStates /\ incidents[i].count \in Nat /\ incidents[i] \in Incident
  BY RowTypes DEF Ruled, IncidentStates, Incident
<1>4. PICK next \in IncidentStates, count \in Nat :
        next = Ruled(op) /\ count = incidents[i].count
  BY <1>3
<1>5. /\ incidents' \in Seq(Incident)
      /\ IncidentIds' = IncidentIds
      /\ \A k \in IncidentIds : k # i => incidents'[k] = incidents[k]
      /\ incidents'[i] = [incidents[i] EXCEPT !.state = next, !.count = count,
                                              !.version = @ + 1]
  <2>1. incidents' = WithRow(i, next, count)
    BY <1>2, <1>4 DEF Apply, WithRow
  <2> QED
    BY <2>1, UpdatedRow
<1>6. /\ incidents'[i].party = incidents[i].party
      /\ incidents'[i].matter = incidents[i].matter
      /\ incidents'[i].severity = incidents[i].severity
      /\ incidents'[i].state = Ruled(op) /\ incidents'[i].count = incidents[i].count
      /\ incidents'[i].version = incidents[i].version + 1
  BY <1>3, <1>4, <1>5 DEF Incident
<1>7. \A k \in IncidentIds : RowStep(k)
  <2>1. RowStep(i)
    <3>1. RuledOrEscalated(i)
      BY <1>1, <1>6 DEF RuledOrEscalated
    <3> QED
      BY <1>6, <3>1 DEF RowStep
  <2>2. \A k \in IncidentIds : k # i => RowStep(k)
    BY <1>5 DEF RowStep
  <2> QED
    BY <2>1, <2>2
<1>8. TypeOK'
  <2>1. UNCHANGED <<partyVars, jobs, run, mishaps>> /\ req' = [req EXCEPT ![r] = Idle]
    BY DEF CommitRuling, Proceed
  <2> QED
    BY <1>5, <2>1 DEF TypeOK, partyVars, IncidentIds, Calls
<1> QED
  BY <1>5, <1>6, <1>7, <1>8 DEF CommitRuling, Proceed

\* An escalation, with the next job unless it is the last.
LEMMA HandOffKeepsTypes ==
  ASSUME RowInvariant, NEW w \in Workers, HandOff(w)
  PROVE  LET i == IncidentOf(w) IN
         /\ TypeOK'
         /\ i \in IncidentIds /\ IncidentIds' = IncidentIds
         /\ \A k \in IncidentIds : RowStep(k)
         /\ \A k \in IncidentIds : k # i => incidents'[k] = incidents[k]
         /\ incidents[i].count < MaxEscalations(incidents[i].severity)
         /\ incidents'[i].count = incidents[i].count + 1
         /\ \A n \in JobIds : jobs'[n] = jobs[n]
         /\ IF incidents[i].count + 1 < MaxEscalations(incidents[i].severity)
              THEN /\ JobIds' = 1..(Len(jobs) + 1)
                   /\ jobs'[Len(jobs) + 1].incident = i
                   /\ jobs'[Len(jobs) + 1].state = "queued"
              ELSE UNCHANGED jobs
         /\ \E step \in {"done", "failed"} :
              run' = [run EXCEPT ![w] = [at |-> step, job |-> run[w].job,
                                         attempts |-> run[w].attempts]]
<1> USE DEF RowInvariant
<1>1. At(w, "hand_off") /\ run[w] # Rest
  BY RunForms DEF HandOff
<1>2. PICK i \in IncidentIds : i = IncidentOf(w)
  BY <1>1, RowTypes DEF RunIsOfJob, IncidentOf
<1>3. /\ incidents[i].version = run[w].version /\ incidents[i].state \in Unresolved
      /\ run[w].count = incidents[i].count
      /\ incidents[i].count < MaxEscalations(incidents[i].severity)
  BY <1>1, <1>2 DEF HandOff, Apply, HandOffIsCurrent, IncidentOf
<1>4. incidents[i] \in Incident /\ incidents[i].count \in Nat /\ incidents[i].version \in Nat
  BY RowTypes DEF Incident
<1>5. PICK count \in Nat : count = incidents[i].count + 1
  BY <1>4
<1>6. /\ incidents' \in Seq(Incident)
      /\ IncidentIds' = IncidentIds
      /\ \A k \in IncidentIds : k # i => incidents'[k] = incidents[k]
      /\ incidents'[i] = [incidents[i] EXCEPT !.state = "escalated", !.count = count,
                                              !.version = @ + 1]
  <2>1. incidents' = WithRow(i, "escalated", count)
    BY <1>2, <1>3, <1>5 DEF HandOff, Apply, IncidentOf, WithRow
  <2>2. "escalated" \in IncidentStates
    BY DEF IncidentStates
  <2> QED
    BY <2>1, <2>2, UpdatedRow
<1>7. /\ incidents'[i].party = incidents[i].party
      /\ incidents'[i].matter = incidents[i].matter
      /\ incidents'[i].severity = incidents[i].severity
      /\ incidents'[i].state = "escalated" /\ incidents'[i].count = incidents[i].count + 1
      /\ incidents'[i].version = incidents[i].version + 1
  BY <1>4, <1>5, <1>6 DEF Incident
<1>8. \A k \in IncidentIds : RowStep(k)
  <2>1. RuledOrEscalated(i)
    BY <1>3, <1>7 DEF RuledOrEscalated
  <2>2. RowStep(i)
    BY <1>7, <2>1 DEF RowStep
  <2>3. \A k \in IncidentIds : k # i => RowStep(k)
    BY <1>6 DEF RowStep
  <2> QED
    BY <2>2, <2>3
<1>9. /\ jobs' \in Seq(Job)
      /\ \A n \in JobIds : jobs'[n] = jobs[n]
      /\ IF incidents[i].count + 1 < MaxEscalations(incidents[i].severity)
           THEN /\ JobIds' = 1..(Len(jobs) + 1)
                /\ jobs'[Len(jobs) + 1].incident = i
                /\ jobs'[Len(jobs) + 1].state = "queued"
           ELSE UNCHANGED jobs
  <2>1. IF incidents[i].count + 1 < MaxEscalations(incidents[i].severity)
          THEN EnqueueEscalation(i) ELSE UNCHANGED jobs
    BY <1>2, <1>3 DEF HandOff, IncidentOf
  <2>2. i \in Nat
    BY RowTypes
  <2>3. CASE incidents[i].count + 1 < MaxEscalations(incidents[i].severity)
    BY <2>1, <2>2, <2>3, QueuedRow
  <2>4. CASE ~(incidents[i].count + 1 < MaxEscalations(incidents[i].severity))
    BY <2>1, <2>4 DEF TypeOK
  <2> QED
    BY <2>3, <2>4
<1>10. PICK step \in {"done", "failed"} :
         run' = [run EXCEPT ![w] = [at |-> step, job |-> run[w].job,
                                    attempts |-> run[w].attempts]]
  BY DEF HandOff, Outcome, Turn
<1>11. TypeOK'
  <2>1. UNCHANGED <<partyVars, req, mishaps>>
    BY DEF HandOff
  <2>2. [at |-> step, job |-> run[w].job, attempts |-> run[w].attempts] \in Runs
    BY <1>1, RunForms DEF Runs
  <2>3. run' \in [Workers -> Runs]
    BY <1>10, <2>2 DEF TypeOK
  <2>4. \A n \in JobIds' : jobs'[n].incident \in IncidentIds'
    <3>1. \A n \in JobIds' : n \in JobIds \/ jobs'[n].incident = i
      BY <1>9, RowTypes DEF JobIds
    <3> QED
      BY <1>6, <1>9, <3>1, RowTypes
  <2> QED
    BY <1>6, <1>9, <2>1, <2>3, <2>4 DEF TypeOK, partyVars, IncidentIds, JobIds
<1> QED
  BY <1>2, <1>3, <1>6, <1>7, <1>8, <1>9, <1>10, <1>11

\* The other steps of workers write at most the state of a job.
LEMMA WorkingKeepsTypes ==
  ASSUME RowInvariant, WorkingStep
  PROVE  /\ TypeOK'
         /\ UNCHANGED <<incidents, req>>
         /\ JobIds' = JobIds
         /\ \A n \in JobIds : jobs'[n].incident = jobs[n].incident
<1> USE DEF RowInvariant, WorkingStep, JobStep
<1>1. UNCHANGED <<incidents, req, partyVars>>
  BY DEF ClaimJob, ReadIncident, HandOffConflicts, MarkDone, MarkFailure, Record, HandlerFails,
         LoseWorker, ExpireLease
<1>2. /\ jobs' \in Seq(Job) /\ JobIds' = JobIds
      /\ \A n \in JobIds : jobs'[n].incident = jobs[n].incident
  <2>1. CASE \E n \in JobIds, row \in Job :
               row.incident = jobs[n].incident /\ jobs' = [jobs EXCEPT ![n] = row]
    BY <2>1, WrittenRow
  <2>2. CASE UNCHANGED jobs
    BY <2>2 DEF TypeOK, JobIds
  <2>3. ASSUME NEW n \in JobIds, NEW st \in {"queued", "running", "done", "failed"},
               jobs' = [jobs EXCEPT ![n].state = st]
        PROVE  \E row \in Job :
                 row.incident = jobs[n].incident /\ jobs' = [jobs EXCEPT ![n] = row]
    <3> DEFINE row == [jobs[n] EXCEPT !.state = st]
    <3>1. row \in Job /\ row.incident = jobs[n].incident
      BY RowTypes DEF Job
    <3>2. jobs' = [jobs EXCEPT ![n] = row]
      BY <2>3
    <3> QED
      BY <3>1, <3>2
  <2>4. ASSUME NEW w \in Workers, NEW n \in JobIds, ClaimJob(w, n)
        PROVE  \E row \in Job :
                 row.incident = jobs[n].incident /\ jobs' = [jobs EXCEPT ![n] = row]
    <3> DEFINE row == [jobs[n] EXCEPT !.state = "running", !.attempts = jobs[n].attempts + 1]
    <3>1. jobs[n] \in Job /\ jobs[n].attempts + 1 \in Nat
      BY RowTypes DEF Job
    <3>2. \A a \in Nat : [jobs[n] EXCEPT !.state = "running", !.attempts = a] \in Job
      BY <3>1 DEF Job
    <3>3. row \in Job /\ row.incident = jobs[n].incident
      BY <3>1, <3>2 DEF Job
    <3>4. jobs' = [jobs EXCEPT ![n] = row]
      BY <2>4 DEF ClaimJob
    <3> QED
      BY <3>3, <3>4
  <2>5. ASSUME NEW w \in Workers, MarkDone(w) \/ MarkFailure(w)
        PROVE  \/ UNCHANGED jobs
               \/ \E n \in JobIds, st \in {"queued", "running", "done", "failed"} :
                    jobs' = [jobs EXCEPT ![n].state = st]
    <3>1. run[w].job \in JobIds
      BY <2>5, RunForms DEF MarkDone, MarkFailure, RunIsOfJob
    <3> QED
      BY <2>5, <3>1 DEF MarkDone, MarkFailure, Record
  <2>6. ASSUME NEW n \in JobIds, ExpireLease(n)
        PROVE  jobs' = [jobs EXCEPT ![n].state = "queued"]
    BY <2>6 DEF ExpireLease
  <2>7. ASSUME NEW w \in Workers,
               ReadIncident(w) \/ HandOffConflicts(w) \/ HandlerFails(w) \/ LoseWorker(w)
        PROVE  UNCHANGED jobs
    BY <2>7 DEF ReadIncident, HandOffConflicts, HandlerFails, LoseWorker
  <2> QED
    BY <2>1, <2>2, <2>3, <2>4, <2>5, <2>6, <2>7 DEF JobIds
<1>3. run' \in [Workers -> Runs]
  <2>1. CASE \E w \in Workers, c \in Runs : run' = [run EXCEPT ![w] = c]
    BY <2>1 DEF TypeOK
  <2>2. CASE UNCHANGED run
    BY <2>2 DEF TypeOK
  <2>3. ASSUME NEW w \in Workers, NEW step \in {"read", "done", "failed"}, run[w] # Rest, Outcome(w, step)
        PROVE  \E c \in Runs : run' = [run EXCEPT ![w] = c]
    BY <2>3, RunForms DEF Outcome, Turn, Runs
  <2>4. ASSUME NEW w \in Workers, NEW n \in JobIds, ClaimJob(w, n)
        PROVE  \E c \in Runs : run' = [run EXCEPT ![w] = c]
    <3>1. n \in Nat /\ jobs[n].attempts + 1 \in Nat
      BY RowTypes DEF Job
    <3>2. [at |-> "read", job |-> n, attempts |-> jobs[n].attempts + 1] \in Runs
      BY <3>1 DEF Runs
    <3> QED
      BY <2>4, <3>2 DEF ClaimJob, Turn
  <2>5. ASSUME NEW w \in Workers, ReadIncident(w)
        PROVE  \E c \in Runs : run' = [run EXCEPT ![w] = c]
    <3> DEFINE i == incidents[jobs[run[w].job].incident]
               c == [at |-> "hand_off", job |-> run[w].job, attempts |-> run[w].attempts,
                     version |-> i.version, count |-> i.count]
    <3>1. run[w] # Rest
      BY <2>5, RunForms DEF ReadIncident
    <3>2. i \in Incident
      BY <3>1, RowTypes DEF RunIsOfJob
    <3>3. c \in Runs
      BY <3>1, <3>2, RunForms DEF Runs, Incident
    <3>4. run' = [run EXCEPT ![w] = c] \/ Outcome(w, "done")
      BY <2>5 DEF ReadIncident, Turn
    <3> QED
      BY <2>3, <3>1, <3>3, <3>4
  <2>6. ASSUME NEW w \in Workers, HandOffConflicts(w) \/ HandlerFails(w)
        PROVE  run[w] # Rest /\ Outcome(w, "failed")
    BY <2>6, RunForms DEF HandOffConflicts, HandlerFails
  <2>7. ASSUME NEW w \in Workers, MarkDone(w) \/ MarkFailure(w) \/ LoseWorker(w)
        PROVE  run' = [run EXCEPT ![w] = Rest] /\ Rest \in Runs
    BY <2>7 DEF MarkDone, MarkFailure, Record, LoseWorker, Turn, Runs
  <2>8. ASSUME NEW n \in JobIds, ExpireLease(n)
        PROVE  UNCHANGED run
    BY <2>8 DEF ExpireLease
  <2> QED
    BY <2>1, <2>2, <2>3, <2>4, <2>5, <2>6, <2>7, <2>8 DEF JobIds
<1>4. mishaps' \in 0..Mishaps
  <2>1. UNCHANGED mishaps \/ (mishaps < Mishaps /\ mishaps' = mishaps + 1)
    <3>1. ASSUME NEW w \in Workers, LoseWorker(w)
          PROVE  mishaps < Mishaps /\ mishaps' = mishaps + 1
      BY <3>1 DEF LoseWorker
    <3>2. ASSUME NEW n \in JobIds, ExpireLease(n)
          PROVE  UNCHANGED mishaps \/ (mishaps < Mishaps /\ mishaps' = mishaps + 1)
      BY <3>2 DEF ExpireLease
    <3>3. ASSUME NEW w \in Workers,
                 \/ \E n \in JobIds : ClaimJob(w, n)
                 \/ ReadIncident(w) \/ HandOffConflicts(w) \/ MarkDone(w) \/ MarkFailure(w)
                 \/ HandlerFails(w)
          PROVE  UNCHANGED mishaps
      BY <3>3 DEF ClaimJob, ReadIncident, HandOffConflicts, MarkDone, MarkFailure, Record,
                  HandlerFails
    <3> QED
      BY <3>1, <3>2, <3>3 DEF JobIds
  <2> QED
    BY <2>1, IncidentAssumption DEF TypeOK
<1>5. TypeOK'
  BY <1>1, <1>2, <1>3, <1>4, RowTypes DEF TypeOK, partyVars, IncidentIds, JobIds
<1> QED
  BY <1>1, <1>2, <1>5

\* The kinds of steps there are.
LEMMA StepForms ==
  ASSUME [Next]_vars
  PROVE  \/ UNCHANGED vars \/ ReadingStep \/ WorkingStep
         \/ \E r \in Requests : CreateIncident(r) \/ CommitRuling(r)
         \/ \E w \in Workers : HandOff(w)
BY DEF Next, Serve, Work, CallStep, ReadingStep, JobStep, WorkingStep

\* No step removes a row or moves a job, and the rows of incidents change as RowStep says.
LEMMA RowsEvolve ==
  ASSUME RowInvariant, [Next]_vars
  PROVE  /\ TypeOK'
         /\ IncidentIds \subseteq IncidentIds' /\ JobIds \subseteq JobIds'
         /\ \A i \in IncidentIds : RowStep(i)
         /\ \A n \in JobIds : jobs'[n].incident = jobs[n].incident
<1>1. CASE UNCHANGED vars \/ ReadingStep
  <2>1. TypeOK' /\ UNCHANGED <<incidents, jobs>>
    BY <1>1, ReadingKeepsTypes DEF RowInvariant, TypeOK, vars, partyVars
  <2> QED
    BY <2>1 DEF RowStep, IncidentIds, JobIds
<1>2. CASE WorkingStep
  BY <1>2, WorkingKeepsTypes DEF RowStep, IncidentIds
<1>3. ASSUME NEW r \in Requests, CreateIncident(r)
      PROVE  /\ TypeOK'
             /\ IncidentIds \subseteq IncidentIds' /\ JobIds \subseteq JobIds'
             /\ \A i \in IncidentIds : RowStep(i)
             /\ \A n \in JobIds : jobs'[n].incident = jobs[n].incident
  <2>1. /\ IncidentIds = 1..Len(incidents) /\ Len(incidents) \in Nat
        /\ JobIds = 1..Len(jobs) /\ Len(jobs) \in Nat
    BY RowTypes DEF RowInvariant
  <2> QED
    BY <1>3, <2>1, CreatingKeepsTypes DEF RowStep
<1>4. ASSUME NEW r \in Requests, CommitRuling(r)
      PROVE  /\ TypeOK'
             /\ IncidentIds \subseteq IncidentIds' /\ JobIds \subseteq JobIds'
             /\ \A i \in IncidentIds : RowStep(i)
             /\ \A n \in JobIds : jobs'[n].incident = jobs[n].incident
  BY <1>4, RulingKeepsTypes DEF JobIds
<1>5. ASSUME NEW w \in Workers, HandOff(w)
      PROVE  /\ TypeOK'
             /\ IncidentIds \subseteq IncidentIds' /\ JobIds \subseteq JobIds'
             /\ \A i \in IncidentIds : RowStep(i)
             /\ \A n \in JobIds : jobs'[n].incident = jobs[n].incident
  <2>1. JobIds = 1..Len(jobs) /\ Len(jobs) \in Nat
    BY RowTypes DEF RowInvariant
  <2>2. JobIds' = 1..(Len(jobs) + 1) \/ UNCHANGED jobs
    BY <1>5, HandOffKeepsTypes
  <2>3. JobIds \subseteq JobIds'
    BY <2>1, <2>2 DEF JobIds
  <2> QED
    BY <1>5, <2>3, HandOffKeepsTypes
<1> QED
  BY <1>1, <1>2, <1>3, <1>4, <1>5, StepForms

\* A call that carries a ruling after a step carried it before, or has just read the
\* incident.
LEMMA RulingsBegin ==
  ASSUME RowInvariant, [Next]_vars, NEW r \in Requests, req'[r].op \in Rulings
  PROVE  \/ req'[r] = req[r]
         \/ \E op \in Rulings, i \in IncidentIds : BeginRuling(r, op, i)
<1> USE DEF RowInvariant
<1>1. req \in [Requests -> Calls]
  BY DEF TypeOK
<1>2. CASE UNCHANGED vars \/ WorkingStep
  BY <1>2, WorkingKeepsTypes DEF vars
<1>3. CASE \E p \in Parties : MoveParty(p)
  BY <1>3 DEF MoveParty
<1>4. CASE \E w \in Workers : HandOff(w)
  BY <1>4 DEF HandOff
<1>5. ASSUME NEW q \in Requests, NEW c, c.op \notin Rulings, req' = [req EXCEPT ![q] = c]
      PROVE  req'[r] = req[r]
  BY <1>1, <1>5
<1>6. Idle.op \notin Rulings
  BY DEF Idle, Rulings
<1>7. ASSUME NEW q \in Requests, CommitRuling(q) \/ AbortParty(q) \/ Fail(q)
      PROVE  req' = [req EXCEPT ![q] = Idle]
  BY <1>7 DEF CommitRuling, AbortParty, Fail, Proceed
<1>8. ASSUME NEW q \in Requests, LookUpOverdue(q) \/ CreateIncident(q) \/ BeginAbort(q)
      PROVE  \E c : c.op \notin Rulings /\ req' = [req EXCEPT ![q] = c]
  BY <1>6, <1>8 DEF LookUpOverdue, CreateIncident, BeginAbort, Proceed, Rulings
<1>9. ASSUME NEW q \in Requests, NEW p \in Parties,
             \/ \E m \in Matters, s \in Severities : BeginOpen(q, p, m, s)
             \/ \E m \in OverdueMatters : BeginOpenOverdue(q, p, m)
      PROVE  \E c : c.op \notin Rulings /\ req' = [req EXCEPT ![q] = c]
  BY <1>9 DEF BeginOpen, BeginOpenOverdue, Begin, Rulings
<1>10. ASSUME NEW q \in Requests, NEW op \in Rulings, NEW i \in IncidentIds,
              BeginRuling(q, op, i)
       PROVE  q = r \/ req'[r] = req[r]
  BY <1>1, <1>10 DEF BeginRuling, Begin
<1> QED
  BY <1>2, <1>3, <1>4, <1>5, <1>6, <1>7, <1>8, <1>9, <1>10, StepForms
     DEF ReadingStep, CallStep, IncidentIds

LEMMA RulingsStayCurrent ==
  ASSUME RowInvariant, [Next]_vars, NEW r \in Requests
  PROVE  RulingIsCurrent(req[r])'
<1> SUFFICES ASSUME req'[r].op \in Rulings
             PROVE  RulingIsCurrent(req[r])'
  BY DEF RulingIsCurrent
<1>1. CASE req'[r] = req[r]
  <2>1. PICK i \in IncidentIds : i = req[r].incident
    BY <1>1 DEF RowInvariant, RulingIsCurrent
  <2>2. /\ req[r].version <= incidents[i].version
        /\ req[r].version = incidents[i].version =>
             /\ <<incidents[i].state, Ruled(req[r].op)>> \in IncidentTransitions
             /\ req[r].count = incidents[i].count
    BY <1>1, <2>1 DEF RowInvariant, RulingIsCurrent
  <2>3. i \in IncidentIds' /\ (incidents'[i] = incidents[i] \/ RuledOrEscalated(i))
    BY RowsEvolve DEF RowStep
  <2>4. incidents[i].version \in Nat /\ req[r].version \in Nat
    BY <1>1, CallForms, RowTypes DEF RowInvariant, Incident
  <2>5. /\ req[r].version <= incidents'[i].version
        /\ req[r].version = incidents'[i].version => incidents'[i] = incidents[i]
    BY <2>2, <2>3, <2>4 DEF RuledOrEscalated
  <2> QED
    BY <1>1, <2>1, <2>2, <2>3, <2>5 DEF RulingIsCurrent
<1>2. ASSUME NEW op \in Rulings, NEW i \in IncidentIds, BeginRuling(r, op, i)
      PROVE  RulingIsCurrent(req[r])'
  <2>1. /\ <<incidents[i].state, Ruled(op)>> \in IncidentTransitions
        /\ UNCHANGED incidents
        /\ req' = [req EXCEPT ![r] = [op |-> op, incident |-> i,
                                      version |-> incidents[i].version,
                                      count |-> incidents[i].count]]
    BY <1>2 DEF BeginRuling, Begin
  <2>2. req'[r] = [op |-> op, incident |-> i, version |-> incidents[i].version,
                   count |-> incidents[i].count]
    BY <2>1 DEF RowInvariant, TypeOK
  <2>3. incidents[i].version \in Nat
    BY RowTypes DEF RowInvariant, Incident
  <2> QED
    BY <2>1, <2>2, <2>3 DEF RulingIsCurrent, IncidentIds
<1> QED
  BY <1>1, <1>2, RulingsBegin

\* What a worker does after a step: what it did before, rest, something on the job it
\* had, or the job it has just claimed.
LEMMA RunsEvolve ==
  ASSUME RowInvariant, [Next]_vars, NEW w \in Workers
  PROVE  \/ run'[w] = run[w]
         \/ run'[w] = Rest
         \/ run[w] # Rest /\ run'[w].job = run[w].job /\ run'[w].at # "hand_off"
         \/ ReadIncident(w) /\ run'[w].job = run[w].job /\ run[w] # Rest
         \/ \E n \in JobIds : ClaimJob(w, n)
<1> USE DEF RowInvariant
<1>1. run \in [Workers -> Runs]
  BY DEF TypeOK
<1>2. CASE UNCHANGED vars \/ ReadingStep
  BY <1>2, ReadingKeepsTypes DEF vars
<1>3. CASE \E r \in Requests : CreateIncident(r) \/ CommitRuling(r)
  BY <1>3 DEF CreateIncident, CommitRuling, Proceed
<1>4. CASE \E n \in DOMAIN jobs : ExpireLease(n)
  BY <1>4 DEF ExpireLease
<1>5. ASSUME NEW v \in Workers, v # w, HandOff(v) \/ JobStep(v)
      PROVE  run'[w] = run[w]
  BY <1>1, <1>5 DEF HandOff, JobStep, ClaimJob, ReadIncident, HandOffConflicts, MarkDone,
     MarkFailure, Record, HandlerFails, LoseWorker, Outcome, Turn
<1>6. ASSUME HandOff(w) \/ HandOffConflicts(w) \/ HandlerFails(w)
      PROVE  run[w] # Rest /\ run'[w].job = run[w].job /\ run'[w].at # "hand_off"
  <2>1. run[w] # Rest
    BY <1>6, RunForms DEF HandOff, HandOffConflicts, HandlerFails
  <2>2. Outcome(w, "done") \/ Outcome(w, "failed")
    BY <1>6 DEF HandOff, HandOffConflicts, HandlerFails
  <2> QED
    BY <1>1, <2>1, <2>2 DEF Outcome, Turn
<1>7. ASSUME ReadIncident(w)
      PROVE  run'[w].job = run[w].job /\ run[w] # Rest
  BY <1>1, <1>7, RunForms DEF ReadIncident, Outcome, Turn
<1>8. ASSUME MarkDone(w) \/ MarkFailure(w) \/ LoseWorker(w)
      PROVE  run'[w] = Rest
  BY <1>1, <1>8 DEF MarkDone, MarkFailure, Record, LoseWorker, Turn
<1> QED
  BY <1>2, <1>3, <1>4, <1>5, <1>6, <1>7, <1>8, StepForms DEF WorkingStep, JobStep, JobIds

LEMMA HandOffsStayCurrent ==
  ASSUME RowInvariant, [Next]_vars, NEW w \in Workers
  PROVE  RunIsOfJob(w)' /\ HandOffIsCurrent(w)'
<1> USE DEF RowInvariant
<1>1. CASE run'[w] = run[w]
  <2>1. RunIsOfJob(w)'
    BY <1>1, RowsEvolve DEF RunIsOfJob
  <2>2. ASSUME At(w, "hand_off")'
        PROVE  HandOffIsCurrent(w)'
    <3>1. At(w, "hand_off") /\ run[w] # Rest /\ run[w].version \in Nat
      BY <1>1, <2>2, RunForms DEF At
    <3>2. PICK n \in JobIds, i \in IncidentIds : n = run[w].job /\ i = jobs[n].incident
      BY <3>1, RowTypes DEF RunIsOfJob
    <3>3. /\ run[w].version <= incidents[i].version
          /\ run[w].version = incidents[i].version =>
               /\ incidents[i].state \in Unresolved
               /\ run[w].count = incidents[i].count
               /\ incidents[i].count < MaxEscalations(incidents[i].severity)
      BY <3>1, <3>2 DEF HandOffIsCurrent, IncidentOf
    <3>4. /\ jobs'[n].incident = i
          /\ incidents'[i] = incidents[i] \/ RuledOrEscalated(i)
      BY <3>2, RowsEvolve DEF RowStep
    <3>5. incidents[i].version \in Nat
      BY RowTypes DEF Incident
    <3>6. /\ run[w].version <= incidents'[i].version
          /\ run[w].version = incidents'[i].version => incidents'[i] = incidents[i]
      BY <3>1, <3>3, <3>4, <3>5 DEF RuledOrEscalated
    <3> QED
      BY <1>1, <3>2, <3>3, <3>4, <3>6 DEF HandOffIsCurrent, IncidentOf
  <2> QED
    BY <2>1, <2>2 DEF HandOffIsCurrent
<1>2. CASE run'[w] = Rest
  BY <1>2 DEF RunIsOfJob, HandOffIsCurrent, At, Rest
<1>3. CASE run[w] # Rest /\ run'[w].job = run[w].job /\ run'[w].at # "hand_off"
  BY <1>3, RowsEvolve DEF RunIsOfJob, HandOffIsCurrent, At
<1>4. CASE ReadIncident(w) /\ run'[w].job = run[w].job /\ run[w] # Rest
  <2>1. RunIsOfJob(w)'
    BY <1>4, RowsEvolve DEF RunIsOfJob
  <2>2. PICK n \in JobIds, i \in IncidentIds : n = run[w].job /\ i = jobs[n].incident
    BY <1>4, RowTypes DEF RunIsOfJob
  <2>3. UNCHANGED <<incidents, jobs>> /\ incidents[i].version \in Nat
    BY <1>4, RowTypes DEF ReadIncident, Incident
  <2>4. \/ Outcome(w, "done")
        \/ /\ incidents[i].state \in Unresolved
           /\ incidents[i].count < MaxEscalations(incidents[i].severity)
           /\ run' = [run EXCEPT ![w] = [at |-> "hand_off", job |-> run[w].job,
                                         attempts |-> run[w].attempts,
                                         version |-> incidents[i].version,
                                         count |-> incidents[i].count]]
    BY <1>4, <2>2 DEF ReadIncident, Turn
  <2>5. CASE Outcome(w, "done")
    <3>1. run'[w].at = "done"
      BY <2>5 DEF Outcome, Turn, TypeOK
    <3> QED
      BY <2>1, <3>1 DEF HandOffIsCurrent, At
  <2>6. CASE ~Outcome(w, "done")
    <3>1. run'[w] = [at |-> "hand_off", job |-> run[w].job, attempts |-> run[w].attempts,
                     version |-> incidents[i].version, count |-> incidents[i].count]
      BY <2>4, <2>6 DEF TypeOK
    <3>2. jobs'[run'[w].job].incident = i /\ incidents'[i] = incidents[i]
      BY <2>2, <2>3, <3>1
    <3>3. /\ incidents[i].state \in Unresolved
          /\ incidents[i].count < MaxEscalations(incidents[i].severity)
      BY <2>4, <2>6
    <3>4. /\ run'[w].version <= incidents'[i].version
          /\ incidents'[i].state \in Unresolved
          /\ run'[w].count = incidents'[i].count
          /\ incidents'[i].count < MaxEscalations(incidents'[i].severity)
      BY <2>3, <3>1, <3>2, <3>3
    <3> QED
      BY <2>1, <3>2, <3>4 DEF HandOffIsCurrent, IncidentOf
  <2> QED
    BY <2>5, <2>6
<1>5. ASSUME NEW n \in JobIds, ClaimJob(w, n)
      PROVE  RunIsOfJob(w)' /\ HandOffIsCurrent(w)'
  <2>1. run'[w].job = n /\ run'[w].at = "read"
    BY <1>5 DEF ClaimJob, Turn, TypeOK
  <2> QED
    BY <2>1, RowsEvolve DEF RunIsOfJob, HandOffIsCurrent, At
<1> QED
  BY <1>1, <1>2, <1>3, <1>4, <1>5, RunsEvolve

LEMMA RowInvariantInit ==
  ASSUME Init
  PROVE  RowInvariant
<1>1. TypeOK
  <2>1. incidents = <<>> /\ jobs = <<>> /\ DOMAIN jobs = {}
    BY EmptySeq DEF Init
  <2>2. pstate \in [Parties -> PartyStates]
    BY DEF Init, Active, PartyStates
  <2>3. incidents \in Seq(Incident) /\ jobs \in Seq(Job)
    BY <2>1
  <2> QED
    BY <2>1, <2>2, <2>3, IncidentAssumption DEF Init, TypeOK, Calls, Runs
<1>2. \A r \in Requests : RulingIsCurrent(req[r])
  BY DEF Init, RulingIsCurrent, Idle, Rulings
<1>3. \A w \in Workers : RunIsOfJob(w) /\ HandOffIsCurrent(w)
  BY DEF Init, RunIsOfJob, HandOffIsCurrent, At, Rest
<1> QED
  BY <1>1, <1>2, <1>3 DEF RowInvariant

LEMMA RowInvariantStep ==
  ASSUME RowInvariant, [Next]_vars
  PROVE  RowInvariant'
BY RowsEvolve, RulingsStayCurrent, HandOffsStayCurrent DEF RowInvariant

\* In every reachable state the versions that calls and workers carry are good for what
\* they decided.
THEOREM RowInvariantHolds == Spec => []RowInvariant
<1>1. Init => RowInvariant
  BY RowInvariantInit
<1>2. RowInvariant /\ [Next]_vars => RowInvariant'
  BY RowInvariantStep
<1> QED
  BY <1>1, <1>2, PTL DEF Spec

\* All variables keep their types, and every job is about an incident that exists.
THEOREM IncidentTypeCorrect == Spec => []TypeOK
BY RowInvariantHolds, PTL DEF RowInvariant

\* A resolved incident is never escalated again or reopened, by whatever calls and
\* workers read it before the ruling: a ruling or a hand-off that finds the version it
\* read finds the state it read.
THEOREM ResolvedIncidentsStay == Spec => ResolvedStays
<1>1. RowInvariant /\ [Next]_vars
        => [\A i \in DOMAIN incidents :
              incidents[i].state \notin Unresolved
                => /\ incidents'[i].state \notin Unresolved
                   /\ incidents'[i].count = incidents[i].count]_incidents
  <2> SUFFICES ASSUME RowInvariant, [Next]_vars, NEW i \in IncidentIds,
                      incidents[i].state \notin Unresolved
               PROVE  /\ incidents'[i].state \notin Unresolved
                      /\ incidents'[i].count = incidents[i].count
    BY DEF IncidentIds
  <2>1. incidents'[i] = incidents[i] \/ RuledOrEscalated(i)
    BY RowsEvolve DEF RowStep
  <2>2. \A op \in Rulings : Ruled(op) \notin Unresolved
    BY DEF Ruled, Rulings, Unresolved
  <2> QED
    BY <2>1, <2>2 DEF RuledOrEscalated
<1> QED
  BY <1>1, RowInvariantHolds, PTL DEF Spec, ResolvedStays

-----------------------------------------------------------------------------
(* One unresolved incident of a party per matter.                          *)

\* A new incident is the only one of its party on its matter that is unresolved.
LEMMA CreatedAlone ==
  ASSUME RowInvariant, OneUnresolvedPerMatter, NEW r \in Requests, CreateIncident(r),
         NEW i \in IncidentIds, incidents[i].state \in Unresolved
  PROVE  \/ incidents[i].party # incidents'[Len(incidents) + 1].party
         \/ incidents[i].matter # incidents'[Len(incidents) + 1].matter
<1>1. OpenOn(req[r].party, req[r].matter) = {}
  BY DEF CreateIncident, InsertIncident
<1>2. \/ incidents[i].party # req[r].party
      \/ incidents[i].matter # req[r].matter
  BY <1>1 DEF OpenOn, IncidentIds
<1> QED
  BY <1>2, CreatingKeepsTypes

LEMMA OneUnresolvedStep ==
  ASSUME RowInvariant, OneUnresolvedPerMatter, [Next]_vars
  PROVE  OneUnresolvedPerMatter'
<1> SUFFICES ASSUME NEW i \in IncidentIds', NEW j \in IncidentIds',
                    incidents'[i].state \in Unresolved, incidents'[j].state \in Unresolved,
                    incidents'[i].party = incidents'[j].party,
                    incidents'[i].matter = incidents'[j].matter
             PROVE  i = j
  BY DEF OneUnresolvedPerMatter, IncidentIds
<1>1. \A k \in IncidentIds :
        /\ incidents'[k].party = incidents[k].party
        /\ incidents'[k].matter = incidents[k].matter
        /\ incidents'[k].state \in Unresolved => incidents[k].state \in Unresolved
  <2>1. \A op \in Rulings : Ruled(op) \notin Unresolved
    BY DEF Ruled, Rulings, Unresolved
  <2> QED
    BY <2>1, RowsEvolve DEF RowStep, RuledOrEscalated
<1>2. CASE i \in IncidentIds /\ j \in IncidentIds
  BY <1>1, <1>2 DEF OneUnresolvedPerMatter, IncidentIds
<1>3. CASE ~(i \in IncidentIds /\ j \in IncidentIds)
  <2>1. IncidentIds' # IncidentIds
    BY <1>3
  <2>2. PICK r \in Requests : CreateIncident(r)
    BY <2>1, StepForms, ReadingKeepsTypes, WorkingKeepsTypes, RulingKeepsTypes, HandOffKeepsTypes
       DEF vars, IncidentIds
  <2>3. /\ IncidentIds = 1..Len(incidents) /\ Len(incidents) \in Nat
        /\ IncidentIds' = 1..(Len(incidents) + 1)
    BY <2>2, CreatingKeepsTypes, RowTypes DEF RowInvariant
  <2>4. /\ i \in IncidentIds \/ i = Len(incidents) + 1
        /\ j \in IncidentIds \/ j = Len(incidents) + 1
    BY <2>3
  <2>5. \A k \in IncidentIds :
          incidents'[k].state \in Unresolved =>
            \/ incidents'[k].party # incidents'[Len(incidents) + 1].party
            \/ incidents'[k].matter # incidents'[Len(incidents) + 1].matter
    BY <1>1, <2>2, CreatedAlone
  <2> QED
    BY <1>3, <2>4, <2>5
<1> QED
  BY <1>2, <1>3

\* However many reports and sweeps race, a party has one unresolved incident per matter.
THEOREM OneUnresolvedHolds == Spec => []OneUnresolvedPerMatter
<1>1. Init => OneUnresolvedPerMatter
  <2>1. Init => DOMAIN incidents = {}
    BY EmptySeq DEF Init
  <2> QED
    BY <2>1 DEF OneUnresolvedPerMatter
<1>2. RowInvariant /\ OneUnresolvedPerMatter /\ [Next]_vars => OneUnresolvedPerMatter'
  BY OneUnresolvedStep
<1> QED
  BY <1>1, <1>2, RowInvariantHolds, PTL DEF Spec

-----------------------------------------------------------------------------
(* The chain of escalations.                                               *)

LEMMA MaxEscalationsPositive ==
  \A severity : MaxEscalations(severity) \in Nat /\ MaxEscalations(severity) >= 1
BY DEF MaxEscalations

\* Jobs and incidents are added together: a new incident with its first job, or the next
\* job of an incident that is escalated, but not for the last time.  Otherwise counts
\* stay, or reach their last level.
LEMMA ChainsEvolve ==
  ASSUME RowInvariant, [Next]_vars
  PROVE  \/ /\ JobIds' = JobIds /\ IncidentIds' = IncidentIds
            /\ \A i \in IncidentIds :
                 \/ incidents'[i].count = incidents[i].count
                 \/ /\ incidents'[i].count = incidents[i].count + 1
                    /\ ~(incidents'[i].count < MaxEscalations(incidents[i].severity))
         \/ \E i \in IncidentIds' :
              /\ JobIds' = JobIds \cup {Len(jobs) + 1} /\ Len(jobs) + 1 \notin JobIds
              /\ IncidentIds' = IncidentIds \cup {i}
              /\ jobs'[Len(jobs) + 1].incident = i
              /\ jobs'[Len(jobs) + 1].state = "queued"
              /\ IF i \in IncidentIds
                   THEN /\ incidents'[i].count = incidents[i].count + 1
                        /\ incidents'[i].count < MaxEscalations(incidents[i].severity)
                   ELSE incidents'[i].count = 0
              /\ \A k \in IncidentIds : k # i => incidents'[k] = incidents[k]
<1> USE DEF RowInvariant
<1>1. /\ IncidentIds = 1..Len(incidents) /\ Len(incidents) \in Nat
      /\ JobIds = 1..Len(jobs) /\ Len(jobs) \in Nat
  BY RowTypes
<1>2. CASE UNCHANGED vars \/ ReadingStep
  BY <1>2, ReadingKeepsTypes DEF vars, IncidentIds, JobIds
<1>3. CASE WorkingStep
  BY <1>3, WorkingKeepsTypes DEF IncidentIds
<1>4. CASE \E r \in Requests : CommitRuling(r)
  BY <1>4, RulingKeepsTypes DEF JobIds
<1>5. CASE \E r \in Requests : CreateIncident(r)
  <2>1. /\ IncidentIds' = 1..(Len(incidents) + 1)
        /\ incidents'[Len(incidents) + 1].count = 0
        /\ JobIds' = 1..(Len(jobs) + 1)
        /\ jobs'[Len(jobs) + 1].incident = Len(incidents) + 1
        /\ jobs'[Len(jobs) + 1].state = "queued"
        /\ \A k \in IncidentIds : incidents'[k] = incidents[k]
    BY <1>5, CreatingKeepsTypes
  <2>2. /\ JobIds' = JobIds \cup {Len(jobs) + 1} /\ Len(jobs) + 1 \notin JobIds
        /\ IncidentIds' = IncidentIds \cup {Len(incidents) + 1}
        /\ Len(incidents) + 1 \notin IncidentIds /\ Len(incidents) + 1 \in IncidentIds'
    BY <1>1, <2>1
  <2> QED
    BY <2>1, <2>2
<1>6. ASSUME NEW w \in Workers, HandOff(w), ~UNCHANGED jobs
      PROVE  \E i \in IncidentIds' :
              /\ JobIds' = JobIds \cup {Len(jobs) + 1} /\ Len(jobs) + 1 \notin JobIds
              /\ IncidentIds' = IncidentIds \cup {i}
              /\ jobs'[Len(jobs) + 1].incident = i
              /\ jobs'[Len(jobs) + 1].state = "queued"
              /\ i \in IncidentIds
              /\ incidents'[i].count = incidents[i].count + 1
              /\ incidents'[i].count < MaxEscalations(incidents[i].severity)
              /\ \A k \in IncidentIds : k # i => incidents'[k] = incidents[k]
  <2>1. PICK i \in IncidentIds : i = IncidentOf(w)
    BY <1>6, HandOffKeepsTypes
  <2>2. /\ IncidentIds' = IncidentIds
        /\ incidents'[i].count = incidents[i].count + 1
        /\ incidents[i].count + 1 < MaxEscalations(incidents[i].severity)
        /\ JobIds' = 1..(Len(jobs) + 1)
        /\ jobs'[Len(jobs) + 1].incident = i
        /\ jobs'[Len(jobs) + 1].state = "queued"
        /\ \A k \in IncidentIds : k # i => incidents'[k] = incidents[k]
    BY <1>6, <2>1, HandOffKeepsTypes
  <2>3. JobIds' = JobIds \cup {Len(jobs) + 1} /\ Len(jobs) + 1 \notin JobIds
    BY <1>1, <2>2
  <2> QED
    BY <2>2, <2>3
<1>7. ASSUME NEW w \in Workers, HandOff(w), UNCHANGED jobs
      PROVE  /\ JobIds' = JobIds /\ IncidentIds' = IncidentIds
             /\ \A i \in IncidentIds :
                  \/ incidents'[i].count = incidents[i].count
                  \/ /\ incidents'[i].count = incidents[i].count + 1
                     /\ ~(incidents'[i].count < MaxEscalations(incidents[i].severity))
  <2>1. PICK i \in IncidentIds : i = IncidentOf(w)
    BY <1>7, HandOffKeepsTypes
  <2>2. /\ IncidentIds' = IncidentIds /\ incidents'[i].count = incidents[i].count + 1
        /\ \A k \in IncidentIds : k # i => incidents'[k] = incidents[k]
        /\ ~(incidents[i].count + 1 < MaxEscalations(incidents[i].severity))
    <3>1. Len(jobs) \in Nat /\ JobIds = 1..Len(jobs)
      BY <1>1
    <3>2. JobIds' = JobIds /\ Len(jobs) + 1 \notin JobIds
      BY <1>7, <3>1 DEF JobIds
    <3>3. JobIds' # 1..(Len(jobs) + 1)
      BY <3>1, <3>2
    <3> QED
      BY <1>7, <2>1, <3>3, HandOffKeepsTypes
  <2> QED
    BY <1>7, <2>2 DEF JobIds
<1> QED
  BY <1>2, <1>3, <1>4, <1>5, <1>6, <1>7, StepForms

\* The chain of one incident is as long as its count asks for.
ChainFits(i) ==
  LET max == MaxEscalations(incidents[i].severity) IN
  /\ incidents[i].count <= max
  /\ IsFiniteSet(JobsOf(i))
  /\ Cardinality(JobsOf(i)) = JobsDue(incidents[i].count, max)

\* A chain that fits does so after any step.
LEMMA ChainFitsStep ==
  ASSUME RowInvariant, \A k \in IncidentIds : ChainFits(k), [Next]_vars, NEW i \in IncidentIds'
  PROVE  ChainFits(i)'
<1> USE DEF RowInvariant
<1>1. \A n \in JobIds : jobs'[n].incident = jobs[n].incident /\ jobs[n].incident \in IncidentIds
  BY RowsEvolve, RowTypes
<1>2. CASE i \in IncidentIds
  <2>1. PICK max \in Nat : max = MaxEscalations(incidents[i].severity)
    BY MaxEscalationsPositive
  <2>2. incidents'[i].severity = incidents[i].severity
    BY <1>2, RowsEvolve DEF RowStep
  <2>3. PICK count \in Nat : count = incidents[i].count /\ count <= max
    BY <1>2, <2>1, RowTypes DEF ChainFits, Incident
  <2>4. IsFiniteSet(JobsOf(i)) /\ Cardinality(JobsOf(i)) = JobsDue(count, max)
    BY <1>2, <2>1, <2>3 DEF ChainFits
  <2>5. CASE /\ JobsOf(i)' = JobsOf(i)
             /\ \/ incidents'[i].count = count
                \/ incidents'[i].count = count + 1 /\ ~(count + 1 < max)
    <3>1. count < max \/ incidents'[i].count = count
      BY <1>2, <2>1, <2>3, RowsEvolve DEF RowStep, RuledOrEscalated
    <3>2. /\ incidents'[i].count <= max
          /\ JobsDue(incidents'[i].count, max) = JobsDue(count, max)
      BY <2>3, <2>5, <3>1 DEF JobsDue
    <3> QED
      BY <2>1, <2>2, <2>4, <2>5, <3>2 DEF ChainFits
  <2>6. CASE ~(/\ JobsOf(i)' = JobsOf(i)
               /\ \/ incidents'[i].count = count
                  \/ incidents'[i].count = count + 1 /\ ~(count + 1 < max))
    <3>1. \/ /\ JobIds' = JobIds
             /\ \/ incidents'[i].count = count
                \/ incidents'[i].count = count + 1 /\ ~(count + 1 < max)
          \/ /\ JobIds' = JobIds \cup {Len(jobs) + 1}
             /\ jobs'[Len(jobs) + 1].incident # i
             /\ incidents'[i].count = count
          \/ /\ JobIds' = JobIds \cup {Len(jobs) + 1} /\ Len(jobs) + 1 \notin JobIds
             /\ jobs'[Len(jobs) + 1].incident = i
             /\ incidents'[i].count = count + 1 /\ count + 1 < max
      BY <1>2, <2>1, <2>3, ChainsEvolve
    <3>2. /\ JobIds' = JobIds \cup {Len(jobs) + 1} /\ Len(jobs) + 1 \notin JobIds
          /\ jobs'[Len(jobs) + 1].incident = i
          /\ incidents'[i].count = count + 1 /\ count + 1 < max
      BY <1>1, <2>6, <3>1 DEF JobsOf, JobIds
    <3>3. JobsOf(i)' = JobsOf(i) \cup {Len(jobs) + 1} /\ Len(jobs) + 1 \notin JobsOf(i)
      BY <1>1, <3>2 DEF JobsOf, JobIds
    <3>4. /\ IsFiniteSet(JobsOf(i)')
          /\ Cardinality(JobsOf(i)') = Cardinality(JobsOf(i)) + 1
      BY <2>4, <3>3, FS_AddElement
    <3>5. JobsDue(count + 1, max) = JobsDue(count, max) + 1
      BY <2>3, <3>2 DEF JobsDue
    <3> QED
      BY <2>1, <2>2, <2>3, <2>4, <3>2, <3>4, <3>5 DEF ChainFits
  <2> QED
    BY <2>5, <2>6
<1>3. CASE i \notin IncidentIds
  <2>1. PICK new : /\ JobIds' = JobIds \cup {new} /\ jobs'[new].incident = i
                   /\ incidents'[i].count = 0
    BY <1>3, ChainsEvolve
  <2>2. JobsOf(i)' = {new}
    BY <1>1, <1>3, <2>1 DEF JobsOf, JobIds
  <2>3. IsFiniteSet({new}) /\ Cardinality({new}) = 1
    BY FS_Singleton
  <2>4. PICK max \in Nat : max = MaxEscalations(incidents'[i].severity) /\ 1 <= max
    BY MaxEscalationsPositive
  <2>5. JobsDue(0, max) = 1
    BY <2>4 DEF JobsDue
  <2> QED
    BY <2>1, <2>2, <2>3, <2>4, <2>5 DEF ChainFits
<1> QED
  BY <1>2, <1>3

\* An incident has had exactly the jobs its escalations account for: one when it was
\* opened and one with each escalation but the last, although jobs are run more than
\* once and by several workers.
THEOREM ChainsMatchCounts == Spec => []ChainMatchesCount
<1> DEFINE Chains == \A i \in IncidentIds : ChainFits(i)
<1>1. Init => Chains
  BY EmptySeq DEF Init, IncidentIds
<1>2. RowInvariant /\ Chains /\ [Next]_vars => Chains'
  BY ChainFitsStep
<1>3. Chains => ChainMatchesCount
  BY DEF ChainFits, ChainMatchesCount, IncidentIds
<1> HIDE DEF Chains
<1> QED
  BY <1>1, <1>2, <1>3, RowInvariantHolds, PTL DEF Spec

-----------------------------------------------------------------------------
(* Nobody is forgotten.                                                    *)

\* A job that is not done, and that no worker is about to mark as done.
Live(n) == jobs[n].state # "done" /\ \A w \in Workers : At(w, "done") => run[w].job # n

Unfinished(i) ==
  /\ incidents[i].state \in Unresolved
  /\ incidents[i].count < MaxEscalations(incidents[i].severity)

\* NobodyForgotten alone is not inductive: a worker on its way to mark the last job of an
\* unfinished incident as done would break it.
NobodyLost == \A i \in IncidentIds : Unfinished(i) => \E n \in JobsOf(i) : Live(n)

\* A job that has just been queued is live.
LEMMA NewJobIsLive ==
  ASSUME RowInvariant, [Next]_vars, NEW n, n \notin JobIds, jobs'[n].state = "queued",
         (\E r \in Requests : CreateIncident(r)) \/ (\E w \in Workers : HandOff(w))
  PROVE  Live(n)'
<1>1. ASSUME NEW w \in Workers, At(w, "done")'
      PROVE  run'[w].job # n
  <2>1. run'[w] # Rest
    BY <1>1 DEF At, Rest
  <2>2. run'[w].job \in JobIds
    <3>1. CASE \E r \in Requests : CreateIncident(r)
      BY <2>1, <3>1, CreatingKeepsTypes DEF RowInvariant, RunIsOfJob
    <3>2. ASSUME NEW v \in Workers, HandOff(v)
          PROVE  run'[w].job = run[w].job /\ run[w] # Rest
      <4>1. PICK step \in {"done", "failed"} :
              run' = [run EXCEPT ![v] = [at |-> step, job |-> run[v].job,
                                         attempts |-> run[v].attempts]]
        BY <3>2, HandOffKeepsTypes
      <4>2. run[v] # Rest /\ run \in [Workers -> Runs]
        BY <3>2, RunForms DEF HandOff, RowInvariant, TypeOK
      <4> QED
        BY <2>1, <4>1, <4>2
    <3> QED
      BY <3>1, <3>2 DEF RowInvariant, RunIsOfJob
  <2> QED
    BY <2>2
<1> QED
  BY <1>1 DEF Live

\* A live job of an incident that is still unfinished stays live, unless its incident is
\* handed off.
LEMMA LiveJobStays ==
  ASSUME RowInvariant, [Next]_vars, NEW i \in IncidentIds, NEW n \in JobsOf(i), Live(n),
         Unfinished(i), \A w \in Workers : HandOff(w) => IncidentOf(w) # i
  PROVE  Live(n)'
<1> USE DEF RowInvariant
<1>1. /\ n \in JobIds /\ jobs[n].incident = i /\ run \in [Workers -> Runs]
      /\ jobs[n].state # "done"
      /\ \A w \in Workers : At(w, "done") => run[w].job # n
  BY DEF JobsOf, JobIds, Live, TypeOK
<1>2. jobs'[n].state # "done"
  <2>1. CASE UNCHANGED vars \/ ReadingStep
    BY <1>1, <2>1, ReadingKeepsTypes DEF vars
  <2>2. CASE \E r \in Requests : CreateIncident(r) \/ CommitRuling(r)
    BY <1>1, <2>2, CreatingKeepsTypes, RulingKeepsTypes
  <2>3. CASE \E w \in Workers : HandOff(w)
    BY <1>1, <2>3, HandOffKeepsTypes
  <2>4. ASSUME NEW k \in JobIds, NEW st \in {"queued", "running", "failed"},
               jobs' = [jobs EXCEPT ![k].state = st]
        PROVE  jobs'[n].state # "done"
    BY <1>1, <2>4, RowTypes DEF Job, JobIds
  <2>5. ASSUME NEW w \in Workers, NEW k \in JobIds, ClaimJob(w, k)
        PROVE  jobs'[n].state # "done"
    BY <1>1, <2>5, RowTypes DEF Job, JobIds, ClaimJob
  <2>6. ASSUME NEW w \in Workers, MarkDone(w)
        PROVE  jobs'[n].state # "done"
    BY <1>1, <2>6 DEF MarkDone, Record, JobIds
  <2>7. ASSUME NEW w \in Workers, MarkFailure(w)
        PROVE  jobs'[n].state # "done"
    <3>1. run[w].job \in JobIds
      BY <2>7, RunForms DEF MarkFailure, RunIsOfJob
    <3> QED
      BY <1>1, <2>4, <2>7, <3>1 DEF MarkFailure, Record
  <2>8. ASSUME NEW w \in Workers,
               ReadIncident(w) \/ HandOffConflicts(w) \/ HandlerFails(w) \/ LoseWorker(w)
        PROVE  jobs'[n].state # "done"
    BY <1>1, <2>8 DEF ReadIncident, HandOffConflicts, HandlerFails, LoseWorker
  <2>9. ASSUME NEW k \in JobIds, ExpireLease(k)
        PROVE  jobs'[n].state # "done"
    BY <2>4, <2>9 DEF ExpireLease
  <2> QED
    BY <2>1, <2>2, <2>3, <2>5, <2>6, <2>7, <2>8, <2>9, StepForms
       DEF WorkingStep, JobStep, JobIds
<1>3. ASSUME NEW w \in Workers, At(w, "done")'
      PROVE  run'[w].job # n
  <2>1. CASE run'[w] = run[w]
    BY <1>1, <1>3, <2>1 DEF At
  <2>2. CASE HandOff(w)
    <3>1. run[w].job # n
      BY <1>1, <2>2 DEF IncidentOf
    <3> QED
      BY <1>1, <2>2, <3>1 DEF HandOff, Outcome, Turn
  <2>3. CASE ReadIncident(w)
    <3>1. run'[w].job = run[w].job
      BY <1>1, <2>3 DEF ReadIncident, Outcome, Turn
    <3>2. CASE run[w].job = n
      <4>1. run' = [run EXCEPT ![w] = [at |-> "hand_off", job |-> n,
                                       attempts |-> run[w].attempts,
                                       version |-> incidents[i].version,
                                       count |-> incidents[i].count]]
        BY <1>1, <2>3, <3>2 DEF ReadIncident, Turn, Unfinished
      <4> QED
        BY <1>1, <1>3, <4>1 DEF At
    <3> QED
      BY <3>1, <3>2
  <2>4. ASSUME HandOffConflicts(w) \/ HandlerFails(w)
        PROVE  run'[w].at = "failed"
    BY <1>1, <2>4 DEF HandOffConflicts, HandlerFails, Outcome, Turn
  <2>5. ASSUME MarkDone(w) \/ MarkFailure(w) \/ LoseWorker(w)
        PROVE  run'[w].at = "rest"
    BY <1>1, <2>5 DEF MarkDone, MarkFailure, Record, LoseWorker, Turn, Rest
  <2>6. ASSUME NEW k \in JobIds, ClaimJob(w, k)
        PROVE  run'[w].at = "read"
    BY <1>1, <2>6 DEF ClaimJob, Turn
  <2>7. ASSUME NEW v \in Workers, v # w, HandOff(v) \/ JobStep(v)
        PROVE  run'[w] = run[w]
    BY <1>1, <2>7 DEF HandOff, JobStep, ClaimJob, ReadIncident, HandOffConflicts, MarkDone,
       MarkFailure, Record, HandlerFails, LoseWorker, Outcome, Turn
  <2>8. CASE \/ UNCHANGED vars \/ ReadingStep
             \/ \E r \in Requests : CreateIncident(r) \/ CommitRuling(r)
             \/ \E k \in JobIds : ExpireLease(k)
    <3>1. UNCHANGED run
      BY <2>8, ReadingKeepsTypes, CreatingKeepsTypes, RulingKeepsTypes DEF vars, ExpireLease
    <3> QED
      BY <2>1, <3>1
  <2>9. CASE HandOff(w) \/ JobStep(w)
    BY <1>3, <2>2, <2>3, <2>4, <2>5, <2>6, <2>9 DEF JobStep, JobIds, At
  <2> QED
    BY <2>1, <2>7, <2>8, <2>9, StepForms DEF WorkingStep, JobIds
<1> QED
  BY <1>2, <1>3 DEF Live

LEMMA NobodyLostStep ==
  ASSUME RowInvariant, NobodyLost, [Next]_vars
  PROVE  NobodyLost'
<1> USE DEF RowInvariant
<1> SUFFICES ASSUME NEW i \in IncidentIds', Unfinished(i)'
             PROVE  \E n \in JobsOf(i)' : Live(n)'
  BY DEF NobodyLost
<1>1. CASE i \notin IncidentIds
  <2>1. PICK n : n \in JobIds' /\ n \notin JobIds /\ jobs'[n].incident = i
                 /\ jobs'[n].state = "queued"
    BY <1>1, ChainsEvolve
  <2>2. \E r \in Requests : CreateIncident(r)
    BY <1>1, StepForms, ReadingKeepsTypes, WorkingKeepsTypes, RulingKeepsTypes, HandOffKeepsTypes
       DEF vars, IncidentIds
  <2> QED
    BY <2>1, <2>2, NewJobIsLive DEF JobsOf, JobIds
<1>2. CASE i \in IncidentIds
  <2>1. Unfinished(i)
    <3>1. PICK max \in Nat : max = MaxEscalations(incidents[i].severity)
      BY MaxEscalationsPositive
    <3>2. incidents'[i].severity = incidents[i].severity /\ incidents[i].count \in Nat
      BY <1>2, RowsEvolve, RowTypes DEF RowStep, Incident
    <3>3. \A op \in Rulings : Ruled(op) \notin Unresolved
      BY DEF Ruled, Rulings, Unresolved
    <3> QED
      BY <1>2, <3>1, <3>2, <3>3, RowsEvolve DEF RowStep, RuledOrEscalated, Unfinished
  <2>2. PICK n \in JobsOf(i) : Live(n)
    BY <1>2, <2>1 DEF NobodyLost
  <2>3. CASE \A w \in Workers : HandOff(w) => IncidentOf(w) # i
    <3>1. Live(n)'
      BY <1>2, <2>1, <2>2, <2>3, LiveJobStays
    <3>2. n \in JobsOf(i)'
      BY RowsEvolve DEF JobsOf, JobIds
    <3> QED
      BY <3>1, <3>2
  <2>4. ASSUME NEW w \in Workers, HandOff(w), IncidentOf(w) = i
        PROVE  \E k \in JobsOf(i)' : Live(k)'
    <3>1. /\ incidents'[i].count = incidents[i].count + 1
          /\ IF incidents[i].count + 1 < MaxEscalations(incidents[i].severity)
               THEN /\ JobIds' = 1..(Len(jobs) + 1)
                    /\ jobs'[Len(jobs) + 1].incident = i
                    /\ jobs'[Len(jobs) + 1].state = "queued"
               ELSE UNCHANGED jobs
      BY <2>4, HandOffKeepsTypes
    <3>2. incidents[i].count + 1 < MaxEscalations(incidents[i].severity)
      BY <1>2, <3>1, RowsEvolve DEF RowStep, Unfinished
    <3>3. PICK k : /\ k \in JobIds' /\ k \notin JobIds
                   /\ jobs'[k].incident = i /\ jobs'[k].state = "queued"
      BY <3>1, <3>2, RowTypes
    <3>4. Live(k)'
      BY <2>4, <3>3, NewJobIsLive
    <3> QED
      BY <3>3, <3>4 DEF JobsOf, JobIds
  <2> QED
    BY <2>3, <2>4
<1> QED
  BY <1>1, <1>2

\* An unresolved incident that is not yet escalated as often as its severity asks has a
\* job that goes on with it, or one parked for an operator to see, through lost workers,
\* early leases, conflicts and failed attempts.
THEOREM NobodyIsForgotten == Spec => []NobodyForgotten
<1>1. Init => NobodyLost
  BY EmptySeq DEF Init, NobodyLost, IncidentIds
<1>2. RowInvariant /\ NobodyLost /\ [Next]_vars => NobodyLost'
  BY NobodyLostStep
<1>3. NobodyLost => NobodyForgotten
  BY DEF NobodyLost, Unfinished, Live, NobodyForgotten, IncidentIds
<1> QED
  BY <1>1, <1>2, <1>3, RowInvariantHolds, PTL DEF Spec

=============================================================================
