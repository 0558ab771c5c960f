--------------------------- MODULE IncidentResponse ---------------------------
(***************************************************************************)
(* Incidents of parties: internal/service/incident with the incidents table *)
(* of sqliterepo/incident.go, the escalation jobs of worker/handlers.go and *)
(* the abort of the party in internal/service/dispatch.                     *)
(*                                                                         *)
(* A call reads its rows outside any transaction and then runs one or two   *)
(* transactions whose conditional updates carry the versions it read; any   *)
(* other call may run in between.  Of the queue only what JobQueue shows of *)
(* it is kept: a job is run again while it is not done, perhaps by two      *)
(* workers at once, and parked after MaxAttempts failures.  The delay of an *)
(* escalation is left out: a queued job is run at any later time.           *)
(***************************************************************************)
EXTENDS Integers, Sequences, FiniteSets

CONSTANTS
  Parties, Requests, Workers,
  Matters,       \* what an incident is about: its kind and checkpoint number
  OverdueMatters,\* those of kind checkpoint_overdue, opened by the sweep
  Severities,    \* the severities reporters give
  PartyMoves,    \* the moves of parties besides the abort
  MaxAttempts,   \* attempts after which a failure parks a job
  MaxIncidents,  \* bound on the incidents opened
  Mishaps        \* bound on lost workers and on leases that end too early

ASSUME IncidentAssumption ==
  /\ OverdueMatters \subseteq Matters
  /\ Severities \subseteq {"minor", "major", "critical"}
  /\ PartyMoves \subseteq {<<"confirmed", "on_trail">>, <<"confirmed", "cancelled">>,
                          <<"on_trail", "completed">>}
  /\ MaxAttempts \in Nat \ {0}
  /\ MaxIncidents \in Nat
  /\ Mishaps \in Nat

VARIABLES
  pstate, pversion, \* row of parties: state, version
  incidents,        \* rows of incidents, by id
  jobs,             \* rows of jobs of kind escalate_incident, by id
  req,              \* the service calls in flight
  run,              \* the job each worker runs
  mishaps

partyVars == <<pstate, pversion>>
vars == <<partyVars, incidents, jobs, req, run, mishaps>>

-----------------------------------------------------------------------------
PartyStates == {"confirmed", "on_trail", "completed", "cancelled", "aborted"}
Active == {"confirmed", "on_trail"}

\* How often an unresolved incident is escalated.
MaxEscalations(severity) ==
  CASE severity = "critical" -> 4 [] severity = "major" -> 3 [] OTHER -> 1

\* The severities that stop the party.
ForcesPartyAbort(severity) == severity = "critical"

IncidentStates == {"open", "escalated", "resolved", "closed"}
Unresolved == {"open", "escalated"}

\* The incident state machine.
IncidentTransitions ==
  {<<"open", "escalated">>, <<"open", "resolved">>, <<"escalated", "escalated">>,
   <<"escalated", "resolved">>, <<"resolved", "closed">>}

Incident == [party: Parties, matter: Matters, severity: {"minor", "major", "critical"},
             state: IncidentStates, count: Nat, version: Nat]

Job == [incident: Nat, state: {"queued", "running", "done", "failed"}, attempts: Nat]

\* The rulings of rangers, and where they lead.
Rulings == {"resolve", "close"}
Ruled(op) == IF op = "resolve" THEN "resolved" ELSE "closed"

Idle == [op |-> "idle"]
Calls ==
  {Idle}
    \cup [op: {"lookup"}, party: Parties, matter: OverdueMatters]
    \cup [op: {"create"}, party: Parties, matter: Matters,
          severity: {"minor", "major", "critical"}]
    \cup [op: {"abort"}, party: Parties]
    \cup [op: {"aborting"}, party: Parties, state: Active, version: Nat]
    \cup [op: Rulings, incident: Nat, version: Nat, count: Nat]

Rest == [at |-> "rest"]
Runs ==
  {Rest}
    \cup [at: {"read", "done", "failed"}, job: Nat, attempts: Nat]
    \cup [at: {"hand_off"}, job: Nat, attempts: Nat, version: Nat, count: Nat]

TypeOK ==
  /\ pstate \in [Parties -> PartyStates]
  /\ pversion \in [Parties -> Nat]
  /\ incidents \in Seq(Incident)
  /\ jobs \in Seq(Job)
  /\ \A n \in DOMAIN jobs : jobs[n].incident \in DOMAIN incidents
  /\ req \in [Requests -> Calls]
  /\ run \in [Workers -> Runs]
  /\ mishaps \in 0..Mishaps

\* Parties whose permit is approved: before that no incident is accepted.
Init ==
  /\ pstate = [p \in Parties |-> "confirmed"]
  /\ pversion = [p \in Parties |-> 1]
  /\ incidents = <<>>
  /\ jobs = <<>>
  /\ req = [r \in Requests |-> Idle]
  /\ run = [w \in Workers |-> Rest]
  /\ mishaps = 0

-----------------------------------------------------------------------------
(* Conditional updates of the repositories.  Definitions marked Mutant are *)
(* plausible wrong forms of the ones they precede, used only to check that *)
(* the properties notice them.                                             *)

\* The unresolved incidents of a party on a matter.
OpenOn(p, m) ==
  {i \in DOMAIN incidents :
     /\ incidents[i].party = p
     /\ incidents[i].matter = m
     /\ incidents[i].state \in Unresolved}

\* Mutant: there is no unique index, the lookups are trusted.
InsertAnyIncident(p, m, severity) ==
  incidents' = Append(incidents, [party |-> p, matter |-> m, severity |-> severity,
                                  state |-> "open", count |-> 0, version |-> 1])

\* INSERT INTO incidents under the unique index of the unresolved ones
InsertIncident(p, m, severity) ==
  /\ OpenOn(p, m) = {}
  /\ incidents' = Append(incidents, [party |-> p, matter |-> m, severity |-> severity,
                                     state |-> "open", count |-> 0, version |-> 1])

\* Mutant: the update is not conditional on the version that was read.
ApplyBlindly(i, expected, next, count) ==
  incidents' = [incidents EXCEPT ![i].state = next, ![i].count = count,
                                 ![i].version = @ + 1]

\* UPDATE incidents SET state, escalation_count WHERE id = ? AND version = ?
Apply(i, expected, next, count) ==
  /\ incidents[i].version = expected
  /\ incidents' = [incidents EXCEPT ![i].state = next, ![i].count = count,
                                    ![i].version = @ + 1]

\* Mutant: the payload is built before the row has its id.
QueuedEarly(i) == [incident |-> 0, state |-> "queued", attempts |-> 0]

Queued(i) == [incident |-> i, state |-> "queued", attempts |-> 0]

EnqueueEscalation(i) == jobs' = Append(jobs, Queued(i))

-----------------------------------------------------------------------------
(* Reporters and the overdue sweep open incidents.                         *)

Begin(r, call) ==
  /\ req[r] = Idle
  /\ req' = [req EXCEPT ![r] = call]
  /\ UNCHANGED <<partyVars, incidents, jobs, run, mishaps>>

Proceed(r, call) ==
  /\ req' = [req EXCEPT ![r] = call]
  /\ UNCHANGED <<run, mishaps>>

\* The call ends without further effect: refused, rolled back, cancelled, crashed.
Fail(r) ==
  /\ req[r] # Idle
  /\ Proceed(r, Idle)
  /\ UNCHANGED <<partyVars, incidents, jobs>>

\* The party is read and must be confirmed or on the trail.
BeginOpen(r, p, m, severity) ==
  /\ pstate[p] \in Active
  /\ Begin(r, [op |-> "create", party |-> p, matter |-> m, severity |-> severity])

\* The sweep has listed the party among those on the trail.
BeginOpenOverdue(r, p, m) ==
  /\ pstate[p] = "on_trail"
  /\ Begin(r, [op |-> "lookup", party |-> p, matter |-> m])

\* An unresolved incident of the matter is a conflict, and the sweep goes on.
LookUpOverdue(r) ==
  LET c == req[r] IN
  /\ c.op = "lookup"
  /\ Proceed(r, IF OpenOn(c.party, c.matter) # {} THEN Idle
                ELSE [op |-> "create", party |-> c.party, matter |-> c.matter,
                      severity |-> "major"])
  /\ UNCHANGED <<partyVars, incidents, jobs>>

\* The incident and its first escalation job commit together; a critical one goes
\* on to abort the party.
CreateIncident(r) ==
  LET c == req[r] IN
  /\ c.op = "create"
  /\ Len(incidents) < MaxIncidents
  /\ InsertIncident(c.party, c.matter, c.severity)
  /\ EnqueueEscalation(Len(incidents) + 1)
  /\ Proceed(r, IF ForcesPartyAbort(c.severity) THEN [op |-> "abort", party |-> c.party]
                ELSE Idle)
  /\ UNCHANGED partyVars

\* The party is read again; one that has ended needs no abort.
BeginAbort(r) ==
  LET p == req[r].party IN
  /\ req[r].op = "abort"
  /\ Proceed(r, IF pstate[p] \in Active
                  THEN [op |-> "aborting", party |-> p, state |-> pstate[p],
                        version |-> pversion[p]]
                  ELSE Idle)
  /\ UNCHANGED <<partyVars, incidents, jobs>>

\* UPDATE parties ... WHERE id = ? AND state = ? AND version = ?
ChangeParty(p, from, expected, next) ==
  /\ pstate[p] = from
  /\ pversion[p] = expected
  /\ pstate' = [pstate EXCEPT ![p] = next]
  /\ pversion' = [pversion EXCEPT ![p] = @ + 1]

AbortParty(r) ==
  LET c == req[r] IN
  /\ c.op = "aborting"
  /\ ChangeParty(c.party, c.state, c.version, "aborted")
  /\ Proceed(r, Idle)
  /\ UNCHANGED <<incidents, jobs>>

\* The party itself moves on, as PermitDispatch has it.
MoveParty(p) ==
  /\ \E move \in PartyMoves : ChangeParty(p, move[1], pversion[p], move[2])
  /\ UNCHANGED <<incidents, jobs, req, run, mishaps>>

-----------------------------------------------------------------------------
(* Rangers resolve and close incidents.                                    *)

BeginRuling(r, op, i) ==
  /\ <<incidents[i].state, Ruled(op)>> \in IncidentTransitions
  /\ Begin(r, [op |-> op, incident |-> i, version |-> incidents[i].version,
               count |-> incidents[i].count])

CommitRuling(r) ==
  LET c == req[r] IN
  /\ c.op \in Rulings
  /\ Apply(c.incident, c.version, Ruled(c.op), c.count)
  /\ Proceed(r, Idle)
  /\ UNCHANGED <<partyVars, jobs>>

-----------------------------------------------------------------------------
(* Workers escalate.                                                       *)

Turn(w, next) == run' = [run EXCEPT ![w] = next]
At(w, step) == run[w].at = step
Outcome(w, step) ==
  Turn(w, [at |-> step, job |-> run[w].job, attempts |-> run[w].attempts])

ClaimJob(w, n) ==
  /\ run[w] = Rest
  /\ jobs[n].state = "queued"
  /\ jobs' = [jobs EXCEPT ![n].state = "running", ![n].attempts = @ + 1]
  /\ Turn(w, [at |-> "read", job |-> n, attempts |-> jobs[n].attempts + 1])
  /\ UNCHANGED <<partyVars, incidents, req, mishaps>>

\* A resolved incident, or one escalated often enough, ends the chain.
ReadIncident(w) ==
  LET i == incidents[jobs[run[w].job].incident] IN
  /\ At(w, "read")
  /\ IF i.state \in Unresolved /\ i.count < MaxEscalations(i.severity)
       THEN Turn(w, [at |-> "hand_off", job |-> run[w].job, attempts |-> run[w].attempts,
                     version |-> i.version, count |-> i.count])
       ELSE Outcome(w, "done")
  /\ UNCHANGED <<partyVars, incidents, jobs, req, mishaps>>

\* Mutant: the next job is queued even after the last escalation.
HandOffQueuesAlways(w) ==
  LET i == jobs[run[w].job].incident IN
  /\ At(w, "hand_off")
  /\ Apply(i, run[w].version, "escalated", run[w].count + 1)
  /\ EnqueueEscalation(i)
  /\ Outcome(w, "done")
  /\ UNCHANGED <<partyVars, req, mishaps>>

\* Mutant: the chain ends one escalation early.
HandOffQueuesTooFew(w) ==
  LET i == jobs[run[w].job].incident
      next == run[w].count + 1 IN
  /\ At(w, "hand_off")
  /\ Apply(i, run[w].version, "escalated", next)
  /\ IF next + 1 < MaxEscalations(incidents[i].severity)
       THEN EnqueueEscalation(i) ELSE UNCHANGED jobs
  /\ Outcome(w, "done")
  /\ UNCHANGED <<partyVars, req, mishaps>>

\* The escalation and the next job commit together.  The incident is then read again
\* for the answer: if that fails, so does the attempt whose work is done.
HandOff(w) ==
  LET i == jobs[run[w].job].incident
      next == run[w].count + 1 IN
  /\ At(w, "hand_off")
  /\ Apply(i, run[w].version, "escalated", next)
  /\ IF next < MaxEscalations(incidents[i].severity)
       THEN EnqueueEscalation(i) ELSE UNCHANGED jobs
  /\ Outcome(w, "done") \/ Outcome(w, "failed")
  /\ UNCHANGED <<partyVars, req, mishaps>>

\* The version has moved on: the attempt fails and may be retried.
HandOffConflicts(w) ==
  /\ At(w, "hand_off")
  /\ incidents[jobs[run[w].job].incident].version # run[w].version
  /\ Outcome(w, "failed")
  /\ UNCHANGED <<partyVars, incidents, jobs, req, mishaps>>

\* Mutant: the error of the handler is lost.
HandlerSwallowsError(w) ==
  /\ At(w, "read") \/ At(w, "hand_off")
  /\ Outcome(w, "done")
  /\ UNCHANGED <<partyVars, incidents, jobs, req, mishaps>>

\* A database error, a panic or the timeout.
HandlerFails(w) ==
  /\ At(w, "read") \/ At(w, "hand_off")
  /\ Outcome(w, "failed")
  /\ UNCHANGED <<partyVars, incidents, jobs, req, mishaps>>

\* The outcome is recorded if the job still counts as running.
Record(w, state) ==
  /\ jobs' = IF jobs[run[w].job].state = "running"
               THEN [jobs EXCEPT ![run[w].job].state = state] ELSE jobs
  /\ Turn(w, Rest)
  /\ UNCHANGED <<partyVars, incidents, req, mishaps>>

MarkDone(w) == At(w, "done") /\ Record(w, "done")

MarkFailure(w) ==
  /\ At(w, "failed")
  /\ Record(w, IF run[w].attempts >= MaxAttempts THEN "failed" ELSE "queued")

\* The process dies, or the outcome of the job cannot be recorded.
LoseWorker(w) ==
  /\ run[w] # Rest
  /\ mishaps < Mishaps
  /\ mishaps' = mishaps + 1
  /\ Turn(w, Rest)
  /\ UNCHANGED <<partyVars, incidents, jobs, req>>

Held(n) == \E w \in Workers : run[w] # Rest /\ run[w].job = n

\* The lease of a job ends, that of a job still run by a worker only as a mishap.
ExpireLease(n) ==
  /\ jobs[n].state = "running"
  /\ IF Held(n) THEN mishaps < Mishaps /\ mishaps' = mishaps + 1
                ELSE UNCHANGED mishaps
  /\ jobs' = [jobs EXCEPT ![n].state = "queued"]
  /\ UNCHANGED <<partyVars, incidents, req, run>>

-----------------------------------------------------------------------------
Serve(r) ==
  \/ LookUpOverdue(r) \/ CreateIncident(r) \/ BeginAbort(r) \/ AbortParty(r)
  \/ CommitRuling(r) \/ Fail(r)
  \/ \E p \in Parties : \/ \E m \in Matters, s \in Severities : BeginOpen(r, p, m, s)
                        \/ \E m \in OverdueMatters : BeginOpenOverdue(r, p, m)
  \/ \E op \in Rulings, i \in DOMAIN incidents : BeginRuling(r, op, i)

Work(w) ==
  \/ \E n \in DOMAIN jobs : ClaimJob(w, n)
  \/ ReadIncident(w) \/ HandOff(w) \/ HandOffConflicts(w)
  \/ MarkDone(w) \/ MarkFailure(w)

Abandoned == {n \in DOMAIN jobs : ~Held(n)}

Next ==
  \/ \E r \in Requests : Serve(r)
  \/ \E w \in Workers : Work(w) \/ HandlerFails(w) \/ LoseWorker(w)
  \/ \E n \in DOMAIN jobs : ExpireLease(n)
  \/ \E p \in Parties : MoveParty(p)

\* The workers keep polling, and leases nobody holds run out.
Fairness ==
  /\ \A w \in Workers : WF_vars(Work(w))
  /\ WF_vars(\E n \in Abandoned : ExpireLease(n))

Spec == Init /\ [][Next]_vars
FairSpec == Spec /\ Fairness

-----------------------------------------------------------------------------
(* Properties.                                                             *)

\* However many reports and sweeps race, a party has one unresolved incident per
\* matter (0002_operations.sql ux_incidents_party_kind_open), and none comes back
\* to life next to a newer one.
OneUnresolvedPerMatter ==
  \A i, j \in DOMAIN incidents :
    /\ incidents[i].state \in Unresolved
    /\ incidents[j].state \in Unresolved
    /\ incidents[i].party = incidents[j].party
    /\ incidents[i].matter = incidents[j].matter
    => i = j

JobsOf(i) == {n \in DOMAIN jobs : jobs[n].incident = i}

\* The jobs an incident with so many escalations of at most max has been given: one
\* when it was opened, and one with each escalation but the last.
JobsDue(count, max) == IF count < max THEN count + 1 ELSE max

\* The chain of an incident has exactly the jobs its escalations account for, although
\* jobs are run more than once and by several workers.
ChainMatchesCount ==
  \A i \in DOMAIN incidents :
    LET max == MaxEscalations(incidents[i].severity) IN
    /\ incidents[i].count <= max
    /\ Cardinality(JobsOf(i)) = JobsDue(incidents[i].count, max)

\* An unresolved incident that is not yet escalated as often as its severity asks
\* has a job that goes on with it, or one parked for an operator to see.
NobodyForgotten ==
  \A i \in DOMAIN incidents :
    /\ incidents[i].state \in Unresolved
    /\ incidents[i].count < MaxEscalations(incidents[i].severity)
    => \E n \in JobsOf(i) : jobs[n].state # "done"

\* A resolved incident is never escalated again or reopened, not even by a hand-off
\* that read it before the ruling, and its count stays.
ResolvedStays ==
  [][\A i \in DOMAIN incidents :
       incidents[i].state \notin Unresolved
         => /\ incidents'[i].state \notin Unresolved
            /\ incidents'[i].count = incidents[i].count]_incidents

Waiting == {i \in DOMAIN incidents : incidents[i].state = "open"}

\* Every open incident is handed off or resolved, or its job parked, through lost
\* workers, early leases, conflicts and failed attempts.
EveryIncidentIsHandedOff ==
  \A i \in 1..MaxIncidents :
    []<>(i \in Waiting => \E n \in JobsOf(i) : jobs[n].state = "failed")

\* A critical incident immediately stops the party (service/incident/service.go
\* "so the state of the party and the incident stay consistent"): unless a call is
\* about to do so, its party has ended.
CriticalStopsParty ==
  \A i \in DOMAIN incidents :
    incidents[i].severity = "critical" =>
      \/ pstate[incidents[i].party] \notin Active
      \/ \E r \in Requests : /\ req[r].op \in {"abort", "aborting"}
                             /\ req[r].party = incidents[i].party

=============================================================================
