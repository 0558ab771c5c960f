----------------------------- MODULE TrailProgress -----------------------------
(***************************************************************************)
(* Parties on their way along one trail: its checkpoints (CreateTrail and   *)
(* AddCheckpoint of internal/service/catalog), their reports and the end of *)
(* the trip (internal/service/dispatch/progress.go), and the overdue sweep  *)
(* that opens an incident for a mandatory checkpoint nobody reported.       *)
(*                                                                         *)
(* Calls read their rows outside any transaction and write in one; the      *)
(* sweep reads and writes party by party.  Time is counted in ticks, a      *)
(* fraction of the second that stored times are truncated to.               *)
(***************************************************************************)
EXTENDS Integers, FiniteSets

CONSTANTS
  Parties,   \* party ids
  Start,     \* the planned start of each party
  Reporting, \* the parties whose leader reports and ends the trip
  Requests, Sweepers,
  Plans,     \* the checkpoint lists rangers submit with a new trail
  Additions, \* the checkpoints rangers try to append later
  Grace,     \* ticks of grace after a cutoff
  Limit,     \* parties one sweep looks at
  Second,    \* ticks per second
  MaxTime,   \* bound on time
  Mishaps    \* bound on failed sweeps

Checkpoint == [seq: Int, cutoff: Int, mandatory: BOOLEAN]

ASSUME ProgressAssumption ==
  /\ Parties \subseteq Nat
  /\ Start \in [Parties -> Nat]
  /\ Reporting \subseteq Parties
  /\ Plans \subseteq SUBSET Checkpoint
  /\ Additions \subseteq Checkpoint
  /\ Grace \in Nat
  /\ Limit \in Nat \ {0}
  /\ Second \in Nat \ {0}
  /\ MaxTime \in Nat
  /\ Mishaps \in Nat

\* Planned starts, cutoffs and the grace are stored in whole seconds.
ASSUME WholeSeconds ==
  /\ Grace % Second = 0
  /\ \A p \in Parties : Start[p] % Second = 0
  /\ \A c \in (UNION Plans) \cup Additions : c.cutoff % Second = 0

VARIABLES
  checkpoints, \* rows of checkpoints of the trail
  pstate,      \* parties.state
  reports,     \* the numbers of the checkpoint_reports of each party
  overdue,     \* rows of incidents of kind checkpoint_overdue
  now,         \* the clock
  req,         \* the service calls in flight
  sweep,       \* what each sweep_overdue_checkpoints job does
  mishaps

vars == <<checkpoints, pstate, reports, overdue, now, req, sweep, mishaps>>

-----------------------------------------------------------------------------
Truncate(t) == t - (t % Second)

\* The instant by which a party must report a checkpoint.
Deadline(p, c) == Start[p] + c.cutoff

\* A report is on time up to its deadline and late up to the end of the grace.
ClassifyReport(p, c, at) ==
  IF at <= Deadline(p, c) THEN "on_time"
  ELSE IF at <= Deadline(p, c) + Grace THEN "late" ELSE "missed"

\* A list is accepted if numbers and cutoffs increase together, from 1 on, and one
\* checkpoint is mandatory.
ValidCheckpoints(C) ==
  /\ \A c \in C : c.seq > 0 /\ c.cutoff > 0
  /\ \A c, d \in C : c # d => c.seq # d.seq
  /\ \A c, d \in C : c.seq < d.seq => c.cutoff < d.cutoff
  /\ \E c \in C : c.mandatory

Seqs == {c.seq : c \in checkpoints}
MandatorySeqs(C) == {c.seq : c \in {d \in C : d.mandatory}}

-----------------------------------------------------------------------------
PartyStates == {"confirmed", "on_trail", "completed", "aborted"}
Statuses == {"on_time", "late", "missed"}
Overdue == [party: Parties, seq: Int, opened: Nat, resolved: BOOLEAN]

Idle == [op |-> "idle"]
Calls ==
  {Idle}
    \cup [op: {"add"}, checkpoint: Additions]
    \cup [op: {"report"}, party: Parties, seq: Int, status: Statuses]
    \cup [op: {"complete"}, party: Parties]

Rest == [at |-> "rest"]
Sweeps ==
  {Rest}
    \cup [at: {"inspect"}, todo: SUBSET Parties, time: Nat]
    \cup [at: {"raise"}, todo: SUBSET Parties, time: Nat, party: Parties, seq: Int]

TypeOK ==
  /\ checkpoints \subseteq Checkpoint
  /\ \A c, d \in checkpoints : c.seq = d.seq => c = d
  /\ pstate \in [Parties -> PartyStates]
  /\ reports \in [Parties -> SUBSET Int]
  /\ overdue \subseteq Overdue
  /\ now \in 0..MaxTime
  /\ req \in [Requests -> Calls]
  /\ sweep \in [Sweepers -> Sweeps]
  /\ mishaps \in 0..Mishaps

Init ==
  /\ checkpoints = {}
  /\ pstate = [p \in Parties |-> "confirmed"]
  /\ reports = [p \in Parties |-> {}]
  /\ overdue = {}
  /\ now = 0
  /\ req = [r \in Requests |-> Idle]
  /\ sweep = [w \in Sweepers |-> Rest]
  /\ mishaps = 0

-----------------------------------------------------------------------------
(* Rangers lay out the trail.  Definitions marked Mutant are plausible      *)
(* wrong forms of the ones they precede, used only to check that the        *)
(* properties notice them.                                                 *)

\* The trail and its checkpoints commit together.
CreateTrail(plan) ==
  /\ checkpoints = {}
  /\ ValidCheckpoints(plan)
  /\ checkpoints' = plan
  /\ UNCHANGED <<pstate, reports, overdue, now, req, sweep, mishaps>>

Begin(r, call) ==
  /\ req[r] = Idle
  /\ req' = [req EXCEPT ![r] = call]
  /\ UNCHANGED <<checkpoints, pstate, reports, overdue, now, sweep, mishaps>>

Return(r) ==
  /\ req' = [req EXCEPT ![r] = Idle]
  /\ UNCHANGED <<overdue, now, sweep, mishaps>>

\* The call ends without effect: refused, rolled back, cancelled or crashed.
Fail(r) ==
  /\ req[r] # Idle
  /\ Return(r)
  /\ UNCHANGED <<checkpoints, pstate, reports>>

\* The list that was read must stay valid with the new checkpoint at its end.
BeginAddCheckpoint(r, c) ==
  /\ checkpoints # {}
  /\ \A d \in checkpoints : d.seq < c.seq
  /\ ValidCheckpoints(checkpoints \cup {c})
  /\ Begin(r, [op |-> "add", checkpoint |-> c])

\* Mutant: there is no unique index of trail and number.
AddAnyCheckpoint(r) ==
  /\ req[r].op = "add"
  /\ checkpoints' = checkpoints \cup {req[r].checkpoint}
  /\ Return(r)
  /\ UNCHANGED <<pstate, reports>>

\* INSERT INTO checkpoints under the unique index of trail and number
InsertCheckpoint(c) ==
  /\ c.seq \notin Seqs
  /\ checkpoints' = checkpoints \cup {c}

\* The new checkpoint commits, also under parties that are on their way.
AddCheckpoint(r) ==
  /\ req[r].op = "add"
  /\ InsertCheckpoint(req[r].checkpoint)
  /\ Return(r)
  /\ UNCHANGED <<pstate, reports>>

-----------------------------------------------------------------------------
(* Parties report checkpoints and end their trip.                          *)

ChangeParty(p, from, next) ==
  /\ pstate[p] = from
  /\ pstate' = [pstate EXCEPT ![p] = next]

\* A ranger lets the party onto the trail.
DispatchParty(p) ==
  /\ checkpoints # {}
  /\ ChangeParty(p, "confirmed", "on_trail")
  /\ UNCHANGED <<checkpoints, reports, overdue, now, req, sweep, mishaps>>

\* A critical incident aborts the party.
AbortParty(p) ==
  /\ ChangeParty(p, "on_trail", "aborted")
  /\ UNCHANGED <<checkpoints, reports, overdue, now, req, sweep, mishaps>>

\* Mutant: only a repeated report is refused, not one behind the highest.
BeginReportInAnyOrder(r, p, c) ==
  /\ pstate[p] = "on_trail"
  /\ c \in checkpoints
  /\ c.seq \notin reports[p]
  /\ Begin(r, [op |-> "report", party |-> p, seq |-> c.seq,
               status |-> ClassifyReport(p, c, Truncate(now))])

\* A report must lie beyond every earlier one; its status is decided here.
BeginReport(r, p, c) ==
  /\ pstate[p] = "on_trail"
  /\ c \in checkpoints
  /\ \A s \in reports[p] : s < c.seq
  /\ Begin(r, [op |-> "report", party |-> p, seq |-> c.seq,
               status |-> ClassifyReport(p, c, Truncate(now))])

\* INSERT INTO checkpoint_reports under the unique index of party and checkpoint
InsertReport(r) ==
  LET c == req[r] IN
  /\ c.op = "report"
  /\ c.seq \notin reports[c.party]
  /\ reports' = [reports EXCEPT ![c.party] = @ \cup {c.seq}]
  /\ Return(r)
  /\ UNCHANGED <<checkpoints, pstate>>

\* Mutant: reaching the last checkpoint is enough.
BeginCompleteAtLast(r, p) ==
  /\ pstate[p] = "on_trail"
  /\ \A s \in MandatorySeqs(checkpoints) : \E t \in reports[p] : s <= t
  /\ Begin(r, [op |-> "complete", party |-> p])

\* Every mandatory checkpoint of the list that was read must be reported.
BeginComplete(r, p) ==
  /\ pstate[p] = "on_trail"
  /\ MandatorySeqs(checkpoints) \subseteq reports[p]
  /\ Begin(r, [op |-> "complete", party |-> p])

CompleteParty(r) ==
  /\ req[r].op = "complete"
  /\ ChangeParty(req[r].party, "on_trail", "completed")
  /\ Return(r)
  /\ UNCHANGED <<checkpoints, reports>>

-----------------------------------------------------------------------------
(* The sweep.                                                              *)

OnTrail == {p \in Parties : pstate[p] = "on_trail"}

\* The first Limit parties on the trail, by planned start and id.
OnTrailParties ==
  LET Before(q, p) == Start[q] < Start[p] \/ (Start[q] = Start[p] /\ q < p) IN
  {p \in OnTrail : Cardinality({q \in OnTrail : Before(q, p)}) < Limit}

\* Mutant: the sweep forgets the grace.
OverdueWithoutGrace(p, time) ==
  {c \in checkpoints : /\ c.mandatory
                       /\ c.seq \notin reports[p]
                       /\ time > Deadline(p, c)}

\* The mandatory checkpoints the party has not reported in time.
OverdueCheckpoints(p, time) ==
  {c \in checkpoints : /\ c.mandatory
                       /\ c.seq \notin reports[p]
                       /\ time > Deadline(p, c) + Grace}

SweepTo(w, next) ==
  /\ sweep' = [sweep EXCEPT ![w] = next]
  /\ UNCHANGED <<checkpoints, pstate, reports, now, req>>

\* The sweep goes on with the remaining parties, or ends.
Inspect(w, todo) ==
  SweepTo(w, IF todo = {} THEN Rest
             ELSE [at |-> "inspect", todo |-> todo, time |-> sweep[w].time])

\* A recurring job lists the parties and takes the time once for all of them.
StartSweep(w) ==
  /\ sweep[w] = Rest
  /\ OnTrailParties # {}
  /\ SweepTo(w, [at |-> "inspect", todo |-> OnTrailParties, time |-> now])
  /\ UNCHANGED <<overdue, mishaps>>

\* The checkpoints and reports of the next party are read, its first overdue
\* checkpoint is named.
InspectParty(w) ==
  /\ sweep[w].at = "inspect"
  /\ \E p \in sweep[w].todo :
       LET missing == OverdueCheckpoints(p, sweep[w].time) IN
       \/ /\ missing = {}
          /\ Inspect(w, sweep[w].todo \ {p})
       \/ \E c \in missing :
            /\ \A d \in missing : c.seq <= d.seq
            /\ SweepTo(w, [at |-> "raise", todo |-> sweep[w].todo \ {p},
                           time |-> sweep[w].time, party |-> p, seq |-> c.seq])
  /\ UNCHANGED <<overdue, mishaps>>

Registered(p, seq) == {o \in overdue : o.party = p /\ o.seq = seq}

\* Mutant: one unresolved incident of the party is enough, whatever its checkpoint.
RaiseOverduePerParty(w) ==
  LET s == sweep[w] IN
  /\ s.at = "raise"
  /\ overdue' = IF \E o \in overdue : o.party = s.party /\ ~o.resolved THEN overdue
                ELSE overdue \cup {[party |-> s.party, seq |-> s.seq,
                                    opened |-> Truncate(now), resolved |-> FALSE]}
  /\ Inspect(w, s.todo)
  /\ UNCHANGED mishaps

\* OpenOverdue: an unresolved incident of the checkpoint is not opened again, a resolved
\* one is, as incident/service.go:154 has it; README.md:80 says once per checkpoint.
RaiseOverdue(w) ==
  LET s == sweep[w] IN
  /\ s.at = "raise"
  /\ overdue' = IF \E o \in Registered(s.party, s.seq) : ~o.resolved THEN overdue
                ELSE overdue \cup {[party |-> s.party, seq |-> s.seq,
                                    opened |-> Truncate(now), resolved |-> FALSE]}
  /\ Inspect(w, s.todo)
  /\ UNCHANGED mishaps

\* An error or a crash ends the sweep with the parties it has not looked at.
SweepFails(w) ==
  /\ sweep[w] # Rest
  /\ mishaps < Mishaps
  /\ mishaps' = mishaps + 1
  /\ SweepTo(w, Rest)
  /\ UNCHANGED overdue

\* A ranger resolves the incident.
ResolveOverdue(o) ==
  /\ o \in overdue
  /\ ~o.resolved
  /\ overdue' = (overdue \ {o}) \cup {[o EXCEPT !.resolved = TRUE]}
  /\ UNCHANGED <<checkpoints, pstate, reports, now, req, sweep, mishaps>>

Tick ==
  /\ now < MaxTime
  /\ now' = now + 1
  /\ UNCHANGED <<checkpoints, pstate, reports, overdue, req, sweep, mishaps>>

-----------------------------------------------------------------------------
Serve(r) ==
  \/ \E c \in Additions : BeginAddCheckpoint(r, c)
  \/ \E p \in Reporting : \/ BeginComplete(r, p)
                          \/ \E c \in checkpoints : BeginReport(r, p, c)
  \/ AddCheckpoint(r) \/ InsertReport(r) \/ CompleteParty(r) \/ Fail(r)

Sweep(w) == StartSweep(w) \/ InspectParty(w) \/ RaiseOverdue(w)

Next ==
  \/ \E plan \in Plans : CreateTrail(plan)
  \/ \E r \in Requests : Serve(r)
  \/ \E w \in Sweepers : Sweep(w) \/ SweepFails(w)
  \/ \E p \in Parties : DispatchParty(p) \/ AbortParty(p)
  \/ \E o \in overdue : ResolveOverdue(o)
  \/ Tick

Spec == Init /\ [][Next]_vars

\* The recurring jobs keep sweeping.
FairSpec == Spec /\ \A w \in Sweepers : WF_vars(Sweep(w))

-----------------------------------------------------------------------------
(* Properties.                                                             *)

\* A party that completed its trip reported every mandatory checkpoint the trail was
\* created with, whatever was added, reported or aborted meanwhile.
CompletedReportedPlan ==
  \A p \in Parties :
    pstate[p] = "completed" =>
      \E plan \in Plans : /\ plan \subseteq checkpoints
                          /\ ValidCheckpoints(plan)
                          /\ MandatorySeqs(plan) \subseteq reports[p]

\* What is reported after its overdue incident was opened is classified as missed,
\* except within the second in which the grace ends: the sweep compares the clock
\* (dispatch/progress.go:337), the report the time truncated to its second
\* (progress.go:65), so that an alarm may lead the classification by that second and
\* no more, with any number of sweeps, failures and additions in between.
AlarmLeadsByASecond ==
  [][\A r \in Requests : \A o \in overdue, c \in checkpoints :
       /\ req[r] = Idle /\ req'[r].op = "report"
       /\ req'[r].party = o.party /\ req'[r].seq = o.seq /\ c.seq = o.seq
       => \/ req'[r].status = "missed"
          \/ Truncate(now) = Deadline(o.party, c) + Grace]_vars

\* A party that skipped a mandatory checkpoint, with nothing on its way that could
\* still report it or complete the trip.
Stranded(p) ==
  /\ pstate[p] = "on_trail"
  /\ \A r \in Requests : ~(req[r].op = "complete" /\ req[r].party = p)
  /\ \E s \in MandatorySeqs(checkpoints) \ reports[p] :
       /\ \E t \in reports[p] : s < t
       /\ \A r \in Requests :
            ~(req[r].op = "report" /\ req[r].party = p /\ req[r].seq = s)

\* A stranded party never completes: it can only be aborted, since reports never go
\* back (dispatch/progress.go:62) and completion wants all of them.
StrandedForGood ==
  [][\A p \in Parties : Stranded(p) => Stranded(p)' \/ pstate'[p] = "aborted"]_vars

\* The first mandatory checkpoint a party has missed, if there is one.
FirstMissed(p) ==
  LET missing == OverdueCheckpoints(p, now) IN
  {c \in missing : \A d \in missing : c.seq <= d.seq}

\* A checkpoint does not stay the first one a party missed without an incident of its
\* own if the party is among those the sweep looks at: through failed sweeps and beside
\* the incidents of earlier checkpoints one is opened, unless the party reports or leaves.
MissedIsRaised ==
  []<>(\A p \in OnTrailParties : \A c \in FirstMissed(p) : Registered(p, c.seq) # {})

=============================================================================
