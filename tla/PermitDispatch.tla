--------------------------- MODULE PermitDispatch ---------------------------
(***************************************************************************)
(* The permit path of the platform: parties, permit windows, permit fees,  *)
(* the jobs queued for them and the idempotency keys, as the services of   *)
(* internal/service/{dispatch,settlement,catalog} change them.             *)
(*                                                                         *)
(* A service call reads rows outside any transaction, decides on what it   *)
(* read, and then runs one IMMEDIATE write transaction whose conditional   *)
(* updates carry the versions it read.  So a call is an entry of req: a    *)
(* Begin action takes the snapshot, a Commit action is the transaction.    *)
(* Any number of other calls may run in between.  A refused conditional    *)
(* update, a crash or a lost client rolls back: action Fail.               *)
(***************************************************************************)
EXTENDS Integers, FiniteSets

CONSTANTS Parties, Windows, Trails, Requests, Keys,
          NoWindow, NoKey, NoParty,
          Size,          \* the planned size of each party
          WindowOf,      \* the window of the trail and hike day of each party
          TrailOf,       \* the trail of each window
          DailyQuota,    \* the quota a window gets when a request creates it
          KeysOf,        \* the idempotency keys the leader of a party may send
          Checkpoints,   \* the sequence numbers of a trail's checkpoints
          Mandatory,     \* those that must be reported before completion
          TrailStatuses, \* the statuses rangers give to trails
          OpenQuotas,    \* the quotas rangers open windows with
          TimedWindows   \* the windows whose application deadline passes

ASSUME PartiesAssumption ==
  /\ IsFiniteSet(Parties)
  /\ Size \in [Parties -> Nat \ {0}]
  /\ WindowOf \in [Parties -> Windows]
  /\ KeysOf \in [Parties -> SUBSET Keys]
  /\ NoParty \notin Parties

ASSUME WindowsAssumption ==
  /\ TrailOf \in [Windows -> Trails]
  /\ DailyQuota \in [Windows -> Nat \ {0}]
  /\ OpenQuotas \subseteq Nat \ {0}
  /\ TimedWindows \subseteq Windows
  /\ NoWindow \notin Windows

ASSUME InputsAssumption ==
  /\ Checkpoints \subseteq Nat \ {0}
  /\ Mandatory \subseteq Checkpoints
  /\ TrailStatuses \subseteq {"open", "season_closed", "suspended"}
  /\ "open" \in TrailStatuses
  /\ NoKey \notin Keys

VARIABLES
  state, version, window, \* row of parties: state, version, permit_window_id
  members, unsigned,      \* rows of party_members: how many, how many without waiver
  reports,                \* rows of checkpoint_reports: the reported sequence numbers
  quota, reserved,        \* row of permit_windows; quota 0 stands for no row yet
  wversion, closed,
  fee, fversion,          \* row of settlements; fee "none" stands for no row yet
  jobs,                   \* rows ever queued in jobs, by kind and party
  keys, expired,          \* rows of idempotency_records and those past expires_at
  trail,                  \* trails.status
  late,                   \* windows whose application deadline has passed
  req                     \* the service calls in flight

partyVars  == <<state, version, window>>
memberVars == <<members, unsigned>>
windowVars == <<quota, reserved, wversion, closed>>
feeVars    == <<fee, fversion>>
keyVars    == <<keys, expired>>
worldVars  == <<trail, late>>
vars == <<partyVars, memberVars, reports, windowVars, feeVars, jobs, keyVars,
          worldVars, req>>

-----------------------------------------------------------------------------
PartyStates == {"absent", "draft", "permit_reserved", "confirmed", "on_trail",
                "completed", "cancelled", "aborted"}
FeeStates   == {"none", "pending", "settled", "waived", "failed"}
JobKinds    == {"notify_dispatch", "settle_party"}

\* The states that occupy permit seats.
HoldsPermit(s) == s \in {"permit_reserved", "confirmed", "on_trail"}

\* The party state machine.
PartyTransitions ==
  {<<"draft", "permit_reserved">>, <<"draft", "cancelled">>,
   <<"permit_reserved", "confirmed">>, <<"permit_reserved", "cancelled">>,
   <<"confirmed", "on_trail">>, <<"confirmed", "cancelled">>,
   <<"confirmed", "aborted">>, <<"on_trail", "completed">>,
   <<"on_trail", "aborted">>}

\* The settlement state machine.
FeeTransitions ==
  {<<"pending", "settled">>, <<"pending", "waived">>, <<"pending", "failed">>,
   <<"failed", "settled">>, <<"failed", "waived">>}

\* The calls that are one conditional party transition, and where they lead.
Moves == {"approve", "dispatch", "complete", "cancel", "abort"}
Target(op) ==
  CASE op = "approve"  -> "confirmed"
    [] op = "dispatch" -> "on_trail"
    [] op = "complete" -> "completed"
    [] op = "cancel"   -> "cancelled"
    [] op = "abort"    -> "aborted"

\* The calls that are one conditional settlement update, and where they lead.
FeeMoves == {"settle", "waive", "fail"}
FeeTarget(op) ==
  CASE op = "settle" -> "settled" [] op = "waive" -> "waived" [] op = "fail" -> "failed"

Ops == {"create", "register", "request_permit", "reserve", "report"}
         \cup Moves \cup FeeMoves

PartyCalls == Ops \ FeeMoves

Idle == [op |-> "idle", party |-> NoParty, state |-> "absent", version |-> 0,
         window |-> NoWindow, wversion |-> 0, key |-> NoKey, passed |-> FALSE,
         seq |-> 0]

\* A call in flight: the operation, the party it addresses, the columns it read
\* (row state and version, permit_window_id, window version), what the client sent
\* (idempotency key, checkpoint number), and whether the lookup passed over an expired
\* record of the key.
Calls == [op: Ops, party: Parties, state: PartyStates \cup FeeStates,
          version: Nat, window: Windows \cup {NoWindow}, wversion: Nat,
          key: Keys \cup {NoKey}, passed: BOOLEAN, seq: Nat]

TypeOK ==
  /\ state \in [Parties -> PartyStates]
  /\ version \in [Parties -> Nat]
  /\ window \in [Parties -> Windows \cup {NoWindow}]
  /\ members \in [Parties -> Nat]
  /\ unsigned \in [Parties -> Nat]
  /\ reports \in [Parties -> SUBSET Nat]
  /\ quota \in [Windows -> Nat]
  /\ reserved \in [Windows -> Nat]
  /\ wversion \in [Windows -> Nat]
  /\ closed \in [Windows -> BOOLEAN]
  /\ fee \in [Parties -> FeeStates]
  /\ fversion \in [Parties -> Nat]
  /\ jobs \in [JobKinds -> [Parties -> Nat]]
  /\ keys \in [Keys -> Parties \cup {NoParty}]
  /\ expired \subseteq Keys
  /\ trail \in [Trails -> TrailStatuses]
  /\ late \subseteq Windows
  /\ req \in [Requests -> Calls \cup {Idle}]

Init ==
  /\ state = [p \in Parties |-> "absent"]
  /\ version = [p \in Parties |-> 0]
  /\ window = [p \in Parties |-> NoWindow]
  /\ members = [p \in Parties |-> 0]
  /\ unsigned = [p \in Parties |-> 0]
  /\ reports = [p \in Parties |-> {}]
  /\ quota = [w \in Windows |-> 0]
  /\ reserved = [w \in Windows |-> 0]
  /\ wversion = [w \in Windows |-> 0]
  /\ closed = [w \in Windows |-> FALSE]
  /\ fee = [p \in Parties |-> "none"]
  /\ fversion = [p \in Parties |-> 0]
  /\ jobs = [k \in JobKinds |-> [p \in Parties |-> 0]]
  /\ keys = [k \in Keys |-> NoParty]
  /\ expired = {}
  /\ trail = [t \in Trails |-> "open"]
  /\ late = {}
  /\ req = [r \in Requests |-> Idle]

-----------------------------------------------------------------------------
(* Conditional updates of the repositories, used inside transactions.      *)
(* A definition marked Mutant is a plausible wrong form of the one after   *)
(* it; nothing uses it but the check that the properties notice it.        *)

\* Mutant: the update is not conditional on what the call read.
ApplyStateChangeBlindly(c, next) ==
  /\ state' = [state EXCEPT ![c.party] = next]
  /\ version' = [version EXCEPT ![c.party] = @ + 1]

\* UPDATE parties ... WHERE id = ? AND state = ? AND version = ?
ApplyStateChange(c, next) ==
  /\ state[c.party] = c.state
  /\ version[c.party] = c.version
  /\ state' = [state EXCEPT ![c.party] = next]
  /\ version' = [version EXCEPT ![c.party] = @ + 1]

\* What a window must satisfy for a reservation, checked before the transaction.
CanReserve(w, seats) == ~closed[w] /\ seats <= quota[w] - reserved[w]

\* Mutant: the seats are added whatever changed since the window was read.
ReserveSeatsUnchecked(w, expected, seats) ==
  /\ reserved' = [reserved EXCEPT ![w] = @ + seats]
  /\ wversion' = [wversion EXCEPT ![w] = @ + 1]

\* Mutant: one seat is counted for the whole party.
ReserveOneSeat(w, expected, seats) ==
  /\ wversion[w] = expected
  /\ ~closed[w]
  /\ reserved[w] + seats <= quota[w]
  /\ reserved' = [reserved EXCEPT ![w] = @ + 1]
  /\ wversion' = [wversion EXCEPT ![w] = @ + 1]

\* UPDATE permit_windows ... WHERE version = ? AND closed_at IS NULL AND it fits
ReserveSeats(w, expected, seats) ==
  /\ wversion[w] = expected
  /\ ~closed[w]
  /\ reserved[w] + seats <= quota[w]
  /\ reserved' = [reserved EXCEPT ![w] = @ + seats]
  /\ wversion' = [wversion EXCEPT ![w] = @ + 1]

\* Mutant: one seat too many goes back.
ReleaseOneSeatMore(w, seats) ==
  /\ reserved[w] >= seats
  /\ reserved' = [reserved EXCEPT ![w] = @ - seats - 1]
  /\ wversion' = [wversion EXCEPT ![w] = @ + 1]

\* UPDATE permit_windows ... WHERE quota_reserved >= ?, on open and closed windows
ReleaseSeats(w, seats) ==
  /\ reserved[w] >= seats
  /\ reserved' = [reserved EXCEPT ![w] = @ - seats]
  /\ wversion' = [wversion EXCEPT ![w] = @ + 1]

\* Mutant: a reservation not yet approved keeps its seats.
ReleaseApprovedPermit(c) ==
  IF c.window # NoWindow /\ c.state \in {"confirmed", "on_trail"}
    THEN ReleaseSeats(c.window, Size[c.party]) /\ UNCHANGED <<quota, closed>>
    ELSE UNCHANGED windowVars

\* The seats go back if the snapshot of the party held any.
ReleasePermit(c) ==
  IF c.window # NoWindow /\ HoldsPermit(c.state)
    THEN ReleaseSeats(c.window, Size[c.party]) /\ UNCHANGED <<quota, closed>>
    ELSE UNCHANGED windowVars

\* Mutant: nothing is written off.
WaiveNothing(p) == UNCHANGED feeVars

\* A pending fee is written off; it is read inside the transaction.
WaiveSettlement(p) ==
  IF fee[p] = "pending"
    THEN /\ fee' = [fee EXCEPT ![p] = "waived"]
         /\ fversion' = [fversion EXCEPT ![p] = @ + 1]
    ELSE UNCHANGED feeVars

\* Mutant: the update is not conditional on the version that was read.
ApplySettlementBlindly(c, next) ==
  /\ fee' = [fee EXCEPT ![c.party] = next]
  /\ fversion' = [fversion EXCEPT ![c.party] = @ + 1]

\* UPDATE settlements ... WHERE id = ? AND version = ?
ApplySettlement(c, next) ==
  /\ fversion[c.party] = c.version
  /\ fee' = [fee EXCEPT ![c.party] = next]
  /\ fversion' = [fversion EXCEPT ![c.party] = @ + 1]

Enqueue(kind, p) == jobs' = [jobs EXCEPT ![kind][p] = @ + 1]

\* The lookup misses without a key, and on a key with no record or an expired one.
LookupMisses ==
  {NoKey} \cup {k \in Keys : keys[k] = NoParty \/ k \in expired}

\* INSERT under the unique index of scope, key and actor.
Remember(k, p) ==
  IF k = NoKey THEN UNCHANGED keyVars
  ELSE /\ keys[k] = NoParty
       /\ keys' = [keys EXCEPT ![k] = p]
       /\ UNCHANGED expired

Ready(p) == members[p] = Size[p] /\ unsigned[p] = 0

-----------------------------------------------------------------------------
(* The life of a call.                                                     *)

\* What a call reads of the row of party p.
Snapshot(op, p) ==
  [Idle EXCEPT !.op = op, !.party = p, !.state = state[p],
               !.version = version[p], !.window = window[p]]

DatabaseUnchanged == UNCHANGED <<partyVars, memberVars, reports, windowVars,
                                 feeVars, jobs, keyVars, worldVars>>

\* The idle r starts the call c.
Start(r, c) ==
  /\ req[r].op = "idle"
  /\ req' = [req EXCEPT ![r] = c]
  /\ DatabaseUnchanged

Return(r) == req' = [req EXCEPT ![r] = Idle]

\* The call ends without effect: refused, rolled back, cancelled or crashed.
Fail(r) ==
  /\ req[r].op # "idle"
  /\ Return(r)
  /\ DatabaseUnchanged

\* The call r, if it is at the given step of a party operation.
Serving(r, op) == req[r].op = op

-----------------------------------------------------------------------------
(* Leaders plan a party and register its members.                          *)

BeginCreateParty(r, p) ==
  /\ state[p] = "absent"
  /\ trail[TrailOf[WindowOf[p]]] = "open"
  /\ WindowOf[p] \notin late
  /\ Start(r, Snapshot("create", p))

\* The leader is the first member, with the waiver signed.
CreateParty(r) ==
  LET p == req[r].party IN
  /\ Serving(r, "create")
  /\ state[p] = "absent"
  /\ state' = [state EXCEPT ![p] = "draft"]
  /\ version' = [version EXCEPT ![p] = 1]
  /\ members' = [members EXCEPT ![p] = 1]
  /\ Return(r)
  /\ UNCHANGED <<window, unsigned, reports, windowVars, feeVars, jobs, keyVars,
                 worldVars>>

BeginRegisterMembers(r, p) ==
  /\ state[p] = "draft"
  /\ Start(r, Snapshot("register", p))

\* Mutant: the planned size is not checked in the transaction.
RegisterAnyMember(r, signed) ==
  LET p == req[r].party IN
  /\ Serving(r, "register")
  /\ members' = [members EXCEPT ![p] = @ + 1]
  /\ unsigned' = IF signed THEN unsigned ELSE [unsigned EXCEPT ![p] = @ + 1]
  /\ UNCHANGED <<partyVars, reports, windowVars, feeVars, jobs, keyVars,
                 worldVars, req>>

\* One item of the batch, in a transaction of its own; the call goes on with the
\* next item on the same snapshot, and Fail ends it.
RegisterOneMember(r, signed) ==
  LET p == req[r].party IN
  /\ Serving(r, "register")
  /\ members[p] < Size[p]
  /\ members' = [members EXCEPT ![p] = @ + 1]
  /\ unsigned' = IF signed THEN unsigned ELSE [unsigned EXCEPT ![p] = @ + 1]
  /\ UNCHANGED <<partyVars, reports, windowVars, feeVars, jobs, keyVars,
                 worldVars, req>>

-----------------------------------------------------------------------------
(* A leader requests the permit.                                           *)

\* A recorded key replays the stored response or is refused, without effect.
BeginRequestPermit(r, p, k) ==
  /\ k \in LookupMisses
  /\ <<state[p], "permit_reserved">> \in PartyTransitions
  /\ Start(r, [Snapshot("request_permit", p) EXCEPT !.key = k,
                                                   !.passed = (k \in expired)])

\* The members and the deadline are checked before the window is looked up.
MayApply(r) ==
  /\ Serving(r, "request_permit")
  /\ Ready(req[r].party)
  /\ WindowOf[req[r].party] \notin late

CreateWindow(w, q) ==
  /\ quota[w] = 0
  /\ quota' = [quota EXCEPT ![w] = q]
  /\ wversion' = [wversion EXCEPT ![w] = 1]
  /\ UNCHANGED <<reserved, closed>>

\* The first request for a trail day creates its window, and reads it afterwards.
EnsureWindow(r) ==
  LET w == WindowOf[req[r].party] IN
  /\ MayApply(r)
  /\ CreateWindow(w, DailyQuota[w])
  /\ UNCHANGED <<partyVars, memberVars, reports, feeVars, jobs, keyVars,
                 worldVars, req>>

\* Mutant: the key is remembered before the reservation, in no transaction.
ReadWindowAndRemember(r) ==
  LET w == WindowOf[req[r].party] IN
  /\ MayApply(r)
  /\ quota[w] > 0
  /\ CanReserve(w, Size[req[r].party])
  /\ Remember(req[r].key, req[r].party)
  /\ req' = [req EXCEPT ![r].op = "reserve", ![r].wversion = wversion[w]]
  /\ UNCHANGED <<partyVars, memberVars, reports, windowVars, feeVars, jobs, worldVars>>

\* The window is read with its version, and must have the seats.
ReadWindow(r) ==
  LET w == WindowOf[req[r].party] IN
  /\ MayApply(r)
  /\ quota[w] > 0
  /\ CanReserve(w, Size[req[r].party])
  /\ req' = [req EXCEPT ![r].op = "reserve", ![r].wversion = wversion[w]]
  /\ DatabaseUnchanged

\* Seats, party, settlement, job and key commit together or not at all.
ReservePermit(r) ==
  LET c == req[r]
      p == c.party
      w == WindowOf[p] IN
  /\ Serving(r, "reserve")
  /\ ReserveSeats(w, c.wversion, Size[p])
  /\ ApplyStateChange(c, "permit_reserved")
  /\ window' = [window EXCEPT ![p] = w]
  /\ fee[p] = "none"
  /\ fee' = [fee EXCEPT ![p] = "pending"]
  /\ fversion' = [fversion EXCEPT ![p] = 1]
  /\ Enqueue("notify_dispatch", p)
  /\ Remember(c.key, p)
  /\ Return(r)
  /\ UNCHANGED <<memberVars, reports, quota, closed, worldVars>>

-----------------------------------------------------------------------------
(* A party moves along its state machine.                                  *)

\* Completion requires the mandatory reports; the other moves only the transition.
BeginMove(r, op, p) ==
  /\ <<state[p], Target(op)>> \in PartyTransitions
  /\ op = "complete" => Mandatory \subseteq reports[p]
  /\ Start(r, Snapshot(op, p))

\* A ranger approves the permit or lets the party onto the trail.
Advance(r) ==
  /\ req[r].op \in {"approve", "dispatch"}
  /\ ApplyStateChange(req[r], Target(req[r].op))
  /\ Return(r)
  /\ UNCHANGED <<window, memberVars, reports, windowVars, feeVars, jobs,
                 keyVars, worldVars>>

\* The trip ends: the seats go back and the settlement job is queued.
CompleteParty(r) ==
  /\ Serving(r, "complete")
  /\ ApplyStateChange(req[r], "completed")
  /\ ReleasePermit(req[r])
  /\ Enqueue("settle_party", req[r].party)
  /\ Return(r)
  /\ UNCHANGED <<window, memberVars, reports, feeVars, keyVars, worldVars>>

\* The party is cancelled, or aborted by the incident service: the seats go back
\* and a pending fee is waived.
WithdrawParty(r) ==
  /\ req[r].op \in {"cancel", "abort"}
  /\ ApplyStateChange(req[r], Target(req[r].op))
  /\ ReleasePermit(req[r])
  /\ WaiveSettlement(req[r].party)
  /\ Return(r)
  /\ UNCHANGED <<window, memberVars, reports, jobs, keyVars, worldVars>>

\* A report must be new and beyond every earlier one; the party must be on trail.
BeginReport(r, p, seq) ==
  /\ state[p] = "on_trail"
  /\ \A s \in reports[p] : s < seq
  /\ Start(r, [Snapshot("report", p) EXCEPT !.seq = seq])

\* The transaction only inserts, under the unique index of party and checkpoint.
ReportCheckpoint(r) ==
  LET c == req[r] IN
  /\ Serving(r, "report")
  /\ c.seq \notin reports[c.party]
  /\ reports' = [reports EXCEPT ![c.party] = @ \cup {c.seq}]
  /\ Return(r)
  /\ UNCHANGED <<partyVars, memberVars, windowVars, feeVars, jobs, keyVars,
                 worldVars>>

-----------------------------------------------------------------------------
(* The permit fee is settled by the worker, or waived by a ranger.         *)

\* A worker settles, or parks as failed, only on behalf of a settle_party job; it
\* settles only a completed party and parks only a pending fee.  A fee already
\* settled or waived is left alone.
BeginFeeMove(r, op, p) ==
  /\ <<fee[p], FeeTarget(op)>> \in FeeTransitions
  /\ op \in {"settle", "fail"} => jobs["settle_party"][p] > 0
  /\ op = "settle" => state[p] = "completed"
  /\ Start(r, [Idle EXCEPT !.op = op, !.party = p, !.state = fee[p],
                           !.version = fversion[p]])

UpdateFee(r) ==
  /\ req[r].op \in FeeMoves
  /\ ApplySettlement(req[r], FeeTarget(req[r].op))
  /\ Return(r)
  /\ UNCHANGED <<partyVars, memberVars, reports, windowVars, jobs, keyVars,
                 worldVars>>

-----------------------------------------------------------------------------
(* Rangers govern trails and windows.  Their transactions depend on nothing *)
(* read earlier but a version that makes a stale call fail, or an            *)
(* identifier, so each is one step.                                         *)

OpenWindow(w, q) ==
  /\ CreateWindow(w, q)
  /\ UNCHANGED <<partyVars, memberVars, reports, feeVars, jobs, keyVars,
                 worldVars, req>>

CloseWindow(w) ==
  /\ quota[w] > 0
  /\ ~closed[w]
  /\ closed' = [closed EXCEPT ![w] = TRUE]
  /\ wversion' = [wversion EXCEPT ![w] = @ + 1]
  /\ UNCHANGED <<partyVars, memberVars, reports, quota, reserved, feeVars, jobs,
                 keyVars, worldVars, req>>

SetTrailStatus(t, s) ==
  /\ trail[t] # s
  /\ trail' = [trail EXCEPT ![t] = s]
  /\ UNCHANGED <<partyVars, memberVars, reports, windowVars, feeVars, jobs,
                 keyVars, late, req>>

-----------------------------------------------------------------------------
(* Time.                                                                   *)

PassDeadline(w) ==
  /\ w \in TimedWindows \ late
  /\ late' = late \cup {w}
  /\ UNCHANGED <<partyVars, memberVars, reports, windowVars, feeVars, jobs,
                 keyVars, trail, req>>

ExpireKey(k) ==
  /\ keys[k] # NoParty
  /\ k \notin expired
  /\ expired' = expired \cup {k}
  /\ UNCHANGED <<partyVars, memberVars, reports, windowVars, feeVars, jobs, keys,
                 worldVars, req>>

-----------------------------------------------------------------------------
Begin(r, p) ==
  \/ BeginCreateParty(r, p)
  \/ BeginRegisterMembers(r, p)
  \/ \E k \in KeysOf[p] \cup {NoKey} : BeginRequestPermit(r, p, k)
  \/ \E op \in Moves : BeginMove(r, op, p)
  \/ \E seq \in Checkpoints : BeginReport(r, p, seq)
  \/ \E op \in FeeMoves : BeginFeeMove(r, op, p)

Commit(r) ==
  \/ CreateParty(r)
  \/ \E signed \in BOOLEAN : RegisterOneMember(r, signed)
  \/ EnsureWindow(r)
  \/ ReadWindow(r)
  \/ ReservePermit(r)
  \/ Advance(r)
  \/ CompleteParty(r)
  \/ WithdrawParty(r)
  \/ ReportCheckpoint(r)
  \/ UpdateFee(r)

World ==
  \/ \E w \in Windows, q \in OpenQuotas : OpenWindow(w, q)
  \/ \E w \in Windows : CloseWindow(w) \/ PassDeadline(w)
  \/ \E t \in Trails, s \in TrailStatuses : SetTrailStatus(t, s)
  \/ \E k \in Keys : ExpireKey(k)

Next ==
  \/ \E r \in Requests : Commit(r) \/ Fail(r) \/ \E p \in Parties : Begin(r, p)
  \/ World

Spec == Init /\ [][Next]_vars

-----------------------------------------------------------------------------
(* Properties.                                                             *)

\* The parties that hold a permit of window w, and the seats of a set of parties.
Holders(w) == {p \in Parties : HoldsPermit(state[p]) /\ window[p] = w}
Seats(S) == UNION {{p} \X (1..Size[p]) : p \in S}

\* The counter of a window is the number of seats of the parties that hold its
\* permit: no cancellation, abort, completion or lost race leaks or double-frees
\* a seat (domain/party.go "Seats are released exactly when the party leaves").
SeatConservation ==
  \A w \in Windows : reserved[w] = Cardinality(Seats(Holders(w)))

\* The permit-holding parties of a trail day never need more seats than its quota,
\* however many requests raced for the last seats.
NoOverbooking == \A w \in Windows : Cardinality(Seats(Holders(w))) <= quota[w]

\* A closing transition whose party update succeeds never fails on the seats: the
\* "seat release failed" conflict of ReleaseSeats cannot trap a party.
ReleaseNeverFails ==
  \A r \in Requests :
    LET c == req[r] IN
    /\ c.op \in {"complete", "cancel", "abort"}
    /\ state[c.party] = c.state
    /\ version[c.party] = c.version
    /\ HoldsPermit(c.state)
    => c.window # NoWindow /\ reserved[c.window] >= Size[c.party]

\* The three properties above rest on this.  A party holds a permit only of the
\* window of its own trail day, and none before it asks.
PermitOfOwnDay ==
  \A p \in Parties :
    /\ state[p] = "absent" => version[p] = 0
    /\ state[p] \in {"absent", "draft"} => window[p] = NoWindow
    /\ HoldsPermit(state[p]) => window[p] = WindowOf[p]

\* A snapshot is stale or equal to the row, and the version tells which.
VersionTellsStaleness ==
  \A r \in Requests :
    LET c == req[r] IN
    c.op \in PartyCalls =>
      /\ c.version <= version[c.party]
      /\ c.version = version[c.party]
           => c.state = state[c.party] /\ c.window = window[c.party]

\* A call on its way to a transition was allowed it by the state it read.
CallsAreLegal ==
  \A r \in Requests :
    LET c == req[r] IN
    /\ c.op \in Moves => <<c.state, Target(c.op)>> \in PartyTransitions
    /\ c.op \in {"request_permit", "reserve"} => c.state = "draft"

\* The inductive invariant of the seats: the counter equals the seats held and
\* stays within the quota because a stale snapshot can never commit.
SeatInvariant ==
  /\ PermitOfOwnDay
  /\ VersionTellsStaleness
  /\ CallsAreLegal
  /\ SeatConservation
  /\ \A w \in Windows : reserved[w] <= quota[w]

\* A party that ever reserved seats has exactly its planned members, all with a
\* signed waiver, although readiness and the draft state are checked outside the
\* transactions that insert members and reserve seats.
ReservedPartyIsReady == \A p \in Parties : window[p] # NoWindow => Ready(p)

\* A party that left before the end owes nothing, whatever the order in which
\* the withdrawal, the ranger's waiver and the worker ran.
WithdrawnPartyOwesNothing ==
  \A p \in Parties :
    state[p] \in {"cancelled", "aborted"} => fee[p] \in {"none", "waived"}

\* One reservation, one settlement and one notification job per party, and one
\* settlement job per completed party: losing a race leaves nothing behind, and
\* repeating a request repeats none of them.
EffectsExactlyOnce ==
  \A p \in Parties :
    LET reservedOnce == IF window[p] = NoWindow THEN 0 ELSE 1 IN
    /\ fee[p] # "none" <=> window[p] # NoWindow
    /\ jobs["notify_dispatch"][p] = reservedOnce
    /\ jobs["settle_party"][p] = IF state[p] = "completed" THEN 1 ELSE 0

\* A key recorded for a party stands for a reservation that took place, so a
\* replayed response never reports a permit that was rolled back.
KeyStandsForReservation ==
  \A k \in Keys : keys[k] # NoParty => window[keys[k]] # NoWindow

LegalStep(p) ==
  \/ state'[p] = state[p] /\ version'[p] = version[p]
  \/ state[p] = "absent" /\ state'[p] = "draft"
  \/ <<state[p], state'[p]>> \in PartyTransitions /\ version'[p] = version[p] + 1

\* A party moves only along the state machine, one version per move.
LegalLifecycle == [][\A p \in Parties : LegalStep(p)]_<<state, version>>

\* A settled or waived fee never changes, not even under a worker that read it
\* while it was still pending.
SettledFeeIsFinal ==
  [][\A p \in Parties :
       fee[p] \in {"settled", "waived"} => fee'[p] = fee[p]]_fee

\* An expired record counts as unused (idempotency/manager.go "An expired record
\* is treated as unused"): a request whose lookup passed over an expired record of
\* its key finds the key free when it comes to reserve.
ExpiredKeyIsUnused ==
  \A r \in Requests :
    req[r].op = "reserve" /\ req[r].passed => keys[req[r].key] = NoParty

\* The seats as the parties' leaders see them: the parties that hold a permit, and
\* those that ever did.
Ledger == INSTANCE SeatLedger WITH
            holders  <- {p \in Parties : HoldsPermit(state[p])},
            granted  <- {p \in Parties : window[p] # NoWindow},
            capacity <- quota,
            shut     <- {w \in Windows : closed[w]}

\* The counters, versions, snapshots and transactions implement the ledger: every
\* party gets all its seats at once and once only, within the quota, on an open
\* window, and gives all of them back at once.
ImplementsLedger == Ledger!Spec

=============================================================================
