-------------------------- MODULE PermitSeatsProofs --------------------------
(***************************************************************************)
(* The seats of the permit windows, proved for every number of parties,    *)
(* windows, requests and quotas: SeatInvariant is inductive, and with it   *)
(* the seats are conserved, never overbooked and always releasable, and the *)
(* permit path implements the seat ledger.                                 *)
(***************************************************************************)
EXTENDS PermitDispatchProofs

-----------------------------------------------------------------------------
(* Calls.                                                                  *)

\* A call in flight addresses a party, its window and its size.
LEMMA CallFacts ==
  ASSUME TypeOK, NEW r \in Requests, req[r].op # "idle"
  PROVE  /\ req[r] \in Calls
         /\ req[r].party \in Parties
         /\ WindowOf[req[r].party] \in Windows
         /\ Size[req[r].party] \in Nat \ {0}
BY PartiesAssumption DEF TypeOK, Idle, Calls

\* The part of the invariant that is about calls.
CallInvariant == VersionTellsStaleness /\ CallsAreLegal

\* A snapshot holds the row, whatever the client sent with it.
SnapshotOf(c, op, p) ==
  /\ c.op = op
  /\ c.party = p
  /\ c.state = state[p]
  /\ c.version = version[p]
  /\ c.window = window[p]

LEMMA SnapshotFields ==
  ASSUME NEW p, NEW op, NEW k, NEW n
  PROVE  /\ SnapshotOf(Snapshot(op, p), op, p)
         /\ SnapshotOf([Snapshot(op, p) EXCEPT !.key = k, !.passed = (k \in expired)], op, p)
         /\ SnapshotOf([Snapshot(op, p) EXCEPT !.seq = n], op, p)
BY DEF SnapshotOf, Snapshot, Idle

\* A call that starts on a snapshot of the row, allowed by it, keeps that part.
LEMMA CallStarts ==
  ASSUME TypeOK, CallInvariant, NEW r \in Requests, NEW p \in Parties, NEW op \in Ops,
         NEW c, SnapshotOf(c, op, p), Start(r, c),
         op \in Moves => <<state[p], Target(op)>> \in PartyTransitions,
         op \in {"request_permit", "reserve"} => state[p] = "draft"
  PROVE  CallInvariant'
<1>1. /\ c.op = op /\ c.party = p /\ c.state = state[p]
      /\ c.version = version[p] /\ c.window = window[p]
  BY DEF SnapshotOf
<1>2. /\ req' = [req EXCEPT ![r] = c]
      /\ UNCHANGED <<state, version, window>>
  BY DEF Start, DatabaseUnchanged, partyVars
<1>3. version[p] \in Nat
  BY DEF TypeOK
<1>4. \A q \in Requests : req'[q] = IF q = r THEN c ELSE req[q]
  BY <1>2 DEF TypeOK
<1>5. VersionTellsStaleness'
  BY <1>1, <1>2, <1>3, <1>4 DEF CallInvariant, VersionTellsStaleness
<1>6. CallsAreLegal'
  <2> SUFFICES ASSUME NEW q \in Requests
               PROVE  /\ req'[q].op \in Moves
                           => <<req'[q].state, Target(req'[q].op)>> \in PartyTransitions
                      /\ req'[q].op \in {"request_permit", "reserve"}
                           => req'[q].state = "draft"
    BY DEF CallsAreLegal
  <2> QED
    BY <1>1, <1>4 DEF CallInvariant, CallsAreLegal
<1> QED
  BY <1>5, <1>6 DEF CallInvariant

\* A call that ends on its own, or any step that leaves calls and rows alone, keeps it.
LEMMA CallEnds ==
  ASSUME TypeOK, CallInvariant, UNCHANGED <<state, version, window>>,
         \/ req' = req
         \/ \E r \in Requests : Return(r)
  PROVE  CallInvariant'
<1>1. \A q \in Requests : req'[q] = req[q] \/ req'[q].op = "idle"
  BY DEF TypeOK, Return, Idle
<1>2. "idle" \notin PartyCalls \cup Moves \cup {"request_permit", "reserve"}
  BY DEF PartyCalls, Ops, Moves, FeeMoves
<1>3. VersionTellsStaleness'
  BY <1>1, <1>2 DEF CallInvariant, VersionTellsStaleness
<1>4. CallsAreLegal'
  <2> SUFFICES ASSUME NEW q \in Requests
               PROVE  /\ req'[q].op \in Moves
                           => <<req'[q].state, Target(req'[q].op)>> \in PartyTransitions
                      /\ req'[q].op \in {"request_permit", "reserve"}
                           => req'[q].state = "draft"
    BY DEF CallsAreLegal
  <2> QED
    BY <1>1, <1>2 DEF CallInvariant, CallsAreLegal
<1> QED
  BY <1>3, <1>4 DEF CallInvariant

\* A committed move of party p makes every other snapshot of p stale, and keeps it.
LEMMA CallCommits ==
  ASSUME TypeOK, CallInvariant, NEW r \in Requests, NEW p \in Parties, Return(r),
         version'[p] = version[p] + 1,
         \A q \in Parties \ {p} : /\ state'[q] = state[q]
                                  /\ version'[q] = version[q]
                                  /\ window'[q] = window[q]
  PROVE  CallInvariant'
<1>1. \A q \in Requests : req'[q] = req[q] \/ req'[q].op = "idle"
  BY DEF TypeOK, Return, Idle
<1>2. "idle" \notin PartyCalls \cup Moves \cup {"request_permit", "reserve"}
  BY DEF PartyCalls, Ops, Moves, FeeMoves
<1>3. VersionTellsStaleness'
  <2> SUFFICES ASSUME NEW q \in Requests, req'[q].op \in PartyCalls
               PROVE  /\ req'[q].version <= version'[req'[q].party]
                      /\ req'[q].version = version'[req'[q].party]
                           => /\ req'[q].state = state'[req'[q].party]
                              /\ req'[q].window = window'[req'[q].party]
    BY DEF VersionTellsStaleness
  <2>1. req'[q] = req[q] /\ req[q].op # "idle"
    BY <1>1, <1>2
  <2>2. req[q].party \in Parties /\ req[q].version \in Nat
    BY <2>1, CallFacts DEF Calls
  <2>3. version[req[q].party] \in Nat
    BY <2>2 DEF TypeOK
  <2> QED
    BY <2>1, <2>2, <2>3 DEF CallInvariant, VersionTellsStaleness
<1>4. CallsAreLegal'
  <2> SUFFICES ASSUME NEW q \in Requests
               PROVE  /\ req'[q].op \in Moves
                           => <<req'[q].state, Target(req'[q].op)>> \in PartyTransitions
                      /\ req'[q].op \in {"request_permit", "reserve"}
                           => req'[q].state = "draft"
    BY DEF CallsAreLegal
  <2> QED
    BY <1>1, <1>2 DEF CallInvariant, CallsAreLegal
<1> QED
  BY <1>3, <1>4 DEF CallInvariant

-----------------------------------------------------------------------------
(* Seats.                                                                  *)

\* The part of the invariant that is about parties and windows.
RowInvariant ==
  /\ PermitOfOwnDay
  /\ SeatConservation
  /\ \A w \in Windows : reserved[w] <= quota[w]

\* A step that leaves parties and counters alone, and lowers no quota, keeps it.
LEMMA RowsKept ==
  ASSUME RowInvariant, UNCHANGED <<state, version, window, reserved>>,
         \A w \in Windows : quota'[w] = quota[w] \/ reserved[w] <= quota'[w]
  PROVE  RowInvariant'
BY DEF RowInvariant, PermitOfOwnDay, SeatConservation, Holders

\* A party that moves between two states that both hold seats, or neither, keeps it.
LEMMA RowsMove ==
  ASSUME TypeOK, RowInvariant, NEW p \in Parties, NEW next,
         state' = [state EXCEPT ![p] = next],
         HoldsPermit(next) <=> HoldsPermit(state[p]),
         next # "absent",
         next = "draft" => state[p] = "absent",
         \A q \in Parties \ {p} : version'[q] = version[q],
         UNCHANGED <<window, reserved, quota>>
  PROVE  RowInvariant'
<1>1. \A w \in Windows : Holders(w)' = Holders(w)
  BY DEF TypeOK, Holders
<1>2. PermitOfOwnDay'
  BY DEF RowInvariant, PermitOfOwnDay, TypeOK
<1> QED
  BY <1>1, <1>2 DEF RowInvariant, SeatConservation

\* A party that takes its seats, when they fit, keeps it.
LEMMA RowsReserve ==
  ASSUME TypeOK, RowInvariant, NEW p \in Parties, NEW w \in Windows,
         w = WindowOf[p],
         state[p] = "draft",
         state' = [state EXCEPT ![p] = "permit_reserved"],
         window' = [window EXCEPT ![p] = w],
         reserved[w] + Size[p] <= quota[w],
         reserved' = [reserved EXCEPT ![w] = @ + Size[p]],
         \A q \in Parties \ {p} : version'[q] = version[q],
         UNCHANGED quota
  PROVE  RowInvariant'
<1>1. /\ Holders(w)' = Holders(w) \cup {p}
      /\ p \notin Holders(w)
      /\ Holders(w) \in SUBSET Parties
      /\ \A v \in Windows \ {w} : Holders(v)' = Holders(v)
  BY DEF TypeOK, Holders, HoldsPermit
<1>2. Cardinality(Seats(Holders(w) \cup {p})) = Cardinality(Seats(Holders(w))) + Size[p]
  BY <1>1, SeatsOfJoined
<1>3. SeatConservation'
  BY <1>1, <1>2 DEF RowInvariant, SeatConservation, TypeOK
<1>4. PermitOfOwnDay'
  BY DEF RowInvariant, PermitOfOwnDay, HoldsPermit, TypeOK
<1> QED
  BY <1>3, <1>4 DEF RowInvariant, TypeOK

\* A party that gives its seats back keeps it.
LEMMA RowsRelease ==
  ASSUME TypeOK, RowInvariant, NEW p \in Parties, NEW next,
         HoldsPermit(state[p]),
         ~HoldsPermit(next),
         next \notin {"absent", "draft"},
         state' = [state EXCEPT ![p] = next],
         reserved' = [reserved EXCEPT ![window[p]] = @ - Size[p]],
         \A q \in Parties \ {p} : version'[q] = version[q],
         UNCHANGED <<window, quota>>
  PROVE  RowInvariant'
<1> DEFINE w == window[p]
<1>1. w \in Windows /\ Size[p] \in Nat \ {0}
  BY PartiesAssumption DEF RowInvariant, PermitOfOwnDay
<1>2. /\ Holders(w)' = Holders(w) \ {p}
      /\ p \in Holders(w)
      /\ Holders(w) \in SUBSET Parties
      /\ \A v \in Windows \ {w} : Holders(v)' = Holders(v)
  BY DEF TypeOK, Holders
<1>3. Cardinality(Seats(Holders(w) \ {p})) = Cardinality(Seats(Holders(w))) - Size[p]
  BY <1>2, SeatsOfLeft
<1>4. SeatConservation'
  BY <1>1, <1>2, <1>3 DEF RowInvariant, SeatConservation, TypeOK
<1>5. PermitOfOwnDay'
  BY DEF RowInvariant, PermitOfOwnDay, HoldsPermit, TypeOK
<1> QED
  BY <1>1, <1>4, <1>5 DEF RowInvariant, TypeOK

-----------------------------------------------------------------------------
(* Every step keeps the invariant.                                         *)

\* A call that begins leaves every row alone.
LEMMA BeginTouchesNothing ==
  ASSUME NEW r \in Requests, NEW q \in Parties, Begin(r, q)
  PROVE  DatabaseUnchanged
BY DEF Begin, BeginCreateParty, BeginRegisterMembers, BeginRequestPermit,
       BeginMove, BeginReport, BeginFeeMove, Start

\* The beginning of a call.
LEMMA BeginKeeps ==
  ASSUME TypeOK, CallInvariant, RowInvariant,
         NEW r \in Requests, NEW p \in Parties, Begin(r, p)
  PROVE  CallInvariant' /\ RowInvariant'
<1> USE DEF Ops, Moves, FeeMoves
<1>1. UNCHANGED <<state, version, window, reserved, quota>>
  BY BeginTouchesNothing DEF DatabaseUnchanged, partyVars, windowVars
<1>2. RowInvariant'
  BY <1>1, RowsKept
<1>3. CASE BeginCreateParty(r, p)
  <2> DEFINE c == Snapshot("create", p)
  <2>1. Start(r, c) /\ SnapshotOf(c, "create", p)
    BY <1>3, SnapshotFields DEF BeginCreateParty
  <2> QED
    BY <1>2, <2>1, CallStarts
<1>4. CASE BeginRegisterMembers(r, p)
  <2> DEFINE c == Snapshot("register", p)
  <2>1. Start(r, c) /\ SnapshotOf(c, "register", p)
    BY <1>4, SnapshotFields DEF BeginRegisterMembers
  <2> QED
    BY <1>2, <2>1, CallStarts
<1>5. CASE \E k \in KeysOf[p] \cup {NoKey} : BeginRequestPermit(r, p, k)
  <2>1. PICK k : BeginRequestPermit(r, p, k)
    BY <1>5
  <2> DEFINE c == [Snapshot("request_permit", p) EXCEPT !.key = k, !.passed = (k \in expired)]
  <2>2. Start(r, c) /\ SnapshotOf(c, "request_permit", p)
    BY <2>1, SnapshotFields DEF BeginRequestPermit
  <2>3. state[p] = "draft"
    BY <2>1 DEF BeginRequestPermit, PartyTransitions
  <2> QED
    BY <1>2, <2>2, <2>3, CallStarts
<1>6. CASE \E op \in Moves : BeginMove(r, op, p)
  <2>1. PICK op \in Moves : BeginMove(r, op, p)
    BY <1>6
  <2> DEFINE c == Snapshot(op, p)
  <2>2. /\ Start(r, c)
        /\ SnapshotOf(c, op, p)
        /\ <<state[p], Target(op)>> \in PartyTransitions
    BY <2>1, SnapshotFields DEF BeginMove
  <2> QED
    BY <1>2, <2>2, CallStarts
<1>7. CASE \E seq \in Checkpoints : BeginReport(r, p, seq)
  <2>1. PICK seq : BeginReport(r, p, seq)
    BY <1>7
  <2> DEFINE c == [Snapshot("report", p) EXCEPT !.seq = seq]
  <2>2. Start(r, c) /\ SnapshotOf(c, "report", p)
    BY <2>1, SnapshotFields DEF BeginReport
  <2> QED
    BY <1>2, <2>2, CallStarts
<1>8. CASE \E op \in FeeMoves : BeginFeeMove(r, op, p)
  <2>1. PICK op \in FeeMoves :
               req' = [req EXCEPT ![r] = [Idle EXCEPT !.op = op, !.party = p,
                                          !.state = fee[p], !.version = fversion[p]]]
    BY <1>8 DEF BeginFeeMove, Start
  <2>2. \A q \in Requests : req'[q] = req[q] \/ req'[q].op \in FeeMoves
    BY <2>1 DEF TypeOK, Idle
  <2>3. VersionTellsStaleness'
    BY <1>1, <2>2 DEF CallInvariant, VersionTellsStaleness, PartyCalls
  <2>4. CallsAreLegal'
    BY <2>2 DEF CallInvariant, CallsAreLegal
  <2> QED
    BY <1>2, <2>3, <2>4 DEF CallInvariant
<1> QED
  BY <1>2, <1>3, <1>4, <1>5, <1>6, <1>7, <1>8 DEF Begin

\* What a party transaction rests on: the row is the one the call read.
LEMMA CommitReadsFresh ==
  ASSUME TypeOK, CallInvariant, NEW r \in Requests, req[r].op \in PartyCalls,
         NEW next, ApplyStateChange(req[r], next)
  PROVE  /\ req[r].party \in Parties
         /\ state[req[r].party] = req[r].state
         /\ window[req[r].party] = req[r].window
         /\ state' = [state EXCEPT ![req[r].party] = next]
         /\ version'[req[r].party] = version[req[r].party] + 1
         /\ \A q \in Parties \ {req[r].party} :
              state'[q] = state[q] /\ version'[q] = version[q]
<1>1. req[r].op # "idle"
  BY DEF PartyCalls, Ops, Moves, FeeMoves
<1> QED
  BY <1>1, CallFacts DEF ApplyStateChange, CallInvariant, VersionTellsStaleness, TypeOK

\* A closing transition gives back the seats that the party holds.
LEMMA ClosingKeeps ==
  ASSUME TypeOK, CallInvariant, RowInvariant, NEW r \in Requests,
         req[r].op \in {"complete", "cancel", "abort"},
         ApplyStateChange(req[r], Target(req[r].op)),
         ReleasePermit(req[r]), Return(r), UNCHANGED window
  PROVE  CallInvariant' /\ RowInvariant'
<1> DEFINE c == req[r]
           p == c.party
           next == Target(c.op)
<1>1. /\ p \in Parties
      /\ state[p] = c.state
      /\ window[p] = c.window
      /\ state' = [state EXCEPT ![p] = next]
      /\ version'[p] = version[p] + 1
      /\ \A q \in Parties \ {p} : state'[q] = state[q] /\ version'[q] = version[q]
  BY CommitReadsFresh DEF PartyCalls, Ops, Moves, FeeMoves
<1>2. CallInvariant'
  BY <1>1, CallCommits
<1>3. <<c.state, next>> \in PartyTransitions
  BY DEF CallInvariant, CallsAreLegal, Moves
<1>4. next \in {"completed", "cancelled", "aborted"}
  BY DEF Target
<1>5. ~HoldsPermit(next) /\ next \notin {"absent", "draft"}
  BY <1>4 DEF HoldsPermit
<1>6. CASE HoldsPermit(c.state)
  <2>1. c.window \in Windows /\ c.window # NoWindow
    BY <1>1, <1>6, PartiesAssumption, WindowsAssumption DEF RowInvariant, PermitOfOwnDay
  <2>2. reserved' = [reserved EXCEPT ![window[p]] = @ - Size[p]] /\ UNCHANGED quota
    BY <1>1, <1>6, <2>1 DEF ReleasePermit, ReleaseSeats
  <2>3. RowInvariant'
    <3> HIDE DEF next, p
    <3> QED BY <1>1, <1>5, <1>6, <2>2, RowsRelease
  <2> QED
    BY <1>2, <2>3
<1>7. CASE ~HoldsPermit(c.state)
  <2>1. UNCHANGED <<reserved, quota>>
    BY <1>7 DEF ReleasePermit, windowVars
  <2>2. RowInvariant'
    <3> HIDE DEF next, p
    <3> QED BY <1>1, <1>5, <1>7, <2>1, RowsMove
  <2> QED
    BY <1>2, <2>2
<1> QED
  BY <1>6, <1>7

\* Every transaction, and the failure of a call.
LEMMA CommitKeeps ==
  ASSUME TypeOK, CallInvariant, RowInvariant, NEW r \in Requests, Commit(r) \/ Fail(r)
  PROVE  CallInvariant' /\ RowInvariant'
<1> DEFINE c == req[r]
<1> USE DEF partyVars, windowVars
<1>1. CASE CreateParty(r)
  <2>1. c.party \in Parties /\ state[c.party] = "absent" /\ version[c.party] = 0
    BY <1>1, CallFacts DEF CreateParty, Serving, RowInvariant, PermitOfOwnDay
  <2>2. /\ state' = [state EXCEPT ![c.party] = "draft"]
        /\ version'[c.party] = version[c.party] + 1
        /\ \A q \in Parties \ {c.party} : state'[q] = state[q] /\ version'[q] = version[q]
        /\ Return(r)
        /\ UNCHANGED <<window, reserved, quota>>
    BY <1>1, <2>1 DEF CreateParty, TypeOK
  <2>3. CallInvariant'
    BY <2>1, <2>2, CallCommits
  <2>4. RowInvariant'
    BY <2>1, <2>2, RowsMove DEF HoldsPermit
  <2> QED
    BY <2>3, <2>4
<1>2. CASE \E signed \in BOOLEAN : RegisterOneMember(r, signed)
  BY <1>2, CallEnds, RowsKept DEF RegisterOneMember
<1>3. CASE EnsureWindow(r)
  <2>1. WindowOf[c.party] \in Windows
    BY <1>3, CallFacts DEF EnsureWindow, MayApply, Serving
  <2> DEFINE w == WindowOf[c.party]
  <2>2. quota' = [quota EXCEPT ![w] = DailyQuota[w]] /\ quota[w] = 0
    BY <1>3 DEF EnsureWindow, CreateWindow
  <2>3. reserved[w] = 0 /\ DailyQuota[w] \in Nat
    <3>1. reserved[w] \in Nat /\ reserved[w] <= quota[w]
      BY <2>1 DEF RowInvariant, TypeOK
    <3>2. DailyQuota[w] \in Nat \ {0}
      BY <2>1, WindowsAssumption
    <3> QED
      BY <2>2, <3>1, <3>2
  <2>4. \A v \in Windows : quota'[v] = quota[v] \/ reserved[v] <= quota'[v]
    BY <2>1, <2>2, <2>3 DEF TypeOK
  <2> QED
    BY <1>3, <2>4, CallEnds, RowsKept DEF EnsureWindow, CreateWindow
<1>4. CASE ReadWindow(r)
  <2>1. /\ req' = [req EXCEPT ![r].op = "reserve",
                              ![r].wversion = wversion[WindowOf[c.party]]]
        /\ c.op = "request_permit"
        /\ c \in Calls
        /\ UNCHANGED <<state, version, window, reserved, quota>>
    BY <1>4, CallFacts DEF ReadWindow, MayApply, Serving, DatabaseUnchanged
  <2>2. /\ req'[r].op = "reserve"
        /\ req'[r].party = c.party
        /\ req'[r].state = c.state
        /\ req'[r].version = c.version
        /\ req'[r].window = c.window
        /\ \A q \in Requests \ {r} : req'[q] = req[q]
    BY <2>1 DEF TypeOK, Calls
  <2>3. c.op \in PartyCalls /\ c.op \notin Moves /\ "reserve" \notin Moves
    BY <2>1 DEF PartyCalls, Ops, Moves, FeeMoves
  <2>4. VersionTellsStaleness'
    <3> SUFFICES ASSUME NEW q \in Requests, req'[q].op \in PartyCalls
                 PROVE  /\ req'[q].version <= version'[req'[q].party]
                        /\ req'[q].version = version'[req'[q].party]
                             => /\ req'[q].state = state'[req'[q].party]
                                /\ req'[q].window = window'[req'[q].party]
      BY DEF VersionTellsStaleness
    <3>1. CASE q = r
      BY <2>1, <2>2, <2>3, <3>1 DEF CallInvariant, VersionTellsStaleness
    <3>2. CASE q # r
      <4>1. req'[q] = req[q]
        BY <2>2, <3>2
      <4> QED
        BY <2>1, <4>1 DEF CallInvariant, VersionTellsStaleness
    <3> QED
      BY <3>1, <3>2
  <2>5. CallsAreLegal'
    <3> SUFFICES ASSUME NEW q \in Requests
                 PROVE  /\ req'[q].op \in Moves
                             => <<req'[q].state, Target(req'[q].op)>> \in PartyTransitions
                        /\ req'[q].op \in {"request_permit", "reserve"}
                             => req'[q].state = "draft"
      BY DEF CallsAreLegal
    <3> QED
      BY <2>1, <2>2, <2>3 DEF CallInvariant, CallsAreLegal
  <2> QED
    BY <2>1, <2>4, <2>5, RowsKept DEF CallInvariant
<1>5. CASE ReservePermit(r)
  <2>1. c.op = "reserve" /\ c.state = "draft"
    BY <1>5 DEF ReservePermit, Serving, CallInvariant, CallsAreLegal
  <2>2. /\ c.party \in Parties
        /\ state[c.party] = c.state
        /\ state' = [state EXCEPT ![c.party] = "permit_reserved"]
        /\ version'[c.party] = version[c.party] + 1
        /\ \A q \in Parties \ {c.party} : state'[q] = state[q] /\ version'[q] = version[q]
    BY <1>5, <2>1, CommitReadsFresh DEF ReservePermit, PartyCalls, Ops, Moves, FeeMoves
  <2>3. WindowOf[c.party] \in Windows
    BY <2>2, PartiesAssumption
  <2>4. /\ window' = [window EXCEPT ![c.party] = WindowOf[c.party]]
        /\ reserved[WindowOf[c.party]] + Size[c.party] <= quota[WindowOf[c.party]]
        /\ reserved' = [reserved EXCEPT ![WindowOf[c.party]] = @ + Size[c.party]]
        /\ Return(r)
        /\ UNCHANGED quota
    BY <1>5 DEF ReservePermit, ReserveSeats
  <2>5. CallInvariant'
    BY <2>2, <2>4, CallCommits DEF TypeOK
  <2>6. RowInvariant'
    BY <2>1, <2>2, <2>3, <2>4, RowsReserve
  <2> QED
    BY <2>5, <2>6
<1>6. CASE Advance(r)
  <2> DEFINE next == Target(c.op)
  <2>1. c.op \in {"approve", "dispatch"} /\ <<c.state, next>> \in PartyTransitions
    BY <1>6 DEF Advance, CallInvariant, CallsAreLegal, Moves
  <2>2. /\ c.party \in Parties
        /\ state[c.party] = c.state
        /\ state' = [state EXCEPT ![c.party] = next]
        /\ version'[c.party] = version[c.party] + 1
        /\ \A q \in Parties \ {c.party} : state'[q] = state[q] /\ version'[q] = version[q]
    BY <1>6, <2>1, CommitReadsFresh DEF Advance, PartyCalls, Ops, Moves, FeeMoves
  <2>3. /\ HoldsPermit(next) /\ HoldsPermit(c.state)
        /\ next \notin {"absent", "draft"}
    BY <2>1 DEF Target, PartyTransitions, HoldsPermit
  <2>4. Return(r) /\ UNCHANGED <<window, reserved, quota>>
    BY <1>6 DEF Advance
  <2>5. CallInvariant'
    BY <2>2, <2>4, CallCommits
  <2>6. RowInvariant'
    <3> HIDE DEF next
    <3> QED BY <2>2, <2>3, <2>4, RowsMove
  <2> QED
    BY <2>5, <2>6
<1>7. CASE CompleteParty(r)
  <2>1. c.op = "complete" /\ Target(c.op) = "completed"
    BY <1>7 DEF CompleteParty, Serving, Target
  <2> QED
    BY <1>7, <2>1, ClosingKeeps DEF CompleteParty
<1>8. CASE WithdrawParty(r)
  BY <1>8, ClosingKeeps DEF WithdrawParty
<1>9. CASE ReportCheckpoint(r)
  BY <1>9, CallEnds, RowsKept DEF ReportCheckpoint
<1>10. CASE UpdateFee(r)
  BY <1>10, CallEnds, RowsKept DEF UpdateFee
<1>11. CASE Fail(r)
  BY <1>11, CallEnds, RowsKept DEF Fail, DatabaseUnchanged
<1> QED
  BY <1>1, <1>2, <1>3, <1>4, <1>5, <1>6, <1>7, <1>8, <1>9, <1>10, <1>11 DEF Commit

\* Rangers and time.
LEMMA WorldKeeps ==
  ASSUME TypeOK, CallInvariant, RowInvariant, World
  PROVE  CallInvariant' /\ RowInvariant'
<1> USE DEF partyVars, windowVars
<1>1. CASE \E w \in Windows, q \in OpenQuotas : OpenWindow(w, q)
  <2>1. \A w \in Windows : quota'[w] = quota[w] \/ reserved[w] <= quota'[w]
    BY <1>1, WindowsAssumption DEF OpenWindow, CreateWindow, RowInvariant, TypeOK
  <2> QED
    BY <1>1, <2>1, CallEnds, RowsKept DEF OpenWindow, CreateWindow
<1>2. CASE \E w \in Windows : CloseWindow(w)
  BY <1>2, CallEnds, RowsKept DEF CloseWindow
<1>3. CASE \E w \in Windows : PassDeadline(w)
  BY <1>3, CallEnds, RowsKept DEF PassDeadline
<1>4. CASE \E t \in Trails, s \in TrailStatuses : SetTrailStatus(t, s)
  BY <1>4, CallEnds, RowsKept DEF SetTrailStatus
<1>5. CASE \E k \in Keys : ExpireKey(k)
  BY <1>5, CallEnds, RowsKept DEF ExpireKey
<1> QED
  BY <1>1, <1>2, <1>3, <1>4, <1>5 DEF World

-----------------------------------------------------------------------------
(* Theorems.                                                               *)

\* The inductive invariant, in every behaviour.
THEOREM SeatInvariantHolds == Spec => []SeatInvariant
<1> DEFINE Inv == TypeOK /\ CallInvariant /\ RowInvariant
<1>1. Init => CallInvariant /\ RowInvariant
  <2> SUFFICES ASSUME Init PROVE CallInvariant /\ RowInvariant
    OBVIOUS
  <2>1. CallInvariant
    BY DEF Init, CallInvariant, VersionTellsStaleness, CallsAreLegal, Idle,
           PartyCalls, Ops, Moves, FeeMoves
  <2>2. \A w \in Windows : Seats(Holders(w)) = {}
    BY DEF Init, Holders, HoldsPermit, Seats
  <2>3. SeatConservation
    BY <2>2, FS_EmptySet DEF Init, SeatConservation
  <2>4. PermitOfOwnDay
    BY DEF Init, PermitOfOwnDay, HoldsPermit
  <2>5. \A w \in Windows : reserved[w] <= quota[w]
    BY DEF Init
  <2> QED
    BY <2>1, <2>3, <2>4, <2>5 DEF RowInvariant
<1>2. Inv /\ [Next]_vars /\ TypeOK' => Inv'
  <2> SUFFICES ASSUME Inv, [Next]_vars PROVE CallInvariant' /\ RowInvariant'
    OBVIOUS
  <2>1. CASE Next
    BY <2>1, BeginKeeps, CommitKeeps, WorldKeeps DEF Next
  <2>2. CASE UNCHANGED vars
    BY <2>2, CallEnds, RowsKept DEF vars, partyVars, windowVars
  <2> QED
    BY <2>1, <2>2
<1>3. Inv => SeatInvariant
  BY DEF SeatInvariant, CallInvariant, RowInvariant
<1> HIDE DEF Inv
<1>4. Init /\ TypeOK => Inv
  BY <1>1 DEF Inv
<1> QED
  BY <1>2, <1>3, <1>4, TypeCorrect, PTL DEF Spec

\* The counter of every window is the number of seats of the parties that hold its
\* permit (RequestPermit, CompleteParty, CancelParty, AbortParty).
THEOREM SeatsConserved == Spec => []SeatConservation
BY SeatInvariantHolds, PTL DEF SeatInvariant

\* The parties that hold a permit of a window fit its quota (RequestPermit).
THEOREM NeverOverbooked == Spec => []NoOverbooking
<1>1. SeatInvariant => NoOverbooking
  BY DEF SeatInvariant, SeatConservation, NoOverbooking
<1> QED
  BY <1>1, SeatInvariantHolds, PTL

\* No closing transition is refused on account of the seats (releasePermit).
THEOREM ReleaseAlwaysPossible == Spec => []ReleaseNeverFails
<1>1. TypeOK /\ SeatInvariant => ReleaseNeverFails
  <2> SUFFICES ASSUME TypeOK, SeatInvariant, NEW r \in Requests,
                      req[r].op \in {"complete", "cancel", "abort"},
                      state[req[r].party] = req[r].state,
                      version[req[r].party] = req[r].version,
                      HoldsPermit(req[r].state)
               PROVE  /\ req[r].window # NoWindow
                      /\ reserved[req[r].window] >= Size[req[r].party]
    BY DEF ReleaseNeverFails
  <2> DEFINE p == req[r].party
             w == req[r].window
  <2>1. p \in Parties /\ Size[p] \in Nat \ {0}
    BY CallFacts
  <2>2. req[r].op \in PartyCalls
    BY DEF PartyCalls, Ops, Moves, FeeMoves
  <2>3. w = window[p] /\ HoldsPermit(state[p])
    BY <2>2 DEF SeatInvariant, VersionTellsStaleness
  <2>4. w \in Windows /\ w # NoWindow
    BY <2>1, <2>3, PartiesAssumption, WindowsAssumption DEF SeatInvariant, PermitOfOwnDay
  <2>5. p \in Holders(w) /\ Holders(w) \in SUBSET Parties
    BY <2>1, <2>3 DEF Holders
  <2>6. Size[p] <= Cardinality(Seats(Holders(w)))
    BY <2>5, SeatsOfLeft
  <2>7. reserved[w] = Cardinality(Seats(Holders(w))) /\ reserved[w] \in Nat
    BY <2>4 DEF SeatInvariant, SeatConservation, TypeOK
  <2> QED
    BY <2>1, <2>4, <2>6, <2>7
<1> QED
  BY <1>1, SeatInvariantHolds, TypeCorrect, PTL

\* Parties move only along their state machine, one version per move
\* (ApplyStateChange under ValidatePartyTransition).
THEOREM LifecycleIsLegal == Spec => LegalLifecycle
<1>1. ASSUME TypeOK, CallInvariant, NEW r \in Requests, req[r].op \in Moves \cup {"reserve"},
             NEW next, ApplyStateChange(req[r], next),
             <<req[r].state, next>> \in PartyTransitions, NEW p \in Parties
      PROVE  LegalStep(p)
  <2>1. req[r].op \in PartyCalls
    BY <1>1 DEF PartyCalls, Ops, Moves, FeeMoves
  <2>2. /\ req[r].party \in Parties
        /\ state[req[r].party] = req[r].state
        /\ state' = [state EXCEPT ![req[r].party] = next]
        /\ version'[req[r].party] = version[req[r].party] + 1
        /\ \A q \in Parties \ {req[r].party} :
             state'[q] = state[q] /\ version'[q] = version[q]
    BY <1>1, <2>1, CommitReadsFresh
  <2> QED
    BY <1>1, <2>2 DEF TypeOK, LegalStep
<1>2. ASSUME TypeOK, CallInvariant, NEW r \in Requests, NEW p \in Parties,
             Commit(r) \/ Fail(r)
      PROVE  LegalStep(p)
  <2> USE DEF partyVars
  <2>1. CASE CreateParty(r)
    BY <1>2, <2>1, CallFacts DEF CreateParty, Serving, TypeOK, LegalStep
  <2>2. CASE ReservePermit(r)
    BY <1>1, <1>2, <2>2
    DEF ReservePermit, Serving, CallInvariant, CallsAreLegal, PartyTransitions
  <2>3. CASE Advance(r)
    BY <1>1, <1>2, <2>3 DEF Advance, CallInvariant, CallsAreLegal, Moves
  <2>4. CASE CompleteParty(r)
    BY <1>1, <1>2, <2>4
    DEF CompleteParty, Serving, CallInvariant, CallsAreLegal, Moves, Target
  <2>5. CASE WithdrawParty(r)
    BY <1>1, <1>2, <2>5 DEF WithdrawParty, CallInvariant, CallsAreLegal, Moves
  <2>6. CASE \/ \E signed \in BOOLEAN : RegisterOneMember(r, signed)
             \/ EnsureWindow(r) \/ ReadWindow(r) \/ ReportCheckpoint(r)
             \/ UpdateFee(r) \/ Fail(r)
    BY <2>6 DEF RegisterOneMember, EnsureWindow, ReadWindow, ReportCheckpoint,
                UpdateFee, Fail, DatabaseUnchanged, LegalStep
  <2> QED
    BY <1>2, <2>1, <2>2, <2>3, <2>4, <2>5, <2>6 DEF Commit
<1>3. ASSUME TypeOK, CallInvariant, [Next]_vars, NEW p \in Parties
      PROVE  LegalStep(p)
  <2>1. CASE \E r \in Requests, q \in Parties : Begin(r, q)
    <3>1. DatabaseUnchanged
      BY <2>1, BeginTouchesNothing
    <3> QED
      BY <3>1 DEF DatabaseUnchanged, partyVars, LegalStep
  <2>2. CASE World
    BY <2>2 DEF World, OpenWindow, CloseWindow, SetTrailStatus, PassDeadline, ExpireKey,
                partyVars, LegalStep
  <2>3. CASE UNCHANGED vars
    BY <2>3 DEF vars, partyVars, LegalStep
  <2> QED
    BY <1>2, <1>3, <2>1, <2>2, <2>3 DEF Next
<1>4. TypeOK /\ SeatInvariant /\ [Next]_vars => [\A p \in Parties : LegalStep(p)]_<<state, version>>
  BY <1>3 DEF SeatInvariant, CallInvariant
<1> QED
  BY <1>4, SeatInvariantHolds, TypeCorrect, PTL DEF Spec, LegalLifecycle

-----------------------------------------------------------------------------
(* The permit path implements the seat ledger: every transaction grants     *)
(* one party its seats, gives them back, opens or closes a window, or is a   *)
(* stutter of the ledger.                                                  *)

\* The ledger's variables, as the refinement maps them.
Held    == {p \in Parties : HoldsPermit(state[p])}
Granted == {p \in Parties : window[p] # NoWindow}
Shut    == {w \in Windows : closed[w]}

LedgerStep == Ledger!Next \/ UNCHANGED <<Held, Granted, quota, Shut>>

\* The invariant under which the steps are mapped.
LedgerInvariant == TypeOK /\ CallInvariant /\ RowInvariant

\* The instance of the ledger counts as the permit path does.
LEMMA LedgerCounts == \A S : Ledger!Cardinality(S) = Cardinality(S)
BY Zenon DEF Ledger!Cardinality, Cardinality

\* A step that leaves parties, quotas and closures alone is a stutter.
LEMMA LedgerStutters ==
  ASSUME UNCHANGED <<state, window, quota, closed>>
  PROVE  LedgerStep
BY DEF LedgerStep, Held, Granted, Shut

\* A reservation grants the seats.
LEMMA ReserveGrants ==
  ASSUME LedgerInvariant, NEW r \in Requests, ReservePermit(r)
  PROVE  LedgerStep
<1> DEFINE c == req[r]
           p == c.party
           w == WindowOf[p]
<1>1. c.op = "reserve" /\ c.op \in PartyCalls /\ c.state = "draft"
  BY DEF ReservePermit, Serving, LedgerInvariant, CallInvariant, CallsAreLegal,
         PartyCalls, Ops, Moves, FeeMoves
<1>2. /\ p \in Parties
      /\ state[p] = "draft"
      /\ state' = [state EXCEPT ![p] = "permit_reserved"]
  BY <1>1, CommitReadsFresh DEF ReservePermit, LedgerInvariant
<1>3. /\ window' = [window EXCEPT ![p] = w]
      /\ ~closed[w]
      /\ reserved[w] + Size[p] <= quota[w]
      /\ UNCHANGED <<quota, closed>>
  BY DEF ReservePermit, ReserveSeats
<1>4. w \in Windows /\ w # NoWindow /\ window[p] = NoWindow
  BY <1>2, PartiesAssumption, WindowsAssumption
  DEF LedgerInvariant, RowInvariant, PermitOfOwnDay
<1>5. Held' = Held \cup {p} /\ Granted' = Granted \cup {p} /\ Shut' = Shut
  BY <1>2, <1>3, <1>4 DEF Held, Granted, Shut, HoldsPermit, LedgerInvariant, TypeOK
<1>6. p \notin Granted /\ w \notin Shut
  BY <1>3, <1>4 DEF Granted, Shut
<1>7. {q \in Held \cup {p} : WindowOf[q] = w} = Holders(w) \cup {p}
  BY <1>2 DEF Held, Holders, LedgerInvariant, RowInvariant, PermitOfOwnDay
<1>8. Cardinality(Seats(Holders(w) \cup {p})) = reserved[w] + Size[p]
  <2>1. Holders(w) \in SUBSET Parties /\ p \notin Holders(w)
    BY <1>2 DEF Holders, HoldsPermit
  <2>2. Cardinality(Seats(Holders(w) \cup {p})) = Cardinality(Seats(Holders(w))) + Size[p]
    BY <1>2, <2>1, SeatsOfJoined
  <2> QED
    BY <1>4, <2>2 DEF LedgerInvariant, RowInvariant, SeatConservation
<1>9. Cardinality(Ledger!Seats(Ledger!To(Held \cup {p}, w))) <= quota[w]
  <2>1. Ledger!To(Held \cup {p}, w) = Holders(w) \cup {p}
    BY <1>7 DEF Ledger!To
  <2>2. Ledger!Seats(Holders(w) \cup {p}) = Seats(Holders(w) \cup {p})
    BY DEF Ledger!Seats, Seats
  <2> QED
    BY <1>3, <1>8, <2>1, <2>2
<1>10. /\ p \notin Granted
       /\ WindowOf[p] \notin Shut
       /\ Ledger!Cardinality(Ledger!Seats(Ledger!To(Held \cup {p}, WindowOf[p])))
            <= quota[WindowOf[p]]
       /\ Held' = Held \cup {p}
       /\ Granted' = Granted \cup {p}
       /\ UNCHANGED <<quota, Shut>>
  BY <1>3, <1>5, <1>6, <1>9, LedgerCounts
<1>11. PICK q \in Parties : q = p
  BY <1>2
<1>12. Ledger!Grant(q)
  <2> HIDE DEF p
  <2> QED BY <1>10, <1>11, Zenon DEF Ledger!Grant, Held, Granted, Shut
<1> QED
  BY <1>12 DEF LedgerStep, Ledger!Next

\* A closing transition gives the seats back, or is a stutter for a draft.
LEMMA ClosingGivesBack ==
  ASSUME LedgerInvariant, NEW r \in Requests,
         req[r].op \in {"complete", "cancel", "abort"},
         ApplyStateChange(req[r], Target(req[r].op)),
         UNCHANGED <<window, quota, closed>>
  PROVE  LedgerStep
<1> DEFINE c == req[r]
           p == c.party
           next == Target(c.op)
<1>1. /\ p \in Parties
      /\ state' = [state EXCEPT ![p] = next]
  BY CommitReadsFresh DEF PartyCalls, Ops, Moves, FeeMoves, LedgerInvariant
<1>2. ~HoldsPermit(next)
  BY DEF Target, HoldsPermit
<1>3. Held' = Held \ {p} /\ Granted' = Granted /\ Shut' = Shut
  <2> HIDE DEF next
  <2> QED BY <1>1, <1>2 DEF Held, Granted, Shut, LedgerInvariant, TypeOK
<1>4. CASE p \in Held
  BY <1>1, <1>3, <1>4 DEF LedgerStep, Ledger!Next, Ledger!GiveBack, Held, Granted, Shut
<1>5. CASE p \notin Held
  BY <1>3, <1>5 DEF LedgerStep
<1> QED
  BY <1>4, <1>5

\* A created window opens in the ledger.
LEMMA CreateOpens ==
  ASSUME LedgerInvariant, NEW w \in Windows, NEW q \in Nat \ {0}, CreateWindow(w, q),
         UNCHANGED <<state, window>>
  PROVE  LedgerStep
<1>1. /\ quota[w] = 0
      /\ quota' = [quota EXCEPT ![w] = q]
      /\ quota'[w] = q
      /\ UNCHANGED closed
  BY DEF CreateWindow, LedgerInvariant, TypeOK
<1>2. Ledger!Open(w)
  BY <1>1 DEF Ledger!Open
<1> QED
  BY <1>2 DEF LedgerStep, Ledger!Next

\* A closed window shuts in the ledger.
LEMMA CloseShuts ==
  ASSUME LedgerInvariant, NEW w \in Windows, CloseWindow(w)
  PROVE  LedgerStep
<1>1. /\ quota[w] > 0
      /\ closed' = [closed EXCEPT ![w] = TRUE]
      /\ UNCHANGED <<state, window, quota>>
  BY DEF CloseWindow, partyVars
<1>2. Shut' = Shut \cup {w}
  BY <1>1 DEF Shut, LedgerInvariant, TypeOK
<1>3. Ledger!Shut(w)
  BY <1>1, <1>2 DEF Ledger!Shut, Shut
<1> QED
  BY <1>3 DEF LedgerStep, Ledger!Next

\* Every step of the permit path is a step of the ledger or a stutter.
LEMMA StepsMap ==
  ASSUME LedgerInvariant, [Next]_vars
  PROVE  LedgerStep
<1> USE DEF partyVars, windowVars
<1>1. CASE \E r \in Requests, p \in Parties : Begin(r, p)
  <2>1. DatabaseUnchanged
    BY <1>1, BeginTouchesNothing
  <2> QED
    BY <2>1, LedgerStutters DEF DatabaseUnchanged
<1>2. ASSUME NEW r \in Requests, Commit(r) \/ Fail(r)
      PROVE  LedgerStep
  <2>1. CASE CreateParty(r)
    <3>1. /\ req[r].party \in Parties
          /\ state[req[r].party] = "absent"
          /\ state' = [state EXCEPT ![req[r].party] = "draft"]
          /\ UNCHANGED <<window, quota, closed>>
      BY <2>1, CallFacts DEF CreateParty, Serving, LedgerInvariant
    <3> QED
      BY <3>1 DEF LedgerStep, Held, Granted, Shut, HoldsPermit, LedgerInvariant, TypeOK
  <2>2. CASE EnsureWindow(r)
    <3>1. WindowOf[req[r].party] \in Windows
      BY <2>2, CallFacts DEF EnsureWindow, MayApply, Serving, LedgerInvariant
    <3>2. DailyQuota[WindowOf[req[r].party]] \in Nat \ {0}
      BY <3>1, WindowsAssumption
    <3> QED
      BY <2>2, <3>1, <3>2, CreateOpens DEF EnsureWindow
  <2>3. CASE ReservePermit(r)
    BY <2>3, ReserveGrants
  <2>4. CASE Advance(r)
    <3>1. /\ req[r].op \in PartyCalls \cap {"approve", "dispatch"}
          /\ <<req[r].state, Target(req[r].op)>> \in PartyTransitions
      BY <2>4 DEF Advance, LedgerInvariant, CallInvariant, CallsAreLegal, PartyCalls,
                  Ops, Moves, FeeMoves
    <3>2. HoldsPermit(req[r].state) /\ HoldsPermit(Target(req[r].op))
      BY <3>1 DEF Target, PartyTransitions, HoldsPermit
    <3>3. /\ req[r].party \in Parties
          /\ state[req[r].party] = req[r].state
          /\ state' = [state EXCEPT ![req[r].party] = Target(req[r].op)]
          /\ UNCHANGED <<window, quota, closed>>
      BY <2>4, <3>1, CommitReadsFresh DEF Advance, LedgerInvariant
    <3>4. Held' = Held
      BY <3>2, <3>3 DEF Held, LedgerInvariant, TypeOK
    <3> QED
      BY <3>3, <3>4 DEF LedgerStep, Granted, Shut
  <2>5. CASE CompleteParty(r)
    <3>1. req[r].op = "complete" /\ Target(req[r].op) = "completed"
      BY <2>5 DEF CompleteParty, Serving, Target
    <3> QED
      BY <2>5, <3>1, ClosingGivesBack DEF CompleteParty, ReleasePermit
  <2>6. CASE WithdrawParty(r)
    BY <2>6, ClosingGivesBack DEF WithdrawParty, ReleasePermit
  <2>7. CASE \/ \E signed \in BOOLEAN : RegisterOneMember(r, signed)
             \/ ReadWindow(r) \/ ReportCheckpoint(r) \/ UpdateFee(r) \/ Fail(r)
    BY <2>7, LedgerStutters
    DEF RegisterOneMember, ReadWindow, ReportCheckpoint, UpdateFee, Fail, DatabaseUnchanged
  <2> QED
    BY <1>2, <2>1, <2>2, <2>3, <2>4, <2>5, <2>6, <2>7 DEF Commit
<1>3. CASE World
  <2>1. CASE \E w \in Windows, q \in OpenQuotas : OpenWindow(w, q)
    BY <2>1, CreateOpens, WindowsAssumption DEF OpenWindow
  <2>2. CASE \E w \in Windows : CloseWindow(w)
    BY <2>2, CloseShuts
  <2>3. CASE \E w \in Windows : PassDeadline(w)
    BY <2>3, LedgerStutters DEF PassDeadline
  <2>4. CASE \E t \in Trails, s \in TrailStatuses : SetTrailStatus(t, s)
    BY <2>4, LedgerStutters DEF SetTrailStatus
  <2>5. CASE \E k \in Keys : ExpireKey(k)
    BY <2>5, LedgerStutters DEF ExpireKey
  <2> QED
    BY <1>3, <2>1, <2>2, <2>3, <2>4, <2>5 DEF World
<1>4. CASE UNCHANGED vars
  BY <1>4, LedgerStutters DEF vars
<1> QED
  BY <1>1, <1>2, <1>3, <1>4 DEF Next

\* The permit path implements the seat ledger, for every value of the constants.
THEOREM PermitPathImplementsLedger == Spec => ImplementsLedger
<1>1. Init => Ledger!Init
  BY DEF Init, Ledger!Init, HoldsPermit
<1>2. LedgerInvariant /\ [Next]_vars => [Ledger!Next]_(Ledger!ledgerVars)
  BY StepsMap DEF LedgerStep, Ledger!ledgerVars, Held, Granted, Shut
<1>3. TypeOK /\ SeatInvariant => LedgerInvariant
  BY DEF SeatInvariant, LedgerInvariant, CallInvariant, RowInvariant
<1> QED
  BY <1>1, <1>2, <1>3, SeatInvariantHolds, TypeCorrect, PTL
  DEF Spec, ImplementsLedger, Ledger!Spec

=============================================================================
