------------------------- MODULE PermitEffectsProofs -------------------------
(***************************************************************************)
(* What a permit brings along, proved for every number of parties, calls   *)
(* and keys: the members it asks for, the fee, the queued jobs and the key. *)
(* One lemma says all that a step may do to a party and its fee (Effect);   *)
(* the invariants follow from it.                                           *)
(***************************************************************************)
EXTENDS PermitSeatsProofs

-----------------------------------------------------------------------------
(* What a step does to one party.                                          *)

\* Nothing happens to the fee and the jobs of party p.
FeeKept(p) == fee'[p] = fee[p] /\ fversion'[p] = fversion[p]
JobsKept(p) == \A k \in JobKinds : jobs'[k][p] = jobs[k][p]

Untouched(p) ==
  /\ state'[p] = state[p]
  /\ window'[p] = window[p]
  /\ FeeKept(p)
  /\ JobsKept(p)

\* The party is created, approved or dispatched.
Moved(p) ==
  /\ \/ state[p] = "absent" /\ state'[p] = "draft"
     \/ state[p] = "permit_reserved" /\ state'[p] = "confirmed"
     \/ state[p] = "confirmed" /\ state'[p] = "on_trail"
  /\ window'[p] = window[p]
  /\ FeeKept(p)
  /\ JobsKept(p)

\* The party reserves its seats; the reservation creates the fee and one job.
Reserved(p) ==
  /\ state[p] = "draft"
  /\ state'[p] = "permit_reserved"
  /\ window'[p] # NoWindow
  /\ fee[p] = "none"
  /\ fee'[p] = "pending"
  /\ jobs'["notify_dispatch"][p] = jobs["notify_dispatch"][p] + 1
  /\ jobs'["settle_party"][p] = jobs["settle_party"][p]

Completed(p) ==
  /\ state[p] = "on_trail"
  /\ state'[p] = "completed"
  /\ window'[p] = window[p]
  /\ FeeKept(p)
  /\ jobs'["notify_dispatch"][p] = jobs["notify_dispatch"][p]
  /\ jobs'["settle_party"][p] = jobs["settle_party"][p] + 1

Withdrawn(p) ==
  /\ state[p] \in {"draft", "permit_reserved", "confirmed", "on_trail"}
  /\ state'[p] \in {"cancelled", "aborted"}
  /\ window'[p] = window[p]
  /\ IF fee[p] = "pending"
       THEN fee'[p] = "waived" /\ fversion'[p] = fversion[p] + 1
       ELSE FeeKept(p)
  /\ JobsKept(p)

\* The fee moves, charged or given up only for a completed party.
FeeMoved(p) ==
  /\ state'[p] = state[p]
  /\ window'[p] = window[p]
  /\ <<fee[p], fee'[p]>> \in FeeTransitions
  /\ fversion'[p] = fversion[p] + 1
  /\ fee'[p] \in {"settled", "failed"} => state[p] = "completed"
  /\ JobsKept(p)

Effect(p) ==
  \/ Untouched(p)
  \/ Moved(p)
  \/ Reserved(p)
  \/ Completed(p)
  \/ Withdrawn(p)
  \/ FeeMoved(p)

-----------------------------------------------------------------------------
(* The invariant.                                                          *)

\* A fee is charged, or its charge given up, only for a completed party.
ChargedOnlyCompleted ==
  \A p \in Parties : fee[p] \in {"settled", "failed"} => state[p] = "completed"

\* The snapshot of a fee is stale or equal to the row, and its version tells which; the
\* state machine allowed the move, and the worker found the party completed.
FeeCallIsLegal(c) ==
  /\ fee[c.party] # "none"
  /\ c.version <= fversion[c.party]
  /\ c.version = fversion[c.party] => c.state = fee[c.party]
  /\ <<c.state, FeeTarget(c.op)>> \in FeeTransitions
  /\ c.op \in {"settle", "fail"} => state[c.party] = "completed"

FeeCallsAreLegal ==
  \A r \in Requests : req[r].op \in FeeMoves => FeeCallIsLegal(req[r])

\* The parts about parties hold together: each rests on the others.
PartyEffects ==
  /\ EffectsExactlyOnce
  /\ ChargedOnlyCompleted
  /\ WithdrawnPartyOwesNothing

EffectInvariant == PartyEffects /\ FeeCallsAreLegal

-----------------------------------------------------------------------------
(* Every step has one of the effects.                                      *)

\* A committed transition changes the state of its own party only, along the state
\* machine.
LEMMA CommitMovesOne ==
  ASSUME TypeOK, CallInvariant, NEW r \in Requests, req[r].op \in Moves \cup {"reserve"},
         NEW next, ApplyStateChange(req[r], next),
         next = IF req[r].op = "reserve" THEN "permit_reserved" ELSE Target(req[r].op)
  PROVE  /\ req[r].party \in Parties
         /\ state[req[r].party] = req[r].state
         /\ state'[req[r].party] = next
         /\ <<state[req[r].party], next>> \in PartyTransitions
         /\ \A q \in Parties \ {req[r].party} : state'[q] = state[q]
<1>1. req[r].op \in PartyCalls
  BY DEF PartyCalls, Ops, Moves, FeeMoves
<1>2. /\ req[r].party \in Parties
      /\ state[req[r].party] = req[r].state
      /\ state' = [state EXCEPT ![req[r].party] = next]
      /\ \A q \in Parties \ {req[r].party} : state'[q] = state[q]
  BY <1>1, CommitReadsFresh
<1>3. state'[req[r].party] = next
  BY <1>2 DEF TypeOK
<1>4. <<req[r].state, next>> \in PartyTransitions
  <2>1. CASE req[r].op = "reserve"
    BY <2>1 DEF CallInvariant, CallsAreLegal, PartyTransitions
  <2>2. CASE req[r].op \in Moves
    <3>1. req[r].op # "reserve"
      BY <2>2 DEF Moves
    <3> QED
      BY <2>2, <3>1 DEF CallInvariant, CallsAreLegal
  <2> QED
    BY <2>1, <2>2
<1> QED
  BY <1>2, <1>3, <1>4

\* Queueing a job for a party counts one more of that kind.
LEMMA EnqueueCounts ==
  ASSUME TypeOK, NEW kind \in JobKinds, NEW p \in Parties, Enqueue(kind, p)
  PROVE  /\ jobs'[kind][p] = jobs[kind][p] + 1
         /\ \A k \in JobKinds \ {kind} : jobs'[k][p] = jobs[k][p]
         /\ \A q \in Parties \ {p} : JobsKept(q)
BY DEF Enqueue, TypeOK, JobsKept

\* Every transaction, and the failure of a call.
LEMMA CommitEffect ==
  ASSUME TypeOK, CallInvariant, FeeCallsAreLegal, NEW r \in Requests, NEW p \in Parties,
         Commit(r) \/ Fail(r)
  PROVE  Effect(p)
<1> DEFINE c == req[r]
<1> USE DEF partyVars, feeVars
<1>1. CASE CreateParty(r)
  <2>1. CASE p = c.party
    BY <1>1, <2>1 DEF CreateParty, TypeOK, Effect, Moved, FeeKept, JobsKept
  <2>2. CASE p # c.party
    BY <1>1, <2>2 DEF CreateParty, TypeOK, Effect, Untouched, FeeKept, JobsKept
  <2> QED
    BY <2>1, <2>2
<1>2. CASE ReservePermit(r)
  <2>1. /\ c.party \in Parties
        /\ state'[c.party] = "permit_reserved"
        /\ <<state[c.party], "permit_reserved">> \in PartyTransitions
        /\ \A q \in Parties \ {c.party} : state'[q] = state[q]
    BY <1>2, CommitMovesOne DEF ReservePermit, Serving
  <2>2. /\ window' = [window EXCEPT ![c.party] = WindowOf[c.party]]
        /\ fee[c.party] = "none"
        /\ fee' = [fee EXCEPT ![c.party] = "pending"]
        /\ fversion' = [fversion EXCEPT ![c.party] = 1]
        /\ Enqueue("notify_dispatch", c.party)
    BY <1>2 DEF ReservePermit
  <2>3. /\ jobs'["notify_dispatch"][c.party] = jobs["notify_dispatch"][c.party] + 1
        /\ jobs'["settle_party"][c.party] = jobs["settle_party"][c.party]
        /\ \A q \in Parties \ {c.party} : JobsKept(q)
    BY <2>1, <2>2, EnqueueCounts DEF JobKinds
  <2>4. WindowOf[c.party] # NoWindow
    BY <2>1, PartiesAssumption, WindowsAssumption
  <2>5. CASE p = c.party
    BY <2>1, <2>2, <2>3, <2>4, <2>5 DEF TypeOK, Effect, Reserved, PartyTransitions
  <2>6. CASE p # c.party
    BY <2>1, <2>2, <2>3, <2>6 DEF TypeOK, Effect, Untouched, FeeKept
  <2> QED
    BY <2>5, <2>6
<1>3. CASE Advance(r)
  <2>1. c.op \in {"approve", "dispatch"} /\ c.op \in Moves /\ c.op # "reserve"
    BY <1>3 DEF Advance, Moves
  <2>2. /\ c.party \in Parties
        /\ state'[c.party] = Target(c.op)
        /\ <<state[c.party], Target(c.op)>> \in PartyTransitions
        /\ \A q \in Parties \ {c.party} : state'[q] = state[q]
    BY <1>3, <2>1, CommitMovesOne DEF Advance
  <2>3. UNCHANGED <<window, fee, fversion, jobs>>
    BY <1>3 DEF Advance
  <2>4. CASE p = c.party
    BY <2>1, <2>2, <2>3, <2>4
    DEF Effect, Moved, FeeKept, JobsKept, Target, PartyTransitions
  <2>5. CASE p # c.party
    BY <2>2, <2>3, <2>5 DEF Effect, Untouched, FeeKept, JobsKept
  <2> QED
    BY <2>4, <2>5
<1>4. CASE CompleteParty(r)
  <2>1. c.op = "complete" /\ c.op \in Moves /\ Target(c.op) = "completed"
    BY <1>4 DEF CompleteParty, Serving, Moves, Target
  <2>2. /\ c.party \in Parties
        /\ state'[c.party] = "completed"
        /\ <<state[c.party], "completed">> \in PartyTransitions
        /\ \A q \in Parties \ {c.party} : state'[q] = state[q]
    BY <1>4, <2>1, CommitMovesOne DEF CompleteParty
  <2>3. UNCHANGED <<window, fee, fversion>> /\ Enqueue("settle_party", c.party)
    BY <1>4 DEF CompleteParty
  <2>4. /\ jobs'["settle_party"][c.party] = jobs["settle_party"][c.party] + 1
        /\ jobs'["notify_dispatch"][c.party] = jobs["notify_dispatch"][c.party]
        /\ \A q \in Parties \ {c.party} : JobsKept(q)
    BY <2>2, <2>3, EnqueueCounts DEF JobKinds
  <2>5. CASE p = c.party
    BY <2>2, <2>3, <2>4, <2>5 DEF Effect, Completed, FeeKept, PartyTransitions
  <2>6. CASE p # c.party
    BY <2>2, <2>3, <2>4, <2>6 DEF Effect, Untouched, FeeKept
  <2> QED
    BY <2>5, <2>6
<1>5. CASE WithdrawParty(r)
  <2>1. c.op \in {"cancel", "abort"} /\ c.op \in Moves /\ c.op # "reserve"
    BY <1>5 DEF WithdrawParty, Moves
  <2>2. /\ c.party \in Parties
        /\ state'[c.party] = Target(c.op)
        /\ <<state[c.party], Target(c.op)>> \in PartyTransitions
        /\ \A q \in Parties \ {c.party} : state'[q] = state[q]
    BY <1>5, <2>1, CommitMovesOne DEF WithdrawParty
  <2>3. UNCHANGED <<window, jobs>> /\ WaiveSettlement(c.party)
    BY <1>5 DEF WithdrawParty
  <2>4. /\ \A q \in Parties \ {c.party} : FeeKept(q)
        /\ IF fee[c.party] = "pending"
             THEN fee'[c.party] = "waived" /\ fversion'[c.party] = fversion[c.party] + 1
             ELSE FeeKept(c.party)
    BY <2>2, <2>3 DEF WaiveSettlement, FeeKept, TypeOK
  <2>5. state[c.party] \in {"draft", "permit_reserved", "confirmed", "on_trail"}
    BY <2>2 DEF PartyTransitions
  <2>6. Target(c.op) \in {"cancelled", "aborted"}
    BY <2>1 DEF Target
  <2>7. CASE p = c.party
    BY <2>2, <2>3, <2>4, <2>5, <2>6, <2>7 DEF Effect, Withdrawn, JobsKept
  <2>8. CASE p # c.party
    BY <2>2, <2>3, <2>4, <2>8 DEF Effect, Untouched, JobsKept
  <2> QED
    BY <2>7, <2>8
<1>6. CASE UpdateFee(r)
  <2>1. c.op \in FeeMoves /\ c.party \in Parties
    BY <1>6, CallFacts DEF UpdateFee, FeeMoves
  <2>2. /\ fversion[c.party] = c.version
        /\ fee' = [fee EXCEPT ![c.party] = FeeTarget(c.op)]
        /\ fversion' = [fversion EXCEPT ![c.party] = @ + 1]
        /\ UNCHANGED <<state, window, jobs>>
    BY <1>6 DEF UpdateFee, ApplySettlement
  <2>3. /\ <<fee[c.party], FeeTarget(c.op)>> \in FeeTransitions
        /\ c.op \in {"settle", "fail"} => state[c.party] = "completed"
    BY <2>1, <2>2 DEF FeeCallsAreLegal, FeeCallIsLegal
  <2>4. FeeTarget(c.op) \in {"settled", "failed"} => c.op \in {"settle", "fail"}
    BY <2>1 DEF FeeTarget, FeeMoves
  <2>5. CASE p = c.party
    <3>1. fee'[p] = FeeTarget(c.op) /\ fversion'[p] = fversion[p] + 1
      BY <2>1, <2>2, <2>5 DEF TypeOK
    <3> QED
      BY <2>2, <2>3, <2>4, <2>5, <3>1 DEF Effect, FeeMoved, JobsKept
  <2>6. CASE p # c.party
    BY <2>2, <2>6 DEF TypeOK, Effect, Untouched, FeeKept, JobsKept
  <2> QED
    BY <2>5, <2>6
<1>7. CASE \/ \E signed \in BOOLEAN : RegisterOneMember(r, signed)
           \/ EnsureWindow(r) \/ ReadWindow(r) \/ ReportCheckpoint(r) \/ Fail(r)
  BY <1>7 DEF RegisterOneMember, EnsureWindow, ReadWindow, ReportCheckpoint, Fail,
              DatabaseUnchanged, Effect, Untouched, FeeKept, JobsKept
<1> QED
  BY <1>1, <1>2, <1>3, <1>4, <1>5, <1>6, <1>7 DEF Commit

\* Every step.
LEMMA StepEffect ==
  ASSUME TypeOK, CallInvariant, FeeCallsAreLegal, [Next]_vars, NEW p \in Parties
  PROVE  Effect(p)
<1> USE DEF partyVars, feeVars
<1>1. CASE \E r \in Requests, q \in Parties : Begin(r, q)
  <2>1. DatabaseUnchanged
    BY <1>1, BeginTouchesNothing
  <2> QED
    BY <2>1 DEF DatabaseUnchanged, Effect, Untouched, FeeKept, JobsKept
<1>2. CASE World
  BY <1>2 DEF World, OpenWindow, CloseWindow, SetTrailStatus, PassDeadline, ExpireKey,
              Effect, Untouched, FeeKept, JobsKept
<1>3. CASE UNCHANGED vars
  BY <1>3 DEF vars, Effect, Untouched, FeeKept, JobsKept
<1> QED
  BY <1>1, <1>2, <1>3, CommitEffect DEF Next

-----------------------------------------------------------------------------
(* The effects keep the invariant.                                         *)

\* One effect keeps what the rows of one party say.
LEMMA EffectKeepsParty ==
  ASSUME TypeOK, PartyEffects, \A p \in Parties : Effect(p)
  PROVE  PartyEffects'
<1> SUFFICES ASSUME NEW p \in Parties
             PROVE  /\ fee'[p] # "none" <=> window'[p] # NoWindow
                    /\ jobs'["notify_dispatch"][p] = IF window'[p] = NoWindow THEN 0 ELSE 1
                    /\ jobs'["settle_party"][p] = IF state'[p] = "completed" THEN 1 ELSE 0
                    /\ fee'[p] \in {"settled", "failed"} => state'[p] = "completed"
                    /\ state'[p] \in {"cancelled", "aborted"} => fee'[p] \in {"none", "waived"}
  BY DEF PartyEffects, EffectsExactlyOnce, ChargedOnlyCompleted, WithdrawnPartyOwesNothing
<1>1. /\ fee[p] # "none" <=> window[p] # NoWindow
      /\ jobs["notify_dispatch"][p] = IF window[p] = NoWindow THEN 0 ELSE 1
      /\ jobs["settle_party"][p] = IF state[p] = "completed" THEN 1 ELSE 0
      /\ fee[p] \in {"settled", "failed"} => state[p] = "completed"
      /\ state[p] \in {"cancelled", "aborted"} => fee[p] \in {"none", "waived"}
  BY DEF PartyEffects, EffectsExactlyOnce, ChargedOnlyCompleted, WithdrawnPartyOwesNothing
<1>2. Effect(p) /\ fee[p] \in FeeStates
  BY DEF TypeOK
<1>3. CASE Untouched(p)
  BY <1>1, <1>3 DEF Untouched, FeeKept, JobsKept, JobKinds
<1>4. CASE Moved(p)
  BY <1>1, <1>4 DEF Moved, FeeKept, JobsKept, JobKinds
<1>5. CASE Reserved(p)
  BY <1>1, <1>5 DEF Reserved
<1>6. CASE Completed(p)
  BY <1>1, <1>6 DEF Completed, FeeKept
<1>7. CASE Withdrawn(p)
  BY <1>1, <1>2, <1>7 DEF Withdrawn, FeeKept, JobsKept, JobKinds, FeeStates
<1>8. CASE FeeMoved(p)
  BY <1>1, <1>8 DEF FeeMoved, JobsKept, JobKinds, FeeTransitions
<1> QED
  BY <1>2, <1>3, <1>4, <1>5, <1>6, <1>7, <1>8 DEF Effect

\* A call on a fee in flight stays legal, whatever happens to its party.
LEMMA EffectKeepsFeeCall ==
  ASSUME TypeOK, NEW c \in Calls, FeeCallIsLegal(c), Effect(c.party)
  PROVE  /\ fee'[c.party] # "none"
         /\ c.version <= fversion'[c.party]
         /\ c.version = fversion'[c.party] => c.state = fee'[c.party]
         /\ <<c.state, FeeTarget(c.op)>> \in FeeTransitions
         /\ c.op \in {"settle", "fail"} => state'[c.party] = "completed"
<1> DEFINE p == c.party
<1>1. c.version \in Nat /\ fversion[p] \in Nat
  BY DEF Calls, TypeOK
<1> USE <1>1 DEF FeeCallIsLegal
<1>2. CASE Untouched(p)
  BY <1>2 DEF Untouched, FeeKept
<1>3. CASE Moved(p)
  BY <1>3 DEF Moved, FeeKept
<1>4. CASE Reserved(p)
  BY <1>4 DEF Reserved
<1>5. CASE Completed(p)
  BY <1>5 DEF Completed, FeeKept
<1>6. CASE Withdrawn(p)
  BY <1>6 DEF Withdrawn, FeeKept
<1>7. CASE FeeMoved(p)
  BY <1>7 DEF FeeMoved, FeeTransitions
<1> QED
  BY <1>2, <1>3, <1>4, <1>5, <1>6, <1>7 DEF Effect

\* The calls of a step: each goes on, ends, or begins on a fee that may move.
LEMMA StepCalls ==
  ASSUME TypeOK, PartyEffects, [Next]_vars, NEW q \in Requests
  PROVE  \/ req'[q] = req[q]
         \/ req'[q].op \notin FeeMoves
         \/ FeeCallIsLegal(req'[q]) /\ req'[q] \in Calls
<1> USE DEF FeeMoves
<1>1. CASE \E r \in Requests : Commit(r) \/ Fail(r)
  <2>1. PICK r \in Requests : Commit(r) \/ Fail(r)
    BY <1>1
  <2>2. \/ Return(r)
        \/ req' = req
        \/ req' = [req EXCEPT ![r].op = "reserve",
                              ![r].wversion = wversion[WindowOf[req[r].party]]]
    BY <2>1 DEF Commit, CreateParty, RegisterOneMember, EnsureWindow, ReadWindow,
       ReservePermit, Advance, CompleteParty, WithdrawParty, ReportCheckpoint, UpdateFee,
       Fail
  <2>3. CASE Return(r)
    BY <2>3 DEF Return, TypeOK, Idle
  <2>4. CASE req' = req
    BY <2>4
  <2>5. CASE req' = [req EXCEPT ![r].op = "reserve",
                               ![r].wversion = wversion[WindowOf[req[r].party]]]
    <3>1. req[r] \in Calls \cup {Idle}
      BY DEF TypeOK
    <3>2. q = r => req'[q].op = "reserve"
      BY <2>5, <3>1 DEF TypeOK, Calls, Idle
    <3> QED
      BY <2>5, <3>2 DEF TypeOK
  <2> QED
    BY <2>2, <2>3, <2>4, <2>5
<1>2. CASE \E r \in Requests, p \in Parties : Begin(r, p)
  <2>1. PICK r \in Requests, p \in Parties : Begin(r, p)
    BY <1>2
  <2>2. CASE \E op \in FeeMoves : BeginFeeMove(r, op, p)
    <3>1. PICK op \in FeeMoves : BeginFeeMove(r, op, p)
      BY <2>2
    <3> DEFINE c == [Idle EXCEPT !.op = op, !.party = p, !.state = fee[p],
                                 !.version = fversion[p]]
    <3>2. /\ c.op = op /\ c.party = p /\ c.state = fee[p] /\ c.version = fversion[p]
          /\ c \in Calls
      BY InputsAssumption DEF TypeOK, Calls, Ops, Idle
    <3>3. req' = [req EXCEPT ![r] = c]
      BY <3>1 DEF BeginFeeMove, Start
    <3>4. /\ <<fee[p], FeeTarget(op)>> \in FeeTransitions
          /\ op \in {"settle", "fail"} => jobs["settle_party"][p] > 0
      BY <3>1 DEF BeginFeeMove
    <3>5. fee[p] # "none"
      BY <3>4 DEF FeeTransitions
    <3>6. op \in {"settle", "fail"} => state[p] = "completed"
      BY <3>4 DEF PartyEffects, EffectsExactlyOnce
    <3>7. fversion[p] <= fversion[p]
      BY DEF TypeOK
    <3> HIDE DEF c
    <3>8. FeeCallIsLegal(c)
      BY <3>2, <3>4, <3>5, <3>6, <3>7 DEF FeeCallIsLegal
    <3> QED
      BY <3>2, <3>3, <3>8 DEF TypeOK
  <2>3. CASE ~(\E op \in FeeMoves : BeginFeeMove(r, op, p))
    <3>1. \E op \in Ops \ FeeMoves : \E k, n :
            \/ req' = [req EXCEPT ![r] = Snapshot(op, p)]
            \/ req' = [req EXCEPT ![r] = [Snapshot(op, p) EXCEPT !.key = k, !.passed = (k \in expired)]]
            \/ req' = [req EXCEPT ![r] = [Snapshot(op, p) EXCEPT !.seq = n]]
      BY <2>1, <2>3 DEF Begin, BeginCreateParty, BeginRegisterMembers, BeginRequestPermit,
         BeginMove, BeginReport, Start, Ops, Moves
    <3>2. PICK op \in Ops \ FeeMoves : \E k, n :
            \/ req' = [req EXCEPT ![r] = Snapshot(op, p)]
            \/ req' = [req EXCEPT ![r] = [Snapshot(op, p) EXCEPT !.key = k, !.passed = (k \in expired)]]
            \/ req' = [req EXCEPT ![r] = [Snapshot(op, p) EXCEPT !.seq = n]]
      BY <3>1
    <3>3. PICK k, n :
            \/ req' = [req EXCEPT ![r] = Snapshot(op, p)]
            \/ req' = [req EXCEPT ![r] = [Snapshot(op, p) EXCEPT !.key = k, !.passed = (k \in expired)]]
            \/ req' = [req EXCEPT ![r] = [Snapshot(op, p) EXCEPT !.seq = n]]
      BY <3>2
    <3>4. /\ Snapshot(op, p).op = op
          /\ [Snapshot(op, p) EXCEPT !.key = k, !.passed = (k \in expired)].op = op
          /\ [Snapshot(op, p) EXCEPT !.seq = n].op = op
      BY SnapshotFields DEF SnapshotOf
    <3>5. q # r => req'[q] = req[q]
      BY <3>3 DEF TypeOK
    <3>6. q = r => req'[q].op = op
      BY <3>3, <3>4 DEF TypeOK
    <3> QED
      BY <3>5, <3>6
  <2> QED
    BY <2>2, <2>3
<1>3. CASE World
  BY <1>3 DEF World, OpenWindow, CloseWindow, SetTrailStatus, PassDeadline, ExpireKey
<1>4. CASE UNCHANGED vars
  BY <1>4 DEF vars
<1> QED
  BY <1>1, <1>2, <1>3, <1>4 DEF Next

\* So the calls on fees stay legal: a fresh one begins without touching a row.
LEMMA StepKeepsFeeCalls ==
  ASSUME TypeOK, PartyEffects, FeeCallsAreLegal, CallInvariant, [Next]_vars
  PROVE  FeeCallsAreLegal'
<1> SUFFICES ASSUME NEW q \in Requests, req'[q].op \in FeeMoves
             PROVE  FeeCallIsLegal(req[q])'
  BY DEF FeeCallsAreLegal
<1>1. CASE req'[q] = req[q]
  <2>1. req[q] \in Calls /\ req[q].party \in Parties
    BY <1>1, CallFacts DEF FeeMoves
  <2>2. FeeCallIsLegal(req[q]) /\ Effect(req[q].party)
    BY <1>1, <2>1, StepEffect DEF FeeCallsAreLegal
  <2> QED
    BY <1>1, <2>1, <2>2, EffectKeepsFeeCall DEF FeeCallIsLegal
<1>2. CASE req'[q] # req[q]
  <2>1. FeeCallIsLegal(req'[q]) /\ req'[q] \in Calls
    BY <1>2, StepCalls
  <2>2. Effect(req'[q].party)
    BY <2>1, StepEffect DEF Calls
  <2> QED
    BY <2>1, <2>2, EffectKeepsFeeCall DEF FeeCallIsLegal
<1> QED
  BY <1>1, <1>2

-----------------------------------------------------------------------------
(* Theorems.                                                               *)

\* The rows of a party, its fee and its jobs, and the calls on its fee, fit together in
\* every behaviour.
THEOREM EffectInvariantHolds == Spec => []EffectInvariant
<1>1. Init => EffectInvariant
  BY DEF Init, EffectInvariant, PartyEffects, EffectsExactlyOnce, ChargedOnlyCompleted,
         WithdrawnPartyOwesNothing, FeeCallsAreLegal, Idle, FeeMoves, JobKinds
<1>2. TypeOK /\ SeatInvariant /\ EffectInvariant /\ [Next]_vars => EffectInvariant'
  BY StepEffect, EffectKeepsParty, StepKeepsFeeCalls
  DEF EffectInvariant, SeatInvariant, CallInvariant
<1> QED
  BY <1>1, <1>2, TypeCorrect, SeatInvariantHolds, PTL DEF Spec

\* One fee, one notification and one settlement job for what a party did, however
\* calls race, repeat or roll back (RequestPermit, CompleteParty).
THEOREM EffectsHappenOnce == Spec => []EffectsExactlyOnce
BY EffectInvariantHolds, PTL DEF EffectInvariant, PartyEffects

\* A party that was cancelled or aborted owes nothing (CancelParty, AbortParty,
\* waiveSettlement, SettleForParty, MarkFailed).
THEOREM WithdrawnOwesNothing == Spec => []WithdrawnPartyOwesNothing
BY EffectInvariantHolds, PTL DEF EffectInvariant, PartyEffects

\* A charged or waived fee is final: the version keeps a worker that read it as pending
\* from charging it (SettlementRepo.Apply).
THEOREM SettledFeesAreFinal == Spec => SettledFeeIsFinal
<1>1. ASSUME TypeOK, CallInvariant, EffectInvariant, [Next]_vars, NEW p \in Parties,
             fee[p] \in {"settled", "waived"}
      PROVE  fee'[p] = fee[p]
  BY <1>1, StepEffect DEF EffectInvariant, Effect, Untouched, Moved, Reserved, Completed,
     Withdrawn, FeeMoved, FeeKept, FeeTransitions
<1>2. TypeOK /\ SeatInvariant /\ EffectInvariant /\ [Next]_vars =>
        [\A p \in Parties : fee[p] \in {"settled", "waived"} => fee'[p] = fee[p]]_fee
  BY <1>1 DEF SeatInvariant, CallInvariant
<1> QED
  BY <1>2, TypeCorrect, SeatInvariantHolds, EffectInvariantHolds, PTL
  DEF Spec, SettledFeeIsFinal

-----------------------------------------------------------------------------
(* Readiness and keys.                                                     *)

\* A call that may reserve concerns a party that exists, and one about to reserve a party
\* that was found ready.
ReserveCallIsReady(c) ==
  /\ c.op \in {"request_permit", "reserve"} => state[c.party] # "absent"
  /\ c.op = "reserve" => /\ members[c.party] = Size[c.party]
                         /\ unsigned[c.party] = 0

ReserveCallsAreReady == \A r \in Requests : ReserveCallIsReady(req[r])

ReadyInvariant == ReservedPartyIsReady /\ ReserveCallsAreReady

\* A ready party stays ready: no item of a batch still on its way fits.
LEMMA ReadyStays ==
  ASSUME TypeOK, [Next]_vars, NEW p \in Parties, Ready(p), state[p] # "absent"
  PROVE  Ready(p)'
<1> USE DEF Ready, memberVars
<1>1. CASE \E r \in Requests : CreateParty(r)
  <2>1. PICK r \in Requests : CreateParty(r)
    BY <1>1
  <2>2. req[r].party # p /\ req[r].party \in Parties
    BY <2>1, CallFacts DEF CreateParty, Serving
  <2> QED
    BY <2>1, <2>2 DEF CreateParty, TypeOK
<1>2. CASE \E r \in Requests, signed \in BOOLEAN : RegisterOneMember(r, signed)
  <2>1. PICK r \in Requests, signed \in BOOLEAN : RegisterOneMember(r, signed)
    BY <1>2
  <2>2. req[r].party # p
    BY <2>1, PartiesAssumption DEF RegisterOneMember, TypeOK
  <2> QED
    BY <2>1, <2>2 DEF RegisterOneMember, TypeOK
<1>3. CASE \E r \in Requests, q \in Parties : Begin(r, q)
  BY <1>3, BeginTouchesNothing DEF DatabaseUnchanged
<1>4. CASE \E r \in Requests :
             \/ EnsureWindow(r) \/ ReadWindow(r) \/ ReservePermit(r) \/ Advance(r)
             \/ CompleteParty(r) \/ WithdrawParty(r) \/ ReportCheckpoint(r)
             \/ UpdateFee(r) \/ Fail(r)
  BY <1>4 DEF EnsureWindow, ReadWindow, ReservePermit, Advance, CompleteParty,
              WithdrawParty, ReportCheckpoint, UpdateFee, Fail, DatabaseUnchanged
<1>5. CASE World
  BY <1>5 DEF World, OpenWindow, CloseWindow, SetTrailStatus, PassDeadline, ExpireKey
<1>6. CASE UNCHANGED vars
  BY <1>6 DEF vars
<1> QED
  BY <1>1, <1>2, <1>3, <1>4, <1>5, <1>6 DEF Next, Commit

\* A party that exists goes on existing.
LEMMA ExistenceStays ==
  ASSUME TypeOK, NEW p \in Parties, Effect(p), state[p] # "absent"
  PROVE  state'[p] # "absent"
BY DEF Effect, Untouched, Moved, Reserved, Completed, Withdrawn, FeeMoved

\* A window is written by a reservation only, and is one; the key is remembered with it.
LEMMA StepReserves ==
  ASSUME TypeOK, [Next]_vars
  PROVE  \/ UNCHANGED <<window, keys>>
         \/ \E r \in Requests :
              /\ req[r].op = "reserve"
              /\ window' = [window EXCEPT ![req[r].party] = WindowOf[req[r].party]]
              /\ Remember(req[r].key, req[r].party)
<1> USE DEF partyVars, keyVars
<1>1. CASE \E r \in Requests : ReservePermit(r)
  BY <1>1 DEF ReservePermit, Serving
<1>2. CASE \E r \in Requests, q \in Parties : Begin(r, q)
  BY <1>2, BeginTouchesNothing DEF DatabaseUnchanged
<1>3. CASE \E r \in Requests :
             \/ CreateParty(r) \/ (\E signed \in BOOLEAN : RegisterOneMember(r, signed))
             \/ EnsureWindow(r) \/ ReadWindow(r) \/ Advance(r)
             \/ CompleteParty(r) \/ WithdrawParty(r) \/ ReportCheckpoint(r)
             \/ UpdateFee(r) \/ Fail(r)
  BY <1>3 DEF CreateParty, RegisterOneMember, EnsureWindow, ReadWindow, Advance,
              CompleteParty, WithdrawParty, ReportCheckpoint, UpdateFee, Fail,
              DatabaseUnchanged
<1>4. CASE World
  BY <1>4 DEF World, OpenWindow, CloseWindow, SetTrailStatus, PassDeadline, ExpireKey
<1>5. CASE UNCHANGED vars
  BY <1>5 DEF vars
<1> QED
  BY <1>1, <1>2, <1>3, <1>4, <1>5 DEF Next, Commit

\* A call that comes to reserve in a step, or to request, was allowed to.
LEMMA StepKeepsReserveCalls ==
  ASSUME TypeOK, [Next]_vars, ReserveCallsAreReady, \A p \in Parties : Effect(p)
  PROVE  ReserveCallsAreReady'
<1> SUFFICES ASSUME NEW q \in Requests
             PROVE  ReserveCallIsReady(req[q])'
  BY DEF ReserveCallsAreReady
<1> USE DEF ReserveCallIsReady
<1>1. CASE req'[q] = req[q]
  <2>1. CASE req[q].op \in {"request_permit", "reserve"}
    <3>1. PICK p \in Parties : p = req[q].party
      BY <2>1, CallFacts
    <3>2. state[p] # "absent" /\ state'[p] # "absent"
      BY <2>1, <3>1, ExistenceStays DEF ReserveCallsAreReady
    <3>3. Ready(p) => Ready(p)'
      BY <3>2, ReadyStays
    <3> QED
      BY <1>1, <2>1, <3>1, <3>2, <3>3 DEF ReserveCallsAreReady, Ready
  <2>2. CASE req[q].op \notin {"request_permit", "reserve"}
    BY <1>1, <2>2
  <2> QED
    BY <2>1, <2>2
<1>2. CASE req'[q] # req[q]
  <2>1. CASE \E r \in Requests : ReadWindow(r)
    <3>1. PICK r \in Requests : ReadWindow(r)
      BY <2>1
    <3>2. /\ req' = [req EXCEPT ![r].op = "reserve",
                                ![r].wversion = wversion[WindowOf[req[r].party]]]
          /\ req[r].op = "request_permit"
          /\ Ready(req[r].party)
          /\ UNCHANGED <<state, memberVars>>
      BY <3>1 DEF ReadWindow, MayApply, Serving, DatabaseUnchanged, partyVars
    <3>3. req[r] \in Calls
      BY <3>2, CallFacts
    <3>4. q = r /\ req'[q].party = req[r].party
      BY <1>2, <3>2, <3>3 DEF TypeOK, Calls
    <3> QED
      BY <3>2, <3>4 DEF ReserveCallsAreReady, Ready, memberVars
  <2>2. CASE \E r \in Requests, p \in Parties : Begin(r, p)
    <3>1. PICK r \in Requests, p \in Parties : Begin(r, p)
      BY <2>2
    <3>2. DatabaseUnchanged
      BY <3>1, BeginTouchesNothing
    <3>3. CASE \E k \in KeysOf[p] \cup {NoKey} : BeginRequestPermit(r, p, k)
      <4>1. PICK k : BeginRequestPermit(r, p, k)
        BY <3>3
      <4> DEFINE c == [Snapshot("request_permit", p) EXCEPT !.key = k, !.passed = (k \in expired)]
      <4>2. req' = [req EXCEPT ![r] = c] /\ state[p] # "absent"
        BY <4>1 DEF BeginRequestPermit, Start, PartyTransitions
      <4>3. c.op = "request_permit" /\ c.party = p
        BY SnapshotFields DEF SnapshotOf
      <4> HIDE DEF c
      <4>4. req'[q] = c
        BY <1>2, <4>2 DEF TypeOK
      <4> QED
        BY <3>2, <4>2, <4>3, <4>4 DEF DatabaseUnchanged, partyVars
    <3>4. CASE BeginCreateParty(r, p)
      BY <1>2, <3>4, SnapshotFields DEF BeginCreateParty, Start, SnapshotOf, TypeOK
    <3>5. CASE BeginRegisterMembers(r, p)
      BY <1>2, <3>5, SnapshotFields DEF BeginRegisterMembers, Start, SnapshotOf, TypeOK
    <3>6. CASE \E op \in Moves : BeginMove(r, op, p)
      <4>1. PICK op \in Moves : BeginMove(r, op, p)
        BY <3>6
      <4>2. req'[q] = Snapshot(op, p)
        BY <1>2, <4>1 DEF BeginMove, Start, TypeOK
      <4> QED
        BY <4>2, SnapshotFields DEF SnapshotOf, Moves
    <3>7. CASE \E seq \in Checkpoints : BeginReport(r, p, seq)
      <4>1. PICK seq \in Checkpoints : BeginReport(r, p, seq)
        BY <3>7
      <4> DEFINE c == [Snapshot("report", p) EXCEPT !.seq = seq]
      <4>2. req'[q] = c
        BY <1>2, <4>1 DEF BeginReport, Start, TypeOK
      <4>3. c.op = "report"
        BY SnapshotFields DEF SnapshotOf
      <4> QED
        BY <4>2, <4>3
    <3>8. CASE \E op \in FeeMoves : BeginFeeMove(r, op, p)
      <4>1. PICK op \in FeeMoves : BeginFeeMove(r, op, p)
        BY <3>8
      <4> DEFINE c == [Idle EXCEPT !.op = op, !.party = p, !.state = fee[p],
                                   !.version = fversion[p]]
      <4>2. req'[q] = c
        BY <1>2, <4>1 DEF BeginFeeMove, Start, TypeOK
      <4>3. c.op = op
        BY DEF Idle
      <4> QED
        BY <4>2, <4>3 DEF FeeMoves
    <3> QED
      BY <3>1, <3>3, <3>4, <3>5, <3>6, <3>7, <3>8 DEF Begin
  <2>3. CASE \E r \in Requests :
               \/ Fail(r) \/ CreateParty(r) \/ ReservePermit(r) \/ Advance(r)
               \/ CompleteParty(r) \/ WithdrawParty(r) \/ ReportCheckpoint(r) \/ UpdateFee(r)
    <3>1. \E r \in Requests : Return(r)
      BY <2>3 DEF Fail, CreateParty, ReservePermit, Advance, CompleteParty, WithdrawParty,
                  ReportCheckpoint, UpdateFee
    <3> QED
      BY <1>2, <3>1 DEF Return, TypeOK, Idle
  <2>4. CASE \/ World \/ UNCHANGED vars
             \/ \E r \in Requests :
                  EnsureWindow(r) \/ \E signed \in BOOLEAN : RegisterOneMember(r, signed)
    BY <1>2, <2>4 DEF World, OpenWindow, CloseWindow, SetTrailStatus, PassDeadline,
       ExpireKey, EnsureWindow, RegisterOneMember, vars
  <2> QED
    BY <2>1, <2>2, <2>3, <2>4 DEF Next, Commit
<1> QED
  BY <1>1, <1>2

\* A party that ever reserved seats has its planned members, all with a signed waiver,
\* although neither is checked in the reserving transaction (RegisterMembers,
\* EvaluateReadiness, RequestPermit).
THEOREM ReservedPartiesAreReady == Spec => []ReservedPartyIsReady
<1>1. Init => ReadyInvariant
  BY DEF Init, ReadyInvariant, ReservedPartyIsReady, ReserveCallsAreReady,
         ReserveCallIsReady, Idle
<1>2. ASSUME TypeOK, SeatInvariant, EffectInvariant, ReadyInvariant, [Next]_vars
      PROVE  ReadyInvariant'
  <2>1. \A p \in Parties : Effect(p)
    BY <1>2, StepEffect DEF SeatInvariant, CallInvariant, EffectInvariant
  <2>2. ReserveCallsAreReady'
    BY <1>2, <2>1, StepKeepsReserveCalls DEF ReadyInvariant
  <2>3. ASSUME NEW p \in Parties, window'[p] # NoWindow
        PROVE  Ready(p)'
    <3>1. CASE window[p] # NoWindow
      BY <1>2, <3>1, ReadyStays DEF ReadyInvariant, ReservedPartyIsReady, SeatInvariant,
         PermitOfOwnDay
    <3>2. CASE window[p] = NoWindow
      <4>1. PICK r \in Requests :
               /\ req[r].op = "reserve"
               /\ window' = [window EXCEPT ![req[r].party] = WindowOf[req[r].party]]
        BY <1>2, <2>3, <3>2, StepReserves
      <4>2. req[r].party = p
        BY <1>2, <2>3, <3>2, <4>1 DEF TypeOK
      <4> QED
        BY <1>2, <4>1, <4>2, ReadyStays
           DEF ReadyInvariant, ReserveCallsAreReady, ReserveCallIsReady, Ready
    <3> QED
      BY <3>1, <3>2
  <2> QED
    BY <2>2, <2>3 DEF ReadyInvariant, ReservedPartyIsReady
<1>3. ReadyInvariant => ReservedPartyIsReady
  BY DEF ReadyInvariant
<1> QED
  BY <1>1, <1>2, <1>3, TypeCorrect, SeatInvariantHolds, EffectInvariantHolds, PTL DEF Spec

\* A recorded key stands for a reservation that took place: it commits with the
\* reservation and the window is never unset (idempotency Remember in RequestPermit).
THEOREM KeysStandForReservations == Spec => []KeyStandsForReservation
<1>1. Init => KeyStandsForReservation
  BY DEF Init, KeyStandsForReservation
<1>2. ASSUME TypeOK, KeyStandsForReservation, [Next]_vars
      PROVE  KeyStandsForReservation'
  <2>1. CASE UNCHANGED <<window, keys>>
    BY <1>2, <2>1 DEF KeyStandsForReservation
  <2>2. CASE ~UNCHANGED <<window, keys>>
    <3>1. PICK r \in Requests :
             /\ req[r].op = "reserve"
             /\ window' = [window EXCEPT ![req[r].party] = WindowOf[req[r].party]]
             /\ Remember(req[r].key, req[r].party)
      BY <1>2, <2>2, StepReserves
    <3>2. /\ req[r].party \in Parties
          /\ WindowOf[req[r].party] # NoWindow
      BY <1>2, <3>1, CallFacts, WindowsAssumption
    <3>3. \A p \in Parties : window[p] # NoWindow => window'[p] # NoWindow
      BY <1>2, <3>1, <3>2 DEF TypeOK
    <3>4. window'[req[r].party] # NoWindow
      BY <1>2, <3>1, <3>2 DEF TypeOK
    <3>5. \A k \in Keys : keys'[k] = keys[k] \/ keys'[k] = req[r].party
      BY <1>2, <3>1 DEF Remember, keyVars, TypeOK
    <3> QED
      BY <1>2, <3>3, <3>4, <3>5 DEF KeyStandsForReservation, TypeOK
  <2> QED
    BY <2>1, <2>2
<1> QED
  BY <1>1, <1>2, TypeCorrect, PTL DEF Spec

=============================================================================
