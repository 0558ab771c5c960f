------------------------ MODULE PermitDispatchProofs ------------------------
(* Theorems of PermitDispatch for every value of its constants.            *)
EXTENDS PermitDispatch, FiniteSetTheorems, TLAPS

-----------------------------------------------------------------------------
(* Counting seats.                                                         *)

\* The seats of one party are as many as its size.
LEMMA PartySeats ==
  ASSUME NEW p \in Parties
  PROVE  /\ IsFiniteSet({p} \X (1..Size[p]))
         /\ Cardinality({p} \X (1..Size[p])) = Size[p]
<1>1. Size[p] \in Nat \ {0}
  BY PartiesAssumption
<1>2. IsFiniteSet(1..Size[p]) /\ Cardinality(1..Size[p]) = Size[p]
  <2>1. 1 \in Int /\ Size[p] \in Int /\ ~(1 > Size[p]) /\ Size[p] - 1 + 1 = Size[p]
    BY <1>1
  <2>2. /\ IsFiniteSet(1..Size[p])
        /\ Cardinality(1..Size[p]) = IF 1 > Size[p] THEN 0 ELSE Size[p] - 1 + 1
    BY <2>1, FS_Interval, Zenon
  <2> QED
    BY <2>1, <2>2
<1>3. IsFiniteSet({p}) /\ Cardinality({p}) = 1
  BY FS_Singleton
<1>4. /\ IsFiniteSet({p} \X (1..Size[p]))
      /\ Cardinality({p} \X (1..Size[p])) = Cardinality({p}) * Cardinality(1..Size[p])
  BY <1>2, <1>3, FS_Product
<1> QED
  BY <1>1, <1>2, <1>3, <1>4

\* The seats of a set of parties are finite in number.
LEMMA SeatsFinite ==
  ASSUME NEW S \in SUBSET Parties
  PROVE  IsFiniteSet(Seats(S)) /\ Cardinality(Seats(S)) \in Nat
<1> DEFINE T == {{p} \X (1..Size[p]) : p \in S}
<1> DEFINE f == [p \in S |-> {p} \X (1..Size[p])]
<1>1. IsFiniteSet(S)
  BY FS_Subset, PartiesAssumption
<1>2. f \in Surjection(S, T)
  BY DEF Surjection
<1>3. IsFiniteSet(T)
  <2> HIDE DEF T, f
  <2> QED BY <1>1, <1>2, FS_Surjection
<1>4. \A X \in T : IsFiniteSet(X)
  BY PartySeats
<1>5. IsFiniteSet(UNION T)
  <2> HIDE DEF T
  <2> QED BY <1>3, <1>4, FS_UNION
<1> QED
  BY <1>5, FS_CardinalityType DEF Seats

\* A party that joins a set brings its seats.
LEMMA SeatsOfJoined ==
  ASSUME NEW S \in SUBSET Parties, NEW p \in Parties, p \notin S
  PROVE  Cardinality(Seats(S \cup {p})) = Cardinality(Seats(S)) + Size[p]
<1> DEFINE new == {p} \X (1..Size[p])
<1>1. IsFiniteSet(Seats(S)) /\ Cardinality(Seats(S)) \in Nat
  BY SeatsFinite
<1>2. IsFiniteSet(new) /\ Cardinality(new) = Size[p]
  BY PartySeats
<1>3. Seats(S \cup {p}) = Seats(S) \cup new
  BY DEF Seats
<1>4. Seats(S) \cap new = {}
  BY DEF Seats
<1>5. Cardinality(Seats(S) \cap new) = 0
  BY <1>4, FS_EmptySet
<1>6. Size[p] \in Nat
  BY PartiesAssumption
<1>7. Cardinality(Seats(S) \cup new)
        = Cardinality(Seats(S)) + Cardinality(new) - Cardinality(Seats(S) \cap new)
  <2> HIDE DEF new
  <2> QED BY <1>1, <1>2, FS_Union
<1>8. Cardinality(Seats(S \cup {p})) = Cardinality(Seats(S) \cup new)
  BY <1>3
<1> HIDE DEF new
<1> QED
  BY <1>1, <1>2, <1>5, <1>6, <1>7, <1>8

\* A party that leaves a set takes its seats along.
LEMMA SeatsOfLeft ==
  ASSUME NEW S \in SUBSET Parties, NEW p \in S
  PROVE  /\ Cardinality(Seats(S \ {p})) = Cardinality(Seats(S)) - Size[p]
         /\ Size[p] <= Cardinality(Seats(S))
<1> DEFINE rest == S \ {p}
<1>1. S = rest \cup {p} /\ p \notin rest /\ rest \in SUBSET Parties /\ p \in Parties
  OBVIOUS
<1>2. Cardinality(Seats(rest)) \in Nat
  BY <1>1, SeatsFinite
<1>3. Cardinality(Seats(S)) = Cardinality(Seats(rest)) + Size[p]
  <2> HIDE DEF rest
  <2> QED BY <1>1, SeatsOfJoined
<1>4. Size[p] \in Nat
  BY PartiesAssumption
<1> QED
  BY <1>2, <1>3, <1>4

-----------------------------------------------------------------------------
(* Types.                                                                  *)

\* What a call reads is a call.
LEMMA SnapshotType ==
  ASSUME TypeOK, NEW p \in Parties, NEW op \in Ops
  PROVE  /\ Snapshot(op, p) \in Calls
         /\ \A k \in Keys \cup {NoKey} :
              [Snapshot(op, p) EXCEPT !.key = k, !.passed = (k \in expired)] \in Calls
         /\ \A n \in Nat : [Snapshot(op, p) EXCEPT !.seq = n] \in Calls
<1>1. TrailOf[WindowOf[p]] \in Trails
  BY PartiesAssumption, WindowsAssumption
<1>2. /\ Snapshot(op, p) \in Calls
      /\ \A k \in Keys \cup {NoKey}, b \in BOOLEAN :
           [Snapshot(op, p) EXCEPT !.key = k, !.passed = b] \in Calls
      /\ \A n \in Nat : [Snapshot(op, p) EXCEPT !.seq = n] \in Calls
  BY <1>1, InputsAssumption DEF TypeOK, Snapshot, Idle, Calls
<1>3. \A k : (k \in expired) \in BOOLEAN
  OBVIOUS
<1> QED
  BY <1>2, <1>3, Zenon

\* The start of a call changes nothing but the call.
LEMMA StartType ==
  ASSUME TypeOK, NEW r \in Requests, NEW c \in Calls, Start(r, c)
  PROVE  TypeOK'
BY DEF TypeOK, Start, DatabaseUnchanged, partyVars, memberVars, windowVars,
       feeVars, keyVars, worldVars

\* Every call that begins is well typed.
LEMMA BeginType ==
  ASSUME TypeOK, NEW r \in Requests, NEW p \in Parties, Begin(r, p)
  PROVE  TypeOK'
<1>1. CASE BeginCreateParty(r, p)
  BY <1>1, SnapshotType, StartType DEF BeginCreateParty, Ops
<1>2. CASE BeginRegisterMembers(r, p)
  BY <1>2, SnapshotType, StartType DEF BeginRegisterMembers, Ops
<1>3. CASE \E k \in KeysOf[p] \cup {NoKey} : BeginRequestPermit(r, p, k)
  <2>1. PICK k \in Keys \cup {NoKey} : BeginRequestPermit(r, p, k)
    BY <1>3, PartiesAssumption
  <2> QED
    BY <2>1, SnapshotType, StartType DEF BeginRequestPermit, Ops
<1>4. CASE \E op \in Moves : BeginMove(r, op, p)
  BY <1>4, SnapshotType, StartType DEF BeginMove, Ops
<1>5. CASE \E seq \in Checkpoints : BeginReport(r, p, seq)
  <2>1. PICK seq \in Nat : BeginReport(r, p, seq)
    BY <1>5, InputsAssumption
  <2> QED
    BY <2>1, SnapshotType, StartType DEF BeginReport, Ops
<1>6. CASE \E op \in FeeMoves : BeginFeeMove(r, op, p)
  <2>1. PICK op \in FeeMoves : BeginFeeMove(r, op, p)
    BY <1>6
  <2>2. [Idle EXCEPT !.op = op, !.party = p, !.state = fee[p],
                     !.version = fversion[p]] \in Calls
    BY InputsAssumption DEF TypeOK, Calls, Ops, Idle
  <2> QED
    BY <2>1, <2>2, StartType DEF BeginFeeMove
<1> QED
  BY <1>1, <1>2, <1>3, <1>4, <1>5, <1>6 DEF Begin

\* Giving seats back keeps the types of a window.
LEMMA ReleaseType ==
  ASSUME TypeOK, NEW c \in Calls, ReleasePermit(c)
  PROVE  /\ quota' \in [Windows -> Nat]
         /\ reserved' \in [Windows -> Nat]
         /\ wversion' \in [Windows -> Nat]
         /\ closed' \in [Windows -> BOOLEAN]
<1>1. CASE c.window # NoWindow /\ HoldsPermit(c.state)
  <2>1. c.window \in Windows /\ Size[c.party] \in Nat
    BY <1>1, PartiesAssumption DEF Calls
  <2>2. /\ reserved[c.window] >= Size[c.party]
        /\ reserved' = [reserved EXCEPT ![c.window] = @ - Size[c.party]]
        /\ wversion' = [wversion EXCEPT ![c.window] = @ + 1]
        /\ UNCHANGED <<quota, closed>>
    BY <1>1 DEF ReleasePermit, ReleaseSeats
  <2>3. reserved[c.window] - Size[c.party] \in Nat
    BY <2>1, <2>2 DEF TypeOK
  <2> QED
    BY <2>1, <2>2, <2>3 DEF TypeOK
<1>2. CASE ~(c.window # NoWindow /\ HoldsPermit(c.state))
  BY <1>2 DEF ReleasePermit, windowVars, TypeOK
<1> QED
  BY <1>1, <1>2

\* Every transaction, and the failure of a call, keeps the types.
LEMMA CommitType ==
  ASSUME TypeOK, NEW r \in Requests, Commit(r) \/ Fail(r)
  PROVE  TypeOK'
<1> DEFINE c == req[r]
<1> USE DEF TypeOK, Return, partyVars, memberVars, windowVars, feeVars, keyVars,
            worldVars
<1>1. c.op # "idle"
  BY DEF Commit, Fail, CreateParty, RegisterOneMember, EnsureWindow, ReadWindow,
         ReservePermit, Advance, CompleteParty, WithdrawParty, ReportCheckpoint,
         UpdateFee, MayApply, Serving, Moves, FeeMoves
<1>2. c \in Calls
  BY <1>1 DEF Idle
<1>3. /\ c.party \in Parties
      /\ WindowOf[c.party] \in Windows
      /\ Size[c.party] \in Nat
      /\ c.seq \in Nat
      /\ c.key \in Keys \cup {NoKey}
      /\ c.window \in Windows \cup {NoWindow}
  BY <1>2, PartiesAssumption DEF Calls
<1>4. CASE CreateParty(r)
  BY <1>3, <1>4 DEF CreateParty, PartyStates
<1>5. CASE \E signed \in BOOLEAN : RegisterOneMember(r, signed)
  <2>1. unsigned' \in [Parties -> Nat]
    BY <1>3, <1>5 DEF RegisterOneMember
  <2> QED
    BY <1>3, <1>5, <2>1 DEF RegisterOneMember
<1>6. CASE EnsureWindow(r)
  BY <1>3, <1>6, WindowsAssumption DEF EnsureWindow, CreateWindow
<1>7. CASE ReadWindow(r)
  <2>1. [c EXCEPT !.op = "reserve", !.wversion = wversion[WindowOf[c.party]]] \in Calls
    BY <1>2, <1>3 DEF Calls, Ops
  <2> QED
    BY <1>3, <1>7, <2>1 DEF ReadWindow, DatabaseUnchanged
<1>8. CASE ReservePermit(r)
  BY <1>3, <1>8 DEF ReservePermit, ReserveSeats, ApplyStateChange, Enqueue, Remember,
     PartyStates, FeeStates, JobKinds
<1>9. CASE Advance(r)
  BY <1>3, <1>9 DEF Advance, ApplyStateChange, Target, PartyStates
<1>10. CASE CompleteParty(r)
  <2>1. state' \in [Parties -> PartyStates] /\ version' \in [Parties -> Nat]
    BY <1>3, <1>10 DEF CompleteParty, ApplyStateChange, PartyStates
  <2>2. /\ quota' \in [Windows -> Nat]
        /\ reserved' \in [Windows -> Nat]
        /\ wversion' \in [Windows -> Nat]
        /\ closed' \in [Windows -> BOOLEAN]
    BY <1>2, <1>10, ReleaseType DEF CompleteParty
  <2>3. jobs' \in [JobKinds -> [Parties -> Nat]]
    BY <1>3, <1>10 DEF CompleteParty, Enqueue, JobKinds
  <2> QED
    BY <1>10, <2>1, <2>2, <2>3 DEF CompleteParty
<1>11. CASE WithdrawParty(r)
  <2>1. Target(c.op) \in PartyStates
    BY <1>11 DEF WithdrawParty, Target, PartyStates
  <2>2. state' \in [Parties -> PartyStates] /\ version' \in [Parties -> Nat]
    BY <1>3, <1>11, <2>1 DEF WithdrawParty, ApplyStateChange
  <2>3. /\ quota' \in [Windows -> Nat]
        /\ reserved' \in [Windows -> Nat]
        /\ wversion' \in [Windows -> Nat]
        /\ closed' \in [Windows -> BOOLEAN]
    BY <1>2, <1>11, ReleaseType DEF WithdrawParty
  <2>4. fee' \in [Parties -> FeeStates] /\ fversion' \in [Parties -> Nat]
    BY <1>3, <1>11 DEF WithdrawParty, WaiveSettlement, FeeStates
  <2> QED
    BY <1>11, <2>2, <2>3, <2>4 DEF WithdrawParty
<1>12. CASE ReportCheckpoint(r)
  BY <1>3, <1>12 DEF ReportCheckpoint
<1>13. CASE UpdateFee(r)
  BY <1>3, <1>13 DEF UpdateFee, ApplySettlement, FeeTarget, FeeMoves, FeeStates
<1>14. CASE Fail(r)
  BY <1>14 DEF Fail, DatabaseUnchanged
<1> QED
  BY <1>4, <1>5, <1>6, <1>7, <1>8, <1>9, <1>10, <1>11, <1>12, <1>13, <1>14 DEF Commit

\* What rangers and time do keeps the types.
LEMMA WorldType ==
  ASSUME TypeOK, World
  PROVE  TypeOK'
<1> USE DEF TypeOK, partyVars, memberVars, windowVars, feeVars, keyVars, worldVars
<1>1. CASE \E w \in Windows, q \in OpenQuotas : OpenWindow(w, q)
  BY <1>1, WindowsAssumption DEF OpenWindow, CreateWindow
<1>2. CASE \E w \in Windows : CloseWindow(w)
  BY <1>2 DEF CloseWindow
<1>3. CASE \E w \in Windows : PassDeadline(w)
  BY <1>3 DEF PassDeadline
<1>4. CASE \E t \in Trails, s \in TrailStatuses : SetTrailStatus(t, s)
  BY <1>4 DEF SetTrailStatus
<1>5. CASE \E k \in Keys : ExpireKey(k)
  BY <1>5 DEF ExpireKey
<1> QED
  BY <1>1, <1>2, <1>3, <1>4, <1>5 DEF World

\* Every variable keeps its type in every behaviour.
THEOREM TypeCorrect == Spec => []TypeOK
<1>1. Init => TypeOK
  BY InputsAssumption DEF Init, TypeOK, PartyStates, FeeStates
<1>2. TypeOK /\ [Next]_vars => TypeOK'
  <2> SUFFICES ASSUME TypeOK, [Next]_vars PROVE TypeOK'
    OBVIOUS
  <2>1. CASE Next
    BY <2>1, BeginType, CommitType, WorldType DEF Next
  <2>2. CASE UNCHANGED vars
    BY <2>2 DEF TypeOK, vars, partyVars, memberVars, windowVars, feeVars, keyVars,
                worldVars
  <2> QED
    BY <2>1, <2>2
<1> QED
  BY <1>1, <1>2, PTL DEF Spec
=============================================================================
