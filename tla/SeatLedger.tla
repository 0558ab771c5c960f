----------------------------- MODULE SeatLedger -----------------------------
(***************************************************************************)
(* What the permit windows promise, without counters, versions, snapshots  *)
(* or transactions: a party is granted all its seats at once, at most once *)
(* in its life, on an open window with room for them; it gives all of them *)
(* back at once; nothing else changes who holds seats.                     *)
(***************************************************************************)
EXTENDS Integers, FiniteSets

CONSTANTS Parties, Windows, Size, WindowOf

VARIABLES
  holders,   \* the parties that hold their seats now
  granted,   \* the parties that were ever granted seats
  capacity,  \* the seats of each window, 0 before it is opened
  shut       \* the windows that grant no more seats

ledgerVars == <<holders, granted, capacity, shut>>

\* The parties of S that go to window w, and the seats of a set of parties.
To(S, w) == {p \in S : WindowOf[p] = w}
Seats(S) == UNION {{p} \X (1..Size[p]) : p \in S}

Init ==
  /\ holders = {}
  /\ granted = {}
  /\ capacity = [w \in Windows |-> 0]
  /\ shut = {}

Open(w) ==
  /\ capacity[w] = 0
  /\ capacity'[w] \in Nat \ {0}
  /\ capacity' = [capacity EXCEPT ![w] = capacity'[w]]
  /\ UNCHANGED <<holders, granted, shut>>

Shut(w) ==
  /\ capacity[w] > 0
  /\ shut' = shut \cup {w}
  /\ UNCHANGED <<holders, granted, capacity>>

Grant(p) ==
  /\ p \notin granted
  /\ WindowOf[p] \notin shut
  /\ Cardinality(Seats(To(holders \cup {p}, WindowOf[p]))) <= capacity[WindowOf[p]]
  /\ holders' = holders \cup {p}
  /\ granted' = granted \cup {p}
  /\ UNCHANGED <<capacity, shut>>

GiveBack(p) ==
  /\ p \in holders
  /\ holders' = holders \ {p}
  /\ UNCHANGED <<granted, capacity, shut>>

Next ==
  \/ \E p \in Parties : Grant(p) \/ GiveBack(p)
  \/ \E w \in Windows : Open(w) \/ Shut(w)

Spec == Init /\ [][Next]_ledgerVars
=============================================================================
