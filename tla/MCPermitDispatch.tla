-------------------------- MODULE MCPermitDispatch --------------------------
(* Instances of PermitDispatch for TLC: parties of one size on one trail day *)
(* of two seats.                                                             *)
EXTENDS PermitDispatch, TLC

CONSTANTS w1, t1

OneDay == [p \in Parties |-> w1]
OneTrail == [w \in Windows |-> t1]
TwoSeats == [w \in Windows |-> 2]

AllPairs == [p \in Parties |-> 2]
AllSolo == [p \in Parties |-> 1]

AllKeys == [p \in Parties |-> Keys]

DispatchSymmetry == Permutations(Requests) \cup Permutations(Parties)
=============================================================================
