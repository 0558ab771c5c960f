-------------------------- MODULE MCIncidentResponse --------------------------
(* Instances of IncidentResponse for TLC.                                  *)
EXTENDS IncidentResponse, TLC

AllMoves == {<<"confirmed", "on_trail">>, <<"confirmed", "cancelled">>,
             <<"on_trail", "completed">>}
OneMove == {<<"confirmed", "on_trail">>}
NoMoves == {}
=============================================================================
