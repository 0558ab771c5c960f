------------------------------ MODULE MCStartup ------------------------------
(* Instances of Startup for TLC.                                           *)
EXTENDS Startup, TLC

First == 1 :> "a"
Second == 1 :> "a" @@ 2 :> "b"
Changed == 1 :> "a" @@ 2 :> "c"

ThreeReleases == {First, Second, Changed}
=============================================================================
