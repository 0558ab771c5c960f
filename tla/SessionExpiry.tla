---------------------------- MODULE SessionExpiry ----------------------------
(***************************************************************************)
(* Sessions cleaned up by the recurring expire_sessions job: the handler   *)
(* of worker/handlers.go runs ExpireSessions of the auth service in one     *)
(* transaction, then queues its next run.                                  *)
(***************************************************************************)
EXTENDS Sessions, RecurringJobs

vars == <<sessionVars, chainVars>>

TypeOK == SessionTypeOK /\ ChainTypeOK

Init == SessionInit /\ ChainInit

\* Mutant: the handler only queues its next run.
HandleNothing(w) == Handle(w) /\ UNCHANGED sessionVars

HandleExpireSessions(w) == Handle(w) /\ ExpireSessions

\* One worker at its job: the clean-up and the bookkeeping around it.
Worker(w) ==
  \/ HandleExpireSessions(w)
  \/ Bookkeeping(w) /\ UNCHANGED sessionVars

Next ==
  \/ \E w \in Workers : HandleExpireSessions(w)
  \/ ChainNext /\ UNCHANGED sessionVars
  \/ SessionNext /\ UNCHANGED chainVars

Spec == Init /\ [][Next]_vars

\* Workers get on, leases expire, a stopped process ends and is started again.
FairSpec ==
  /\ Spec
  /\ \A w \in Workers : WF_vars(Worker(w))
  /\ \A s \in Slots : WF_vars(ReclaimAbandoned(s) /\ UNCHANGED sessionVars)
  /\ WF_vars(Exit /\ UNCHANGED sessionVars)
  /\ WF_vars(StartWorker /\ UNCHANGED sessionVars)

-----------------------------------------------------------------------------
\* Every session that outlived its time is revoked in the end, through failed runs,
\* crashes and restarts, so that the table does not grow into a list of live tokens;
\* unless the database refused the next row of the job.
ExpiredIsRevoked ==
  \A t \in Tokens :
    Issued(t) /\ Expired(t) ~> (Issued(t) /\ Revoked(t)) \/ losses > 0
=============================================================================
