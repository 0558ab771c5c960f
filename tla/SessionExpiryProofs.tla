-------------------------- MODULE SessionExpiryProofs --------------------------
(***************************************************************************)
(* Proofs about SessionExpiry, for any tokens, users, requests, times to    *)
(* live, workers, slots and mishaps: what requests do to a session, and the *)
(* chain of the recurring job that cleans up.  A step of the composition is  *)
(* one of the sessions, one of the chain, or both at once.                  *)
(***************************************************************************)
EXTENDS SessionExpiry, FiniteSetTheorems, WellFoundedInduction, TLAPS

SessionStep == SessionNext \/ ExpireSessions \/ UNCHANGED sessionVars
ChainStep == ChainNext \/ (\E w \in Workers : Handle(w)) \/ UNCHANGED chainVars

LEMMA StepsCompose ==
  ASSUME [Next]_vars
  PROVE  SessionStep /\ ChainStep
BY DEF Next, vars, SessionStep, ChainStep, HandleExpireSessions

-----------------------------------------------------------------------------
(* Sessions.                                                               *)

\* A row that exists is not old news: its times have passed.
RowsAreRecent ==
  \A t \in Tokens :
    /\ ~Issued(t) => logouts[t] = 0
    /\ Issued(t) => sessions[t].issued <= now /\ sessions[t].seen <= now

\* Requests that log in have a token to themselves, the others one that was issued; a
\* request about to touch its session read it while it was alive.
RequestsAreCurrent ==
  /\ \A r \in Requests : req[r].op = "login" =>
       /\ ~Issued(req[r].token)
       /\ req[r].at <= now
       /\ \A q \in Requests : req[q].op = "login" /\ req[q].token = req[r].token => q = r
  /\ \A r \in Requests : req[r].op \in {"touch", "actor"} => Issued(req[r].token)
  /\ \A r \in Requests : req[r].op = "touch" =>
       /\ sessions[req[r].token].issued <= req[r].at
       /\ req[r].at < ExpiresAt(req[r].token)
       /\ req[r].at <= now

SessionInvariant ==
  /\ SessionTypeOK
  /\ RowsAreRecent
  /\ RequestsAreCurrent
  /\ SeenWhileAlive
  /\ LogoutRecordedOnce

LEMMA SessionIsNotNone ==
  ASSUME NEW s \in Session
  PROVE  s # None
BY DEF Session, None

LEMMA SessionForms ==
  ASSUME SessionTypeOK
  PROVE  /\ now \in Nat /\ now <= MaxTime /\ Never \in Nat /\ now < Never
         /\ \A t \in Tokens : Issued(t) =>
              /\ sessions[t] \in Session
              /\ sessions[t].issued \in Nat /\ sessions[t].seen \in Nat
              /\ sessions[t].revoked \in Nat /\ sessions[t].revoked <= Never
              /\ ExpiresAt(t) \in Nat /\ sessions[t].issued < ExpiresAt(t)
BY SessionAssumption DEF SessionTypeOK, Issued, Session, Times, Never, ExpiresAt

LEMMA RequestForms ==
  ASSUME SessionTypeOK, NEW r \in Requests
  PROVE  /\ req[r].op \in {"ready", "login", "touch", "actor"}
         /\ req[r].op \in {"login", "touch", "actor"} => req[r].token \in Tokens
         /\ req[r].op = "login" => req[r].user \in Users
         /\ req[r].op \in {"login", "touch"} => req[r].at \in Times /\ req[r].at \in Nat
<1>1. req[r] \in Calls
  BY DEF SessionTypeOK
<1> QED
  BY <1>1, SessionAssumption DEF Calls, Ready, Times

\* Revocation writes the time of sessions that exist, and nothing else.
LEMMA RevokedRows ==
  ASSUME SessionTypeOK, NEW S \in SUBSET Tokens, \A t \in S : Issued(t), RevokeSessions(S)
  PROVE  /\ sessions' \in [Tokens -> {None} \cup Session]
         /\ \A t \in Tokens \ S : sessions'[t] = sessions[t]
         /\ \A t \in S : /\ Issued(t)'
                         /\ sessions'[t].issued = sessions[t].issued
                         /\ sessions'[t].seen = sessions[t].seen
                         /\ sessions'[t].revoked = now
<1>1. \A t \in S : /\ [sessions[t] EXCEPT !.revoked = now] \in Session
                   /\ [sessions[t] EXCEPT !.revoked = now].issued = sessions[t].issued
                   /\ [sessions[t] EXCEPT !.revoked = now].seen = sessions[t].seen
                   /\ [sessions[t] EXCEPT !.revoked = now].revoked = now
  <2> SUFFICES ASSUME NEW t \in S
               PROVE  /\ [sessions[t] EXCEPT !.revoked = now] \in Session
                      /\ [sessions[t] EXCEPT !.revoked = now].issued = sessions[t].issued
                      /\ [sessions[t] EXCEPT !.revoked = now].seen = sessions[t].seen
                      /\ [sessions[t] EXCEPT !.revoked = now].revoked = now
    OBVIOUS
  <2>1. sessions[t] \in Session /\ now \in 0..Never
    BY SessionForms
  <2> QED
    BY <2>1 DEF Session
<1>2. \A t \in Tokens : sessions[t] \in {None} \cup Session
  BY DEF SessionTypeOK
<1>3. sessions' = [t \in Tokens |-> IF t \in S THEN [sessions[t] EXCEPT !.revoked = now]
                                    ELSE sessions[t]]
  BY DEF RevokeSessions
<1>4. sessions' \in [Tokens -> {None} \cup Session]
  BY <1>1, <1>2, <1>3
<1>5. \A t \in S : sessions'[t] \in Session
  BY <1>1, <1>3
<1> QED
  BY <1>1, <1>3, <1>4, <1>5, SessionIsNotNone DEF Issued

\* What a step may do to a session and the count of its logouts.
Kept(t) == sessions'[t] = sessions[t] /\ logouts'[t] = logouts[t]

LoggedIn(t) ==
  \E r \in Requests :
    /\ req[r].op = "login" /\ req[r].token = t /\ req'[r].op = "ready"
    /\ sessions'[t] = [user |-> req[r].user, issued |-> req[r].at, seen |-> req[r].at,
                       revoked |-> Never]
    /\ logouts'[t] = logouts[t]

Touched(t) ==
  \E r \in Requests :
    /\ req[r].op = "touch" /\ req[r].token = t /\ ~Revoked(t)
    /\ Issued(t)'
    /\ sessions'[t].issued = sessions[t].issued
    /\ sessions'[t].seen = req[r].at
    /\ sessions'[t].revoked = sessions[t].revoked
    /\ logouts'[t] = logouts[t]

Withdrawn(t) ==
  /\ Issued(t) /\ ~Revoked(t) /\ Issued(t)'
  /\ sessions'[t].issued = sessions[t].issued
  /\ sessions'[t].seen = sessions[t].seen
  /\ sessions'[t].revoked = now
  /\ logouts'[t] \in {logouts[t], logouts[t] + 1}

RowsMove ==
  /\ sessions' \in [Tokens -> {None} \cup Session]
  /\ logouts' \in [Tokens -> Nat]
  /\ \A t \in Tokens : Kept(t) \/ LoggedIn(t) \/ Touched(t) \/ Withdrawn(t)

LEMMA LoginMovesRows ==
  ASSUME SessionInvariant, NEW r \in Requests, Login(r)
  PROVE  RowsMove
<1> DEFINE t == req[r].token
           row == [user |-> req[r].user, issued |-> req[r].at, seen |-> req[r].at,
                   revoked |-> Never]
<1>1. /\ req[r].op = "login" /\ sessions' = [sessions EXCEPT ![t] = row] /\ logouts' = logouts
      /\ t \in Tokens
  BY RequestForms DEF Login, SessionInvariant
<1>2. row \in Session
  BY <1>1, RequestForms, SessionForms DEF Session, SessionInvariant
<1>3. sessions \in [Tokens -> {None} \cup Session] /\ logouts \in [Tokens -> Nat]
  BY DEF SessionInvariant, SessionTypeOK
<1>4. sessions' \in [Tokens -> {None} \cup Session] /\ sessions'[t] = row
  BY <1>1, <1>2, <1>3
<1>5. LoggedIn(t)
  <2>1. req'[r] = Ready
    BY DEF Login, Answer, SessionInvariant, SessionTypeOK
  <2> QED
    BY <1>1, <1>4, <2>1 DEF LoggedIn, Ready
<1>6. \A u \in Tokens : u # t => Kept(u)
  BY <1>1, <1>3 DEF Kept
<1> QED
  BY <1>1, <1>3, <1>4, <1>5, <1>6 DEF RowsMove

LEMMA TouchMovesRows ==
  ASSUME SessionInvariant, NEW r \in Requests, TouchLastSeen(r)
  PROVE  RowsMove
<1>1. PICK t \in Tokens : /\ t = req[r].token /\ req[r].op = "touch" /\ logouts' = logouts
                          /\ req[r].at \in Times /\ Issued(t)
  BY RequestForms DEF TouchLastSeen, SessionInvariant, RequestsAreCurrent
<1>2. sessions \in [Tokens -> {None} \cup Session] /\ logouts \in [Tokens -> Nat]
  BY DEF SessionInvariant, SessionTypeOK
<1>3. CASE Revoked(t)
  BY <1>1, <1>2, <1>3 DEF TouchLastSeen, RowsMove, Kept
<1>4. CASE ~Revoked(t)
  <2> DEFINE row == [sessions[t] EXCEPT !.seen = req[r].at]
  <2>1. sessions' = [sessions EXCEPT ![t] = row]
    BY <1>1, <1>4 DEF TouchLastSeen
  <2>2. sessions[t] \in Session
    BY <1>1, SessionForms DEF SessionInvariant
  <2>3. /\ row \in Session /\ row.issued = sessions[t].issued /\ row.seen = req[r].at
        /\ row.revoked = sessions[t].revoked
    BY <1>1, <2>2 DEF Session
  <2>4. row # None
    BY <2>3, SessionIsNotNone
  <2> HIDE DEF row
  <2>5. sessions' \in [Tokens -> {None} \cup Session] /\ sessions'[t] = row
    BY <1>1, <1>2, <2>1, <2>3
  <2>6. Touched(t)
    BY <1>1, <1>4, <2>3, <2>4, <2>5 DEF Touched, Issued
  <2>7. \A u \in Tokens : u # t => Kept(u)
    BY <1>1, <1>2, <2>1 DEF Kept
  <2> QED
    BY <1>1, <1>2, <2>5, <2>6, <2>7 DEF RowsMove
<1> QED
  BY <1>3, <1>4

LEMMA RevocationsMoveRows ==
  ASSUME SessionInvariant, NEW S \in SUBSET Tokens, \A t \in S : Issued(t) /\ ~Revoked(t),
         RevokeSessions(S), logouts' \in [Tokens -> Nat],
         \A t \in Tokens : \/ logouts'[t] = logouts[t]
                           \/ t \in S /\ logouts'[t] = logouts[t] + 1
  PROVE  RowsMove
<1>1. /\ sessions' \in [Tokens -> {None} \cup Session]
      /\ \A t \in Tokens \ S : sessions'[t] = sessions[t]
      /\ \A t \in S : /\ Issued(t)'
                      /\ sessions'[t].issued = sessions[t].issued
                      /\ sessions'[t].seen = sessions[t].seen
                      /\ sessions'[t].revoked = now
  BY RevokedRows DEF SessionInvariant
<1>2. \A t \in S : Withdrawn(t)
  BY <1>1 DEF Withdrawn
<1>3. \A t \in Tokens \ S : Kept(t)
  BY <1>1 DEF Kept
<1> QED
  BY <1>1, <1>2, <1>3 DEF RowsMove

LEMMA StepsMoveRows ==
  ASSUME SessionInvariant, SessionStep
  PROVE  RowsMove
<1>1. sessions \in [Tokens -> {None} \cup Session] /\ logouts \in [Tokens -> Nat]
  BY DEF SessionInvariant, SessionTypeOK
<1>2. CASE UNCHANGED <<sessions, logouts>>
  BY <1>1, <1>2 DEF RowsMove, Kept
<1>3. ASSUME NEW r \in Requests, Logout(r)
      PROVE  RowsMove
  <2>1. PICK t \in Tokens : t = req[r].token /\ Issued(t) /\ ~Revoked(t)
    BY <1>3, RequestForms DEF Logout, SessionInvariant, RequestsAreCurrent
  <2>2. RevokeSessions({t}) /\ logouts' = [logouts EXCEPT ![t] = @ + 1]
    BY <1>3, <2>1 DEF Logout
  <2>3. logouts' \in [Tokens -> Nat]
    BY <1>1, <2>2
  <2>4. \A u \in Tokens : logouts'[u] = IF u = t THEN logouts[u] + 1 ELSE logouts[u]
    BY <1>1, <2>2
  <2> QED
    BY <2>1, <2>2, <2>3, <2>4, RevocationsMoveRows
<1>4. ASSUME NEW r \in Requests, RevokeAll(r)
      PROVE  RowsMove
  <2>1. PICK S \in SUBSET Tokens : (\A t \in S : Issued(t) /\ ~Revoked(t)) /\ RevokeSessions(S)
    <3> DEFINE S == {t \in Tokens : /\ Issued(t)
                                    /\ sessions[t].user = sessions[req[r].token].user
                                    /\ ~Revoked(t)}
    <3>1. RevokeSessions(S)
      BY <1>4 DEF RevokeAll
    <3> QED
      BY <3>1
  <2>2. logouts' = logouts
    BY <1>4 DEF RevokeAll
  <2> QED
    BY <1>1, <2>1, <2>2, RevocationsMoveRows
<1>5. ASSUME ExpireSessions
      PROVE  RowsMove
  <2>1. PICK S \in SUBSET Tokens : (\A t \in S : Issued(t) /\ ~Revoked(t)) /\ RevokeSessions(S)
    <3> DEFINE S == {t \in Tokens : Issued(t) /\ ~Revoked(t) /\ Expired(t)}
    <3>1. RevokeSessions(S)
      BY <1>5 DEF ExpireSessions
    <3> QED
      BY <3>1
  <2>2. logouts' = logouts
    BY <1>5 DEF ExpireSessions
  <2> QED
    BY <1>1, <2>1, <2>2, RevocationsMoveRows
<1>6. ASSUME NEW r \in Requests, NEW t \in Tokens,
             BeginAuthenticate(r, t) \/ (\E u \in Users : BeginLogin(r, t, u)) \/ Finish(r)
      PROVE  UNCHANGED <<sessions, logouts>>
  BY <1>6 DEF BeginAuthenticate, BeginLogin, Finish
<1>7. ASSUME Tick \/ UNCHANGED sessionVars
      PROVE  UNCHANGED <<sessions, logouts>>
  BY <1>7 DEF Tick, sessionVars
<1>8. ASSUME NEW r \in Requests, Finish(r)
      PROVE  UNCHANGED <<sessions, logouts>>
  BY <1>8 DEF Finish
<1> QED
  BY <1>2, <1>3, <1>4, <1>5, <1>6, <1>7, <1>8, LoginMovesRows, TouchMovesRows
     DEF SessionStep, SessionNext

\* What a step may do to a request.
RequestMoves(r) ==
  \/ req'[r] = req[r]
  \/ req'[r].op = "ready"
  \/ /\ req'[r].op = "login" /\ req'[r].at = now
     /\ \E t \in Tokens, u \in Users : BeginLogin(r, t, u) /\ req'[r].token = t
  \/ /\ req'[r].op = "touch" /\ req'[r].at = now
     /\ \E t \in Tokens : BeginAuthenticate(r, t) /\ req'[r].token = t
  \/ req[r].op = "touch" /\ req'[r].op = "actor" /\ req'[r].token = req[r].token

LEMMA RequestsMove ==
  ASSUME SessionInvariant, SessionStep
  PROVE  /\ now' \in Times /\ now <= now' /\ req' \in [Requests -> Calls]
         /\ \A r \in Requests : RequestMoves(r)
<1> DEFINE Moves == /\ now' \in Times /\ now <= now' /\ req' \in [Requests -> Calls]
                    /\ \A r \in Requests : RequestMoves(r)
<1> USE DEF SessionInvariant
<1>1. req \in [Requests -> Calls] /\ now \in Times /\ now \in Nat
  BY SessionForms DEF SessionTypeOK
<1>2. ASSUME NEW q \in Requests, NEW reply \in Calls, Answer(q, reply), req'[q] = reply => RequestMoves(q)
      PROVE  Moves
  <2>1. /\ now' = now /\ req' \in [Requests -> Calls] /\ req'[q] = reply
        /\ \A r \in Requests : r # q => req'[r] = req[r]
    BY <1>1, <1>2 DEF Answer
  <2>2. \A r \in Requests : r # q => RequestMoves(r)
    BY <2>1 DEF RequestMoves
  <2> QED
    BY <1>1, <1>2, <2>1, <2>2
<1>3. ASSUME NEW q \in Requests, Finish(q) \/ Login(q) \/ Logout(q) \/ RevokeAll(q)
      PROVE  Moves
  <2>1. Ready \in Calls /\ Answer(q, Ready)
    BY <1>3 DEF Finish, Login, Logout, RevokeAll, Calls
  <2>2. req'[q] = Ready => RequestMoves(q)
    BY DEF RequestMoves, Ready
  <2> QED
    BY <1>2, <2>1, <2>2
<1>4. ASSUME NEW q \in Requests, TouchLastSeen(q)
      PROVE  Moves
  <2> DEFINE reply == [op |-> "actor", token |-> req[q].token]
  <2>1. req[q].op = "touch" /\ Answer(q, reply)
    BY <1>4 DEF TouchLastSeen
  <2>2. reply \in Calls
    BY <2>1, RequestForms DEF Calls
  <2>3. req'[q] = reply => RequestMoves(q)
    BY <2>1 DEF RequestMoves
  <2> QED
    BY <1>2, <2>1, <2>2, <2>3
<1>5. ASSUME NEW q \in Requests, NEW t \in Tokens, BeginAuthenticate(q, t)
      PROVE  Moves
  <2> DEFINE reply == [op |-> "touch", token |-> t, at |-> now]
  <2>1. Answer(q, reply) /\ reply \in Calls
    BY <1>1, <1>5 DEF BeginAuthenticate, Calls
  <2>2. req'[q] = reply => RequestMoves(q)
    BY <1>5 DEF RequestMoves
  <2> QED
    BY <1>2, <2>1, <2>2
<1>6. ASSUME NEW q \in Requests, NEW t \in Tokens, NEW u \in Users, BeginLogin(q, t, u)
      PROVE  Moves
  <2> DEFINE reply == [op |-> "login", token |-> t, user |-> u, at |-> now]
  <2>1. Answer(q, reply) /\ reply \in Calls
    BY <1>1, <1>6 DEF BeginLogin, Calls
  <2>2. req'[q] = reply => RequestMoves(q)
    BY <1>6 DEF RequestMoves
  <2> QED
    BY <1>2, <2>1, <2>2
<1>7. CASE Tick
  BY <1>1, <1>7, SessionAssumption DEF Tick, Times, RequestMoves
<1>8. CASE ExpireSessions \/ UNCHANGED sessionVars
  BY <1>1, <1>8 DEF ExpireSessions, sessionVars, RequestMoves
<1> QED
  BY <1>3, <1>4, <1>5, <1>6, <1>7, <1>8 DEF SessionStep, SessionNext

\* A token that is issued after a step was so before, or was logged in by the step.
LEMMA IssuedStays ==
  ASSUME SessionInvariant, SessionStep, NEW t \in Tokens
  PROVE  /\ Issued(t) => Issued(t)' /\ sessions'[t].issued = sessions[t].issued
         /\ Issued(t)' => Issued(t) \/ LoggedIn(t)
<1>1. Kept(t) \/ LoggedIn(t) \/ Touched(t) \/ Withdrawn(t)
  BY StepsMoveRows DEF RowsMove
<1>2. LoggedIn(t) => ~Issued(t)
  BY DEF LoggedIn, SessionInvariant, RequestsAreCurrent
<1>3. Touched(t) => Issued(t)
  BY DEF Touched, SessionInvariant, RequestsAreCurrent
<1> QED
  BY <1>1, <1>2, <1>3 DEF Kept, Touched, Withdrawn, Issued

\* Rows stay recent, last seen while alive, and logged out at most once.
LEMMA RowsStayRight ==
  ASSUME SessionInvariant, SessionStep, NEW t \in Tokens
  PROVE  /\ ~Issued(t)' => logouts'[t] = 0
         /\ Issued(t)' => /\ sessions'[t].issued <= now' /\ sessions'[t].seen <= now'
                          /\ sessions'[t].issued <= sessions'[t].seen
                          /\ sessions'[t].seen < sessions'[t].issued + TTL
                          /\ sessions'[t].seen <= sessions'[t].revoked
         /\ logouts'[t] <= 1
         /\ logouts'[t] = 1 => Issued(t)' /\ sessions'[t].revoked # Never
<1>1. now \in Nat /\ now' \in Nat /\ now <= now' /\ Never \in Nat /\ now < Never /\ TTL \in Nat \ {0}
  BY SessionForms, RequestsMove, SessionAssumption DEF SessionInvariant, Times
<1>2. logouts[t] \in Nat
  BY DEF SessionInvariant, SessionTypeOK
<1>3. Issued(t) => /\ sessions[t].issued \in Nat /\ sessions[t].seen \in Nat
                   /\ sessions[t].revoked \in Nat
                   /\ sessions[t].issued <= now /\ sessions[t].seen <= now
                   /\ sessions[t].issued <= sessions[t].seen
                   /\ sessions[t].seen < sessions[t].issued + TTL
                   /\ sessions[t].seen <= sessions[t].revoked
  BY SessionForms DEF SessionInvariant, RowsAreRecent, SeenWhileAlive, ExpiresAt
<1>4. /\ ~Issued(t) => logouts[t] = 0
      /\ logouts[t] <= 1 /\ (logouts[t] = 1 => Issued(t) /\ Revoked(t))
  BY DEF SessionInvariant, RowsAreRecent, LogoutRecordedOnce
<1>5. CASE Kept(t)
  BY <1>1, <1>2, <1>3, <1>4, <1>5 DEF Kept, Issued, Revoked
<1>6. CASE LoggedIn(t)
  <2>1. PICK r \in Requests :
          /\ req[r].op = "login" /\ req[r].token = t
          /\ sessions'[t] = [user |-> req[r].user, issued |-> req[r].at, seen |-> req[r].at,
                             revoked |-> Never]
          /\ logouts'[t] = logouts[t]
    BY <1>6 DEF LoggedIn
  <2>2. ~Issued(t) /\ req[r].at <= now /\ req[r].at \in Nat
    BY <2>1, RequestForms DEF SessionInvariant, RequestsAreCurrent
  <2>3. sessions'[t].issued = req[r].at /\ sessions'[t].seen = req[r].at
        /\ sessions'[t].revoked = Never
    BY <2>1
  <2>4. logouts'[t] = 0
    BY <1>4, <2>1, <2>2
  <2> QED
    BY <1>1, <2>2, <2>3, <2>4
<1>7. CASE Touched(t)
  <2>1. PICK r \in Requests :
          /\ req[r].op = "touch" /\ req[r].token = t /\ ~Revoked(t)
          /\ Issued(t)'
          /\ sessions'[t].issued = sessions[t].issued
          /\ sessions'[t].seen = req[r].at
          /\ sessions'[t].revoked = sessions[t].revoked
          /\ logouts'[t] = logouts[t]
    BY <1>7 DEF Touched
  <2>2. /\ Issued(t) /\ req[r].at \in Nat /\ req[r].at <= now
        /\ sessions[t].issued <= req[r].at /\ req[r].at < sessions[t].issued + TTL
    BY <2>1, RequestForms DEF SessionInvariant, RequestsAreCurrent, ExpiresAt
  <2>3. sessions[t].revoked = Never /\ logouts[t] = 0
    BY <1>2, <1>4, <2>1 DEF Revoked
  <2> QED
    BY <1>1, <1>3, <2>1, <2>2, <2>3
<1>8. CASE Withdrawn(t)
  <2>1. logouts[t] = 0
    BY <1>2, <1>4, <1>8 DEF Withdrawn
  <2> QED
    BY <1>1, <1>3, <1>8, <2>1 DEF Withdrawn
<1> QED
  BY <1>5, <1>6, <1>7, <1>8, StepsMoveRows DEF RowsMove

\* The token of a login in flight is still free, and nobody else's.
LEMMA LoginsStayNew ==
  ASSUME SessionInvariant, SessionStep, NEW r \in Requests, req'[r].op = "login"
  PROVE  /\ \A t \in Tokens : t = req'[r].token => ~Issued(t)'
         /\ req'[r].at <= now'
         /\ \A q \in Requests : req'[q].op = "login" /\ req'[q].token = req'[r].token => q = r
<1>1. now \in Nat /\ now' \in Nat /\ now <= now' /\ req \in [Requests -> Calls]
  BY SessionForms, RequestsMove, SessionAssumption DEF SessionInvariant, SessionTypeOK, Times
<1>2. ASSUME NEW q \in Requests, NEW v \in Requests, q # v,
             NEW t \in Tokens, NEW u \in Users, BeginLogin(q, t, u)
      PROVE  req'[v] = req[v]
  BY <1>1, <1>2 DEF BeginLogin, Answer
<1>3. ASSUME NEW q \in Requests, req'[q].op = "login", req'[q].token = req'[r].token, q # r
      PROVE  FALSE
  <2>1. /\ req'[q] = req[q] \/ \E t \in Tokens, u \in Users : BeginLogin(q, t, u) /\ req'[q].token = t
        /\ req'[r] = req[r] \/ \E t \in Tokens, u \in Users : BeginLogin(r, t, u) /\ req'[r].token = t
    BY <1>3, RequestsMove DEF RequestMoves
  <2>2. CASE req'[q] = req[q] /\ req'[r] = req[r]
    BY <1>3, <2>2 DEF SessionInvariant, RequestsAreCurrent
  <2>3. ASSUME NEW t \in Tokens, NEW u \in Users, BeginLogin(r, t, u), req'[r].token = t
        PROVE  FALSE
    <3>1. req'[q] = req[q]
      BY <1>2, <1>3, <2>3
    <3> QED
      BY <1>3, <2>3, <3>1 DEF BeginLogin
  <2>4. ASSUME NEW t \in Tokens, NEW u \in Users, BeginLogin(q, t, u), req'[q].token = t
        PROVE  FALSE
    <3>1. req'[r] = req[r]
      BY <1>2, <1>3, <2>4
    <3> QED
      BY <1>3, <2>4, <3>1 DEF BeginLogin
  <2> QED
    BY <2>1, <2>2, <2>3, <2>4
<1>4. CASE req'[r] = req[r]
  <2>1. req[r].token \in Tokens /\ ~Issued(req[r].token) /\ req[r].at <= now /\ req[r].at \in Nat
    BY <1>4, RequestForms DEF SessionInvariant, RequestsAreCurrent
  <2>2. ASSUME NEW t \in Tokens, t = req[r].token, Issued(t)'
        PROVE  FALSE
    <3>1. LoggedIn(t)
      BY <2>1, <2>2, IssuedStays
    <3>2. PICK q \in Requests : req[q].op = "login" /\ req[q].token = t /\ req'[q].op = "ready"
      BY <3>1 DEF LoggedIn
    <3>3. q = r
      BY <1>4, <2>2, <3>2 DEF SessionInvariant, RequestsAreCurrent
    <3> QED
      BY <3>2, <3>3
  <2> QED
    BY <1>1, <1>3, <1>4, <2>1, <2>2
<1>5. ASSUME NEW t \in Tokens, NEW u \in Users, BeginLogin(r, t, u), req'[r].token = t,
             req'[r].at = now
      PROVE  /\ ~Issued(t)' /\ req'[r].at <= now'
  BY <1>1, <1>5 DEF BeginLogin, Issued
<1> QED
  BY <1>3, <1>4, <1>5, RequestsMove DEF RequestMoves

\* A request with a session still has it, and what it read of it is still good.
LEMMA UsesStayIssued ==
  ASSUME SessionInvariant, SessionStep, NEW r \in Requests, NEW t \in Tokens, t = req'[r].token,
         req'[r].op \in {"touch", "actor"}
  PROVE  /\ Issued(t)'
         /\ req'[r].op = "touch" => /\ sessions'[t].issued <= req'[r].at
                                    /\ req'[r].at < sessions'[t].issued + TTL
                                    /\ req'[r].at <= now'
<1>1. now \in Nat /\ now' \in Nat /\ now <= now'
  BY SessionForms, RequestsMove, SessionAssumption DEF SessionInvariant, Times
<1>2. Issued(t) => Issued(t)' /\ sessions'[t].issued = sessions[t].issued
  BY IssuedStays
<1>3. CASE req'[r] = req[r]
  <2>1. /\ Issued(t)
        /\ req[r].op = "touch" => /\ sessions[t].issued <= req[r].at
                                  /\ req[r].at < sessions[t].issued + TTL
                                  /\ req[r].at <= now /\ req[r].at \in Nat
    BY <1>3, RequestForms DEF SessionInvariant, RequestsAreCurrent, ExpiresAt
  <2> QED
    BY <1>1, <1>2, <1>3, <2>1
<1>4. CASE /\ req'[r].op = "touch" /\ req'[r].at = now
           /\ \E k \in Tokens : BeginAuthenticate(r, k) /\ req'[r].token = k
  <2>1. Issued(t) /\ ~(now >= sessions[t].issued + TTL)
    BY <1>4 DEF BeginAuthenticate, Active, Expired, ExpiresAt
  <2>2. sessions[t].issued \in Nat /\ sessions[t].issued <= now
    BY <2>1, SessionForms DEF SessionInvariant, RowsAreRecent
  <2> QED
    BY <1>1, <1>2, <1>4, <2>1, <2>2, SessionAssumption
<1>5. CASE req[r].op = "touch" /\ req'[r].op = "actor" /\ req'[r].token = req[r].token
  BY <1>2, <1>5 DEF SessionInvariant, RequestsAreCurrent
<1> QED
  BY <1>3, <1>4, <1>5, RequestsMove DEF RequestMoves

LEMMA SessionInvariantStep ==
  ASSUME SessionInvariant, SessionStep
  PROVE  SessionInvariant'
<1>1. SessionTypeOK'
  BY StepsMoveRows, RequestsMove DEF SessionTypeOK, RowsMove
<1>2. RowsAreRecent' /\ SeenWhileAlive' /\ LogoutRecordedOnce'
  BY RowsStayRight DEF RowsAreRecent, SeenWhileAlive, LogoutRecordedOnce, Revoked, ExpiresAt
<1>3. RequestsAreCurrent'
  <2>1. \A r \in Requests : req'[r].op \in {"login", "touch", "actor"} => req'[r].token \in Tokens
    <3>1. \A r \in Requests : req'[r] \in Calls
      BY RequestsMove
    <3> QED
      BY <3>1 DEF Calls, Ready
  <2>2. ASSUME NEW r \in Requests, req'[r].op = "login"
        PROVE  /\ ~Issued(req[r].token)' /\ req'[r].at <= now'
               /\ \A q \in Requests : req'[q].op = "login" /\ req'[q].token = req'[r].token => q = r
    BY <2>1, <2>2, LoginsStayNew DEF Issued
  <2>3. ASSUME NEW r \in Requests, req'[r].op \in {"touch", "actor"}
        PROVE  /\ Issued(req[r].token)'
               /\ req'[r].op = "touch" => /\ sessions'[req'[r].token].issued <= req'[r].at
                                          /\ req'[r].at < ExpiresAt(req[r].token)'
                                          /\ req'[r].at <= now'
    BY <2>1, <2>3, UsesStayIssued DEF Issued, ExpiresAt
  <2> QED
    BY <2>2, <2>3 DEF RequestsAreCurrent
<1> QED
  BY <1>1, <1>2, <1>3 DEF SessionInvariant

\* In every reachable state requests and rows agree about the sessions there are.
THEOREM SessionInvariantHolds == Spec => []SessionInvariant
<1>1. Init => SessionInvariant
  BY SessionAssumption
     DEF Init, SessionInit, SessionInvariant, SessionTypeOK, RowsAreRecent, RequestsAreCurrent,
         SeenWhileAlive, LogoutRecordedOnce, Issued, Calls, Ready, Times
<1>2. SessionInvariant /\ [Next]_vars => SessionInvariant'
  BY SessionInvariantStep, StepsCompose
<1> QED
  BY <1>1, <1>2, PTL DEF Spec

\* A session is last seen while it lives: never in the second it expires, never after
\* its revocation, however many requests of it overlap.
THEOREM SessionsSeenWhileAlive == Spec => []SeenWhileAlive
BY SessionInvariantHolds, PTL DEF SessionInvariant

\* Of concurrent logouts of a session at most one succeeds and is recorded, and only for
\* a session that is over.
THEOREM LogoutsRecordedOnce == Spec => []LogoutRecordedOnce
BY SessionInvariantHolds, PTL DEF SessionInvariant

-----------------------------------------------------------------------------
(* The chain.  A worker carries the chain from its claim until the next row *)
(* is queued; a row keeps it while it waits for a worker.                   *)

\* A set of naturals has a smallest member.
LEMMA SmallestOf ==
  ASSUME NEW S \in SUBSET Nat, S # {}
  PROVE  \E s \in S : \A t \in S : s <= t
<1> DEFINE R == OpToRel(<, Nat)
<1>1. PICK s \in S : \A t \in S : ~(<<t, s>> \in R)
  <2>1. IsWellFoundedOn(R, Nat)
    BY NatLessThanWellFounded, Zenon
  <2> HIDE DEF R
  <2> QED
    BY <2>1, WFMin
<1>2. \A t \in S : t < s => <<t, s>> \in R
  BY DEF OpToRel
<1>3. \A t \in S : ~(t < s)
  BY <1>1, <1>2
<1> QED
  BY <1>3

LEMMA ProductGrows ==
  ASSUME NEW a \in Nat, NEW b \in Nat, NEW k \in Nat, a <= b
  PROVE  a * k \in Nat /\ (a + 1) * k = a * k + k /\ a * k <= b * k
<1>1. a * k \in Nat /\ (a + 1) * k = a * k + k
  OBVIOUS
<1>2. PICK d \in Nat : b = a + d
  <2>1. b - a \in Nat /\ b = a + (b - a)
    OBVIOUS
  <2> QED
    BY <2>1
<1>3. (a + d) * k = a * k + d * k /\ d * k \in Nat
  OBVIOUS
<1> QED
  BY <1>1, <1>2, <1>3

Busy(w) == work[w] # Idle
Held(s) == \E w \in Workers : Holds(w, s)
Carriers == {w \in Workers : Busy(w) /\ work[w].step # "done"}
Waiting == {s \in Slots : rows[s].state = "queued" \/ (rows[s].state = "running" /\ ~Held(s))}

\* The shape of the chain's state, without the bound on attempts.
ChainShape ==
  /\ rows \in [Slots -> {NoRow} \cup [state: {"queued", "running"}, attempts: Nat]]
  /\ work \in [Workers -> {Idle} \cup [step: Steps, slot: Slots, attempts: Nat \ {0}]]
  /\ process \in {"up", "stopping", "down"}
  /\ mishaps \in 0..Mishaps
  /\ losses \in 0..Losses

\* A process that is down has nobody at work, and a hook runs after its job was parked.
WorkIsReal ==
  /\ process = "down" => \A w \in Workers : ~Busy(w)
  /\ \A w \in Workers : Busy(w) /\ work[w].step = "hook" => rows[work[w].slot] = NoRow

\* The inductive form of ChainsPerMishap.
ChainsCounted ==
  Cardinality(Carriers) + Cardinality(Waiting) <= 1 + mishaps * Cardinality(Workers)

\* No two workers have the same attempt of a job, and none has one yet to come.
AttemptsDiffer ==
  \A w \in Workers : Busy(w) =>
    /\ rows[work[w].slot] # NoRow => work[w].attempts <= rows[work[w].slot].attempts
    /\ \A v \in Workers : v # w /\ Holds(v, work[w].slot) => work[v].attempts # work[w].attempts

\* The attempts of a job that went back to the queue, or may have.
Returned(s) ==
  {n \in 1..(MaxAttempts - 1) :
     n <= rows[s].attempts /\ \A w \in Workers : Holds(w, s) => work[w].attempts # n}

\* A job is claimed again after an attempt that returned, or after a mishap.
AttemptsFit(s) ==
  /\ s \in Waiting => rows[s].attempts <= Cardinality(Returned(s)) + mishaps
  /\ rows[s].state = "running" => rows[s].attempts <= Cardinality(Returned(s)) + mishaps + 1

AttemptsCounted == \A s \in Slots : AttemptsFit(s)

WorkBounded == \A w \in Workers : Busy(w) => work[w].attempts <= MaxAttempts + Mishaps

ChainInvariant ==
  /\ ChainShape /\ WorkIsReal /\ ChainsCounted
  /\ AttemptsDiffer /\ AttemptsCounted /\ WorkBounded
  /\ ChainSurvives

\* What the shape says of a row and of a worker.
LEMMA ChainForms ==
  ASSUME ChainShape
  PROVE  /\ \A s \in Slots : /\ rows[s].state \in {"free", "queued", "running"}
                             /\ rows[s].attempts \in Nat
                             /\ rows[s] = NoRow <=> rows[s].state = "free"
         /\ \A w \in Workers : Busy(w) =>
              work[w].step \in Steps /\ work[w].slot \in Slots /\ work[w].attempts \in Nat \ {0}
         /\ \A w \in Workers : ~Busy(w) => work[w].step = "idle"
         /\ mishaps \in Nat /\ losses \in Nat
<1>1. \A s \in Slots : rows[s] \in {NoRow} \cup [state: {"queued", "running"}, attempts: Nat]
  BY DEF ChainShape
<1>2. \A w \in Workers : work[w] \in {Idle} \cup [step: Steps, slot: Slots, attempts: Nat \ {0}]
  BY DEF ChainShape
<1>3. \A s \in Slots : rows[s] = NoRow => rows[s].state = "free" /\ rows[s].attempts = 0
  BY DEF NoRow
<1>4. \A s \in Slots : rows[s] # NoRow =>
        rows[s].state \in {"queued", "running"} /\ rows[s].attempts \in Nat
  BY <1>1
<1>5. mishaps \in Nat /\ losses \in Nat
  BY ChainAssumption DEF ChainShape
<1> QED
  BY <1>2, <1>3, <1>4, <1>5 DEF Busy, Idle

LEMMA ChainSetsFinite ==
  /\ IsFiniteSet(Carriers) /\ Cardinality(Carriers) \in Nat
  /\ Cardinality(Carriers) <= Cardinality(Workers) /\ Cardinality(Workers) \in Nat
  /\ IsFiniteSet(Waiting) /\ Cardinality(Waiting) \in Nat
<1>1. Carriers \in SUBSET Workers /\ Waiting \in SUBSET Slots
  BY DEF Carriers, Waiting
<1>2. IsFiniteSet(Carriers) /\ IsFiniteSet(Waiting)
  BY <1>1, FS_Subset, ChainAssumption
<1>3. Cardinality(Carriers) <= Cardinality(Workers)
  BY <1>1, FS_Subset, ChainAssumption
<1> QED
  BY <1>2, <1>3, FS_CardinalityType, ChainAssumption

\* The rows busy workers hold are no more than the workers.
LEMMA FewHeld ==
  ASSUME ChainShape, NEW W \in SUBSET Workers, \A w \in W : Busy(w)
  PROVE  /\ IsFiniteSet({work[w].slot : w \in W})
         /\ Cardinality({work[w].slot : w \in W}) \in Nat
         /\ Cardinality({work[w].slot : w \in W}) <= Cardinality(W)
         /\ Cardinality(W) \in Nat /\ Cardinality(W) <= Cardinality(Workers)
<1> DEFINE T == {work[w].slot : w \in W}
           f == [w \in W |-> work[w].slot]
<1>1. IsFiniteSet(W) /\ Cardinality(W) \in Nat /\ Cardinality(W) <= Cardinality(Workers)
  BY FS_Subset, FS_CardinalityType, ChainAssumption
<1>2. f \in Surjection(W, T)
  BY DEF Surjection
<1>3. IsFiniteSet(T) /\ Cardinality(T) <= Cardinality(W)
  <2> HIDE DEF f, T
  <2> QED
    BY <1>1, <1>2, FS_Surjection
<1> QED
  BY <1>1, <1>3, FS_CardinalityType

\* There is always room for the next row.
LEMMA RoomForNext ==
  ASSUME ChainShape, ChainsCounted
  PROVE  NewSlot \in Unused
<1> DEFINE B == {w \in Workers : Busy(w)}
           H == {work[w].slot : w \in B}
           N == Cardinality(Workers)
<1>1. /\ IsFiniteSet(H) /\ Cardinality(H) \in Nat /\ Cardinality(H) <= N /\ N \in Nat
  <2>1. B \in SUBSET Workers /\ \A w \in B : Busy(w)
    OBVIOUS
  <2> HIDE DEF B
  <2> QED
    BY <2>1, FewHeld, ChainSetsFinite
<1>2. /\ IsFiniteSet(Waiting \cup H) /\ Cardinality(Waiting \cup H) \in Nat
      /\ Cardinality(Waiting \cup H) <= Cardinality(Waiting) + N
  <2>1. /\ IsFiniteSet(Waiting \cup H)
        /\ Cardinality(Waiting \cup H) = Cardinality(Waiting) + Cardinality(H) - Cardinality(Waiting \cap H)
    <3> HIDE DEF H
    <3> QED
      BY <1>1, ChainSetsFinite, FS_Union
  <2>2. Cardinality(Waiting \cap H) \in Nat
    <3>1. Waiting \cap H \in SUBSET H
      OBVIOUS
    <3> HIDE DEF H
    <3> QED
      BY <1>1, <3>1, FS_Subset, FS_CardinalityType
  <2>3. Cardinality(Waiting \cup H) \in Nat
    BY <2>1, FS_CardinalityType
  <2> HIDE DEF H
  <2> QED
    BY <1>1, <2>1, <2>2, <2>3, ChainSetsFinite
<1>3. Slots \ Unused \subseteq Waiting \cup H
  BY ChainForms DEF Unused, Waiting, Held, Holds, Busy
<1>4. Cardinality(Waiting) + N <= 1 + (Mishaps + 1) * N
  <2>1. mishaps \in Nat /\ Mishaps \in Nat /\ mishaps <= Mishaps
    BY ChainAssumption DEF ChainShape
  <2>2. /\ mishaps * N \in Nat /\ Mishaps * N \in Nat
        /\ (Mishaps + 1) * N = Mishaps * N + N /\ mishaps * N <= Mishaps * N
    BY <1>1, <2>1, ProductGrows
  <2> QED
    BY <1>1, <2>2, ChainSetsFinite DEF ChainsCounted
<1>5. Unused # {}
  <2>1. SUFFICES ASSUME Unused = {}
                 PROVE  FALSE
    OBVIOUS
  <2>2. Slots \in SUBSET (Waiting \cup H)
    BY <1>3, <2>1
  <2>3. Cardinality(Slots) <= Cardinality(Waiting \cup H)
    <3> HIDE DEF H
    <3> QED
      BY <1>2, <2>2, FS_Subset
  <2>4. Cardinality(Slots) \in Nat /\ Cardinality(Slots) > 1 + (Mishaps + 1) * N
    BY ChainAssumption, FS_CardinalityType
  <2>5. (Mishaps + 1) * N \in Nat
    BY <1>1, ChainAssumption
  <2> HIDE DEF H, N
  <2> QED
    BY <1>1, <1>2, <1>4, <2>3, <2>4, <2>5, ChainSetsFinite
<1>6. Unused \in SUBSET Nat
  BY ChainAssumption DEF Unused
<1> QED
  BY <1>5, <1>6, SmallestOf DEF NewSlot

-----------------------------------------------------------------------------
(* What the writes of the chain do.                                        *)

\* The row and the worker a step may touch.
OnlyRow(s) == \A t \in Slots \ {s} : rows'[t] = rows[t]
OnlyWorker(w) == \A v \in Workers \ {w} : work'[v] = work[v]

RowsShaped == rows' \in [Slots -> {NoRow} \cup [state: {"queued", "running"}, attempts: Nat]]
WorkShaped ==
  work' \in [Workers -> {Idle} \cup [step: Steps, slot: Slots, attempts: Nat \ {0}]]

LEMMA WriteRow ==
  ASSUME ChainShape, NEW s \in Slots, NEW state \in {"queued", "running"}, NEW n \in Nat,
         Write(s, state, n)
  PROVE  /\ RowsShaped /\ OnlyRow(s)
         /\ rows'[s].state = state /\ rows'[s].attempts = n /\ rows'[s] # NoRow
<1> DEFINE row == [state |-> state, attempts |-> n]
<1>1. rows' = [rows EXCEPT ![s] = row]
  BY DEF Write
<1>2. row \in [state: {"queued", "running"}, attempts: Nat] /\ row # NoRow
  BY DEF NoRow
<1>3. row.state = state /\ row.attempts = n
  OBVIOUS
<1> HIDE DEF row
<1> QED
  BY <1>1, <1>2, <1>3 DEF ChainShape, RowsShaped, OnlyRow

LEMMA ClearRow ==
  ASSUME ChainShape, NEW s \in Slots, rows' = [rows EXCEPT ![s] = NoRow]
  PROVE  RowsShaped /\ OnlyRow(s) /\ rows'[s] = NoRow
BY DEF ChainShape, RowsShaped, OnlyRow

LEMMA GotoStep ==
  ASSUME ChainShape, NEW w \in Workers, Busy(w), NEW step \in Steps, Goto(w, step)
  PROVE  /\ WorkShaped /\ OnlyWorker(w) /\ Busy(w)'
         /\ work'[w].step = step /\ work'[w].slot = work[w].slot
         /\ work'[w].attempts = work[w].attempts
<1> DEFINE job == [work[w] EXCEPT !.step = step]
           Jobs == [step: Steps, slot: Slots, attempts: Nat \ {0}]
<1>1. work' = [work EXCEPT ![w] = job]
  BY DEF Goto
<1>2. work[w] \in Jobs
  BY DEF ChainShape, Busy
<1>3. job \in Jobs /\ job.step = step /\ job.slot = work[w].slot /\ job.attempts = work[w].attempts
  BY <1>2
<1>4. job # Idle
  BY <1>3 DEF Idle, Steps
<1> HIDE DEF job
<1> QED
  BY <1>1, <1>3, <1>4 DEF ChainShape, WorkShaped, OnlyWorker, Busy

LEMMA RestWorker ==
  ASSUME ChainShape, NEW w \in Workers, Rest(w)
  PROVE  WorkShaped /\ OnlyWorker(w) /\ ~Busy(w)'
BY DEF ChainShape, Rest, WorkShaped, OnlyWorker, Busy

\* The next row is one nobody has or holds.
LEMMA EnqueueRow ==
  ASSUME ChainShape, ChainsCounted, Enqueue
  PROVE  \E s \in Slots :
           /\ rows[s] = NoRow /\ \A w \in Workers : ~Holds(w, s)
           /\ RowsShaped /\ OnlyRow(s)
           /\ rows'[s].state = "queued" /\ rows'[s].attempts = 0 /\ rows'[s] # NoRow
<1>1. NewSlot \in Slots /\ rows[NewSlot] = NoRow /\ \A w \in Workers : ~Holds(w, NewSlot)
  BY RoomForNext DEF Unused
<1> HIDE DEF NewSlot
<1>2. PICK s : s = NewSlot
  OBVIOUS
<1>3. Write(s, "queued", 0)
  BY <1>2 DEF Enqueue
<1>4. RowsShaped /\ OnlyRow(s) /\ rows'[s].state = "queued" /\ rows'[s].attempts = 0 /\ rows'[s] # NoRow
  BY <1>1, <1>2, <1>3, WriteRow
<1> QED
  BY <1>1, <1>2, <1>4

-----------------------------------------------------------------------------
(* How the counts move.                                                    *)

LEMMA CountsBelow ==
  ASSUME NEW A, NEW B, IsFiniteSet(A), IsFiniteSet(B), Carriers' \subseteq A, Waiting' \subseteq B,
         NEW m \in Nat, mishaps' = m,
         Cardinality(A) + Cardinality(B) <= 1 + m * Cardinality(Workers)
  PROVE  ChainsCounted'
<1>1. PICK C, D : C = Carriers' /\ D = Waiting'
  OBVIOUS
<1>2. /\ Cardinality(C) <= Cardinality(A) /\ Cardinality(D) <= Cardinality(B)
      /\ Cardinality(A) \in Nat /\ Cardinality(B) \in Nat
      /\ Cardinality(C) \in Nat /\ Cardinality(D) \in Nat
  BY <1>1, FS_Subset, FS_CardinalityType
<1>3. m * Cardinality(Workers) \in Nat
  BY ChainAssumption, FS_CardinalityType
<1>4. Cardinality(C) + Cardinality(D) <= 1 + m * Cardinality(Workers)
  BY <1>2, <1>3
<1> QED
  BY <1>1, <1>4 DEF ChainsCounted

\* The chain stays where it is, passes from a worker to a row or from a row to a worker.
LEMMA CountsAfterStep ==
  ASSUME ChainsCounted, mishaps \in Nat, mishaps' \in Nat, mishaps <= mishaps',
         \/ Carriers' \subseteq Carriers /\ Waiting' \subseteq Waiting
         \/ \E w \in Carriers, s \in Slots :
              Carriers' \subseteq Carriers \ {w} /\ Waiting' \subseteq Waiting \cup {s}
         \/ \E w \in Workers, s \in Waiting :
              Carriers' \subseteq Carriers \cup {w} /\ Waiting' \subseteq Waiting \ {s}
  PROVE  ChainsCounted'
<1> DEFINE N == Cardinality(Workers)
<1>1. PICK m \in Nat : mishaps' = m
  OBVIOUS
<1>2. Cardinality(Carriers) + Cardinality(Waiting) <= 1 + m * N
  <2>1. mishaps * N <= m * N /\ mishaps * N \in Nat /\ m * N \in Nat
    BY <1>1, ChainSetsFinite, ProductGrows
  <2> HIDE DEF N
  <2> QED
    BY <2>1, ChainSetsFinite DEF ChainsCounted, N
<1>3. CASE Carriers' \subseteq Carriers /\ Waiting' \subseteq Waiting
  BY <1>1, <1>2, <1>3, ChainSetsFinite, CountsBelow
<1>4. ASSUME NEW w \in Carriers, NEW s \in Slots,
             Carriers' \subseteq Carriers \ {w}, Waiting' \subseteq Waiting \cup {s}
      PROVE  ChainsCounted'
  <2>1. /\ IsFiniteSet(Carriers \ {w}) /\ Cardinality(Carriers \ {w}) = Cardinality(Carriers) - 1
        /\ IsFiniteSet(Waiting \cup {s}) /\ Cardinality(Waiting \cup {s}) <= Cardinality(Waiting) + 1
        /\ Cardinality(Waiting \cup {s}) \in Nat
    <3>1. /\ IsFiniteSet(Carriers \ {w}) /\ Cardinality(Carriers \ {w}) = Cardinality(Carriers) - 1
      BY ChainSetsFinite, FS_RemoveElement
    <3>2. /\ IsFiniteSet(Waiting \cup {s})
          /\ Cardinality(Waiting \cup {s}) \in {Cardinality(Waiting), Cardinality(Waiting) + 1}
      BY ChainSetsFinite, FS_AddElement
    <3> QED
      BY <3>1, <3>2, ChainSetsFinite
  <2>2. Cardinality(Carriers \ {w}) + Cardinality(Waiting \cup {s}) <= 1 + m * N
    <3>1. m * N \in Nat
      BY ChainSetsFinite
    <3> HIDE DEF N
    <3> QED
      BY <1>2, <2>1, <3>1, ChainSetsFinite
  <2> QED
    BY <1>1, <1>4, <2>1, <2>2, CountsBelow
<1>5. ASSUME NEW w \in Workers, NEW s \in Waiting,
             Carriers' \subseteq Carriers \cup {w}, Waiting' \subseteq Waiting \ {s}
      PROVE  ChainsCounted'
  <2>1. /\ IsFiniteSet(Waiting \ {s}) /\ Cardinality(Waiting \ {s}) = Cardinality(Waiting) - 1
        /\ IsFiniteSet(Carriers \cup {w}) /\ Cardinality(Carriers \cup {w}) <= Cardinality(Carriers) + 1
        /\ Cardinality(Carriers \cup {w}) \in Nat
    BY ChainSetsFinite, FS_RemoveElement, FS_AddElement
  <2>2. Cardinality(Carriers \cup {w}) + Cardinality(Waiting \ {s}) <= 1 + m * N
    <3>1. m * N \in Nat
      BY ChainSetsFinite
    <3> HIDE DEF N
    <3> QED
      BY <1>2, <2>1, <3>1, ChainSetsFinite
  <2> QED
    BY <1>1, <1>5, <2>1, <2>2, CountsBelow
<1> QED
  BY <1>3, <1>4, <1>5

\* A mishap leaves behind at most what the workers had in hand.
LEMMA CountsAfterMishap ==
  ASSUME ChainShape, ChainsCounted, mishaps' = mishaps + 1,
         NEW W \in SUBSET Workers, \A w \in W : Busy(w),
         Carriers' \subseteq Carriers, Waiting' \subseteq Waiting \cup {work[w].slot : w \in W}
  PROVE  ChainsCounted'
<1> DEFINE N == Cardinality(Workers)
           H == {work[w].slot : w \in W}
<1>1. mishaps \in Nat /\ N \in Nat
  BY ChainForms, ChainSetsFinite
<1>2. IsFiniteSet(H) /\ Cardinality(H) \in Nat /\ Cardinality(H) <= N
  <2>1. /\ IsFiniteSet(H) /\ Cardinality(H) \in Nat /\ Cardinality(H) <= Cardinality(W)
        /\ Cardinality(W) \in Nat /\ Cardinality(W) <= N
    BY FewHeld
  <2> HIDE DEF H, N
  <2> QED
    BY <1>1, <2>1
<1>3. /\ IsFiniteSet(Waiting \cup H)
      /\ Cardinality(Waiting \cup H) = Cardinality(Waiting) + Cardinality(H) - Cardinality(Waiting \cap H)
  <2> HIDE DEF H
  <2> QED
    BY <1>2, ChainSetsFinite, FS_Union
<1>4. Cardinality(Waiting \cap H) \in Nat /\ Cardinality(Waiting \cup H) \in Nat
  <2>1. Waiting \cap H \in SUBSET H
    OBVIOUS
  <2> HIDE DEF H
  <2> QED
    BY <1>2, <1>3, <2>1, FS_Subset, FS_CardinalityType
<1>5. PICK m \in Nat : m = mishaps + 1
  BY <1>1
<1>6. m * N = mishaps * N + N /\ mishaps * N \in Nat
  BY <1>1, <1>5, ProductGrows
<1>7. Cardinality(Carriers) + Cardinality(Waiting \cup H) <= 1 + m * N
  <2>1. Cardinality(Carriers) + Cardinality(Waiting) <= 1 + mishaps * N
    BY DEF ChainsCounted
  <2> HIDE DEF H, N
  <2> QED
    BY <1>1, <1>2, <1>3, <1>4, <1>6, <2>1, ChainSetsFinite
<1>8. Waiting' \subseteq Waiting \cup H
  OBVIOUS
<1> HIDE DEF H, N
<1>9. Cardinality(Carriers) + Cardinality(Waiting \cup H) <= 1 + m * Cardinality(Workers)
  BY <1>7 DEF N
<1> QED
  BY <1>3, <1>5, <1>8, <1>9, ChainSetsFinite, CountsBelow

-----------------------------------------------------------------------------
(* How the attempts move.                                                  *)

\* Workers keep the jobs they have, or let go of them.
JobsOnlyEnd ==
  \A w \in Workers : Busy(w)' =>
    Busy(w) /\ work'[w].slot = work[w].slot /\ work'[w].attempts = work[w].attempts

\* A row is kept, unless a mishap cost its attempt; or it is new or cleared; or an
\* attempt that was not the last one returned it.
RowKept(s) ==
  /\ rows'[s].attempts = rows[s].attempts
  /\ rows'[s] # NoRow => rows[s] # NoRow
  /\ rows'[s].state = "running" => rows[s].state = "running"
  /\ s \in Waiting' => s \in Waiting \/ (mishaps' = mishaps + 1 /\ rows[s].state = "running")

RowBegins(s) == rows'[s].attempts = 0 /\ (rows'[s] = NoRow \/ ~Held(s)')

RowReturns(s) ==
  /\ rows'[s].attempts = rows[s].attempts
  /\ rows[s].state = "running" /\ rows'[s].state = "queued"
  /\ \E w \in Workers : Holds(w, s) /\ ~Busy(w)' /\ work[w].attempts < MaxAttempts

RowsMoveOn == \A s \in Slots : RowKept(s) \/ RowBegins(s) \/ RowReturns(s)

LEMMA ReturnedFinite ==
  ASSUME NEW s
  PROVE  /\ IsFiniteSet(Returned(s)) /\ Cardinality(Returned(s)) \in Nat
         /\ Cardinality(Returned(s)) <= MaxAttempts - 1
         /\ IsFiniteSet(Returned(s)') /\ Cardinality(Returned(s)') \in Nat
<1>1. /\ IsFiniteSet(1..(MaxAttempts - 1)) /\ Cardinality(1..(MaxAttempts - 1)) = MaxAttempts - 1
  <2>1. MaxAttempts - 1 \in Nat /\ 1 \in Int /\ MaxAttempts - 1 \in Int
    BY ChainAssumption
  <2>2. Cardinality(1..(MaxAttempts - 1)) = IF 1 > MaxAttempts - 1 THEN 0 ELSE (MaxAttempts - 1) - 1 + 1
    BY <2>1, FS_Interval
  <2> QED
    BY <2>1, <2>2, FS_Interval
<1>2. Returned(s) \in SUBSET (1..(MaxAttempts - 1)) /\ Returned(s)' \in SUBSET (1..(MaxAttempts - 1))
  BY DEF Returned
<1> QED
  BY <1>1, <1>2, FS_Subset, FS_CardinalityType

LEMMA ReturnedGrows ==
  ASSUME ChainShape, JobsOnlyEnd, NEW s \in Slots, rows'[s].attempts = rows[s].attempts
  PROVE  /\ Returned(s) \subseteq Returned(s)'
         /\ Cardinality(Returned(s)) <= Cardinality(Returned(s)')
<1>1. Returned(s) \subseteq Returned(s)'
  BY DEF Returned, JobsOnlyEnd, Holds, Busy
<1> QED
  BY <1>1, ReturnedFinite, FS_Subset

LEMMA AttemptsStay ==
  ASSUME ChainShape, AttemptsDiffer, AttemptsCounted, WorkBounded, JobsOnlyEnd, RowsMoveOn,
         mishaps' \in Nat, mishaps <= mishaps'
  PROVE  AttemptsDiffer' /\ AttemptsCounted' /\ WorkBounded'
<1>1. WorkBounded'
  BY DEF WorkBounded, JobsOnlyEnd
<1>2. AttemptsDiffer'
  <2> SUFFICES ASSUME NEW w \in Workers, Busy(w)'
               PROVE  /\ rows'[work'[w].slot] # NoRow => work'[w].attempts <= rows'[work'[w].slot].attempts
                      /\ \A v \in Workers : v # w /\ Busy(v)' /\ work'[v].slot = work'[w].slot
                                              => work'[v].attempts # work'[w].attempts
    BY DEF AttemptsDiffer, Holds, Busy
  <2>1. PICK s \in Slots : /\ Busy(w) /\ work[w].slot = s
                           /\ work'[w].slot = s /\ work'[w].attempts = work[w].attempts
    BY ChainForms DEF JobsOnlyEnd
  <2>2. Held(s)'
    BY <2>1 DEF Held, Holds, Busy
  <2>3. rows'[s] # NoRow => rows[s] # NoRow /\ rows'[s].attempts = rows[s].attempts
    BY <2>2, ChainForms DEF RowsMoveOn, RowKept, RowBegins, RowReturns
  <2>4. rows'[s] # NoRow => work'[w].attempts <= rows'[s].attempts
    BY <2>1, <2>3 DEF AttemptsDiffer
  <2>5. \A v \in Workers : v # w /\ Busy(v)' /\ work'[v].slot = s => work'[v].attempts # work'[w].attempts
    BY <2>1 DEF AttemptsDiffer, JobsOnlyEnd, Holds, Busy
  <2> QED
    BY <2>1, <2>4, <2>5
<1>3. ASSUME NEW s \in Slots
      PROVE  AttemptsFit(s)'
  <2>1. mishaps \in Nat /\ rows[s].attempts \in Nat
    BY ChainForms
  <2>2. AttemptsFit(s)
    BY DEF AttemptsCounted
  <2>3. CASE RowKept(s)
    <3>1. Cardinality(Returned(s)) <= Cardinality(Returned(s)')
      BY <2>3, ReturnedGrows DEF RowKept
    <3>2. PICK old \in Nat, new \in Nat : old = Cardinality(Returned(s)) /\ new = Cardinality(Returned(s)')
      BY ReturnedFinite
    <3>3. s \in Waiting' => rows'[s].attempts <= new + mishaps'
      BY <2>1, <2>2, <2>3, <3>1, <3>2 DEF AttemptsFit, RowKept
    <3>4. rows'[s].state = "running" => rows'[s].attempts <= new + mishaps' + 1
      BY <2>1, <2>2, <2>3, <3>1, <3>2 DEF AttemptsFit, RowKept
    <3> QED
      BY <3>2, <3>3, <3>4 DEF AttemptsFit
  <2>4. CASE RowBegins(s)
    <3>1. PICK new \in Nat : new = Cardinality(Returned(s)')
      BY ReturnedFinite
    <3>2. rows'[s].attempts <= new + mishaps' /\ rows'[s].attempts <= new + mishaps' + 1
      BY <2>4, <3>1 DEF RowBegins
    <3> QED
      BY <3>1, <3>2 DEF AttemptsFit
  <2>5. CASE RowReturns(s)
    <3>1. PICK w \in Workers : Holds(w, s) /\ ~Busy(w)' /\ work[w].attempts < MaxAttempts
      BY <2>5 DEF RowReturns
    <3>2. PICK k \in 1..(MaxAttempts - 1) : k = work[w].attempts /\ k <= rows[s].attempts
      BY <2>5, <3>1, ChainForms, ChainAssumption DEF RowReturns, AttemptsDiffer, Holds, Busy, NoRow
    <3>3. k \notin Returned(s)
      BY <3>1, <3>2 DEF Returned
    <3>4. k \in Returned(s)'
      BY <2>5, <3>1, <3>2 DEF Returned, RowReturns, JobsOnlyEnd, AttemptsDiffer, Holds, Busy
    <3>5. PICK A, B : A = Returned(s) /\ B = Returned(s)'
      OBVIOUS
    <3>6. /\ IsFiniteSet(A) /\ IsFiniteSet(B) /\ A \cup {k} \subseteq B /\ k \notin A
          /\ Cardinality(A) \in Nat /\ Cardinality(B) \in Nat
      BY <2>5, <3>3, <3>4, <3>5, ReturnedFinite, ReturnedGrows DEF RowReturns
    <3>7. Cardinality(A) + 1 <= Cardinality(B)
      <4>1. Cardinality(A \cup {k}) = Cardinality(A) + 1
        BY <3>6, FS_AddElement
      <4>2. Cardinality(A \cup {k}) <= Cardinality(B)
        BY <3>6, FS_Subset
      <4> QED
        BY <4>1, <4>2
    <3>8. rows[s].attempts <= Cardinality(A) + mishaps + 1
      BY <2>2, <2>5, <3>5 DEF AttemptsFit, RowReturns
    <3>9. rows'[s].attempts <= Cardinality(B) + mishaps'
      BY <2>1, <2>5, <3>6, <3>7, <3>8 DEF RowReturns
    <3> QED
      BY <2>5, <3>5, <3>9 DEF AttemptsFit, RowReturns
  <2> QED
    BY <2>3, <2>4, <2>5 DEF RowsMoveOn
<1> QED
  BY <1>1, <1>2, <1>3 DEF AttemptsCounted

-----------------------------------------------------------------------------
(* The steps of the chain.                                                 *)

\* Nobody but w touches its job: who holds a row afterwards did so before.
LEMMA OthersKeepJobs ==
  ASSUME NEW w \in Workers, OnlyWorker(w), Busy(w),
         Busy(w)' => work'[w].slot = work[w].slot /\ work'[w].attempts = work[w].attempts
  PROVE  /\ JobsOnlyEnd
         /\ \A v \in Workers, s \in Slots : Holds(v, s)' => Holds(v, s)
         /\ \A v \in Workers, s \in Slots : v # w /\ Holds(v, s) => Holds(v, s)'
         /\ \A v \in Workers : v # w => work'[v] = work[v]
         /\ Busy(w)' => \A s \in Slots : Holds(w, s) => Holds(w, s)'
BY DEF OnlyWorker, JobsOnlyEnd, Busy, Holds

LEMMA StartWorkerStep ==
  ASSUME ChainInvariant, StartWorker
  PROVE  ChainInvariant'
<1> USE DEF ChainInvariant
<1>1. /\ process = "down" /\ process' = "up" /\ work' = work /\ mishaps' = mishaps
      /\ losses' = losses /\ \A w \in Workers : ~Busy(w) /\ ~Busy(w)'
  BY DEF StartWorker, WorkIsReal, Busy
<1>2. /\ JobsOnlyEnd /\ WorkIsReal' /\ Carriers = {} /\ Carriers' = {}
      /\ \A s \in Slots : ~Held(s) /\ ~Held(s)' /\ ~Spent(s)'
      /\ mishaps \in Nat /\ mishaps <= mishaps'
  BY <1>1, ChainForms DEF JobsOnlyEnd, WorkIsReal, Carriers, Held, Holds, Spent, Busy
<1>3. CASE Pending = {} /\ Enqueue
  <2>1. PICK s \in Slots : /\ rows[s] = NoRow /\ RowsShaped /\ OnlyRow(s)
                           /\ rows'[s].state = "queued" /\ rows'[s].attempts = 0
    BY <1>3, EnqueueRow
  <2>2. ChainShape'
    BY <1>1, <2>1 DEF ChainShape, RowsShaped
  <2>3. Waiting = {} /\ Waiting' \subseteq {s}
    BY <1>2, <1>3, <2>1, ChainForms DEF Waiting, Pending, OnlyRow
  <2>4. ChainsCounted'
    <3>1. PICK p \in Nat : p = mishaps * Cardinality(Workers)
      BY <1>2, ChainSetsFinite
    <3>2. Cardinality({}) + Cardinality({s}) <= 1 + mishaps * Cardinality(Workers)
      <4>1. Cardinality({}) = 0 /\ Cardinality({s}) = 1
        BY FS_EmptySet, FS_Singleton
      <4>2. 0 + 1 <= 1 + p
        OBVIOUS
      <4> QED
        BY <3>1, <4>1, <4>2
    <3> QED
      BY <1>1, <1>2, <2>3, <3>2, FS_EmptySet, FS_Singleton, CountsBelow
  <2>5. RowsMoveOn
    BY <1>2, <2>1, <2>3 DEF RowsMoveOn, RowKept, RowBegins, OnlyRow
  <2>6. AttemptsDiffer' /\ AttemptsCounted' /\ WorkBounded'
    BY <1>1, <1>2, <2>5, AttemptsStay
  <2>7. s \in Links'
    BY <1>2, <2>1 DEF Links, Pending
  <2> QED
    BY <1>2, <2>2, <2>4, <2>6, <2>7 DEF ChainSurvives
<1>4. CASE Pending # {} /\ rows' = rows
  <2>1. ChainShape'
    BY <1>1, <1>4 DEF ChainShape
  <2>2. Waiting' \subseteq Waiting
    BY <1>2, <1>4 DEF Waiting
  <2>3. ChainsCounted'
    BY <1>1, <1>2, <2>2, CountsAfterStep
  <2>4. RowsMoveOn
    BY <1>4, <2>2 DEF RowsMoveOn, RowKept
  <2>5. AttemptsDiffer' /\ AttemptsCounted' /\ WorkBounded'
    BY <1>1, <1>2, <2>4, AttemptsStay
  <2>6. Links' # {}
    BY <1>2, <1>4 DEF Links, Pending
  <2> QED
    BY <1>2, <2>1, <2>3, <2>5, <2>6 DEF ChainSurvives
<1> QED
  BY <1>3, <1>4 DEF StartWorker, EnsureRecurring

LEMMA ClaimStep ==
  ASSUME ChainInvariant, NEW w \in Workers, Claim(w)
  PROVE  ChainInvariant'
<1> USE DEF ChainInvariant
<1>1. PICK s \in Slots :
        LET n == rows[s].attempts + 1 IN
        /\ rows[s].state = "queued"
        /\ Write(s, "running", n)
        /\ work' = [work EXCEPT ![w] = [step |-> "handle", slot |-> s, attempts |-> n]]
  BY DEF Claim
<1>2. PICK n \in Nat \ {0} : n = rows[s].attempts + 1
  BY ChainForms
<1>3. /\ process = "up" /\ process' = process /\ mishaps' = mishaps /\ losses' = losses
      /\ ~Busy(w) /\ rows[s] # NoRow /\ mishaps \in Nat
  BY <1>1, ChainForms DEF Claim, Busy, NoRow
<1>4. /\ RowsShaped /\ OnlyRow(s) /\ rows'[s].state = "running" /\ rows'[s].attempts = n
      /\ rows'[s] # NoRow
  BY <1>1, <1>2, WriteRow
<1>5. /\ WorkShaped /\ OnlyWorker(w) /\ Busy(w)' /\ Holds(w, s)'
      /\ work'[w].step = "handle" /\ work'[w].slot = s /\ work'[w].attempts = n
  <2> DEFINE job == [step |-> "handle", slot |-> s, attempts |-> n]
  <2>1. work' = [work EXCEPT ![w] = job]
    BY <1>1, <1>2
  <2>2. /\ job \in [step: Steps, slot: Slots, attempts: Nat \ {0}] /\ job # Idle
        /\ job.step = "handle" /\ job.slot = s /\ job.attempts = n
    BY DEF Steps, Idle
  <2> HIDE DEF job
  <2>3. WorkShaped /\ OnlyWorker(w) /\ work'[w] = job
    BY <2>1, <2>2 DEF ChainShape, WorkShaped, OnlyWorker
  <2> QED
    BY <2>2, <2>3 DEF Busy, Holds
<1>6. ChainShape'
  BY <1>3, <1>4, <1>5 DEF ChainShape, RowsShaped, WorkShaped
<1>7. /\ \A v \in Workers \ {w} : work'[v] = work[v] /\ \A t \in Slots : Holds(v, t)' <=> Holds(v, t)
      /\ \A t \in Slots \ {s} : ~Holds(w, t)' /\ (Held(t)' <=> Held(t))
  BY <1>3, <1>5 DEF OnlyWorker, Holds, Held, Busy
<1>8. WorkIsReal'
  BY <1>1, <1>3, <1>4, <1>5, <1>7, ChainForms DEF WorkIsReal, Busy, OnlyRow
<1>9. s \in Waiting /\ Waiting' \subseteq Waiting \ {s} /\ Carriers' \subseteq Carriers \cup {w}
  <2>1. s \in Waiting /\ Carriers' \subseteq Carriers \cup {w}
    BY <1>1, <1>7 DEF Waiting, Carriers, Busy
  <2>2. s \notin Waiting'
    BY <1>4, <1>5 DEF Waiting, Held
  <2>3. \A t \in Slots \ {s} : t \in Waiting' => t \in Waiting
    BY <1>4, <1>7 DEF Waiting, OnlyRow
  <2> QED
    BY <2>1, <2>2, <2>3 DEF Waiting
<1>10. ChainsCounted'
  BY <1>3, <1>9, CountsAfterStep
<1>11. \A v \in Workers : Holds(v, s) => work[v].attempts < n
  BY <1>2, <1>3, ChainForms DEF AttemptsDiffer, Holds, Busy
<1>12. AttemptsDiffer'
  <2>1. ASSUME NEW v \in Workers, v # w, Busy(v)
        PROVE  /\ rows'[work[v].slot] # NoRow => work[v].attempts <= rows'[work[v].slot].attempts
               /\ Holds(v, s) => work[v].attempts # n
    BY <1>2, <1>4, <1>11, <2>1, ChainForms DEF AttemptsDiffer, OnlyRow, Holds, Busy
  <2> QED
    BY <1>2, <1>4, <1>5, <1>7, <1>11, <2>1, ChainForms DEF AttemptsDiffer, Holds, Busy
<1>13. AttemptsCounted' /\ WorkBounded'
  <2>1. rows[s].attempts <= Cardinality(Returned(s)) + mishaps
    BY <1>9 DEF AttemptsCounted, AttemptsFit
  <2>2. WorkBounded'
    <3>1. PICK c \in Nat : c = Cardinality(Returned(s)) /\ c <= MaxAttempts - 1
      BY ReturnedFinite
    <3>2. mishaps \in Nat /\ mishaps <= Mishaps /\ Mishaps \in Nat /\ MaxAttempts \in Nat
      BY ChainAssumption DEF ChainShape
    <3>3. n <= MaxAttempts + Mishaps
      BY <1>2, <2>1, <3>1, <3>2, ChainForms
    <3> QED
      BY <1>5, <1>7, <3>3 DEF WorkBounded, Busy
  <2>3. AttemptsFit(s)'
    <3>1. Returned(s) \subseteq Returned(s)'
      <4> SUFFICES ASSUME NEW k \in Returned(s)
                   PROVE  k \in Returned(s)'
        OBVIOUS
      <4>1. k \in 1..(MaxAttempts - 1) /\ k <= rows[s].attempts /\ k < n /\ k <= rows'[s].attempts
        BY <1>2, <1>4, ChainForms DEF Returned
      <4>2. \A v \in Workers : Holds(v, s)' => work'[v].attempts # k
        BY <1>5, <1>7, <4>1 DEF Returned
      <4> QED
        BY <4>1, <4>2 DEF Returned
    <3>2. PICK old \in Nat, new \in Nat :
            old = Cardinality(Returned(s)) /\ new = Cardinality(Returned(s)') /\ old <= new
      BY <3>1, ReturnedFinite, FS_Subset
    <3>3. rows'[s].attempts <= new + mishaps' + 1
      BY <1>2, <1>3, <1>4, <2>1, <3>2, ChainForms
    <3>4. s \notin Waiting'
      BY <1>9
    <3> QED
      BY <3>2, <3>3, <3>4 DEF AttemptsFit
  <2>4. ASSUME NEW t \in Slots \ {s}
        PROVE  AttemptsFit(t)'
    <3>1. Returned(t)' = Returned(t)
      <4>1. rows'[t] = rows[t]
        BY <1>4 DEF OnlyRow
      <4>2. ASSUME NEW k
            PROVE  (\A v \in Workers : Holds(v, t)' => work'[v].attempts # k)
                     <=> (\A v \in Workers : Holds(v, t) => work[v].attempts # k)
        BY <1>3, <1>7 DEF Holds, Busy
      <4> QED
        BY <4>1, <4>2 DEF Returned
    <3>2. t \in Waiting' => t \in Waiting
      BY <1>9
    <3> QED
      BY <1>3, <1>4, <3>1, <3>2 DEF AttemptsCounted, AttemptsFit, OnlyRow
  <2> QED
    BY <2>2, <2>3, <2>4 DEF AttemptsCounted
<1>14. ChainSurvives'
  <2>1. \A t \in Links : t \in Links'
    BY <1>1, <1>4, <1>5, <1>7 DEF Links, Pending, Spent, OnlyRow
  <2>2. \A v \in Hooks : v \in Hooks'
    BY <1>3, <1>7, ChainForms DEF Hooks
  <2> QED
    BY <1>3, <2>1, <2>2 DEF ChainSurvives
<1> QED
  BY <1>6, <1>8, <1>10, <1>12, <1>13, <1>14

\* A worker goes on to its next step and nothing else happens to the chain, or it could
\* not queue the next row.
LEMMA GotoChainStep ==
  ASSUME ChainInvariant, NEW w \in Workers, NEW step \in Steps \ {"hook"},
         Busy(w), process # "down", work[w].step \in {"handle", "reschedule"}, Goto(w, step),
         rows' = rows, process' = process, mishaps' \in 0..Mishaps, mishaps <= mishaps',
         losses' \in 0..Losses, losses <= losses',
         step = "done" => process = "stopping" \/ losses' # 0
  PROVE  ChainInvariant'
<1> USE DEF ChainInvariant
<1>1. /\ WorkShaped /\ OnlyWorker(w) /\ Busy(w)'
      /\ work'[w].step = step /\ work'[w].slot = work[w].slot /\ work'[w].attempts = work[w].attempts
  BY GotoStep
<1>2. /\ JobsOnlyEnd
      /\ \A v \in Workers, s \in Slots : Holds(v, s)' <=> Holds(v, s)
      /\ \A v \in Workers : v # w => work'[v] = work[v]
  BY <1>1, OthersKeepJobs
<1>3. ChainShape'
  BY <1>1 DEF ChainShape, WorkShaped
<1>4. WorkIsReal'
  BY <1>1, <1>2 DEF WorkIsReal, Busy
<1>5. Waiting' = Waiting /\ Carriers' \subseteq Carriers
  <2>1. \A s \in Slots : Held(s)' <=> Held(s)
    BY <1>2 DEF Held
  <2>2. \A v \in Workers : v \in Carriers' => v \in Carriers
    BY <1>2 DEF Carriers, Busy
  <2> QED
    BY <2>1, <2>2 DEF Waiting, Carriers
<1>6. mishaps \in Nat /\ mishaps' \in Nat /\ losses \in Nat
  BY ChainForms, ChainAssumption
<1>7. ChainsCounted'
  BY <1>5, <1>6, CountsAfterStep
<1>8. RowsMoveOn
  BY <1>5 DEF RowsMoveOn, RowKept
<1>9. AttemptsDiffer' /\ AttemptsCounted' /\ WorkBounded'
  BY <1>2, <1>6, <1>8, AttemptsStay
<1>10. ChainSurvives'
  <2> SUFFICES ASSUME process' = "up", losses' = 0
               PROVE  Links' \cup Hooks' # {}
    BY DEF ChainSurvives
  <2>1. step # "done" /\ losses = 0
    BY <1>6, ChainAssumption
  <2>2. \A s \in Slots : Spent(s)' => Spent(s)
    BY <1>1, <1>2, <2>1 DEF Spent
  <2>3. \A s \in Links : s \in Links'
    BY <2>2 DEF Links, Pending
  <2>4. \A v \in Hooks : v \in Hooks'
    BY <1>2 DEF Hooks
  <2> QED
    BY <2>1, <2>3, <2>4 DEF ChainSurvives
<1> QED
  BY <1>3, <1>4, <1>7, <1>9, <1>10

\* A worker lets go of a job that is not running any more, or marks its own done.
LEMMA RestChainStep ==
  ASSUME ChainInvariant, NEW w \in Workers, Busy(w), process # "down", Rest(w),
         \/ rows' = rows /\ rows[work[w].slot].state # "running"
         \/ work[w].step = "done" /\ rows' = [rows EXCEPT ![work[w].slot] = NoRow],
         process' = process, mishaps' = mishaps, losses' \in 0..Losses,
         losses' = losses \/ losses' # 0, work[w].step = "hook" => losses' # 0
  PROVE  ChainInvariant'
<1> USE DEF ChainInvariant
<1>1. WorkShaped /\ OnlyWorker(w) /\ ~Busy(w)'
  BY RestWorker
<1>2. /\ JobsOnlyEnd
      /\ \A v \in Workers, t \in Slots : Holds(v, t)' => Holds(v, t)
      /\ \A v \in Workers, t \in Slots : v # w /\ Holds(v, t) => Holds(v, t)'
      /\ \A v \in Workers : v # w => work'[v] = work[v]
  BY <1>1, OthersKeepJobs
<1>3. PICK s \in Slots : s = work[w].slot /\ Holds(w, s) /\ \A t \in Slots : Holds(w, t) => t = s
  BY ChainForms DEF Holds, Busy
<1>4. RowsShaped /\ OnlyRow(s) /\ (rows'[s] = rows[s] \/ rows'[s] = NoRow) /\ rows'[s].state # "running"
  BY <1>3, ClearRow DEF ChainShape, RowsShaped, OnlyRow, NoRow
<1>5. ChainShape'
  BY <1>1, <1>4 DEF ChainShape, RowsShaped, WorkShaped
<1>6. WorkIsReal'
  BY <1>1, <1>2, <1>4, ChainForms DEF WorkIsReal, Busy, OnlyRow
<1>7. Waiting' \subseteq Waiting /\ Carriers' \subseteq Carriers
  <2>1. \A t \in Slots \ {s} : rows'[t] = rows[t] /\ (Held(t)' <=> Held(t))
    BY <1>2, <1>3, <1>4 DEF Held, OnlyRow
  <2>2. \A t \in Slots \ {s} : t \in Waiting' => t \in Waiting
    BY <2>1 DEF Waiting
  <2>3. s \in Waiting' => s \in Waiting
    BY <1>4 DEF Waiting, NoRow
  <2>4. \A v \in Workers : v \in Carriers' => v \in Carriers
    BY <1>1, <1>2 DEF Carriers, Busy
  <2> QED
    BY <2>2, <2>3, <2>4 DEF Waiting, Carriers
<1>8. mishaps \in Nat
  BY ChainForms
<1>9. ChainsCounted'
  BY <1>7, <1>8, CountsAfterStep
<1>10. RowsMoveOn
  BY <1>4, <1>7 DEF RowsMoveOn, RowKept, RowBegins, OnlyRow, NoRow
<1>11. AttemptsDiffer' /\ AttemptsCounted' /\ WorkBounded'
  BY <1>2, <1>8, <1>10, AttemptsStay
<1>12. ChainSurvives'
  <2> SUFFICES ASSUME process' = "up", losses' = 0
               PROVE  Links' \cup Hooks' # {}
    BY DEF ChainSurvives
  <2>1. losses = 0 /\ work[w].step # "hook"
    OBVIOUS
  <2>2. \A t \in Slots : Spent(t)' => Spent(t)
    BY <1>1, <1>2 DEF Spent, Holds, Busy
  <2>3. \A t \in Links : t \in Links'
    <3>1. ASSUME NEW t \in Links
          PROVE  rows'[t] = rows[t]
      <4>1. CASE rows' = rows
        BY <4>1
      <4>2. CASE work[w].step = "done"
        <5>1. Spent(s)
          BY <1>3, <4>2 DEF Spent
        <5>2. t \in Slots \ {s}
          BY <3>1, <5>1 DEF Links, Pending
        <5> QED
          BY <1>4, <5>2 DEF OnlyRow
      <4> QED
        BY <4>1, <4>2
    <3> QED
      BY <2>2, <3>1 DEF Links, Pending
  <2>4. \A v \in Hooks : v \in Hooks'
    BY <1>2, <2>1 DEF Hooks
  <2> QED
    BY <2>1, <2>3, <2>4 DEF ChainSurvives
<1> QED
  BY <1>5, <1>6, <1>9, <1>11, <1>12

\* The last attempt is parked and the hook is about to run.
LEMMA ParkChainStep ==
  ASSUME ChainInvariant, NEW w \in Workers, Busy(w), process # "down",
         work[w].step \in {"retry", "terminal"}, Goto(w, "hook"),
         rows' = [rows EXCEPT ![work[w].slot] = NoRow],
         UNCHANGED <<process, mishaps, losses>>
  PROVE  ChainInvariant'
<1> USE DEF ChainInvariant
<1>1. /\ WorkShaped /\ OnlyWorker(w) /\ Busy(w)'
      /\ work'[w].step = "hook" /\ work'[w].slot = work[w].slot /\ work'[w].attempts = work[w].attempts
  BY GotoStep DEF Steps
<1>2. /\ JobsOnlyEnd
      /\ \A v \in Workers, s \in Slots : Holds(v, s)' <=> Holds(v, s)
      /\ \A v \in Workers : v # w => work'[v] = work[v]
  BY <1>1, OthersKeepJobs
<1>3. PICK s \in Slots : s = work[w].slot
  BY ChainForms
<1>4. RowsShaped /\ OnlyRow(s) /\ rows'[s] = NoRow
  BY <1>3, ClearRow
<1>5. ChainShape'
  BY <1>1, <1>4 DEF ChainShape, RowsShaped, WorkShaped
<1>6. WorkIsReal'
  BY <1>1, <1>2, <1>3, <1>4, ChainForms DEF WorkIsReal, Busy, OnlyRow
<1>7. Waiting' \subseteq Waiting /\ Carriers' \subseteq Carriers
  <2>1. \A t \in Slots : Held(t)' <=> Held(t)
    BY <1>2 DEF Held
  <2>2. \A v \in Workers : v \in Carriers' => v \in Carriers
    BY <1>2 DEF Carriers, Busy
  <2> QED
    BY <1>4, <2>1, <2>2 DEF Waiting, Carriers, OnlyRow, NoRow
<1>8. mishaps \in Nat
  BY ChainForms
<1>9. ChainsCounted'
  BY <1>7, <1>8, CountsAfterStep
<1>10. RowsMoveOn
  BY <1>4, <1>7 DEF RowsMoveOn, RowKept, RowBegins, OnlyRow, NoRow
<1>11. AttemptsDiffer' /\ AttemptsCounted' /\ WorkBounded'
  BY <1>2, <1>8, <1>10, AttemptsStay
<1>12. w \in Hooks'
  BY <1>1 DEF Hooks
<1> QED
  BY <1>5, <1>6, <1>9, <1>11, <1>12 DEF ChainSurvives

\* An attempt that was not the last returns its running job to the queue.
LEMMA ReturnChainStep ==
  ASSUME ChainInvariant, NEW w \in Workers, Busy(w), process # "down",
         work[w].step = "retry", work[w].attempts < MaxAttempts, Rest(w),
         rows[work[w].slot].state = "running",
         Write(work[w].slot, "queued", rows[work[w].slot].attempts),
         UNCHANGED <<process, mishaps, losses>>
  PROVE  ChainInvariant'
<1> USE DEF ChainInvariant
<1>1. WorkShaped /\ OnlyWorker(w) /\ ~Busy(w)'
  BY RestWorker
<1>2. /\ JobsOnlyEnd
      /\ \A v \in Workers, t \in Slots : Holds(v, t)' => Holds(v, t)
      /\ \A v \in Workers, t \in Slots : v # w /\ Holds(v, t) => Holds(v, t)'
      /\ \A v \in Workers : v # w => work'[v] = work[v]
  BY <1>1, OthersKeepJobs
<1>3. PICK s \in Slots : s = work[w].slot /\ Holds(w, s) /\ \A t \in Slots : Holds(w, t) => t = s
  BY ChainForms DEF Holds, Busy
<1>4. /\ RowsShaped /\ OnlyRow(s) /\ rows'[s].state = "queued"
      /\ rows'[s].attempts = rows[s].attempts /\ rows[s].state = "running" /\ rows[s] # NoRow
  BY <1>3, ChainForms, WriteRow
<1>5. ChainShape'
  BY <1>1, <1>4 DEF ChainShape, RowsShaped, WorkShaped
<1>6. WorkIsReal'
  BY <1>1, <1>2, <1>4, ChainForms DEF WorkIsReal, Busy, OnlyRow
<1>7. /\ Waiting' \subseteq Waiting \cup {s} /\ Carriers' \subseteq Carriers \ {w} /\ w \in Carriers
      /\ \A t \in Slots \ {s} : t \in Waiting' => t \in Waiting
  <2>1. \A t \in Slots \ {s} : rows'[t] = rows[t] /\ (Held(t)' <=> Held(t))
    BY <1>2, <1>3, <1>4 DEF Held, OnlyRow
  <2>2. \A t \in Slots \ {s} : t \in Waiting' => t \in Waiting
    BY <2>1 DEF Waiting
  <2>3. \A v \in Workers : v \in Carriers' => v # w /\ v \in Carriers
    BY <1>1, <1>2 DEF Carriers, Busy
  <2> QED
    BY <2>2, <2>3 DEF Waiting, Carriers
<1>8. mishaps \in Nat
  BY ChainForms
<1>9. ChainsCounted'
  BY <1>7, <1>8, CountsAfterStep
<1>10. RowsMoveOn
  <2>1. RowReturns(s)
    BY <1>1, <1>3, <1>4 DEF RowReturns
  <2>2. \A t \in Slots \ {s} : RowKept(t)
    BY <1>4, <1>7 DEF RowKept, OnlyRow
  <2> QED
    BY <2>1, <2>2 DEF RowsMoveOn
<1>11. AttemptsDiffer' /\ AttemptsCounted' /\ WorkBounded'
  BY <1>2, <1>8, <1>10, AttemptsStay
<1>12. ChainSurvives'
  <2>1. \A t \in Slots : Spent(t)' => Spent(t)
    BY <1>1, <1>2 DEF Spent, Holds, Busy
  <2>2. \A t \in Links : t \in Links'
    BY <1>4, <2>1 DEF Links, Pending, OnlyRow
  <2>3. \A v \in Hooks : v \in Hooks'
    BY <1>2 DEF Hooks
  <2> QED
    BY <2>2, <2>3 DEF ChainSurvives
<1> QED
  BY <1>5, <1>6, <1>9, <1>11, <1>12

\* The next row is queued, by the handler at its end or by the hook.
LEMMA NextRowStep ==
  ASSUME ChainInvariant, NEW w \in Workers, Busy(w), process # "down", Enqueue,
         \/ work[w].step = "reschedule" /\ Goto(w, "done")
         \/ work[w].step = "hook" /\ Rest(w),
         UNCHANGED <<process, mishaps, losses>>
  PROVE  ChainInvariant'
<1> USE DEF ChainInvariant
<1>1. /\ WorkShaped /\ OnlyWorker(w)
      /\ Busy(w)' => /\ work'[w].step = "done" /\ work'[w].slot = work[w].slot
                     /\ work'[w].attempts = work[w].attempts
      /\ work[w].step = "reschedule" => Busy(w)'
  BY GotoStep, RestWorker DEF Steps
<1>2. /\ JobsOnlyEnd
      /\ \A v \in Workers, t \in Slots : Holds(v, t)' => Holds(v, t)
      /\ \A v \in Workers, t \in Slots : v # w /\ Holds(v, t) => Holds(v, t)'
      /\ \A v \in Workers : v # w => work'[v] = work[v]
      /\ Busy(w)' => \A t \in Slots : Holds(w, t) => Holds(w, t)'
  BY <1>1, OthersKeepJobs
<1>3. PICK s \in Slots : /\ rows[s] = NoRow /\ \A v \in Workers : ~Holds(v, s)
                         /\ RowsShaped /\ OnlyRow(s)
                         /\ rows'[s].state = "queued" /\ rows'[s].attempts = 0 /\ rows'[s] # NoRow
  BY EnqueueRow
<1>4. ~Held(s)'
  BY <1>2, <1>3 DEF Held
<1>5. ChainShape'
  BY <1>1, <1>3 DEF ChainShape, RowsShaped, WorkShaped
<1>6. WorkIsReal'
  <2>1. ASSUME NEW v \in Workers, Busy(v)', work'[v].step = "hook"
        PROVE  rows'[work'[v].slot] = NoRow
    <3>1. v # w /\ Busy(v) /\ work[v].step = "hook" /\ work'[v] = work[v]
      BY <1>1, <1>2, <2>1 DEF Busy
    <3>2. work[v].slot # s /\ work[v].slot \in Slots
      BY <1>3, <3>1, ChainForms DEF Holds, Busy
    <3> QED
      BY <1>3, <3>1, <3>2 DEF WorkIsReal, OnlyRow
  <2> QED
    BY <2>1 DEF WorkIsReal
<1>7. /\ Waiting' \subseteq Waiting \cup {s} /\ Carriers' \subseteq Carriers \ {w} /\ w \in Carriers
      /\ \A t \in Slots \ {s} : t \in Waiting' => t \in Waiting
  <2>1. ASSUME NEW t \in Slots \ {s}, t \in Waiting'
        PROVE  t \in Waiting
    <3>1. rows'[t] = rows[t]
      BY <1>3 DEF OnlyRow
    <3>2. CASE rows[t].state = "queued"
      BY <3>2 DEF Waiting
    <3>3. CASE rows[t].state = "running" /\ ~Held(t)'
      <4>1. Holds(w, t) => Busy(w)'
        BY <1>1, <3>3, ChainForms DEF WorkIsReal, Holds, Busy, NoRow
      <4>2. ~Held(t)
        BY <1>2, <3>3, <4>1 DEF Held
      <4> QED
        BY <3>3, <4>2 DEF Waiting
    <3> QED
      BY <2>1, <3>1, <3>2, <3>3 DEF Waiting
  <2>2. \A v \in Workers : v \in Carriers' => v # w /\ v \in Carriers
    BY <1>1, <1>2 DEF Carriers, Busy
  <2> QED
    BY <2>1, <2>2 DEF Waiting, Carriers
<1>8. mishaps \in Nat
  BY ChainForms
<1>9. ChainsCounted'
  BY <1>7, <1>8, CountsAfterStep
<1>10. RowsMoveOn
  BY <1>3, <1>4, <1>7 DEF RowsMoveOn, RowKept, RowBegins, OnlyRow
<1>11. AttemptsDiffer' /\ AttemptsCounted' /\ WorkBounded'
  BY <1>2, <1>8, <1>10, AttemptsStay
<1>12. s \in Links'
  BY <1>3, <1>4 DEF Links, Pending, Spent, Held
<1> QED
  BY <1>5, <1>6, <1>9, <1>11, <1>12 DEF ChainSurvives

\* A job returns to the queue when its lease ends; under its worker that is a mishap.
LEMMA ReclaimStep ==
  ASSUME ChainInvariant, NEW s \in Slots, ReclaimAbandoned(s) \/ OverrunLease(s)
  PROVE  ChainInvariant'
<1> USE DEF ChainInvariant
<1>1. /\ rows[s].state = "running" /\ process = "up" /\ rows[s] # NoRow
      /\ work' = work /\ process' = process /\ losses' = losses
      /\ mishaps \in Nat /\ mishaps' \in Nat /\ mishaps <= mishaps' /\ mishaps' \in 0..Mishaps
  BY ChainForms, ChainAssumption
     DEF ReclaimAbandoned, OverrunLease, Reclaim, Mishap, ChainShape
<1>2. RowsShaped /\ OnlyRow(s) /\ rows'[s].state = "queued" /\ rows'[s].attempts = rows[s].attempts
  BY ChainForms, WriteRow DEF ReclaimAbandoned, OverrunLease, Reclaim
<1>3. JobsOnlyEnd /\ \A t \in Slots : Held(t)' <=> Held(t)
  BY <1>1 DEF JobsOnlyEnd, Held, Holds, Busy
<1>4. ChainShape'
  BY <1>1, <1>2 DEF ChainShape, RowsShaped
<1>5. WorkIsReal'
  BY <1>1, <1>2, ChainForms DEF WorkIsReal, Busy, OnlyRow
<1>6. /\ Carriers' \subseteq Carriers /\ Waiting' \subseteq Waiting \cup {s}
      /\ \A t \in Slots \ {s} : t \in Waiting' => t \in Waiting
  <2>1. \A t \in Slots \ {s} : t \in Waiting' => t \in Waiting
    BY <1>2, <1>3 DEF Waiting, OnlyRow
  <2> QED
    BY <1>1, <2>1 DEF Waiting, Carriers, Busy
<1>7. ChainsCounted' /\ RowsMoveOn
  <2>1. ASSUME ReclaimAbandoned(s)
        PROVE  s \in Waiting /\ mishaps' = mishaps
    BY <1>1, <2>1 DEF ReclaimAbandoned, Waiting, Held
  <2>2. ASSUME OverrunLease(s)
        PROVE  ChainsCounted' /\ mishaps' = mishaps + 1
    <3>1. PICK w \in Workers : Busy(w) /\ work[w].slot = s
      BY <2>2 DEF OverrunLease, Holds, Busy
    <3>2. mishaps' = mishaps + 1
      BY <2>2 DEF OverrunLease, Mishap
    <3>3. {w} \in SUBSET Workers /\ (\A v \in {w} : Busy(v))
          /\ Waiting' \subseteq Waiting \cup {work[v].slot : v \in {w}}
      BY <1>6, <3>1
    <3> QED
      BY <1>6, <3>2, <3>3, CountsAfterMishap
  <2>3. ChainsCounted'
    <3>1. ReclaimAbandoned(s) => Waiting' \subseteq Waiting
      BY <1>6, <2>1
    <3> QED
      BY <1>1, <1>6, <2>2, <3>1, CountsAfterStep
  <2>4. RowKept(s) /\ \A t \in Slots \ {s} : RowKept(t)
    BY <1>1, <1>2, <1>6, <2>1, <2>2 DEF RowKept, OnlyRow
  <2> QED
    BY <2>3, <2>4 DEF RowsMoveOn
<1>8. AttemptsDiffer' /\ AttemptsCounted' /\ WorkBounded'
  BY <1>1, <1>3, <1>7, AttemptsStay
<1>9. ChainSurvives'
  <2>1. \A t \in Links : t \in Links'
    BY <1>1, <1>2 DEF Links, Pending, Spent, Holds, OnlyRow
  <2>2. Hooks' = Hooks
    BY <1>1 DEF Hooks
  <2> QED
    BY <1>1, <2>1, <2>2 DEF ChainSurvives
<1> QED
  BY <1>4, <1>5, <1>7, <1>8, <1>9

\* A crash takes the work out of everybody's hands; the rows stay as they are.
LEMMA CrashStep ==
  ASSUME ChainInvariant, Crash
  PROVE  ChainInvariant'
<1> USE DEF ChainInvariant
<1>1. /\ process' = "down" /\ rows' = rows /\ losses' = losses /\ mishaps' = mishaps + 1
      /\ work' = [w \in Workers |-> Idle] /\ \A w \in Workers : ~Busy(w)'
      /\ mishaps \in Nat /\ mishaps' \in Nat /\ mishaps <= mishaps' /\ mishaps' \in 0..Mishaps
  BY ChainForms, ChainAssumption DEF Crash, Mishap, Busy
<1>2. JobsOnlyEnd /\ WorkIsReal' /\ Carriers' \subseteq Carriers
  BY <1>1 DEF JobsOnlyEnd, WorkIsReal, Carriers
<1>3. ChainShape'
  BY <1>1 DEF ChainShape
<1>4. PICK W \in SUBSET Workers : W = {w \in Workers : Busy(w)}
  OBVIOUS
<1>5. Waiting' \subseteq Waiting \cup {work[w].slot : w \in W}
  BY <1>1, <1>4 DEF Waiting, Held, Holds, Busy
<1>6. ChainsCounted'
  BY <1>1, <1>2, <1>4, <1>5, CountsAfterMishap
<1>7. RowsMoveOn
  BY <1>1 DEF RowsMoveOn, RowKept, Waiting
<1>8. AttemptsDiffer' /\ AttemptsCounted' /\ WorkBounded'
  BY <1>1, <1>2, <1>7, AttemptsStay
<1> QED
  BY <1>1, <1>2, <1>3, <1>6, <1>8 DEF ChainSurvives

\* A process that begins to stop, has stopped, or does something else.
LEMMA ChainRestsStep ==
  ASSUME ChainInvariant, Stop \/ Exit \/ UNCHANGED chainVars
  PROVE  ChainInvariant'
<1> USE DEF ChainInvariant
<1>1. /\ rows' = rows /\ work' = work /\ losses' = losses /\ process' \in {"up", "stopping", "down"}
      /\ mishaps \in Nat /\ mishaps' \in Nat /\ mishaps <= mishaps' /\ mishaps' \in 0..Mishaps
      /\ process' = "up" => process = "up"
      /\ process' = "down" => \A w \in Workers : ~Busy(w)
  BY ChainForms, ChainAssumption DEF Stop, Exit, Mishap, chainVars, ChainShape, WorkIsReal, Busy
<1>2. JobsOnlyEnd /\ Carriers' = Carriers /\ Waiting' = Waiting
  BY <1>1 DEF JobsOnlyEnd, Carriers, Waiting, Held, Holds, Busy
<1>3. ChainShape' /\ WorkIsReal'
  BY <1>1 DEF ChainShape, WorkIsReal, Busy
<1>4. ChainsCounted'
  BY <1>1, <1>2, CountsAfterStep
<1>5. RowsMoveOn
  BY <1>1, <1>2 DEF RowsMoveOn, RowKept
<1>6. AttemptsDiffer' /\ AttemptsCounted' /\ WorkBounded'
  BY <1>1, <1>2, <1>5, AttemptsStay
<1>7. ChainSurvives'
  BY <1>1 DEF ChainSurvives, Links, Hooks, Pending, Spent, Holds
<1> QED
  BY <1>3, <1>4, <1>6, <1>7

\* Every step of the chain keeps its invariant.
LEMMA ChainInvariantStep ==
  ASSUME ChainInvariant, ChainStep
  PROVE  ChainInvariant'
<1>1. mishaps \in Nat /\ losses \in Nat /\ Mishaps \in Nat /\ mishaps \in 0..Mishaps /\ losses \in 0..Losses
  BY ChainForms, ChainAssumption DEF ChainInvariant, ChainShape
<1>2. ASSUME NEW w \in Workers, Handle(w)
      PROVE  ChainInvariant'
  BY <1>1, <1>2, GotoChainStep DEF Handle, At, Busy, Steps
<1>3. ASSUME NEW w \in Workers, HandlerFails(w)
      PROVE  ChainInvariant'
  <2>1. PICK step \in Steps \ {"hook"} : step # "done" /\ Goto(w, step)
    BY <1>3 DEF HandlerFails, Steps
  <2>2. /\ Busy(w) /\ process # "down" /\ work[w].step = "handle" /\ rows' = rows
        /\ process' = process /\ losses' = losses /\ mishaps' \in 0..Mishaps /\ mishaps <= mishaps'
    BY <1>1, <1>3 DEF HandlerFails, At, Mishap, Busy
  <2> QED
    BY <1>1, <2>1, <2>2, GotoChainStep
<1>4. ASSUME NEW w \in Workers, RescheduleLost(w)
      PROVE  ChainInvariant'
  <2>1. /\ Busy(w) /\ process # "down" /\ work[w].step = "reschedule" /\ rows' = rows
        /\ process' = process /\ mishaps' = mishaps /\ Goto(w, "done")
        /\ losses' \in 0..Losses /\ losses <= losses' /\ (process = "stopping" \/ losses' # 0)
    BY <1>1, <1>4, ChainAssumption DEF RescheduleLost, At, Busy
  <2>2. "done" \in Steps \ {"hook"}
    BY DEF Steps
  <2> QED
    BY <1>1, <2>1, <2>2, GotoChainStep
<1>5. ASSUME NEW w \in Workers, Reschedule(w)
      PROVE  ChainInvariant'
  BY <1>5, NextRowStep DEF Reschedule, At, Busy
<1>6. ASSUME NEW w \in Workers, MarkDone(w)
      PROVE  ChainInvariant'
  <2>1. /\ Busy(w) /\ process # "down" /\ work[w].step = "done" /\ Rest(w)
        /\ process' = process /\ mishaps' = mishaps /\ losses' = losses
        /\ \/ rows' = rows /\ rows[work[w].slot].state # "running"
           \/ rows' = [rows EXCEPT ![work[w].slot] = NoRow]
    BY <1>6 DEF MarkDone, At, Busy
  <2> QED
    BY <1>1, <2>1, RestChainStep
<1>7. ASSUME NEW w \in Workers, MarkFailure(w)
      PROVE  ChainInvariant'
  <2>1. /\ Busy(w) /\ process # "down" /\ work[w].step \in {"retry", "terminal"}
        /\ UNCHANGED <<process, mishaps, losses>>
    BY <1>7 DEF MarkFailure, Failed, At, Busy
  <2>2. CASE rows[work[w].slot].state # "running"
    <3>1. Rest(w) /\ rows' = rows
      BY <1>7, <2>2 DEF MarkFailure
    <3> QED
      BY <1>1, <2>1, <2>2, <3>1, RestChainStep
  <2>3. CASE rows[work[w].slot].state = "running" /\ Permanent(w)
    <3>1. Goto(w, "hook") /\ rows' = [rows EXCEPT ![work[w].slot] = NoRow]
      BY <1>7, <2>3 DEF MarkFailure
    <3> QED
      BY <2>1, <3>1, ParkChainStep
  <2>4. CASE rows[work[w].slot].state = "running" /\ ~Permanent(w)
    <3>1. Rest(w) /\ Write(work[w].slot, "queued", rows[work[w].slot].attempts)
      BY <1>7, <2>4 DEF MarkFailure
    <3>2. work[w].step = "retry" /\ work[w].attempts < MaxAttempts
      <4>1. work[w].attempts \in Nat /\ MaxAttempts \in Nat
        BY <2>1, ChainForms, ChainAssumption DEF ChainInvariant
      <4> QED
        BY <2>1, <2>4, <4>1 DEF Permanent
    <3> QED
      BY <2>1, <2>4, <3>1, <3>2, ReturnChainStep
  <2> QED
    BY <2>2, <2>3, <2>4
<1>8. ASSUME NEW w \in Workers, Hook(w)
      PROVE  ChainInvariant'
  <2>1. /\ Busy(w) /\ process # "down" /\ work[w].step = "hook" /\ Rest(w)
        /\ process' = process /\ mishaps' = mishaps
    BY <1>8 DEF Hook, At, Busy
  <2>2. CASE Enqueue /\ UNCHANGED losses
    BY <2>1, <2>2, NextRowStep
  <2>3. CASE losses < Losses /\ losses' = losses + 1 /\ UNCHANGED rows
    <3>1. rows[work[w].slot].state # "running"
      BY <2>1 DEF ChainInvariant, WorkIsReal, NoRow
    <3>2. losses' \in 0..Losses /\ losses' # 0
      BY <1>1, <2>3, ChainAssumption
    <3> QED
      BY <2>1, <2>3, <3>1, <3>2, RestChainStep
  <2> QED
    BY <1>8, <2>2, <2>3 DEF Hook
<1> QED
  BY <1>2, <1>3, <1>4, <1>5, <1>6, <1>7, <1>8, ClaimStep, StartWorkerStep, CrashStep, ReclaimStep,
     ChainRestsStep DEF ChainStep, ChainNext, Bookkeeping

\* In every reachable state a started process has the next run of the recurring job in
\* sight, and the chains are no more than the mishaps account for.
THEOREM ChainInvariantHolds == Spec => []ChainInvariant
<1>1. Init => ChainInvariant
  <2> SUFFICES ASSUME Init
               PROVE  ChainInvariant
    OBVIOUS
  <2>1. ChainInit
    BY DEF Init
  <2>2. \A w \in Workers : ~Busy(w)
    BY <2>1 DEF ChainInit, Busy
  <2>3. ChainShape
    BY <2>1, ChainAssumption DEF ChainInit, ChainShape
  <2>4. WorkIsReal /\ AttemptsDiffer /\ WorkBounded
    BY <2>2 DEF WorkIsReal, AttemptsDiffer, WorkBounded
  <2>5. Waiting = {} /\ Carriers = {} /\ \A s \in Slots : rows[s].state = "free"
    BY <2>1, <2>2 DEF ChainInit, Waiting, Carriers, NoRow
  <2>6. ChainsCounted
    <3>1. PICK p \in Nat : p = mishaps * Cardinality(Workers)
      BY <2>3, ChainForms, ChainSetsFinite
    <3>2. 0 + 0 <= 1 + p
      OBVIOUS
    <3> QED
      BY <2>5, <3>1, <3>2, FS_EmptySet DEF ChainsCounted
  <2>7. AttemptsCounted
    BY <2>5 DEF AttemptsCounted, AttemptsFit
  <2>8. ChainSurvives
    BY <2>1 DEF ChainInit, ChainSurvives
  <2> QED
    BY <2>3, <2>4, <2>6, <2>7, <2>8 DEF ChainInvariant
<1>2. ChainInvariant /\ [Next]_vars => ChainInvariant'
  BY ChainInvariantStep, StepsCompose
<1> QED
  BY <1>1, <1>2, PTL DEF Spec

\* While the process runs and no queueing of the next row was lost, some row or hook
\* leads to the next run: through retries, parking, crashes, stops and restarts.
THEOREM ChainAlwaysSurvives == Spec => []ChainSurvives
BY ChainInvariantHolds, PTL DEF ChainInvariant

\* Links that do not wait are under work: each is told apart by a worker at it.
LEMMA LinksAreCounted ==
  ASSUME ChainInvariant
  PROVE  ChainsPerMishap
<1> DEFINE H == {work[w].slot : w \in Carriers \ Hooks}
           p == mishaps * Cardinality(Workers)
<1>1. Links \subseteq Waiting \cup H
  <2> SUFFICES ASSUME NEW s \in Links, s \notin Waiting
               PROVE  \E w \in Carriers \ Hooks : work[w].slot = s
    OBVIOUS
  <2>1. s \in Slots /\ rows[s].state = "running" /\ Held(s)
    BY DEF Links, Pending, Waiting
  <2>2. PICK w \in Workers : Holds(w, s)
    BY <2>1 DEF Held
  <2>3. work[w].step # "done" /\ work[w].slot = s /\ Busy(w)
    BY <2>2 DEF Links, Spent, Holds, Busy
  <2>4. work[w].step # "hook"
    BY <2>1, <2>3 DEF ChainInvariant, WorkIsReal, NoRow
  <2> QED
    BY <2>3, <2>4 DEF Carriers, Hooks
<1>2. Hooks \subseteq Carriers /\ IsFiniteSet(Hooks) /\ Cardinality(Hooks) \in Nat
  <2>1. Hooks \in SUBSET Carriers
    BY ChainForms DEF Hooks, Carriers, ChainInvariant
  <2> QED
    BY <2>1, ChainSetsFinite, FS_Subset, FS_CardinalityType
<1>3. /\ IsFiniteSet(Carriers \ Hooks) /\ Cardinality(Carriers \ Hooks) \in Nat
      /\ Cardinality(Carriers \ Hooks) + Cardinality(Hooks) = Cardinality(Carriers)
  <2>1. IsFiniteSet(Carriers \ Hooks) /\ Cardinality(Carriers \ Hooks) \in Nat
    <3>1. Carriers \ Hooks \in SUBSET Carriers
      OBVIOUS
    <3> QED
      BY <3>1, ChainSetsFinite, FS_Subset, FS_CardinalityType
  <2>2. (Carriers \ Hooks) \cup Hooks = Carriers /\ (Carriers \ Hooks) \cap Hooks = {}
    BY <1>2
  <2>3. Cardinality(Carriers) = Cardinality(Carriers \ Hooks) + Cardinality(Hooks) - 0
    BY <1>2, <2>1, <2>2, FS_Union, FS_EmptySet
  <2> QED
    BY <1>2, <2>1, <2>3
<1>4. IsFiniteSet(H) /\ Cardinality(H) \in Nat /\ Cardinality(H) <= Cardinality(Carriers \ Hooks)
  <2>1. Carriers \ Hooks \in SUBSET Workers /\ \A w \in Carriers \ Hooks : Busy(w)
    BY DEF Carriers
  <2> QED
    BY <2>1, FewHeld DEF ChainInvariant
<1> HIDE DEF H
<1>5. /\ Cardinality(Waiting \cup H) <= Cardinality(Waiting) + Cardinality(H)
      /\ IsFiniteSet(Waiting \cup H) /\ Cardinality(Waiting \cup H) \in Nat
  <2>1. /\ IsFiniteSet(Waiting \cup H)
        /\ Cardinality(Waiting \cup H) = Cardinality(Waiting) + Cardinality(H) - Cardinality(Waiting \cap H)
    BY <1>4, ChainSetsFinite, FS_Union
  <2>2. Cardinality(Waiting \cap H) \in Nat
    <3>1. Waiting \cap H \in SUBSET H
      OBVIOUS
    <3> QED
      BY <1>4, <3>1, FS_Subset, FS_CardinalityType
  <2>3. Cardinality(Waiting \cup H) \in Nat
    BY <2>1, FS_CardinalityType
  <2> QED
    BY <1>4, <2>1, <2>2, <2>3, ChainSetsFinite
<1>6. Cardinality(Links) <= Cardinality(Waiting \cup H) /\ Cardinality(Links) \in Nat
  BY <1>1, <1>5, FS_Subset, FS_CardinalityType
<1>7. Cardinality(Carriers) + Cardinality(Waiting) <= 1 + p /\ p \in Nat
  BY ChainForms, ChainSetsFinite DEF ChainInvariant, ChainsCounted
<1> HIDE DEF p
<1>8. Cardinality(Links) + Cardinality(Hooks) <= 1 + p
  BY <1>2, <1>3, <1>4, <1>5, <1>6, <1>7, ChainSetsFinite
<1> QED
  BY <1>8 DEF p, ChainsPerMishap

\* The recurring job never has more chains than one and those the mishaps account for,
\* one at most for each worker a mishap interrupts: whatever the number of workers.
THEOREM ChainsPerMishapHold == Spec => []ChainsPerMishap
<1>1. ChainInvariant => ChainsPerMishap
  BY LinksAreCounted
<1> QED
  BY <1>1, ChainInvariantHolds, PTL

\* Every reachable state has its type.  That no row counts more attempts than a job may
\* have and the mishaps take is no assumption: it follows from the counts.
THEOREM SessionExpiryTypeCorrect == Spec => []TypeOK
<1>1. ChainInvariant => ChainTypeOK
  <2> SUFFICES ASSUME ChainInvariant
               PROVE  ChainTypeOK
    OBVIOUS
  <2> USE DEF ChainInvariant
  <2>1. ASSUME NEW s \in Slots
        PROVE  rows[s] \in Rows
    <3>1. PICK c \in Nat : c = Cardinality(Returned(s)) /\ c <= MaxAttempts - 1
      BY ReturnedFinite
    <3>2. /\ mishaps \in Nat /\ mishaps <= Mishaps /\ Mishaps \in Nat /\ MaxAttempts \in Nat
          /\ rows[s].attempts \in Nat
      BY ChainForms, ChainAssumption DEF ChainShape
    <3>3. rows[s].state \in {"queued", "running"} => rows[s].attempts <= c + mishaps + 1
      BY <3>1, <3>2 DEF AttemptsCounted, AttemptsFit, Waiting
    <3>4. rows[s].state \in {"queued", "running"} => rows[s].attempts \in 0..(MaxAttempts + Mishaps)
      BY <3>1, <3>2, <3>3
    <3>5. rows[s] \in {NoRow} \cup [state: {"queued", "running"}, attempts: Nat]
      BY DEF ChainShape
    <3> QED
      BY <3>4, <3>5 DEF Rows
  <2>2. ASSUME NEW w \in Workers
        PROVE  work[w] \in Works
    <3>1. work[w] \in {Idle} \cup [step: Steps, slot: Slots, attempts: Nat \ {0}]
      BY DEF ChainShape
    <3>2. work[w] # Idle => work[w].attempts \in 1..(MaxAttempts + Mishaps)
      BY <3>1, ChainAssumption DEF WorkBounded, Busy
    <3> QED
      BY <3>1, <3>2 DEF Works
  <2> QED
    BY <2>1, <2>2 DEF ChainShape, ChainTypeOK
<1>2. SessionInvariant => SessionTypeOK
  BY DEF SessionInvariant
<1> QED
  BY <1>1, <1>2, ChainInvariantHolds, SessionInvariantHolds, PTL DEF TypeOK
=============================================================================
