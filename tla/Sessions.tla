------------------------------ MODULE Sessions ------------------------------
(***************************************************************************)
(* The bearer sessions of internal/service/auth: login, the authentication *)
(* of a request, logout and the revocation of all sessions of an account,   *)
(* and the clean-up of expired sessions.                                   *)
(*                                                                         *)
(* A request reads its rows outside any transaction: what it read may be    *)
(* old when it writes.  Time is counted in whole seconds, the unit times    *)
(* are truncated to; the time to live is a number of them.                 *)
(***************************************************************************)
EXTENDS Integers, FiniteSets

CONSTANTS
  Tokens,   \* one token per session: a session is known by it
  Users,
  Requests,
  TTL,      \* seconds a session lives
  MaxTime   \* bound on time

ASSUME SessionAssumption ==
  /\ IsFiniteSet(Tokens)
  /\ TTL \in Nat \ {0}
  /\ MaxTime \in Nat

VARIABLES
  sessions, \* rows of sessions, None for a token not issued
  logouts,  \* audit rows of each session's logout
  now,      \* the clock
  req       \* the requests in flight

sessionVars == <<sessions, logouts, now, req>>

None == [user |-> "none"]
Never == MaxTime + 1
Times == 0..MaxTime
Session == [user: Users, issued: Times, seen: Times, revoked: 0..Never]

Ready == [op |-> "ready"]
Calls ==
  {Ready}
    \cup [op: {"login"}, token: Tokens, user: Users, at: Times]
    \cup [op: {"touch"}, token: Tokens, at: Times]
    \cup [op: {"actor"}, token: Tokens]

SessionTypeOK ==
  /\ sessions \in [Tokens -> {None} \cup Session]
  /\ logouts \in [Tokens -> Nat]
  /\ now \in Times
  /\ req \in [Requests -> Calls]

SessionInit ==
  /\ sessions = [t \in Tokens |-> None]
  /\ logouts = [t \in Tokens |-> 0]
  /\ now = 0
  /\ req = [r \in Requests |-> Ready]

-----------------------------------------------------------------------------
(* Definitions marked Mutant are plausible wrong forms of the ones they     *)
(* precede, used only to check that the properties notice them.            *)

Issued(t) == sessions[t] # None
ExpiresAt(t) == sessions[t].issued + TTL
Revoked(t) == sessions[t].revoked # Never
Expired(t) == now >= ExpiresAt(t)

\* Mutant: a session is still good in the second it expires.
ActiveToTheEnd(t) == ~Revoked(t) /\ now <= ExpiresAt(t)

Active(t) == ~Revoked(t) /\ ~Expired(t)

RevokeSessions(S) ==
  sessions' = [t \in Tokens |-> IF t \in S THEN [sessions[t] EXCEPT !.revoked = now]
                                ELSE sessions[t]]

Answer(r, reply) ==
  /\ req' = [req EXCEPT ![r] = reply]
  /\ UNCHANGED now

\* The request ends without effect, or after an operation that reads the actor only.
Finish(r) ==
  /\ req[r] # Ready
  /\ Answer(r, Ready)
  /\ UNCHANGED <<sessions, logouts>>

\* The password is right: a new token is drawn and the times of the session are set.
BeginLogin(r, t, u) ==
  /\ req[r] = Ready
  /\ ~Issued(t)
  /\ \A q \in Requests : req[q].op = "login" => req[q].token # t
  /\ Answer(r, [op |-> "login", token |-> t, user |-> u, at |-> now])
  /\ UNCHANGED <<sessions, logouts>>

\* Mutant: the session counts as seen until it expires.
LoginSeenAhead(r) ==
  LET c == req[r] IN
  /\ c.op = "login"
  /\ sessions' = [sessions EXCEPT ![c.token] =
                    [user |-> c.user, issued |-> c.at, seen |-> c.at + TTL, revoked |-> Never]]
  /\ Answer(r, Ready)
  /\ UNCHANGED logouts

\* The session is stored with the times that were read at the beginning.
Login(r) ==
  LET c == req[r] IN
  /\ c.op = "login"
  /\ sessions' = [sessions EXCEPT ![c.token] =
                    [user |-> c.user, issued |-> c.at, seen |-> c.at, revoked |-> Never]]
  /\ Answer(r, Ready)
  /\ UNCHANGED logouts

\* The middleware reads the session of the bearer token.
BeginAuthenticate(r, t) ==
  /\ req[r] = Ready
  /\ Issued(t)
  /\ Active(t)
  /\ Answer(r, [op |-> "touch", token |-> t, at |-> now])
  /\ UNCHANGED <<sessions, logouts>>

\* UPDATE sessions SET last_seen_at WHERE revoked_at IS NULL; nobody looks at the
\* rows affected, the request goes on with its actor either way.
TouchLastSeen(r) ==
  LET t == req[r].token IN
  /\ req[r].op = "touch"
  /\ sessions' = IF Revoked(t) THEN sessions ELSE [sessions EXCEPT ![t].seen = req[r].at]
  /\ Answer(r, [op |-> "actor", token |-> t])
  /\ UNCHANGED logouts

\* Mutant: the update does not look at revoked_at.
LogoutAnySession(r) ==
  LET t == req[r].token IN
  /\ req[r].op = "actor"
  /\ RevokeSessions({t})
  /\ logouts' = [logouts EXCEPT ![t] = @ + 1]
  /\ Answer(r, Ready)

\* The session is revoked and the logout recorded together; a session revoked before
\* makes the logout fail.
Logout(r) ==
  LET t == req[r].token IN
  /\ req[r].op = "actor"
  /\ ~Revoked(t)
  /\ RevokeSessions({t})
  /\ logouts' = [logouts EXCEPT ![t] = @ + 1]
  /\ Answer(r, Ready)

\* Every session of the account that is not revoked, the expired ones included.
RevokeAll(r) ==
  LET u == sessions[req[r].token].user IN
  /\ req[r].op = "actor"
  /\ RevokeSessions({t \in Tokens : Issued(t) /\ sessions[t].user = u /\ ~Revoked(t)})
  /\ Answer(r, Ready)
  /\ UNCHANGED logouts

\* UPDATE sessions SET revoked_at WHERE revoked_at IS NULL AND expires_at <= now
ExpireSessions ==
  /\ RevokeSessions({t \in Tokens : Issued(t) /\ ~Revoked(t) /\ Expired(t)})
  /\ UNCHANGED <<logouts, now, req>>

Tick ==
  /\ now < MaxTime
  /\ now' = now + 1
  /\ UNCHANGED <<sessions, logouts, req>>

SessionNext ==
  \/ \E r \in Requests :
       \/ \E t \in Tokens : BeginAuthenticate(r, t) \/ \E u \in Users : BeginLogin(r, t, u)
       \/ Login(r) \/ TouchLastSeen(r) \/ Logout(r) \/ RevokeAll(r) \/ Finish(r)
  \/ Tick

-----------------------------------------------------------------------------
(* Properties.                                                             *)

\* A session is last seen while it lives: never in the second it expires, never after
\* its revocation, although the time is read before the row is written and several
\* requests of the session overlap.
SeenWhileAlive ==
  \A t \in Tokens : Issued(t) =>
    /\ sessions[t].issued <= sessions[t].seen
    /\ sessions[t].seen < ExpiresAt(t)
    /\ sessions[t].seen <= sessions[t].revoked

\* Of concurrent logouts of a session at most one succeeds and is recorded, and only
\* for a session that is over.
LogoutRecordedOnce ==
  \A t \in Tokens :
    logouts[t] <= 1 /\ (logouts[t] = 1 => Issued(t) /\ Revoked(t))
=============================================================================
